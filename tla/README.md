# FlashControl in TLA+

FlashControl collects what USB storage devices show of themselves on Windows
workstations and correlates it on a server.  This directory holds TLA+ models of
its parts, the TLC runs that check them on small instances, and proofs that TLAPS
checks for every value of the constants.  `PROJECT.json` is the index: components,
runs, the source lines each definition stands for, findings, hazards, theorems.

    tlc -workers 2 -config AgentDelivery.cfg MCAgentDelivery.tla
    tlapm AgentDeliveryProofs.tla

`Chain` has no run: what it states is proved in `AgentDeliveryProofs`.

## 1. The system

```
 disks --events--> Agent service --HTTPS--> PIB Server --> PostgreSQL
                   (one thread,        ^    (handlers on     ^
                    SQLite queue)      |     a pool)         | read API, web UI
                        \              |                     |
                         +--> Proxy ---+                  operators
                              (handlers on a pool, one
                               forwarder task, SQLite queue)
```

An agent is configured with one collector address, which is the PIB Server or a
Proxy.  Every message is an HTTP request that may be refused, lost on the way,
processed and its answer lost, or processed long after the sender gave up.

| component | source | state | operations |
|---|---|---|---|
| agent: delivery queue and drain | `FlashControlAgent/delivery_queue.py`, `service.py:306-335` | SQLite table `delivery_queue`, the batch in memory | `enqueue_json`, `due`, `mark_delivered`, `mark_failed`, `deliver_due` |
| agent: collection | `service.py:190-258, 373-409, 476-509, 590-614` | `device_cache`, `device_scan_at`, `next_collection_at`, the auto-reset event | notification, debounced rescan, periodic scan |
| agent: credentials | `service.py:295-355, 511-588`, `heartbeat.py` | the token file, `stale_token_recovery_attempted` | enroll, persist, use, forget |
| agent: collector | `main.py`, `observation_payload.py` | within a scan: what is listed and opened; watch mode: the devices of the last poll | scan, watch, format |
| agent: installer | `installer.py` | install and state directories, the service's registration | install, uninstall, reinstall, migrate |
| proxy: queue and forwarder | `FlashControlProxy/queue.py`, `app.py:90-131, 187-209` | SQLite table `forward_queue`, the batch in memory | two enqueues, `due`, `delivered`, `failed`, `forward_loop` |
| proxy: enrollment | `app.py:51-77, 137-174`, `queue.py:143-186` | table `agent_tokens` | enroll, check |
| server: ingest and identity | `FlashControlPIBServer/app/main.py:113-261, 397-615`, `identity.py` | observations, devices, media states, decisions, computers, agents | ingest, heartbeat, three deletions |
| server: machine credentials | `enroll.py`, `machine_auth.py` | `agents.token_hash` | issue, check |
| server: operators | `auth.py`, `main.py:313-383`, `ldap_auth.py` | users, sessions, audit log | login, logout, user administration |
| server: rate limiter | `ratelimit.py` | hits per client | check |
| server: read API, web | `read_api.py`, `web/`, `web-react/` | none | queries |

How they touch: the agent's queue is filled by the collection and emptied by the
drain, both in the one service thread; the drain and the heartbeat share the
token the credentials code holds; the Proxy's handlers and its forwarder share
the table; the server's handlers share the database.

What is hard, and what has to hold:

* **Delivery.** Nothing accepted is lost and nothing is stored twice, though
  answers are lost, requests arrive late, processes die between any two steps,
  and rows the server rejects are retried for ever.
* **The Proxy.** Its forwarder acts on a row after an `await` during which the
  handlers may have replaced it; an exception at the wrong place ends it.
* **Collection.** Disks change while a scan runs; a periodic scan and a rescan
  share one cache.
* **Credentials.** The two requests of one pass may both be refused; an enroll
  answer may be lost; the database may be reset.
* **The collector.** Windows does not hold still during a scan: a drive number may
  belong to another disk by the time the drive is opened, and any call may fail.
* **The installer.** It fails or is interrupted between any two steps, and finds the
  service running, stopped or killed; the queue and the UUID have to survive.
* **Identity.** Decisions depend on what arrived, in which order, and on what
  was deleted; devices must be neither merged nor split, also when the
  transactions of several requests overlap.
* **Operators.** A request decides by what it read and writes much later: logins
  overlap the disabling of their user, administrators demote each other.

`PROJECT.json` lists these as hazards at the lines where they bite.

## 2. Plan

The modules, in the order of what matters most to the system:

1. `EventDelivery`, what a durable queue promises; `AgentDelivery` and
   `ProxyForwarder`, the two queues, each shown to implement it; `Chain`, an agent
   behind whose queue a Proxy has one more, shown to implement it again.
2. `Identity`, the rows of the server one request at a time; `IngestTxn`, the same
   rows under overlapping transactions.
3. `DeviceChange` and `Watch`, what the agent notices of disks.
4. `Enrollment`, `Operators`, the credentials of machines and people.
5. `Installer`, what happens to the agent's state across its versions.

Each module `M` has its model values in `MCM` where it needs any, and its theorems
in `MProofs`; `IngestTxn` extends `Identity`, and `IngestTxnProofs` has the theorems
of both.  Parameters are CONSTANTS with
named assumptions, no module declares a RECURSIVE operator, and every operation is
one action or, where others may step in between, one action per step of it.

What is left, in this order: the Proxy's enrollment (`agent_tokens`, the bootstrap
token); overlapping deletions in `IngestTxn`; overlapping transactions of the
server's `enroll`; the rate limiter.

## 3. The modules

### EventDelivery

`Commit` (the queue accepts a payload as a whole, of which some may have been
accepted before), `Record` (the next station stores), `Forget` (the queue lets go),
and `Forget` only after `Record`.

### AgentDelivery

| TLA+ | code |
|---|---|
| `queued`, `attempts`, `backoff` | rows, `attempts` and `next_attempt_at - now` of `delivery_queue` |
| `batch`, `cur` | the list `deliver_due` iterates over; the row of the iteration |
| `reply`, `late` | the request in flight; requests nobody waits for any more |
| `inserts` | how often the server inserted a row for the event |
| `Collect`, `SkipCollection` | `enqueue_json` with `QueueFullError`; a scan not due or failed |
| `StartDrain`, `Post`, `ReceiveOk`, `SenderFails`, `MarkDelivered`, `AckFails`, `MarkFailed` | `due`, and the body of `deliver_due` with `sender` |
| `ServerAccepts`, `ServerRejects`, `ServerHandlesLate`, `LateRequestDies` | `ingest_observations` on the event, the network |
| `Wait`, `Crash`, `Restart` | the end of a pass; the death of the process |

Time passes when the loop waits, so `backoff` counts down there, by any number of
units up to `MaxPass`; a crash keeps the rows (WAL, `synchronous=FULL`) and loses
the rest.  Events are numbered in the order of `ORDER BY created_at, event_id`.

### ProxyForwarder

`forward_once` awaits Main between reading a row and acting on it, so the handlers
(`ServeObservations`, `ServeHeartbeat`) may run between `Post` and `Delivered`, and
the batch read by `ReadDue` may be stale.  `failed` is two steps, as in the code:
it reads under the lock and writes under another acquisition.  A row's `stamp` is
the number of the request that wrote it.  A method of `ProxyQueue` may raise
(`DeliveredRaises`, `TaskDies`), the process may be killed (`Crash`), Main may be
late.  Main is taken from the server's own code.  For the refinement an
observation is committed when its request was answered with 202, recorded when
Main has stored it, kept while its row is in the table.

### Chain

EXTENDS `AgentDelivery`: the whole agent, with a Proxy for its server.  Of the Proxy
the module takes the promise, as an instance of `EventDelivery` that
`ProxyForwarder` implements (`Refinement`): what the agent sees recorded is what the
Proxy has committed to, `forwarding` is its table, `stored` what Main has.  An event
the agent posted before may arrive again.  Each step changes the rows of one
database (`OneDatabaseAtATime`).  The agent and the Proxy together implement one
`EventDelivery` whose kept events are those of both queues.

### DeviceChange

The service thread and the thread that calls `SvcOtherEx`; `Change` may happen at
any moment, during a scan too.  `ProcessNotification` and `ProcessPeriodic` replace
the cache before `enqueue_json` is called, as the code does.

### Watch

`scan_physical_disks` lists the interfaces, then the volumes, then opens the drives
by number, and each of these is a step of its own for each disk, with disks plugged
in and out (`Plug`, `Unplug`) and calls failing between any two.  `slot` says which
disk Windows has given a drive number to.  A record is the disk its interface, its
drive and its volumes are of, which may be three different ones.  `watch_usb`
compares the presence keys of a poll with the cache and rescans when they differ.
`cause` and `loss` count, per disk, the reasons there were for an event less the
events written.

### Enrollment

One agent, `token_hash` on the server, and every mode of credentials
(`mode`).  A pass is check, enroll, drain, heartbeat; the drain and the heartbeat
use the token the pass holds.  A request the agent gave up may still enroll.
`StopAndStart` waits for the end of the pass, as `SvcStop` does; `DieAndStart` does
not.

### Installer

The install and the state directory, each with the queue (`main`: what the database
file holds, `all`: what is committed, with the `-wal` file) and the UUID it may
hold; `agent_config.json`; the service's registration, and the service itself, which
runs, is stopped (the queue is closed and the file complete), or is killed by
`taskkill /F`.  Every step of `install`, `uninstall` and `reinstall` is an action, may
fail and ends the installer there; `rmtree` deletes any part of what it should.
`excused` records the three things by which the code loses something (section 6).

### Identity

One step per request: `IngestObservation` is `ensure_computer`, the authoritative
`computer_id` of a direct agent, and the whole of `resolve_identity`; the
deletions are the whole handlers.  Hashes and serials are values that are equal
or not, a media state is its unique key, and of devices, media states and computers
`last_seen_at` is kept.  Where the database leaves the order of rows of one time
open, the model takes every order.

### IngestTxn

EXTENDS `Identity`, whose variables are the committed rows here.  A thread has the
request it handles (`thread`), and each statement of `ingest_observations` is a step:
`InsertEvent`, `ReadComputer`, `AddComputer`, `Classify`, `Link` or
`ProvisionDevice`, `ReadMedia`, `AddMedia`, `Commit`.  A statement sees what is
committed; a transaction writes from what it read.  An INSERT of a unique key that
another open transaction has inserted waits, and fails if that one commits;
a foreign key to a deleted row fails the COMMIT.  Sessions are closed in any case.
A client repeats an observation until it has a 2xx (`answered`): the answer may be
lost after the commit (`Answer200`), and a repetition of what is stored is answered by
`Duplicate`.

### Operators

`login` (local password, directory), `logout`, the use and expiry of a session,
`update_user`, `create_user` and `manage_user`, each from its reads to its commit on
threads that overlap.  `epoch` counts how often a user was disabled or given
another password; `raced` has the logins that overlapped such an update, and
`overtaken` the updates whose author lost his access under way.  A user of the
directory in none of the mapped groups gets `DefaultRole`, if it is a role.

## 4. The runs

| run | checks | bounds, and why they are enough |
|---|---|---|
| AgentDelivery | `TypeOK`, `NoLoss`, `RecordedOnce`, `WithinCapacity`, `RespectsBackoff`, `ImplementsDelivery`, `Delivered` | three events, payloads of up to two, a queue of two (so it is hit exactly, and by a payload that half fits), one row per drain behind a rejected one (so starvation could happen), a delay that saturates, one crash |
| ProxyForwarder | `ImplementsDelivery`, `NoObservationLost`, `WithinCapacity`, `RowsCarryLatestHeartbeat`, `HeartbeatRowsLeaveForwarded`, `ForwardedWhileAlive` | two observations, one of them rejected for ever, and an agent, for two rows; one row per batch, so the rejected one could starve the rest; two requests, a kill and an SQLite error. 89,631 states |
| DeviceChange | `NoLostWakeup`, `NotDisconnectedTwice`, `CacheCatchesUp` | two disks, three changes, a queue of three, a failing scan, a restart. 288,408 states |
| Watch | `EventsHaveCause`, `Settles` | three disks for two drive numbers (so one takes the number of another), one of them on the USB bus by its parents alone; three changes and a failing call. 896,278 states |
| Enrollment | `ForgetsOnce`, `NeverForgetsValid`, `NeverRotated`, `Recovers` | two resets, a lost answer, a restart, a crash and a file error, so every pair of failures meets |
| Installer | `QueueKept`, `IdentityKept` | every layout of the state files, three commands (a failed install, a second one, an uninstall), one failing step, one observation |
| Identity | `NeverMerged`, `OneDevicePerHardware`, `NoDanglingReference`, `NoOrphan`, `DecisionsMatchLinks`, `LastSeenCovers` | three observations with a lookback of two (the matching one may be out of it), two computers, an agent that moves, two times with a window of zero (simultaneous and not); the reports make every pair of verdicts occur. Events, computers and hashes are interchangeable |
| IngestTxn | `NeverMerged`, `NoDanglingReference`, `SplitOnlyByRace`, `LastSeenLostOnlyByRace`, `AnsweredInTheEnd` | three observations, two at a time, of one disk: of one computer with old and new times, with a missing hash, or of two computers; a deletion and a failure or a lost answer. 177,489 states |
| Operators | `ThrottleHolds`, `SurvivorsRaced`, `LastAdminKept` | two threads, a local administrator and a user of the directory whose groups change, limits of one and two failures, four requests, two ticks. 696,334 states |

The safety and action properties are proved for every value of the constants
(section 5).  `TypeOK` is in one run; in the other modules it is what their
proofs (or a reader) rest on.

Three runs show where the code does not do what a document says:

| run | property | what happens |
|---|---|---|
| ProxyHeartbeatLost | `NoHeartbeatLost` | a heartbeat accepted during the `await` is deleted by the acknowledgement of the one before |
| DeviceRemovalSwallowed | `RemovalReported` | a periodic scan between a removal and its rescan hides it |
| InstallerNewIdentity | `AlwaysSameIdentity` | `reinstall` removes the install directory, and the UUID in it, before `install` migrates it |

Deadlock checking is off where the system really stops: a dead forwarder task with
no request left (ProxyForwarder), device ids that are used up (Identity), everything
answered (IngestTxn), a collector that was used once or interrupted (Watch), an
installer whose commands are used up (Installer), requests and ticks used up
(Operators).  Everywhere else it is on.

### Fairness

* AgentDelivery: the service thread goes on (weak fairness of its steps: it is
  `while True` and each step returns, the network calls by their timeout). Strong
  fairness of `ServerAccepts`, `ReceiveOk` and `MarkDelivered` says that the server,
  the network and the disk, each of which may fail any number of times, do not fail
  every time.  Crashes are bounded.
* ProxyForwarder: the same for the forwarder task and Main.  `ForwardedWhileAlive`
  excepts a dead task, because nothing restarts it.
* DeviceChange: weak fairness of the service thread only; notifications are not
  assumed.
* Watch: weak fairness of the collector, one thread that waits for nothing but its
  sleep.  Disks change and calls fail finitely often.
* Enrollment: weak fairness of the pass and of the server's answer to an enroll
  request; strong fairness of `RequestUnauthorized`, since a heartbeat is due again
  and again and a request of a reachable server is answered.
* IngestTxn: weak fairness of every thread's next statement (the database runs what
  does not wait), strong fairness of `Send` or `Duplicate` of an observation that is
  not answered yet: the agent's queue and the Proxy's go on sending a row until they
  have a 2xx for it.  What is answered has left the queue, and nobody is assumed to
  send it again; an administrator may delete it before or after the answer.

The other modules state no liveness.

## 5. What is proved

All theorems are about the specification without its fairness, and hold for every
value of the constants that the named assumptions admit.

| module | theorems |
|---|---|
| AgentDeliveryProofs | `TypeCorrect`, `NothingLost`, `StoredOnce`, `CapacityKept`, `BackoffRespected`, `Refinement`; of Chain: `NothingLostInChain`, `ChainDelivers` |
| ProxyForwarderProofs | `TypeCorrect`, `NothingLost`, `CapacityKept`, `LatestHeartbeatKept`, `HeartbeatsLeaveForwarded`, `Refinement` |
| DeviceChangeProofs | `TypeCorrect`, `WakeupKept`, `RemovalOnce` |
| EnrollmentProofs | `TypeCorrect`, `ForgottenOnce`, `ValidIsKept`, `TokenStays` |
| IngestTxnProofs | of Identity: `TypeCorrect`, `Conservative`, `NoSplit`, `DeletionsComplete`, `NothingOrphaned`, `DecisionsSound`, `SeenLast`; of IngestTxn: `NeverMergesConcurrently`, `LastSeenLostToRacesOnly`, `NothingDangles`, `SplitsAreRaces` |
| OperatorsProofs | `TypeCorrect`, `RevocationComplete`, `LastAdminSpared`, `ThrottleBounds` |
| WatchProofs | `TypeCorrect`, `NoEventRepeated` |
| InstallerProofs | `TypeCorrect`, `QueueSurvives`, `IdentitySurvives` |

None of the properties is inductive alone; each proof module states a stronger
invariant (`Inv`; for IngestTxn `TInv` and, on top of it, `RInv`, `SInv` and `DInv`;
for Operators also `TypeInv` and `ThrottleInv`), proves it one action at a time, and
derives the rest from it.

* AgentDelivery: `NoLoss` fails to be inductive at `MarkDelivered`, which deletes a
  row without looking at the server, and `RecordedOnce` at `ServerHandlesLate`,
  which inserts what nobody has in the queue any more.  The invariant connects the
  program counter, the row in hand and the wire: between `ReceiveOk` and
  `MarkDelivered` the row is recorded; whatever is queued, in hand or late was
  accepted; rows of the batch are due.
* ProxyForwarder: the same with versions (`InFlight`): what is read, posted or late
  is a version that was accepted, and a 2xx response, and the acknowledgement it
  leads to, mean that Main has processed that version.  `CapacityKept` counts rows,
  with the library's theorems on finite sets.
* Chain: what the agent accepted is in its queue or the Proxy has committed to it
  (`NothingLost`), and what the Proxy has committed to is in its table or stored
  (`ProxyKeeps`); so `Forget` of the first queue leaves an observation with the
  second, and a step of either is a step of the whole or none (`SimulatesChain`).
* DeviceChange: while nothing tells the loop to scan again, its snapshot or its
  cache agrees with the disks (`SeenOrTold`); a cached disk was not last reported as
  gone (`RememberedAsPresent`).
* Enrollment: one token per reset (`IssuedPerReset`); until the recovery the token a
  pass sends is the one in the file (`SendsTheFile`), so what a 401 makes the agent
  forget is what the server refused.
* Identity: all the properties together are nearly inductive, given that devices
  are numbered as they are created.  The proof turns on `Like` (one computer, one
  hardware hash): a link follows it (`VerdictLike`), so does the reuse of a device,
  and a new device is made only where nothing is like.
* IngestTxn: a transaction may go on with a device it read long ago.  `PlacesLike`
  says why that is safe: all observations the device has at that moment, committed
  or deleted since by whomever, are like its own; a commit of another thread to the
  same device is like one of them, hence like all.  For last_seen_at, `Covered`
  says that what a request has read of a row covers every stored observation whose
  ingest overlapped no other of its computer, and `UpToDate` that the row is still
  so for a request that overlaps none itself (`RInv`).  `NothingDangles` needs only
  that a commit finds every row it refers to (`DInv`).  For `SplitsAreRaces` each
  device beyond the first is charged to a request that overlapped another: when a
  request that read no device like its own commits a new one and there is one by
  now, it is such a request, and so is that of each of the others (`FreshOverlapped`);
  the map from devices to requests is injective, as a request makes one device.
* Operators: between the DELETE of a revocation and its COMMIT every session of the
  user is among the deleted ones or its login overlapped (`DeletedOrRaced`).  For the
  throttle a request under way counts as a failure already (`Room`): the sum grows
  only when a login is let through, when there are fewer failures than the limit and
  at most all threads under way, and a failure only moves from one term to the other.
  The author of an update that may still take an access away is an administrator or
  has been overtaken (`AuthorsAllowed`), and only `UpdateCommits` and
  `DirectoryLogin` take one away; hence `LastAdminSpared`.
  `TypeCorrect` needs that updates under way and updates done are together no more than
  the requests (`EpochsRequested`), and that the directory's first matching role exists.
* Watch: while the loop runs, every event it may still write has a reason that no
  event was written for (`ReasonsLeft`).  Which those are depends on the step: a disk
  not cached may be announced if it is plugged in or a listing, the keys of the poll
  or a record has it (`Sighted`); a cached one may be taken for gone if the listing
  has passed it or the poll has no key of it (`Missed`).
* Installer: until something is excused there is one queue and one UUID (`OnlyOne`);
  one that the configuration says is in the install directory exists, there or in
  the other (`Somewhere`), so that a service does not make a second one unnoticed; and
  from the step that moves them to the clearing of the install directory none is
  left in it (`QueueSafe`, `IdSafe`), so that the clearing takes none.

Assumptions the proofs use beside the ranges of the bounds: `None` is no disk (Watch),
no file and no number (Installer), and neither `None` nor `Keep` is a role
(Operators; `ALLOWED_ROLES` has names of roles only).

Only model-checked: every liveness property (`Delivered`, `ForwardedWhileAlive`,
`CacheCatchesUp`, `Settles`, `Recovers`, `AnsweredInTheEnd`), because fairness and
ENABLED are beyond the prover.  Every other property of a passing run is a theorem.

## 6. Limits

What the code does and no property demands otherwise, met while modelling:

* One SQLite error in `due` or `failed` ends the forwarder task of the Proxy, which
  goes on accepting (`FlashControlProxy/app.py:119-122`).
* `device_change_payload` has replaced the cache when a full queue turns its payload
  away (`service.py:254`): that change is never reported.
* `resolve_identity` compares with the 200 latest observations only
  (`identity.py:217`); a simultaneous report among older ones is no collision,
  against the word of `FlashControlPIBServer/README.md:72-73`.
* After a lost enroll answer the server asks the agent for a token it never got
  (`enroll.py:41`), and the agent cannot enroll by itself any more, whatever
  `ARCHITECTURE.md:69` says of retries; `Recovers` is about the other cases.
* A failed listing of interfaces in the first scan of `watch_usb` caches a disk
  under its drive path, and the next poll writes its disconnection and its
  connection (`TESTING_TASKS.md:252-264`).  A UAS disk may be announced with facts
  of a disk whose drive number it took.
* The installer: `taskkill /F` leaves rows in the `-wal` file that
  `migrate_state_file` does not move ("wal"); an uninstall removes a queue or a UUID
  that is in the install directory ("uninstall"); a service started between the
  steps of an install finds neither ("moved").
* Overlapping ingests may create two provisional devices of one hardware, against
  the docstring of `_reusable_provisional_device` (`identity.py:184-189`), and lose an
  update of `last_seen_at`; `SplitOnlyByRace` and `LastSeenLostOnlyByRace` bound
  both.  Two overlapping deletions may leave a device without an observation.
* A login that overlaps an update of its user may leave a session behind the
  revocation; two administrators may demote each other at once, and the directory
  may demote the last one at his own login.  `SurvivorsRaced` and `LastAdminKept`
  bound them.
* The Proxy asks for `X-FlashControl-Enroll-Token`, which the agent never sends
  (`FlashControlProxy/app.py:137`).

What is not modelled:

* The decoding of descriptors, the hashes, `dump.py` and the layout of payloads; the
  web interfaces, the read API, SQL admin and configuration, deployment,
  FlashGenerator: input and output, no state that the properties speak of.
* The rate limiter: one method under one lock.  A request it refuses is one more
  that fails in AgentDelivery and ProxyForwarder.
* The Proxy's enrollment: its tokens are issued under the queue's lock by a
  handler the agent as it is never passes.
* Deletions that overlap each other, and SQLite as the server's database, which
  does not enforce the foreign keys that IngestTxn relies on at `Commit`.
* Two transactions of the server's `enroll` that overlap and both read that there is
  no token yet (`enroll.py:30-84`): each could write one.  In Enrollment the request
  is one step, so `NeverRotated` is about requests that come one after another.
* In Watch, drives with numbers of `max_disks` and more, which `usb_presence_keys`
  lists and no scan opens, and disks of the USB bus without a USB parent.
* Clocks: every module has one time line.  A clock that is set back delays retries
  in the code; that is not modelled.
* Malformed requests, except as observations the server rejects for ever.
