--------------------------- MODULE ProxyForwarder --------------------------
(***************************************************************************)
(* The Proxy's store-and-forward queue (FlashControlProxy/queue.py) shared *)
(* by the HTTP handlers, which FastAPI runs on a thread pool, and by the   *)
(* one forwarder task (FlashControlProxy/app.py), which awaits Main's      *)
(* answer between reading a row and acting on it.                          *)
(*                                                                         *)
(* Every method of ProxyQueue is atomic (an RLock around one SQLite        *)
(* transaction) except failed, which reads the attempts under the lock and *)
(* writes them back under a second acquisition.                            *)
(*                                                                         *)
(* A row is its key: an observation ("observation:<event_id>") or an agent *)
(* ("heartbeat:<agent_id>").  Requests are numbered as they arrive; a      *)
(* row's stamp is the number of the request that wrote it, which stands    *)
(* for both its created_at and its payload.                                *)
(***************************************************************************)
EXTENDS Integers, FiniteSets

CONSTANTS
    Observations,   \* event_ids the agents send
    Agents,         \* agents that send heartbeats
    Poison,         \* observations Main answers with 422
    MaxItems,       \* FLASHCONTROL_PROXY_QUEUE_MAX_ITEMS
    BatchSize,      \* due(limit=100)
    BaseDelay,      \* base_delay of failed, in units of the model's time
    MaxDelay,       \* max_delay of failed, in the same units
    AttemptCap,     \* bound: attempts counted; more change no delay
    MaxArrivals,    \* bound: requests the Proxy is sent
    MaxCrashes,     \* bound: how often the Proxy is killed
    MaxStoreErrors  \* bound: how often an SQLite call raises

Keys == Observations \union Agents

ASSUME BoundsAssumption ==
    /\ Observations \intersect Agents = {}
    /\ Poison \subseteq Observations
    /\ IsFiniteSet(Observations) /\ IsFiniteSet(Agents)
    /\ MaxItems \in Nat \ {0}
    /\ BatchSize \in Nat \ {0}
    /\ BaseDelay \in Nat \ {0}
    /\ MaxDelay \in Nat
    /\ AttemptCap \in 1 .. 17
    /\ BaseDelay * 2 ^ (AttemptCap - 1) >= MaxDelay
    /\ MaxArrivals \in Nat
    /\ MaxCrashes \in Nat
    /\ MaxStoreErrors \in Nat

VARIABLES
    arrivals,   \* requests that have arrived
    stamp,      \* per key: the request that wrote its row, 0 for no row
    attempts,   \* the attempts column
    backoff,    \* next_attempt_at minus now, 0 when due
    accepted,   \* per key: the last request the Proxy answered with 202
    task,       \* where the forwarder task stands
    batch,      \* <<key, stamp>> of the rows due() returned, not yet sent
    item,       \* <<key, stamp>> of the row being forwarded
    seen,       \* the attempts failed() has read
    reply,      \* what the wire holds for item: "none", "sent", "ok", "rejected"
    late,       \* requests the forwarder gave up that Main may still run
    inserts,    \* rows Main ever inserted per observation
    mainBeat,   \* the heartbeats Main has processed per agent
    crashes,
    storeErrors

table == <<stamp, attempts, backoff>>
main == <<inserts, mainBeat>>
bounds == <<crashes, storeErrors>>
vars == <<arrivals, table, accepted, task, batch, item, seen, reply, late,
          main, bounds>>

rows == {k \in Keys : stamp[k] > 0}
recorded == {o \in Observations : inserts[o] > 0}
NoItem == <<>>

Init ==
    /\ arrivals = 0
    /\ stamp = [k \in Keys |-> 0]
    /\ attempts = [k \in Keys |-> 0]
    /\ backoff = [k \in Keys |-> 0]
    /\ accepted = [k \in Keys |-> 0]
    /\ task = "idle"
    /\ batch = {}
    /\ item = NoItem
    /\ seen = 0
    /\ reply = "none"
    /\ late = {}
    /\ inserts = [o \in Observations |-> 0]
    /\ mainBeat = [a \in Agents |-> {}]
    /\ crashes = 0
    /\ storeErrors = 0

Up == task # "down"   \* the handlers run whenever the process does

----------------------------------------------------------------------------
(* The handlers: POST /api/v1/observations and /api/v1/agents/heartbeat *)

\* Mutant of Fits: the count is taken once, before the payload's inserts.
FitsOnce(payload) == Cardinality(rows) < MaxItems \/ payload \subseteq rows

\* enqueue_observations raises QueueFullError before the insert that would
\* exceed max_items and rolls the payload back.
Fits(payload) == Cardinality(rows) + Cardinality(payload \ rows) <= MaxItems

\* INSERT OR IGNORE: a row that is already there keeps its columns.
\* A 507 changes nothing.  An agent may resend what was accepted before.
ServeObservations ==
    /\ Up
    /\ arrivals < MaxArrivals
    /\ arrivals' = arrivals + 1
    /\ \E payload \in SUBSET Observations :
         /\ payload # {}
         /\ IF Fits(payload)
            THEN LET new == payload \ rows
                 IN  /\ stamp' = [k \in Keys |->
                                    IF k \in new THEN arrivals' ELSE stamp[k]]
                     /\ attempts' = [k \in Keys |->
                                    IF k \in new THEN 0 ELSE attempts[k]]
                     /\ backoff' = [k \in Keys |->
                                    IF k \in new THEN 0 ELSE backoff[k]]
                     /\ accepted' = [k \in Keys |->
                                    IF k \in payload THEN arrivals' ELSE accepted[k]]
            ELSE UNCHANGED <<table, accepted>>
    /\ UNCHANGED <<task, batch, item, seen, reply, late, main, bounds>>

\* Mutant of ServeHeartbeat: INSERT OR IGNORE, as for observations.
ServeHeartbeatIgnoring(a) ==
    /\ Up
    /\ arrivals < MaxArrivals
    /\ arrivals' = arrivals + 1
    /\ IF Fits({a})
       THEN /\ stamp' = [stamp EXCEPT ![a] = IF @ > 0 THEN @ ELSE arrivals']
            /\ accepted' = [accepted EXCEPT ![a] = arrivals']
       ELSE UNCHANGED <<stamp, accepted>>
    /\ UNCHANGED <<attempts, backoff, task, batch, item, seen, reply, late, main,
                   bounds>>

\* ON CONFLICT DO UPDATE: a newer heartbeat replaces the agent's row.
ServeHeartbeat(a) ==
    /\ Up
    /\ arrivals < MaxArrivals
    /\ arrivals' = arrivals + 1
    /\ IF Fits({a})
       THEN /\ stamp' = [stamp EXCEPT ![a] = arrivals']
            /\ attempts' = [attempts EXCEPT ![a] = 0]
            /\ backoff' = [backoff EXCEPT ![a] = 0]
            /\ accepted' = [accepted EXCEPT ![a] = arrivals']
       ELSE UNCHANGED <<table, accepted>>
    /\ UNCHANGED <<task, batch, item, seen, reply, late, main, bounds>>

----------------------------------------------------------------------------
(* The forwarder task: forward_loop and forward_once *)

due == {k \in rows : backoff[k] = 0}

\* WHERE next_attempt_at <= now ORDER BY created_at LIMIT limit; rows one
\* payload wrote share a created_at and come in any order.
IsOldestDue(chosen, limit) ==
    /\ chosen \subseteq due
    /\ Cardinality(chosen) <= limit
    /\ Cardinality(chosen) < limit => chosen = due
    /\ \A k \in chosen, j \in due \ chosen : stamp[k] <= stamp[j]

NextTask == IF batch = {} THEN "sleep" ELSE "send"

\* The rows are read once, payload and all.
ReadDue ==
    /\ task = "idle"
    /\ \E chosen \in SUBSET Keys :
         /\ IsOldestDue(chosen, BatchSize)
         /\ batch' = {<<k, stamp[k]>> : k \in chosen}
         /\ task' = IF chosen = {} THEN "sleep" ELSE "send"
    /\ UNCHANGED <<arrivals, table, accepted, item, seen, reply, late, main,
                   bounds>>

\* client.post leaves; from here to the answer the handlers may run.
Post(k) ==
    /\ task = "send"
    /\ \E row \in batch :
         /\ row[1] = k
         /\ \A other \in batch : row[2] <= other[2]
         /\ item' = row
         /\ batch' = batch \ {row}
    /\ reply' = "sent"
    /\ task' = "await"
    /\ UNCHANGED <<arrivals, table, accepted, seen, late, main, bounds>>

\* The answer is a 2xx and queue.delivered(item_key) will run.
ReceiveOk(k) ==
    /\ task = "await"
    /\ item[1] = k
    /\ reply = "ok"
    /\ reply' = "none"
    /\ task' = "ack"
    /\ UNCHANGED <<arrivals, table, accepted, batch, item, seen, late, main,
                   bounds>>

Abandoned == IF reply = "sent" THEN late \union {item} ELSE late

\* Mutant of PostFails: raise_for_status is not called.
PostFailsUnnoticed ==
    /\ task = "await"
    /\ reply' = "none"
    /\ late' = Abandoned
    /\ task' = "ack"
    /\ UNCHANGED <<arrivals, table, accepted, batch, item, seen, main, bounds>>

\* post raises, or raise_for_status does.
PostFails ==
    /\ task = "await"
    /\ reply' = "none"
    /\ late' = Abandoned
    /\ task' = "fail"
    /\ UNCHANGED <<arrivals, table, accepted, batch, item, seen, main, bounds>>

\* DELETE FROM forward_queue WHERE item_key=?
Delivered(k) ==
    /\ task = "ack"
    /\ item[1] = k
    /\ stamp' = [stamp EXCEPT ![k] = 0]
    /\ item' = NoItem
    /\ task' = NextTask
    /\ UNCHANGED <<arrivals, attempts, backoff, accepted, batch, seen, reply,
                   late, main, bounds>>

\* delivered raises, which the except clause takes for a failed delivery.
DeliveredRaises ==
    /\ task = "ack"
    /\ storeErrors < MaxStoreErrors
    /\ storeErrors' = storeErrors + 1
    /\ task' = "fail"
    /\ UNCHANGED <<arrivals, table, accepted, batch, item, seen, reply, late,
                   main, crashes>>

\* failed: SELECT attempts, under the lock; a row that is gone ends it.
FailedReads ==
    /\ task = "fail"
    /\ IF item[1] \in rows
       THEN /\ seen' = attempts[item[1]]
            /\ task' = "failing"
            /\ UNCHANGED item
       ELSE /\ item' = NoItem
            /\ task' = NextTask
            /\ UNCHANGED seen
    /\ UNCHANGED <<arrivals, table, accepted, batch, reply, late, main, bounds>>

\* min(max_delay, base_delay * 2 ** min(attempts - 1, 16))
Delay(n) ==
    LET d == BaseDelay * 2 ^ (n - 1)
    IN  IF d \in 0 .. MaxDelay THEN d ELSE MaxDelay

Counted(n) == IF n < AttemptCap THEN n + 1 ELSE n

\* Mutant of FailedWrites: the row stays due.
FailedWritesDueAgain ==
    /\ task = "failing"
    /\ attempts' = [attempts EXCEPT ![item[1]] = Counted(seen)]
    /\ seen' = 0
    /\ item' = NoItem
    /\ task' = NextTask
    /\ UNCHANGED <<arrivals, stamp, backoff, accepted, batch, reply, late, main,
                   bounds>>

\* failed: UPDATE, under the lock again, of whatever row the key has now.
FailedWrites ==
    /\ task = "failing"
    /\ attempts' = [attempts EXCEPT ![item[1]] = Counted(seen)]
    /\ backoff' = [backoff EXCEPT ![item[1]] = Delay(Counted(seen))]
    /\ seen' = 0
    /\ item' = NoItem
    /\ task' = NextTask
    /\ UNCHANGED <<arrivals, stamp, accepted, batch, reply, late, main, bounds>>

\* due or failed raises: forward_loop has no handler and the task ends while
\* the process goes on serving requests.
TaskDies ==
    /\ task \in {"idle", "fail", "failing"}
    /\ storeErrors < MaxStoreErrors
    /\ storeErrors' = storeErrors + 1
    /\ task' = "dead"
    /\ batch' = {}
    /\ item' = NoItem
    /\ seen' = 0
    /\ UNCHANGED <<arrivals, table, accepted, reply, late, main, crashes>>

\* asyncio.sleep(FORWARD_INTERVAL), the unit of time.
Elapse == backoff' = [k \in Keys |-> IF backoff[k] > 0 THEN backoff[k] - 1 ELSE 0]

Sleep ==
    /\ task = "sleep"
    /\ Elapse
    /\ task' = "idle"
    /\ UNCHANGED <<arrivals, stamp, attempts, accepted, batch, item, seen, reply,
                   late, main, bounds>>

----------------------------------------------------------------------------
(* Main: ingest_observations and agent_heartbeat of the PIB Server *)

IdempotentInsert(o) ==
    inserts' = IF inserts[o] > 0 THEN inserts ELSE [inserts EXCEPT ![o] = 1]

Process(request) ==
    LET k == request[1]
    IN  IF k \in Observations
        THEN IdempotentInsert(k) /\ UNCHANGED mainBeat
        ELSE /\ mainBeat' = [mainBeat EXCEPT ![k] = @ \union {request[2]}]
             /\ UNCHANGED inserts

MainAccepts(k) ==
    /\ task = "await"
    /\ reply = "sent"
    /\ item[1] = k
    /\ k \notin Poison
    /\ Process(item)
    /\ reply' = "ok"
    /\ UNCHANGED <<arrivals, table, accepted, task, batch, item, seen, late,
                   bounds>>

MainRejects ==
    /\ task = "await"
    /\ reply = "sent"
    /\ item[1] \in Poison
    /\ reply' = "rejected"
    /\ UNCHANGED <<arrivals, table, accepted, task, batch, item, seen, late,
                   main, bounds>>

\* Main gets to a request whose sender has given up, or never does.
MainHandlesLate ==
    \E request \in late :
        /\ late' = late \ {request}
        /\ IF request[1] \in Poison THEN UNCHANGED main ELSE Process(request)
        /\ UNCHANGED <<arrivals, table, accepted, task, batch, item, seen, reply,
                       bounds>>

LateRequestDies ==
    \E request \in late :
        /\ late' = late \ {request}
        /\ UNCHANGED <<arrivals, table, accepted, task, batch, item, seen, reply,
                       main, bounds>>

----------------------------------------------------------------------------

\* The process is killed; SQLite keeps the table.
Crash ==
    /\ Up
    /\ crashes < MaxCrashes
    /\ crashes' = crashes + 1
    /\ task' = "down"
    /\ batch' = {}
    /\ item' = NoItem
    /\ seen' = 0
    /\ reply' = "none"
    /\ late' = Abandoned
    /\ UNCHANGED <<arrivals, table, accepted, main, storeErrors>>

\* lifespan starts the forwarder task again.
Restart ==
    /\ task = "down"
    /\ task' = "idle"
    /\ UNCHANGED <<arrivals, table, accepted, batch, item, seen, reply, late,
                   main, bounds>>

Forwarder ==
    \/ \E k \in Keys : Post(k)
    \/ ReadDue \/ PostFails \/ FailedReads \/ FailedWrites \/ Sleep \/ Restart

Next ==
    \/ ServeObservations
    \/ \E a \in Agents : ServeHeartbeat(a)
    \/ ReadDue
    \/ \E k \in Keys : Post(k) \/ ReceiveOk(k) \/ Delivered(k) \/ MainAccepts(k)
    \/ PostFails \/ DeliveredRaises \/ FailedReads \/ FailedWrites
    \/ TaskDies \/ Sleep
    \/ MainRejects \/ MainHandlesLate \/ LateRequestDies
    \/ Crash \/ Restart

Safety == Init /\ [][Next]_vars

(* The event loop keeps scheduling the forwarder task (WF); Main and the   *)
(* network may fail any number of times but not for ever (SF).  Main never *)
(* accepts a row of Poison, so fairness towards one would say nothing.     *)
Fairness ==
    /\ WF_vars(Forwarder)
    /\ \A k \in Keys \ Poison :
         /\ SF_vars(MainAccepts(k))
         /\ SF_vars(ReceiveOk(k))
         /\ SF_vars(Delivered(k))

Spec == Safety /\ Fairness

----------------------------------------------------------------------------
(* Properties *)

TypeOK ==
    /\ arrivals \in 0 .. MaxArrivals
    /\ stamp \in [Keys -> 0 .. MaxArrivals]
    /\ attempts \in [Keys -> 0 .. AttemptCap]
    /\ backoff \in [Keys -> 0 .. MaxDelay]
    /\ accepted \in [Keys -> 0 .. MaxArrivals]
    /\ task \in {"idle", "send", "await", "ack", "fail", "failing", "sleep",
                 "dead", "down"}
    /\ batch \subseteq Keys \X (1 .. MaxArrivals)
    /\ item \in (Keys \X (1 .. MaxArrivals)) \union {NoItem}
    /\ seen \in 0 .. AttemptCap
    /\ reply \in {"none", "sent", "ok", "rejected"}
    /\ late \subseteq Keys \X (1 .. MaxArrivals)
    /\ inserts \in [Observations -> Nat]
    /\ mainBeat \in [Agents -> SUBSET (1 .. MaxArrivals)]
    /\ crashes \in 0 .. MaxCrashes
    /\ storeErrors \in 0 .. MaxStoreErrors

\* An observation answered with 202 stays in the table until Main has it:
\* the handlers, the forwarder, its crashes and its stale batch together
\* never drop one (README.md:5-8 of the Proxy).
NoObservationLost ==
    \A o \in Observations : accepted[o] > 0 => o \in rows \/ o \in recorded

\* No interleaving of handlers takes the table over its limit.
WithinCapacity == Cardinality(rows) <= MaxItems

\* An agent's heartbeat row disappears only after Main has processed it, but
\* for one race: the forwarder had read an older one in its place, and it is
\* that one Main has processed and the forwarder acknowledges (app.py:101-109).
HeartbeatRowsLeaveForwarded ==
    [][\A a \in Agents : a \in rows /\ a \notin rows' =>
         \/ stamp[a] \in mainBeat[a]
         \/ /\ item # NoItem /\ item[1] = a
            /\ item[2] < stamp[a]
            /\ item[2] \in mainBeat[a]]_vars

\* Main never sees a heartbeat the Proxy did not accept, and a row always
\* carries the last heartbeat accepted, never an older one.
RowsCarryLatestHeartbeat ==
    \A a \in Agents :
        /\ a \in rows => stamp[a] = accepted[a]
        /\ \A n \in mainBeat[a] : n <= accepted[a]

\* As long as the forwarder task lives every row Main can store is forwarded
\* in the end, in spite of rows Main rejects for ever.
ForwardedWhileAlive ==
    \A k \in Keys \ Poison : k \in rows ~> k \notin rows \/ task = "dead"

\* The observations answered with 202, and those in the table.
answered == {o \in Observations : accepted[o] > 0}
held == rows \intersect Observations

\* For observations the table, the task and Main implement EventDelivery.
Abstract == INSTANCE EventDelivery WITH
    Events <- Observations,
    committed <- answered,
    recorded <- recorded,
    kept <- held

ImplementsDelivery == Abstract!Spec

\* What the README promises of a heartbeat that was answered with 202: it is
\* in the table until it is forwarded.
NoHeartbeatLost ==
    \A a \in Agents :
        accepted[a] > 0 => a \in rows \/ accepted[a] \in mainBeat[a]
=============================================================================
