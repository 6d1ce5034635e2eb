------------------------------ MODULE IngestTxn ---------------------------
(***************************************************************************)
(* ingest_observations as the database runs it: requests overlap, each in  *)
(* a READ COMMITTED transaction of its own, and every statement sees what  *)
(* is committed when it runs.  The variables of Identity are the committed *)
(* rows; what a transaction has read or is about to write is in its        *)
(* thread.                                                                 *)
(*                                                                         *)
(* An INSERT of a unique key waits for another transaction that inserted   *)
(* it.  SQLAlchemy writes a row from what it read of it, and only if the   *)
(* value differs; a foreign key or a row that has gone fails the request.  *)
(* A client sends an observation until it has a 2xx answer, and no longer; *)
(* a request it gave up may still arrive after that.                       *)
(***************************************************************************)
EXTENDS Identity

CONSTANTS
    Payloads,    \* what the event_ids may stand for: functions to Reports
    Threads,     \* requests the server handles at the same time
    MaxDeletes,  \* bound: deletions
    MaxFaults    \* bound: lost answers, and transactions that fail for no reason
                 \* of their own

ASSUME IngestTxnAssumption ==
    /\ Payloads \subseteq [EventIds -> Reports]
    /\ IsFiniteSet(Threads)
    /\ MaxDeletes \in Nat /\ MaxFaults \in Nat

VARIABLES
    payload,  \* the observation of each event_id, the same in every request
    thread,   \* the request each thread handles
    raced,    \* history: records [event, computer, hardware] of ingests that
              \* overlapped another one of the same computer
    answered, \* the event_ids whose client has had a 2xx answer
    deletes,
    faults

tvars == <<vars, payload, thread, raced, answered, deletes, faults>>

Idle == [pc |-> "idle"]
Busy(t) == thread[t] # Idle

TInit ==
    /\ Init
    /\ payload \in Payloads
    /\ thread = [t \in Threads |-> Idle]
    /\ raced = {}
    /\ answered = {}
    /\ deletes = 0
    /\ faults = 0

\* What the thread does next, having changed its record to r.
To(t, r) == thread' = [thread EXCEPT ![t] = r]
Only(t, r) == To(t, r) /\ UNCHANGED <<vars, payload, raced, answered, deletes, faults>>

\* Mutant of Answer500: the session of a failed request is not closed.
Answer500LeavingOpen(t) == Only(t, [thread[t] EXCEPT !.pc = "open"])

\* get_db closes the session, whatever the handler raised.
Answer500(t) == Only(t, Idle)

\* The 2xx answer for e, which its client receives, or which is lost.
Answer200(e) ==
    \/ answered' = answered \union {e} /\ UNCHANGED faults
    \/ faults < MaxFaults /\ faults' = faults + 1 /\ UNCHANGED answered

----------------------------------------------------------------------------
(* The statements of a request for one observation *)

Entry(e, f) == [event |-> e, computer |-> f.computer, hardware |-> f.hardware]

\* idempotent_insert inserts nothing: the event_id is stored already.
Duplicate(e) ==
    /\ e \in stored
    /\ \E t \in Threads : ~Busy(t)
    /\ Answer200(e)
    /\ UNCHANGED <<vars, payload, thread, raced, deletes>>

\* idempotent_insert: an event_id another transaction has inserted is waited
\* for.
InsertEvent(t, e, f) ==
    LET others == {u \in Threads : Busy(u) /\ thread[u].facts.computer = f.computer}
    IN  /\ thread[t] = Idle
        /\ e \notin stored
        /\ \A u \in Threads : Busy(u) => thread[u].event # e
        /\ To(t, [pc |-> "computer", event |-> e, facts |-> f])
        /\ raced' = IF others = {} THEN raced
                    ELSE raced \union {Entry(e, f)}
                           \union {Entry(thread[u].event, thread[u].facts) : u \in others}
        /\ UNCHANGED <<vars, payload, answered, deletes, faults>>

\* ensure_computer reads the row; at is what it read.
ReadComputer(t) ==
    LET r == thread[t]
        at == computers[r.facts.computer]
    IN  /\ r.pc = "computer"
        /\ Only(t, [pc |-> IF at = None THEN "add computer" ELSE "candidates",
                    event |-> r.event, facts |-> r.facts, computer |-> at])

\* The row is inserted, or the unique key is violated by one committed since.
AddComputer(t) ==
    LET r == thread[t]
        c == r.facts.computer
    IN  /\ r.pc = "add computer"
        /\ \A u \in Threads \ {t} :
             Busy(u) => ~(/\ thread[u].facts.computer = c
                          /\ thread[u].pc \notin {"computer", "add computer"}
                          /\ thread[u].computer = None)
        /\ IF computers[c] # None THEN Answer500(t)
           ELSE Only(t, [r EXCEPT !.pc = "candidates"])

\* _latest_observations and the loop over them.
Classify(t) ==
    LET r == thread[t]
        f == r.facts
        Found(result, auto, candidate) ==
            Only(t, [pc |-> IF auto THEN "link" ELSE "provision",
                     event |-> r.event, facts |-> f, computer |-> r.computer,
                     result |-> result, candidate |-> candidate])
    IN  /\ r.pc = "candidates"
        /\ \E chosen \in SUBSET stored :
             /\ IsLatest(chosen, Lookback)
             /\ \/ Candidates(f, chosen) = {} /\ Found("UNKNOWN", FALSE, None)
                \/ \E p \in Candidates(f, chosen) :
                     LET v == Verdict(f, facts[p])
                     IN  Found(v, v = "SAME", device[p])

\* The thread goes on with the device r.device, whose last_seen_at it has read
\* as r.at.  No one else can see a new device, or its media state.
WithDevice(t, d, at) ==
    LET r == thread[t]
    IN  Only(t, [pc |-> IF d = None THEN "commit" ELSE "media", event |-> r.event,
                 facts |-> r.facts, computer |-> r.computer, result |-> r.result,
                 candidate |-> r.candidate, device |-> d, at |-> at, media |-> None])

\* The candidate's device is loaded; without it the request fails.
Link(t) ==
    LET d == thread[t].candidate
    IN  /\ thread[t].pc = "link"
        /\ IF d \in known THEN WithDevice(t, d, devices[d]) ELSE Answer500(t)

\* _reusable_provisional_device, or a new one.
ProvisionDevice(t) ==
    LET f == thread[t].facts
    IN  /\ thread[t].pc = "provision"
        /\ \/ \E p \in Priors(f) : WithDevice(t, device[p], devices[device[p]])
           \/ Priors(f) = {} /\ WithDevice(t, None, None)

MediaKey(d, r) == <<d, r.facts.software>>

\* _get_or_create_media_state reads the row.
ReadMedia(t) ==
    LET r == thread[t]
        at == media[MediaKey(r.device, r)]
    IN  /\ r.pc = "media"
        /\ Only(t, [r EXCEPT !.media = at,
                             !.pc = IF at = None THEN "add media" ELSE "commit"])

\* The row is inserted; a hash that is NULL violates no unique key.
AddMedia(t) ==
    LET r == thread[t]
    IN  /\ r.pc = "add media"
        /\ \A u \in Threads \ {t} :
             (Busy(u) /\ thread[u].pc = "commit" /\ r.facts.software # NoHash) =>
                ~(/\ MediaKey(thread[u].device, thread[u]) = MediaKey(r.device, r)
                  /\ thread[u].media = None)
        /\ IF media[MediaKey(r.device, r)] # None /\ r.facts.software # NoHash
           THEN Answer500(t)
           ELSE Only(t, [r EXCEPT !.pc = "commit"])

----------------------------------------------------------------------------
(* COMMIT *)

\* Mutant of RowsThere: the candidate of a decision is no foreign key.
RowsThereButCandidate(r) ==
    /\ r.computer # None => computers[r.facts.computer] # None
    /\ r.device \in known \union {None}
    /\ r.media # None => media[MediaKey(r.device, r)] # None

\* The rows the transaction refers to or updates and did not insert itself.
RowsThere(r) ==
    /\ r.computer # None => computers[r.facts.computer] # None
    /\ r.device \in known \union {None}
    /\ r.media # None => media[MediaKey(r.device, r)] # None
    /\ r.candidate \in known \union {None}

\* Mutant of Written: the row is set to the time of the observation.
WrittenAlways(current, read, time) == time

\* last_seen_at as the transaction writes it: from what it read, if that is
\* an older time, and else not at all.
Written(current, read, time) == IF time > read THEN time ELSE current

\* The number of the committed device.
Numbered(d) == IF d = None THEN nextId + 1 ELSE d

Commit(t) ==
    LET r == thread[t]
        f == r.facts
        d == Numbered(r.device)
    IN  /\ r.pc = "commit"
        /\ RowsThere(r)
        /\ d \in DeviceIds
        /\ nextId' = IF r.device = None THEN d ELSE nextId
        /\ facts' = [facts EXCEPT ![r.event] = f]
        /\ device' = [device EXCEPT ![r.event] = d]
        /\ devices' = [devices EXCEPT ![d] = Written(@, r.at, f.time)]
        /\ media' = [media EXCEPT ![MediaKey(d, r)] = Written(@, r.media, f.time)]
        /\ computers' = [computers EXCEPT ![f.computer] = Written(@, r.computer, f.time)]
        /\ Locate(f.computer)
        /\ Decide(r.event, r.result, r.candidate)
        /\ To(t, Idle)
        /\ Answer200(r.event)
        /\ UNCHANGED <<payload, raced, deletes>>

CommitFails(t) ==
    /\ thread[t].pc = "commit"
    /\ ~RowsThere(thread[t])
    /\ Answer500(t)

\* A lost connection or the end of the server's process.
Dies(t) ==
    /\ Busy(t)
    /\ faults < MaxFaults
    /\ faults' = faults + 1
    /\ To(t, Idle)
    /\ UNCHANGED <<vars, payload, raced, answered, deletes>>

Request(t) ==
    \/ ReadComputer(t) \/ AddComputer(t)
    \/ Classify(t) \/ Link(t) \/ ProvisionDevice(t)
    \/ ReadMedia(t) \/ AddMedia(t)
    \/ Commit(t) \/ CommitFails(t)

\* Deletions are taken one at a time and in one step.
Delete ==
    /\ deletes < MaxDeletes
    /\ deletes' = deletes + 1
    /\ \/ \E e \in EventIds : DeleteObservation(e)
       \/ \E d \in DeviceIds : DeleteDevice(d)
    /\ UNCHANGED <<payload, thread, raced, answered, faults>>

Send(e) == \E t \in Threads : InsertEvent(t, e, payload[e])

TNext ==
    \/ \E e \in EventIds : Send(e) \/ Duplicate(e)
    \/ \E t \in Threads : Request(t) \/ Dies(t)
    \/ Delete

\* A request goes on unless it waits, and a client repeats what it has no 2xx
\* answer for: what was answered is sent no more, deleted or not.
TFairness ==
    /\ \A t \in Threads : WF_tvars(Request(t))
    /\ \A e \in EventIds : SF_tvars(e \notin answered /\ (Send(e) \/ Duplicate(e)))

TSpec == TInit /\ [][TNext]_tvars /\ TFairness

----------------------------------------------------------------------------
(* Properties; those of Identity are about the committed rows *)

\* One computer's hardware has more than one device only if ingests of that
\* computer overlapped: there are never more devices than such ingests.
SplitOnlyByRace ==
    \A c \in Computers, h \in Hardware :
        LET of == {device[e] : e \in {x \in stored : /\ facts[x].computer = c
                                                     /\ facts[x].hardware = h}}
            racing == {r \in raced : r.computer = c /\ r.hardware = h}
        IN  Cardinality(of) <= 1 \/ Cardinality(of) <= Cardinality(racing)

\* last_seen_at covers every observation whose ingest overlapped no other of
\* its computer: an update is lost only to one that ran at the same time.
LastSeenLostOnlyByRace ==
    \A e \in stored :
        Entry(e, facts[e]) \notin raced =>
            /\ devices[device[e]] >= facts[e].time
            /\ media[MediaOf(e)] >= facts[e].time
            /\ computers[facts[e].computer] >= facts[e].time

\* Every observation is answered with a 2xx in the end: requests that wait for
\* one another never wait in a circle, and those that fail because of one
\* another, or of a deletion, succeed when they are sent again.
AnsweredInTheEnd == \A e \in EventIds : <>(e \in answered)
=============================================================================
