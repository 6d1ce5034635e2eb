--------------------------- MODULE AgentDelivery ---------------------------
(***************************************************************************)
(* The agent's durable delivery queue and the loop that drains it          *)
(* (FlashControlAgent/delivery_queue.py, FlashControlAgent/service.py),    *)
(* together with the network and the server's idempotent insert            *)
(* (FlashControlPIBServer/app/main.py).                                    *)
(*                                                                         *)
(* The service is one thread: a pass of its loop collects, drains and      *)
(* waits.  It may die between any two steps; the SQLite queue survives     *)
(* (journal_mode=WAL, synchronous=FULL), everything else is volatile.      *)
(* Observations are numbered in the order ORDER BY created_at, event_id    *)
(* gives them.  Time passes in the model when the loop waits, and a        *)
(* row's backoff is the time that is left of it.                           *)
(***************************************************************************)
EXTENDS Integers, FiniteSets

CONSTANTS
    MaxEvents,     \* bound: observations the collector ever produces
    MaxPayload,    \* bound: observations one scan yields
    MaxItems,      \* queue_max_items
    BatchSize,     \* delivery_batch_size
    BaseDelay,     \* retry_interval_seconds, in units of the model's time
    MaxDelay,      \* retry_max_seconds, in the same units
    AttemptCap,    \* bound: attempts counted; more change no delay
    MaxPass,       \* bound: time one pass of the loop takes
    MaxCrashes,    \* bound: how often the service dies
    Poison         \* observations the server answers with 422

Events == 1 .. MaxEvents

ASSUME BoundsAssumption ==
    /\ MaxEvents \in Nat
    /\ MaxPayload \in Nat \ {0}
    /\ MaxItems \in Nat \ {0}
    /\ BatchSize \in Nat \ {0}
    /\ BaseDelay \in Nat \ {0}
    /\ MaxDelay \in Nat
    /\ BaseDelay <= MaxDelay
    /\ AttemptCap \in 1 .. 17
    /\ MaxPass \in Nat \ {0}
    /\ MaxCrashes \in Nat
    /\ Poison \subseteq Events

\* Counting no further than AttemptCap is sound: the delay has saturated.
ASSUME CapAssumption == BaseDelay * 2 ^ (AttemptCap - 1) >= MaxDelay

None == 0   \* no observation; Events starts at 1

VARIABLES
    pc,          \* where the service thread stands
    generated,   \* observations produced so far: 1 .. generated
    refused,     \* those the full queue turned away (QueueFullError)
    queued,      \* event_ids of the rows of delivery_queue
    attempts,    \* the attempts column
    backoff,     \* next_attempt_at minus now, 0 when due
    batch,       \* rows of the result of due() not yet handled
    cur,         \* the row being handled
    reply,       \* what the wire holds for cur: "none", "sent", "ok", "rejected"
    late,        \* requests nobody waits for that the server may still run
    inserts,     \* rows the server ever inserted per event_id
    crashes      \* how often the service has died

store == <<queued, attempts, backoff>>
vars == <<pc, generated, refused, queued, attempts, backoff, batch, cur,
          reply, late, inserts, crashes>>

recorded == {e \in Events : inserts[e] > 0}

Init ==
    /\ pc = "collect"
    /\ generated = 0
    /\ refused = {}
    /\ queued = {}
    /\ attempts = [e \in Events |-> 0]
    /\ backoff = [e \in Events |-> 0]
    /\ batch = {}
    /\ cur = None
    /\ reply = "none"
    /\ late = {}
    /\ inserts = [e \in Events |-> 0]
    /\ crashes = 0

----------------------------------------------------------------------------
(* Collection: DeliveryQueue.enqueue_json *)

\* Mutant of Fits: the limit is compared with the rows already there.
FitsBeforeAdding(payload) == Cardinality(queued) <= MaxItems

\* A payload fits when the rows it adds do not exceed max_items.
Fits(payload) ==
    Cardinality(queued) + Cardinality(payload \ queued) <= MaxItems

\* Everything is inserted in one transaction, or QueueFullError is raised
\* and nothing is.
Collect ==
    /\ pc = "collect"
    /\ pc' = "drain"
    /\ \E n \in 1 .. MaxPayload :
         LET payload == generated + 1 .. generated + n
         IN  /\ generated + n <= MaxEvents
             /\ generated' = generated + n
             /\ IF Fits(payload)
                THEN /\ queued' = queued \union payload
                     /\ refused' = refused
                ELSE /\ queued' = queued
                     /\ refused' = refused \union payload
    /\ UNCHANGED <<attempts, backoff, batch, cur, reply, late, inserts, crashes>>

\* The collection is not due, or it failed before it produced a payload.
SkipCollection ==
    /\ pc = "collect"
    /\ pc' = "drain"
    /\ UNCHANGED <<generated, refused, store, batch, cur, reply, late, inserts,
                   crashes>>

----------------------------------------------------------------------------
(* Draining: DeliveryQueue.due, deliver_due *)

due == {e \in queued : backoff[e] = 0}

\* Mutant of FirstDue: the filter on next_attempt_at is missing.
FirstQueued(limit) ==
    {e \in queued : Cardinality({f \in queued : f < e}) < limit}

\* ORDER BY created_at, event_id LIMIT limit
FirstDue(limit) == {e \in due : Cardinality({f \in due : f < e}) < limit}

\* due() reads the rows once; the batch does not follow later changes.
StartDrain ==
    /\ pc = "drain"
    /\ batch' = FirstDue(BatchSize)
    /\ pc' = IF batch' = {} THEN "wait" ELSE "send"
    /\ UNCHANGED <<generated, refused, store, cur, reply, late, inserts, crashes>>

\* sender(): the request for the next row of the batch leaves.
Post(e) ==
    /\ pc = "send"
    /\ e \in batch
    /\ \A f \in batch : e <= f
    /\ cur' = e
    /\ batch' = batch \ {e}
    /\ reply' = "sent"
    /\ pc' = "await"
    /\ UNCHANGED <<generated, refused, store, late, inserts, crashes>>

NextItem == IF batch = {} THEN "wait" ELSE "send"

----------------------------------------------------------------------------
(* The server: ingest_observations with INSERT .. ON CONFLICT DO NOTHING *)

\* Mutant of IdempotentInsert: no ON CONFLICT DO NOTHING.
InsertAlways(e) == inserts' = [inserts EXCEPT ![e] = @ + 1]

IdempotentInsert(e) ==
    inserts' = IF inserts[e] > 0 THEN inserts ELSE [inserts EXCEPT ![e] = 1]

ServerAccepts(e) ==
    /\ pc = "await"
    /\ cur = e
    /\ reply = "sent"
    /\ e \notin Poison
    /\ IdempotentInsert(e)
    /\ reply' = "ok"
    /\ UNCHANGED <<pc, generated, refused, store, batch, cur, late, crashes>>

ServerRejects ==
    /\ pc = "await"
    /\ reply = "sent"
    /\ cur \in Poison
    /\ reply' = "rejected"
    /\ UNCHANGED <<pc, generated, refused, store, batch, cur, late, inserts,
                   crashes>>

\* The server gets to a request whose client has given up or died.
ServerHandlesLate(e) ==
    /\ e \in late
    /\ late' = late \ {e}
    /\ IF e \in Poison THEN UNCHANGED inserts ELSE IdempotentInsert(e)
    /\ UNCHANGED <<pc, generated, refused, store, batch, cur, reply, crashes>>

LateRequestDies(e) ==
    /\ e \in late
    /\ late' = late \ {e}
    /\ UNCHANGED <<pc, generated, refused, store, batch, cur, reply, inserts,
                   crashes>>

\* A request nobody has answered yet may still be processed.
Abandoned == IF reply = "sent" THEN late \union {cur} ELSE late

----------------------------------------------------------------------------
(* The outcome of sender(): mark_delivered or mark_failed *)

\* A 2xx response arrives.
ReceiveOk(e) ==
    /\ pc = "await"
    /\ cur = e
    /\ reply = "ok"
    /\ pc' = "ack"
    /\ reply' = "none"
    /\ UNCHANGED <<generated, refused, store, batch, cur, late, inserts, crashes>>

\* Mutant of SenderFails: an error status is taken for a delivery.
SenderFailsUnnoticed ==
    /\ pc = "await"
    /\ pc' = "ack"
    /\ late' = Abandoned
    /\ reply' = "none"
    /\ UNCHANGED <<generated, refused, store, batch, cur, inserts, crashes>>

\* sender raises: an error status, a refused connection, a timeout, a lost
\* response.
SenderFails ==
    /\ pc = "await"
    /\ pc' = "fail"
    /\ late' = Abandoned
    /\ reply' = "none"
    /\ UNCHANGED <<generated, refused, store, batch, cur, inserts, crashes>>

\* mark_delivered deletes the row.
MarkDelivered(e) ==
    /\ pc = "ack"
    /\ cur = e
    /\ queued' = queued \ {e}
    /\ pc' = NextItem
    /\ cur' = None
    /\ UNCHANGED <<generated, refused, attempts, backoff, batch, reply, late,
                   inserts, crashes>>

\* mark_delivered raises: the except clause treats it as a failed delivery.
AckFails ==
    /\ pc = "ack"
    /\ pc' = "fail"
    /\ UNCHANGED <<generated, refused, store, batch, cur, reply, late, inserts,
                   crashes>>

\* Mutant of Delay: max_delay is not applied.
UncappedDelay(n) == BaseDelay * 2 ^ (n - 1)

\* min(max_delay, base_delay * 2 ** min(attempts - 1, 16))
Delay(n) ==
    LET d == BaseDelay * 2 ^ (n - 1)
    IN  IF d \in 0 .. MaxDelay THEN d ELSE MaxDelay

Counted(n) == IF n < AttemptCap THEN n + 1 ELSE n

\* Mutant of MarkFailed: the row stays due.
MarkFailedSilently ==
    /\ pc = "fail"
    /\ pc' = NextItem
    /\ cur' = None
    /\ UNCHANGED <<generated, refused, queued, attempts, backoff, batch, reply,
                   late, inserts, crashes>>

\* Mutant of MarkFailed: the row is dropped.
MarkFailedDropping ==
    /\ pc = "fail"
    /\ queued' = queued \ {cur}
    /\ pc' = NextItem
    /\ cur' = None
    /\ UNCHANGED <<generated, refused, attempts, backoff, batch, reply,
                   late, inserts, crashes>>

MarkFailed ==
    /\ pc = "fail"
    /\ attempts' = [attempts EXCEPT ![cur] = Counted(@)]
    /\ backoff' = [backoff EXCEPT ![cur] = Delay(attempts'[cur])]
    /\ pc' = NextItem
    /\ cur' = None
    /\ UNCHANGED <<generated, refused, queued, batch, reply, late, inserts,
                   crashes>>

----------------------------------------------------------------------------
(* Time, crashes and restarts *)

Elapse(d) ==
    backoff' = [e \in Events |-> IF backoff[e] > d THEN backoff[e] - d ELSE 0]

Wait ==
    /\ pc = "wait"
    /\ \E d \in 1 .. MaxPass : Elapse(d)
    /\ pc' = "collect"
    /\ UNCHANGED <<generated, refused, queued, attempts, batch, cur, reply, late,
                   inserts, crashes>>

\* The process dies, or mark_failed raises and ends run().
Crash ==
    /\ pc # "down"
    /\ crashes < MaxCrashes
    /\ crashes' = crashes + 1
    /\ pc' = "down"
    /\ batch' = {}
    /\ cur' = None
    /\ reply' = "none"
    /\ late' = Abandoned
    /\ UNCHANGED <<generated, refused, store, inserts>>

Restart ==
    /\ pc = "down"
    /\ \E d \in 0 .. MaxPass : Elapse(d)
    /\ pc' = "collect"
    /\ UNCHANGED <<generated, refused, queued, attempts, batch, cur, reply, late,
                   inserts, crashes>>

----------------------------------------------------------------------------

Loop == StartDrain \/ Wait \/ MarkFailed \/ SenderFails \/ Restart

Next ==
    \/ Collect \/ SkipCollection
    \/ StartDrain
    \/ \E e \in Events :
         \/ Post(e) \/ ReceiveOk(e) \/ MarkDelivered(e)
         \/ ServerAccepts(e) \/ ServerHandlesLate(e) \/ LateRequestDies(e)
    \/ ServerRejects
    \/ SenderFails \/ AckFails \/ MarkFailed
    \/ Wait \/ Crash \/ Restart

Safety == Init /\ [][Next]_vars

(* The service thread never stops between two steps of its loop (WF); the *)
(* server, the network and the local disk may each fail any number of     *)
(* times, but a step that is possible again and again succeeds in the end *)
(* (SF).                                                                  *)
Fairness ==
    /\ WF_vars(Collect \/ SkipCollection)
    /\ WF_vars(Loop)
    /\ \A e \in Events :
         /\ WF_vars(Post(e))
         /\ SF_vars(ServerAccepts(e))
         /\ SF_vars(ReceiveOk(e))
         /\ SF_vars(MarkDelivered(e))

Spec == Safety /\ Fairness

----------------------------------------------------------------------------
(* Properties *)

TypeOK ==
    /\ pc \in {"collect", "drain", "send", "await", "ack", "fail", "wait", "down"}
    /\ generated \in 0 .. MaxEvents
    /\ refused \subseteq Events
    /\ queued \subseteq Events
    /\ attempts \in [Events -> 0 .. AttemptCap]
    /\ backoff \in [Events -> 0 .. MaxDelay]
    /\ batch \subseteq Events
    /\ cur \in Events \union {None}
    /\ reply \in {"none", "sent", "ok", "rejected"}
    /\ late \subseteq Events
    /\ inserts \in [Events -> Nat]
    /\ crashes \in 0 .. MaxCrashes

accepted == (1 .. generated) \ refused

\* Every observation the queue ever accepted is still in the queue or has
\* been recorded by the server, whatever was lost, late or interrupted
\* (README.md:76-81 of the agent's build directory).
NoLoss == accepted \subseteq queued \union recorded

\* However often an observation is sent, and however late a request is
\* served, the server holds it at most once, and it never holds one the
\* queue refused.
RecordedOnce ==
    \A e \in Events :
        /\ inserts[e] <= 1
        /\ inserts[e] = 1 => e \in accepted

\* enqueue_json keeps the queue within queue_max_items even when a payload
\* of several observations arrives at an almost full queue.
WithinCapacity == Cardinality(queued) <= MaxItems

\* While a row backs off no request for it leaves the agent: a retry waits
\* for next_attempt_at, whatever batches, crashes and restarts do.
RespectsBackoff ==
    [][\A e \in Events : (cur' = e /\ cur # e) => backoff[e] = 0]_vars

\* Every accepted observation the server can store is stored and leaves the
\* queue, although rejected rows are retried for ever in front of it.
Delivered ==
    \A e \in Events \ Poison :
        e \in queued ~> e \in recorded /\ e \notin queued

\* The queue, the loop and the server implement EventDelivery.
Abstract == INSTANCE EventDelivery WITH
    Events <- Events,
    committed <- accepted,
    recorded <- recorded,
    kept <- queued

ImplementsDelivery == Abstract!Spec
=============================================================================
