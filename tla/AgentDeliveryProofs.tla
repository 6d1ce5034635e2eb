------------------------ MODULE AgentDeliveryProofs ------------------------
(***************************************************************************)
(* What AgentDelivery promises, proved for every value of its constants.   *)
(* Inv is the inductive invariant: TypeOK, the bookkeeping of the row in   *)
(* flight, and the three safety invariants the runs check.                 *)
(***************************************************************************)
EXTENDS Chain, TLAPS, FiniteSetTheorems

\* The row in flight and the requests on the wire are rows the queue
\* accepted; a 2xx response, and the acknowledgement it leads to, mean that
\* the server has the row.
InFlight ==
    /\ refused \subseteq 1 .. generated
    /\ queued \subseteq accepted
    /\ batch \subseteq accepted
    /\ late \subseteq accepted
    /\ pc \in {"await", "ack", "fail"} => cur \in accepted
    /\ reply # "none" => pc = "await"
    /\ reply = "ok" => cur \in recorded
    /\ pc = "ack" => cur \in recorded

Inv ==
    /\ TypeOK
    /\ InFlight
    /\ NoLoss
    /\ RecordedOnce
    /\ WithinCapacity

----------------------------------------------------------------------------

\* A delay is a duration between 0 and retry_max_seconds, saturated as
\* mark_failed computes it.
LEMMA DelayType == \A n : Delay(n) \in 0 .. MaxDelay
  BY BoundsAssumption DEF Delay

\* Counting saturates at AttemptCap.
LEMMA CountedType == \A n \in 0 .. AttemptCap : Counted(n) \in 0 .. AttemptCap
  BY BoundsAssumption DEF Counted

\* Any set of observations is finite.
LEMMA EventsFinite == \A S \in SUBSET Events : IsFiniteSet(S)
<1>1. 1 \in Int /\ MaxEvents \in Int
  BY BoundsAssumption
<1>2. IsFiniteSet(Events)
  BY <1>1, FS_Interval DEF Events
<1> QED
  BY <1>2, FS_Subset

\* An idempotent insert adds at most the row it is given, and only one.
LEMMA InsertOnce ==
    ASSUME TypeOK, NEW e \in Events, IdempotentInsert(e)
    PROVE  /\ inserts' \in [Events -> Nat]
           /\ recorded' = recorded \union {e}
           /\ \A f \in Events : inserts[f] <= 1 => inserts'[f] <= 1
  BY DEF TypeOK, IdempotentInsert, recorded

\* A payload that fits leaves the queue within its limit.
LEMMA FitsWithinCapacity ==
    ASSUME TypeOK, NEW payload \in SUBSET Events, Fits(payload)
    PROVE  Cardinality(queued \union payload) <= MaxItems
<1> DEFINE fresh == payload \ queued
<1>1. IsFiniteSet(queued) /\ IsFiniteSet(fresh)
  BY EventsFinite DEF TypeOK
<1>2. queued \intersect fresh = {} /\ queued \union fresh = queued \union payload
  OBVIOUS
<1>3. Cardinality(queued \union fresh)
        = Cardinality(queued) + Cardinality(fresh) - Cardinality(queued \intersect fresh)
  BY <1>1, FS_Union
<1>4. Cardinality({}) = 0
  BY FS_EmptySet
<1>5. Cardinality(queued) \in Nat /\ Cardinality(fresh) \in Nat
  BY <1>1, FS_CardinalityType
<1>6. Cardinality(queued \intersect fresh) = 0
  BY <1>2, <1>4, Zenon
<1>7. Cardinality(queued \union payload) = Cardinality(queued \union fresh)
  BY <1>2, Zenon
<1>8. Cardinality(queued) + Cardinality(fresh) <= MaxItems
  BY DEF Fits
<1> HIDE DEF fresh
<1> QED
  BY <1>3, <1>5, <1>6, <1>7, <1>8

\* Taking a row out cannot take the queue over its limit.
LEMMA RemoveWithinCapacity ==
    ASSUME TypeOK, WithinCapacity, NEW e
    PROVE  Cardinality(queued \ {e}) <= MaxItems
<1>1. IsFiniteSet(queued)
  BY EventsFinite DEF TypeOK
<1>2. Cardinality(queued \ {e}) <= Cardinality(queued)
  BY <1>1, FS_Subset
<1>3. Cardinality(queued) \in Nat /\ Cardinality(queued \ {e}) \in Nat
  BY <1>1, FS_Subset, FS_CardinalityType
<1> QED
  BY <1>2, <1>3, BoundsAssumption DEF WithinCapacity

----------------------------------------------------------------------------

\* The empty queue of a new installation satisfies the invariant.
LEMMA InitInv == Init => Inv
<1> SUFFICES ASSUME Init PROVE Inv
  OBVIOUS
<1>1. TypeOK
  BY BoundsAssumption DEF Init, TypeOK, Events, None
<1>2. InFlight /\ NoLoss /\ RecordedOnce
  BY DEF Init, InFlight, NoLoss, RecordedOnce, accepted, recorded
<1>3. WithinCapacity
  BY FS_EmptySet, BoundsAssumption DEF Init, WithinCapacity
<1> QED
  BY <1>1, <1>2, <1>3 DEF Inv

----------------------------------------------------------------------------
(* Every step keeps the invariant. *)

\* Every step keeps the types; Delay and Counted stay within their bounds.
LEMMA TypeStep == TypeOK /\ InFlight /\ [Next]_vars => TypeOK'
<1> SUFFICES ASSUME TypeOK, InFlight, [Next]_vars PROVE TypeOK'
  OBVIOUS
<1> USE DEF TypeOK, store
<1>0. accepted \subseteq Events
  BY BoundsAssumption DEF accepted, Events
<1>1. CASE Collect
  <2>1. PICK n \in 1 .. MaxPayload :
          LET payload == generated + 1 .. generated + n
          IN  /\ generated + n <= MaxEvents
              /\ generated' = generated + n
              /\ queued' \subseteq queued \union payload
              /\ refused' \subseteq refused \union payload
    BY <1>1 DEF Collect
  <2>2. generated + 1 .. generated + n \subseteq Events
    BY <2>1, BoundsAssumption DEF Events
  <2>3. generated' \in 0 .. MaxEvents
    BY <2>1, BoundsAssumption
  <2>4. queued' \subseteq Events /\ refused' \subseteq Events
    BY <2>1, <2>2
  <2> QED
    BY <1>1, <2>3, <2>4 DEF Collect
<1>2. CASE SkipCollection
  BY <1>2 DEF SkipCollection
<1>3. CASE StartDrain
  BY <1>3 DEF StartDrain, FirstDue, due
<1>4. CASE \E e \in Events : Post(e) \/ ReceiveOk(e) \/ MarkDelivered(e)
  BY <1>4 DEF Post, ReceiveOk, MarkDelivered, NextItem
<1>5. CASE \E e \in Events : ServerAccepts(e) \/ ServerHandlesLate(e)
  BY <1>5, InsertOnce DEF ServerAccepts, ServerHandlesLate
<1>6. CASE \E e \in Events : LateRequestDies(e)
  BY <1>6 DEF LateRequestDies
<1>7. CASE ServerRejects
  BY <1>7 DEF ServerRejects
<1>8. CASE SenderFails
  BY <1>0, <1>8 DEF SenderFails, Abandoned, InFlight
<1>9. CASE AckFails
  BY <1>9 DEF AckFails
<1>10. CASE MarkFailed
  <2>1. cur \in Events
    BY <1>0, <1>10 DEF MarkFailed, InFlight
  <2>2. attempts' \in [Events -> 0 .. AttemptCap]
    BY <1>10, <2>1, CountedType DEF MarkFailed
  <2>3. backoff' \in [Events -> 0 .. MaxDelay]
    BY <1>10, <2>1, DelayType DEF MarkFailed
  <2> QED
    BY <1>10, <2>2, <2>3 DEF MarkFailed, NextItem, None
<1>11. ASSUME NEW d \in Nat, Elapse(d) PROVE backoff' \in [Events -> 0 .. MaxDelay]
  BY <1>11, BoundsAssumption DEF Elapse
<1>12. CASE Wait
  BY <1>11, <1>12, BoundsAssumption DEF Wait
<1>13. CASE Restart
  BY <1>11, <1>13, BoundsAssumption DEF Restart
<1>14. CASE Crash
  BY <1>0, <1>14, BoundsAssumption DEF Crash, Abandoned, InFlight
<1>15. CASE UNCHANGED vars
  BY <1>15 DEF vars
<1> QED
  BY <1>1, <1>2, <1>3, <1>4, <1>5, <1>6, <1>7, <1>8, <1>9, <1>10, <1>12, <1>13,
     <1>14, <1>15 DEF Next

\* A payload is new: it is accepted as a whole with the rows it adds to the
\* queue, or it changes neither.
LEMMA CollectAccepts ==
    ASSUME TypeOK, InFlight, Collect
    PROVE  \E payload \in SUBSET Events :
             /\ payload # {}
             /\ payload \intersect accepted = {}
             /\ refused' \subseteq 1 .. generated'
             /\ \/ /\ Fits(payload)
                   /\ queued' = queued \union payload
                   /\ accepted' = accepted \union payload
                \/ /\ queued' = queued
                   /\ accepted' = accepted
<1>1. PICK n \in 1 .. MaxPayload :
        LET payload == generated + 1 .. generated + n
        IN  /\ generated + n <= MaxEvents
            /\ generated' = generated + n
            /\ \/ /\ Fits(payload)
                  /\ queued' = queued \union payload
                  /\ refused' = refused
               \/ /\ queued' = queued
                  /\ refused' = refused \union payload
  BY DEF Collect
<1> DEFINE payload == generated + 1 .. generated + n
<1>2. generated \in Nat /\ n \in Nat /\ n >= 1
  BY BoundsAssumption DEF TypeOK
<1>3. 1 .. generated' = (1 .. generated) \union payload
  BY <1>1, <1>2
<1>4. payload \subseteq Events /\ generated + 1 \in payload
  BY <1>1, <1>2, BoundsAssumption DEF Events
<1>5. payload \intersect (1 .. generated) = {}
  BY <1>2
<1>6. refused \subseteq 1 .. generated
  BY DEF InFlight
<1>7. \/ /\ Fits(payload)
         /\ queued' = queued \union payload
         /\ refused' = refused
      \/ /\ queued' = queued
         /\ refused' = refused \union payload
  BY <1>1
<1> HIDE DEF payload
<1>8. payload # {} /\ payload \intersect accepted = {}
  BY <1>4, <1>5 DEF accepted
<1>9. refused' \subseteq 1 .. generated'
  BY <1>3, <1>6, <1>7
<1>10. refused' = refused => accepted' = accepted \union payload
  BY <1>3, <1>5, <1>6 DEF accepted
<1>11. refused' = refused \union payload => accepted' = accepted
  BY <1>3, <1>5, <1>6 DEF accepted
<1> QED
  BY <1>4, <1>7, <1>8, <1>9, <1>10, <1>11

\* No other step produces or refuses an observation.
LEMMA OthersAcceptNothing ==
    ASSUME [Next]_vars, ~ Collect
    PROVE  generated' = generated /\ refused' = refused /\ accepted' = accepted
<1>1. generated' = generated /\ refused' = refused
  BY DEF Next, vars, SkipCollection, StartDrain, Post, ReceiveOk, MarkDelivered,
         ServerAccepts, ServerHandlesLate, LateRequestDies, ServerRejects,
         SenderFails, AckFails, MarkFailed, Wait, Crash, Restart
<1> QED
  BY <1>1 DEF accepted

\* What the server has stored it keeps, and it stores only what was sent.
LEMMA RecordedGrows ==
    ASSUME TypeOK, InFlight, [Next]_vars
    PROVE  /\ recorded \subseteq recorded'
           /\ recorded' \subseteq recorded \union accepted
           /\ \A e \in Events : inserts[e] <= 1 => inserts'[e] <= 1
<1>1. CASE \E e \in Events : ServerAccepts(e)
  BY <1>1, InsertOnce DEF ServerAccepts, InFlight
<1>2. CASE \E e \in Events : ServerHandlesLate(e)
  BY <1>2, InsertOnce DEF ServerHandlesLate, InFlight, recorded
<1>3. CASE inserts' = inserts
  BY <1>3 DEF recorded
<1> QED
  BY <1>1, <1>2, <1>3
  DEF Next, vars, Collect, SkipCollection, StartDrain, Post, ReceiveOk,
      MarkDelivered, LateRequestDies, ServerRejects, SenderFails, AckFails,
      MarkFailed, Wait, Crash, Restart

\* Every step keeps the bookkeeping of the row in flight and of the wire.
LEMMA InFlightStep == TypeOK /\ InFlight /\ [Next]_vars => InFlight'
<1> SUFFICES ASSUME TypeOK, InFlight, [Next]_vars PROVE InFlight'
  OBVIOUS
<1> USE DEF store
<1>1. recorded \subseteq recorded'
  BY RecordedGrows
<1>2. CASE Collect
  BY <1>1, <1>2, CollectAccepts DEF InFlight, Collect
<1>3. ASSUME ~ Collect
      PROVE  /\ accepted' = accepted
             /\ refused' \subseteq 1 .. generated'
  BY <1>3, OthersAcceptNothing DEF InFlight
<1>4. CASE SkipCollection
  BY <1>1, <1>4, <1>3, <1>2 DEF InFlight, SkipCollection
<1>5. CASE StartDrain
  BY <1>1, <1>5, <1>3, <1>2 DEF InFlight, StartDrain, FirstDue, due
<1>6. CASE \E e \in Events : Post(e)
  BY <1>1, <1>6, <1>3, <1>2 DEF InFlight, Post
<1>7. CASE \E e \in Events : ReceiveOk(e)
  BY <1>1, <1>7, <1>3, <1>2 DEF InFlight, ReceiveOk
<1>8. CASE \E e \in Events : MarkDelivered(e)
  BY <1>1, <1>8, <1>3, <1>2 DEF InFlight, MarkDelivered, NextItem
<1>9. CASE \E e \in Events : ServerAccepts(e)
  <2>1. PICK e \in Events : ServerAccepts(e)
    BY <1>9
  <2>2. cur' \in recorded'
    BY <2>1, InsertOnce DEF ServerAccepts
  <2> QED
    BY <1>1, <2>1, <2>2, <1>3, <1>2 DEF InFlight, ServerAccepts
<1>10. CASE \E e \in Events : ServerHandlesLate(e) \/ LateRequestDies(e)
  BY <1>1, <1>10, <1>3, <1>2 DEF InFlight, ServerHandlesLate, LateRequestDies
<1>11. CASE ServerRejects
  BY <1>1, <1>11, <1>3, <1>2 DEF InFlight, ServerRejects
<1>12. CASE SenderFails
  BY <1>1, <1>12, <1>3, <1>2 DEF InFlight, SenderFails, Abandoned
<1>13. CASE AckFails
  BY <1>1, <1>13, <1>3, <1>2 DEF InFlight, AckFails
<1>14. CASE MarkFailed
  BY <1>1, <1>14, <1>3, <1>2 DEF InFlight, MarkFailed, NextItem
<1>15. CASE Wait
  BY <1>1, <1>15, <1>3, <1>2 DEF InFlight, Wait
<1>16. CASE Crash
  BY <1>1, <1>16, <1>3, <1>2 DEF InFlight, Crash, Abandoned
<1>17. CASE Restart
  BY <1>1, <1>17, <1>3, <1>2 DEF InFlight, Restart
<1>18. CASE UNCHANGED vars
  BY <1>1, <1>18, <1>3, <1>2 DEF InFlight, vars
<1> QED
  BY <1>2, <1>4, <1>5, <1>6, <1>7, <1>8, <1>9, <1>10, <1>11, <1>12, <1>13,
     <1>14, <1>15, <1>16, <1>17, <1>18 DEF Next

\* A step shrinks the queue only by the row MarkDelivered acknowledges.
LEMMA QueueStep ==
    ASSUME [Next]_vars, ~ Collect
    PROVE  \/ queued' = queued
           \/ \E e \in Events : pc = "ack" /\ cur = e /\ queued' = queued \ {e}
BY DEF Next, vars, store, SkipCollection, StartDrain, Post, ReceiveOk,
       MarkDelivered, ServerAccepts, ServerHandlesLate, LateRequestDies,
       ServerRejects, SenderFails, AckFails, MarkFailed, Wait, Crash, Restart

\* A row leaves the queue only when the server has it.
LEMMA LeavesStep ==
    ASSUME TypeOK, InFlight, [Next]_vars, NEW e \in queued, e \notin queued'
    PROVE  e \in recorded
<1>1. CASE Collect
  BY <1>1, CollectAccepts
<1>2. CASE ~ Collect
  BY <1>2, QueueStep DEF InFlight
<1> QED
  BY <1>1, <1>2

\* Every step keeps NoLoss: rows are added when accepted and leave recorded.
LEMMA NoLossStep ==
    ASSUME TypeOK, InFlight, NoLoss, [Next]_vars
    PROVE  NoLoss'
<1>1. recorded \subseteq recorded'
  BY RecordedGrows
<1>2. accepted' \subseteq accepted \union queued'
  <2>1. CASE Collect
    BY <2>1, CollectAccepts
  <2>2. CASE ~ Collect
    BY <2>2, OthersAcceptNothing
  <2> QED
    BY <2>1, <2>2
<1>3. queued \subseteq queued' \union recorded
  BY LeavesStep
<1> QED
  BY <1>1, <1>2, <1>3 DEF NoLoss

\* Every step keeps RecordedOnce: inserts are idempotent and of accepted rows.
LEMMA RecordedOnceStep ==
    ASSUME TypeOK, InFlight, RecordedOnce, [Next]_vars
    PROVE  RecordedOnce'
<1>1. accepted \subseteq accepted'
  <2>1. CASE Collect
    BY <2>1, CollectAccepts
  <2>2. CASE ~ Collect
    BY <2>2, OthersAcceptNothing
  <2> QED
    BY <2>1, <2>2
<1>2. \A e \in Events : inserts'[e] <= 1
  BY RecordedGrows DEF RecordedOnce
<1>3. ASSUME NEW e \in Events, inserts'[e] = 1 PROVE e \in accepted'
  <2>1. e \in recorded'
    BY <1>3 DEF recorded
  <2>2. e \in recorded \/ e \in accepted
    BY <2>1, RecordedGrows
  <2>3. e \in recorded => e \in accepted
    BY DEF RecordedOnce, recorded, TypeOK
  <2> QED
    BY <1>1, <2>2, <2>3
<1> QED
  BY <1>2, <1>3 DEF RecordedOnce

\* Every step keeps the queue within queue_max_items.
LEMMA CapacityStep ==
    ASSUME TypeOK, InFlight, WithinCapacity, [Next]_vars
    PROVE  WithinCapacity'
<1>1. CASE queued' = queued
  BY <1>1 DEF WithinCapacity
<1>2. CASE Collect
  BY <1>1, <1>2, CollectAccepts, FitsWithinCapacity DEF WithinCapacity
<1>3. CASE ~ Collect
  BY <1>1, <1>3, QueueStep, RemoveWithinCapacity DEF WithinCapacity
<1> QED
  BY <1>2, <1>3

\* Inv is inductive.
THEOREM Invariance == Safety => []Inv
<1>1. Inv /\ [Next]_vars => Inv'
  <2> SUFFICES ASSUME Inv, [Next]_vars PROVE Inv'
    OBVIOUS
  <2>1. TypeOK /\ InFlight /\ NoLoss /\ RecordedOnce /\ WithinCapacity
    BY DEF Inv
  <2>2. TypeOK' /\ InFlight'
    BY <2>1, TypeStep, InFlightStep
  <2>3. NoLoss' /\ RecordedOnce' /\ WithinCapacity'
    BY <2>1, NoLossStep, RecordedOnceStep, CapacityStep
  <2> QED
    BY <2>2, <2>3 DEF Inv
<1> QED
  BY <1>1, InitInv, PTL DEF Safety

\* The variables of the agent, the wire and the server stay within their
\* types, the attempts counter and the backoff within their bounds.
THEOREM TypeCorrect == Safety => []TypeOK
BY Invariance, PTL DEF Inv

\* No observation that was committed to the queue is ever lost
\* (delivery_queue.py:146-162: the row is deleted after the 2xx only).
THEOREM NothingLost == Safety => []NoLoss
BY Invariance, PTL DEF Inv

\* Resent and late requests never store an observation twice
\* (main.py:113-123 of the server).
THEOREM StoredOnce == Safety => []RecordedOnce
BY Invariance, PTL DEF Inv

\* The queue never holds more than queue_max_items rows
\* (delivery_queue.py:76-83).
THEOREM CapacityKept == Safety => []WithinCapacity
BY Invariance, PTL DEF Inv

----------------------------------------------------------------------------
(* Backoff: the rows of the batch stay due until they are sent, because    *)
(* only the row being handled gets a new delay.                            *)

DueBatch ==
    /\ \A e \in batch : backoff[e] = 0
    /\ cur \notin batch
    /\ pc \notin {"await", "ack", "fail"} => cur = None

\* Every step keeps the batch due and apart from the row being handled.
LEMMA DueBatchStep == TypeOK /\ DueBatch /\ [Next]_vars => DueBatch'
<1> SUFFICES ASSUME TypeOK, DueBatch, [Next]_vars PROVE DueBatch'
  OBVIOUS
<1> USE DEF TypeOK, DueBatch, store
<1>1. None \notin Events
  BY DEF None, Events
<1>2. CASE StartDrain
  <2>1. batch' \subseteq due /\ cur' = cur /\ backoff' = backoff
    BY <1>2 DEF StartDrain, FirstDue
  <2>2. pc = "drain" /\ pc' \in {"wait", "send"}
    BY <1>2 DEF StartDrain
  <2> QED
    BY <1>1, <2>1, <2>2 DEF due
<1>3. CASE \E e \in Events : Post(e)
  BY <1>3 DEF Post
<1>4. CASE \E e \in Events : ReceiveOk(e) \/ MarkDelivered(e)
  BY <1>1, <1>4 DEF ReceiveOk, MarkDelivered, NextItem
<1>5. CASE MarkFailed
  <2>1. backoff' = [backoff EXCEPT ![cur] = Delay(attempts'[cur])]
    BY <1>5 DEF MarkFailed
  <2>2. batch' = batch /\ cur' = None
    BY <1>5 DEF MarkFailed
  <2>3. \A e \in batch : backoff'[e] = 0
    BY <2>1
  <2> QED
    BY <1>1, <2>2, <2>3
<1>6. CASE Wait \/ Restart
  <2>1. PICK d \in 0 .. MaxPass : Elapse(d)
    BY <1>6, BoundsAssumption DEF Wait, Restart
  <2>2. \A e \in batch : backoff'[e] = 0
    BY <2>1, BoundsAssumption DEF Elapse
  <2> QED
    BY <1>6, <2>2 DEF Wait, Restart
<1>7. CASE Crash
  BY <1>7 DEF Crash
<1>8. CASE SenderFails \/ AckFails
  BY <1>8 DEF SenderFails, AckFails
<1>9. CASE UNCHANGED <<backoff, batch, cur>> /\ (pc' = pc \/ pc = "collect")
  BY <1>9
<1> QED
  BY <1>2, <1>3, <1>4, <1>5, <1>6, <1>7, <1>8, <1>9
  DEF Next, vars, Collect, SkipCollection, ServerAccepts, ServerHandlesLate,
      LateRequestDies, ServerRejects

\* A row becomes the row being handled only from the batch.
LEMMA HandledFromBatch ==
    ASSUME TypeOK, [Next]_vars, NEW e \in Events, cur' = e, cur # e
    PROVE  e \in batch
<1>1. e # None
  BY DEF None, Events
<1> QED
  BY <1>1
  DEF Next, vars, store, Collect, SkipCollection, StartDrain, Post, ReceiveOk,
      MarkDelivered, ServerAccepts, ServerHandlesLate, LateRequestDies,
      ServerRejects, SenderFails, AckFails, MarkFailed, Wait, Crash, Restart

\* No request for a row leaves the agent before next_attempt_at, whatever
\* happened since the batch was read (delivery_queue.py:104-114, 129-130).
THEOREM BackoffRespected == Safety => RespectsBackoff
<1>1. Init => DueBatch
  BY DEF Init, DueBatch
<1>2. TypeOK /\ DueBatch /\ [Next]_vars
        => [\A e \in Events : (cur' = e /\ cur # e) => backoff[e] = 0]_vars
  BY HandledFromBatch DEF DueBatch
<1> QED
  BY <1>1, <1>2, DueBatchStep, TypeCorrect, PTL DEF Safety, RespectsBackoff

----------------------------------------------------------------------------
(* AgentDelivery implements EventDelivery: the queue's accepted rows are    *)
(* the committed observations, and its rows are what it keeps.              *)

\* An empty queue is an empty history.
LEMMA SimulatesInit == Init => Abstract!Init
BY DEF Init, Abstract!Init, accepted, recorded

\* A collected payload is an abstract commit, or nothing when it is refused.
LEMMA SimulatesCollect ==
    ASSUME Inv, Collect
    PROVE  [Abstract!Next]_Abstract!vars
<1>1. TypeOK /\ InFlight
  BY DEF Inv
<1>2. recorded' = recorded
  BY DEF Collect, recorded
<1>3. PICK payload \in SUBSET Events :
        /\ payload # {}
        /\ payload \intersect accepted = {}
        /\ \/ /\ queued' = queued \union payload
              /\ accepted' = accepted \union payload
           \/ /\ queued' = queued
              /\ accepted' = accepted
  BY <1>1, CollectAccepts
<1>4. CASE accepted' = accepted /\ queued' = queued
  BY <1>2, <1>4 DEF Abstract!vars
<1>5. CASE accepted' = accepted \union payload /\ queued' = queued \union payload
  BY <1>2, <1>5 DEF Abstract!Next, Abstract!Commit
<1> QED
  BY <1>3, <1>4, <1>5

\* Any other step records one accepted row, forgets one recorded row, or
\* changes nothing the abstract specification sees.
LEMMA SimulatesOthers ==
    ASSUME Inv, [Next]_vars, ~ Collect
    PROVE  [Abstract!Next]_Abstract!vars
<1>1. TypeOK /\ InFlight
  BY DEF Inv
<1>2. accepted' = accepted
  BY OthersAcceptNothing
<1>3. ASSUME NEW e \in Events, e \in accepted, IdempotentInsert(e), queued' = queued
      PROVE  [Abstract!Next]_Abstract!vars
  <2>1. recorded' = recorded \union {e}
    BY <1>1, <1>3, InsertOnce
  <2>2. CASE e \in recorded
    BY <1>2, <1>3, <2>1, <2>2 DEF Abstract!vars
  <2>3. CASE e \notin recorded
    BY <1>2, <1>3, <2>1, <2>3 DEF Abstract!Next, Abstract!Record
  <2> QED
    BY <2>2, <2>3
<1>4. CASE \E e \in Events : ServerAccepts(e)
  BY <1>1, <1>3, <1>4 DEF ServerAccepts, store, InFlight
<1>5. CASE \E e \in Events : ServerHandlesLate(e) /\ e \notin Poison
  BY <1>1, <1>3, <1>5 DEF ServerHandlesLate, store, InFlight
<1>6. CASE \E e \in Events : MarkDelivered(e)
  <2>1. PICK e \in Events : MarkDelivered(e)
    BY <1>6
  <2>2. e \in recorded /\ e \in accepted /\ recorded' = recorded
    BY <1>1, <2>1 DEF MarkDelivered, InFlight, recorded
  <2>3. queued' = queued \ {e}
    BY <2>1 DEF MarkDelivered
  <2>4. CASE e \in queued
    BY <1>2, <2>2, <2>3, <2>4 DEF Abstract!Next, Abstract!Forget
  <2>5. CASE e \notin queued
    BY <1>2, <2>2, <2>3, <2>5 DEF Abstract!vars
  <2> QED
    BY <2>4, <2>5
<1>7. CASE inserts' = inserts /\ queued' = queued
  BY <1>2, <1>7 DEF Abstract!vars, recorded
<1> QED
  BY <1>4, <1>5, <1>6, <1>7
  DEF Next, vars, store, SkipCollection, StartDrain, Post, ReceiveOk,
      ServerHandlesLate, LateRequestDies, ServerRejects, SenderFails, AckFails,
      MarkFailed, Wait, Crash, Restart

\* The queue, the loop and the server together keep the promise EventDelivery
\* makes: commit first, record, and only then forget.
THEOREM Refinement == Safety => ImplementsDelivery
<1>1. Inv /\ [Next]_vars => [Abstract!Next]_Abstract!vars
  BY SimulatesCollect, SimulatesOthers
<1> QED
  BY <1>1, SimulatesInit, Invariance, PTL
  DEF Safety, ImplementsDelivery, Abstract!Spec

----------------------------------------------------------------------------
(* A Proxy behind the agent *)

\* What the Proxy has answered for is in its table or stored by Main, which
\* stores nothing else.
ProxyKeeps == stored \subseteq recorded /\ recorded \subseteq forwarding \union stored

LEMMA ProxyKeepsAlways == Proxy!Spec => []ProxyKeeps
<1>1. Proxy!Init => ProxyKeeps
  BY DEF Proxy!Init, ProxyKeeps
<1>2. ProxyKeeps /\ [Proxy!Next]_Proxy!vars => ProxyKeeps'
  BY DEF ProxyKeeps, Proxy!Next, Proxy!Commit, Proxy!Record, Proxy!Forget, Proxy!vars
<1> QED
  BY <1>1, <1>2, PTL DEF Proxy!Spec

\* Nothing the agent accepted is lost on the way through a Proxy, whatever
\* either of them repeats, forgets or dies of.
THEOREM NothingLostInChain == Chained => []NothingLostOnTheWay
<1>1. NoLoss /\ ProxyKeeps => NothingLostOnTheWay
  BY DEF NoLoss, ProxyKeeps, NothingLostOnTheWay
<1> QED
  BY <1>1, NothingLost, ProxyKeepsAlways, PTL DEF Chained

\* A step of either queue is a step of the whole, or none.
LEMMA SimulatesChain ==
    ASSUME recorded \subseteq accepted, ProxyKeeps,
           [Abstract!Next]_Abstract!vars, [Proxy!Next]_Proxy!vars,
           UNCHANGED <<accepted, queued>> \/ UNCHANGED <<forwarding, stored>>,
           (recorded \subseteq accepted)'
    PROVE  [Whole!Next]_Whole!vars
<1>1. ASSUME UNCHANGED <<accepted, queued>> PROVE [Whole!Next]_Whole!vars
  <2>1. ASSUME NEW payload \in SUBSET Events, Proxy!Commit(payload) PROVE Whole!Next
    <3>1. payload \subseteq accepted
      BY <1>1, <2>1 DEF Proxy!Commit
    <3>2. Whole!Commit(payload)
      BY <1>1, <2>1, <3>1 DEF Proxy!Commit, Whole!Commit
    <3> QED  BY <3>2 DEF Whole!Next
  <2>2. ASSUME NEW e \in Events, Proxy!Record(e) PROVE Whole!Next
    <3>1. Whole!Record(e)
      BY <1>1, <2>2 DEF Proxy!Record, Whole!Record
    <3> QED  BY <3>1 DEF Whole!Next
  <2>3. ASSUME NEW e \in Events, Proxy!Forget(e) PROVE [Whole!Next]_Whole!vars
    <3>1. CASE e \in queued
      BY <1>1, <2>3, <3>1 DEF Proxy!Forget, Whole!vars
    <3>2. CASE e \notin queued
      BY <1>1, <2>3, <3>2 DEF Proxy!Forget, Whole!Forget, Whole!Next
    <3> QED  BY <3>1, <3>2
  <2>4. CASE UNCHANGED Proxy!vars
    BY <1>1, <2>4 DEF Proxy!vars, Whole!vars
  <2> QED  BY <2>1, <2>2, <2>3, <2>4 DEF Proxy!Next
<1>2. ASSUME UNCHANGED <<forwarding, stored>> PROVE [Whole!Next]_Whole!vars
  <2>1. ASSUME NEW payload \in SUBSET Events, Abstract!Commit(payload) PROVE Whole!Next
    <3>1. Whole!Commit(payload)
      BY <1>2, <2>1 DEF Abstract!Commit, Whole!Commit
    <3> QED  BY <3>1 DEF Whole!Next
  <2>2. ASSUME NEW e \in Events, Abstract!Record(e) PROVE UNCHANGED Whole!vars
    BY <1>2, <2>2 DEF Abstract!Record, Whole!vars
  <2>3. ASSUME NEW e \in Events, Abstract!Forget(e) PROVE [Whole!Next]_Whole!vars
    <3>1. CASE e \in forwarding
      BY <1>2, <2>3, <3>1 DEF Abstract!Forget, Whole!vars
    <3>2. CASE e \notin forwarding
      BY <1>2, <2>3, <3>2 DEF Abstract!Forget, Whole!Forget, Whole!Next, ProxyKeeps
    <3> QED  BY <3>1, <3>2
  <2>4. CASE UNCHANGED Abstract!vars
    BY <1>2, <2>4 DEF Abstract!vars, Whole!vars
  <2> QED  BY <2>1, <2>2, <2>3, <2>4 DEF Abstract!Next
<1> QED
  BY <1>1, <1>2

\* An agent, as it is modelled in full, and a Proxy that keeps its promise
\* together implement EventDelivery towards Main.
THEOREM ChainDelivers == Chained => ImplementsOneQueue
<1>1. Abstract!Init /\ Proxy!Init => Whole!Init
  BY DEF Abstract!Init, Proxy!Init, Whole!Init
<1>2. Inv => recorded \subseteq accepted
  BY DEF Inv, TypeOK, RecordedOnce, recorded
<1>3. /\ recorded \subseteq accepted /\ (recorded \subseteq accepted)' /\ ProxyKeeps
      /\ [Abstract!Next]_Abstract!vars /\ [Proxy!Next]_Proxy!vars
      /\ [\/ UNCHANGED <<accepted, queued>>
          \/ UNCHANGED <<forwarding, stored>>]_<<accepted, queued, forwarding, stored>>
      => [Whole!Next]_Whole!vars
  BY SimulatesChain
<1> QED
  BY <1>1, <1>2, <1>3, Refinement, Invariance, ProxyKeepsAlways, PTL
  DEF Chained, OneDatabaseAtATime, ImplementsDelivery, Abstract!Spec, Proxy!Spec,
      ImplementsOneQueue, Whole!Spec
=============================================================================
