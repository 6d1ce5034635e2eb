------------------------ MODULE ProxyForwarderProofs -----------------------
(***************************************************************************)
(* What ProxyForwarder promises, proved for every value of its constants.  *)
(* Inv is the inductive invariant: TypeOK, what ties the task and the wire *)
(* to the table and to Main, and the safety invariants of the run.         *)
(***************************************************************************)
EXTENDS ProxyForwarder, TLAPS, FiniteSetTheorems

Requests == Keys \X (1 .. MaxArrivals)

\* Main has processed a request.
Processed(request) ==
    IF request[1] \in Observations
    THEN request[1] \in recorded
    ELSE request[2] \in mainBeat[request[1]]

\* Whatever is read, posted or late was accepted in the version that is
\* carried; a 2xx response, and the acknowledgement it leads to, mean that
\* Main has processed it.
InFlight ==
    /\ \A k \in Keys : stamp[k] <= accepted[k] /\ accepted[k] <= arrivals
    /\ \A request \in batch \union late : request[2] <= accepted[request[1]]
    /\ item # NoItem => item[2] <= accepted[item[1]]
    /\ task \in {"await", "ack", "fail", "failing"} => item \in Requests
    /\ reply # "none" => task = "await"
    /\ reply = "ok" => Processed(item)
    /\ task = "ack" => Processed(item)

Inv ==
    /\ TypeOK
    /\ InFlight
    /\ NoObservationLost
    /\ WithinCapacity
    /\ RowsCarryLatestHeartbeat

----------------------------------------------------------------------------

\* A request is a key and the number of an arrival, and never NoItem.
LEMMA RequestType ==
    \A r \in Requests : /\ r[1] \in Keys
                        /\ r[2] \in 1 .. MaxArrivals
                        /\ r # NoItem
BY DEF Requests, NoItem

\* A delay lies between 0 and max_delay, saturated as failed computes it.
LEMMA DelayType == \A n : Delay(n) \in 0 .. MaxDelay
BY BoundsAssumption DEF Delay

\* Counting saturates at AttemptCap.
LEMMA CountedType == \A n \in 0 .. AttemptCap : Counted(n) \in 0 .. AttemptCap
BY BoundsAssumption DEF Counted

\* Any set of rows is finite.
LEMMA KeysFinite == \A S \in SUBSET Keys : IsFiniteSet(S)
BY BoundsAssumption, FS_Union, FS_Subset DEF Keys

\* A payload that fits leaves the table within its limit.
LEMMA FitsWithinCapacity ==
    ASSUME NEW payload \in SUBSET Keys, Fits(payload)
    PROVE  Cardinality(rows \union payload) <= MaxItems
<1> DEFINE new == payload \ rows
<1>1. IsFiniteSet(rows) /\ IsFiniteSet(new)
  BY KeysFinite DEF rows
<1>2. rows \intersect new = {} /\ rows \union new = rows \union payload
  OBVIOUS
<1>3. Cardinality(rows \union new)
        = Cardinality(rows) + Cardinality(new) - Cardinality(rows \intersect new)
  BY <1>1, FS_Union
<1>4. Cardinality({}) = 0
  BY FS_EmptySet
<1>5. Cardinality(rows) \in Nat /\ Cardinality(new) \in Nat
  BY <1>1, FS_CardinalityType
<1>6. Cardinality(rows \intersect new) = 0
  BY <1>2, <1>4, Zenon
<1>7. Cardinality(rows \union payload) = Cardinality(rows \union new)
  BY <1>2, Zenon
<1>8. Cardinality(rows) + Cardinality(new) <= MaxItems
  BY DEF Fits
<1> HIDE DEF new
<1> QED
  BY <1>3, <1>5, <1>6, <1>7, <1>8

\* Taking a row out cannot take the table over its limit.
LEMMA RemoveWithinCapacity ==
    ASSUME WithinCapacity, NEW k
    PROVE  Cardinality(rows \ {k}) <= MaxItems
<1>1. IsFiniteSet(rows)
  BY KeysFinite DEF rows
<1>2. Cardinality(rows \ {k}) <= Cardinality(rows)
  BY <1>1, FS_Subset
<1>3. Cardinality(rows) \in Nat /\ Cardinality(rows \ {k}) \in Nat
  BY <1>1, FS_Subset, FS_CardinalityType
<1> QED
  BY <1>2, <1>3, BoundsAssumption DEF WithinCapacity

----------------------------------------------------------------------------
(* What a step does to Main, to the table and to what was accepted. *)

\* Processing a request records it, forgets nothing, inserts no observation
\* twice and lets Main know no other heartbeat.
LEMMA ProcessEffect ==
    ASSUME TypeOK, NEW r \in Requests, Process(r)
    PROVE  /\ inserts' \in [Observations -> Nat]
           /\ mainBeat' \in [Agents -> SUBSET (1 .. MaxArrivals)]
           /\ recorded \subseteq recorded'
           /\ \A a \in Agents : mainBeat[a] \subseteq mainBeat'[a]
           /\ \A a \in Agents : \A n \in mainBeat'[a] :
                n \in mainBeat[a] \/ (a = r[1] /\ n = r[2])
           /\ \A o \in Observations : inserts[o] <= 1 => inserts'[o] <= 1
           /\ Processed(r)'
<1> USE RequestType DEF TypeOK
<1>1. CASE r[1] \in Observations
  BY <1>1 DEF Process, IdempotentInsert, recorded, Processed
<1>2. CASE r[1] \notin Observations
  <2>1. r[1] \in Agents
    BY <1>2 DEF Keys
  <2>2. /\ mainBeat' = [mainBeat EXCEPT ![r[1]] = @ \union {r[2]}]
        /\ inserts' = inserts
    BY <1>2 DEF Process
  <2>3. recorded' = recorded
    BY <2>2 DEF recorded
  <2> QED
    BY <1>2, <2>1, <2>2, <2>3 DEF Processed
<1> QED
  BY <1>1, <1>2
----------------------------------------------------------------------------

\* The empty table of a new Proxy satisfies the invariant.
LEMMA InitInv == Init => Inv
<1> SUFFICES ASSUME Init PROVE Inv
  OBVIOUS
<1>1. TypeOK
  BY BoundsAssumption DEF Init, TypeOK, NoItem
<1>2. rows = {} /\ recorded = {}
  BY DEF Init, rows, recorded
<1>3. InFlight /\ NoObservationLost
  BY <1>2, BoundsAssumption
  DEF Init, InFlight, NoObservationLost, NoItem, Keys
<1>4. WithinCapacity
  BY <1>2, FS_EmptySet, BoundsAssumption DEF WithinCapacity
<1>5. RowsCarryLatestHeartbeat
  BY <1>2 DEF Init, RowsCarryLatestHeartbeat
<1> QED
  BY <1>1, <1>3, <1>4, <1>5 DEF Inv

----------------------------------------------------------------------------
(* The handlers: what a payload or a heartbeat that is answered does. *)

\* What an accepted payload does to the table and to what was accepted.
LEMMA ServeEffect ==
    ASSUME TypeOK, InFlight, ServeObservations
    PROVE  /\ arrivals' = arrivals + 1
           /\ arrivals' \in 1 .. MaxArrivals
           /\ stamp' \in [Keys -> 0 .. MaxArrivals]
           /\ attempts' \in [Keys -> 0 .. AttemptCap]
           /\ backoff' \in [Keys -> 0 .. MaxDelay]
           /\ accepted' \in [Keys -> 0 .. MaxArrivals]
           /\ \A k \in Keys : stamp'[k] = stamp[k] \/ (stamp[k] = 0 /\ stamp'[k] = accepted'[k])
           /\ \A k \in Keys : accepted[k] <= accepted'[k] /\ accepted'[k] <= arrivals'
           /\ \A a \in Agents : stamp'[a] = stamp[a] /\ accepted'[a] = accepted[a]
           /\ rows \subseteq rows'
           /\ \A o \in Observations : accepted'[o] = accepted[o] \/ o \in rows'
           /\ \E payload \in SUBSET Keys :
                rows' = rows \/ (Fits(payload) /\ rows' = rows \union payload)
<1> USE DEF TypeOK
<1>1. arrivals' = arrivals + 1 /\ arrivals' \in 1 .. MaxArrivals /\ arrivals \in Nat
  BY BoundsAssumption DEF ServeObservations
<1>2. PICK payload \in SUBSET Observations :
        IF Fits(payload)
        THEN LET new == payload \ rows
             IN  /\ stamp' = [k \in Keys |-> IF k \in new THEN arrivals' ELSE stamp[k]]
                 /\ attempts' = [k \in Keys |-> IF k \in new THEN 0 ELSE attempts[k]]
                 /\ backoff' = [k \in Keys |-> IF k \in new THEN 0 ELSE backoff[k]]
                 /\ accepted' = [k \in Keys |->
                                  IF k \in payload THEN arrivals' ELSE accepted[k]]
        ELSE UNCHANGED <<table, accepted>>
  BY DEF ServeObservations
<1>3. payload \subseteq Keys /\ payload \intersect Agents = {}
  BY BoundsAssumption DEF Keys
<1>4. \A k \in Keys : accepted[k] <= arrivals
  BY DEF InFlight
<1>5. CASE Fits(payload)
  <2> DEFINE new == payload \ rows
  <2>1. /\ stamp' = [k \in Keys |-> IF k \in new THEN arrivals' ELSE stamp[k]]
        /\ attempts' = [k \in Keys |-> IF k \in new THEN 0 ELSE attempts[k]]
        /\ backoff' = [k \in Keys |-> IF k \in new THEN 0 ELSE backoff[k]]
        /\ accepted' = [k \in Keys |-> IF k \in payload THEN arrivals' ELSE accepted[k]]
    BY <1>2, <1>5
  <2>2. stamp' \in [Keys -> 0 .. MaxArrivals] /\ accepted' \in [Keys -> 0 .. MaxArrivals]
    BY <1>1, <2>1
  <2>3. attempts' \in [Keys -> 0 .. AttemptCap] /\ backoff' \in [Keys -> 0 .. MaxDelay]
    BY <2>1, BoundsAssumption
  <2>4. \A k \in Keys : stamp'[k] = stamp[k] \/ (stamp[k] = 0 /\ stamp'[k] = accepted'[k])
    BY <2>1 DEF rows
  <2>5. \A k \in Keys : accepted[k] <= accepted'[k] /\ accepted'[k] <= arrivals'
    BY <1>1, <1>4, <2>1
  <2>6. \A a \in Agents : stamp'[a] = stamp[a] /\ accepted'[a] = accepted[a]
    BY <1>3, <2>1 DEF Keys
  <2>7. rows' = rows \union payload
    BY <1>1, <1>3, <2>1 DEF rows
  <2>8. \A o \in Observations : accepted'[o] = accepted[o] \/ o \in rows'
    BY <2>1, <2>7 DEF Keys
  <2> QED
    BY <1>1, <1>3, <1>5, <2>2, <2>3, <2>4, <2>5, <2>6, <2>7, <2>8
<1>6. CASE ~ Fits(payload)
  <2>1. stamp' = stamp /\ attempts' = attempts /\ backoff' = backoff /\ accepted' = accepted
    BY <1>2, <1>6 DEF table
  <2>2. rows' = rows
    BY <2>1 DEF rows
  <2>3. \A k \in Keys : accepted[k] <= accepted'[k] /\ accepted'[k] <= arrivals'
    BY <1>1, <1>4, <2>1
  <2> QED
    BY <1>1, <2>1, <2>2, <2>3
<1> QED
  BY <1>5, <1>6

\* What a heartbeat does to the table and to what was accepted.
LEMMA HeartbeatEffect ==
    ASSUME TypeOK, InFlight, NEW a \in Agents, ServeHeartbeat(a)
    PROVE  /\ arrivals' = arrivals + 1
           /\ arrivals' \in 1 .. MaxArrivals
           /\ stamp' \in [Keys -> 0 .. MaxArrivals]
           /\ attempts' \in [Keys -> 0 .. AttemptCap]
           /\ backoff' \in [Keys -> 0 .. MaxDelay]
           /\ accepted' \in [Keys -> 0 .. MaxArrivals]
           /\ \A k \in Keys : \/ stamp'[k] = stamp[k] /\ accepted'[k] = accepted[k]
                              \/ stamp'[k] = accepted'[k]
           /\ \A k \in Keys : accepted[k] <= accepted'[k] /\ accepted'[k] <= arrivals'
           /\ \A o \in Observations : stamp'[o] = stamp[o] /\ accepted'[o] = accepted[o]
           /\ rows \subseteq rows'
           /\ \E payload \in SUBSET Keys :
                rows' = rows \/ (Fits(payload) /\ rows' = rows \union payload)
<1> USE DEF TypeOK
<1>1. arrivals' = arrivals + 1 /\ arrivals' \in 1 .. MaxArrivals /\ arrivals \in Nat
  BY BoundsAssumption DEF ServeHeartbeat
<1>2. a \in Keys /\ a \notin Observations
  BY BoundsAssumption DEF Keys
<1>3. \A k \in Keys : accepted[k] <= arrivals
  BY DEF InFlight
<1>4. CASE Fits({a})
  <2>1. /\ stamp' = [stamp EXCEPT ![a] = arrivals']
        /\ attempts' = [attempts EXCEPT ![a] = 0]
        /\ backoff' = [backoff EXCEPT ![a] = 0]
        /\ accepted' = [accepted EXCEPT ![a] = arrivals']
    BY <1>4 DEF ServeHeartbeat
  <2>2. stamp' \in [Keys -> 0 .. MaxArrivals] /\ accepted' \in [Keys -> 0 .. MaxArrivals]
    <3>1. 0 .. MaxArrivals = (0 .. MaxArrivals) \union {arrivals'}
      BY <1>1
    <3> QED
      BY <1>2, <2>1, <3>1
  <2>3. attempts' \in [Keys -> 0 .. AttemptCap] /\ backoff' \in [Keys -> 0 .. MaxDelay]
    <3>1. 0 \in 0 .. AttemptCap /\ 0 \in 0 .. MaxDelay
      BY BoundsAssumption
    <3> QED
      BY <1>2, <2>1, <3>1
  <2>4. \A k \in Keys : \/ stamp'[k] = stamp[k] /\ accepted'[k] = accepted[k]
                        \/ stamp'[k] = accepted'[k]
    BY <1>2, <2>1
  <2>5. \A k \in Keys : accepted[k] <= accepted'[k] /\ accepted'[k] <= arrivals'
    BY <1>1, <1>3, <2>1
  <2>6. \A o \in Observations : stamp'[o] = stamp[o] /\ accepted'[o] = accepted[o]
    BY <1>2, <2>1 DEF Keys
  <2>7. rows' = rows \union {a} /\ {a} \in SUBSET Keys
    BY <1>1, <1>2, <2>1 DEF rows
  <2> QED
    BY <1>1, <1>4, <2>2, <2>3, <2>4, <2>5, <2>6, <2>7
<1>5. CASE ~ Fits({a})
  <2>1. stamp' = stamp /\ attempts' = attempts /\ backoff' = backoff /\ accepted' = accepted
    BY <1>5 DEF table, ServeHeartbeat
  <2>2. rows' = rows
    BY <2>1 DEF rows
  <2>3. \A k \in Keys : accepted[k] <= accepted'[k] /\ accepted'[k] <= arrivals'
    BY <1>1, <1>3, <2>1
  <2> QED
    BY <1>1, <2>1, <2>2, <2>3
<1> QED
  BY <1>4, <1>5

Serves == ServeObservations \/ \E a \in Agents : ServeHeartbeat(a)

\* Only the handlers accept, and only an acknowledgement deletes.
LEMMA OthersAcceptNothing ==
    ASSUME [Next]_vars, ~ Serves
    PROVE  /\ arrivals' = arrivals /\ accepted' = accepted
           /\ stamp' = stamp \/ \E k \in Keys : Delivered(k)
BY DEF Serves, Next, vars, table, ReadDue, Post, ReceiveOk, Delivered,
       MainAccepts, PostFails, DeliveredRaises, FailedReads, FailedWrites,
       TaskDies, Sleep, MainRejects, MainHandlesLate, LateRequestDies, Crash,
       Restart

\* What was accepted is only ever replaced by something newer.
LEMMA AcceptedGrows ==
    ASSUME TypeOK, InFlight, [Next]_vars
    PROVE  \A k \in Keys : accepted[k] <= accepted'[k]
<1>1. CASE Serves
  BY <1>1, ServeEffect, HeartbeatEffect DEF Serves
<1>2. CASE ~ Serves
  BY <1>2, OthersAcceptNothing DEF TypeOK
<1> QED
  BY <1>1, <1>2

\* An acknowledgement deletes one row.
LEMMA DeliveredEffect ==
    ASSUME TypeOK, NEW k \in Keys, Delivered(k)
    PROVE  /\ rows' = rows \ {k}
           /\ \A j \in Keys : j # k => stamp'[j] = stamp[j]
           /\ stamp'[k] = 0
           /\ stamp' \in [Keys -> 0 .. MaxArrivals]
BY BoundsAssumption DEF Delivered, TypeOK, rows

\* Main forgets nothing, stores nothing twice, and learns of no heartbeat
\* that was not accepted.
LEMMA MainStep ==
    ASSUME TypeOK, InFlight, [Next]_vars
    PROVE  /\ inserts' \in [Observations -> Nat]
           /\ mainBeat' \in [Agents -> SUBSET (1 .. MaxArrivals)]
           /\ recorded \subseteq recorded'
           /\ \A a \in Agents : mainBeat[a] \subseteq mainBeat'[a]
           /\ \A a \in Agents : \A n \in mainBeat'[a] : n \in mainBeat[a] \/ n <= accepted[a]
           /\ \A o \in Observations : inserts[o] <= 1 => inserts'[o] <= 1
<1>1. CASE \E k \in Keys : MainAccepts(k)
  <2>1. item \in Requests /\ Process(item)
    BY <1>1 DEF MainAccepts, InFlight
  <2>2. item[2] <= accepted[item[1]]
    BY <2>1, RequestType DEF InFlight
  <2> QED
    BY <2>1, <2>2, ProcessEffect
<1>2. CASE MainHandlesLate
  <2>1. PICK r \in late : IF r[1] \in Poison THEN UNCHANGED main ELSE Process(r)
    BY <1>2 DEF MainHandlesLate
  <2>2. r \in Requests /\ r[2] <= accepted[r[1]]
    BY DEF TypeOK, InFlight, Requests
  <2>3. CASE Process(r)
    BY <2>2, <2>3, ProcessEffect
  <2>4. CASE UNCHANGED main
    BY <2>4 DEF main, recorded, TypeOK
  <2> QED
    BY <2>1, <2>3, <2>4
<1>3. CASE UNCHANGED main
  BY <1>3 DEF main, recorded, TypeOK
<1> QED
  BY <1>1, <1>2, <1>3
  DEF Next, vars, ServeObservations, ServeHeartbeat, ReadDue, Post, ReceiveOk,
      Delivered, PostFails, DeliveredRaises, FailedReads, FailedWrites,
      TaskDies, Sleep, MainRejects, LateRequestDies, Crash, Restart

\* What Main has processed it has processed for good.
LEMMA ProcessedStays ==
    ASSUME TypeOK, InFlight, [Next]_vars, NEW r \in Requests, Processed(r)
    PROVE  IF r[1] \in Observations THEN r[1] \in recorded' ELSE r[2] \in mainBeat'[r[1]]
<1>1. r[1] \in Keys
  BY RequestType
<1>2. r[1] \notin Observations => r[1] \in Agents
  BY <1>1 DEF Keys
<1> QED
  BY <1>2, MainStep DEF Processed

----------------------------------------------------------------------------
(* Every step keeps the invariant. *)

\* Every step keeps the types; Delay and Counted stay within their bounds.
LEMMA TypeStep == TypeOK /\ InFlight /\ [Next]_vars => TypeOK'
<1> SUFFICES ASSUME TypeOK, InFlight, [Next]_vars PROVE TypeOK'
  OBVIOUS
<1>0. /\ inserts' \in [Observations -> Nat]
      /\ mainBeat' \in [Agents -> SUBSET (1 .. MaxArrivals)]
  BY MainStep
<1> USE DEF TypeOK, table, main, bounds
<1>1. CASE ServeObservations
  BY <1>0, <1>1, ServeEffect, BoundsAssumption DEF ServeObservations
<1>2. CASE \E a \in Agents : ServeHeartbeat(a)
  BY <1>0, <1>2, HeartbeatEffect, BoundsAssumption DEF ServeHeartbeat
<1>3. CASE ReadDue
  <2>1. batch' \subseteq Keys \X (1 .. MaxArrivals)
    <3>1. PICK chosen \in SUBSET Keys :
            chosen \subseteq due /\ batch' = {<<k, stamp[k]>> : k \in chosen}
      BY <1>3 DEF ReadDue, IsOldestDue
    <3>2. \A k \in chosen : k \in Keys /\ stamp[k] \in 1 .. MaxArrivals
      BY <3>1 DEF due, rows
    <3> QED
      BY <3>1, <3>2
  <2> QED
    BY <1>0, <1>3, <2>1 DEF ReadDue
<1>4. CASE \E k \in Keys : Post(k)
  BY <1>0, <1>4 DEF Post
<1>5. CASE \E k \in Keys : ReceiveOk(k)
  BY <1>0, <1>5 DEF ReceiveOk
<1>6. CASE \E k \in Keys : Delivered(k)
  BY <1>0, <1>6, DeliveredEffect DEF Delivered, NextTask
<1>7. CASE \E k \in Keys : MainAccepts(k)
  BY <1>0, <1>7 DEF MainAccepts
<1>8. CASE PostFails
  BY <1>0, <1>8, RequestType DEF PostFails, Abandoned, InFlight, Requests
<1>9. CASE DeliveredRaises
  BY <1>0, <1>9, BoundsAssumption DEF DeliveredRaises
<1>10. CASE FailedReads
  BY <1>0, <1>10 DEF FailedReads, NextTask, rows
<1>11. CASE FailedWrites
  <2>1. item[1] \in Keys
    BY <1>11, RequestType DEF FailedWrites, InFlight
  <2>2. attempts' \in [Keys -> 0 .. AttemptCap]
    BY <1>11, <2>1, CountedType DEF FailedWrites
  <2>3. backoff' \in [Keys -> 0 .. MaxDelay]
    BY <1>11, <2>1, DelayType DEF FailedWrites
  <2> QED
    BY <1>0, <1>11, <2>2, <2>3, BoundsAssumption DEF FailedWrites, NextTask
<1>12. CASE TaskDies
  BY <1>0, <1>12, BoundsAssumption DEF TaskDies
<1>13. CASE Sleep
  <2>1. backoff' \in [Keys -> 0 .. MaxDelay]
    BY <1>13, BoundsAssumption DEF Sleep, Elapse
  <2> QED
    BY <1>0, <1>13, <2>1 DEF Sleep
<1>14. CASE MainRejects
  BY <1>0, <1>14 DEF MainRejects
<1>15. CASE MainHandlesLate
  BY <1>0, <1>15 DEF MainHandlesLate
<1>16. CASE LateRequestDies
  BY <1>0, <1>16 DEF LateRequestDies
<1>17. CASE Crash
  BY <1>0, <1>17, BoundsAssumption, RequestType DEF Crash, Abandoned, InFlight, Requests
<1>18. CASE Restart
  BY <1>0, <1>18 DEF Restart
<1>19. CASE UNCHANGED vars
  BY <1>19 DEF vars
<1> QED
  BY <1>1, <1>2, <1>3, <1>4, <1>5, <1>6, <1>7, <1>8, <1>9, <1>10, <1>11, <1>12,
     <1>13, <1>14, <1>15, <1>16, <1>17, <1>18, <1>19 DEF Next

\* A row's version is one that was accepted, and no later than the last.
LEMMA StampStep ==
    ASSUME TypeOK, InFlight, [Next]_vars
    PROVE  \A k \in Keys : stamp'[k] <= accepted'[k] /\ accepted'[k] <= arrivals'
<1>1. TypeOK'
  BY TypeStep
<1>2. \A k \in Keys : stamp[k] <= accepted[k] /\ accepted[k] <= arrivals
  BY DEF InFlight
<1>3. \A k \in Keys : /\ stamp[k] \in Nat /\ accepted[k] \in Nat
                      /\ stamp'[k] \in Nat /\ accepted'[k] \in Nat
  BY <1>1, BoundsAssumption DEF TypeOK
<1>4. CASE ServeObservations
  BY <1>2, <1>3, <1>4, ServeEffect
<1>5. CASE \E a \in Agents : ServeHeartbeat(a)
  BY <1>2, <1>3, <1>5, HeartbeatEffect
<1>6. CASE ~ Serves
  <2>1. arrivals' = arrivals /\ accepted' = accepted
    BY <1>6, OthersAcceptNothing
  <2>2. CASE stamp' = stamp
    BY <1>2, <2>1, <2>2
  <2>3. ASSUME NEW j \in Keys, Delivered(j)
        PROVE  \A k \in Keys : stamp'[k] <= accepted'[k] /\ accepted'[k] <= arrivals'
    BY <1>2, <1>3, <2>1, <2>3, DeliveredEffect
  <2> QED
    BY <1>6, <2>2, <2>3, OthersAcceptNothing
<1> QED
  BY <1>4, <1>5, <1>6 DEF Serves

\* A request that carries an accepted version goes on doing so.
LEMMA CarriedStays ==
    ASSUME TypeOK, InFlight, [Next]_vars, NEW r \in Requests, r[2] <= accepted[r[1]]
    PROVE  r[2] <= accepted'[r[1]]
<1>1. r[1] \in Keys /\ r[2] \in Int
  BY RequestType
<1>2. accepted[r[1]] <= accepted'[r[1]]
  BY <1>1, AcceptedGrows
<1>3. accepted[r[1]] \in Int /\ accepted'[r[1]] \in Int
  BY <1>1, TypeStep DEF TypeOK
<1> QED
  BY <1>1, <1>2, <1>3

\* The batch, the late requests and the row being forwarded come from the
\* table, from the wire or from the batch.
LEMMA CarriedStep ==
    ASSUME TypeOK, InFlight, [Next]_vars
    PROVE  /\ \A r \in batch' \union late' : r[2] <= accepted'[r[1]]
           /\ item' # NoItem => item'[2] <= accepted'[item'[1]]
<1>1. \A r \in batch \union late : r \in Requests /\ r[2] <= accepted[r[1]]
  BY DEF TypeOK, InFlight, Requests
<1>2. item # NoItem => item \in Requests /\ item[2] <= accepted[item[1]]
  BY DEF TypeOK, InFlight, Requests
<1>3. CASE ReadDue
  <2>1. PICK chosen \in SUBSET Keys :
          chosen \subseteq due /\ batch' = {<<k, stamp[k]>> : k \in chosen}
    BY <1>3 DEF ReadDue, IsOldestDue
  <2>2. accepted' = accepted /\ item' = item /\ late' = late
    BY <1>3 DEF ReadDue
  <2>3. \A r \in batch' : r[2] <= accepted[r[1]]
    BY <2>1 DEF InFlight
  <2> QED
    BY <1>1, <1>2, <2>2, <2>3
<1>4. CASE ~ ReadDue
  <2>1. item' = item \/ item' = NoItem \/ item' \in batch
    BY <1>4
    DEF Next, vars, table, ServeObservations, ServeHeartbeat, Post, ReceiveOk,
        Delivered, MainAccepts, PostFails, DeliveredRaises, FailedReads,
        FailedWrites, TaskDies, Sleep, MainRejects, MainHandlesLate,
        LateRequestDies, Crash, Restart
  <2>2. batch' \subseteq batch
    BY <1>4
    DEF Next, vars, table, ServeObservations, ServeHeartbeat, Post, ReceiveOk,
        Delivered, MainAccepts, PostFails, DeliveredRaises, FailedReads,
        FailedWrites, TaskDies, Sleep, MainRejects, MainHandlesLate,
        LateRequestDies, Crash, Restart
  <2>3. late' \subseteq late \/ (late' = late \union {item} /\ item # NoItem)
    <3>1. reply = "sent" => item # NoItem
      BY RequestType DEF InFlight
    <3> QED
      BY <1>4, <3>1
      DEF Next, vars, table, ServeObservations, ServeHeartbeat, Post, ReceiveOk,
          Delivered, MainAccepts, PostFails, DeliveredRaises, FailedReads,
          FailedWrites, TaskDies, Sleep, MainRejects, MainHandlesLate,
          LateRequestDies, Crash, Restart, Abandoned
  <2> QED
    BY <1>1, <1>2, <2>1, <2>2, <2>3, CarriedStays
<1> QED
  BY <1>3, <1>4

\* Every step keeps what ties the task and the wire to the table and to Main.
LEMMA InFlightStep == TypeOK /\ InFlight /\ [Next]_vars => InFlight'
<1> SUFFICES ASSUME TypeOK, InFlight, [Next]_vars PROVE InFlight'
  OBVIOUS
<1>1. /\ task' \in {"await", "ack", "fail", "failing"} => item' \in Requests
      /\ reply' # "none" => task' = "await"
  BY DEF Next, vars, table, ServeObservations, ServeHeartbeat, ReadDue, Post,
         ReceiveOk, Delivered, MainAccepts, PostFails, DeliveredRaises,
         FailedReads, FailedWrites, TaskDies, Sleep, MainRejects,
         MainHandlesLate, LateRequestDies, Crash, Restart, InFlight, TypeOK,
         Requests, NextTask
<1>2. reply' = "ok" \/ task' = "ack" => item' \in Requests /\ Processed(item)' /\ item' = item
  <2>1. CASE \E k \in Keys : MainAccepts(k)
    <3>1. item \in Requests /\ Process(item) /\ item' = item
      BY <2>1 DEF MainAccepts, InFlight
    <3> QED
      BY <3>1, ProcessEffect
  <2>2. ASSUME reply' = "ok" \/ task' = "ack", ~ \E k \in Keys : MainAccepts(k)
        PROVE  item \in Requests /\ Processed(item) /\ item' = item
    BY <2>2
    DEF Next, vars, ServeObservations, ServeHeartbeat, ReadDue, Post,
        ReceiveOk, Delivered, PostFails, DeliveredRaises, FailedReads,
        FailedWrites, TaskDies, Sleep, MainRejects, MainHandlesLate,
        LateRequestDies, Crash, Restart, InFlight, NextTask
  <2>3. ASSUME item \in Requests, Processed(item), item' = item
        PROVE  Processed(item)'
    BY <2>3, ProcessedStays DEF Processed
  <2> QED
    BY <2>1, <2>2, <2>3
<1> QED
  BY <1>1, <1>2, StampStep, CarriedStep DEF InFlight

\* An acknowledgement deletes a row Main has processed.
LEMMA LeavesStep ==
    ASSUME TypeOK, InFlight, [Next]_vars, NEW k \in rows, k \notin rows'
    PROVE  /\ k \in Observations => k \in recorded
           /\ k \in Agents => item \in Requests /\ item[1] = k /\ item[2] \in mainBeat[k]
<1>1. ~ Serves
  BY ServeEffect, HeartbeatEffect DEF Serves
<1>2. PICK j \in Keys : Delivered(j)
  BY <1>1, OthersAcceptNothing DEF rows
<1>3. k = j
  BY <1>2, DeliveredEffect
<1>4. item[1] = k /\ Processed(item) /\ item \in Requests
  BY <1>2, <1>3 DEF Delivered, InFlight
<1> QED
  BY <1>4, BoundsAssumption DEF Processed

\* Every step keeps NoObservationLost.
LEMMA NoLossStep ==
    ASSUME TypeOK, InFlight, NoObservationLost, [Next]_vars
    PROVE  NoObservationLost'
<1> SUFFICES ASSUME NEW o \in Observations, accepted'[o] > 0
             PROVE  o \in rows' \/ o \in recorded'
  BY DEF NoObservationLost
<1>1. o \in Keys
  BY DEF Keys
<1>2. recorded \subseteq recorded'
  BY MainStep
<1>3. accepted'[o] = accepted[o] \/ o \in rows'
  <2>1. CASE Serves
    BY <2>1, ServeEffect, HeartbeatEffect DEF Serves
  <2>2. CASE ~ Serves
    BY <2>2, OthersAcceptNothing
  <2> QED
    BY <2>1, <2>2
<1>4. CASE accepted'[o] = accepted[o]
  BY <1>1, <1>2, <1>4, LeavesStep DEF NoObservationLost
<1> QED
  BY <1>3, <1>4

\* Every step keeps the table within its limit.
LEMMA CapacityStep ==
    ASSUME TypeOK, InFlight, WithinCapacity, [Next]_vars
    PROVE  WithinCapacity'
<1>1. CASE rows' = rows
  BY <1>1 DEF WithinCapacity
<1>2. CASE \E payload \in SUBSET Keys : Fits(payload) /\ rows' = rows \union payload
  BY <1>2, FitsWithinCapacity DEF WithinCapacity
<1>3. CASE \E k \in Keys : rows' = rows \ {k}
  BY <1>3, RemoveWithinCapacity DEF WithinCapacity
<1>4. CASE Serves
  BY <1>1, <1>2, <1>4, ServeEffect, HeartbeatEffect DEF Serves
<1>5. CASE ~ Serves
  BY <1>1, <1>3, <1>5, OthersAcceptNothing, DeliveredEffect DEF rows
<1> QED
  BY <1>4, <1>5

\* Every step keeps the newest accepted heartbeat in the agent's row.
LEMMA HeartbeatStep ==
    ASSUME TypeOK, InFlight, RowsCarryLatestHeartbeat, [Next]_vars
    PROVE  RowsCarryLatestHeartbeat'
<1> SUFFICES ASSUME NEW a \in Agents
             PROVE  /\ a \in rows' => stamp'[a] = accepted'[a]
                    /\ \A n \in mainBeat'[a] : n <= accepted'[a]
  BY DEF RowsCarryLatestHeartbeat
<1>1. a \in Keys
  BY DEF Keys
<1>2. a \in rows => stamp[a] = accepted[a]
  BY DEF RowsCarryLatestHeartbeat
<1>3. a \in rows' => stamp'[a] = accepted'[a]
  <2>1. CASE ServeObservations
    BY <1>1, <1>2, <2>1, ServeEffect DEF rows
  <2>2. CASE \E b \in Agents : ServeHeartbeat(b)
    BY <1>1, <1>2, <2>2, HeartbeatEffect DEF rows
  <2>3. CASE ~ Serves
    <3>1. accepted' = accepted
      BY <2>3, OthersAcceptNothing
    <3>2. CASE stamp' = stamp
      BY <1>2, <3>1, <3>2 DEF rows
    <3>3. CASE \E k \in Keys : Delivered(k)
      BY <1>1, <1>2, <3>1, <3>3, DeliveredEffect DEF rows
    <3> QED
      BY <2>3, <3>2, <3>3, OthersAcceptNothing
  <2> QED
    BY <2>1, <2>2, <2>3 DEF Serves
<1>4. ASSUME NEW n \in mainBeat'[a] PROVE n <= accepted'[a]
  <2>1. n \in mainBeat[a] \/ n <= accepted[a]
    BY MainStep
  <2>2. n <= accepted[a]
    BY <2>1 DEF RowsCarryLatestHeartbeat
  <2>3. accepted[a] <= accepted'[a]
    BY <1>1, AcceptedGrows
  <2>4. n \in Int /\ accepted[a] \in Int /\ accepted'[a] \in Int
    BY <1>1, TypeStep DEF TypeOK
  <2> QED
    BY <2>2, <2>3, <2>4
<1> QED
  BY <1>3, <1>4

\* Inv is inductive.
THEOREM Invariance == Safety => []Inv
<1>1. Inv /\ [Next]_vars => Inv'
  <2> SUFFICES ASSUME Inv, [Next]_vars PROVE Inv'
    OBVIOUS
  <2>1. /\ TypeOK /\ InFlight /\ NoObservationLost
        /\ WithinCapacity /\ RowsCarryLatestHeartbeat
    BY DEF Inv
  <2>2. TypeOK' /\ InFlight'
    BY <2>1, TypeStep, InFlightStep
  <2>3. NoObservationLost' /\ WithinCapacity' /\ RowsCarryLatestHeartbeat'
    BY <2>1, NoLossStep, CapacityStep, HeartbeatStep
  <2> QED
    BY <2>2, <2>3 DEF Inv
<1> QED
  BY <1>1, InitInv, PTL DEF Safety

\* The Proxy's table, its task and Main stay within their types; no backoff
\* exceeds max_delay (queue.py:131-132).
THEOREM TypeCorrect == Safety => []TypeOK
BY Invariance, PTL DEF Inv

\* An observation answered with 202 is in the table until Main has it,
\* whatever handlers, kills and a stale batch do (app.py:90-112).
THEOREM NothingLost == Safety => []NoObservationLost
BY Invariance, PTL DEF Inv

\* No interleaving of handlers takes the table over max_items
\* (queue.py:82-86).
THEOREM CapacityKept == Safety => []WithinCapacity
BY Invariance, PTL DEF Inv

\* A heartbeat row carries the last heartbeat accepted, and Main hears of
\* none that was not accepted (queue.py:94-111).
THEOREM LatestHeartbeatKept == Safety => []RowsCarryLatestHeartbeat
BY Invariance, PTL DEF Inv

\* A heartbeat row leaves only after Main has processed it, or an older one
\* that the forwarder had read in its place (app.py:101-109): what Main has is
\* the acknowledged item, and none that was read is newer than the row.
THEOREM HeartbeatsLeaveForwarded == Safety => HeartbeatRowsLeaveForwarded
<1>1. ASSUME Inv, [Next]_vars, NEW a \in Agents, a \in rows, a \notin rows'
      PROVE  \/ stamp[a] \in mainBeat[a]
             \/ /\ item # NoItem /\ item[1] = a
                /\ item[2] < stamp[a]
                /\ item[2] \in mainBeat[a]
  <2>1. item \in Requests /\ item[1] = a /\ item[2] \in mainBeat[a]
    BY <1>1, LeavesStep DEF Inv
  <2>2. item # NoItem /\ item[2] \in Int
    BY <2>1, RequestType
  <2>3. item[2] <= accepted[a] /\ stamp[a] = accepted[a]
    BY <1>1, <2>1, <2>2 DEF Inv, InFlight, RowsCarryLatestHeartbeat
  <2>4. stamp[a] \in Int
    BY <1>1 DEF Inv, TypeOK, rows
  <2> QED
    BY <2>1, <2>2, <2>3, <2>4
<1>2. Inv /\ [Next]_vars
        => [\A a \in Agents : a \in rows /\ a \notin rows' =>
              \/ stamp[a] \in mainBeat[a]
              \/ /\ item # NoItem /\ item[1] = a
                 /\ item[2] < stamp[a]
                 /\ item[2] \in mainBeat[a]]_vars
  BY <1>1
<1> QED
  BY <1>2, Invariance, PTL DEF Safety, HeartbeatRowsLeaveForwarded

----------------------------------------------------------------------------
(* ProxyForwarder implements EventDelivery: the observations answered with  *)
(* 202 are committed, and those in the table are kept.                      *)

LEMMA SimulatesInit == Init => Abstract!Init
BY DEF Init, Abstract!Init, answered, held, rows, recorded, Keys

\* A request with observations is an abstract commit of its payload, or
\* nothing when it is refused; observations may be repeated.
LEMMA SimulatesObservations ==
    ASSUME Inv, ServeObservations
    PROVE  [Abstract!Next]_Abstract!vars
<1> USE DEF TypeOK
<1>1. TypeOK /\ InFlight
  BY DEF Inv
<1>2. recorded' = recorded
  BY DEF ServeObservations, main, recorded
<1>3. arrivals' = arrivals + 1 /\ arrivals' \in 1 .. MaxArrivals
  BY <1>1, ServeEffect
<1>4. PICK payload \in SUBSET Observations :
        IF Fits(payload)
        THEN LET new == payload \ rows
             IN  /\ stamp' = [k \in Keys |-> IF k \in new THEN arrivals' ELSE stamp[k]]
                 /\ accepted' = [k \in Keys |->
                                  IF k \in payload THEN arrivals' ELSE accepted[k]]
        ELSE UNCHANGED <<table, accepted>>
  BY DEF ServeObservations
<1>5. CASE Fits(payload)
  <2>1. answered' = answered \union payload
    BY <1>3, <1>4, <1>5 DEF answered, Keys
  <2>2. held' = held \union payload
    BY <1>3, <1>4, <1>5 DEF held, rows, Keys
  <2> QED
    BY <1>2, <2>1, <2>2 DEF Abstract!Next, Abstract!Commit
<1>6. CASE ~ Fits(payload)
  BY <1>2, <1>4, <1>6 DEF table, answered, held, rows, Abstract!vars
<1> QED
  BY <1>5, <1>6

\* A heartbeat touches no observation.
LEMMA SimulatesHeartbeat ==
    ASSUME Inv, NEW a \in Agents, ServeHeartbeat(a)
    PROVE  [Abstract!Next]_Abstract!vars
<1>1. TypeOK /\ InFlight
  BY DEF Inv
<1>2. recorded' = recorded
  BY DEF ServeHeartbeat, main, recorded
<1>3. \A o \in Observations : stamp'[o] = stamp[o] /\ accepted'[o] = accepted[o]
  BY <1>1, HeartbeatEffect
<1> QED
  BY <1>2, <1>3 DEF answered, held, rows, Keys, Abstract!vars

\* What Main does with an accepted request is an abstract record of it, or
\* nothing.
LEMMA SimulatesMain ==
    ASSUME Inv, NEW r \in Requests, r[2] <= accepted[r[1]], Process(r),
           stamp' = stamp, accepted' = accepted
    PROVE  [Abstract!Next]_Abstract!vars
<1>1. answered' = answered /\ held' = held
  BY DEF answered, held, rows
<1>2. CASE r[1] \in Observations
  <2>1. recorded' = recorded \union {r[1]}
    BY <1>2 DEF Process, IdempotentInsert, recorded, Inv, TypeOK
  <2>2. r[1] \in answered
    BY <1>2, RequestType DEF answered, Inv, TypeOK
  <2>3. CASE r[1] \in recorded
    BY <1>1, <2>1, <2>3 DEF Abstract!vars
  <2>4. CASE r[1] \notin recorded
    BY <1>1, <1>2, <2>1, <2>2, <2>4 DEF Abstract!Next, Abstract!Record
  <2> QED
    BY <2>3, <2>4
<1>3. CASE r[1] \notin Observations
  BY <1>1, <1>3 DEF Process, recorded, Abstract!vars
<1> QED
  BY <1>2, <1>3

\* An acknowledgement forgets one row, of a recorded observation or of a
\* heartbeat.
LEMMA SimulatesDelivered ==
    ASSUME Inv, NEW k \in Keys, Delivered(k)
    PROVE  [Abstract!Next]_Abstract!vars
<1>1. TypeOK /\ InFlight
  BY DEF Inv
<1>2. rows' = rows \ {k}
  BY <1>1, DeliveredEffect
<1>3. answered' = answered /\ recorded' = recorded
  BY DEF Delivered, main, answered, recorded
<1>4. k \in Observations => k \in recorded
  BY <1>1 DEF Delivered, InFlight, Processed
<1>5. CASE k \in held
  <2>1. held' = held \ {k}
    BY <1>2 DEF held
  <2> QED
    BY <1>3, <1>4, <1>5, <2>1 DEF held, Abstract!Next, Abstract!Forget
<1>6. CASE k \notin held
  BY <1>2, <1>3, <1>6 DEF held, Abstract!vars
<1> QED
  BY <1>5, <1>6

\* Every step of the Proxy and Main is a step of EventDelivery, or none.
LEMMA Simulates ==
    ASSUME Inv, [Next]_vars
    PROVE  [Abstract!Next]_Abstract!vars
<1>1. TypeOK /\ InFlight
  BY DEF Inv
<1>2. CASE \E k \in Keys : MainAccepts(k)
  <2>1. item \in Requests /\ Process(item) /\ stamp' = stamp /\ accepted' = accepted
    BY <1>1, <1>2 DEF MainAccepts, InFlight, table
  <2>2. item[2] <= accepted[item[1]]
    BY <1>1, <2>1, RequestType DEF InFlight
  <2> QED
    BY <2>1, <2>2, SimulatesMain
<1>3. CASE MainHandlesLate
  <2>1. PICK r \in late : IF r[1] \in Poison THEN UNCHANGED main ELSE Process(r)
    BY <1>3 DEF MainHandlesLate
  <2>2. stamp' = stamp /\ accepted' = accepted
    BY <1>3 DEF MainHandlesLate, table
  <2>3. r \in Requests /\ r[2] <= accepted[r[1]]
    BY <1>1 DEF TypeOK, InFlight, Requests
  <2>4. CASE Process(r)
    BY <2>2, <2>3, <2>4, SimulatesMain
  <2>5. CASE UNCHANGED main
    BY <2>2, <2>5 DEF main, answered, held, rows, recorded, Abstract!vars
  <2> QED
    BY <2>1, <2>4, <2>5
<1>4. CASE UNCHANGED <<stamp, accepted, inserts>>
  BY <1>4 DEF answered, held, rows, recorded, Abstract!vars
<1> QED
  BY <1>2, <1>3, <1>4, SimulatesObservations, SimulatesHeartbeat, SimulatesDelivered
  DEF Next, vars, table, main, ReadDue, Post, ReceiveOk, PostFails,
      DeliveredRaises, FailedReads, FailedWrites, TaskDies, Sleep, MainRejects,
      LateRequestDies, Crash, Restart

\* The Proxy and Main keep the promise of EventDelivery for observations: what
\* was answered with 202 leaves the table only when Main has recorded it.
THEOREM Refinement == Safety => ImplementsDelivery
<1>1. Inv /\ [Next]_vars => [Abstract!Next]_Abstract!vars
  BY Simulates
<1> QED
  BY <1>1, SimulatesInit, Invariance, PTL DEF Safety, ImplementsDelivery, Abstract!Spec
=============================================================================
