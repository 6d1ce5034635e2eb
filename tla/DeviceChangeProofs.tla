------------------------ MODULE DeviceChangeProofs ------------------------
(***************************************************************************)
(* Proofs about DeviceChange, for every set of disks, every interval,      *)
(* debounce and queue, and any number of changes, failures and restarts.   *)
(***************************************************************************)
EXTENDS DeviceChange, FiniteSetTheorems, TLAPS

----------------------------------------------------------------------------
(* The inductive invariant *)

\* Nothing tells the loop to scan again.
Quiet == ~deviceEvent /\ scanAt = NoScan

\* What the loop has seen, while it is notified of changes and no scan has
\* failed: unless it is told to scan again, its snapshot or its cache agrees
\* with the disks, or a collection is due.
SeenOrTold ==
    subscribed /\ failures = 0 /\ Quiet =>
        /\ pc = "process" => snapshot = plugged
        /\ pc \in {"deliver", "wait"} => cache = plugged
        /\ pc = "top" => nextCollection = 0 \/ cache = plugged

\* What the loop remembers was not last reported as gone.
RememberedAsPresent ==
    ~refused => \A d \in cache : lastQueued[d] # "disconnected"

Inv == TypeOK /\ SeenOrTold /\ RememberedAsPresent

----------------------------------------------------------------------------

LEMMA InitInv == Init => Inv
<1> SUFFICES ASSUME Init PROVE Inv
  OBVIOUS
<1>1. deviceEvent \in BOOLEAN /\ notified \in BOOLEAN /\ refused \in BOOLEAN
         /\ subscribed \in BOOLEAN
  BY Zenon DEF Init
<1>2. TypeOK
  BY <1>1, BoundsAssumption DEF Init, TypeOK, NoScan
<1>3. SeenOrTold /\ RememberedAsPresent
  BY DEF Init, SeenOrTold, RememberedAsPresent
<1> QED  BY <1>2, <1>3 DEF Inv

LEMMA ChangeInv ==
    ASSUME Inv, NEW d \in Disks, Change(d)
    PROVE  Inv'
<1>1. /\ deviceEvent' \in BOOLEAN
      /\ deviceEvent' = (deviceEvent \/ (subscribed /\ pc # "down"))
  BY Zenon DEF Change
<1>2. TypeOK'
  BY <1>1, BoundsAssumption DEF Change, Inv, TypeOK, loop, queue
<1>3. SeenOrTold'
  <2>1. CASE subscribed /\ pc # "down"
    BY <1>1, <2>1, Zenon DEF SeenOrTold, Quiet
  <2>2. CASE ~subscribed
    BY <2>2 DEF Change, SeenOrTold
  <2>3. CASE pc = "down"
    BY <2>3 DEF Change, SeenOrTold
  <2> QED  BY <2>1, <2>2, <2>3
<1>4. RememberedAsPresent'
  BY DEF Change, Inv, RememberedAsPresent, queue
<1> QED  BY <1>2, <1>3, <1>4 DEF Inv

LEMMA TopInv == ASSUME Inv, Top PROVE Inv'
<1>1. UNCHANGED <<plugged, subscribed, deviceEvent, snapshot, cache, used, lastQueued,
                  refused, changes, failures, restarts>>
  BY DEF Top, queue, bounds
<1>2. \/ scanAt = 0 /\ scanAt' = NoScan /\ nextCollection' = 0 /\ notified' = TRUE
      \/ scanAt # 0 /\ UNCHANGED <<scanAt, nextCollection, notified>>
  BY DEF Top, loop
<1>3. /\ pc = "top"
      /\ \/ nextCollection' = 0 /\ pc' = "capture"
         \/ nextCollection' # 0 /\ pc' = "deliver"
  BY DEF Top
<1>4. notified' \in BOOLEAN
  BY <1>2 DEF Inv, TypeOK
<1>5. TypeOK'
  BY <1>1, <1>2, <1>3, <1>4, BoundsAssumption DEF Inv, TypeOK, NoScan
<1>6. SeenOrTold'
  BY <1>1, <1>2, <1>3 DEF Inv, SeenOrTold, Quiet
<1>7. RememberedAsPresent'
  BY <1>1 DEF Inv, RememberedAsPresent
<1> QED  BY <1>5, <1>6, <1>7 DEF Inv

LEMMA CaptureInv == ASSUME Inv, Capture \/ CaptureFails PROVE Inv'
<1>1. CASE Capture
  <2>1. TypeOK'
    BY <1>1 DEF Capture, Inv, TypeOK, loop, queue, bounds
  <2>2. SeenOrTold' /\ RememberedAsPresent'
    BY <1>1 DEF Capture, Inv, SeenOrTold, RememberedAsPresent, Quiet, loop, queue, bounds
  <2> QED  BY <2>1, <2>2 DEF Inv
<1>2. CASE CaptureFails
  <2>1. notified' \in BOOLEAN
    BY <1>2, Zenon DEF CaptureFails, EndCollection
  <2>2. TypeOK'
    BY <1>2, <2>1, BoundsAssumption
    DEF CaptureFails, EndCollection, Inv, TypeOK, queue
  <2>3. failures' # 0
    BY <1>2 DEF CaptureFails, Inv, TypeOK
  <2>4. SeenOrTold'
    BY <2>3 DEF SeenOrTold
  <2>5. RememberedAsPresent'
    BY <1>2 DEF CaptureFails, Inv, RememberedAsPresent, queue
  <2> QED  BY <2>2, <2>4, <2>5 DEF Inv
<1> QED  BY <1>1, <1>2

\* enqueue_json keeps to the capacity; unless it turns the payload away, what
\* is reported is what is queued last.
LEMMA EnqueueTyped ==
    ASSUME Inv, NEW reported \in SUBSET Disks,
           NEW kind \in [Disks -> {"present", "connected", "disconnected"}],
           Enqueue(reported, kind)
    PROVE  /\ used' \in 0 .. MaxItems
           /\ refused' \in BOOLEAN
           /\ refused => refused'
           /\ lastQueued' \in [Disks -> {"nothing", "present", "connected",
                                         "disconnected"}]
           /\ ~refused' => \A d \in Disks :
                lastQueued'[d] = IF d \in reported THEN kind[d] ELSE lastQueued[d]
<1>1. Cardinality(reported) \in Nat
  BY FS_Subset, FS_CardinalityType, BoundsAssumption
<1>2. CASE reported # {} /\ used + Cardinality(reported) <= MaxItems
  <2>1. /\ used' = used + Cardinality(reported)
        /\ lastQueued' = [d \in Disks |->
                            IF d \in reported THEN kind[d] ELSE lastQueued[d]]
        /\ UNCHANGED refused
    BY <1>2 DEF Enqueue
  <2> QED  BY <1>1, <1>2, <2>1, BoundsAssumption DEF Inv, TypeOK
<1>3. CASE ~(reported # {} /\ used + Cardinality(reported) <= MaxItems)
  <2>1. /\ refused' = (refused \/ reported # {})
        /\ UNCHANGED <<used, lastQueued>>
    BY <1>3 DEF Enqueue
  <2>2. refused' \in BOOLEAN /\ (refused => refused')
    BY <2>1, Zenon
  <2>3. ~refused' => reported = {}
    BY <2>1, Zenon
  <2> QED  BY <2>1, <2>2, <2>3 DEF Inv, TypeOK
<1> QED  BY <1>2, <1>3

LEMMA ProcessInv == ASSUME Inv, ProcessNotification \/ ProcessPeriodic PROVE Inv'
<1>1. /\ pc = "process" /\ cache' = snapshot /\ EndCollection
      /\ UNCHANGED <<plugged, subscribed, deviceEvent, snapshot, changes, failures,
                     restarts>>
  BY DEF ProcessNotification, ProcessPeriodic, bounds
<1>2. /\ used' \in 0 .. MaxItems /\ refused' \in BOOLEAN
      /\ lastQueued' \in [Disks -> {"nothing", "present", "connected",
                                    "disconnected"}]
      /\ ~refused' => \A d \in snapshot : lastQueued'[d] # "disconnected"
  <2>1. snapshot \subseteq Disks /\ cache \subseteq Disks
    BY DEF Inv, TypeOK
  <2>2. CASE ProcessNotification
    <3> DEFINE reported == (cache \ snapshot) \union (snapshot \ cache)
               kind == [d \in Disks |->
                          IF d \in snapshot THEN "connected" ELSE "disconnected"]
    <3>1. Enqueue(reported, kind)
      BY <2>2 DEF ProcessNotification
    <3>2. /\ reported \in SUBSET Disks
          /\ kind \in [Disks -> {"present", "connected", "disconnected"}]
      BY <2>1
    <3>3. \A d \in Disks : kind[d] = IF d \in snapshot THEN "connected"
                                     ELSE "disconnected"
      OBVIOUS
    <3>4. \A d \in snapshot : d \notin reported => d \in cache
      OBVIOUS
    <3> HIDE DEF reported, kind
    <3>5. /\ used' \in 0 .. MaxItems /\ refused' \in BOOLEAN /\ (refused => refused')
          /\ lastQueued' \in [Disks -> {"nothing", "present", "connected",
                                        "disconnected"}]
          /\ ~refused' => \A d \in Disks :
               lastQueued'[d] = IF d \in reported THEN kind[d] ELSE lastQueued[d]
      BY <3>1, <3>2, EnqueueTyped
    <3> QED
      BY <2>1, <3>3, <3>4, <3>5 DEF Inv, RememberedAsPresent
  <2>3. CASE ProcessPeriodic
    <3> DEFINE kind == [d \in Disks |-> "present"]
    <3>1. Enqueue(snapshot, kind)
      BY <2>3 DEF ProcessPeriodic
    <3>2. kind \in [Disks -> {"present", "connected", "disconnected"}]
      OBVIOUS
    <3>3. \A d \in Disks : kind[d] = "present"
      OBVIOUS
    <3> HIDE DEF kind
    <3>4. /\ used' \in 0 .. MaxItems /\ refused' \in BOOLEAN
          /\ lastQueued' \in [Disks -> {"nothing", "present", "connected",
                                        "disconnected"}]
          /\ ~refused' => \A d \in Disks :
               lastQueued'[d] = IF d \in snapshot THEN kind[d] ELSE lastQueued[d]
      BY <2>1, <3>1, <3>2, EnqueueTyped
    <3> QED  BY <2>1, <3>3, <3>4
  <2> QED  BY <2>2, <2>3
<1>3. /\ notified' \in BOOLEAN /\ nextCollection' = Interval /\ pc' = "deliver"
      /\ UNCHANGED scanAt
  BY <1>1, Zenon DEF EndCollection
<1>4. TypeOK'
  BY <1>1, <1>2, <1>3, BoundsAssumption DEF Inv, TypeOK
<1>5. SeenOrTold'
  BY <1>1, <1>3 DEF Inv, SeenOrTold, Quiet
<1>6. RememberedAsPresent'
  BY <1>1, <1>2 DEF RememberedAsPresent
<1> QED  BY <1>4, <1>5, <1>6 DEF Inv

LEMMA WaitInv == ASSUME Inv, Deliver \/ Woken \/ TimedOut PROVE Inv'
<1>1. CASE Deliver
  <2>0. used' \in 0 .. MaxItems
    BY <1>1, BoundsAssumption DEF Deliver, Inv, TypeOK
  <2>1. TypeOK'
    BY <1>1, <2>0 DEF Deliver, Inv, TypeOK, loop, bounds
  <2>2. SeenOrTold' /\ RememberedAsPresent'
    BY <1>1 DEF Deliver, Inv, SeenOrTold, RememberedAsPresent, Quiet, loop, bounds
  <2> QED  BY <2>1, <2>2 DEF Inv
<1>2. CASE Woken
  <2>1. deviceEvent' \in BOOLEAN
    BY <1>2, Zenon DEF Woken
  <2>2. TypeOK'
    BY <1>2, <2>1, BoundsAssumption DEF Woken, Inv, TypeOK, queue, bounds
  <2>3. SeenOrTold'
    BY <1>2, BoundsAssumption DEF Woken, SeenOrTold, Quiet, NoScan
  <2>4. RememberedAsPresent'
    BY <1>2 DEF Woken, Inv, RememberedAsPresent, queue
  <2> QED  BY <2>2, <2>3, <2>4 DEF Inv
<1>3. CASE TimedOut
  <2>1. TypeOK'
    BY <1>3, BoundsAssumption DEF TimedOut, Inv, TypeOK, queue, bounds, NoScan
  <2>2. scanAt' = NoScan => scanAt = NoScan
    BY <1>3, BoundsAssumption DEF TimedOut, Inv, TypeOK, NoScan
  <2>3. SeenOrTold'
    BY <1>3, <2>2 DEF TimedOut, Inv, SeenOrTold, Quiet, queue, bounds
  <2>4. RememberedAsPresent'
    BY <1>3 DEF TimedOut, Inv, RememberedAsPresent, queue
  <2> QED  BY <2>1, <2>3, <2>4 DEF Inv
<1> QED  BY <1>1, <1>2, <1>3

LEMMA RestartInv == ASSUME Inv, Stop \/ Start PROVE Inv'
<1>1. CASE Stop
  <2>1. TypeOK'
    BY <1>1, BoundsAssumption DEF Stop, Inv, TypeOK, loop, queue
  <2>2. SeenOrTold' /\ RememberedAsPresent'
    BY <1>1 DEF Stop, Inv, SeenOrTold, RememberedAsPresent, queue
  <2> QED  BY <2>1, <2>2 DEF Inv
<1>2. CASE Start
  <2>1. deviceEvent' \in BOOLEAN /\ notified' \in BOOLEAN
    BY <1>2, Zenon DEF Start
  <2>2. TypeOK'
    BY <1>2, <2>1, BoundsAssumption DEF Start, Inv, TypeOK, queue, bounds, NoScan
  <2>3. SeenOrTold'
    BY <1>2 DEF Start, SeenOrTold
  <2>4. RememberedAsPresent'
    BY <1>2 DEF Start, RememberedAsPresent
  <2> QED  BY <2>2, <2>3, <2>4 DEF Inv
<1> QED  BY <1>1, <1>2

LEMMA StutterInv == ASSUME Inv, UNCHANGED vars PROVE Inv'
  BY DEF vars, loop, queue, bounds, Inv, TypeOK, SeenOrTold, Quiet, RememberedAsPresent

\* The invariant, from which the properties below follow.
THEOREM Invariance == Safety => []Inv
<1>1. Inv /\ [Next]_vars => Inv'
  BY ChangeInv, TopInv, CaptureInv, ProcessInv, WaitInv, RestartInv, StutterInv
  DEF Next, Service
<1> QED  BY <1>1, InitInv, PTL DEF Safety

----------------------------------------------------------------------------

\* Every variable keeps its type; the queue keeps to its capacity.
THEOREM TypeCorrect == Safety => []TypeOK
<1>1. Inv => TypeOK
  BY DEF Inv
<1> QED  BY <1>1, Invariance, PTL

\* A change during a scan is not lost: the loop waits with a stale cache only
\* if it has been told to scan again (service.py:373-409, 601-614).
THEOREM WakeupKept == Safety => []NoLostWakeup
<1>1. Inv => NoLostWakeup
  BY Zenon DEF Inv, SeenOrTold, Quiet, NoLostWakeup
<1> QED  BY <1>1, Invariance, PTL

\* The cache never holds a disk last reported as gone, so no removal is
\* reported twice (service.py:190-258).
THEOREM RemovalOnce == Safety => NotDisconnectedTwice
<1>1. Inv => (\A d \in Disks : d \in cache /\ lastQueued[d] = "disconnected" => refused)
  BY DEF Inv, RememberedAsPresent
<1>2. Inv => [\A d \in Disks :
               (/\ pc = "process" /\ notified /\ used' > used
                /\ d \in cache \ snapshot
                /\ lastQueued[d] = "disconnected") => refused]_vars
  BY <1>1
<1> QED  BY <1>2, Invariance, PTL DEF NotDisconnectedTwice
=============================================================================
