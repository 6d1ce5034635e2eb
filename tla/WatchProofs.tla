---------------------------- MODULE WatchProofs ----------------------------
(***************************************************************************)
(* Proofs about Watch, for every set of disks, of them behind USB and on   *)
(* the USB bus, every number of drives, of changes and of failures.        *)
(***************************************************************************)
EXTENDS Watch, TLAPS

----------------------------------------------------------------------------
(* The inductive invariant *)

\* What a disk that watch_usb may come to announce is in: the listing that
\* decides about it, what that listing left, or a record made from it.
Sighted(d) ==
    \/ pc = "presence" /\ (d \in todo \/ \E n \in Numbers : found[n] = d)
    \/ d \in keys
    \/ /\ task # "poll"
       /\ \/ pc = "pnp" /\ (d \in todo \/ \E n \in Numbers : found[n] = d)
          \/ \E n \in Numbers : pnp[n] = d
          \/ \E r \in devices : r.iface = d

\* A watched disk that watch_usb may come to take for gone: the listing has
\* not got it and will not get it, or it is not in current_keys.
Missed(d) ==
    \/ pc = "presence" /\ d \notin todo /\ ~ \E n \in Numbers : found[n] = d /\ slot[n] = d
    \/ task = "poll" /\ pc \in {"compare", "pnp", "volumes", "drives"} /\ d \notin keys

\* A reason is left for every event that may still be written.
ReasonsLeft(d) ==
    /\ d \notin DOMAIN cache /\ (Sighted(d) \/ d \in Plugged) => cause[d] >= 1
    /\ d \in DOMAIN cache /\ Missed(d) /\ d \in Plugged => cause[d] >= 1
    /\ d \notin Plugged /\ (Sighted(d) \/ d \in DOMAIN cache) => loss[d] >= 1
    /\ d \in DOMAIN cache /\ Missed(d) => loss[d] >= 1

Accounted(d) ==
    /\ cause[d] >= 0 /\ loss[d] >= 0
    /\ pc # "done" => ReasonsLeft(d)

\* Windows gives a disk one number.
OneNumberEach ==
    \A m, n \in Numbers : slot[m] = slot[n] /\ slot[m] # None => m = n

\* Until the first snapshots are written nothing is watched; there are
\* current_keys only in a poll that goes on after its listing.
TaskOrder ==
    /\ pc \in {"presence", "compare", "sleep"} => task = "poll"
    /\ task # "poll" => DOMAIN cache = {} /\ keys = {}
    /\ pc \in {"presence", "sleep"} => keys = {}

Inv ==
    /\ TypeOK
    /\ OneNumberEach
    /\ TaskOrder
    /\ \A d \in Chained : Accounted(d)

LEMMA DisksAreNoNumbers ==
    /\ None \notin Disks /\ Chained \subseteq Disks
    /\ \A d \in Disks : d # None /\ d \notin Numbers
<1>1. Numbers \subseteq 0 .. MaxDisks
  BY WatchAssumption DEF Numbers
<1> QED  BY <1>1, WatchAssumption

LEMMA NumberIs ==
    ASSUME NEW d, d \in Plugged
    PROVE  NumberOf(d) \in Numbers /\ slot[NumberOf(d)] = d
  BY DEF Plugged, NumberOf

LEMMA NoNumbersIs == \A n \in Numbers : NoNumbers[n] = None
  BY DEF NoNumbers

\* A disk is announced for a record with its interface.
LEMMA AnnouncedByInterface ==
    ASSUME TypeOK, NEW d \in Disks, d \in DOMAIN ByKey(devices)
    PROVE  \E r \in devices : r.iface = d
<1>1. PICK r \in devices : PresenceKey(r) = d
  BY DEF ByKey
<1>2. r.number \in Numbers
  BY DEF TypeOK, Records
<1> QED  BY <1>1, <1>2, DisksAreNoNumbers DEF PresenceKey

----------------------------------------------------------------------------
(* Types *)

LEMMA ByKeyType ==
    ASSUME NEW records, records \subseteq Records
    PROVE  /\ DOMAIN ByKey(records) \subseteq Keys
           /\ \A k \in DOMAIN ByKey(records) :
                ByKey(records)[k] \in Records /\ PresenceKey(ByKey(records)[k]) = k
<1>1. \A r \in records : PresenceKey(r) \in Keys
  BY DEF PresenceKey, Keys, Records
<1>2. ASSUME NEW k \in DOMAIN ByKey(records)
      PROVE  ByKey(records)[k] \in records /\ PresenceKey(ByKey(records)[k]) = k
  <2>1. \E r \in records : PresenceKey(r) = k
    BY <1>2 DEF ByKey
  <2>2. ByKey(records)[k] = CHOOSE r \in records : PresenceKey(r) = k
    BY <1>2 DEF ByKey
  <2> QED  BY <2>1, <2>2
<1> QED  BY <1>1, <1>2 DEF ByKey

LEMMA InitType == Init => TypeOK
<1> SUFFICES ASSUME Init PROVE TypeOK
  OBVIOUS
<1>1. DOMAIN cache = {}
  BY DEF Init, ByKey
<1>2. Plugged \subseteq Disks
  BY DEF Init, Plugged
<1> QED
  BY <1>1, <1>2, WatchAssumption
  DEF Init, TypeOK, NoNumbers, Phases, Numbers, Keys

LEMMA WriteType ==
    ASSUME TypeOK, NEW appeared, appeared \subseteq Keys, NEW gone, Write(appeared, gone)
    PROVE  told' \subseteq Keys /\ cause' \in [Disks -> Int] /\ loss' \in [Disks -> Int]
  BY DEF Write, TypeOK

LEMMA TypeStep == ASSUME TypeOK, [Next]_vars PROVE TypeOK'
<1> USE DEF TypeOK
<1>0. /\ Plugged \subseteq Disks
      /\ NoNumbers \in [Numbers -> Disks \union {None}]
      /\ MaxDisks \in Nat /\ MaxChanges \in Nat /\ MaxFaults \in Nat
      /\ 0 \in 0 .. MaxDisks
  BY WatchAssumption DEF Plugged, NoNumbers
<1>1. CASE \E d \in Disks, n \in Numbers : Plug(d, n)
  BY <1>0, <1>1 DEF Plug, Change, scan
<1>2. CASE \E d \in Disks : Unplug(d)
  <2>1. PICK d \in Disks : Unplug(d)
    BY <1>2
  <2> DEFINE n == NumberOf(d)
  <2>2. slot' = [slot EXCEPT ![n] = None] /\ loss' = [loss EXCEPT ![d] = @ + 1]
    BY <2>1 DEF Unplug
  <2> HIDE DEF n
  <2>3. slot' \in [Numbers -> Disks \union {None}]
    BY <2>2
  <2>4. loss' \in [Disks -> Int]
    BY <2>2
  <2> QED  BY <1>0, <2>1, <2>3, <2>4 DEF Unplug, Change, scan
<1>3. ASSUME NEW d \in Disks, ListOne(d) PROVE TypeOK'
  <2>1. found' \in [Numbers -> Disks \union {None}]
    BY <1>3 DEF ListOne
  <2> QED  BY <1>3, <2>1 DEF ListOne, history
<1>4. ASSUME NEW d \in Disks, LeftOut(d) PROVE TypeOK'
  BY <1>0, <1>4 DEF LeftOut, Fault
<1>5. ASSUME NEW result \in [Numbers -> Disks \union {None}],
             UsePnp(result) \/ UseVolumes(result),
             UNCHANGED <<slot, task, cache, history, changes>>,
             faults' \in 0 .. MaxFaults
      PROVE  TypeOK'
  BY <1>0, <1>5 DEF UsePnp, UseVolumes, List, Phases, history
<1>6. ASSUME UsePresence \/ SkipPoll, UNCHANGED <<slot, task, cache, history, changes>>,
             faults' \in 0 .. MaxFaults
      PROVE  TypeOK'
  <2>1. keys' \subseteq Chained /\ pc' \in {"compare", "sleep"}
    BY <1>6 DEF UsePresence, SkipPoll
  <2>2. Forget
    BY <1>6 DEF UsePresence, SkipPoll
  <2> QED  BY <1>0, <1>6, <2>1, <2>2 DEF Forget, history
<1>7. CASE ListEnds
  BY <1>5, <1>6, <1>7 DEF ListEnds
<1>8. CASE ListFails
  <2>1. faults' \in 0 .. MaxFaults
    BY <1>0, <1>8 DEF ListFails, Fault
  <2> QED  BY <1>0, <1>5, <1>6, <1>8, <2>1 DEF ListFails
<1>9. CASE ReadDrive
  <2>1. next \in Numbers /\ next + 1 \in 0 .. MaxDisks
    BY <1>0, <1>9 DEF ReadDrive, Numbers
  <2>2. slot[next] \in UsbBus => Record(next) \in Records
    BY <2>1, WatchAssumption DEF Record, Records
  <2>3. devices' \subseteq Records
    BY <1>9, <2>2 DEF ReadDrive
  <2> QED  BY <1>9, <2>1, <2>3 DEF ReadDrive, history
<1>10. CASE DriveFails
  BY <1>0, <1>10 DEF DriveFails, Fault, history
<1>11. CASE PrintOnce
  <2>1. told' \subseteq Keys /\ cause' \in [Disks -> Int] /\ loss' \in [Disks -> Int]
    BY <1>11, ByKeyType, WriteType DEF PrintOnce
  <2> QED  BY <1>0, <1>11, <2>1 DEF PrintOnce, Forget
<1>12. CASE WriteSnapshots
  <2>1. /\ DOMAIN cache' \subseteq Keys
        /\ \A k \in DOMAIN cache' : cache'[k] \in Records /\ PresenceKey(cache'[k]) = k
    BY <1>12, ByKeyType DEF WriteSnapshots
  <2>2. told' \subseteq Keys /\ cause' \in [Disks -> Int] /\ loss' \in [Disks -> Int]
    BY <1>12, <2>1, WriteType DEF WriteSnapshots
  <2> QED  BY <1>0, <1>12, <2>1, <2>2 DEF WriteSnapshots, Forget
<1>13. CASE Poll
  BY <1>0, <1>13 DEF Poll, List, Phases, history
<1>14. CASE Compare
  BY <1>0, <1>14 DEF Compare, List, Phases, history
<1>15. CASE WriteChanges
  <2> DEFINE current == ByKey(devices)
             appeared == (keys \ DOMAIN cache) \intersect DOMAIN current
             gone == DOMAIN cache \ keys
  <2>1. /\ DOMAIN current \subseteq Keys
        /\ \A k \in DOMAIN current : current[k] \in Records /\ PresenceKey(current[k]) = k
    BY ByKeyType
  <2>2. cache' = CachedAfter(current) /\ Write(appeared, gone)
    BY <1>15 DEF WriteChanges
  <2> HIDE DEF current
  <2>3. /\ DOMAIN cache' \subseteq Keys
        /\ \A k \in DOMAIN cache' : cache'[k] \in Records /\ PresenceKey(cache'[k]) = k
    BY <2>1, <2>2 DEF CachedAfter
  <2>4. told' \subseteq Keys /\ cause' \in [Disks -> Int] /\ loss' \in [Disks -> Int]
    BY <2>1, <2>2, WriteType
  <2> QED  BY <1>0, <1>15, <2>3, <2>4 DEF WriteChanges, Forget
<1>16. CASE Interrupt
  BY <1>16 DEF Interrupt, scan, history
<1>17. CASE UNCHANGED vars
  BY <1>17 DEF vars, scan, history
<1> QED
  BY <1>1, <1>2, <1>3, <1>4, <1>7, <1>8, <1>9, <1>10, <1>11, <1>12, <1>13, <1>14,
     <1>15, <1>16, <1>17
  DEF Next, Collector

----------------------------------------------------------------------------
(* Numbers and the order of the task *)

LEMMA InitInv == Init => Inv
<1> SUFFICES ASSUME Init PROVE Inv
  OBVIOUS
<1>1. TypeOK
  BY InitType
<1>2. DOMAIN cache = {}
  BY DEF Init, ByKey
<1>3. OneNumberEach
  BY DEF Init, OneNumberEach
<1>4. TaskOrder
  BY <1>2 DEF Init, TaskOrder
<1>5. ASSUME NEW d \in Chained PROVE Accounted(d)
  <2>1. d \in Disks /\ d # None
    BY DisksAreNoNumbers
  <2>2. Sighted(d) => d \in Plugged
    BY <2>1, NoNumbersIs DEF Init, Sighted
  <2>3. cause[d] = (IF d \in Plugged THEN 1 ELSE 0) /\ loss[d] = 0
    BY <2>1 DEF Init
  <2> QED  BY <1>2, <2>2, <2>3 DEF Accounted, ReasonsLeft
<1> QED  BY <1>1, <1>3, <1>4, <1>5 DEF Inv

LEMMA PlugNumbers ==
    ASSUME Inv, NEW d \in Disks, NEW n \in Numbers, Plug(d, n)
    PROVE  /\ slot'[n] = d /\ \A m \in Numbers \ {n} : slot'[m] = slot[m]
           /\ \A e \in Disks : e \in Plugged' <=> e \in Plugged \/ e = d
           /\ OneNumberEach'
<1>1. /\ slot'[n] = d /\ slot[n] = None /\ \A m \in Numbers \ {n} : slot'[m] = slot[m]
      /\ \A m \in Numbers : slot[m] # d
  BY DisksAreNoNumbers DEF Plug, Inv, TypeOK, Plugged
<1>2. \A e \in Disks : e \in Plugged' <=> e \in Plugged \/ e = d
  BY <1>1, DisksAreNoNumbers DEF Plugged
<1>3. OneNumberEach'
  BY <1>1 DEF Inv, OneNumberEach
<1> QED  BY <1>1, <1>2, <1>3

LEMMA UnplugNumbers ==
    ASSUME Inv, NEW d \in Disks, Unplug(d)
    PROVE  /\ \A m \in Numbers : slot'[m] = IF slot[m] = d THEN None ELSE slot[m]
           /\ \A e \in Disks : e \in Plugged' <=> e \in Plugged /\ e # d
           /\ OneNumberEach'
<1>1. NumberOf(d) \in Numbers /\ slot[NumberOf(d)] = d /\ d # None
  BY NumberIs, DisksAreNoNumbers DEF Unplug
<1>2. slot' = [slot EXCEPT ![NumberOf(d)] = None]
  BY DEF Unplug
<1>3. \A m \in Numbers : slot[m] = d => m = NumberOf(d)
  BY <1>1 DEF Inv, OneNumberEach
<1>4. \A m \in Numbers : slot'[m] = IF slot[m] = d THEN None ELSE slot[m]
  BY <1>1, <1>2, <1>3 DEF Inv, TypeOK
<1>5. \A e \in Disks : e \in Plugged' <=> e \in Plugged /\ e # d
  BY <1>4, DisksAreNoNumbers DEF Plugged
<1>6. OneNumberEach'
  BY <1>4 DEF Inv, OneNumberEach
<1> QED  BY <1>4, <1>5, <1>6

LEMMA OrderStep == ASSUME Inv, [Next]_vars PROVE TaskOrder'
<1> USE DEF TaskOrder, Inv
<1>1. CASE \E d \in Disks, n \in Numbers : Plug(d, n)
  BY <1>1 DEF Plug
<1>2. CASE \E d \in Disks : Unplug(d) \/ ListOne(d) \/ LeftOut(d)
  BY <1>2 DEF Unplug, ListOne, LeftOut, scan
<1>3. CASE ListEnds \/ ListFails
  BY <1>3 DEF ListEnds, ListFails, UsePnp, UseVolumes, UsePresence, SkipPoll, List
<1>4. CASE ReadDrive \/ DriveFails
  BY <1>4 DEF ReadDrive, DriveFails
<1>5. CASE PrintOnce \/ WriteSnapshots \/ WriteChanges
  BY <1>5 DEF PrintOnce, WriteSnapshots, WriteChanges
<1>6. CASE Poll \/ Compare
  BY <1>6 DEF Poll, Compare, List
<1>7. CASE Interrupt \/ UNCHANGED vars
  BY <1>7 DEF Interrupt, vars, scan
<1> QED
  BY <1>1, <1>2, <1>3, <1>4, <1>5, <1>6, <1>7 DEF Next, Collector

----------------------------------------------------------------------------
(* The reasons for events *)

\* A step that neither adds to nor takes from the reasons of a disk that stays
\* where it is: nothing is sighted but what is there, nothing missed but what
\* is not.
LEMMA QuietStep ==
    ASSUME NEW d, Accounted(d), cause'[d] = cause[d], loss'[d] = loss[d], pc # "done",
           UNCHANGED cache, d \in Plugged' <=> d \in Plugged,
           Sighted(d)' => Sighted(d) \/ d \in Plugged,
           Missed(d)' => Missed(d) \/ d \notin Plugged
    PROVE  Accounted(d)'
  BY DEF Accounted, ReasonsLeft

\* The same when nothing happens to the disks.
LEMMA ScanStep ==
    ASSUME NEW d, Accounted(d), UNCHANGED <<slot, cache, history>>, pc # "done",
           Sighted(d)' => Sighted(d) \/ d \in Plugged,
           Missed(d)' => Missed(d) \/ d \notin Plugged
    PROVE  Accounted(d)'
  BY QuietStep DEF history, Plugged

LEMMA PlugReasons ==
    ASSUME Inv, NEW e \in Disks, NEW n \in Numbers, Plug(e, n), NEW d \in Chained
    PROVE  Accounted(d)'
<1>1. d \in Disks /\ d # None /\ Accounted(d)
  BY DisksAreNoNumbers DEF Inv
<1>2. /\ UNCHANGED <<task, pc, scan, keys, cache, loss>> /\ e \notin Plugged
      /\ cause' = [cause EXCEPT ![e] = @ + 1] /\ slot[n] = None
  BY DEF Plug
<1>3. /\ slot'[n] = e /\ \A m \in Numbers \ {n} : slot'[m] = slot[m]
      /\ d \in Plugged' <=> d \in Plugged \/ d = e
  BY <1>1, PlugNumbers
<1>4. cause[d] \in Int /\ loss[d] \in Int
         /\ cause'[d] = IF d = e THEN cause[d] + 1 ELSE cause[d]
  BY <1>1, <1>2 DEF Inv, TypeOK
<1>5. Sighted(d)' => Sighted(d)
  BY <1>2 DEF Sighted, scan
<1>6. Missed(d)' => Missed(d) \/ d \notin Plugged
  <2>1. ASSUME NEW m \in Numbers, found[m] = d, slot[m] = d PROVE slot'[m] = d
    BY <1>1, <1>2, <1>3, <2>1
  <2> QED  BY <1>2, <2>1 DEF Missed, scan
<1>7. CASE d = e
  BY <1>1, <1>2, <1>3, <1>4, <1>5, <1>6, <1>7 DEF Accounted, ReasonsLeft
<1>8. CASE d # e
  <2>1. CASE pc = "done"
    BY <1>1, <1>2, <1>4, <1>8, <2>1 DEF Accounted
  <2>2. CASE pc # "done"
    BY <1>1, <1>2, <1>3, <1>4, <1>5, <1>6, <1>8, <2>2, QuietStep
  <2> QED  BY <2>1, <2>2
<1> QED  BY <1>7, <1>8

LEMMA UnplugReasons ==
    ASSUME Inv, NEW e \in Disks, Unplug(e), NEW d \in Chained
    PROVE  Accounted(d)'
<1>1. d \in Disks /\ d # None /\ Accounted(d)
  BY DisksAreNoNumbers DEF Inv
<1>2. /\ UNCHANGED <<task, pc, scan, keys, cache, cause>> /\ e \in Plugged
      /\ loss' = [loss EXCEPT ![e] = @ + 1]
  BY DEF Unplug
<1>3. /\ \A m \in Numbers : slot'[m] = IF slot[m] = e THEN None ELSE slot[m]
      /\ d \in Plugged' <=> d \in Plugged /\ d # e
  BY <1>1, UnplugNumbers
<1>4. cause[d] \in Int /\ loss[d] \in Int
         /\ loss'[d] = IF d = e THEN loss[d] + 1 ELSE loss[d]
  BY <1>1, <1>2 DEF Inv, TypeOK
<1>5. Sighted(d)' => Sighted(d)
  BY <1>2 DEF Sighted, scan
<1>6. CASE d = e
  BY <1>1, <1>2, <1>3, <1>4, <1>5, <1>6 DEF Accounted, ReasonsLeft
<1>7. CASE d # e
  <2>1. Missed(d)' => Missed(d)
    BY <1>2, <1>3, <1>7 DEF Missed, scan
  <2>2. CASE pc = "done"
    BY <1>1, <1>2, <1>4, <1>7, <2>2 DEF Accounted
  <2>3. CASE pc # "done"
    BY <1>1, <1>2, <1>3, <1>4, <1>5, <1>7, <2>1, <2>3, QuietStep
  <2> QED  BY <2>2, <2>3
<1> QED  BY <1>6, <1>7

LEMMA ListReasons ==
    ASSUME Inv, NEW e \in Disks, ListOne(e) \/ LeftOut(e), NEW d \in Chained
    PROVE  Accounted(d)'
<1>1. d \in Disks /\ d # None /\ Accounted(d)
  BY DisksAreNoNumbers DEF Inv
<1>2. /\ pc \in Phases /\ e \in todo /\ todo' = todo \ {e}
      /\ UNCHANGED <<slot, task, pc, pnp, volumes, next, devices, keys, cache>>
  BY DEF ListOne, LeftOut
<1>3. pc # "done"
  BY <1>2 DEF Phases
<1>4. CASE ListOne(e)
  <2>1. /\ found' = IF e \in Plugged THEN [found EXCEPT ![NumberOf(e)] = e] ELSE found
        /\ UNCHANGED history
    BY <1>4 DEF ListOne
  <2>2. e \in Plugged => /\ NumberOf(e) \in Numbers /\ slot[NumberOf(e)] = e
                         /\ \A m \in Numbers :
                              found'[m] = IF m = NumberOf(e) THEN e ELSE found[m]
    BY <2>1, NumberIs DEF Inv, TypeOK
  <2>3. Sighted(d)' => Sighted(d)
    BY <1>2, <2>1, <2>2 DEF Sighted
  <2>4. Missed(d)' => Missed(d) \/ d \notin Plugged
    <3>1. CASE pc = "presence"
      <4>1. CASE d = e
        BY <1>2, <2>2, <3>1, <4>1 DEF Missed
      <4>2. CASE d # e
        <5>1. ASSUME NEW m \in Numbers, found[m] = d, slot[m] = d PROVE found'[m] = d
          BY <2>1, <2>2, <4>2, <5>1
        <5> QED  BY <1>2, <3>1, <4>2, <5>1 DEF Missed
      <4> QED  BY <4>1, <4>2
    <3>2. CASE pc # "presence"
      BY <1>2, <3>2 DEF Missed
    <3> QED  BY <3>1, <3>2
  <2> QED  BY <1>1, <1>2, <1>3, <2>1, <2>3, <2>4, ScanStep
<1>5. CASE LeftOut(e)
  <2>1. /\ UNCHANGED found
        /\ IF pc = "presence"
           THEN /\ cause' = [cause EXCEPT ![e] = @ + 1]
                /\ loss' = [loss EXCEPT ![e] = @ + 1]
           ELSE UNCHANGED <<cause, loss>>
    BY <1>5 DEF LeftOut
  <2>2. Sighted(d)' => Sighted(d)
    BY <1>2, <2>1 DEF Sighted
  <2>3. cause[d] \in Int /\ loss[d] \in Int
    BY <1>1 DEF Inv, TypeOK
  <2>4. CASE d = e /\ pc = "presence"
    <3>1. cause'[d] = cause[d] + 1 /\ loss'[d] = loss[d] + 1
      BY <1>1, <2>1, <2>4 DEF Inv, TypeOK
    <3> QED  BY <1>1, <2>3, <3>1 DEF Accounted, ReasonsLeft
  <2>5. CASE d # e \/ pc # "presence"
    <3>1. cause'[d] = cause[d] /\ loss'[d] = loss[d]
      BY <1>1, <2>1, <2>5 DEF Inv, TypeOK
    <3>2. Missed(d)' => Missed(d)
      BY <1>2, <2>1, <2>5 DEF Missed
    <3>3. d \in Plugged' <=> d \in Plugged
      BY <1>2 DEF Plugged
    <3> QED  BY <1>1, <1>2, <1>3, <2>2, <3>1, <3>2, <3>3, QuietStep
  <2> QED  BY <2>4, <2>5
<1> QED  BY <1>4, <1>5

LEMMA ListingReasons ==
    ASSUME Inv, ListEnds \/ ListFails, NEW d \in Chained
    PROVE  Accounted(d)'
<1>1. d \in Disks /\ d # None /\ Accounted(d)
  BY DisksAreNoNumbers DEF Inv
<1>2. UNCHANGED <<slot, task, cache, history>>
  BY DEF ListEnds, ListFails
<1>3. ASSUME NEW result, UsePnp(result), result \in {found, NoNumbers} PROVE Accounted(d)'
  <2>1. /\ pc = "pnp" /\ pc' = "volumes" /\ pnp' = result
        /\ UNCHANGED <<devices, keys>>
    BY <1>3 DEF UsePnp, List
  <2>2. Sighted(d)' => Sighted(d)
    BY <1>1, <1>2, <1>3, <2>1, NoNumbersIs DEF Sighted
  <2>3. Missed(d)' => Missed(d)
    BY <1>2, <2>1 DEF Missed
  <2> QED  BY <1>1, <1>2, <2>1, <2>2, <2>3, ScanStep
<1>4. ASSUME NEW result, UseVolumes(result) PROVE Accounted(d)'
  <2>1. pc = "volumes" /\ pc' = "drives" /\ UNCHANGED <<pnp, devices, keys>>
    BY <1>4 DEF UseVolumes
  <2>2. Sighted(d)' => Sighted(d)
    BY <1>2, <2>1 DEF Sighted
  <2>3. Missed(d)' => Missed(d)
    BY <1>2, <2>1 DEF Missed
  <2> QED  BY <1>1, <1>2, <2>1, <2>2, <2>3, ScanStep
<1>5. CASE UsePresence /\ todo = {}
  <2>1. /\ pc = "presence" /\ pc' = "compare" /\ todo = {} /\ task = "poll"
        /\ keys' = {found[n] : n \in Numbers} \intersect Chained
    BY <1>5 DEF UsePresence, Inv, TaskOrder
  <2>2. Sighted(d)' => Sighted(d)
    BY <1>2, <2>1 DEF Sighted
  <2>3. Missed(d)' => Missed(d)
    BY <1>2, <2>1 DEF Missed
  <2> QED  BY <1>1, <1>2, <2>1, <2>2, <2>3, ScanStep
<1>6. CASE SkipPoll
  <2>1. pc = "presence" /\ pc' = "sleep" /\ task = "poll" /\ UNCHANGED keys
    BY <1>6 DEF SkipPoll, Inv, TaskOrder
  <2>2. (Sighted(d)' => Sighted(d)) /\ ~ Missed(d)'
    BY <1>2, <2>1 DEF Sighted, Missed
  <2> QED  BY <1>1, <1>2, <2>1, <2>2, ScanStep
<1> QED  BY <1>3, <1>4, <1>5, <1>6 DEF ListEnds, ListFails

LEMMA DrivesReasons ==
    ASSUME Inv, ReadDrive \/ DriveFails, NEW d \in Chained
    PROVE  Accounted(d)'
<1>1. d # None /\ Accounted(d)
  BY DisksAreNoNumbers DEF Inv
<1>2. /\ pc = "drives" /\ UNCHANGED <<slot, task, pc, pnp, keys, cache, history>>
      /\ devices' \subseteq devices \union {Record(next)} /\ next \in Numbers
  <2>1. next < MaxDisks /\ next \in 0 .. MaxDisks
    BY DEF ReadDrive, DriveFails, Inv, TypeOK
  <2> QED  BY <2>1, WatchAssumption DEF ReadDrive, DriveFails, Numbers
<1>3. Sighted(d)' => Sighted(d)
  BY <1>2 DEF Sighted, Record
<1>4. Missed(d)' => Missed(d)
  BY <1>2 DEF Missed
<1> QED  BY <1>1, <1>2, <1>3, <1>4, ScanStep

LEMMA PollReasons ==
    ASSUME Inv, Poll \/ Compare, NEW d \in Chained
    PROVE  Accounted(d)'
<1>1. d # None /\ Accounted(d)
  BY DisksAreNoNumbers DEF Inv
<1>2. UNCHANGED <<slot, task, pnp, devices, cache, history>> /\ task = "poll" /\ pc # "done"
  BY DEF Poll, Compare, Inv, TaskOrder
<1>3. CASE Poll
  <2>1. /\ pc' = "presence" /\ todo' = Plugged /\ found' = NoNumbers /\ UNCHANGED keys
    BY <1>3 DEF Poll, List
  <2>2. Sighted(d)' => Sighted(d) \/ d \in Plugged
    BY <1>1, <1>2, <2>1, NoNumbersIs DEF Sighted
  <2>3. Missed(d)' => d \notin Plugged
    BY <2>1 DEF Missed
  <2> QED  BY <1>1, <1>2, <2>2, <2>3, ScanStep
<1>4. CASE Compare
  <2>1. /\ pc = "compare"
        /\ \/ pc' = "sleep" /\ keys' = {}
           \/ pc' = "pnp" /\ UNCHANGED keys
    BY <1>4 DEF Compare, List
  <2>2. (Sighted(d)' => Sighted(d)) /\ (Missed(d)' => Missed(d))
    BY <1>2, <2>1 DEF Sighted, Missed
  <2> QED  BY <1>1, <1>2, <2>2, ScanStep
<1> QED  BY <1>3, <1>4

\* What the first scan announces was sighted, and is watched from then on.
LEMMA FirstReasons ==
    ASSUME Inv, PrintOnce \/ WriteSnapshots, NEW d \in Chained
    PROVE  Accounted(d)'
<1> DEFINE announced == DOMAIN ByKey(devices)
<1>1. d \in Disks /\ Accounted(d) /\ cause[d] \in Int /\ loss[d] \in Int
  BY DisksAreNoNumbers DEF Inv, TypeOK
<1>2. /\ pc = "drives" /\ task # "poll" /\ d \notin DOMAIN cache
      /\ Write(announced, {}) /\ UNCHANGED slot
  BY DEF PrintOnce, WriteSnapshots, Inv, TaskOrder
<1>3. /\ cause'[d] = IF d \in announced THEN cause[d] - 1 ELSE cause[d]
      /\ loss'[d] = loss[d]
  BY <1>1, <1>2 DEF Write
<1>4. d \in announced => Sighted(d)
  BY <1>1, <1>2, AnnouncedByInterface DEF Sighted, Inv
<1> HIDE DEF announced
<1>5. /\ cause[d] >= 0 /\ loss[d] >= 0
      /\ Sighted(d) \/ d \in Plugged => cause[d] >= 1
      /\ Sighted(d) /\ d \notin Plugged => loss[d] >= 1
  BY <1>1, <1>2 DEF Accounted, ReasonsLeft
<1>6. cause'[d] >= 0 /\ loss'[d] >= 0
  BY <1>1, <1>3, <1>4, <1>5
<1>7. CASE PrintOnce
  BY <1>6, <1>7 DEF PrintOnce, Accounted
<1>8. CASE WriteSnapshots
  <2>1. pc' = "sleep" /\ task' = "poll" /\ DOMAIN cache' = announced /\ keys' = keys /\ keys = {}
    BY <1>2, <1>8 DEF WriteSnapshots, announced, Inv, TaskOrder
  <2>2. ~ Sighted(d)' /\ ~ Missed(d)' /\ (d \in Plugged' <=> d \in Plugged)
    BY <1>2, <2>1 DEF Sighted, Missed, Plugged
  <2> QED  BY <1>3, <1>4, <1>5, <1>6, <2>1, <2>2 DEF Accounted, ReasonsLeft
<1> QED  BY <1>7, <1>8

\* What a poll announces is in current_keys, what it takes for gone is not.
LEMMA ChangesReasons ==
    ASSUME Inv, WriteChanges, NEW d \in Chained
    PROVE  Accounted(d)'
<1> DEFINE current == ByKey(devices)
           appeared == (keys \ DOMAIN cache) \intersect DOMAIN current
           gone == DOMAIN cache \ keys
<1>1. d \in Disks /\ Accounted(d) /\ cause[d] \in Int /\ loss[d] \in Int
  BY DisksAreNoNumbers DEF Inv, TypeOK
<1>2. /\ pc = "drives" /\ task = "poll" /\ pc' = "sleep" /\ UNCHANGED <<slot, task>>
      /\ keys' = {} /\ cache' = CachedAfter(current) /\ Write(appeared, gone)
  BY DEF WriteChanges
<1>3. /\ cause'[d] = IF d \in appeared THEN cause[d] - 1 ELSE cause[d]
      /\ loss'[d] = IF d \in gone THEN loss[d] - 1 ELSE loss[d]
  BY <1>1, <1>2 DEF Write
<1>4. DOMAIN cache' = keys \intersect (DOMAIN cache \union DOMAIN current)
  BY <1>2 DEF CachedAfter
<1>5. Sighted(d) <=> d \in keys
  BY <1>2 DEF Sighted
<1>6. Missed(d) <=> d \notin keys
  BY <1>2 DEF Missed
<1>7. ReasonsLeft(d) /\ cause[d] >= 0 /\ loss[d] >= 0
  BY <1>1, <1>2 DEF Accounted
<1>8. ~ Sighted(d)' /\ ~ Missed(d)' /\ (d \in Plugged' <=> d \in Plugged)
  BY <1>2 DEF Sighted, Missed, Plugged
<1> HIDE DEF current
<1>9. cause'[d] >= 0 /\ loss'[d] >= 0
  BY <1>1, <1>3, <1>5, <1>6, <1>7 DEF ReasonsLeft
<1>10. d \notin DOMAIN cache' /\ d \in Plugged => cause'[d] >= 1
  BY <1>1, <1>3, <1>4, <1>5, <1>6, <1>7 DEF ReasonsLeft
<1>11. d \in DOMAIN cache' /\ d \notin Plugged => loss'[d] >= 1
  BY <1>1, <1>3, <1>4, <1>5, <1>6, <1>7 DEF ReasonsLeft
<1> QED  BY <1>8, <1>9, <1>10, <1>11 DEF Accounted, ReasonsLeft

----------------------------------------------------------------------------

LEMMA StepInv == ASSUME Inv, [Next]_vars PROVE Inv'
<1>1. TypeOK'
  BY TypeStep DEF Inv
<1>2. OneNumberEach'
  <2>1. CASE UNCHANGED slot
    BY <2>1 DEF Inv, OneNumberEach
  <2>2. CASE \E d \in Disks, n \in Numbers : Plug(d, n)
    BY <2>2, PlugNumbers
  <2>3. CASE \E d \in Disks : Unplug(d)
    BY <2>3, UnplugNumbers
  <2> QED
    BY <2>1, <2>2, <2>3
    DEF Next, Collector, ListOne, LeftOut, ListEnds, ListFails, ReadDrive, DriveFails,
        PrintOnce, WriteSnapshots, Poll, Compare, WriteChanges, Interrupt, vars
<1>3. TaskOrder'
  BY OrderStep
<1>4. ASSUME NEW d \in Chained PROVE Accounted(d)'
  <2>1. CASE Interrupt
    BY <2>1 DEF Interrupt, history, Inv, Accounted
  <2>2. CASE UNCHANGED vars
    BY <2>2
    DEF vars, scan, history, Inv, Accounted, ReasonsLeft, Sighted, Missed, Plugged
  <2> QED
    BY <2>1, <2>2, PlugReasons, UnplugReasons, ListReasons, ListingReasons,
       DrivesReasons, PollReasons, FirstReasons, ChangesReasons
    DEF Next, Collector
<1> QED  BY <1>1, <1>2, <1>3, <1>4 DEF Inv

THEOREM Invariance == Spec => []Inv
  BY InitInv, StepInv, PTL DEF Spec

\* Every variable of the collector keeps its type, whatever is plugged in and
\* out during a scan: a cached device is always under its own key.
THEOREM TypeCorrect == Spec => []TypeOK
<1>1. Inv => TypeOK
  BY DEF Inv
<1> QED  BY <1>1, Invariance, PTL

\* watch_usb announces a USB disk at most once for each time it was plugged in
\* or left out of a poll, and disconnects it at most once for each time it was
\* unplugged or left out, though every listing and every drive of a scan is
\* read at another moment (main.py:1816-1950).
THEOREM NoEventRepeated == Spec => []EventsHaveCause
<1>1. Inv => EventsHaveCause
  BY DEF Inv, Accounted, EventsHaveCause
<1> QED  BY <1>1, Invariance, PTL
============================================================================
