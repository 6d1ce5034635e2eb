-------------------------- MODULE IngestTxnProofs --------------------------
(***************************************************************************)
(* Proofs about the PIB Server's identity engine, for every set of events, *)
(* computers, agents, hashes and serials, every window, lookback and       *)
(* number of devices: first Identity, where a request is one step, then    *)
(* IngestTxn, where any number of them overlap, fail, and meet deletions.  *)
(***************************************************************************)
EXTENDS IngestTxn, TLAPS, WellFoundedInduction, FiniteSetTheorems

----------------------------------------------------------------------------
(* Classification *)

\* What makes two observations the same device: both have the hardware hash,
\* and one computer saw them.
Like(f, p) ==
    f.hardware # NoHash /\ p.hardware = f.hardware /\ p.computer = f.computer

\* Links follow Like, and verdicts of suspicion never do.
LEMMA VerdictLike ==
    ASSUME NEW f, NEW p
    PROVE  /\ Verdict(f, p) \in Results
           /\ Verdict(f, p) = "SAME" => Like(f, p)
           /\ Verdict(f, p) \in {"SERIAL_COLLISION", "CLONE_SUSPECTED", "LIKELY_SAME"}
                => ~ Like(f, p)
<1>1. /\ ClassifyPair(f, p) \in Results
      /\ ClassifyPair(f, p) = "SAME" => Like(f, p)
      /\ ClassifyPair(f, p) \in {"SERIAL_COLLISION", "CLONE_SUSPECTED", "LIKELY_SAME"}
           => ~ Like(f, p)
  BY DEF ClassifyPair, Results, Like, SameHardware, SameMedia
<1>2. CollisionContext(f, p) => ~ Like(f, p)
  BY DEF CollisionContext, Like
<1> QED  BY <1>1, <1>2 DEF Verdict, Results

LEMMA HasGreatest ==
    ASSUME NEW T, T \subseteq Nat, T # {}, NEW bound \in Nat, \A t \in T : t <= bound
    PROVE  \E t \in T : \A s \in T : t >= s
<1> DEFINE gaps == {n \in Nat : \E t \in T : n = bound - t}
           less == OpToRel(<, Nat)
<1>1. gaps # {}
  <2>1. PICK t \in T : TRUE
    OBVIOUS
  <2>2. bound - t \in Nat
    OBVIOUS
  <2> QED  BY <2>1, <2>2
<1>2. \E x \in gaps : \A y \in gaps : ~(<<y, x>> \in less)
  <2>1. IsWellFoundedOn(less, Nat)
    BY NatLessThanWellFounded
  <2>2. gaps \subseteq Nat
    OBVIOUS
  <2> HIDE DEF gaps, less
  <2> QED  BY <1>1, <2>1, <2>2, WFMin
<1>3. \A x, y \in Nat : <<y, x>> \in less <=> y < x
  BY DEF OpToRel
<1>4. PICK x \in gaps : \A y \in gaps : ~(y < x)
  BY <1>2, <1>3
<1>5. PICK t \in T : x = bound - t
  BY <1>4
<1>6. ASSUME NEW s \in T PROVE t >= s
  <2>1. bound - s \in gaps
    OBVIOUS
  <2> QED  BY <1>4, <1>5, <2>1
<1> QED  BY <1>6

----------------------------------------------------------------------------
(* The inductive invariant *)

\* Devices are numbered as they are created.
IdsDrawn == \A e \in stored : device[e] \in 1 .. nextId

Inv ==
    /\ TypeOK
    /\ IdsDrawn
    /\ NeverMerged
    /\ OneDevicePerHardware
    /\ NoDanglingReference
    /\ NoOrphan
    /\ DecisionsMatchLinks
    /\ LastSeenCovers

LEMMA FactsAreStored == \A f \in Facts : f # NoFacts
<1> SUFFICES ASSUME NEW f \in Facts, f = NoFacts PROVE FALSE
  OBVIOUS
<1>1. DOMAIN f = {"computer", "hardware", "software", "serials", "time"}
  BY DEF Facts
<1>2. DOMAIN f = {"computer"}
  BY DEF NoFacts
<1> QED  BY <1>1, <1>2

LEMMA DecisionsAreMade == \A r \in Decision : r # NoDecision
  BY DEF Decision, NoDecision, Results

LEMMA InitInv == Init => Inv
<1> SUFFICES ASSUME Init PROVE Inv
  OBVIOUS
<1>1. stored = {} /\ known = {}
  BY DEF Init, stored, known
<1>2. TypeOK
  BY BoundsAssumption DEF Init, TypeOK
<1>3. IdsDrawn /\ NeverMerged /\ OneDevicePerHardware /\ DecisionsMatchLinks
         /\ LastSeenCovers
  BY <1>1
  DEF IdsDrawn, NeverMerged, OneDevicePerHardware, DecisionsMatchLinks, LastSeenCovers
<1>4. NoDanglingReference /\ NoOrphan
  BY <1>1 DEF Init, NoDanglingReference, NoOrphan
<1> QED  BY <1>2, <1>3, <1>4 DEF Inv

\* What is stored has facts and a device.
LEMMA StoredIsTyped ==
    ASSUME Inv, NEW e \in stored
    PROVE  /\ e \in EventIds /\ facts[e] \in Facts
           /\ device[e] \in DeviceIds /\ device[e] \in known
           /\ MediaOf(e) \in MediaKeys
<1>1. e \in EventIds /\ facts[e] \in Facts
  BY DEF Inv, TypeOK, stored
<1>2. device[e] \in known /\ device[e] \in DeviceIds
  BY DEF Inv, NoDanglingReference, known
<1> QED  BY <1>1, <1>2 DEF MediaOf, MediaKeys, Facts

----------------------------------------------------------------------------
(* resolve_identity *)

\* The observation is assigned d: the device of a like observation, or one
\* just created when there is none.
Linked(e, f, d) ==
    /\ d \in DeviceIds
    /\ device' = [device EXCEPT ![e] = d]
    /\ \/ /\ \E p \in stored : d = device[p] /\ Like(f, facts[p])
          /\ devices' = [devices EXCEPT ![d] = Latest(@, f.time)]
          /\ nextId' = nextId
       \/ /\ \A p \in stored : ~ Like(f, facts[p])
          /\ d = nextId + 1
          /\ nextId' = d
          /\ devices' = [devices EXCEPT ![d] = f.time]

Decided(e, f, d) ==
    \E r \in Results, c \in DeviceIds \union {None} :
        /\ decision' = [decision EXCEPT ![e] =
             [result |-> r, auto |-> r = "SAME", candidate |-> c, assigned |-> d]]
        /\ \/ r = "UNKNOWN" /\ c = None
           \/ \E p \in stored :
                c = device[p] /\ r = Verdict(f, facts[p]) /\ (r = "SAME" => c = d)

\* When there is a like observation, a latest one is found.
LEMMA PriorsFound ==
    ASSUME \A p \in stored : facts[p] \in Facts, NEW f \in Facts, NEW q \in stored, Like(f, facts[q])
    PROVE  Priors(f) # {}
<1> DEFINE alike == {p \in stored : /\ f.hardware # NoHash
                                    /\ facts[p].hardware = f.hardware
                                    /\ facts[p].computer = f.computer}
           T == {t \in Times : \E p \in alike : t = facts[p].time}
<1>1. \A p \in alike : facts[p].time \in T
  BY DEF Facts
<1>2. T # {}
  BY <1>1 DEF Like
<1>3. T \subseteq Nat /\ MaxTime \in Nat /\ \A t \in T : t <= MaxTime
  BY BoundsAssumption DEF Times
<1>4. PICK t \in T : \A s \in T : t >= s
  <2> HIDE DEF T
  <2> QED  BY <1>2, <1>3, HasGreatest
<1>5. PICK p \in alike : t = facts[p].time
  BY <1>4
<1>6. p \in Priors(f)
  BY <1>1, <1>4, <1>5 DEF Priors
<1> QED  BY <1>6

LEMMA ProvisionLinks ==
    ASSUME Inv, NEW e \in EventIds, NEW f \in Facts, Provision(e, f)
    PROVE  \E d : Linked(e, f, d)
<1>1. CASE \E p \in Priors(f) :
             /\ device' = [device EXCEPT ![e] = device[p]]
             /\ devices' = Seen(device[p], f)
             /\ UNCHANGED nextId
  <2>1. PICK p \in Priors(f) :
             /\ device' = [device EXCEPT ![e] = device[p]]
             /\ devices' = Seen(device[p], f)
             /\ UNCHANGED nextId
    BY <1>1
  <2>2. p \in stored /\ Like(f, facts[p])
    BY <2>1 DEF Priors, Like
  <2>3. device[p] \in DeviceIds
    BY <2>2, StoredIsTyped
  <2>4. Linked(e, f, device[p])
    BY <2>1, <2>2, <2>3 DEF Linked, Seen
  <2> QED  BY <2>4
<1>2. CASE /\ Priors(f) = {}
           /\ nextId < MaxDevices
           /\ nextId' = nextId + 1
           /\ device' = [device EXCEPT ![e] = nextId']
           /\ devices' = [devices EXCEPT ![nextId'] = f.time]
  <2>1. nextId + 1 \in DeviceIds
    BY <1>2, BoundsAssumption DEF Inv, TypeOK, DeviceIds
  <2>2. \A p \in stored : ~ Like(f, facts[p])
    BY <1>2, StoredIsTyped, PriorsFound
  <2>3. Linked(e, f, nextId + 1)
    BY <1>2, <2>1, <2>2 DEF Linked
  <2> QED  BY <2>3
<1> QED  BY <1>1, <1>2 DEF Provision

LEMMA ResolveLinks ==
    ASSUME Inv, NEW e \in EventIds, NEW f \in Facts, ResolveIdentity(e, f)
    PROVE  \E d : /\ Linked(e, f, d) /\ Decided(e, f, d)
                  /\ media' = [media EXCEPT ![<<d, f.software>>] = Latest(@, f.time)]
<1>0. ASSUME NEW d, Linked(e, f, d)
      PROVE  device'[e] = d
  BY <1>0 DEF Linked, Inv, TypeOK
<1>1. PICK chosen \in SUBSET stored :
        /\ \/ /\ Candidates(f, chosen) = {}
              /\ Provision(e, f)
              /\ Decide(e, "UNKNOWN", None)
           \/ \E p \in Candidates(f, chosen) :
                /\ IF Verdict(f, facts[p]) = "SAME"
                   THEN AutoLink(e, f, p) ELSE Provision(e, f)
                /\ Decide(e, Verdict(f, facts[p]), device[p])
        /\ TouchMedia(e, f)
  BY DEF ResolveIdentity
<1>2. CASE /\ Provision(e, f)
           /\ Decide(e, "UNKNOWN", None)
  <2>1. PICK d : Linked(e, f, d)
    BY <1>2, ProvisionLinks
  <2>2. device'[e] = d
    BY <1>0, <2>1
  <2>3. Decided(e, f, d)
    BY <1>2, <2>2 DEF Decide, Decided, Results
  <2> QED  BY <1>1, <2>1, <2>2, <2>3 DEF TouchMedia
<1>3. CASE \E p \in Candidates(f, chosen) :
             /\ IF Verdict(f, facts[p]) = "SAME"
                THEN AutoLink(e, f, p) ELSE Provision(e, f)
             /\ Decide(e, Verdict(f, facts[p]), device[p])
  <2>1. PICK p \in Candidates(f, chosen) :
             /\ IF Verdict(f, facts[p]) = "SAME"
                THEN AutoLink(e, f, p) ELSE Provision(e, f)
             /\ Decide(e, Verdict(f, facts[p]), device[p])
    BY <1>3
  <2>2. p \in stored
    BY <2>1 DEF Candidates
  <2>3. device[p] \in DeviceIds
    BY <2>2, StoredIsTyped
  <2>4. CASE Verdict(f, facts[p]) = "SAME"
    <3>1. Linked(e, f, device[p])
      BY <2>1, <2>2, <2>3, <2>4, VerdictLike DEF AutoLink, Linked, Seen
    <3>2. device'[e] = device[p]
      BY <1>0, <3>1
    <3>3. Decided(e, f, device[p])
      BY <2>1, <2>2, <2>3, <3>2, VerdictLike DEF Decide, Decided
    <3> QED  BY <1>1, <3>1, <3>2, <3>3 DEF TouchMedia
  <2>5. CASE Verdict(f, facts[p]) # "SAME"
    <3>1. PICK d : Linked(e, f, d)
      BY <2>1, <2>5, ProvisionLinks
    <3>2. device'[e] = d
      BY <1>0, <3>1
    <3>3. Decided(e, f, d)
      BY <2>1, <2>2, <2>3, <2>5, <3>2, VerdictLike DEF Decide, Decided
    <3> QED  BY <1>1, <3>1, <3>2, <3>3 DEF TouchMedia
  <2> QED  BY <2>4, <2>5
<1> QED  BY <1>1, <1>2, <1>3

----------------------------------------------------------------------------
(* Ingesting an observation *)

Ingested(e, f, d) ==
    /\ facts' = [facts EXCEPT ![e] = f]
    /\ EnsureComputer(f.computer, f.time)
    /\ Locate(f.computer)
    /\ Linked(e, f, d)
    /\ Decided(e, f, d)
    /\ media' = [media EXCEPT ![<<d, f.software>>] = Latest(@, f.time)]

LEMMA IngestInv ==
    ASSUME Inv, NEW e \in EventIds, e \notin stored, NEW f \in Facts, NEW d,
           Ingested(e, f, d)
    PROVE  Inv'
<1> USE DEF Ingested
<1>0. /\ d \in DeviceIds /\ f.time \in Times /\ f.computer \in Computers
      /\ f.software \in Software \union {NoHash}
      /\ <<d, f.software>> \in MediaKeys
  BY DEF Linked, Facts, MediaKeys
<1>1. stored' = stored \union {e}
  BY FactsAreStored DEF stored, Inv, TypeOK
<1>2. facts'[e] = f /\ device'[e] = d /\ MediaOf(e)' = <<d, f.software>>
  BY DEF Linked, Inv, TypeOK, MediaOf
<1>3. ASSUME NEW q \in stored
      PROVE  /\ facts'[q] = facts[q] /\ device'[q] = device[q]
             /\ decision'[q] = decision[q] /\ MediaOf(q)' = MediaOf(q)
             /\ q # e
  BY DEF Linked, Decided, Inv, TypeOK, MediaOf, stored
<1>4. PICK r \in Results, c \in DeviceIds \union {None} :
        /\ decision'[e] = [result |-> r, auto |-> r = "SAME", candidate |-> c,
                           assigned |-> d]
        /\ decision' = [decision EXCEPT ![e] = decision'[e]]
        /\ \/ r = "UNKNOWN" /\ c = None
           \/ \E p \in stored :
                c = device[p] /\ r = Verdict(f, facts[p]) /\ (r = "SAME" => c = d)
  BY DEF Decided, Inv, TypeOK
\* The device is that of the like observations, and of no other.
<1>5. ASSUME NEW q \in stored
      PROVE  device[q] = d <=> Like(f, facts[q])
  <2>1. CASE \E p \in stored : d = device[p] /\ Like(f, facts[p])
    <3>1. PICK p \in stored : d = device[p] /\ Like(f, facts[p])
      BY <2>1
    <3>2. device[q] = d => Like(f, facts[q])
      BY <3>1 DEF Like, Inv, NeverMerged
    <3>3. Like(f, facts[q]) => device[q] = d
      BY <3>1 DEF Like, Inv, OneDevicePerHardware
    <3> QED  BY <3>2, <3>3
  <2>2. CASE d = nextId + 1 /\ \A p \in stored : ~ Like(f, facts[p])
    BY <2>2 DEF Inv, TypeOK, IdsDrawn
  <2> QED  BY <2>1, <2>2 DEF Linked
\* Rows of the device, the media state and the computer are there afterwards.
<1>6. /\ devices' = [devices EXCEPT ![d] = devices'[d]]
      /\ devices'[d] \in Times /\ devices'[d] >= f.time
      /\ \A q \in stored : devices'[device[q]] >= devices[device[q]]
  <2>1. \A x \in DeviceIds : devices[x] \in Nat /\ devices[x] <= MaxTime
    BY BoundsAssumption DEF Inv, TypeOK, Times, None
  <2>2. CASE /\ \E p \in stored : d = device[p] /\ Like(f, facts[p])
             /\ devices' = [devices EXCEPT ![d] = Latest(@, f.time)]
    <3>1. Latest(devices[d], f.time) \in Times
      BY <1>0, <2>1 DEF Latest, Times
    <3>2. /\ Latest(devices[d], f.time) >= f.time
          /\ Latest(devices[d], f.time) >= devices[d]
      BY <1>0, <2>1 DEF Latest, Times
    <3>3. /\ devices'[d] = Latest(devices[d], f.time)
          /\ \A x \in DeviceIds \ {d} : devices'[x] = devices[x]
          /\ devices' = [devices EXCEPT ![d] = devices'[d]]
      BY <1>0, <2>2 DEF Inv, TypeOK
    <3> QED  BY <2>1, <3>1, <3>2, <3>3, StoredIsTyped
  <2>3. CASE /\ d = nextId + 1 /\ devices' = [devices EXCEPT ![d] = f.time]
    <3>1. \A q \in stored : device[q] # d
      BY <2>3 DEF Inv, TypeOK, IdsDrawn
    <3>2. /\ devices'[d] = f.time
          /\ \A x \in DeviceIds \ {d} : devices'[x] = devices[x]
          /\ devices' = [devices EXCEPT ![d] = devices'[d]]
      BY <1>0, <2>3 DEF Inv, TypeOK
    <3>3. f.time >= f.time
      BY <1>0 DEF Times
    <3> QED  BY <1>0, <2>1, <3>1, <3>2, <3>3, StoredIsTyped
  <2> QED  BY <2>2, <2>3 DEF Linked
<1>7. /\ media' = [media EXCEPT ![<<d, f.software>>] = media'[<<d, f.software>>]]
      /\ media'[<<d, f.software>>] \in Times /\ media'[<<d, f.software>>] >= f.time
      /\ \A m \in MediaKeys : media'[m] >= media[m]
  <2> DEFINE key == <<d, f.software>>
  <2>1. \A m \in MediaKeys : media[m] \in Nat /\ media[m] <= MaxTime
    BY BoundsAssumption DEF Inv, TypeOK, Times, None
  <2>2. key \in MediaKeys
    BY <1>0
  <2>3. /\ media'[key] = Latest(media[key], f.time)
        /\ \A m \in MediaKeys \ {key} : media'[m] = media[m]
        /\ media' = [media EXCEPT ![key] = media'[key]]
    BY <2>2 DEF Inv, TypeOK
  <2> HIDE DEF key
  <2>4. Latest(media[key], f.time) \in Times
    BY <1>0, <2>1, <2>2 DEF Latest, Times
  <2>5. /\ Latest(media[key], f.time) >= f.time
        /\ Latest(media[key], f.time) >= media[key]
    BY <1>0, <2>1, <2>2 DEF Latest, Times
  <2>6. /\ media' = [media EXCEPT ![key] = media'[key]]
        /\ media'[key] \in Times /\ media'[key] >= f.time
        /\ \A m \in MediaKeys : media'[m] >= media[m]
    BY <2>1, <2>3, <2>4, <2>5
  <2> QED  BY <2>6 DEF key
<1>8. /\ computers' = [computers EXCEPT ![f.computer] = computers'[f.computer]]
      /\ computers'[f.computer] \in Times /\ computers'[f.computer] >= f.time
      /\ \A x \in Computers : computers'[x] >= computers[x]
  <2>1. \A x \in Computers : computers[x] \in Nat /\ computers[x] <= MaxTime
    BY BoundsAssumption DEF Inv, TypeOK, Times, None
  <2>2. Latest(computers[f.computer], f.time) \in Times
    BY <1>0, <2>1 DEF Latest, Times
  <2>3. /\ Latest(computers[f.computer], f.time) >= f.time
        /\ Latest(computers[f.computer], f.time) >= computers[f.computer]
    BY <1>0, <2>1 DEF Latest, Times
  <2>4. /\ computers'[f.computer] = Latest(computers[f.computer], f.time)
        /\ \A x \in Computers \ {f.computer} : computers'[x] = computers[x]
        /\ computers' = [computers EXCEPT ![f.computer] = computers'[f.computer]]
    BY <1>0 DEF EnsureComputer, Inv, TypeOK
  <2> QED  BY <2>1, <2>2, <2>3, <2>4
<1>9. known' = known \union {d}
  BY <1>0, <1>6 DEF known, Inv, TypeOK, Times, None
<1>10. TypeOK'
  <2>1. facts' \in [EventIds -> Facts \union {NoFacts}]
    BY DEF Inv, TypeOK
  <2>2. device' \in [EventIds -> DeviceIds \union {None}]
    BY <1>0 DEF Linked, Inv, TypeOK
  <2>3. decision'[e] \in Decision
    BY <1>0, <1>4 DEF Decision
  <2>4. decision' \in [EventIds -> Decision \union {NoDecision}]
    BY <1>4, <2>3 DEF Inv, TypeOK
  <2>5. /\ devices' \in [DeviceIds -> Times \union {None}]
        /\ media' \in [MediaKeys -> Times \union {None}]
        /\ computers' \in [Computers -> Times \union {None}]
    BY <1>0, <1>6, <1>7, <1>8 DEF Inv, TypeOK
  <2>6. agentAt' \in [Agents -> Computers \union {NoComputer}]
    BY <1>0 DEF Locate, Inv, TypeOK
  <2>7. nextId' \in 0 .. MaxDevices
    BY <1>0, BoundsAssumption DEF Linked, Inv, TypeOK, DeviceIds
  <2> QED  BY <2>1, <2>2, <2>4, <2>5, <2>6, <2>7 DEF TypeOK
<1>11. IdsDrawn'
  <2>1. nextId' >= nextId /\ d \in 1 .. nextId'
    BY <1>0, <1>10 DEF Linked, Inv, TypeOK, IdsDrawn, DeviceIds
  <2> QED
    BY <1>1, <1>2, <1>3, <1>10, <2>1 DEF Inv, TypeOK, IdsDrawn
<1>12. NeverMerged'
  BY <1>1, <1>2, <1>3, <1>5 DEF Inv, NeverMerged, Like
<1>13. OneDevicePerHardware'
  BY <1>1, <1>2, <1>3, <1>5 DEF Inv, OneDevicePerHardware, Like
<1>14. NoDanglingReference'
  <2>1. \A x \in EventIds : decision'[x] # NoDecision <=> x \in stored'
    <3>1. decision'[e] # NoDecision
      BY <1>0, <1>4, DecisionsAreMade DEF Decision
    <3>2. \A x \in EventIds \ {e} : decision'[x] = decision[x]
      BY <1>4 DEF Inv, TypeOK
    <3> QED  BY <1>1, <3>1, <3>2 DEF Inv, NoDanglingReference
  <2>2. /\ device'[e] \in known'
        /\ media'[MediaOf(e)'] # None
        /\ computers'[facts'[e].computer] # None
        /\ decision'[e].assigned = device'[e]
    BY <1>2, <1>4, <1>7, <1>8, <1>9 DEF Times, None
  <2>3. decision'[e].candidate \in known' \union {None}
    BY <1>4, <1>9, StoredIsTyped
  <2>4. ASSUME NEW q \in stored
        PROVE  /\ device'[q] \in known'
               /\ media'[MediaOf(q)'] # None
               /\ computers'[facts'[q].computer] # None
               /\ decision'[q].assigned = device'[q]
               /\ decision'[q].candidate \in known' \union {None}
    <3>1. /\ media[MediaOf(q)] # None /\ computers[facts[q].computer] # None
          /\ device[q] \in known /\ decision[q].assigned = device[q]
          /\ decision[q].candidate \in known \union {None}
      BY DEF Inv, NoDanglingReference
    <3>2. MediaOf(q) \in MediaKeys /\ facts[q].computer \in Computers
      BY StoredIsTyped DEF Facts
    <3>3. /\ media[MediaOf(q)] \in Nat /\ computers[facts[q].computer] \in Nat
      BY <3>2 DEF Inv, TypeOK, Times, None
    <3>4. /\ media'[MediaOf(q)] \in Nat /\ computers'[facts[q].computer] \in Nat
      BY <1>10, <3>2 DEF TypeOK, Times, None
    <3>5. media'[MediaOf(q)] # None /\ computers'[facts[q].computer] # None
      BY <1>7, <1>8, <3>1, <3>2, <3>3, <3>4 DEF None
    <3> QED  BY <1>3, <1>9, <3>1, <3>5
  <2>5. \A m \in MediaKeys : media'[m] # None => m[1] \in known'
    BY <1>0, <1>7, <1>9 DEF Inv, TypeOK, NoDanglingReference
  <2>6. \A a \in Agents : agentAt'[a] # NoComputer => computers'[agentAt'[a]] # None
    <3> SUFFICES ASSUME NEW a \in Agents, agentAt'[a] # NoComputer
                 PROVE  computers'[agentAt'[a]] # None
      OBVIOUS
    <3>1. CASE agentAt'[a] = f.computer
      BY <1>8, <3>1 DEF Times, None
    <3>2. CASE agentAt'[a] = agentAt[a]
      <4>1. agentAt[a] \in Computers /\ computers[agentAt[a]] # None
        BY <3>2 DEF Inv, TypeOK, NoDanglingReference
      <4>2. computers[agentAt[a]] \in Nat /\ computers'[agentAt[a]] \in Nat
        BY <1>10, <4>1 DEF Inv, TypeOK, Times, None
      <4> QED  BY <1>8, <3>2, <4>1, <4>2 DEF None
    <3> QED  BY <3>1, <3>2 DEF Locate, Inv, TypeOK
  <2> QED
    BY <1>1, <2>1, <2>2, <2>3, <2>4, <2>5, <2>6 DEF NoDanglingReference
<1>15. NoOrphan'
  <2>1. \A x \in known' : \E q \in stored' : device'[q] = x
    BY <1>1, <1>2, <1>3, <1>9 DEF Inv, NoOrphan
  <2>2. \A m \in MediaKeys : media'[m] # None => \E q \in stored' : MediaOf(q)' = m
    <3> SUFFICES ASSUME NEW m \in MediaKeys, media'[m] # None
                 PROVE  \E q \in stored' : MediaOf(q)' = m
      OBVIOUS
    <3>1. CASE m = <<d, f.software>>
      BY <1>1, <1>2, <3>1
    <3>2. CASE m # <<d, f.software>>
      <4>1. media[m] # None
        BY <1>7, <3>2 DEF Inv, TypeOK
      <4>2. PICK q \in stored : MediaOf(q) = m
        BY <4>1 DEF Inv, NoOrphan
      <4> QED  BY <1>1, <1>3, <4>2
    <3> QED  BY <3>1, <3>2
  <2> QED  BY <2>1, <2>2 DEF NoOrphan
<1>16. DecisionsMatchLinks'
  <2>1. decision'[e].auto =>
          decision'[e].result = "SAME" /\ decision'[e].candidate = device'[e]
    <3> DEFINE rec(a) == [result |-> r, auto |-> a, candidate |-> c, assigned |-> d]
    <3>0. \A a : rec(a).auto = a /\ rec(a).result = r /\ rec(a).candidate = c
      OBVIOUS
    <3>1. decision'[e] = rec(r = "SAME")
      BY <1>4, Zenon
    <3>3. /\ decision'[e].auto = (r = "SAME") /\ decision'[e].result = r
          /\ decision'[e].candidate = c
      <4> HIDE DEF rec
      <4> QED  BY <3>0, <3>1, Zenon
    <3>2. r = "SAME" => c = d
      BY <1>4
    <3> QED  BY <1>2, <3>2, <3>3, Zenon
  <2>2. decision'[e].result \in {"SERIAL_COLLISION", "CLONE_SUSPECTED", "LIKELY_SAME"}
          => decision'[e].candidate # device'[e]
    BY <1>2, <1>4, <1>5, VerdictLike
  <2> QED  BY <1>1, <1>3, <2>1, <2>2 DEF Inv, DecisionsMatchLinks
<1>17. LastSeenCovers'
  <2>1. ASSUME NEW q \in stored
        PROVE  /\ devices'[device'[q]] >= facts'[q].time
               /\ media'[MediaOf(q)'] >= facts'[q].time
               /\ computers'[facts'[q].computer] >= facts'[q].time
    <3>1. /\ MediaOf(q) \in MediaKeys /\ facts[q].computer \in Computers
          /\ device[q] \in DeviceIds /\ facts[q].time \in Times
      BY StoredIsTyped DEF Facts
    <3>2. /\ devices[device[q]] >= facts[q].time
          /\ media[MediaOf(q)] >= facts[q].time
          /\ computers[facts[q].computer] >= facts[q].time
      BY DEF Inv, LastSeenCovers
    <3>3. /\ devices[device[q]] \in Int /\ media[MediaOf(q)] \in Int
          /\ computers[facts[q].computer] \in Int
      BY <3>1 DEF Inv, TypeOK, Times, None
    <3>4. /\ devices'[device[q]] \in Int /\ media'[MediaOf(q)] \in Int
          /\ computers'[facts[q].computer] \in Int
      BY <1>10, <3>1 DEF TypeOK, Times, None
    <3>5. facts[q].time \in Int
      BY <3>1 DEF Times
    <3> QED  BY <1>3, <1>6, <1>7, <1>8, <3>1, <3>2, <3>3, <3>4, <3>5
  <2> QED  BY <1>1, <1>2, <1>6, <1>7, <1>8, <2>1 DEF LastSeenCovers
<1> QED
  BY <1>10, <1>11, <1>12, <1>13, <1>14, <1>15, <1>16, <1>17 DEF Inv

----------------------------------------------------------------------------
(* Heartbeats and deletions *)

\* A heartbeat only moves the agent and makes its computer newer.
LEMMA HeartbeatInv ==
    ASSUME Inv, NEW a \in Agents, AgentHeartbeat(a)
    PROVE  Inv'
<1>1. PICK c \in Computers :
        /\ EnsureComputer(c, MaxTime)
        /\ agentAt' = [agentAt EXCEPT ![a] = c]
  BY DEF AgentHeartbeat
<1>2. /\ UNCHANGED <<facts, device, decision, devices, media, nextId>>
      /\ UNCHANGED <<stored, known>> /\ \A e : MediaOf(e)' = MediaOf(e)
  BY DEF AgentHeartbeat, stored, known, MediaOf
<1>3. \A x \in Computers : computers[x] \in Nat /\ computers[x] <= MaxTime
  BY BoundsAssumption DEF Inv, TypeOK, Times, None
<1>4. computers' = [computers EXCEPT ![c] = MaxTime]
  <2>1. Latest(computers[c], MaxTime) = MaxTime
    BY <1>3, BoundsAssumption DEF Latest
  <2> QED  BY <1>1, <2>1 DEF EnsureComputer
<1>5. TypeOK'
  <2>1. MaxTime \in Times \union {None}
    BY BoundsAssumption DEF Times, None
  <2> QED  BY <1>1, <1>2, <1>4, <2>1 DEF Inv, TypeOK
<1>6. \A x \in Computers :
        computers'[x] >= computers[x] /\ (computers[x] # None => computers'[x] # None)
  BY <1>3, <1>4, BoundsAssumption DEF Inv, TypeOK, None
<1>7. IdsDrawn' /\ NeverMerged' /\ OneDevicePerHardware' /\ NoOrphan'
         /\ DecisionsMatchLinks'
  BY <1>2 DEF Inv, IdsDrawn, NeverMerged, OneDevicePerHardware, NoOrphan,
              DecisionsMatchLinks
<1>8. NoDanglingReference'
  <2>1. \A b \in Agents : agentAt'[b] # NoComputer => computers'[agentAt'[b]] # None
    <3> SUFFICES ASSUME NEW b \in Agents, agentAt'[b] # NoComputer
                 PROVE  computers'[agentAt'[b]] # None
      OBVIOUS
    <3>1. CASE b = a
      <4>1. agentAt'[b] = c /\ computers'[c] = MaxTime
        BY <1>1, <1>4, <3>1 DEF Inv, TypeOK
      <4>2. MaxTime # None
        BY BoundsAssumption DEF None
      <4> QED  BY <4>1, <4>2
    <3>2. CASE b # a
      BY <1>1, <1>6, <3>2 DEF Inv, TypeOK, NoDanglingReference
    <3> QED  BY <3>1, <3>2
  <2> QED
    BY <1>2, <1>6, <2>1, StoredIsTyped DEF Inv, NoDanglingReference, Facts
<1>9. LastSeenCovers'
  <2>1. ASSUME NEW e \in stored
        PROVE  computers'[facts[e].computer] >= facts[e].time
    <3>1. facts[e].computer \in Computers /\ facts[e].time \in Times
      BY StoredIsTyped DEF Facts
    <3>2. computers[facts[e].computer] >= facts[e].time
      BY DEF Inv, LastSeenCovers
    <3>3. /\ computers[facts[e].computer] \in Int /\ facts[e].time \in Int
          /\ computers'[facts[e].computer] \in Int
      BY <1>5, <3>1 DEF Inv, TypeOK, Times, None
    <3> QED  BY <1>6, <3>1, <3>2, <3>3
  <2> QED  BY <1>2, <2>1 DEF Inv, LastSeenCovers
<1> QED  BY <1>5, <1>7, <1>8, <1>9 DEF Inv

\* What every deletion has to respect: observations that stay keep a device
\* and a computer, and a device that stays keeps an observation.
LEMMA DeleteRowsInv ==
    ASSUME Inv, NEW gone \in SUBSET stored, NEW dead \in SUBSET DeviceIds,
           DeleteRows(gone, dead), UNCHANGED nextId,
           \A e \in stored \ gone : device[e] \notin dead,
           \A d \in known \ dead : \E e \in stored \ gone : device[e] = d,
           computers' \in [Computers -> Times \union {None}],
           agentAt' \in [Agents -> Computers \union {NoComputer}],
           \A e \in stored \ gone :
               computers'[facts[e].computer] = computers[facts[e].computer],
           \A a \in Agents : agentAt'[a] # NoComputer => computers'[agentAt'[a]] # None
    PROVE  Inv'
<1> DEFINE left == stored \ gone
           orphans == {MediaOf(e) : e \in gone} \ {MediaOf(e) : e \in left}
<1>1. /\ facts' = [e \in EventIds |-> IF e \in gone THEN NoFacts ELSE facts[e]]
      /\ device' = [e \in EventIds |-> IF e \in gone THEN None ELSE device[e]]
      /\ decision' = [e \in EventIds |->
           IF e \notin left THEN NoDecision
           ELSE IF decision[e].candidate \in dead
                THEN [decision[e] EXCEPT !.candidate = None]
                ELSE decision[e]]
      /\ devices' = [d \in DeviceIds |-> IF d \in dead THEN None ELSE devices[d]]
      /\ media' = [m \in MediaKeys |->
           IF m \in orphans \/ m[1] \in dead THEN None ELSE media[m]]
  BY DEF DeleteRows
<1>2. stored' = left
  BY <1>1 DEF stored, Inv, TypeOK
<1>3. known' = known \ dead
  BY <1>1 DEF known, Inv, TypeOK
<1>4. ASSUME NEW e \in left
      PROVE  /\ e \in EventIds /\ facts'[e] = facts[e] /\ device'[e] = device[e]
             /\ MediaOf(e)' = MediaOf(e) /\ facts[e] \in Facts
             /\ device[e] \in known /\ device[e] \in DeviceIds
             /\ MediaOf(e) \in MediaKeys
  BY <1>1, StoredIsTyped DEF MediaOf
<1>5. ASSUME NEW e \in left
      PROVE  /\ devices'[device[e]] = devices[device[e]]
             /\ media'[MediaOf(e)] = media[MediaOf(e)]
  <2>1. MediaOf(e) \notin orphans
    OBVIOUS
  <2>2. MediaOf(e)[1] \notin dead
    BY DEF MediaOf
  <2> HIDE DEF orphans
  <2> QED  BY <1>1, <1>4, <2>1, <2>2
<1>6. ASSUME NEW e \in left
      PROVE  /\ decision[e] \in Decision /\ decision'[e] \in Decision
             /\ decision'[e].result = decision[e].result
             /\ decision'[e].auto = decision[e].auto
             /\ decision'[e].assigned = decision[e].assigned
             /\ \/ decision'[e].candidate = decision[e].candidate
                   /\ decision[e].candidate \notin dead
                \/ decision'[e].candidate = None /\ decision[e].candidate \in dead
  <2>1. decision[e] \in Decision
    BY DEF Inv, TypeOK, NoDanglingReference, stored
  <2>2. CASE decision[e].candidate \in dead
    <3>1. decision'[e] = [decision[e] EXCEPT !.candidate = None]
      BY <1>1, <1>4, <2>2
    <3> QED  BY <2>1, <2>2, <3>1 DEF Decision
  <2>3. CASE decision[e].candidate \notin dead
    <3>1. decision'[e] = decision[e]
      BY <1>1, <1>4, <2>3
    <3> QED  BY <2>1, <2>3, <3>1
  <2> QED  BY <2>2, <2>3
<1>7. \A e \in EventIds \ left : decision'[e] = NoDecision
  BY <1>1
<1> HIDE DEF left, orphans
<1>8. TypeOK'
  <2>1. facts' \in [EventIds -> Facts \union {NoFacts}]
    BY <1>1 DEF Inv, TypeOK
  <2>2. device' \in [EventIds -> DeviceIds \union {None}]
    BY <1>1 DEF Inv, TypeOK
  <2>3. decision' \in [EventIds -> Decision \union {NoDecision}]
    <3>1. \A e \in EventIds : decision'[e] \in Decision \union {NoDecision}
      BY <1>6, <1>7
    <3>2. decision' = [e \in EventIds |-> decision'[e]]
      BY <1>1
    <3> QED  BY <3>1, <3>2
  <2>4. devices' \in [DeviceIds -> Times \union {None}]
    BY <1>1 DEF Inv, TypeOK
  <2>5. media' \in [MediaKeys -> Times \union {None}]
    BY <1>1 DEF Inv, TypeOK
  <2>6. nextId' \in 0 .. MaxDevices
    BY DEF Inv, TypeOK
  <2> QED  BY <2>1, <2>2, <2>3, <2>4, <2>5, <2>6 DEF TypeOK
<1>9. left \subseteq stored
  BY DEF left
<1>10. IdsDrawn' /\ NeverMerged' /\ OneDevicePerHardware'
  BY <1>2, <1>4, <1>9 DEF Inv, IdsDrawn, NeverMerged, OneDevicePerHardware
<1>11. NoDanglingReference'
  <2>1. \A e \in EventIds : decision'[e] # NoDecision <=> e \in left
    BY <1>6, <1>7, DecisionsAreMade
  <2>2. ASSUME NEW e \in left
        PROVE  /\ device'[e] \in known'
               /\ media'[MediaOf(e)'] # None
               /\ computers'[facts'[e].computer] # None
               /\ decision'[e].assigned = device'[e]
               /\ decision'[e].candidate \in known' \union {None}
    <3>1. e \in stored \ gone
      BY DEF left
    <3>2. /\ device[e] \in known /\ media[MediaOf(e)] # None
          /\ computers[facts[e].computer] # None
          /\ decision[e].assigned = device[e]
          /\ decision[e].candidate \in known \union {None}
      BY <3>1 DEF Inv, NoDanglingReference
    <3> QED  BY <1>3, <1>4, <1>5, <1>6, <3>1, <3>2
  <2>3. \A m \in MediaKeys : media'[m] # None => m[1] \in known'
    BY <1>1, <1>3 DEF Inv, NoDanglingReference
  <2> QED  BY <1>2, <2>1, <2>2, <2>3 DEF NoDanglingReference
<1>12. NoOrphan'
  <2>1. \A d \in known' : \E e \in left : device'[e] = d
    BY <1>3, <1>4 DEF left
  <2>2. ASSUME NEW m \in MediaKeys, media'[m] # None
        PROVE  \E e \in left : MediaOf(e) = m
    <3>1. m \notin orphans /\ media[m] # None
      BY <1>1, <2>2
    <3>2. PICK e \in stored : MediaOf(e) = m
      BY <3>1 DEF Inv, NoOrphan
    <3>3. CASE e \in gone
      BY <3>1, <3>2, <3>3 DEF orphans
    <3>4. CASE e \notin gone
      BY <3>2, <3>4 DEF left
    <3> QED  BY <3>3, <3>4
  <2> QED  BY <1>2, <1>4, <2>1, <2>2 DEF NoOrphan
<1>13. DecisionsMatchLinks'
  <2>1. ASSUME NEW e \in left
        PROVE  /\ decision'[e].auto =>
                    decision'[e].result = "SAME" /\ decision'[e].candidate = device'[e]
               /\ decision'[e].result \in {"SERIAL_COLLISION", "CLONE_SUSPECTED",
                                           "LIKELY_SAME"}
                    => decision'[e].candidate # device'[e]
    <3>1. e \in stored /\ device[e] \notin dead
      BY DEF left
    <3>2. /\ decision[e].auto =>
               decision[e].result = "SAME" /\ decision[e].candidate = device[e]
          /\ decision[e].result \in {"SERIAL_COLLISION", "CLONE_SUSPECTED",
                                     "LIKELY_SAME"}
               => decision[e].candidate # device[e]
      BY <3>1 DEF Inv, DecisionsMatchLinks
    <3>3. device[e] # None
      BY <1>4 DEF DeviceIds, None
    <3> QED  BY <1>4, <1>6, <3>1, <3>2, <3>3
  <2> QED  BY <1>2, <2>1 DEF DecisionsMatchLinks
<1>14. LastSeenCovers'
  BY <1>2, <1>4, <1>5, <1>9 DEF Inv, LastSeenCovers, left
<1> QED
  BY <1>8, <1>10, <1>11, <1>12, <1>13, <1>14 DEF Inv

\* A device that loses its last observation is pruned, and no other.
LEMMA PrunedIsExact ==
    ASSUME Inv, NEW gone \in SUBSET stored
    PROVE  /\ Pruned(gone) \in SUBSET DeviceIds
           /\ \A e \in stored \ gone : device[e] \notin Pruned(gone)
           /\ \A d \in known \ Pruned(gone) : \E e \in stored \ gone : device[e] = d
<1>1. Pruned(gone) \in SUBSET DeviceIds
  BY DEF Pruned, known
<1>2. \A d \in known : \E e \in stored : device[e] = d
  BY DEF Inv, NoOrphan
<1> QED  BY <1>1, <1>2 DEF Pruned

LEMMA DeleteObservationInv ==
    ASSUME Inv, NEW e \in EventIds, DeleteObservation(e)
    PROVE  Inv'
<1>1. /\ {e} \in SUBSET stored /\ DeleteRows({e}, Pruned({e}))
      /\ UNCHANGED <<computers, agentAt, nextId>>
  BY DEF DeleteObservation
<1>2. /\ computers \in [Computers -> Times \union {None}]
      /\ agentAt \in [Agents -> Computers \union {NoComputer}]
      /\ \A a \in Agents : agentAt[a] # NoComputer => computers[agentAt[a]] # None
  BY DEF Inv, TypeOK, NoDanglingReference
<1> DEFINE gone == {e}
<1>3. gone \in SUBSET stored /\ DeleteRows(gone, Pruned(gone))
  BY <1>1
<1> HIDE DEF gone
<1> QED  BY <1>1, <1>2, <1>3, PrunedIsExact, DeleteRowsInv

LEMMA DeleteDeviceInv ==
    ASSUME Inv, NEW d \in DeviceIds, DeleteDevice(d)
    PROVE  Inv'
<1> DEFINE gone == {e \in stored : device[e] = d}
<1>1. /\ DeleteRows(gone, {d}) /\ UNCHANGED <<computers, agentAt, nextId>>
      /\ gone \in SUBSET stored /\ {d} \in SUBSET DeviceIds
  BY DEF DeleteDevice
<1>2. /\ computers \in [Computers -> Times \union {None}]
      /\ agentAt \in [Agents -> Computers \union {NoComputer}]
      /\ \A a \in Agents : agentAt[a] # NoComputer => computers[agentAt[a]] # None
  BY DEF Inv, TypeOK, NoDanglingReference
<1>3. /\ \A e \in stored \ gone : device[e] \notin {d}
      /\ \A x \in known \ {d} : \E e \in stored \ gone : device[e] = x
  BY DEF Inv, NoOrphan
<1> HIDE DEF gone
<1> QED  BY <1>1, <1>2, <1>3, DeleteRowsInv

LEMMA DeleteComputerInv ==
    ASSUME Inv, NEW c \in Computers, DeleteComputer(c)
    PROVE  Inv'
<1> DEFINE gone == {e \in stored : facts[e].computer = c}
<1>1. /\ DeleteRows(gone, Pruned(gone)) /\ UNCHANGED nextId
      /\ gone \in SUBSET stored
      /\ computers' = [computers EXCEPT ![c] = None]
      /\ agentAt' = [a \in Agents |->
                       IF agentAt[a] = c THEN NoComputer ELSE agentAt[a]]
  BY DEF DeleteComputer
<1>2. /\ computers' \in [Computers -> Times \union {None}]
      /\ agentAt' \in [Agents -> Computers \union {NoComputer}]
  BY <1>1 DEF Inv, TypeOK
<1>3. \A e \in stored \ gone :
        computers'[facts[e].computer] = computers[facts[e].computer]
  BY <1>1, StoredIsTyped DEF Inv, TypeOK, Facts
<1>4. \A a \in Agents : agentAt'[a] # NoComputer => computers'[agentAt'[a]] # None
  BY <1>1 DEF Inv, TypeOK, NoDanglingReference
<1> HIDE DEF gone
<1> QED  BY <1>1, <1>2, <1>3, <1>4, PrunedIsExact, DeleteRowsInv

----------------------------------------------------------------------------

LEMMA StepInv == ASSUME Inv, [Next]_vars PROVE Inv'
<1>1. ASSUME NEW e \in EventIds, IngestObservation(e)
      PROVE  Inv'
  <2>1. PICK f \in Reports :
          /\ facts' = [facts EXCEPT ![e] = f]
          /\ EnsureComputer(f.computer, f.time)
          /\ Locate(f.computer)
          /\ ResolveIdentity(e, f)
    BY <1>1 DEF IngestObservation
  <2>2. f \in Facts
    BY BoundsAssumption
  <2>3. PICK d : /\ Linked(e, f, d) /\ Decided(e, f, d)
                 /\ media' = [media EXCEPT ![<<d, f.software>>] = Latest(@, f.time)]
    BY <2>1, <2>2, ResolveLinks
  <2>4. Ingested(e, f, d)
    BY <2>1, <2>3 DEF Ingested
  <2> QED  BY <1>1, <2>2, <2>4, IngestInv DEF IngestObservation
<1>2. CASE UNCHANGED vars
  <2>1. /\ UNCHANGED <<stored, known>> /\ \A e : MediaOf(e)' = MediaOf(e)
    BY <1>2 DEF vars, stored, known, MediaOf
  <2> QED
    BY <1>2, <2>1
    DEF vars, Inv, TypeOK, IdsDrawn, NeverMerged, OneDevicePerHardware,
        NoDanglingReference, NoOrphan, DecisionsMatchLinks, LastSeenCovers
<1> QED
  BY <1>1, <1>2, HeartbeatInv, DeleteObservationInv, DeleteDeviceInv,
     DeleteComputerInv DEF Next

\* The invariant, which every property below is a part of.
THEOREM Invariance == Spec => []Inv
  BY InitInv, StepInv, PTL DEF Spec

\* Every variable keeps its type.
THEOREM TypeCorrect == Spec => []TypeOK
<1>1. Inv => TypeOK
  BY DEF Inv
<1> QED  BY <1>1, Invariance, PTL

\* Linking is conservative: one device, one computer, one hardware hash
\* (README.md:69-77 of the server, identity.py:193-212).
THEOREM Conservative == Spec => []NeverMerged
<1>1. Inv => NeverMerged
  BY DEF Inv
<1> QED  BY <1>1, Invariance, PTL

\* One provisional device per computer and hardware hash, whatever the
\* lookback (identity.py:181-212).
THEOREM NoSplit == Spec => []OneDevicePerHardware
<1>1. Inv => OneDevicePerHardware
  BY DEF Inv
<1> QED  BY <1>1, Invariance, PTL

\* No deletion leaves a row that refers to a deleted one: observations,
\* decisions, media states and agents (main.py:184-261, 552-615).
THEOREM DeletionsComplete == Spec => []NoDanglingReference
<1>1. Inv => NoDanglingReference
  BY DEF Inv
<1> QED  BY <1>1, Invariance, PTL

\* No deletion leaves a device or a media state without an observation: what
\* prune_device and its callers remove is all that nothing refers to any more
\* (main.py:184-261, 552-615).
THEOREM NothingOrphaned == Spec => []NoOrphan
<1>1. Inv => NoOrphan
  BY DEF Inv
<1> QED  BY <1>1, Invariance, PTL

\* A decision that suspects a clone or a collision never assigns the device
\* it compared with, and one that links automatically does (identity.py:215-314).
THEOREM DecisionsSound == Spec => []DecisionsMatchLinks
<1>1. Inv => DecisionsMatchLinks
  BY DEF Inv
<1> QED  BY <1>1, Invariance, PTL

\* last_seen_at is never earlier than an observation still stored, whatever
\* the order of arrival (identity.py:38-50, 134-162).
THEOREM SeenLast == Spec => []LastSeenCovers
<1>1. Inv => LastSeenCovers
  BY DEF Inv
<1> QED  BY <1>1, Invariance, PTL

(***************************************************************************)
(* IngestTxn: overlapping ingests never merge devices, split them and lose *)
(* last_seen_at only by an overlap, and leave no dangling reference.       *)
(***************************************************************************)
----------------------------------------------------------------------------
(* The inductive invariant *)

Stamps == Times \union {None}

\* What a thread holds, by where it stands.
Inserted == [pc : {"computer"}, event : EventIds, facts : Facts]
Located == [pc : {"add computer", "candidates"}, event : EventIds, facts : Facts,
            computer : Stamps]
Classified == [pc : {"link", "provision"}, event : EventIds, facts : Facts,
               computer : Stamps, result : Results, candidate : DeviceIds \union {None}]
Placed == [pc : {"media", "add media", "commit"}, event : EventIds, facts : Facts,
           computer : Stamps, result : Results, candidate : DeviceIds \union {None},
           device : DeviceIds \union {None}, at : Stamps, media : Stamps]
Handled == Inserted \union Located \union Classified \union Placed

RowsTyped ==
    /\ facts \in [EventIds -> Facts \union {NoFacts}]
    /\ device \in [EventIds -> DeviceIds \union {None}]
    /\ devices \in [DeviceIds -> Stamps]
    /\ media \in [MediaKeys -> Stamps]
    /\ computers \in [Computers -> Stamps]
    /\ nextId \in Nat
    /\ payload \in [EventIds -> Reports]

ThreadsTyped == thread \in [Threads -> {Idle} \union Handled]

\* A committed device has an observation, and no other device's number.
DevicesUsed ==
    /\ \A e \in stored : device[e] \in known
    /\ \A d \in known : \E e \in stored : device[e] = d
    /\ \A d \in known : d <= nextId

\* Every event is ingested by one thread at a time, and once.
OneIngestEach ==
    \A t \in Threads : Busy(t) =>
        /\ thread[t].event \notin stored
        /\ \A u \in Threads \ {t} : Busy(u) => thread[u].event # thread[t].event

\* The observations of d, if there are any, are like f.
OnlyLike(d, f) == d <= nextId /\ \A q \in stored : device[q] = d => Like(f, facts[q])

\* A thread goes on only with a device whose observations are like its own,
\* whatever is committed and deleted since it read them.
PlacesLike ==
    \A t \in Threads :
        LET r == thread[t]
        IN  /\ r.pc = "link" => r.candidate \in DeviceIds /\ OnlyLike(r.candidate, r.facts)
            /\ r.pc \in {"media", "add media", "commit"} =>
                 IF r.device = None
                 THEN r.pc = "commit" /\ r.at = None /\ r.media = None
                 ELSE OnlyLike(r.device, r.facts)

TInv ==
    /\ RowsTyped
    /\ ThreadsTyped
    /\ DevicesUsed
    /\ NeverMerged
    /\ OneIngestEach
    /\ PlacesLike

Rows == <<facts, device, devices, media, computers, nextId>>

LEMMA StampsAreNat == Stamps \subseteq Nat
  BY BoundsAssumption DEF Stamps, Times, None

LEMMA IdlePc == Idle.pc = "idle"
  BY DEF Idle

LEMMA TInitInv == TInit => TInv
<1> SUFFICES ASSUME TInit PROVE TInv
  OBVIOUS
<1>1. stored = {} /\ known = {}
  BY DEF TInit, Init, stored, known
<1>2. RowsTyped
  <2>1. payload \in [EventIds -> Reports]
    BY IngestTxnAssumption DEF TInit
  <2> QED  BY <2>1 DEF TInit, Init, RowsTyped, Stamps
<1>3. ThreadsTyped
  BY DEF TInit, ThreadsTyped
<1>4. \A t \in Threads : thread[t] = Idle /\ thread[t].pc = "idle"
  BY DEF TInit, Idle
<1>5. DevicesUsed /\ NeverMerged /\ OneIngestEach /\ PlacesLike
  BY <1>1, <1>4 DEF DevicesUsed, NeverMerged, OneIngestEach, PlacesLike, Busy
<1> QED  BY <1>2, <1>3, <1>5 DEF TInv

----------------------------------------------------------------------------
(* The statements before COMMIT *)

\* What a thread may hold next, for the invariant to go on.
Sound(t, r) ==
    \/ r = Idle
    \/ /\ r \in Handled
       /\ r.event \notin stored
       /\ \A u \in Threads \ {t} : Busy(u) => thread[u].event # r.event
       /\ r.pc = "link" => r.candidate \in DeviceIds /\ OnlyLike(r.candidate, r.facts)
       /\ r.pc \in {"media", "add media", "commit"} =>
            IF r.device = None
            THEN r.pc = "commit" /\ r.at = None /\ r.media = None
                 ELSE OnlyLike(r.device, r.facts)

LEMMA StatementInv ==
    ASSUME TInv, NEW t \in Threads, NEW r, To(t, r), Sound(t, r),
           UNCHANGED Rows, UNCHANGED payload
    PROVE  TInv'
<1>1. /\ UNCHANGED <<facts, device, devices, media, computers, nextId>>
      /\ UNCHANGED <<stored, known>>
      /\ \A d, f : OnlyLike(d, f)' <=> OnlyLike(d, f)
  BY DEF Rows, stored, known, OnlyLike
<1>2. /\ thread'[t] = r /\ \A u \in Threads \ {t} : thread'[u] = thread[u]
  BY DEF To, TInv, ThreadsTyped
<1>3. RowsTyped' /\ DevicesUsed' /\ NeverMerged'
  BY <1>1 DEF TInv, RowsTyped, DevicesUsed, NeverMerged
<1>4. ThreadsTyped'
  BY DEF To, Sound, TInv, ThreadsTyped
<1>5. OneIngestEach'
  BY <1>1, <1>2 DEF Sound, TInv, OneIngestEach, Busy
<1>6. PlacesLike'
  <2> SUFFICES ASSUME NEW u \in Threads
               PROVE  /\ thread'[u].pc = "link" =>
                           /\ thread'[u].candidate \in DeviceIds
                           /\ OnlyLike(thread'[u].candidate, thread'[u].facts)
                      /\ thread'[u].pc \in {"media", "add media", "commit"} =>
                           IF thread'[u].device = None
                           THEN /\ thread'[u].pc = "commit" /\ thread'[u].at = None
                                /\ thread'[u].media = None
                           ELSE OnlyLike(thread'[u].device, thread'[u].facts)
    BY <1>1 DEF PlacesLike
  <2>1. CASE u = t
    BY <1>2, <2>1, IdlePc DEF Sound
  <2>2. CASE u # t
    BY <1>2, <2>2 DEF TInv, PlacesLike
  <2> QED  BY <2>1, <2>2
<1> QED  BY <1>3, <1>4, <1>5, <1>6 DEF TInv

LEMMA OnlyInv ==
    ASSUME TInv, NEW t \in Threads, NEW r, Only(t, r), Sound(t, r)
    PROVE  TInv'
<1>1. To(t, r) /\ UNCHANGED <<facts, device, devices, media, computers, nextId>>
         /\ UNCHANGED payload
  BY DEF Only, vars
<1> QED  BY <1>1, StatementInv DEF Rows

\* What a thread that goes on keeps of its request.
LEMMA KeepsRequest ==
    ASSUME TInv, NEW t \in Threads, Busy(t)
    PROVE  /\ thread[t] \in Handled
           /\ thread[t].event \in EventIds /\ thread[t].facts \in Facts
           /\ thread[t].event \notin stored
           /\ \A u \in Threads \ {t} : Busy(u) => thread[u].event # thread[t].event
  BY DEF Busy, TInv, ThreadsTyped, OneIngestEach, Handled, Inserted, Located,
         Classified, Placed

LEMMA InsertInv ==
    ASSUME TInv, NEW t \in Threads, NEW e \in EventIds, InsertEvent(t, e, payload[e])
    PROVE  TInv'
<1> DEFINE r == [pc |-> "computer", event |-> e, facts |-> payload[e]]
<1>1. /\ e \notin stored /\ To(t, r) /\ UNCHANGED payload
      /\ \A u \in Threads : Busy(u) => thread[u].event # e
      /\ UNCHANGED <<facts, device, devices, media, computers, nextId>>
  BY DEF InsertEvent, vars
<1>2. payload[e] \in Facts
  BY BoundsAssumption DEF TInv, RowsTyped
<1>3. r \in Inserted /\ r.pc = "computer" /\ r.event = e
  BY <1>2 DEF Inserted
<1> HIDE DEF r
<1>4. Sound(t, r)
  BY <1>1, <1>3 DEF Sound, Handled
<1> QED  BY <1>1, <1>4, StatementInv DEF Rows

LEMMA ComputerInv ==
    ASSUME TInv, NEW t \in Threads, ReadComputer(t) \/ AddComputer(t)
    PROVE  TInv'
<1> DEFINE r == thread[t]
<1>1. Busy(t) /\ r.pc \in {"computer", "add computer"}
  BY IdlePc DEF ReadComputer, AddComputer, Busy
<1>2. /\ r \in Handled /\ r.event \in EventIds /\ r.facts \in Facts
      /\ r.event \notin stored
      /\ \A u \in Threads \ {t} : Busy(u) => thread[u].event # r.event
  BY <1>1, KeepsRequest
<1>3. CASE ReadComputer(t)
  <2> DEFINE n == [pc |-> IF computers[r.facts.computer] = None THEN "add computer"
                          ELSE "candidates",
                   event |-> r.event, facts |-> r.facts,
                   computer |-> computers[r.facts.computer]]
  <2>1. Only(t, n)
    BY <1>3 DEF ReadComputer
  <2>2. computers[r.facts.computer] \in Stamps
    BY <1>2 DEF TInv, RowsTyped, Facts
  <2>3. n \in Located /\ n.event = r.event /\ n.pc \in {"add computer", "candidates"}
    BY <1>2, <2>2 DEF Located
  <2> HIDE DEF n
  <2>4. Sound(t, n)
    BY <1>2, <2>3 DEF Sound, Handled
  <2> QED  BY <2>1, <2>4, OnlyInv
<1>4. CASE AddComputer(t)
  <2> DEFINE n == [r EXCEPT !.pc = "candidates"]
  <2>1. Only(t, Idle) \/ Only(t, n)
    BY <1>4 DEF AddComputer, Answer500
  <2>2. r \in Located
    BY <1>2, <1>4
    DEF AddComputer, Handled, Inserted, Located, Classified, Placed
  <2>3. n \in Located /\ n.event = r.event /\ n.pc = "candidates"
    BY <2>2 DEF Located
  <2> HIDE DEF n
  <2>4. Sound(t, n) /\ Sound(t, Idle)
    BY <1>2, <2>3 DEF Sound, Handled
  <2> QED  BY <2>1, <2>4, OnlyInv
<1> QED  BY <1>3, <1>4

\* A candidate whose verdict links is like the observation, and so are all
\* the observations of its device.
LEMMA LikeDevice ==
    ASSUME TInv, NEW f, NEW p \in stored, Like(f, facts[p])
    PROVE  device[p] \in DeviceIds /\ device[p] # None /\ OnlyLike(device[p], f)
<1>1. device[p] \in known /\ device[p] \in DeviceIds /\ device[p] <= nextId
  BY DEF TInv, DevicesUsed, known
<1>2. \A q \in stored : device[q] = device[p] => Like(f, facts[q])
  BY DEF TInv, NeverMerged, Like
<1> QED  BY <1>1, <1>2 DEF OnlyLike, DeviceIds, None

LEMMA ClassifyInv ==
    ASSUME TInv, NEW t \in Threads, Classify(t)
    PROVE  TInv'
<1> DEFINE r == thread[t]
           N(result, auto, candidate) ==
             [pc |-> IF auto THEN "link" ELSE "provision",
              event |-> r.event, facts |-> r.facts, computer |-> r.computer,
              result |-> result, candidate |-> candidate]
<1>1. Busy(t) /\ r.pc = "candidates"
  BY IdlePc DEF Classify, Busy
<1>2. /\ r \in Handled /\ r.event \in EventIds /\ r.facts \in Facts
      /\ r.event \notin stored
      /\ \A u \in Threads \ {t} : Busy(u) => thread[u].event # r.event
  BY <1>1, KeepsRequest
<1>3. r.computer \in Stamps
  BY <1>1, <1>2 DEF Handled, Inserted, Located, Classified, Placed
<1>4. ASSUME NEW result \in Results, NEW auto \in BOOLEAN,
             NEW candidate \in DeviceIds \union {None},
             auto => candidate \in DeviceIds /\ OnlyLike(candidate, r.facts),
             Only(t, N(result, auto, candidate))
      PROVE  TInv'
  <2> DEFINE n == N(result, auto, candidate)
  <2>1. n \in Classified /\ n.event = r.event /\ n.facts = r.facts
           /\ n.candidate = candidate /\ n.pc = IF auto THEN "link" ELSE "provision"
    BY <1>2, <1>3, <1>4 DEF Classified
  <2>2. Only(t, n)
    BY <1>4
  <2> HIDE DEF n
  <2>3. Sound(t, n)
    BY <1>2, <1>4, <2>1 DEF Sound, Handled
  <2> QED  BY <2>2, <2>3, OnlyInv
<1>5. PICK chosen \in SUBSET stored :
        \/ Only(t, N("UNKNOWN", FALSE, None))
        \/ \E p \in Candidates(r.facts, chosen) :
             LET v == Verdict(r.facts, facts[p])
             IN  Only(t, N(v, v = "SAME", device[p]))
  BY DEF Classify
<1> HIDE DEF N
<1>6. CASE Only(t, N("UNKNOWN", FALSE, None))
  BY <1>4, <1>6 DEF Results
<1>7. CASE \E p \in Candidates(r.facts, chosen) :
             LET v == Verdict(r.facts, facts[p])
             IN  Only(t, N(v, v = "SAME", device[p]))
  <2>1. PICK p \in Candidates(r.facts, chosen) :
          Only(t, N(Verdict(r.facts, facts[p]), Verdict(r.facts, facts[p]) = "SAME",
                    device[p]))
    BY <1>7
  <2>2. p \in stored
    BY <2>1 DEF Candidates
  <2>3. device[p] \in DeviceIds \union {None}
    BY <2>2 DEF TInv, RowsTyped, stored
  <2>4. Verdict(r.facts, facts[p]) = "SAME"
          => device[p] \in DeviceIds /\ OnlyLike(device[p], r.facts)
    BY <2>2, VerdictLike, LikeDevice
  <2>5. Verdict(r.facts, facts[p]) \in Results
    BY VerdictLike
  <2> QED  BY <1>4, <2>1, <2>3, <2>4, <2>5
<1> QED  BY <1>5, <1>6, <1>7

\* WithDevice leaves a record of a thread that is placed.
LEMMA PlacedInv ==
    ASSUME TInv, NEW t \in Threads, Busy(t), thread[t] \in Classified,
           NEW d \in DeviceIds \union {None}, NEW at \in Stamps,
           IF d = None THEN at = None ELSE OnlyLike(d, thread[t].facts),
           WithDevice(t, d, at)
    PROVE  TInv'
<1> DEFINE r == thread[t]
           n == [pc |-> IF d = None THEN "commit" ELSE "media", event |-> r.event,
                 facts |-> r.facts, computer |-> r.computer, result |-> r.result,
                 candidate |-> r.candidate, device |-> d, at |-> at, media |-> None]
<1>1. Only(t, n)
  BY DEF WithDevice
<1>2. /\ n \in Placed /\ n.event = r.event /\ n.facts = r.facts
      /\ n.device = d /\ n.at = at /\ n.media = None /\ n.pc \in {"media", "commit"}
      /\ d = None => n.pc = "commit"
  BY DEF Placed, Classified, Stamps
<1>3. /\ r.event \notin stored
      /\ \A u \in Threads \ {t} : Busy(u) => thread[u].event # r.event
  BY KeepsRequest
<1>4. IF d = None THEN at = None ELSE OnlyLike(d, r.facts)
  OBVIOUS
<1> HIDE DEF n, r
<1>5. Sound(t, n)
  <2>1. n \in Handled /\ n.pc # "link"
    BY <1>2 DEF Handled
  <2>2. IF n.device = None THEN n.pc = "commit" /\ n.at = None /\ n.media = None
        ELSE OnlyLike(n.device, n.facts)
    <3>1. CASE d = None  BY <1>2, <1>4, <3>1
    <3>2. CASE d # None  BY <1>2, <1>4, <3>2
    <3> QED  BY <3>1, <3>2
  <2> QED  BY <1>2, <1>3, <2>1, <2>2 DEF Sound
<1> QED  BY <1>1, <1>5, OnlyInv

LEMMA DeviceInv ==
    ASSUME TInv, NEW t \in Threads, Link(t) \/ ProvisionDevice(t)
    PROVE  TInv'
<1> DEFINE r == thread[t]
<1>1. Busy(t) /\ r.pc \in {"link", "provision"}
  BY IdlePc DEF Link, ProvisionDevice, Busy
<1>2. r \in Classified /\ r.facts \in Facts
  BY <1>1, KeepsRequest DEF Handled, Inserted, Located, Classified, Placed
<1>3. CASE Link(t)
  <2> DEFINE d == r.candidate
  <2>1. /\ r.pc = "link"
        /\ IF d \in known THEN WithDevice(t, d, devices[d]) ELSE Only(t, Idle)
    BY <1>3 DEF Link, Answer500
  <2>2. d \in DeviceIds /\ OnlyLike(d, r.facts) /\ d # None
    <3>1. d \in DeviceIds /\ OnlyLike(d, r.facts)
      BY <2>1 DEF TInv, PlacesLike
    <3>2. d # None
      BY <3>1, BoundsAssumption DEF DeviceIds, None
    <3> QED  BY <3>1, <3>2
  <2>3. devices[d] \in Stamps
    BY <2>2 DEF TInv, RowsTyped
  <2> HIDE DEF d
  <2>4. Sound(t, Idle)
    BY DEF Sound
  <2> QED  BY <1>1, <1>2, <2>1, <2>2, <2>3, <2>4, PlacedInv, OnlyInv
<1>4. CASE ProvisionDevice(t)
  <2>1. CASE \E p \in Priors(r.facts) : WithDevice(t, device[p], devices[device[p]])
    <3>1. PICK p \in Priors(r.facts) : WithDevice(t, device[p], devices[device[p]])
      BY <2>1
    <3>2. p \in stored /\ Like(r.facts, facts[p])
      BY <3>1 DEF Priors, Like
    <3>3. device[p] \in DeviceIds /\ device[p] # None /\ OnlyLike(device[p], r.facts)
      BY <3>2, LikeDevice
    <3>4. devices[device[p]] \in Stamps
      BY <3>3 DEF TInv, RowsTyped
    <3> QED  BY <1>1, <1>2, <3>1, <3>3, <3>4, PlacedInv
  <2>2. CASE WithDevice(t, None, None)
    BY <1>1, <1>2, <2>2, PlacedInv DEF Stamps
  <2> QED  BY <1>4, <2>1, <2>2 DEF ProvisionDevice
<1> QED  BY <1>3, <1>4

LEMMA MediaInv ==
    ASSUME TInv, NEW t \in Threads, ReadMedia(t) \/ AddMedia(t)
    PROVE  TInv'
<1> DEFINE r == thread[t]
<1>1. Busy(t) /\ r.pc \in {"media", "add media"}
  BY IdlePc DEF ReadMedia, AddMedia, Busy
<1>2. r \in Placed /\ r.event \notin stored
         /\ \A u \in Threads \ {t} : Busy(u) => thread[u].event # r.event
  BY <1>1, KeepsRequest DEF Handled, Inserted, Located, Classified, Placed
<1>3. r.device # None /\ OnlyLike(r.device, r.facts)
  BY <1>1 DEF TInv, PlacesLike
<1>4. ASSUME NEW n \in Placed, n.event = r.event, n.facts = r.facts,
             n.device = r.device, n.at = r.at, Only(t, n),
             n.device # None
      PROVE  TInv'
  <2>1. n.pc # "link"
    BY DEF Placed
  <2>2. Sound(t, n)
    BY <1>2, <1>3, <1>4, <2>1 DEF Sound, Handled
  <2> QED  BY <1>4, <2>2, OnlyInv
<1>5. CASE ReadMedia(t)
  <2> DEFINE at == media[MediaKey(r.device, r)]
             n == [r EXCEPT !.media = at,
                            !.pc = IF at = None THEN "add media" ELSE "commit"]
  <2>1. Only(t, n)
    BY <1>5 DEF ReadMedia
  <2>2. r.device \in DeviceIds
    BY <1>2, <1>3 DEF Placed
  <2>3. at \in Stamps
    BY <1>2, <2>2 DEF TInv, RowsTyped, MediaKey, MediaKeys, Placed, Facts
  <2>4. /\ n \in Placed /\ n.event = r.event /\ n.facts = r.facts
        /\ n.device = r.device /\ n.at = r.at
    BY <1>2, <2>3 DEF Placed
  <2> QED  BY <1>3, <1>4, <2>1, <2>4
<1>6. CASE AddMedia(t)
  <2> DEFINE n == [r EXCEPT !.pc = "commit"]
  <2>1. Only(t, Idle) \/ Only(t, n)
    BY <1>6 DEF AddMedia, Answer500
  <2>2. /\ n \in Placed /\ n.event = r.event /\ n.facts = r.facts
        /\ n.device = r.device /\ n.at = r.at
    BY <1>2 DEF Placed
  <2>3. Sound(t, Idle)
    BY DEF Sound
  <2> QED  BY <1>3, <1>4, <2>1, <2>2, <2>3, OnlyInv
<1> QED  BY <1>5, <1>6

----------------------------------------------------------------------------
(* What the others have read when a step changes the rows *)

\* OnlyLike after the step.
StillLike(d, f) ==
    d <= nextId' /\ \A q \in stored' : device'[q] = d => Like(f, facts'[q])

LEMMA OthersPlaced ==
    ASSUME TInv, \A u \in Threads : thread'[u] = Idle \/ thread'[u] = thread[u],
           \A d \in DeviceIds : \A f : OnlyLike(d, f) => StillLike(d, f)
    PROVE  PlacesLike'
<1> SUFFICES ASSUME NEW u \in Threads
             PROVE  LET r == thread'[u]
                    IN  /\ r.pc = "link" =>
                             r.candidate \in DeviceIds /\ StillLike(r.candidate, r.facts)
                        /\ r.pc \in {"media", "add media", "commit"} =>
                             IF r.device = None
                             THEN r.pc = "commit" /\ r.at = None /\ r.media = None
                             ELSE StillLike(r.device, r.facts)
  BY DEF PlacesLike, OnlyLike, StillLike
<1>1. CASE thread'[u] = Idle
  BY <1>1, IdlePc
<1>2. CASE thread'[u] = thread[u]
  <2> DEFINE r == thread[u]
  <2>1. CASE r.pc = "link"
    BY <1>2, <2>1 DEF TInv, PlacesLike
  <2>2. CASE r.pc \in {"media", "add media", "commit"}
    <3>1. r.device \in DeviceIds \union {None}
      BY <2>2, IdlePc
      DEF TInv, ThreadsTyped, Handled, Inserted, Located, Classified, Placed
    <3>2. IF r.device = None
          THEN r.pc = "commit" /\ r.at = None /\ r.media = None
          ELSE OnlyLike(r.device, r.facts)
      BY <2>2 DEF TInv, PlacesLike
    <3> QED  BY <1>2, <2>2, <3>1, <3>2
  <2> QED  BY <1>2, <2>1, <2>2
<1> QED  BY <1>1, <1>2

----------------------------------------------------------------------------
(* COMMIT *)

\* What a commit stores: e with facts f and device d, which is new, or has
\* observations that are like f.
LEMMA CommitStores ==
    ASSUME TInv, NEW t \in Threads, Commit(t),
           NEW e, e = thread[t].event, NEW f, f = thread[t].facts,
           NEW d, d = Numbered(thread[t].device)
    PROVE  /\ e \in EventIds /\ e \notin stored /\ f \in Facts /\ d \in DeviceIds
           /\ facts' = [facts EXCEPT ![e] = f]
           /\ device' = [device EXCEPT ![e] = d]
           /\ stored' = stored \union {e}
           /\ known' = known \union {d}
           /\ nextId <= nextId' /\ d <= nextId' /\ nextId' \in Nat
           /\ \/ d > nextId
              \/ \E q \in stored : device[q] = d
           /\ \A q \in stored : device[q] = d => Like(f, facts[q])
           /\ RowsTyped'
<1> DEFINE r == thread[t]
<1>1. Busy(t) /\ r.pc = "commit"
  BY IdlePc DEF Commit, Busy
<1>2. r \in Placed /\ r.event \notin stored /\ r.facts \in Facts /\ r.event \in EventIds
  BY <1>1, KeepsRequest DEF Handled, Inserted, Located, Classified, Placed
<1>3. /\ r.device \in DeviceIds \union {None} /\ r.at \in Stamps /\ r.media \in Stamps
      /\ r.computer \in Stamps /\ f.time \in Times /\ f.computer \in Computers
      /\ f.software \in Software \union {NoHash}
  BY <1>2 DEF Placed, Facts
<1>4. /\ r.device \in known \union {None} /\ d \in DeviceIds
      /\ nextId' = IF r.device = None THEN d ELSE nextId
      /\ facts' = [facts EXCEPT ![e] = f]
      /\ device' = [device EXCEPT ![e] = d]
      /\ devices' = [devices EXCEPT ![d] = Written(@, r.at, f.time)]
      /\ media' = [media EXCEPT ![<<d, f.software>>] = Written(@, r.media, f.time)]
      /\ computers' = [computers EXCEPT ![f.computer] = Written(@, r.computer, f.time)]
      /\ payload' = payload
  BY DEF Commit, RowsThere, MediaKey
<1>5. d = IF r.device = None THEN nextId + 1 ELSE r.device
  BY DEF Numbered
<1>6. nextId \in Nat /\ DeviceIds \subseteq Nat
  BY BoundsAssumption DEF TInv, RowsTyped, DeviceIds
<1>7. IF r.device = None THEN r.at = None ELSE OnlyLike(r.device, f)
  BY <1>1 DEF TInv, PlacesLike
<1>8. stored' = stored \union {e}
  <2>1. e \in EventIds /\ f # NoFacts
    BY <1>2, FactsAreStored
  <2>2. \A q \in EventIds : facts'[q] = IF q = e THEN f ELSE facts[q]
    BY <1>4 DEF TInv, RowsTyped
  <2> QED  BY <2>1, <2>2 DEF stored
<1>9. known' = known \union {d}
  <2>1. Written(devices[d], r.at, f.time) # None
    <3>1. f.time > None /\ f.time # None
      BY <1>3, BoundsAssumption DEF Times, None
    <3>2. CASE r.device = None
      BY <1>7, <3>1, <3>2 DEF Written
    <3>3. CASE r.device # None
      <4>1. devices[d] # None
        BY <1>4, <1>5, <3>3 DEF known
      <4> QED  BY <3>1, <4>1 DEF Written
    <3> QED  BY <3>2, <3>3
  <2>2. \A x \in DeviceIds :
          devices'[x] = IF x = d THEN Written(devices[d], r.at, f.time) ELSE devices[x]
    BY <1>4 DEF TInv, RowsTyped
  <2> QED  BY <1>4, <2>1, <2>2 DEF known
<1>10. nextId <= nextId' /\ d <= nextId' /\ nextId' \in Nat
  <2>1. CASE r.device = None
    BY <1>4, <1>5, <1>6, <2>1
  <2>2. CASE r.device # None
    BY <1>4, <1>5, <1>6, <1>7, <2>2 DEF OnlyLike
  <2> QED  BY <2>1, <2>2
<1>11. /\ d > nextId \/ \E q \in stored : device[q] = d
       /\ \A q \in stored : device[q] = d => Like(f, facts[q])
  <2>1. CASE r.device = None
    <3>1. \A q \in stored : device[q] <= nextId /\ device[q] \in DeviceIds
      BY DEF TInv, DevicesUsed, known
    <3>2. d = nextId + 1
      BY <1>5, <2>1
    <3>3. \A q \in stored : device[q] # d
      BY <1>6, <3>1, <3>2
    <3> QED  BY <1>6, <3>2, <3>3
  <2>2. CASE r.device # None
    <3>1. d = r.device /\ d \in known
      BY <1>4, <1>5, <2>2
    <3> QED  BY <1>7, <2>2, <3>1 DEF OnlyLike, TInv, DevicesUsed
  <2> QED  BY <2>1, <2>2
<1>12. RowsTyped'
  <2>1. \A s, x \in Stamps : Written(s, x, f.time) \in Stamps
    BY <1>3 DEF Written, Stamps
  <2>2. devices' \in [DeviceIds -> Stamps]
    BY <1>3, <1>4, <2>1 DEF TInv, RowsTyped
  <2>3. media' \in [MediaKeys -> Stamps]
    BY <1>3, <1>4, <2>1 DEF TInv, RowsTyped, MediaKeys
  <2>4. computers' \in [Computers -> Stamps]
    BY <1>3, <1>4, <2>1 DEF TInv, RowsTyped
  <2>5. facts' \in [EventIds -> Facts \union {NoFacts}]
           /\ device' \in [EventIds -> DeviceIds \union {None}]
           /\ payload' \in [EventIds -> Reports]
    BY <1>2, <1>4 DEF TInv, RowsTyped
  <2> QED  BY <1>10, <2>2, <2>3, <2>4, <2>5 DEF RowsTyped
<1> QED  BY <1>2, <1>4, <1>8, <1>9, <1>10, <1>11, <1>12

LEMMA CommitInv ==
    ASSUME TInv, NEW t \in Threads, Commit(t)
    PROVE  TInv'
<1> DEFINE e == thread[t].event
           f == thread[t].facts
           d == Numbered(thread[t].device)
<1>1. /\ e \in EventIds /\ e \notin stored /\ f \in Facts /\ d \in DeviceIds
      /\ facts' = [facts EXCEPT ![e] = f]
      /\ device' = [device EXCEPT ![e] = d]
      /\ stored' = stored \union {e}
      /\ known' = known \union {d}
      /\ nextId <= nextId' /\ d <= nextId' /\ nextId' \in Nat
      /\ d > nextId \/ \E q \in stored : device[q] = d
      /\ \A q \in stored : device[q] = d => Like(f, facts[q])
      /\ RowsTyped'
  BY CommitStores
<1>2. Busy(t) /\ thread' = [thread EXCEPT ![t] = Idle]
  BY IdlePc DEF Commit, To, Busy
<1>3. /\ thread'[t] = Idle /\ \A u \in Threads \ {t} : thread'[u] = thread[u]
      /\ \A u \in Threads \ {t} : Busy(u) => thread[u].event # e
  BY <1>2, KeepsRequest DEF TInv, ThreadsTyped
<1> HIDE DEF e, f, d
<1>4. /\ facts'[e] = f /\ device'[e] = d
      /\ \A q \in stored : facts'[q] = facts[q] /\ device'[q] = device[q]
  BY <1>1 DEF TInv, RowsTyped, stored
<1>5. nextId \in Nat /\ DeviceIds \subseteq Nat
  BY BoundsAssumption DEF TInv, RowsTyped, DeviceIds
<1>6. ThreadsTyped'
  BY <1>2 DEF TInv, ThreadsTyped
<1>7. DevicesUsed'
  <2>1. \A q \in stored' : device'[q] \in known'
    BY <1>1, <1>4 DEF TInv, DevicesUsed
  <2>2. \A x \in known' : \E q \in stored' : device'[q] = x
    BY <1>1, <1>4 DEF TInv, DevicesUsed
  <2>3. \A x \in known' : x <= nextId'
    <3>1. \A x \in known : x <= nextId /\ x \in Nat
      BY <1>5 DEF TInv, DevicesUsed, known
    <3> QED  BY <1>1, <1>5, <3>1
  <2> QED  BY <2>1, <2>2, <2>3 DEF DevicesUsed
<1>8. NeverMerged'
  <2> SUFFICES ASSUME NEW x \in stored', NEW y \in stored', x # y, device'[x] = device'[y]
               PROVE  /\ facts'[x].computer = facts'[y].computer
                      /\ facts'[x].hardware = facts'[y].hardware
                      /\ facts'[x].hardware # NoHash
    BY DEF NeverMerged
  <2>1. CASE x = e
    BY <1>1, <1>4, <2>1 DEF Like
  <2>2. CASE y = e
    BY <1>1, <1>4, <2>2 DEF Like
  <2>3. CASE x # e /\ y # e
    BY <1>1, <1>4, <2>3 DEF TInv, NeverMerged
  <2> QED  BY <2>1, <2>2, <2>3
<1>9. OneIngestEach'
  BY <1>1, <1>3 DEF TInv, OneIngestEach, Busy
<1>10. ASSUME NEW x \in DeviceIds, NEW g, OnlyLike(x, g) PROVE StillLike(x, g)
  <2>1. x <= nextId'
    BY <1>1, <1>5, <1>10 DEF OnlyLike
  <2>2. \A q \in stored : device'[q] = x => Like(g, facts'[q])
    BY <1>4, <1>10 DEF OnlyLike
  <2>3. ASSUME d = x PROVE Like(g, f)
    <3>1. ~(d > nextId)
      BY <1>5, <1>10, <2>3 DEF OnlyLike
    <3>2. PICK q \in stored : device[q] = d
      BY <1>1, <3>1
    <3> QED  BY <1>1, <1>10, <2>3, <3>2 DEF OnlyLike, Like
  <2> QED  BY <1>1, <1>4, <2>1, <2>2, <2>3 DEF StillLike
<1>11. PlacesLike'
  BY <1>3, <1>5, <1>10, OthersPlaced
<1> QED  BY <1>1, <1>6, <1>7, <1>8, <1>9, <1>11 DEF TInv

----------------------------------------------------------------------------
(* Deletions, and the theorem *)

LEMMA PruneInv ==
    ASSUME TInv, NEW gone \in SUBSET stored, NEW dead \in SUBSET DeviceIds,
           DeleteRows(gone, dead), UNCHANGED <<computers, nextId, payload, thread>>,
           \A q \in stored \ gone : device[q] \notin dead,
           \A d \in known \ dead : \E q \in stored \ gone : device[q] = d
    PROVE  TInv'
<1>1. /\ facts' = [q \in EventIds |-> IF q \in gone THEN NoFacts ELSE facts[q]]
      /\ device' = [q \in EventIds |-> IF q \in gone THEN None ELSE device[q]]
      /\ devices' = [d \in DeviceIds |-> IF d \in dead THEN None ELSE devices[d]]
      /\ UNCHANGED <<computers, nextId, payload, thread>>
  BY DEF DeleteRows
<1>2. stored' = stored \ gone /\ known' = known \ dead
  BY <1>1 DEF stored, known
<1>3. \A q \in stored' : q \in stored /\ facts'[q] = facts[q] /\ device'[q] = device[q]
  BY <1>1, <1>2 DEF stored
<1>4. RowsTyped'
  <2>1. media' \in [MediaKeys -> Stamps]
    BY DEF DeleteRows, TInv, RowsTyped, Stamps
  <2>2. devices' \in [DeviceIds -> Stamps]
    BY <1>1 DEF TInv, RowsTyped, Stamps
  <2> QED  BY <1>1, <2>1, <2>2 DEF TInv, RowsTyped
<1>5. DevicesUsed'
  <2>1. \A q \in stored' : device'[q] \in known'
    BY <1>2, <1>3 DEF TInv, DevicesUsed
  <2>2. \A d \in known' : \E q \in stored' : device'[q] = d
    BY <1>2, <1>3
  <2>3. \A d \in known' : d <= nextId'
    BY <1>1, <1>2 DEF TInv, DevicesUsed
  <2> QED  BY <2>1, <2>2, <2>3 DEF DevicesUsed
<1>6. NeverMerged' /\ ThreadsTyped' /\ OneIngestEach'
  BY <1>1, <1>2, <1>3 DEF TInv, NeverMerged, ThreadsTyped, OneIngestEach, Busy
<1>7. \A d \in DeviceIds : \A f : OnlyLike(d, f) => StillLike(d, f)
  BY <1>1, <1>3 DEF OnlyLike, StillLike
<1>8. PlacesLike'
  BY <1>1, <1>7, OthersPlaced
<1> QED  BY <1>4, <1>5, <1>6, <1>8 DEF TInv

LEMMA DeletionInv == ASSUME TInv, Delete PROVE TInv'
<1>1. UNCHANGED <<payload, thread>>
  BY DEF Delete
<1>2. ASSUME NEW e \in EventIds, DeleteObservation(e) PROVE TInv'
  <2>1. /\ {e} \in SUBSET stored /\ Pruned({e}) \in SUBSET DeviceIds
        /\ DeleteRows({e}, Pruned({e})) /\ UNCHANGED <<computers, nextId>>
    BY <1>2 DEF DeleteObservation, Pruned, known
  <2>2. \A q \in stored \ {e} : device[q] \notin Pruned({e})
    BY DEF Pruned
  <2>3. \A d \in known \ Pruned({e}) : \E q \in stored \ {e} : device[q] = d
    BY DEF Pruned, TInv, DevicesUsed
  <2> QED  BY <1>1, <2>1, <2>2, <2>3, PruneInv
<1>3. ASSUME NEW d \in DeviceIds, DeleteDevice(d) PROVE TInv'
  <2> DEFINE gone == {e \in stored : device[e] = d}
  <2>1. gone \in SUBSET stored /\ DeleteRows(gone, {d}) /\ UNCHANGED <<computers, nextId>>
    BY <1>3 DEF DeleteDevice
  <2>2. \A q \in stored \ gone : device[q] \notin {d}
    OBVIOUS
  <2>3. \A x \in known \ {d} : \E q \in stored \ gone : device[q] = x
    BY DEF TInv, DevicesUsed
  <2> HIDE DEF gone
  <2> QED  BY <1>1, <2>1, <2>2, <2>3, PruneInv
<1> QED  BY <1>2, <1>3 DEF Delete

LEMMA RequestInv ==
    ASSUME TInv, NEW t \in Threads, Request(t) \/ Dies(t)
    PROVE  TInv'
<1>1. CASE CommitFails(t)
  BY <1>1, OnlyInv DEF CommitFails, Answer500, Sound
<1>2. CASE Dies(t)
  <2>1. To(t, Idle) /\ UNCHANGED Rows /\ UNCHANGED payload
    BY <1>2 DEF Dies, vars, Rows
  <2> QED  BY <2>1, StatementInv DEF Sound
<1>3. CASE Request(t) /\ ~CommitFails(t)
  BY <1>3, ComputerInv, ClassifyInv, DeviceInv, MediaInv, CommitInv DEF Request
<1> QED  BY <1>1, <1>2, <1>3

\* A step that only its client learns of: an answer, or none at all.
Quiet == UNCHANGED <<vars, payload, thread, raced>>

LEMMA QuietStep ==
    UNCHANGED tvars \/ (\E e \in EventIds : Duplicate(e)) => Quiet
  BY DEF Quiet, tvars, Duplicate

LEMMA TStepInv == ASSUME TInv, [TNext]_tvars PROVE TInv'
<1>1. CASE \E e \in EventIds : Send(e)
  BY <1>1, InsertInv DEF Send
<1>2. CASE \E t \in Threads : Request(t) \/ Dies(t)
  BY <1>2, RequestInv
<1>3. CASE Delete
  BY <1>3, DeletionInv
<1>4. CASE Quiet
  <2>1. UNCHANGED <<facts, device, devices, media, computers, nextId, payload, thread>>
    BY <1>4 DEF Quiet, vars
  <2>2. UNCHANGED <<stored, known>> /\ \A d, f : OnlyLike(d, f)' <=> OnlyLike(d, f)
    BY <2>1 DEF stored, known, OnlyLike
  <2>3. RowsTyped' /\ ThreadsTyped' /\ DevicesUsed' /\ NeverMerged' /\ OneIngestEach'
    BY <2>1, <2>2
    DEF TInv, RowsTyped, ThreadsTyped, DevicesUsed, NeverMerged, OneIngestEach, Busy
  <2>4. PlacesLike'
    <3>1. \A d \in DeviceIds : \A f : OnlyLike(d, f) => StillLike(d, f)
      BY <2>1, <2>2 DEF OnlyLike, StillLike
    <3> QED  BY <2>1, <3>1, OthersPlaced
  <2> QED  BY <2>3, <2>4 DEF TInv
<1> QED  BY <1>1, <1>2, <1>3, <1>4, QuietStep DEF TNext

\* Observations share a device only if one computer reported them with one
\* hardware hash, whatever requests and deletions overlap: what a request has
\* read goes stale without ever making it merge two devices
\* (identity.py:171-268).
THEOREM NeverMergesConcurrently == TSpec => []NeverMerged
<1>1. TInit => TInv
  BY TInitInv
<1>2. TInv /\ [TNext]_tvars => TInv'
  BY TStepInv
<1>3. TInv => NeverMerged
  BY DEF TInv
<1> QED  BY <1>1, <1>2, <1>3, PTL DEF TSpec

----------------------------------------------------------------------------
(* last_seen_at *)

\* Stored observations whose ingest overlapped no other of their computer.
Alone == {e \in stored : Entry(e, facts[e]) \notin raced}

\* Requests of one computer that overlap are known to.
OverlapsRecorded ==
    \A t, u \in Threads :
        (/\ t # u /\ Busy(t) /\ Busy(u)
         /\ thread[t].facts.computer = thread[u].facts.computer)
            => Entry(thread[t].event, thread[t].facts) \in raced

HasComputer(r) == r.pc \notin {"idle", "computer"}
HasDevice(r) == r.pc \in {"media", "add media", "commit"} /\ r.device # None
HasMedia(r) == r.pc \in {"add media", "commit"} /\ r.device # None

\* What was read is not older than the observations of Alone: those committed
\* since then have overlapped this request.
Covered(r) ==
    \A e \in Alone :
        /\ HasComputer(r) /\ facts[e].computer = r.facts.computer
             => facts[e].time <= r.computer
        /\ HasDevice(r) /\ device[e] = r.device => facts[e].time <= r.at
        /\ HasMedia(r) /\ MediaOf(e) = MediaKey(r.device, r) => facts[e].time <= r.media

\* What a request that overlaps no other of its computer has read is still so,
\* unless it was deleted.
UpToDate(r) ==
    Entry(r.event, r.facts) \notin raced =>
        /\ HasComputer(r) => computers[r.facts.computer] = r.computer
        /\ HasDevice(r) => devices[r.device] \in {r.at, None}
        /\ HasMedia(r) => media[MediaKey(r.device, r)] \in {r.media, None}

RInv ==
    /\ TInv
    /\ OverlapsRecorded
    /\ \A t \in Threads : Busy(t) => Covered(thread[t]) /\ UpToDate(thread[t])
    /\ LastSeenLostOnlyByRace

\* The same after a step.
StillCovered(r) ==
    \A e \in Alone' :
        /\ HasComputer(r) /\ facts'[e].computer = r.facts.computer
             => facts'[e].time <= r.computer
        /\ HasDevice(r) /\ device'[e] = r.device => facts'[e].time <= r.at
        /\ HasMedia(r) /\ <<device'[e], facts'[e].software>> = MediaKey(r.device, r)
             => facts'[e].time <= r.media

StillUpToDate(r) ==
    Entry(r.event, r.facts) \notin raced' =>
        /\ HasComputer(r) => computers'[r.facts.computer] = r.computer
        /\ HasDevice(r) => devices'[r.device] \in {r.at, None}
        /\ HasMedia(r) => media'[MediaKey(r.device, r)] \in {r.media, None}

\* A step that takes one thread to r and keeps what the others have read.
LEMMA ReadsStep ==
    ASSUME RInv, TInv', NEW t \in Threads, NEW r, To(t, r), raced \subseteq raced',
           \A u \in Threads \ {t} : Busy(u) =>
               StillCovered(thread[u]) /\ StillUpToDate(thread[u]),
           r # Idle =>
               /\ StillCovered(r) /\ StillUpToDate(r)
               /\ \A u \in Threads \ {t} :
                    Busy(u) /\ thread[u].facts.computer = r.facts.computer =>
                        /\ Entry(r.event, r.facts) \in raced'
                        /\ Entry(thread[u].event, thread[u].facts) \in raced',
           LastSeenLostOnlyByRace'
    PROVE  RInv'
<1>1. thread'[t] = r /\ \A u \in Threads \ {t} : thread'[u] = thread[u]
  BY DEF To, RInv, TInv, ThreadsTyped
<1>2. OverlapsRecorded'
  <2> SUFFICES ASSUME NEW x \in Threads, NEW y \in Threads, x # y,
                      thread'[x] # Idle, thread'[y] # Idle,
                      thread'[x].facts.computer = thread'[y].facts.computer
               PROVE  Entry(thread'[x].event, thread'[x].facts) \in raced'
    BY DEF OverlapsRecorded, Busy, Entry
  <2>1. CASE x = t
    BY <1>1, <2>1 DEF Busy
  <2>2. CASE y = t
    BY <1>1, <2>2 DEF Busy
  <2>3. CASE x # t /\ y # t
    BY <1>1, <2>3 DEF Busy, RInv, OverlapsRecorded
  <2> QED  BY <2>1, <2>2, <2>3
<1>3. \A u \in Threads : thread'[u] # Idle =>
        StillCovered(thread'[u]) /\ StillUpToDate(thread'[u])
  BY <1>1 DEF Busy
<1>4. \A u \in Threads : Busy(u)' => Covered(thread[u])' /\ UpToDate(thread[u])'
  BY <1>3
  DEF Busy, Covered, UpToDate, StillCovered, StillUpToDate, HasComputer, HasDevice,
      HasMedia, MediaOf, MediaKey, Entry
<1> QED  BY <1>2, <1>4 DEF RInv

LEMMA StillReads ==
    ASSUME UNCHANGED Rows, raced \subseteq raced', NEW r, Covered(r), UpToDate(r)
    PROVE  StillCovered(r) /\ StillUpToDate(r)
<1>1. UNCHANGED <<facts, device, devices, media, computers>> /\ stored' = stored
  BY DEF Rows, stored
<1>2. Alone' \subseteq Alone
  BY <1>1 DEF Alone, Entry
<1> QED
  BY <1>1, <1>2 DEF Covered, UpToDate, StillCovered, StillUpToDate, MediaOf

LEMMA SameRows ==
    ASSUME RInv, UNCHANGED Rows, raced \subseteq raced'
    PROVE  LastSeenLostOnlyByRace'
<1>1. UNCHANGED <<facts, device, devices, media, computers>> /\ stored' = stored
  BY DEF Rows, stored
<1> QED  BY <1>1 DEF RInv, LastSeenLostOnlyByRace, MediaOf, Entry

\* A statement that reads, or a request that ends without a commit.
LEMMA StatementReads ==
    ASSUME RInv, TInv', NEW t \in Threads, NEW r, Only(t, r),
           \/ r = Idle
           \/ /\ Busy(t) /\ r.event = thread[t].event /\ r.facts = thread[t].facts
              /\ Covered(r) /\ UpToDate(r)
    PROVE  RInv'
<1>1. To(t, r) /\ UNCHANGED Rows /\ raced' = raced
  BY DEF Only, vars, Rows
<1>2. \A u \in Threads \ {t} : Busy(u) =>
        StillCovered(thread[u]) /\ StillUpToDate(thread[u])
  BY <1>1, StillReads DEF RInv
<1>3. r # Idle => StillCovered(r) /\ StillUpToDate(r)
  BY <1>1, StillReads
<1>4. ASSUME r # Idle, NEW u \in Threads \ {t}, Busy(u),
             thread[u].facts.computer = r.facts.computer
      PROVE  /\ Entry(r.event, r.facts) \in raced'
             /\ Entry(thread[u].event, thread[u].facts) \in raced'
  BY <1>1, <1>4 DEF RInv, OverlapsRecorded
<1> QED  BY <1>1, <1>2, <1>3, <1>4, SameRows, ReadsStep

LEMMA InsertReads ==
    ASSUME RInv, TInv', NEW t \in Threads, NEW e \in EventIds, InsertEvent(t, e, payload[e])
    PROVE  RInv'
<1> DEFINE f == payload[e]
           r == [pc |-> "computer", event |-> e, facts |-> f]
           others == {u \in Threads : Busy(u) /\ thread[u].facts.computer = f.computer}
<1>1. /\ To(t, r) /\ UNCHANGED Rows /\ thread[t] = Idle
      /\ raced' = IF others = {} THEN raced
                  ELSE raced \union {Entry(e, f)}
                         \union {Entry(thread[u].event, thread[u].facts) : u \in others}
  BY DEF InsertEvent, vars, Rows
<1>2. raced \subseteq raced'
  BY <1>1
<1>3. \A u \in Threads \ {t} : Busy(u) =>
        StillCovered(thread[u]) /\ StillUpToDate(thread[u])
  BY <1>1, <1>2, StillReads DEF RInv
<1>4. StillCovered(r) /\ StillUpToDate(r)
  BY DEF StillCovered, StillUpToDate, HasComputer, HasDevice, HasMedia
<1>5. \A u \in others :
        /\ Entry(e, f) \in raced'
        /\ Entry(thread[u].event, thread[u].facts) \in raced'
  BY <1>1
<1>6. r.event = e /\ r.facts = f
  OBVIOUS
<1>7. \A u \in Threads \ {t} :
        Busy(u) /\ thread[u].facts.computer = r.facts.computer =>
            /\ Entry(r.event, r.facts) \in raced'
            /\ Entry(thread[u].event, thread[u].facts) \in raced'
  BY <1>5, <1>6
<1> HIDE DEF r, f, others
<1> QED  BY <1>1, <1>2, <1>3, <1>4, <1>7, SameRows, ReadsStep

\* A read of last_seen_at covers the observations of Alone, and is up to date.
LEMMA ComputerReads ==
    ASSUME RInv, TInv', NEW t \in Threads, ReadComputer(t) \/ AddComputer(t) \/ Classify(t)
    PROVE  RInv'
<1> DEFINE r == thread[t]
<1>1. Busy(t) /\ r.pc \in {"computer", "add computer", "candidates"}
  BY IdlePc DEF ReadComputer, AddComputer, Classify, Busy
<1>2. r \in Handled /\ Covered(r) /\ UpToDate(r)
  BY <1>1, KeepsRequest DEF RInv
<1>3. ASSUME NEW n, Only(t, n), n.event = r.event, n.facts = r.facts,
             n.pc \in {"add computer", "candidates", "link", "provision"},
             \/ n.computer = computers[r.facts.computer]
             \/ r.pc # "computer" /\ n.computer = r.computer
      PROVE  RInv'
  <2>1. ~HasDevice(n) /\ ~HasMedia(n)
    BY <1>3 DEF HasDevice, HasMedia
  <2>2. CASE n.computer = computers[r.facts.computer]
    <3>1. Covered(n)
      BY <1>3, <2>1, <2>2
      DEF Covered, Alone, RInv, TInv, LastSeenLostOnlyByRace
    <3>2. UpToDate(n)
      BY <1>3, <2>1, <2>2 DEF UpToDate
    <3> QED  BY <1>1, <1>3, <3>1, <3>2, StatementReads
  <2>3. CASE r.pc # "computer" /\ n.computer = r.computer
    <3>1. HasComputer(r)
      BY <1>1, <2>3 DEF HasComputer
    <3>2. Covered(n)
      BY <1>2, <1>3, <2>1, <2>3, <3>1 DEF Covered
    <3>3. UpToDate(n)
      BY <1>2, <1>3, <2>1, <2>3, <3>1 DEF UpToDate
    <3> QED  BY <1>1, <1>3, <3>2, <3>3, StatementReads
  <2> QED  BY <1>3, <2>2, <2>3
<1>4. CASE ReadComputer(t)
  <2> DEFINE n == [pc |-> IF computers[r.facts.computer] = None THEN "add computer"
                          ELSE "candidates",
                   event |-> r.event, facts |-> r.facts,
                   computer |-> computers[r.facts.computer]]
  <2>1. Only(t, n)
    BY <1>4 DEF ReadComputer
  <2>2. /\ n.event = r.event /\ n.facts = r.facts
        /\ n.pc \in {"add computer", "candidates"}
        /\ n.computer = computers[r.facts.computer]
    OBVIOUS
  <2> HIDE DEF n, r
  <2> QED  BY <1>3, <2>1, <2>2
<1>5. CASE AddComputer(t)
  <2> DEFINE n == [r EXCEPT !.pc = "candidates"]
  <2>1. r.pc = "add computer" /\ (Only(t, Idle) \/ Only(t, n))
    BY <1>5 DEF AddComputer, Answer500
  <2>2. r \in Located
    BY <1>2, <2>1 DEF Handled, Inserted, Located, Classified, Placed
  <2>3. /\ n.event = r.event /\ n.facts = r.facts
        /\ n.pc = "candidates" /\ n.computer = r.computer
    BY <2>2 DEF Located
  <2>4. CASE Only(t, Idle)
    BY <2>4, StatementReads
  <2>5. CASE Only(t, n)
    <3> HIDE DEF n, r
    <3> QED  BY <1>3, <2>1, <2>3, <2>5
  <2> QED  BY <2>1, <2>4, <2>5
<1>6. CASE Classify(t)
  <2>1. PICK result, auto, candidate :
          Only(t, [pc |-> IF auto THEN "link" ELSE "provision",
                   event |-> r.event, facts |-> r.facts, computer |-> r.computer,
                   result |-> result, candidate |-> candidate])
    BY <1>6 DEF Classify
  <2> DEFINE n == [pc |-> IF auto THEN "link" ELSE "provision",
                   event |-> r.event, facts |-> r.facts, computer |-> r.computer,
                   result |-> result, candidate |-> candidate]
  <2>2. /\ n.event = r.event /\ n.facts = r.facts /\ n.computer = r.computer
        /\ n.pc \in {"link", "provision"}
    OBVIOUS
  <2>3. Only(t, n) /\ r.pc # "computer"
    BY <1>6, <2>1 DEF Classify
  <2> HIDE DEF n, r
  <2> QED  BY <1>3, <2>2, <2>3
<1> QED  BY <1>4, <1>5, <1>6

\* WithDevice has read last_seen_at of the device it goes on with.
LEMMA PlacedReads ==
    ASSUME RInv, TInv', NEW t \in Threads, thread[t].pc \in {"link", "provision"},
           NEW d, NEW at, WithDevice(t, d, at), d # None => at = devices[d]
    PROVE  RInv'
<1> DEFINE r == thread[t]
           n == [pc |-> IF d = None THEN "commit" ELSE "media", event |-> r.event,
                 facts |-> r.facts, computer |-> r.computer, result |-> r.result,
                 candidate |-> r.candidate, device |-> d, at |-> at, media |-> None]
<1>1. Busy(t) /\ HasComputer(r)
  BY IdlePc DEF Busy, HasComputer
<1>2. Covered(r) /\ UpToDate(r)
  BY <1>1 DEF RInv
<1>3. /\ Only(t, n) /\ n.event = r.event /\ n.facts = r.facts
      /\ n.computer = r.computer /\ n.device = d /\ n.at = at
  BY DEF WithDevice
<1>4. ~HasMedia(n) /\ (HasDevice(n) => d # None)
  BY DEF HasMedia, HasDevice
<1> HIDE DEF n, r
<1>5. Covered(n)
  BY <1>1, <1>2, <1>3, <1>4 DEF Covered, Alone, RInv, LastSeenLostOnlyByRace
<1>6. UpToDate(n)
  BY <1>1, <1>2, <1>3, <1>4 DEF UpToDate
<1>7. /\ n.event = thread[t].event /\ n.facts = thread[t].facts
  BY <1>3 DEF r
<1> QED  BY <1>1, <1>3, <1>5, <1>6, <1>7, StatementReads

LEMMA DeviceReads ==
    ASSUME RInv, TInv', NEW t \in Threads, Link(t) \/ ProvisionDevice(t)
    PROVE  RInv'
<1>1. CASE Link(t)
  <2>1. Only(t, Idle) \/ WithDevice(t, thread[t].candidate, devices[thread[t].candidate])
    BY <1>1 DEF Link, Answer500
  <2>2. thread[t].pc = "link"
    BY <1>1 DEF Link
  <2> QED  BY <2>1, <2>2, StatementReads, PlacedReads
<1>2. CASE ProvisionDevice(t)
  <2>1. \/ \E p \in Priors(thread[t].facts) : WithDevice(t, device[p], devices[device[p]])
        \/ WithDevice(t, None, None)
    BY <1>2 DEF ProvisionDevice
  <2>2. thread[t].pc = "provision"
    BY <1>2 DEF ProvisionDevice
  <2> QED  BY <2>1, <2>2, PlacedReads
<1> QED  BY <1>1, <1>2

LEMMA MediaReads ==
    ASSUME RInv, TInv', NEW t \in Threads, ReadMedia(t) \/ AddMedia(t)
    PROVE  RInv'
<1> DEFINE r == thread[t]
           key == MediaKey(r.device, r)
<1>1. Busy(t) /\ r.pc \in {"media", "add media"}
  BY IdlePc DEF ReadMedia, AddMedia, Busy
<1>2. r \in Placed /\ Covered(r) /\ UpToDate(r)
  BY <1>1, KeepsRequest DEF RInv, Handled, Inserted, Located, Classified, Placed
<1>3. HasComputer(r) /\ HasDevice(r)
  BY <1>1 DEF RInv, TInv, PlacesLike, HasComputer, HasDevice
<1>4. ASSUME NEW n, Only(t, n), n.event = r.event, n.facts = r.facts,
             n.computer = r.computer, n.device = r.device, n.at = r.at,
             \/ n.media = media[key]
             \/ HasMedia(r) /\ n.media = r.media
      PROVE  RInv'
  <2>1. MediaKey(n.device, n) = key
    BY <1>4 DEF MediaKey
  <2>2. Covered(n)
    BY <1>2, <1>3, <1>4, <2>1 DEF Covered, Alone, RInv, LastSeenLostOnlyByRace
  <2>3. UpToDate(n)
    BY <1>2, <1>3, <1>4, <2>1 DEF UpToDate
  <2> QED  BY <1>1, <1>4, <2>2, <2>3, StatementReads
<1>5. CASE ReadMedia(t)
  <2> DEFINE n == [r EXCEPT !.media = media[key],
                            !.pc = IF media[key] = None THEN "add media" ELSE "commit"]
  <2>1. Only(t, n)
    BY <1>5 DEF ReadMedia
  <2>2. /\ n.event = r.event /\ n.facts = r.facts /\ n.computer = r.computer
        /\ n.device = r.device /\ n.at = r.at /\ n.media = media[key]
    BY <1>2 DEF Placed
  <2> HIDE DEF n, r, key
  <2> QED  BY <1>4, <2>1, <2>2
<1>6. CASE AddMedia(t)
  <2> DEFINE n == [r EXCEPT !.pc = "commit"]
  <2>1. Only(t, Idle) \/ Only(t, n)
    BY <1>6 DEF AddMedia, Answer500
  <2>2. HasMedia(r)
    BY <1>3, <1>6 DEF AddMedia, HasMedia, HasDevice
  <2>3. /\ n.event = r.event /\ n.facts = r.facts /\ n.computer = r.computer
        /\ n.device = r.device /\ n.at = r.at /\ n.media = r.media
    BY <1>2 DEF Placed
  <2>4. CASE Only(t, Idle)
    BY <2>4, StatementReads
  <2>5. CASE Only(t, n)
    <3> HIDE DEF n, r, key
    <3> QED  BY <1>4, <2>2, <2>3, <2>5
  <2> QED  BY <2>1, <2>4, <2>5
<1> QED  BY <1>5, <1>6

\* Who goes on with one device has the computer of its observations.
LEMMA SameComputer ==
    ASSUME TInv, NEW t \in Threads, Commit(t), NEW u \in Threads, HasDevice(thread[u]),
           thread[u].device = Numbered(thread[t].device)
    PROVE  thread[u].facts.computer = thread[t].facts.computer
<1> DEFINE d == Numbered(thread[t].device)
<1>1. /\ \/ d > nextId
         \/ \E q \in stored : device[q] = d
      /\ \A q \in stored : device[q] = d => Like(thread[t].facts, facts[q])
      /\ d \in DeviceIds
  BY CommitStores
<1>2. OnlyLike(d, thread[u].facts)
  BY DEF TInv, PlacesLike, HasDevice
<1>3. nextId \in Nat /\ d \in Nat
  BY <1>1, BoundsAssumption DEF TInv, RowsTyped, DeviceIds
<1>4. PICK q \in stored : device[q] = d
  BY <1>1, <1>2, <1>3 DEF OnlyLike
<1> QED  BY <1>1, <1>2, <1>4 DEF OnlyLike, Like

LEMMA WrittenCovers ==
    ASSUME NEW current \in Nat, NEW read \in Nat, NEW time \in Nat, NEW s \in Nat
    PROVE  /\ s <= current /\ s <= read => s <= Written(current, read, time)
           /\ time > read \/ current = read => time <= Written(current, read, time)
  BY DEF Written

\* What a commit writes covers what it stores and what was covered before.
LEMMA CommitCovers ==
    ASSUME RInv, NEW t \in Threads, Commit(t)
    PROVE  LastSeenLostOnlyByRace'
<1> DEFINE r == thread[t]
           e == r.event
           f == r.facts
           d == Numbered(r.device)
           key == <<d, f.software>>
<1>1. /\ e \in EventIds /\ e \notin stored /\ f \in Facts /\ d \in DeviceIds
      /\ facts' = [facts EXCEPT ![e] = f]
      /\ device' = [device EXCEPT ![e] = d]
      /\ stored' = stored \union {e}
      /\ d > nextId \/ \E q \in stored : device[q] = d
  BY CommitStores DEF RInv
<1>2. Busy(t) /\ r.pc = "commit" /\ RowsThere(r)
  BY IdlePc DEF Commit, Busy
<1>3. r \in Placed /\ Covered(r) /\ UpToDate(r)
  BY <1>2, KeepsRequest DEF RInv, Handled, Inserted, Located, Classified, Placed
<1>4. /\ devices' = [devices EXCEPT ![d] = Written(@, r.at, f.time)]
      /\ media' = [media EXCEPT ![key] = Written(@, r.media, f.time)]
      /\ computers' = [computers EXCEPT ![f.computer] = Written(@, r.computer, f.time)]
      /\ raced' = raced
  BY DEF Commit, MediaKey
<1>5. /\ devices \in [DeviceIds -> Nat] /\ media \in [MediaKeys -> Nat]
      /\ computers \in [Computers -> Nat]
      /\ r.at \in Nat /\ r.media \in Nat /\ r.computer \in Nat
      /\ f.time \in Nat /\ f.time > None /\ f.computer \in Computers /\ key \in MediaKeys
  <2>1. /\ devices \in [DeviceIds -> Nat] /\ media \in [MediaKeys -> Nat]
        /\ computers \in [Computers -> Nat]
    BY StampsAreNat DEF RInv, TInv, RowsTyped
  <2>2. r.at \in Nat /\ r.media \in Nat /\ r.computer \in Nat
    BY <1>3, StampsAreNat DEF Placed
  <2>3. f.time \in Times /\ f.computer \in Computers /\ f.software \in Software \union {NoHash}
    BY <1>1 DEF Facts
  <2>4. f.time \in Nat /\ f.time > None
    BY <2>3, BoundsAssumption DEF Times, None
  <2>5. key \in MediaKeys
    BY <1>1, <2>3 DEF MediaKeys
  <2> QED  BY <2>1, <2>2, <2>3, <2>4, <2>5
<1>6. HasComputer(r) /\ (r.device # None => HasDevice(r) /\ HasMedia(r) /\ d = r.device)
  BY <1>2 DEF HasComputer, HasDevice, HasMedia, Numbered
<1>7. r.device = None => d = nextId + 1 /\ r.at = None /\ r.media = None
  BY <1>2 DEF RInv, TInv, PlacesLike, Numbered
<1>8. \A x \in stored : /\ x \in EventIds /\ x # e
                        /\ facts'[x] = facts[x] /\ device'[x] = device[x]
                        /\ facts[x] \in Facts /\ facts[x].time \in Nat
                        /\ facts[x].computer \in Computers
                        /\ device[x] \in DeviceIds /\ MediaOf(x) \in MediaKeys
                        /\ device[x] <= nextId
  <2> SUFFICES ASSUME NEW x \in stored
               PROVE  /\ x \in EventIds /\ x # e
                      /\ facts'[x] = facts[x] /\ device'[x] = device[x]
                      /\ facts[x] \in Facts /\ facts[x].time \in Nat
                      /\ facts[x].computer \in Computers
                      /\ device[x] \in DeviceIds /\ MediaOf(x) \in MediaKeys
                      /\ device[x] <= nextId
    OBVIOUS
  <2>1. x \in EventIds /\ facts[x] \in Facts
    BY DEF RInv, TInv, RowsTyped, stored
  <2>2. device[x] \in DeviceIds /\ device[x] <= nextId
    BY DEF RInv, TInv, DevicesUsed, known
  <2>3. facts[x].time \in Nat /\ facts[x].computer \in Computers /\ MediaOf(x) \in MediaKeys
    BY <2>1, <2>2, BoundsAssumption DEF Facts, Times, MediaOf, MediaKeys
  <2> QED  BY <1>1, <2>1, <2>2, <2>3 DEF RInv, TInv, RowsTyped
<1>9. nextId \in Nat /\ DeviceIds \subseteq Nat
  BY BoundsAssumption DEF RInv, TInv, RowsTyped, DeviceIds
<1>10. facts'[e] = f /\ device'[e] = d
  BY <1>1 DEF RInv, TInv, RowsTyped
<1>11. ASSUME Entry(e, f) \notin raced
       PROVE  /\ devices'[d] >= f.time /\ media'[key] >= f.time
              /\ computers'[f.computer] >= f.time
  <2>1. computers'[f.computer] >= f.time
    <3>1. computers[f.computer] = r.computer
      BY <1>3, <1>6, <1>11 DEF UpToDate
    <3> QED  BY <1>4, <1>5, <3>1, WrittenCovers
  <2>2. devices'[d] >= f.time
    <3>1. f.time > r.at \/ devices[d] = r.at
      <4>1. CASE r.device = None
        BY <1>5, <1>7, <4>1
      <4>2. CASE r.device # None
        BY <1>2, <1>3, <1>6, <1>11, <4>2 DEF UpToDate, RowsThere, known
      <4> QED  BY <4>1, <4>2
    <3> QED  BY <1>1, <1>4, <1>5, <3>1, WrittenCovers
  <2>3. media'[key] >= f.time
    <3>1. f.time > r.media \/ media[key] = r.media
      <4>1. CASE r.media = None
        BY <1>5, <4>1
      <4>2. CASE r.media # None
        <5>1. r.device # None /\ MediaKey(r.device, r) = key
          BY <1>6, <1>7, <4>2 DEF MediaKey
        <5> QED  BY <1>2, <1>3, <1>6, <1>11, <4>2, <5>1 DEF UpToDate, RowsThere
      <4> QED  BY <4>1, <4>2
    <3> QED  BY <1>4, <1>5, <3>1, WrittenCovers
  <2> QED  BY <2>1, <2>2, <2>3
<1>12. ASSUME NEW x \in Alone
       PROVE  /\ devices'[device[x]] >= facts[x].time
              /\ media'[MediaOf(x)] >= facts[x].time
              /\ computers'[facts[x].computer] >= facts[x].time
  <2> DEFINE s == facts[x].time
  <2>1. x \in stored
    BY DEF Alone
  <2>2. s <= devices[device[x]] /\ s <= media[MediaOf(x)] /\ s <= computers[facts[x].computer]
    BY <1>12 DEF Alone, RInv, LastSeenLostOnlyByRace
  <2>3. /\ device[x] \in DeviceIds /\ device[x] <= nextId /\ MediaOf(x) \in MediaKeys
        /\ facts[x].computer \in Computers /\ s \in Nat
    BY <1>8, <2>1
  <2>4. devices'[device[x]] >= s
    <3>1. CASE device[x] = d
      <4>1. r.device # None
        BY <1>7, <1>9, <2>3, <3>1
      <4>2. s <= r.at
        BY <1>3, <1>6, <3>1, <4>1 DEF Covered
      <4> QED  BY <1>1, <1>4, <1>5, <2>2, <2>3, <3>1, <4>2, WrittenCovers
    <3>2. CASE device[x] # d
      BY <1>4, <1>5, <2>2, <2>3, <3>2
    <3> QED  BY <3>1, <3>2
  <2>5. media'[MediaOf(x)] >= s
    <3>1. CASE MediaOf(x) = key
      <4>1. device[x] = d
        BY <3>1 DEF MediaOf
      <4>2. r.device # None
        BY <1>7, <1>9, <2>3, <4>1
      <4>3. s <= r.media
        BY <1>3, <1>6, <3>1, <4>2 DEF Covered, MediaKey
      <4> QED  BY <1>4, <1>5, <2>2, <2>3, <3>1, <4>3, WrittenCovers
    <3>2. CASE MediaOf(x) # key
      BY <1>4, <1>5, <2>2, <2>3, <3>2
    <3> QED  BY <3>1, <3>2
  <2>6. computers'[facts[x].computer] >= s
    <3>1. CASE facts[x].computer = f.computer
      <4>1. s <= r.computer
        BY <1>3, <1>6, <3>1 DEF Covered
      <4> QED  BY <1>4, <1>5, <2>2, <2>3, <3>1, <4>1, WrittenCovers
    <3>2. CASE facts[x].computer # f.computer
      BY <1>4, <1>5, <2>2, <2>3, <3>2
    <3> QED  BY <3>1, <3>2
  <2> QED  BY <2>4, <2>5, <2>6
<1> SUFFICES ASSUME NEW x \in stored', Entry(x, facts'[x]) \notin raced
             PROVE  /\ devices'[device'[x]] >= facts'[x].time
                    /\ media'[<<device'[x], facts'[x].software>>] >= facts'[x].time
                    /\ computers'[facts'[x].computer] >= facts'[x].time
  BY <1>4 DEF LastSeenLostOnlyByRace, MediaOf, Entry
<1>13. CASE x = e
  BY <1>10, <1>11, <1>13
<1>14. CASE x # e
  <2>1. x \in stored /\ facts'[x] = facts[x] /\ device'[x] = device[x]
    BY <1>1, <1>8, <1>14
  <2>2. x \in Alone
    BY <2>1 DEF Alone
  <2> QED  BY <1>12, <2>1, <2>2 DEF MediaOf
<1> QED  BY <1>13, <1>14

LEMMA CommitReads ==
    ASSUME RInv, TInv', NEW t \in Threads, Commit(t)
    PROVE  RInv'
<1> DEFINE r == thread[t]
           e == r.event
           f == r.facts
           d == Numbered(r.device)
<1>1. /\ e \in EventIds /\ e \notin stored
      /\ facts' = [facts EXCEPT ![e] = f]
      /\ device' = [device EXCEPT ![e] = d]
      /\ stored' = stored \union {e}
  BY CommitStores DEF RInv
<1>2. Busy(t)
  BY IdlePc DEF Commit, Busy
<1>3. /\ devices' = [devices EXCEPT ![d] = Written(@, r.at, f.time)]
      /\ media' = [media EXCEPT ![<<d, f.software>>] = Written(@, r.media, f.time)]
      /\ computers' = [computers EXCEPT ![f.computer] = Written(@, r.computer, f.time)]
      /\ raced' = raced /\ To(t, Idle)
  BY DEF Commit, MediaKey
<1>4. /\ facts'[e] = f /\ device'[e] = d
      /\ \A x \in stored : x # e /\ facts'[x] = facts[x] /\ device'[x] = device[x]
  BY <1>1 DEF RInv, TInv, RowsTyped, stored
<1>5. ASSUME NEW u \in Threads \ {t}, Busy(u)
      PROVE  StillCovered(thread[u]) /\ StillUpToDate(thread[u])
  <2> DEFINE w == thread[u]
  <2>1. w.facts.computer = f.computer =>
          Entry(w.event, w.facts) \in raced /\ Entry(e, f) \in raced
    BY <1>2, <1>5 DEF RInv, OverlapsRecorded
  <2>2. HasDevice(w) /\ w.device = d => w.facts.computer = f.computer
    BY SameComputer DEF RInv
  <2>3. HasMedia(w) => HasDevice(w)
    BY DEF HasMedia, HasDevice
  <2>4. Covered(w) /\ UpToDate(w)
    BY <1>5 DEF RInv
  <2>5. ASSUME NEW x \in Alone'
        PROVE  /\ HasComputer(w) /\ facts'[x].computer = w.facts.computer
                    => facts'[x].time <= w.computer
               /\ HasDevice(w) /\ device'[x] = w.device => facts'[x].time <= w.at
               /\ HasMedia(w) /\ <<device'[x], facts'[x].software>> = MediaKey(w.device, w)
                    => facts'[x].time <= w.media
    <3>1. x \in stored' /\ Entry(x, facts'[x]) \notin raced
      BY <1>3 DEF Alone, Entry
    <3>2. CASE x = e
      BY <1>4, <2>1, <2>2, <2>3, <3>1, <3>2 DEF MediaKey
    <3>3. CASE x # e
      <4>1. x \in Alone /\ facts'[x] = facts[x] /\ device'[x] = device[x]
        BY <1>1, <1>4, <3>1, <3>3 DEF Alone
      <4> QED  BY <2>4, <4>1 DEF Covered, MediaOf
    <3> QED  BY <3>2, <3>3
  <2>6. ASSUME Entry(w.event, w.facts) \notin raced
        PROVE  /\ HasComputer(w) => computers'[w.facts.computer] = w.computer
               /\ HasDevice(w) => devices'[w.device] \in {w.at, None}
               /\ HasMedia(w) => media'[MediaKey(w.device, w)] \in {w.media, None}
    <3>1. w.facts.computer # f.computer /\ (HasDevice(w) => w.device # d)
      BY <2>1, <2>2, <2>6
    <3>2. /\ HasComputer(w) => computers[w.facts.computer] = w.computer
          /\ HasDevice(w) => devices[w.device] \in {w.at, None}
          /\ HasMedia(w) => media[MediaKey(w.device, w)] \in {w.media, None}
      BY <2>4, <2>6 DEF UpToDate
    <3>3. w \in Handled /\ w.facts \in Facts
      BY <1>5, KeepsRequest DEF RInv
    <3>4. w.facts.computer \in Computers /\ w.facts.software \in Software \union {NoHash}
      BY <3>3 DEF Facts
    <3>5. HasDevice(w) => w.device \in DeviceIds /\ MediaKey(w.device, w) \in MediaKeys
      BY <3>3, <3>4
      DEF HasDevice, Handled, Inserted, Located, Classified, Placed, MediaKey, MediaKeys
    <3>6. HasDevice(w) => MediaKey(w.device, w) # <<d, f.software>>
      BY <3>1 DEF MediaKey
    <3>7. HasComputer(w) => computers'[w.facts.computer] = w.computer
      BY <1>3, <3>1, <3>2, <3>4 DEF RInv, TInv, RowsTyped
    <3>8. HasDevice(w) => devices'[w.device] \in {w.at, None}
      BY <1>3, <3>1, <3>2, <3>5 DEF RInv, TInv, RowsTyped
    <3>9. HasMedia(w) => media'[MediaKey(w.device, w)] \in {w.media, None}
      BY <1>3, <2>3, <3>2, <3>5, <3>6 DEF RInv, TInv, RowsTyped
    <3> QED  BY <3>7, <3>8, <3>9
  <2>7. StillCovered(w)
    BY <2>5 DEF StillCovered
  <2>8. StillUpToDate(w)
    BY <1>3, <2>6 DEF StillUpToDate
  <2> QED  BY <2>7, <2>8
<1> QED  BY <1>3, <1>5, CommitCovers, ReadsStep

\* A deletion takes rows away, and leaves the others as they are.
LEMMA PruneReads ==
    ASSUME RInv, TInv', NEW gone \in SUBSET stored, NEW dead \in SUBSET DeviceIds,
           DeleteRows(gone, dead), UNCHANGED <<computers, thread, raced>>,
           \A q \in stored \ gone : device[q] \notin dead
    PROVE  RInv'
<1> DEFINE left == stored \ gone
           orphans == {MediaOf(q) : q \in gone} \ {MediaOf(q) : q \in left}
<1>1. /\ facts' = [q \in EventIds |-> IF q \in gone THEN NoFacts ELSE facts[q]]
      /\ device' = [q \in EventIds |-> IF q \in gone THEN None ELSE device[q]]
      /\ devices' = [d \in DeviceIds |-> IF d \in dead THEN None ELSE devices[d]]
      /\ media' = [m \in MediaKeys |->
           IF m \in orphans \/ m[1] \in dead THEN None ELSE media[m]]
      /\ UNCHANGED <<computers, thread, raced>>
  BY DEF DeleteRows
<1>2. stored' = left
  BY <1>1 DEF stored
<1>3. \A q \in left : /\ facts'[q] = facts[q] /\ device'[q] = device[q]
                     /\ device[q] \in DeviceIds /\ MediaOf(q) \in MediaKeys
  <2>1. \A q \in left : q \in EventIds /\ facts[q] \in Facts /\ device[q] \in DeviceIds
    BY DEF RInv, TInv, RowsTyped, DevicesUsed, stored, known
  <2>2. \A q \in left : MediaOf(q) \in MediaKeys
    BY <2>1 DEF MediaOf, MediaKeys, Facts
  <2> QED  BY <1>1, <2>1, <2>2
<1>4. Alone' \subseteq Alone /\ Alone' \subseteq left
  BY <1>1, <1>2, <1>3 DEF Alone, Entry
<1>5. ASSUME NEW q \in left
      PROVE  devices'[device[q]] = devices[device[q]] /\ media'[MediaOf(q)] = media[MediaOf(q)]
  <2>1. device[q] \notin dead /\ MediaOf(q) \notin orphans /\ MediaOf(q)[1] \notin dead
    BY DEF MediaOf
  <2> HIDE DEF orphans
  <2> QED  BY <1>1, <1>3, <2>1
<1> HIDE DEF orphans
<1>6. LastSeenLostOnlyByRace'
  BY <1>1, <1>2, <1>3, <1>5 DEF RInv, LastSeenLostOnlyByRace, MediaOf, Entry
<1>7. OverlapsRecorded'
  BY <1>1 DEF RInv, OverlapsRecorded, Busy, Entry
<1>8. ASSUME NEW t \in Threads, Busy(t)
      PROVE  StillCovered(thread[t]) /\ StillUpToDate(thread[t])
  <2> DEFINE r == thread[t]
  <2>1. Covered(r) /\ UpToDate(r)
    BY <1>8 DEF RInv
  <2>2. StillCovered(r)
    BY <1>3, <1>4, <2>1 DEF Covered, StillCovered, MediaOf
  <2>3. r \in Handled /\ r.facts \in Facts
    BY <1>8, KeepsRequest DEF RInv
  <2>4. HasDevice(r) => r.device \in DeviceIds /\ MediaKey(r.device, r) \in MediaKeys
    BY <2>3
    DEF HasDevice, Handled, Inserted, Located, Classified, Placed, MediaKey, MediaKeys, Facts
  <2>5. HasMedia(r) => HasDevice(r)
    BY DEF HasMedia, HasDevice
  <2>6. StillUpToDate(r)
    BY <1>1, <2>1, <2>4, <2>5 DEF UpToDate, StillUpToDate
  <2> QED  BY <2>2, <2>6
<1>9. \A t \in Threads : Busy(t)' => Covered(thread[t])' /\ UpToDate(thread[t])'
  BY <1>1, <1>8
  DEF Busy, Covered, UpToDate, StillCovered, StillUpToDate, HasComputer, HasDevice,
      HasMedia, MediaOf, MediaKey, Entry
<1> QED  BY <1>6, <1>7, <1>9 DEF RInv

LEMMA DeletionReads == ASSUME RInv, TInv', Delete PROVE RInv'
<1>1. UNCHANGED <<thread, raced>>
  BY DEF Delete
<1>2. ASSUME NEW e \in EventIds, DeleteObservation(e) PROVE RInv'
  <2>1. /\ {e} \in SUBSET stored /\ Pruned({e}) \in SUBSET DeviceIds
        /\ DeleteRows({e}, Pruned({e})) /\ UNCHANGED computers
    BY <1>2 DEF DeleteObservation, Pruned, known
  <2>2. \A q \in stored \ {e} : device[q] \notin Pruned({e})
    BY DEF Pruned
  <2> QED  BY <1>1, <2>1, <2>2, PruneReads
<1>3. ASSUME NEW d \in DeviceIds, DeleteDevice(d) PROVE RInv'
  <2> DEFINE gone == {e \in stored : device[e] = d}
  <2>1. gone \in SUBSET stored /\ DeleteRows(gone, {d}) /\ UNCHANGED computers
    BY <1>3 DEF DeleteDevice
  <2>2. \A q \in stored \ gone : device[q] \notin {d}
    OBVIOUS
  <2> HIDE DEF gone
  <2> QED  BY <1>1, <2>1, <2>2, PruneReads
<1> QED  BY <1>2, <1>3 DEF Delete

LEMMA RInitInv == TInit => RInv
<1> SUFFICES ASSUME TInit PROVE RInv
  OBVIOUS
<1>1. stored = {} /\ \A t \in Threads : ~Busy(t)
  BY DEF TInit, Init, stored, Busy
<1> QED  BY <1>1, TInitInv DEF RInv, OverlapsRecorded, LastSeenLostOnlyByRace

LEMMA RStepInv == ASSUME RInv, [TNext]_tvars PROVE RInv'
<1>1. TInv'
  BY TStepInv DEF RInv
<1>2. CASE \E e \in EventIds : Send(e)
  BY <1>1, <1>2, InsertReads DEF Send
<1>3. ASSUME NEW t \in Threads, Request(t) \/ Dies(t) PROVE RInv'
  <2>1. CASE CommitFails(t)
    BY <1>1, <2>1, StatementReads DEF CommitFails, Answer500
  <2>2. CASE Dies(t)
    <3>1. To(t, Idle) /\ UNCHANGED Rows /\ raced' = raced
      BY <2>2 DEF Dies, vars, Rows
    <3>2. \A u \in Threads \ {t} : Busy(u) =>
            StillCovered(thread[u]) /\ StillUpToDate(thread[u])
      BY <3>1, StillReads DEF RInv
    <3> QED  BY <1>1, <3>1, <3>2, SameRows, ReadsStep
  <2>3. CASE Request(t) /\ ~CommitFails(t)
    BY <1>1, <2>3, ComputerReads, DeviceReads, MediaReads, CommitReads DEF Request
  <2> QED  BY <1>3, <2>1, <2>2, <2>3
<1>4. CASE Delete
  BY <1>1, <1>4, DeletionReads
<1>5. CASE Quiet
  <2>1. UNCHANGED Rows /\ UNCHANGED <<thread, raced>>
    BY <1>5 DEF Quiet, vars, Rows
  <2>2. \A t \in Threads : Busy(t) => StillCovered(thread[t]) /\ StillUpToDate(thread[t])
    BY <2>1, StillReads DEF RInv
  <2>3. \A t \in Threads : Busy(t)' => Covered(thread[t])' /\ UpToDate(thread[t])'
    BY <2>1, <2>2
    DEF Busy, Covered, UpToDate, StillCovered, StillUpToDate, HasComputer, HasDevice,
        HasMedia, MediaOf, MediaKey, Entry
  <2>4. OverlapsRecorded'
    BY <2>1 DEF RInv, OverlapsRecorded, Busy, Entry
  <2> QED  BY <1>1, <2>1, <2>3, <2>4, SameRows DEF RInv
<1> QED  BY <1>2, <1>3, <1>4, <1>5, QuietStep DEF TNext

\* last_seen_at of a computer, a device and a media state covers every
\* observation whose ingest overlapped no other of its computer: a transaction
\* that writes from what it read loses only updates of those that ran at the
\* same time (identity.py:153, 256, 287, 296).
THEOREM LastSeenLostToRacesOnly == TSpec => []LastSeenLostOnlyByRace
<1>1. TInit => RInv
  BY RInitInv
<1>2. RInv /\ [TNext]_tvars => RInv'
  BY RStepInv
<1>3. RInv => LastSeenLostOnlyByRace
  BY DEF RInv
<1> QED  BY <1>1, <1>2, <1>3, PTL DEF TSpec

----------------------------------------------------------------------------
(* References *)

DInv ==
    /\ TInv
    /\ decision \in [EventIds -> Decision \union {NoDecision}]
    /\ agentAt \in [Agents -> Computers \union {NoComputer}]
    /\ NoDanglingReference

LEMMA DInitInv == TInit => DInv
<1> SUFFICES ASSUME TInit PROVE DInv
  OBVIOUS
<1>1. stored = {}
  BY DEF TInit, Init, stored
<1>2. NoDanglingReference
  BY <1>1 DEF TInit, Init, NoDanglingReference
<1> QED  BY <1>2, TInitInv DEF TInit, Init, DInv

\* A commit writes every row it refers to, or has found it.
LEMMA CommitRefers ==
    ASSUME DInv, TInv', NEW t \in Threads, Commit(t)
    PROVE  DInv'
<1> DEFINE r == thread[t]
           e == r.event
           f == r.facts
           d == Numbered(r.device)
           key == <<d, f.software>>
<1>1. /\ e \in EventIds /\ e \notin stored /\ f \in Facts /\ d \in DeviceIds
      /\ facts' = [facts EXCEPT ![e] = f]
      /\ device' = [device EXCEPT ![e] = d]
      /\ stored' = stored \union {e} /\ known' = known \union {d}
  BY CommitStores DEF DInv
<1>2. Busy(t) /\ r.pc = "commit" /\ RowsThere(r)
  BY IdlePc DEF Commit, Busy
<1>3. r \in Placed
  BY <1>2, KeepsRequest DEF DInv, Handled, Inserted, Located, Classified, Placed
<1>4. /\ media' = [media EXCEPT ![key] = Written(@, r.media, f.time)]
      /\ computers' = [computers EXCEPT ![f.computer] = Written(@, r.computer, f.time)]
      /\ decision' = [decision EXCEPT ![e] =
           [result |-> r.result, auto |-> r.result = "SAME", candidate |-> r.candidate,
            assigned |-> device'[e]]]
      /\ \/ \E a \in Agents : agentAt' = [agentAt EXCEPT ![a] = f.computer]
         \/ agentAt' = agentAt
  BY DEF Commit, MediaKey, Decide, Locate
<1>5. f.computer \in Computers /\ f.time \in Nat /\ f.time > None /\ key \in MediaKeys
  <2>1. f.time \in Times /\ f.computer \in Computers /\ f.software \in Software \union {NoHash}
    BY <1>1 DEF Facts
  <2> QED  BY <1>1, <2>1, BoundsAssumption DEF Times, None, MediaKeys
<1>6. /\ facts'[e] = f /\ device'[e] = d
      /\ \A x \in stored : x \in EventIds /\ x # e
                       /\ facts'[x] = facts[x] /\ device'[x] = device[x]
  BY <1>1 DEF DInv, TInv, RowsTyped, stored
<1>7. /\ computers'[f.computer] # None
      /\ \A c \in Computers : computers[c] # None => computers'[c] # None
  <2>1. Written(computers[f.computer], r.computer, f.time) # None
    <3>1. CASE r.computer = None
      BY <1>5, <3>1 DEF Written, None
    <3>2. CASE r.computer # None
      BY <1>2, <1>5, <3>2 DEF Written, RowsThere, None
    <3> QED  BY <3>1, <3>2
  <2> QED  BY <1>4, <1>5, <2>1 DEF DInv, TInv, RowsTyped
<1>8. /\ media'[key] # None
      /\ \A m \in MediaKeys : media[m] # None => media'[m] # None
      /\ \A m \in MediaKeys : media'[m] # None => media[m] # None \/ m[1] = d
  <2>1. Written(media[key], r.media, f.time) # None
    <3>1. CASE r.media = None
      BY <1>5, <3>1 DEF Written, None
    <3>2. CASE r.media # None
      <4>1. r.device # None
        BY <1>2, <3>2 DEF DInv, TInv, PlacesLike
      <4>2. MediaKey(r.device, r) = key
        BY <4>1 DEF MediaKey, Numbered
      <4> QED  BY <1>2, <1>5, <3>2, <4>2 DEF Written, RowsThere, None
    <3> QED  BY <3>1, <3>2
  <2> QED  BY <1>4, <1>5, <2>1 DEF DInv, TInv, RowsTyped
<1>9. /\ decision' \in [EventIds -> Decision \union {NoDecision}]
      /\ decision'[e] # NoDecision /\ decision'[e].assigned = d
      /\ decision'[e].candidate \in known \union {None}
      /\ \A x \in EventIds \ {e} : decision'[x] = decision[x]
  <2> DEFINE made == [result |-> r.result, auto |-> r.result = "SAME",
                      candidate |-> r.candidate, assigned |-> d]
  <2>1. made \in Decision /\ made.assigned = d /\ made.candidate = r.candidate
    BY <1>1, <1>3 DEF Placed, Decision
  <2>2. decision' = [decision EXCEPT ![e] = made]
    BY <1>4, <1>6
  <2>3. made # NoDecision
    BY <2>1, DecisionsAreMade
  <2>4. r.candidate \in known \union {None}
    BY <1>2 DEF RowsThere
  <2> HIDE DEF made
  <2> QED  BY <1>1, <2>1, <2>2, <2>3, <2>4 DEF DInv
<1>10. /\ agentAt' \in [Agents -> Computers \union {NoComputer}]
       /\ \A a \in Agents : agentAt'[a] # NoComputer => computers'[agentAt'[a]] # None
  BY <1>4, <1>5, <1>7 DEF DInv, NoDanglingReference
<1>11. \A x \in EventIds : decision'[x] # NoDecision <=> x \in stored'
  BY <1>1, <1>9 DEF DInv, NoDanglingReference
<1>12. ASSUME NEW x \in stored'
       PROVE  /\ device'[x] \in known'
              /\ media'[<<device'[x], facts'[x].software>>] # None
              /\ computers'[facts'[x].computer] # None
              /\ decision'[x].assigned = device'[x]
              /\ decision'[x].candidate \in known' \union {None}
  <2>1. CASE x = e
    BY <1>1, <1>6, <1>7, <1>8, <1>9, <2>1
  <2>2. CASE x # e
    <3>1. x \in stored /\ facts'[x] = facts[x] /\ device'[x] = device[x]
             /\ decision'[x] = decision[x] /\ facts[x] \in Facts
      BY <1>1, <1>6, <1>9, <2>2 DEF DInv, TInv, RowsTyped, stored
    <3>2. device[x] \in DeviceIds /\ MediaOf(x) \in MediaKeys /\ facts[x].computer \in Computers
      BY <3>1 DEF DInv, NoDanglingReference, known, MediaOf, MediaKeys, Facts
    <3> QED  BY <1>1, <1>7, <1>8, <3>1, <3>2 DEF DInv, NoDanglingReference, MediaOf
  <2> QED  BY <2>1, <2>2
<1>13. \A m \in MediaKeys : media'[m] # None => m[1] \in known'
  BY <1>1, <1>8 DEF DInv, NoDanglingReference
<1>14. NoDanglingReference'
  BY <1>10, <1>11, <1>12, <1>13 DEF NoDanglingReference, MediaOf
<1> QED  BY <1>9, <1>10, <1>14 DEF DInv

\* A deletion takes all that refers to what it deletes.
LEMMA PruneRefers ==
    ASSUME DInv, TInv', NEW gone \in SUBSET stored, NEW dead \in SUBSET DeviceIds,
           DeleteRows(gone, dead), UNCHANGED <<computers, agentAt>>,
           \A q \in stored \ gone : device[q] \notin dead
    PROVE  DInv'
<1> DEFINE left == stored \ gone
           orphans == {MediaOf(q) : q \in gone} \ {MediaOf(q) : q \in left}
<1>1. /\ facts' = [q \in EventIds |-> IF q \in gone THEN NoFacts ELSE facts[q]]
      /\ device' = [q \in EventIds |-> IF q \in gone THEN None ELSE device[q]]
      /\ decision' = [q \in EventIds |->
           IF q \notin left THEN NoDecision
           ELSE IF decision[q].candidate \in dead
                THEN [decision[q] EXCEPT !.candidate = None]
                ELSE decision[q]]
      /\ devices' = [d \in DeviceIds |-> IF d \in dead THEN None ELSE devices[d]]
      /\ media' = [m \in MediaKeys |->
           IF m \in orphans \/ m[1] \in dead THEN None ELSE media[m]]
      /\ UNCHANGED <<computers, agentAt>>
  BY DEF DeleteRows
<1>2. stored' = left /\ known' = known \ dead
  BY <1>1 DEF stored, known
<1>3. ASSUME NEW q \in left
      PROVE  /\ q \in EventIds /\ facts'[q] = facts[q] /\ device'[q] = device[q]
             /\ device[q] \in known' /\ media'[MediaOf(q)] = media[MediaOf(q)]
  <2>1. q \in EventIds /\ facts[q] \in Facts /\ device[q] \in known /\ device[q] \in DeviceIds
    BY DEF DInv, TInv, RowsTyped, DevicesUsed, stored, known
  <2>2. MediaOf(q) \in MediaKeys /\ MediaOf(q) \notin orphans /\ MediaOf(q)[1] \notin dead
    BY <2>1 DEF MediaOf, MediaKeys, Facts
  <2> HIDE DEF orphans
  <2> QED  BY <1>1, <1>2, <2>1, <2>2
<1> HIDE DEF orphans
<1>4. ASSUME NEW q \in left
      PROVE  /\ decision'[q] \in Decision
             /\ decision'[q].assigned = device[q]
             /\ decision'[q].candidate \in known' \union {None}
  <2>1. /\ decision[q] \in Decision /\ decision[q].assigned = device[q]
        /\ decision[q].candidate \in known \union {None}
    BY DEF DInv, NoDanglingReference, stored
  <2>2. CASE decision[q].candidate \in dead
    BY <1>1, <1>3, <2>1, <2>2 DEF Decision
  <2>3. CASE decision[q].candidate \notin dead
    BY <1>1, <1>2, <1>3, <2>1, <2>3
  <2> QED  BY <2>2, <2>3
<1>5. \A q \in EventIds \ left : decision'[q] = NoDecision
  BY <1>1
<1>6. /\ decision' \in [EventIds -> Decision \union {NoDecision}]
      /\ \A q \in EventIds : decision'[q] # NoDecision <=> q \in left
  <2>1. \A q \in EventIds : decision'[q] \in Decision \union {NoDecision}
    BY <1>4, <1>5
  <2>2. decision' = [q \in EventIds |-> decision'[q]]
    BY <1>1
  <2> QED  BY <1>4, <1>5, <2>1, <2>2, DecisionsAreMade
<1>7. \A q \in left : computers'[facts[q].computer] # None /\ media'[MediaOf(q)] # None
  BY <1>1, <1>3 DEF DInv, NoDanglingReference
<1>8. \A m \in MediaKeys : media'[m] # None => m[1] \in known'
  BY <1>1, <1>2 DEF DInv, NoDanglingReference
<1>9. \A a \in Agents : agentAt'[a] # NoComputer => computers'[agentAt'[a]] # None
  BY <1>1 DEF DInv, NoDanglingReference
<1>10. NoDanglingReference'
  BY <1>2, <1>3, <1>4, <1>6, <1>7, <1>8, <1>9 DEF NoDanglingReference, MediaOf
<1> QED  BY <1>1, <1>6, <1>10 DEF DInv

LEMMA DeletionRefers == ASSUME DInv, TInv', Delete PROVE DInv'
<1>1. ASSUME NEW e \in EventIds, DeleteObservation(e) PROVE DInv'
  <2>1. /\ {e} \in SUBSET stored /\ Pruned({e}) \in SUBSET DeviceIds
        /\ DeleteRows({e}, Pruned({e})) /\ UNCHANGED <<computers, agentAt>>
    BY <1>1 DEF DeleteObservation, Pruned, known
  <2>2. \A q \in stored \ {e} : device[q] \notin Pruned({e})
    BY DEF Pruned
  <2> QED  BY <2>1, <2>2, PruneRefers
<1>2. ASSUME NEW d \in DeviceIds, DeleteDevice(d) PROVE DInv'
  <2> DEFINE gone == {e \in stored : device[e] = d}
  <2>1. gone \in SUBSET stored /\ DeleteRows(gone, {d}) /\ UNCHANGED <<computers, agentAt>>
    BY <1>2 DEF DeleteDevice
  <2>2. \A q \in stored \ gone : device[q] \notin {d}
    OBVIOUS
  <2> HIDE DEF gone
  <2> QED  BY <2>1, <2>2, PruneRefers
<1> QED  BY <1>1, <1>2 DEF Delete

LEMMA DStepInv == ASSUME DInv, [TNext]_tvars PROVE DInv'
<1>1. TInv'
  BY TStepInv DEF DInv
<1>2. ASSUME UNCHANGED vars PROVE DInv'
  BY <1>1, <1>2 DEF vars, DInv, NoDanglingReference, MediaOf, stored, known
<1>3. CASE \E e \in EventIds : Send(e)
  BY <1>2, <1>3 DEF Send, InsertEvent
<1>4. ASSUME NEW t \in Threads, Request(t) \/ Dies(t) PROVE DInv'
  <2>1. CASE Commit(t)
    BY <1>1, <2>1, CommitRefers
  <2>2. CASE ~Commit(t)
    BY <1>2, <1>4, <2>2
    DEF Request, Dies, ReadComputer, AddComputer, Classify, Link, ProvisionDevice,
        ReadMedia, AddMedia, CommitFails, Answer500, WithDevice, Only
  <2> QED  BY <2>1, <2>2
<1>5. CASE Delete
  BY <1>1, <1>5, DeletionRefers
<1>6. CASE Quiet
  BY <1>2, <1>6 DEF Quiet
<1> QED  BY <1>3, <1>4, <1>5, <1>6, QuietStep DEF TNext

\* No committed row refers to one that is gone, though candidates, devices and
\* media states are deleted between the statement that reads them and the
\* commit that refers to them (main.py:448-501, identity.py:284-314).
THEOREM NothingDangles == TSpec => []NoDanglingReference
<1>1. TInit => DInv
  BY DInitInv
<1>2. DInv /\ [TNext]_tvars => DInv'
  BY DStepInv
<1>3. DInv => NoDanglingReference
  BY DEF DInv
<1> QED  BY <1>1, <1>2, <1>3, PTL DEF TSpec

----------------------------------------------------------------------------
(* Devices split by overlaps *)

Fresh(r) == r.pc = "commit" /\ r.device = None

\* A request that commits a new device though like observations are stored by
\* now has overlapped the ingests of all of them.
FreshOverlapped ==
    \A t \in Threads : Fresh(thread[t]) =>
        \A e \in stored : Like(thread[t].facts, facts[e]) =>
            {Entry(e, facts[e]), Entry(thread[t].event, thread[t].facts)} \subseteq raced

SInv ==
    /\ RInv
    /\ IsFiniteSet(raced)
    /\ FreshOverlapped
    /\ SplitOnlyByRace

\* The devices of one computer's hardware, and its ingests that overlapped.
DevicesOf(c, h) ==
    {device[e] : e \in {x \in stored : facts[x].computer = c /\ facts[x].hardware = h}}
RacingOf(c, h) == {r \in raced : r.computer = c /\ r.hardware = h}
FewDevices(c, h) ==
    \/ Cardinality(DevicesOf(c, h)) <= 1
    \/ Cardinality(DevicesOf(c, h)) <= Cardinality(RacingOf(c, h))

LEMMA SplitIsFew ==
    SplitOnlyByRace <=> \A c \in Computers, h \in Hardware : FewDevices(c, h)
  BY DEF SplitOnlyByRace, FewDevices, DevicesOf, RacingOf

LEMMA DevicesFinite ==
    ASSUME TInv, NEW c, NEW h
    PROVE  DevicesOf(c, h) \subseteq DeviceIds /\ IsFiniteSet(DevicesOf(c, h))
<1>1. DevicesOf(c, h) \subseteq DeviceIds
  BY DEF TInv, DevicesUsed, known, DevicesOf
<1>2. IsFiniteSet(DeviceIds)
  BY FS_Interval, BoundsAssumption DEF DeviceIds
<1> QED  BY <1>1, <1>2, FS_Subset

\* There are still few devices if none was added, and no overlap forgotten.
LEMMA StillFew ==
    ASSUME TInv, NEW c, NEW h, FewDevices(c, h),
           DevicesOf(c, h)' \subseteq DevicesOf(c, h),
           raced \subseteq raced', IsFiniteSet(raced')
    PROVE  FewDevices(c, h)'
<1>1. /\ IsFiniteSet(DevicesOf(c, h))
      /\ IsFiniteSet(DevicesOf(c, h)')
      /\ Cardinality(DevicesOf(c, h)') <= Cardinality(DevicesOf(c, h))
  BY DevicesFinite, FS_Subset
<1>2. RacingOf(c, h)' \subseteq raced' /\ RacingOf(c, h) \subseteq RacingOf(c, h)'
  BY DEF RacingOf
<1>3. /\ IsFiniteSet(RacingOf(c, h)')
      /\ IsFiniteSet(RacingOf(c, h))
      /\ Cardinality(RacingOf(c, h)) <= Cardinality(RacingOf(c, h)')
  BY <1>2, FS_Subset
<1>4. /\ Cardinality(DevicesOf(c, h)) \in Nat /\ Cardinality(DevicesOf(c, h)') \in Nat
      /\ Cardinality(RacingOf(c, h)) \in Nat /\ Cardinality(RacingOf(c, h)') \in Nat
  BY <1>1, <1>3, FS_CardinalityType
<1> QED  BY <1>1, <1>3, <1>4 DEF FewDevices

\* A step that stores nothing and records the overlaps it makes: a new device
\* is only for an observation with no other like it.
LEMMA SplitsStep ==
    ASSUME SInv, RInv', NEW t \in Threads, NEW r, To(t, r), UNCHANGED Rows,
           raced \subseteq raced', IsFiniteSet(raced'),
           Fresh(r) => \A e \in stored : ~ Like(r.facts, facts[e])
    PROVE  SInv'
<1>1. UNCHANGED <<facts, device, stored>>
  BY DEF Rows, stored
<1>2. thread'[t] = r /\ \A u \in Threads \ {t} : thread'[u] = thread[u]
  BY DEF To, SInv, RInv, TInv, ThreadsTyped
<1>3. FreshOverlapped'
  <2> SUFFICES ASSUME NEW u \in Threads, Fresh(thread'[u]), NEW e \in stored,
                      Like(thread'[u].facts, facts[e])
               PROVE  {Entry(e, facts[e]), Entry(thread'[u].event, thread'[u].facts)}
                        \subseteq raced'
    BY <1>1 DEF FreshOverlapped, Fresh, Entry
  <2>1. u # t
    BY <1>2
  <2> QED  BY <1>2, <2>1 DEF SInv, FreshOverlapped
<1>4. ASSUME NEW c \in Computers, NEW h \in Hardware PROVE FewDevices(c, h)'
  <2>1. DevicesOf(c, h)' = DevicesOf(c, h)
    BY <1>1 DEF DevicesOf
  <2>2. FewDevices(c, h)
    BY SplitIsFew DEF SInv
  <2> QED  BY <2>1, <2>2, StillFew DEF SInv, RInv
<1>5. SplitOnlyByRace'
  BY <1>4 DEF SplitOnlyByRace, FewDevices, DevicesOf, RacingOf
<1> QED  BY <1>3, <1>5 DEF SInv

LEMMA InsertSplits ==
    ASSUME SInv, RInv', NEW t \in Threads, NEW e \in EventIds, InsertEvent(t, e, payload[e])
    PROVE  SInv'
<1> DEFINE f == payload[e]
           r == [pc |-> "computer", event |-> e, facts |-> f]
           others == {u \in Threads : Busy(u) /\ thread[u].facts.computer = f.computer}
           entry == [u \in others |-> Entry(thread[u].event, thread[u].facts)]
           entries == {Entry(thread[u].event, thread[u].facts) : u \in others}
<1>1. /\ To(t, r) /\ UNCHANGED Rows
      /\ raced' = IF others = {} THEN raced ELSE raced \union {Entry(e, f)} \union entries
  BY DEF InsertEvent, vars, Rows
<1>2. IsFiniteSet(entries)
  <2>1. IsFiniteSet(others)
    BY IngestTxnAssumption, FS_Subset
  <2>2. entry \in Surjection(others, entries)
    BY DEF Surjection
  <2> HIDE DEF others, entries, entry
  <2> QED  BY <2>1, <2>2, FS_Surjection
<1>3. IsFiniteSet(raced')
  <2>1. IsFiniteSet(raced \union {Entry(e, f)})
    BY FS_AddElement DEF SInv
  <2> HIDE DEF f, others, entries
  <2>2. IsFiniteSet(raced \union {Entry(e, f)} \union entries)
    BY <1>2, <2>1, FS_Union
  <2> QED  BY <1>1, <2>2 DEF SInv
<1>4. raced \subseteq raced' /\ ~ Fresh(r)
  BY <1>1 DEF Fresh
<1> HIDE DEF r, f, others, entry, entries
<1> QED  BY <1>1, <1>3, <1>4, SplitsStep

\* A new device is provided only when no like observation is stored.
LEMMA ProvisionSplits ==
    ASSUME SInv, RInv', NEW t \in Threads, Link(t) \/ ProvisionDevice(t)
    PROVE  SInv'
<1> DEFINE g == thread[t].facts
<1>1. ASSUME NEW r, Only(t, r), Fresh(r) => \A e \in stored : ~ Like(r.facts, facts[e])
      PROVE  SInv'
  <2>1. To(t, r) /\ UNCHANGED Rows /\ raced' = raced
    BY <1>1 DEF Only, vars, Rows
  <2> QED  BY <1>1, <2>1, SplitsStep DEF SInv
<1>2. ASSUME NEW d, NEW at, WithDevice(t, d, at),
             d = None => \A e \in stored : ~ Like(g, facts[e])
      PROVE  SInv'
  <2> DEFINE r == [pc |-> IF d = None THEN "commit" ELSE "media", event |-> thread[t].event,
                   facts |-> g, computer |-> thread[t].computer,
                   result |-> thread[t].result, candidate |-> thread[t].candidate,
                   device |-> d, at |-> at, media |-> None]
  <2>1. Only(t, r)
    BY <1>2 DEF WithDevice
  <2>2. Fresh(r) => \A e \in stored : ~ Like(r.facts, facts[e])
    BY <1>2 DEF Fresh
  <2> HIDE DEF r
  <2> QED  BY <1>1, <2>1, <2>2
<1>3. CASE Link(t)
  <2>1. ~ Fresh(Idle)
    BY IdlePc DEF Fresh
  <2>2. CASE thread[t].candidate \in known
    <3>1. thread[t].candidate # None
      BY <2>2, BoundsAssumption DEF known, DeviceIds, None
    <3> QED  BY <1>2, <1>3, <2>2, <3>1 DEF Link
  <2>3. CASE thread[t].candidate \notin known
    BY <1>1, <1>3, <2>1, <2>3 DEF Link, Answer500
  <2> QED  BY <2>2, <2>3
<1>4. CASE ProvisionDevice(t)
  <2>1. thread[t] \in Handled /\ g \in Facts
    BY <1>4, IdlePc, KeepsRequest DEF ProvisionDevice, Busy, SInv, RInv
  <2>2. \A p \in stored : facts[p] \in Facts /\ device[p] \in DeviceIds /\ device[p] # None
    BY BoundsAssumption
    DEF SInv, RInv, TInv, RowsTyped, DevicesUsed, stored, known, DeviceIds, None
  <2>3. ASSUME NEW p \in Priors(g), WithDevice(t, device[p], devices[device[p]])
        PROVE  SInv'
    <3>1. p \in stored
      BY DEF Priors
    <3> QED  BY <1>2, <2>2, <2>3, <3>1
  <2>4. ASSUME Priors(g) = {}, WithDevice(t, None, None) PROVE SInv'
    <3>1. \A e \in stored : ~ Like(g, facts[e])
      BY <2>1, <2>2, <2>4, PriorsFound
    <3> QED  BY <1>2, <2>4, <3>1
  <2> QED  BY <1>4, <2>3, <2>4 DEF ProvisionDevice
<1> QED  BY <1>3, <1>4

\* The devices of f's hardware are as many as the overlapping ingests that
\* made them, and the one that adds a device is one more.
LEMMA NewDeviceRaced ==
    ASSUME SInv, NEW e, e \notin stored, NEW f, f.hardware # NoHash,
           NEW d, d \notin DevicesOf(f.computer, f.hardware),
           \A q \in stored : Like(f, facts[q]) =>
               {Entry(q, facts[q]), Entry(e, f)} \subseteq raced,
           DevicesOf(f.computer, f.hardware) # {}
    PROVE  Cardinality(DevicesOf(f.computer, f.hardware) \union {d})
             <= Cardinality(RacingOf(f.computer, f.hardware))
<1> DEFINE before == DevicesOf(f.computer, f.hardware)
           racing == RacingOf(f.computer, f.hardware)
           first(x) == CHOOSE q \in stored : Like(f, facts[q]) /\ device[q] = x
           ingest == [x \in before \union {d} |->
                        IF x = d THEN Entry(e, f) ELSE Entry(first(x), facts[first(x)])]
<1>1. ASSUME NEW x \in before
      PROVE  first(x) \in stored /\ Like(f, facts[first(x)]) /\ device[first(x)] = x
  <2>1. \E q \in stored : Like(f, facts[q]) /\ device[q] = x
    BY DEF DevicesOf, Like
  <2> QED  BY <2>1
<1> HIDE DEF first
<1>2. \A x \in before : Entry(first(x), facts[first(x)]) \in racing
  BY <1>1 DEF RacingOf, Entry, Like
<1>3. Entry(e, f) \in racing
  <2>1. PICK x \in before : TRUE
    OBVIOUS
  <2>2. Entry(e, f) \in raced
    BY <1>1, <2>1
  <2> QED  BY <2>2 DEF RacingOf, Entry
<1>4. d \notin before /\ IsFiniteSet(racing)
  BY FS_Subset DEF SInv, RacingOf
<1> HIDE DEF before, racing
<1>5. ingest \in Injection(before \union {d}, racing)
  <2>1. ingest \in [before \union {d} -> racing]
    BY <1>2, <1>3
  <2>2. ASSUME NEW x \in before \union {d}, NEW y \in before \union {d},
               ingest[x] = ingest[y]
        PROVE  x = y
    <3>1. ingest[x].event = IF x = d THEN e ELSE first(x)
      BY DEF Entry
    <3>2. ingest[y].event = IF y = d THEN e ELSE first(y)
      BY DEF Entry
    <3> QED  BY <1>1, <1>4, <2>2, <3>1, <3>2
  <2>3. \A x, y \in DOMAIN ingest : ingest[x] = ingest[y] => x = y
    BY <2>2
  <2> HIDE DEF ingest
  <2> QED  BY <2>1, <2>3 DEF Injection, IsInjective
<1> HIDE DEF ingest
<1>6. Cardinality(before \union {d}) <= Cardinality(racing)
  BY <1>4, <1>5, FS_Injection
<1> QED  BY <1>6 DEF before, racing

LEMMA CommitSplits ==
    ASSUME SInv, RInv', NEW t \in Threads, Commit(t)
    PROVE  SInv'
<1> DEFINE r == thread[t]
           e == r.event
           f == r.facts
           d == Numbered(r.device)
<1>1. /\ e \in EventIds /\ e \notin stored /\ f \in Facts /\ d \in DeviceIds
      /\ facts' = [facts EXCEPT ![e] = f]
      /\ device' = [device EXCEPT ![e] = d]
      /\ stored' = stored \union {e}
      /\ known' = known \union {d}
      /\ nextId <= nextId' /\ d <= nextId' /\ nextId' \in Nat
      /\ d > nextId \/ \E q \in stored : device[q] = d
      /\ \A q \in stored : device[q] = d => Like(f, facts[q])
      /\ RowsTyped'
  BY CommitStores DEF SInv, RInv
<1>2. /\ Busy(t) /\ r.pc = "commit" /\ r.device \in known \union {None}
      /\ raced' = raced /\ thread' = [thread EXCEPT ![t] = Idle]
  BY IdlePc DEF Commit, RowsThere, To, Busy
<1>3. thread'[t] = Idle /\ \A u \in Threads \ {t} : thread'[u] = thread[u]
  BY <1>2 DEF SInv, RInv, TInv, ThreadsTyped
<1>4. /\ facts'[e] = f /\ device'[e] = d
      /\ \A q \in stored : facts'[q] = facts[q] /\ device'[q] = device[q] /\ q # e
  BY <1>1 DEF SInv, RInv, TInv, RowsTyped, stored
<1>5. Fresh(r) => \A q \in stored : Like(f, facts[q]) =>
        {Entry(q, facts[q]), Entry(e, f)} \subseteq raced
  BY DEF SInv, FreshOverlapped
<1>6. r.device # None => \E q \in stored : device[q] = d /\ Like(f, facts[q])
  BY <1>1, <1>2 DEF Numbered, SInv, RInv, TInv, DevicesUsed
<1>7. Like(f, f) <=> f.hardware # NoHash
  BY DEF Like
<1>8. ~ Fresh(r) => r.device # None
  BY <1>2 DEF Fresh
<1> HIDE DEF e, d
<1>9. FreshOverlapped'
  <2> SUFFICES ASSUME NEW u \in Threads, Fresh(thread'[u]), NEW q \in stored',
                      Like(thread'[u].facts, facts'[q])
               PROVE  {Entry(q, facts'[q]), Entry(thread'[u].event, thread'[u].facts)}
                        \subseteq raced
    BY <1>2 DEF FreshOverlapped, Fresh, Entry
  <2>1. u # t /\ thread'[u] = thread[u]
    BY <1>3, IdlePc DEF Fresh
  <2>2. CASE q \in stored
    BY <1>4, <2>1, <2>2 DEF SInv, FreshOverlapped
  <2>3. CASE q = e
    <3>1. Busy(u) /\ thread[u].facts.computer = f.computer
      BY <1>4, <2>1, <2>3, IdlePc DEF Busy, Fresh, Like
    <3>2. Entry(r.event, f) \in raced /\ Entry(thread[u].event, thread[u].facts) \in raced
      BY <1>2, <2>1, <3>1 DEF SInv, RInv, OverlapsRecorded
    <3> QED  BY <1>4, <2>1, <2>3, <3>2 DEF e
  <2> QED  BY <1>1, <2>2, <2>3
<1>10. ASSUME NEW c \in Computers, NEW h \in Hardware PROVE FewDevices(c, h)'
  <2>1. FewDevices(c, h) /\ h # NoHash
    BY SplitIsFew, BoundsAssumption DEF SInv
  <2>2. DevicesOf(c, h)' = IF f.computer = c /\ f.hardware = h
                           THEN DevicesOf(c, h) \union {d} ELSE DevicesOf(c, h)
    BY <1>1, <1>4 DEF DevicesOf
  <2>3. CASE DevicesOf(c, h)' \subseteq DevicesOf(c, h)
    BY <1>2, <2>1, <2>3, StillFew DEF SInv, RInv
  <2>4. CASE ~ (DevicesOf(c, h)' \subseteq DevicesOf(c, h))
    <3>1. /\ f.computer = c /\ f.hardware = h /\ d \notin DevicesOf(c, h)
          /\ DevicesOf(c, h)' = DevicesOf(c, h) \union {d}
      BY <2>2, <2>4
    <3>2. Fresh(r)
      <4> SUFFICES ASSUME r.device # None PROVE FALSE
        BY <1>8
      <4> QED  BY <1>6, <3>1 DEF DevicesOf, Like
    <3>3. CASE DevicesOf(c, h) = {}
      <4>1. DevicesOf(c, h)' = {d}
        BY <3>1, <3>3
      <4>2. Cardinality(DevicesOf(c, h)') = 1
        BY <4>1, FS_Singleton
      <4> QED  BY <4>2 DEF FewDevices
    <3>4. CASE DevicesOf(c, h) # {}
      <4>1. Cardinality(DevicesOf(c, h) \union {d}) <= Cardinality(RacingOf(c, h))
        BY <1>1, <1>5, <2>1, <3>1, <3>2, <3>4, NewDeviceRaced
      <4>2. RacingOf(c, h)' = RacingOf(c, h)
        BY <1>2 DEF RacingOf
      <4> QED  BY <3>1, <4>1, <4>2 DEF FewDevices
    <3> QED  BY <3>3, <3>4
  <2> QED  BY <2>3, <2>4
<1>11. SplitOnlyByRace'
  BY <1>10 DEF SplitOnlyByRace, FewDevices, DevicesOf, RacingOf
<1> QED  BY <1>2, <1>9, <1>11 DEF SInv

\* A deletion takes devices away and adds none.
LEMMA PruneSplits ==
    ASSUME SInv, RInv', NEW gone \in SUBSET stored, NEW dead, DeleteRows(gone, dead),
           UNCHANGED <<thread, raced>>
    PROVE  SInv'
<1>1. /\ facts' = [q \in EventIds |-> IF q \in gone THEN NoFacts ELSE facts[q]]
      /\ device' = [q \in EventIds |-> IF q \in gone THEN None ELSE device[q]]
  BY DEF DeleteRows
<1>2. /\ stored' \subseteq stored
      /\ \A q \in stored' : facts'[q] = facts[q] /\ device'[q] = device[q]
  BY <1>1 DEF stored
<1>3. FreshOverlapped'
  BY <1>2 DEF SInv, FreshOverlapped, Fresh, Entry
<1>4. ASSUME NEW c \in Computers, NEW h \in Hardware PROVE FewDevices(c, h)'
  <2>1. DevicesOf(c, h)' \subseteq DevicesOf(c, h)
    BY <1>2 DEF DevicesOf
  <2>2. FewDevices(c, h)
    BY SplitIsFew DEF SInv
  <2> QED  BY <2>1, <2>2, StillFew DEF SInv, RInv
<1>5. SplitOnlyByRace'
  BY <1>4 DEF SplitOnlyByRace, FewDevices, DevicesOf, RacingOf
<1> QED  BY <1>3, <1>5 DEF SInv

LEMMA SInitInv == TInit => SInv
<1> SUFFICES ASSUME TInit PROVE SInv
  OBVIOUS
<1>1. stored = {} /\ raced = {}
  BY DEF TInit, Init, stored
<1>2. SplitOnlyByRace
  BY <1>1, FS_EmptySet DEF SplitOnlyByRace
<1> QED  BY <1>1, <1>2, RInitInv, FS_EmptySet DEF SInv, FreshOverlapped

LEMMA SStepInv == ASSUME SInv, [TNext]_tvars PROVE SInv'
<1>1. RInv'
  BY RStepInv DEF SInv
<1>2. CASE \E e \in EventIds : Send(e)
  BY <1>1, <1>2, InsertSplits DEF Send
<1>3. ASSUME NEW t \in Threads, Request(t) \/ Dies(t) PROVE SInv'
  <2>1. ASSUME NEW r, To(t, r), UNCHANGED vars, UNCHANGED raced, ~ Fresh(r) PROVE SInv'
    <3>1. UNCHANGED Rows
      BY <2>1 DEF vars, Rows
    <3> QED  BY <1>1, <2>1, <3>1, SplitsStep DEF SInv
  <2>2. ~ Fresh(Idle)
    BY IdlePc DEF Fresh
  <2>3. CASE CommitFails(t) \/ Dies(t)
    BY <2>1, <2>2, <2>3 DEF CommitFails, Answer500, Dies, Only
  <2>4. CASE ReadComputer(t) \/ AddComputer(t) \/ Classify(t)
    <3>1. ASSUME NEW r, Only(t, r), r.pc # "commit" PROVE SInv'
      BY <2>1, <3>1 DEF Only, Fresh
    <3>2. CASE ReadComputer(t)
      BY <3>1, <3>2 DEF ReadComputer
    <3>3. CASE AddComputer(t)
      <4>1. thread[t] \in Located
        BY <3>3, IdlePc, KeepsRequest
        DEF AddComputer, Busy, SInv, RInv, Handled, Inserted, Located, Classified, Placed
      <4>2. [thread[t] EXCEPT !.pc = "candidates"].pc # "commit"
        BY <4>1 DEF Located
      <4> QED  BY <2>1, <2>2, <3>1, <3>3, <4>2 DEF AddComputer, Answer500, Only
    <3>4. CASE Classify(t)
      BY <3>1, <3>4 DEF Classify
    <3> QED  BY <2>4, <3>2, <3>3, <3>4
  <2>5. CASE ReadMedia(t) \/ AddMedia(t)
    <3>1. thread[t] \in Placed /\ thread[t].device # None
      BY <2>5, IdlePc, KeepsRequest
      DEF ReadMedia, AddMedia, Busy, SInv, RInv, TInv, PlacesLike, Handled, Inserted,
          Located, Classified, Placed
    <3>2. ASSUME NEW r, Only(t, r), r.device # None PROVE SInv'
      BY <2>1, <3>2 DEF Only, Fresh
    <3>3. CASE ReadMedia(t)
      BY <3>1, <3>2, <3>3 DEF ReadMedia, Placed
    <3>4. CASE AddMedia(t)
      BY <2>1, <2>2, <3>1, <3>2, <3>4 DEF AddMedia, Answer500, Only, Placed
    <3> QED  BY <2>5, <3>3, <3>4
  <2> QED  BY <1>1, <1>3, <2>3, <2>4, <2>5, ProvisionSplits, CommitSplits DEF Request
<1>4. CASE Delete
  <2>1. UNCHANGED <<thread, raced>>
    BY <1>4 DEF Delete
  <2>2. PICK gone \in SUBSET stored : \E dead : DeleteRows(gone, dead)
    <3>1. ASSUME NEW e \in EventIds, DeleteObservation(e)
          PROVE  {e} \in SUBSET stored /\ DeleteRows({e}, Pruned({e}))
      BY <3>1 DEF DeleteObservation
    <3>2. ASSUME NEW d \in DeviceIds, DeleteDevice(d)
          PROVE  {e \in stored : device[e] = d} \in SUBSET stored
                   /\ DeleteRows({e \in stored : device[e] = d}, {d})
      BY <3>2 DEF DeleteDevice
    <3> QED  BY <1>4, <3>1, <3>2 DEF Delete
  <2> QED  BY <1>1, <2>1, <2>2, PruneSplits
<1>5. CASE Quiet
  BY <1>1, <1>5
  DEF SInv, FreshOverlapped, SplitOnlyByRace, Fresh, Entry, Quiet, vars, stored
<1> QED  BY <1>2, <1>3, <1>4, <1>5, QuietStep DEF TNext

\* One computer's hardware is split over several devices only by ingests of
\* that computer that overlapped, and over no more devices than there were
\* such ingests: each device but the first is committed by a request that read
\* no like observation, and overlapped the ingests of all that are stored by
\* then (identity.py:176-199, main.py:384-420).
THEOREM SplitsAreRaces == TSpec => []SplitOnlyByRace
<1>1. TInit => SInv
  BY SInitInv
<1>2. SInv /\ [TNext]_tvars => SInv'
  BY SStepInv
<1>3. SInv => SplitOnlyByRace
  BY DEF SInv
<1> QED  BY <1>1, <1>2, <1>3, PTL DEF TSpec
=============================================================================
