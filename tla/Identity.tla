------------------------------ MODULE Identity -----------------------------
(***************************************************************************)
(* The PIB Server's identity engine (FlashControlPIBServer/app/identity.py)*)
(* and the handlers that add to and delete from what it decides            *)
(* (FlashControlPIBServer/app/main.py): ingest_observations,               *)
(* agent_heartbeat, delete_observation, delete_device, delete_computer.    *)
(*                                                                         *)
(* Each handler is one database transaction and a step here: requests are  *)
(* taken one after the other, and one request carries one observation, as  *)
(* the agent's queue and the Proxy send them.                              *)
(*                                                                         *)
(* A hash, a serial, a computer_key is a value to be compared.  software   *)
(* is the hash a current agent sends for both the media identity and the   *)
(* media state column.  A media state row is its unique key, the pair of   *)
(* its device and the hash; of its other columns, and of those of devices  *)
(* and computers, last_seen_at is kept.                                    *)
(***************************************************************************)
EXTENDS Integers, FiniteSets

CONSTANTS
    EventIds,      \* event_id of the observations
    Computers,     \* computer_key values
    Agents,        \* rows of agents
    Hardware,      \* hardware_stable_sha256 values
    Software,      \* media_identity_sha256 values
    Serials,       \* what serial_identifiers returns elements of
    NoHash,        \* a hash the agent could not compute
    MaxTime,       \* bound: observed_at_utc is in 1 .. MaxTime
    Window,        \* COLLISION_WINDOW in the unit of observed_at_utc
    Lookback,      \* LIMIT of _latest_observations
    MaxDevices,    \* bound: physical device ids ever drawn
    Reports        \* bound: what an observation may say, a set of Facts

Times == 1 .. MaxTime
DeviceIds == 1 .. MaxDevices
None == 0   \* no device, no time: a NULL column or a row that is not there

\* The columns of an observation the engine reads.
Facts == [computer : Computers,
          hardware : Hardware \union {NoHash},
          software : Software \union {NoHash},
          serials  : SUBSET Serials,
          time     : Times]

ASSUME BoundsAssumption ==
    /\ Reports \subseteq Facts
    /\ IsFiniteSet(EventIds)
    /\ NoHash \notin Hardware \union Software
    /\ MaxTime \in Nat \ {0}
    /\ Window \in Nat
    /\ Lookback \in Nat
    /\ MaxDevices \in Nat

NoFacts == [computer |-> None]

Results == {"SERIAL_COLLISION", "CLONE_SUSPECTED", "SAME", "LIKELY_SAME",
            "UNKNOWN", "DIFFERENT"}

NoDecision == [result |-> "none"]

VARIABLES
    facts,      \* per event_id: the observation's columns, or NoFacts
    device,     \* its physical_device_id
    decision,   \* the identity_decisions row of the observation
    devices,    \* per device id: last_seen_at of the physical_devices row
    media,      \* per <<device, hash>>: last_seen_at of the media_states row
    computers,  \* per computer_key: last_seen_at of the computers row
    agentAt,    \* agents.computer_id
    nextId      \* device ids drawn so far

vars == <<facts, device, decision, devices, media, computers, agentAt, nextId>>

NoComputer == "none"

stored == {e \in EventIds : facts[e] # NoFacts}
known == {d \in DeviceIds : devices[d] # None}
MediaKeys == DeviceIds \X (Software \union {NoHash})
MediaOf(e) == <<device[e], facts[e].software>>

Init ==
    /\ facts = [e \in EventIds |-> NoFacts]
    /\ device = [e \in EventIds |-> None]
    /\ decision = [e \in EventIds |-> NoDecision]
    /\ devices = [d \in DeviceIds |-> None]
    /\ media = [m \in MediaKeys |-> None]
    /\ computers = [c \in Computers |-> None]
    /\ agentAt = [a \in Agents |-> NoComputer]
    /\ nextId = 0

Latest(s, t) == IF s >= t THEN s ELSE t

----------------------------------------------------------------------------
(* Classification of a pair of observations *)

\* Mutant of SameHardware: two missing hashes count as equal.
SameHardwareOrMissing(f, p) == f.hardware = p.hardware

SameHardware(f, p) == f.hardware # NoHash /\ f.hardware = p.hardware
SameMedia(f, p) == f.software # NoHash /\ f.software = p.software
CommonSerials(f, p) == f.serials \intersect p.serials # {}

ClassifyPair(f, p) ==
    CASE SameHardware(f, p) /\ SameMedia(f, p) /\ f.computer = p.computer -> "SAME"
      [] SameHardware(f, p) /\ SameMedia(f, p) /\ f.computer # p.computer -> "LIKELY_SAME"
      [] ~ SameHardware(f, p) /\ SameMedia(f, p) -> "CLONE_SUSPECTED"
      [] ~ SameHardware(f, p) /\ ~ SameMedia(f, p) /\ CommonSerials(f, p) -> "SERIAL_COLLISION"
      [] SameHardware(f, p) /\ ~ SameMedia(f, p) -> "UNKNOWN"
      [] OTHER -> "DIFFERENT"

Distance(s, t) == IF s >= t THEN s - t ELSE t - s

CollisionContext(f, p) ==
    f.computer # p.computer /\ Distance(f.time, p.time) <= Window

\* Matching evidence seen on two computers at once is a collision.
Verdict(f, p) ==
    LET pair == ClassifyPair(f, p)
    IN  IF CollisionContext(f, p) /\ pair \in {"UNKNOWN", "LIKELY_SAME", "SAME"}
        THEN "SERIAL_COLLISION" ELSE pair

Priority(result) ==
    CASE result = "SERIAL_COLLISION" -> 7
      [] result = "CLONE_SUSPECTED" -> 6
      [] result = "SAME" -> 5
      [] result = "LIKELY_SAME" -> 3
      [] result = "UNKNOWN" -> 2
      [] OTHER -> 0

----------------------------------------------------------------------------
(* resolve_identity *)

\* ORDER BY observed_at_utc DESC LIMIT limit; rows of one time come in any
\* order, so more than one set qualifies.
IsLatest(chosen, limit) ==
    /\ chosen \subseteq stored
    /\ Cardinality(chosen) <= limit
    /\ Cardinality(chosen) < limit => chosen = stored
    /\ \A p \in chosen, q \in stored \ chosen : facts[p].time >= facts[q].time

\* The loop keeps the first candidate of the highest priority it meets; all
\* verdicts of one priority have the same confidence.
Candidates(f, chosen) ==
    LET matching == {p \in chosen : Verdict(f, facts[p]) # "DIFFERENT"}
        best == {p \in matching : \A q \in matching :
                    Priority(Verdict(f, facts[p])) >= Priority(Verdict(f, facts[q]))}
    IN  {p \in best : \A q \in best : facts[p].time >= facts[q].time}

\* Mutant of Priors: no device is ever reused.
NoPriors(f) == {p \in stored : FALSE}

\* Mutant of Priors: the computer is not compared.
PriorsAnywhere(f) ==
    {p \in stored : f.hardware # NoHash /\ facts[p].hardware = f.hardware}

\* Observations _reusable_provisional_device may find: the latest with the
\* same hardware on the same computer.
Priors(f) ==
    LET alike == {p \in stored : /\ f.hardware # NoHash
                                 /\ facts[p].hardware = f.hardware
                                 /\ facts[p].computer = f.computer}
    IN  {p \in alike : \A q \in alike : facts[p].time >= facts[q].time}

Seen(d, f) == [devices EXCEPT ![d] = Latest(@, f.time)]

\* The candidate's device gets the observation.
AutoLink(e, f, p) ==
    /\ device' = [device EXCEPT ![e] = device[p]]
    /\ devices' = Seen(device[p], f)
    /\ UNCHANGED nextId

\* The device of the latest like observation on this computer, or a new one.
Provision(e, f) ==
    \/ \E p \in Priors(f) :
         /\ device' = [device EXCEPT ![e] = device[p]]
         /\ devices' = Seen(device[p], f)
         /\ UNCHANGED nextId
    \/ /\ Priors(f) = {}
       /\ nextId < MaxDevices
       /\ nextId' = nextId + 1
       /\ device' = [device EXCEPT ![e] = nextId']
       /\ devices' = [devices EXCEPT ![nextId'] = f.time]

\* _get_or_create_media_state, for the device just assigned.
TouchMedia(e, f) ==
    media' = [media EXCEPT ![<<device'[e], f.software>>] = Latest(@, f.time)]

Decide(e, result, candidate) ==
    decision' = [decision EXCEPT ![e] =
        [result |-> result, auto |-> result = "SAME", candidate |-> candidate,
         assigned |-> device'[e]]]

ResolveIdentity(e, f) ==
    \E chosen \in SUBSET stored :
        /\ IsLatest(chosen, Lookback)
        /\ \/ /\ Candidates(f, chosen) = {}
              /\ Provision(e, f)
              /\ Decide(e, "UNKNOWN", None)
           \/ \E p \in Candidates(f, chosen) :
                /\ IF Verdict(f, facts[p]) = "SAME"
                   THEN AutoLink(e, f, p) ELSE Provision(e, f)
                /\ Decide(e, Verdict(f, facts[p]), device[p])
        /\ TouchMedia(e, f)

----------------------------------------------------------------------------
(* The handlers *)

\* Mutant of EnsureComputer: the last report wins, however old.
EnsureComputerAsReported(c, t) == computers' = [computers EXCEPT ![c] = t]

\* ensure_computer
EnsureComputer(c, t) == computers' = [computers EXCEPT ![c] = Latest(@, t)]

\* A direct agent's observation also tells where the agent runs; one a Proxy
\* forwarded does not.
Locate(c) ==
    \/ \E a \in Agents : agentAt' = [agentAt EXCEPT ![a] = c]
    \/ UNCHANGED agentAt

\* An event_id that is stored already changes nothing.
IngestObservation(e) ==
    /\ e \notin stored
    /\ \E f \in Reports :
         /\ facts' = [facts EXCEPT ![e] = f]
         /\ EnsureComputer(f.computer, f.time)
         /\ Locate(f.computer)
         /\ ResolveIdentity(e, f)

\* A heartbeat is dated by the server's own clock, later than any report.
AgentHeartbeat(a) ==
    /\ \E c \in Computers :
         /\ EnsureComputer(c, MaxTime)
         /\ agentAt' = [agentAt EXCEPT ![a] = c]
    /\ UNCHANGED <<facts, device, decision, devices, media, nextId>>

\* Mutant of DeleteRows: clear_device_candidate_refs is not called.
DeleteRowsKeepingRefs(gone, dead) ==
    LET left == stored \ gone
        orphans == {MediaOf(e) : e \in gone} \ {MediaOf(e) : e \in left}
    IN  /\ facts' = [e \in EventIds |-> IF e \in gone THEN NoFacts ELSE facts[e]]
        /\ device' = [e \in EventIds |-> IF e \in gone THEN None ELSE device[e]]
        /\ decision' = [e \in EventIds |->
             IF e \in left THEN decision[e] ELSE NoDecision]
        /\ devices' = [d \in DeviceIds |-> IF d \in dead THEN None ELSE devices[d]]
        /\ media' = [m \in MediaKeys |->
             IF m \in orphans \/ m[1] \in dead THEN None ELSE media[m]]

\* Deleting the observations of gone with their decisions, the media states
\* only they referred to, and the devices of dead with all that hangs on them.
DeleteRows(gone, dead) ==
    LET left == stored \ gone
        orphans == {MediaOf(e) : e \in gone} \ {MediaOf(e) : e \in left}
    IN  /\ facts' = [e \in EventIds |-> IF e \in gone THEN NoFacts ELSE facts[e]]
        /\ device' = [e \in EventIds |-> IF e \in gone THEN None ELSE device[e]]
        /\ decision' = [e \in EventIds |->
             IF e \notin left THEN NoDecision
             ELSE IF decision[e].candidate \in dead
                  THEN [decision[e] EXCEPT !.candidate = None]
                  ELSE decision[e]]
        /\ devices' = [d \in DeviceIds |-> IF d \in dead THEN None ELSE devices[d]]
        /\ media' = [m \in MediaKeys |->
             IF m \in orphans \/ m[1] \in dead THEN None ELSE media[m]]

\* Mutant of Pruned: a device outlives its observations.
NeverPruned(gone) == {}

\* prune_device: the devices that lose their last observation.
Pruned(gone) ==
    {d \in known : /\ \E e \in gone : device[e] = d
                   /\ \A e \in stored \ gone : device[e] # d}

DeleteObservation(e) ==
    /\ e \in stored
    /\ DeleteRows({e}, Pruned({e}))
    /\ UNCHANGED <<computers, agentAt, nextId>>

DeleteDevice(d) ==
    /\ d \in known
    /\ DeleteRows({e \in stored : device[e] = d}, {d})
    /\ UNCHANGED <<computers, agentAt, nextId>>

DeleteComputer(c) ==
    /\ computers[c] # None
    /\ LET gone == {e \in stored : facts[e].computer = c}
       IN  DeleteRows(gone, Pruned(gone))
    /\ computers' = [computers EXCEPT ![c] = None]
    /\ agentAt' = [a \in Agents |-> IF agentAt[a] = c THEN NoComputer ELSE agentAt[a]]
    /\ UNCHANGED nextId

----------------------------------------------------------------------------

Next ==
    \/ \E e \in EventIds : IngestObservation(e) \/ DeleteObservation(e)
    \/ \E a \in Agents : AgentHeartbeat(a)
    \/ \E d \in DeviceIds : DeleteDevice(d)
    \/ \E c \in Computers : DeleteComputer(c)

Spec == Init /\ [][Next]_vars

----------------------------------------------------------------------------
(* Properties *)

Decision == [result : Results, auto : BOOLEAN, candidate : DeviceIds \union {None},
             assigned : DeviceIds]

TypeOK ==
    /\ facts \in [EventIds -> Facts \union {NoFacts}]
    /\ device \in [EventIds -> DeviceIds \union {None}]
    /\ decision \in [EventIds -> Decision \union {NoDecision}]
    /\ devices \in [DeviceIds -> Times \union {None}]
    /\ media \in [MediaKeys -> Times \union {None}]
    /\ computers \in [Computers -> Times \union {None}]
    /\ agentAt \in [Agents -> Computers \union {NoComputer}]
    /\ nextId \in 0 .. MaxDevices

\* Identity linking is conservative: observations share a physical device
\* only if one computer reported them with one hardware hash, whatever was
\* deleted in between (README.md:69-77 of the server).
NeverMerged ==
    \A e, f \in stored :
        (e # f /\ device[e] = device[f]) =>
            /\ facts[e].computer = facts[f].computer
            /\ facts[e].hardware = facts[f].hardware
            /\ facts[e].hardware # NoHash

\* The set of provisional devices stays bounded: one per computer and
\* hardware, even if the lookback misses the earlier observations
\* (identity.py:181-190).
OneDevicePerHardware ==
    \A e, f \in stored :
        (/\ facts[e].computer = facts[f].computer
         /\ facts[e].hardware = facts[f].hardware
         /\ facts[e].hardware # NoHash) => device[e] = device[f]

\* No row refers to a row that was deleted: observations to devices, media
\* states and computers, decisions to observations and devices, agents to
\* computers.
NoDanglingReference ==
    /\ \A e \in EventIds : decision[e] # NoDecision <=> e \in stored
    /\ \A e \in stored :
         /\ device[e] \in known
         /\ media[MediaOf(e)] # None
         /\ computers[facts[e].computer] # None
         /\ decision[e].assigned = device[e]
         /\ decision[e].candidate \in known \union {None}
    /\ \A m \in MediaKeys : media[m] # None => m[1] \in known
    /\ \A a \in Agents : agentAt[a] # NoComputer => computers[agentAt[a]] # None

\* Deleting leaves nothing behind: a device and a media state exist only
\* while an observation refers to them.
NoOrphan ==
    /\ \A d \in known : \E e \in stored : device[e] = d
    /\ \A m \in MediaKeys : media[m] # None => \E e \in stored : MediaOf(e) = m

\* A decision that links says SAME and links to its candidate; one that
\* suspects a clone or a collision, or that sees another computer, never
\* assigns the device it compared with.
DecisionsMatchLinks ==
    \A e \in stored :
        /\ decision[e].auto =>
             decision[e].result = "SAME" /\ decision[e].candidate = device[e]
        /\ decision[e].result \in {"SERIAL_COLLISION", "CLONE_SUSPECTED", "LIKELY_SAME"}
             => decision[e].candidate # device[e]

\* last_seen_at covers every observation still there, however late and in
\* whatever order the observations arrived.
LastSeenCovers ==
    \A e \in stored :
        /\ devices[device[e]] >= facts[e].time
        /\ media[MediaOf(e)] >= facts[e].time
        /\ computers[facts[e].computer] >= facts[e].time
=============================================================================
