-------------------------- MODULE InstallerProofs --------------------------
(***************************************************************************)
(* Proofs about Installer, for every set of observations and layouts of    *)
(* the agent found, every number of commands, UUIDs and failures.          *)
(***************************************************************************)
EXTENDS Installer, TLAPS

----------------------------------------------------------------------------
(* The inductive invariant *)

OnlyOne(place) == place["install"] = None \/ place["state"] = None
Somewhere(place) == place["install"] # None \/ place["state"] # None

\* Until something is excused there is one queue.  What an old configuration
\* points to in the install directory is not missing altogether, so a service
\* that starts there during an install would be excused; and from the step
\* that moves the queue until the directory is cleared none is in it.
QueueSafe == excused = {} =>
    /\ OnlyOne(queue)
    /\ pending \subseteq Kept
    /\ config # None /\ config.queue = "install" => Somewhere(queue)
    /\ pc \in {"move id", "stop again", "clear"} => queue["install"] = None

\* The same for the UUID, which is in the state directory when it is persisted.
IdSafe == excused \subseteq {"wal"} =>
    /\ OnlyOne(id)
    /\ identity # None => Somewhere(id) /\ \A d \in Dirs : id[d] \in {None, identity}
    /\ config # None /\ config.id = "install" => Somewhere(id)
    /\ pc \in {"stop again", "clear", "copy", "identity"} => id["install"] = None

Inv == TypeOK /\ QueueSafe /\ IdSafe

QueueFiles == [main : SUBSET Rows, all : SUBSET Rows]
Services == [queue : Dirs, id : 1 .. ids]

LEMMA NoneIsNothing ==
    /\ None \notin Nat /\ None \notin Paths /\ None \notin QueueFiles
    /\ \A n \in Nat : None \notin 1 .. n
    /\ None \notin [queue : Dirs, id : Nat]
  BY InstallerAssumption DEF QueueFiles

\* The numbers of the state.
LEMMA Numbers ==
    ASSUME TypeOK
    PROVE  /\ ids \in Nat /\ faults \in 0 .. MaxFaults /\ commands \in 0 .. MaxCommands
           /\ id \in [Dirs -> (1 .. ids) \union {None}]
           /\ identity \in (1 .. ids) \union {None}
  BY DEF TypeOK

LEMMA OneMore ==
    ASSUME NEW m \in Nat, NEW n \in Nat, n = m \/ n = m + 1
    PROVE  1 .. m \subseteq 1 .. n /\ (n = m + 1 => n \in 1 .. n)
  OBVIOUS

LEMMA ConfiguredType ==
    ASSUME TypeOK
    PROVE  /\ Configured \in Paths /\ Configured.queue \in Dirs /\ Configured.id \in Dirs
           /\ IdDir(Configured) \in Dirs
  BY DEF TypeOK, Configured, Paths, Dirs, IdDir

----------------------------------------------------------------------------
(* Types *)

LEMMA InitType == Init => TypeOK
<1> SUFFICES ASSUME Init PROVE TypeOK
  OBVIOUS
<1>a. /\ pc = "idle" /\ again = FALSE /\ pending = {} /\ excused = {}
      /\ commands \in 0 .. MaxCommands /\ faults \in 0 .. MaxFaults
  BY InstallerAssumption DEF Init
<1>1. CASE /\ files = {} /\ config = None /\ registered = FALSE /\ service = None
           /\ queue = [d \in Dirs |-> None] /\ id = [d \in Dirs |-> None]
           /\ ids = 0 /\ identity = None
  BY <1>a, <1>1 DEF TypeOK
<1>2. CASE \E p \in Layouts :
             /\ files = Files /\ config = p /\ registered = TRUE
             /\ service = [queue |-> p.queue, id |-> 1]
             /\ queue = [d \in Dirs |-> IF d = p.queue THEN [main |-> {}, all |-> {}]
                                        ELSE None]
             /\ id = [d \in Dirs |-> IF d = p.id THEN 1 ELSE None]
             /\ ids = 1 /\ identity = 1
  <2>1. PICK p \in Paths :
             /\ files = Files /\ config = p /\ registered = TRUE
             /\ service = [queue |-> p.queue, id |-> 1]
             /\ queue = [d \in Dirs |-> IF d = p.queue THEN [main |-> {}, all |-> {}]
                                        ELSE None]
             /\ id = [d \in Dirs |-> IF d = p.id THEN 1 ELSE None]
             /\ ids = 1 /\ identity = 1
    BY <1>2, InstallerAssumption
  <2>2. p.queue \in Dirs /\ p.id \in Dirs
    BY DEF Paths
  <2>3. [main |-> {}, all |-> {}] \in QueueFiles
    BY DEF QueueFiles
  <2>4. queue \in [Dirs -> QueueFiles \union {None}] /\ queue[p.queue] # None
    BY <2>1, <2>2, <2>3, NoneIsNothing
  <2>5. 1 \in 1 .. ids /\ ids \in Nat
    BY <2>1
  <2>6. /\ id \in [Dirs -> (1 .. ids) \union {None}]
        /\ service \in [queue : Dirs, id : 1 .. ids] /\ service.queue = p.queue
        /\ identity \in 1 .. ids
    BY <2>1, <2>2, <2>5
  <2> QED
    BY <1>a, <2>1, <2>4, <2>5, <2>6 DEF TypeOK, QueueFiles
<1> QED  BY <1>1, <1>2 DEF Init

\* A step that closes or checkpoints the queue, or leaves it alone, keeps its
\* rows.
KeepsRows ==
    \A d \in Dirs : /\ queue'[d] = None <=> queue[d] = None
                    /\ queue[d] # None => queue'[d].all = queue[d].all

QueueTyped == queue \in [Dirs -> QueueFiles \union {None}]

LEMMA CheckpointedKeeps ==
    ASSUME TypeOK, service # None, Checkpointed(service.queue)
    PROVE  QueueTyped' /\ KeepsRows
<1> DEFINE d == service.queue
<1>1. d \in Dirs /\ queue[d] # None /\ queue[d] \in QueueFiles
  BY DEF TypeOK, QueueFiles
<1>2. queue' = [queue EXCEPT ![d] = [queue[d] EXCEPT !.main = queue[d].all]]
  BY DEF Checkpointed
<1>3. /\ [queue[d] EXCEPT !.main = queue[d].all] \in QueueFiles
      /\ [queue[d] EXCEPT !.main = queue[d].all].all = queue[d].all
  BY <1>1 DEF QueueFiles
<1> HIDE DEF d
<1>4. /\ queue' \in [Dirs -> QueueFiles \union {None}]
      /\ \A e \in Dirs \ {d} : queue'[e] = queue[e]
      /\ queue'[d] # None /\ queue'[d].all = queue[d].all
  BY <1>1, <1>2, <1>3, NoneIsNothing DEF TypeOK, QueueFiles
<1> QED  BY <1>1, <1>4 DEF KeepsRows, QueueTyped

\* What may become of the service and its queue when it is stopped.
Stopping ==
    /\ QueueTyped' /\ KeepsRows
    /\ service' = service \/ service' = None

LEMMA StopsKeep ==
    ASSUME TypeOK,
           Stops \/ Killed \/ StopProcesses \/ StopAndRemove
             \/ UNCHANGED <<queue, service>>
    PROVE  Stopping
<1>1. CASE Stops
  BY <1>1, CheckpointedKeeps DEF Stops, Stopping
<1>2. CASE service' \in {service, None} /\ UNCHANGED queue
  BY <1>2 DEF Stopping, TypeOK, QueueTyped, QueueFiles, KeepsRows
<1> QED  BY <1>1, <1>2 DEF Killed, StopProcesses, StopAndRemove

LEMMA FaultType == ASSUME TypeOK, UNCHANGED faults \/ Fault PROVE faults' \in 0 .. MaxFaults
  BY Numbers, InstallerAssumption DEF Fault

\* A step of the installer that leaves the rest as it is but for the service
\* and what it has open.
LEMMA StoppingType ==
    ASSUME TypeOK, Stopping, UNCHANGED <<files, id, config, pending, ids, identity, excused>>,
           registered' \in BOOLEAN, again' \in BOOLEAN, faults' \in 0 .. MaxFaults,
           commands' \in 0 .. MaxCommands,
           pc' \in {"idle", "stop", "move queue", "move id", "stop again", "clear", "copy",
                    "identity", "config", "replace", "register", "start", "unregister",
                    "delete"}
    PROVE  TypeOK'
<1>1. /\ service' \in Services \union {None}
      /\ service' # None => service' = service /\ service.queue \in Dirs
  BY DEF TypeOK, Stopping, Services
<1>2. service' # None => queue'[service'.queue] # None
  BY <1>1 DEF TypeOK, Stopping, KeepsRows
<1> QED  BY <1>1, <1>2 DEF TypeOK, Stopping, QueueTyped, QueueFiles, Services

LEMMA StartType ==
    ASSUME TypeOK, ServiceStarts, again' \in BOOLEAN, UNCHANGED <<commands, faults>>,
           pc' = pc \/ pc' = "idle"
    PROVE  TypeOK'
<1> DEFINE d == IdDir(Configured)
           q == Configured.queue
<1>1. d \in Dirs /\ q \in Dirs
  BY ConfiguredType
<1>2. /\ KeepOrMakeId(d) /\ OpenQueue(q) /\ service' = [queue |-> q, id |-> id'[d]]
      /\ identity' = IF identity = None THEN id'[d] ELSE identity
      /\ excused' \in {excused, excused \union {"moved"}}
      /\ UNCHANGED <<files, config, registered, pending>>
  BY DEF ServiceStarts
<1> HIDE DEF d, q
<1>3. /\ ids' \in Nat /\ 1 .. ids \subseteq 1 .. ids' /\ id' \in [Dirs -> (1 .. ids') \union {None}]
      /\ id'[d] \in 1 .. ids'
  <2>1. CASE id[d] # None
    BY <1>1, <1>2, <2>1, Numbers DEF KeepOrMakeId
  <2>2. CASE id[d] = None
    <3>1. ids' = ids + 1 /\ id' = [id EXCEPT ![d] = ids']
      BY <1>2, <2>2 DEF KeepOrMakeId
    <3>2. 1 .. ids \subseteq 1 .. ids' /\ ids' \in 1 .. ids' /\ ids' \in Nat
      BY <3>1, Numbers, OneMore
    <3> QED  BY <1>1, <3>1, <3>2, Numbers
  <2> QED  BY <2>1, <2>2
<1>4. queue' \in [Dirs -> QueueFiles \union {None}] /\ queue'[q] # None
  <2>1. [main |-> {}, all |-> {}] \in QueueFiles
    BY DEF QueueFiles
  <2>2. [main |-> {}, all |-> {}] # None
    BY <2>1, NoneIsNothing
  <2> QED  BY <1>1, <1>2, <2>1, <2>2 DEF OpenQueue, TypeOK, QueueFiles
<1>5. service' \in [queue : Dirs, id : 1 .. ids'] /\ service'.queue = q
  BY <1>1, <1>2, <1>3
<1>6. identity' \in (1 .. ids') \union {None}
  BY <1>2, <1>3, Numbers
<1> QED
  BY <1>2, <1>3, <1>4, <1>5, <1>6 DEF TypeOK, QueueFiles

LEMMA ContentType ==
    ASSUME TypeOK, service # None, NEW rows \in SUBSET Rows, Content(service.queue, rows)
    PROVE  /\ QueueTyped'
           /\ \A d \in Dirs : /\ queue'[d] = None <=> queue[d] = None
                              /\ queue[d] # None => queue'[d].all =
                                   IF d = service.queue THEN rows ELSE queue[d].all
<1> DEFINE d == service.queue
<1>1. d \in Dirs /\ queue[d] # None /\ queue[d] \in QueueFiles
  BY DEF TypeOK, QueueFiles
<1>2. queue' = [queue EXCEPT ![d] = [queue[d] EXCEPT !.all = rows]]
  BY DEF Content
<1>3. /\ [queue[d] EXCEPT !.all = rows] \in QueueFiles
      /\ [queue[d] EXCEPT !.all = rows].all = rows
  BY <1>1 DEF QueueFiles
<1> HIDE DEF d
<1>4. /\ queue' \in [Dirs -> QueueFiles \union {None}]
      /\ \A e \in Dirs \ {d} : queue'[e] = queue[e]
      /\ queue'[d] # None /\ queue'[d].all = rows
  BY <1>1, <1>2, <1>3, NoneIsNothing DEF TypeOK, QueueFiles
<1> QED  BY <1>1, <1>4 DEF QueueTyped, d

\* What rmtree leaves of a queue that is open is all of it.
LEMMA RmtreeType ==
    ASSUME TypeOK, Rmtree
    PROVE  /\ files' \subseteq Files /\ QueueTyped'
           /\ id' \in [Dirs -> (1 .. ids) \union {None}]
           /\ config' \in {config, None} /\ faults' \in 0 .. MaxFaults
           /\ queue'["state"] = queue["state"] /\ id'["state"] = id["state"]
           /\ queue'["install"] \in {queue["install"], None}
           /\ id'["install"] \in {id["install"], None}
           /\ InUse("install") => queue' = queue
<1>1. PICK kept \in SUBSET (Files \union {"queue", "id", "config"}) :
        /\ IF kept = Locked THEN UNCHANGED faults ELSE Fault
        /\ Locked \subseteq kept
        /\ files' = files \intersect kept
        /\ queue' = IF "queue" \in kept THEN queue ELSE [queue EXCEPT !["install"] = None]
        /\ id' = IF "id" \in kept THEN id ELSE [id EXCEPT !["install"] = None]
        /\ config' = IF "config" \in kept THEN config ELSE None
  BY DEF Rmtree
<1>2. InUse("install") => "queue" \in kept
  BY <1>1 DEF Locked
<1>3. faults' \in 0 .. MaxFaults
  BY <1>1, FaultType
<1>4. QueueTyped' /\ id' \in [Dirs -> (1 .. ids) \union {None}]
  BY <1>1 DEF TypeOK, QueueTyped, QueueFiles
<1>5. /\ queue'["state"] = queue["state"] /\ id'["state"] = id["state"]
      /\ queue'["install"] \in {queue["install"], None}
      /\ id'["install"] \in {id["install"], None}
  BY <1>1 DEF TypeOK, Dirs
<1> QED  BY <1>1, <1>2, <1>3, <1>4, <1>5 DEF TypeOK

\* Nothing that is open is moved or removed.
LEMMA OpenQueueKept ==
    ASSUME TypeOK, UNCHANGED service, queue'["state"] = queue["state"] \/ queue["state"] = None,
           queue'["install"] = queue["install"] \/ ~InUse("install")
    PROVE  service # None => queue'[service.queue] # None
<1>1. service # None => service.queue \in {"install", "state"} /\ queue[service.queue] # None
  BY DEF TypeOK, Dirs
<1> QED  BY <1>1 DEF InUse

LEMMA TypeStep == TypeOK /\ [Next]_vars => TypeOK'
<1> SUFFICES ASSUME TypeOK, [Next]_vars PROVE TypeOK'
  OBVIOUS
<1> USE DEF disk, history
<1>a. UNCHANGED faults => faults' \in 0 .. MaxFaults
  BY FaultType
<1>1. CASE Start \/ StartAfterInstall
  <2>1. CASE ServiceStarts
    BY <1>1, <2>1, StartType DEF Start, StartAfterInstall, Step, TypeOK
  <2>2. CASE ~ServiceStarts
    BY <1>1, <2>2 DEF Start, StartAfterInstall, Step, TypeOK
  <2> QED  BY <2>1, <2>2
<1>2. CASE Checkpoint
  <2>1. Stopping
    BY <1>2, CheckpointedKeeps DEF Checkpoint, Stopping
  <2> QED  BY <1>2, <2>1, <1>a, StoppingType DEF Checkpoint, TypeOK
<1>3. CASE StopOrDie
  <2>1. Stopping
    BY <1>3, StopsKeep DEF StopOrDie
  <2> QED  BY <1>3, <2>1, <1>a, StoppingType DEF StopOrDie, TypeOK
<1>4. ASSUME NEW r \in Rows, Enqueue(r) \/ Deliver(r) PROVE TypeOK'
  <2>1. /\ service # None /\ service.queue \in Dirs /\ queue[service.queue] # None
        /\ queue[service.queue].all \in SUBSET Rows
    BY <1>4 DEF Enqueue, Deliver, TypeOK
  <2>2. \E rows \in SUBSET Rows : Content(service.queue, rows)
    BY <1>4, <2>1 DEF Enqueue, Deliver
  <2>3. QueueTyped' /\ queue'[service.queue] # None
    BY <2>1, <2>2, ContentType
  <2>4. pending' \subseteq Rows /\ UNCHANGED service
    BY <1>4 DEF Enqueue, Deliver, TypeOK
  <2>5. UNCHANGED <<files, id, config, registered, service, pc, again, ids, identity,
                    excused, commands, faults>>
    BY <1>4 DEF Enqueue, Deliver
  <2> QED  BY <2>3, <2>4, <2>5 DEF TypeOK, QueueTyped, QueueFiles
<1>5. CASE \E c \in Commands : Begin(c)
  <2>1. /\ commands' \in 0 .. MaxCommands /\ again' \in BOOLEAN
        /\ pc' \in {"stop", "unregister"}
    BY <1>5, Numbers, InstallerAssumption DEF Begin
  <2>2. UNCHANGED <<disk, registered, service, history, faults>>
    BY <1>5 DEF Begin
  <2> QED  BY <2>1, <2>2 DEF TypeOK
<1>6. CASE StopService
  <2>1. Stopping /\ faults' \in 0 .. MaxFaults
    BY <1>6, StopsKeep, FaultType DEF StopService, StopProcesses
  <2> QED  BY <1>6, <2>1, StoppingType DEF StopService, Step, TypeOK
<1>7. CASE MigrateQueue
  <2>1. /\ QueueTyped' /\ excused' \subseteq {"wal", "uninstall", "moved"}
        /\ queue'["state"] = queue["state"] \/ queue["state"] = None
        /\ queue'["install"] = queue["install"] \/ ~InUse("install")
    <3>1. CASE queue["install"] = None \/ queue["state"] # None
      BY <1>7, <3>1 DEF MigrateQueue, TypeOK, QueueTyped, QueueFiles
    <3>2. CASE ~(queue["install"] = None \/ queue["state"] # None)
      <4>1. queue["install"] \in QueueFiles
        BY <3>2 DEF TypeOK, Dirs, QueueFiles
      <4>2. [main |-> queue["install"].main, all |-> queue["install"].main] \in QueueFiles
        BY <4>1 DEF QueueFiles
      <4>3. \E file \in QueueFiles :
               queue' = [queue EXCEPT !["install"] = None, !["state"] = file]
        BY <1>7, <3>2, <4>2 DEF MigrateQueue
      <4>4. queue \in [Dirs -> QueueFiles \union {None}]
        BY DEF TypeOK, QueueFiles
      <4>5. QueueTyped'
        BY <4>3, <4>4 DEF QueueTyped
      <4> QED  BY <1>7, <3>2, <4>5 DEF MigrateQueue, TypeOK
    <3> QED  BY <3>1, <3>2
  <2>2. UNCHANGED <<files, id, config, registered, service, again, pending, ids, identity,
                    commands, faults>> /\ pc' = "move id"
    BY <1>7 DEF MigrateQueue, Step
  <2>3. UNCHANGED service
    BY <2>2
  <2>4. service # None => queue'[service.queue] # None
    BY <2>1, <2>3, OpenQueueKept
  <2>5. /\ files' \subseteq Files /\ id' \in [Dirs -> (1 .. ids') \union {None}]
        /\ config' \in Paths \union {None} /\ ids' \in Nat
        /\ identity' \in (1 .. ids') \union {None}
        /\ registered' \in BOOLEAN /\ again' \in BOOLEAN
        /\ service' \in [queue : Dirs, id : 1 .. ids'] \union {None}
        /\ pending' \subseteq Rows /\ commands' \in 0 .. MaxCommands
        /\ faults' \in 0 .. MaxFaults
    BY <2>2 DEF TypeOK
  <2> QED  BY <2>1, <2>2, <2>4, <2>5 DEF TypeOK, QueueTyped, QueueFiles
<1>8. CASE MigrateId
  <2>1. id' \in [Dirs -> (1 .. ids) \union {None}]
    BY <1>8, Numbers DEF MigrateId, Dirs
  <2>2. UNCHANGED <<files, queue, config, registered, service, again, history, commands,
                    faults>> /\ pc' = "stop again"
    BY <1>8 DEF MigrateId, Step
  <2> QED  BY <2>1, <2>2 DEF TypeOK
<1>9. CASE ClearDirectory \/ DeleteDirectory
  <2>1. Rmtree /\ UNCHANGED <<registered, service, pending, ids, identity, commands>>
    BY <1>9 DEF ClearDirectory, DeleteDirectory
  <2>2. pc' \in {"copy", "stop", "idle"} /\ again' \in BOOLEAN
        /\ excused' \subseteq {"wal", "uninstall", "moved"}
    BY <1>9 DEF ClearDirectory, DeleteDirectory, Step, TypeOK
  <2>3. service # None => queue'[service.queue] # None
    BY <2>1, RmtreeType, OpenQueueKept
  <2>4. /\ files' \subseteq Files /\ QueueTyped'
        /\ id' \in [Dirs -> (1 .. ids) \union {None}]
        /\ config' \in {config, None} /\ faults' \in 0 .. MaxFaults
    BY <2>1, RmtreeType
  <2> QED  BY <2>1, <2>2, <2>3, <2>4 DEF TypeOK, QueueTyped, QueueFiles
<1>10. CASE CopyTree \/ CopyBinary
  BY <1>10 DEF CopyTree, CopyBinary, Step, TypeOK
<1>11. CASE PersistId
  <2>1. UNCHANGED <<files, queue, config, registered, service, again, pending, excused,
                    commands, faults>> /\ pc' = "config"
    BY <1>11 DEF PersistId, Step
  <2>2. "state" \in Dirs
    BY DEF Dirs
  <2>3. /\ ids' \in Nat /\ 1 .. ids \subseteq 1 .. ids'
        /\ id' \in [Dirs -> (1 .. ids') \union {None}]
        /\ identity' \in (1 .. ids') \union {None}
    <3>1. CASE UNCHANGED <<id, ids, identity>>
      BY <3>1, Numbers
    <3>2. CASE /\ ids' = ids + 1 /\ id' = [id EXCEPT !["state"] = ids']
               /\ identity' \in {identity, ids'}
      <4>1. 1 .. ids \subseteq 1 .. ids' /\ ids' \in 1 .. ids' /\ ids' \in Nat
        BY <3>2, Numbers, OneMore
      <4> QED  BY <2>2, <3>2, <4>1, Numbers
    <3> QED  BY <1>11, <3>1, <3>2 DEF PersistId, KeepOrMakeId
  <2> QED  BY <2>1, <2>3 DEF TypeOK
<1>12. CASE WriteConfig
  <2>1. config' \in Paths
    BY <1>12 DEF WriteConfig, Paths, Dirs
  <2> QED  BY <1>12, <2>1 DEF WriteConfig, Step, TypeOK
<1>13. CASE RemoveOldService \/ Unregister
  <2>1. Stopping /\ faults' \in 0 .. MaxFaults /\ registered' \in BOOLEAN
    <3>1. CASE StopAndRemove
      BY <3>1, StopsKeep, FaultType DEF StopAndRemove, TypeOK
    <3>2. CASE UNCHANGED <<queue, registered, service, faults>>
      BY <3>2, StopsKeep, FaultType DEF TypeOK
    <3> QED  BY <1>13, <3>1, <3>2 DEF RemoveOldService, Unregister
  <2> QED  BY <1>13, <2>1, StoppingType DEF RemoveOldService, Unregister, Step, TypeOK
<1>14. CASE Register \/ Fail
  BY <1>14 DEF Register, Fail, Step, TypeOK
<1>15. CASE UNCHANGED vars
  BY <1>15 DEF vars, TypeOK
<1> QED
  BY <1>1, <1>2, <1>3, <1>4, <1>5, <1>6, <1>7, <1>8, <1>9, <1>10, <1>11, <1>12, <1>13,
     <1>14, <1>15 DEF Next, Installation

----------------------------------------------------------------------------
(* The queue *)

QueueMoved == {"move id", "stop again", "clear"}
IdMoved == {"stop again", "clear", "copy", "identity"}

\* Steps that neither move nor remove the queue or the UUID.
Untouched ==
    /\ KeepsRows /\ UNCHANGED <<id, identity, pending, excused>>
    /\ config' \in {config, [queue |-> "state", id |-> "state"]}
    /\ pc' \in QueueMoved => pc \in QueueMoved
    /\ pc' \in IdMoved => pc \in IdMoved

Starting == ServiceStarts /\ pc' \in {pc, "idle"}

LEMMA Kinds ==
    ASSUME TypeOK, [Next]_vars
    PROVE  \/ Untouched \/ Starting
           \/ \E r \in Rows : Enqueue(r) \/ Deliver(r)
           \/ MigrateQueue \/ MigrateId \/ ClearDirectory \/ PersistId \/ DeleteDirectory
<1> USE DEF disk, history, QueueMoved, IdMoved
<1>a. UNCHANGED queue => KeepsRows
  BY DEF KeepsRows
<1>1. CASE Start \/ StartAfterInstall
  BY <1>1, <1>a DEF Start, StartAfterInstall, Step, Starting, Untouched
<1>2. CASE Checkpoint
  BY <1>2, CheckpointedKeeps DEF Checkpoint, Untouched
<1>3. CASE StopOrDie
  <2>1. KeepsRows
    BY <1>3, StopsKeep DEF StopOrDie, Stopping
  <2> QED  BY <1>3, <2>1 DEF StopOrDie, Untouched
<1>4. CASE StopService
  <2>1. KeepsRows
    BY <1>4, StopsKeep DEF StopService, Stopping
  <2> QED  BY <1>4, <2>1 DEF StopService, Step, Untouched
<1>5. CASE RemoveOldService \/ Unregister
  <2>1. StopAndRemove => KeepsRows
    BY StopsKeep DEF Stopping
  <2>2. KeepsRows
    BY <1>5, <1>a, <2>1 DEF RemoveOldService, Unregister
  <2> QED  BY <1>5, <2>2 DEF RemoveOldService, Unregister, Step, Untouched
<1>6. CASE \E c \in Commands : Begin(c)
  BY <1>6, <1>a DEF Begin, Untouched
<1>7. CASE CopyTree \/ CopyBinary \/ WriteConfig \/ Register
  BY <1>7, <1>a DEF CopyTree, CopyBinary, WriteConfig, Register, Step, Untouched
<1>8. CASE Fail \/ UNCHANGED vars
  BY <1>8, <1>a DEF Fail, vars, Untouched
<1> QED
  BY <1>1, <1>2, <1>3, <1>4, <1>5, <1>6, <1>7, <1>8 DEF Next, Installation

\* What has been excused stays so.
LEMMA ExcusedGrows == ASSUME TypeOK, [Next]_vars PROVE excused \subseteq excused'
<1> USE DEF history
<1>1. CASE Untouched
  BY <1>1 DEF Untouched
<1>2. CASE Starting
  BY <1>2 DEF Starting, ServiceStarts
<1>3. ASSUME NEW r \in Rows, Enqueue(r) \/ Deliver(r) PROVE excused \subseteq excused'
  BY <1>3 DEF Enqueue, Deliver
<1>4. CASE MigrateQueue
  BY <1>4 DEF MigrateQueue
<1>5. CASE MigrateId \/ ClearDirectory \/ PersistId
  BY <1>5 DEF MigrateId, ClearDirectory, PersistId
<1>6. CASE DeleteDirectory
  BY <1>6 DEF DeleteDirectory
<1> QED  BY <1>1, <1>2, <1>3, <1>4, <1>5, <1>6, Kinds

LEMMA KeptIs ==
    /\ pending \subseteq Kept
         <=> \A r \in pending : \E d \in Dirs : queue[d] # None /\ r \in queue[d].all
    /\ pending' \subseteq Kept'
         <=> \A r \in pending' : \E d \in Dirs : queue'[d] # None /\ r \in queue'[d].all
  BY DEF Kept

\* A step that keeps the rows, in which no configuration comes to point to the
\* install directory, and the installer comes no further with a queue there.
LEMMA QuietQueue ==
    ASSUME TypeOK, QueueSafe, excused = {}, KeepsRows, pending' = pending,
           config' \in {config, None, [queue |-> "state", id |-> "state"]},
           pc' \in QueueMoved => pc \in QueueMoved \/ queue["install"] = None
    PROVE  QueueSafe'
<1>1. OnlyOne(queue)' /\ (Somewhere(queue) => Somewhere(queue)')
  BY DEF QueueSafe, OnlyOne, Somewhere, KeepsRows, Dirs
<1>2. pending' \subseteq Kept'
  BY KeptIs DEF QueueSafe, KeepsRows
<1>3. config' # None /\ config'.queue = "install" => config' = config
  OBVIOUS
<1>4. pc' \in QueueMoved => queue'["install"] = None
  BY DEF QueueSafe, QueueMoved, KeepsRows, Dirs
<1> QED  BY <1>1, <1>2, <1>3, <1>4 DEF QueueSafe, QueueMoved

LEMMA StartQueue ==
    ASSUME TypeOK, QueueSafe, Starting, excused' = {}
    PROVE  QueueSafe'
<1> DEFINE q == Configured.queue
<1>1. q \in Dirs
  BY ConfiguredType
<1>2. /\ OpenQueue(q) /\ UNCHANGED <<config, pending>> /\ excused = {}
      /\ ~Elsewhere(queue, q)
  BY DEF Starting, ServiceStarts
<1>3. q = "install" => Somewhere(queue)
  BY <1>2 DEF Configured, QueueSafe
<1> HIDE DEF q
<1>4. CASE queue[q] # None
  BY <1>2, <1>4, QuietQueue DEF OpenQueue, KeepsRows, Starting, QueueMoved
<1>5. CASE queue[q] = None
  <2>1. \A e \in Dirs : queue[e] = None
    BY <1>2, <1>5 DEF Elsewhere
  <2>2. q # "install"
    BY <1>3, <2>1 DEF Somewhere, Dirs
  <2>3. q = "state"
    BY <1>1, <2>2 DEF Dirs
  <2>4. /\ queue'["install"] = None
        /\ queue'["state"] = [main |-> {}, all |-> {}] /\ queue'["state"] # None
    <3>1. [main |-> {}, all |-> {}] \in QueueFiles
      BY DEF QueueFiles
    <3>2. queue' = [queue EXCEPT !["state"] = [main |-> {}, all |-> {}]]
      BY <1>2, <1>5, <2>3 DEF OpenQueue
    <3> QED  BY <2>1, <3>1, <3>2, NoneIsNothing DEF TypeOK, Dirs
  <2>5. pending' = {}
    BY <1>2, <2>1, KeptIs DEF QueueSafe
  <2> QED  BY <2>4, <2>5 DEF QueueSafe, OnlyOne, Somewhere
<1> QED  BY <1>4, <1>5

LEMMA QueueStep ==
    ASSUME TypeOK, QueueSafe, [Next]_vars
    PROVE  QueueSafe'
<1> SUFFICES ASSUME excused' = {} PROVE QueueSafe'
  BY DEF QueueSafe
<1>a. excused = {}
  BY ExcusedGrows
<1>b. UNCHANGED queue => KeepsRows
  BY DEF KeepsRows
<1>1. CASE Untouched
  BY <1>1, <1>a, QuietQueue DEF Untouched
<1>2. CASE Starting
  BY <1>2, StartQueue
<1>3. ASSUME NEW r \in Rows, Enqueue(r) \/ Deliver(r) PROVE QueueSafe'
  <2> DEFINE d == service.queue
  <2>1. /\ service # None /\ d \in Dirs /\ queue[d] # None
        /\ queue[d].all \in SUBSET Rows
    BY <1>3 DEF Enqueue, Deliver, TypeOK
  <2>2. UNCHANGED <<config, pc>>
    BY <1>3 DEF Enqueue, Deliver
  <2>3. PICK rows \in {queue[d].all \union {r}, queue[d].all \ {r}} :
          /\ Content(d, rows)
          /\ pending' = IF rows = queue[d].all \union {r} THEN pending \union {r}
                        ELSE pending \ {r}
    <3>1. CASE Enqueue(r)
      BY <3>1 DEF Enqueue
    <3>2. CASE Deliver(r)
      BY <3>2 DEF Deliver
    <3> QED  BY <1>3, <3>1, <3>2
  <2>4. rows \in SUBSET Rows
    BY <2>1, <2>3
  <2>5. \A e \in Dirs : /\ queue'[e] = None <=> queue[e] = None
                        /\ queue[e] # None => queue'[e].all =
                             IF e = d THEN rows ELSE queue[e].all
    BY <2>1, <2>3, <2>4, ContentType
  <2> HIDE DEF d
  <2>6. pending \subseteq Kept
    BY <1>a DEF QueueSafe
  <2>7. pending' \subseteq Kept'
    BY <2>1, <2>3, <2>5, <2>6, KeptIs
  <2>8. /\ queue'["install"] = None <=> queue["install"] = None
        /\ queue'["state"] = None <=> queue["state"] = None
    BY <2>5 DEF Dirs
  <2> QED  BY <1>a, <2>2, <2>7, <2>8 DEF QueueSafe, OnlyOne, Somewhere
<1>4. CASE MigrateQueue
  <2>1. UNCHANGED <<config, pending>>
    BY <1>4 DEF MigrateQueue
  <2>2. OnlyOne(queue)
    BY <1>a DEF QueueSafe
  <2>3. CASE queue["install"] = None
    BY <1>4, <1>a, <1>b, <2>1, <2>3, QuietQueue DEF MigrateQueue
  <2>4. CASE queue["install"] # None
    <3>1. queue["install"] \in QueueFiles /\ queue["state"] = None
      BY <2>2, <2>4 DEF OnlyOne, TypeOK, Dirs, QueueFiles
    <3> DEFINE file == [main |-> queue["install"].main, all |-> queue["install"].main]
    <3>2. file \in QueueFiles
      BY <3>1 DEF QueueFiles
    <3>3. queue' = [queue EXCEPT !["install"] = None, !["state"] = file]
      BY <1>4, <2>4, <3>1 DEF MigrateQueue
    <3>4. pending \subseteq queue'["state"].all
      BY <1>4, <2>4, <3>1 DEF MigrateQueue
    <3> HIDE DEF file
    <3>5. queue'["install"] = None /\ queue'["state"] # None
      BY <3>2, <3>3, NoneIsNothing DEF TypeOK, Dirs
    <3>6. pending' \subseteq Kept'
      BY <2>1, <3>4, <3>5, KeptIs DEF Dirs
    <3> QED  BY <3>5, <3>6 DEF QueueSafe, OnlyOne, Somewhere
  <2> QED  BY <2>3, <2>4
<1>5. CASE MigrateId
  BY <1>5, <1>a, <1>b, QuietQueue DEF MigrateId, Step, history, QueueMoved
<1>6. CASE ClearDirectory
  <2>1. Rmtree /\ pc = "clear" /\ pc' = "copy" /\ UNCHANGED pending
    BY <1>6 DEF ClearDirectory, Step, history
  <2>2. queue["install"] = None
    BY <1>a, <2>1 DEF QueueSafe
  <2>3. KeepsRows /\ config' \in {config, None}
    BY <2>1, <2>2, RmtreeType DEF KeepsRows, Dirs
  <2> QED  BY <1>a, <2>1, <2>3, QuietQueue DEF QueueMoved
<1>7. CASE PersistId
  BY <1>7, <1>a, <1>b, QuietQueue DEF PersistId, Step, QueueMoved
<1>8. CASE DeleteDirectory
  <2>1. Rmtree /\ pc' \in {"stop", "idle"} /\ UNCHANGED <<pending, queue>>
    BY <1>8 DEF DeleteDirectory
  <2> QED  BY <1>a, <1>b, <2>1, RmtreeType, QuietQueue DEF QueueMoved
<1> QED  BY <1>1, <1>2, <1>3, <1>4, <1>5, <1>6, <1>7, <1>8, Kinds

----------------------------------------------------------------------------
(* The UUID *)

LEMMA QuietId ==
    ASSUME TypeOK, IdSafe, excused \subseteq {"wal"}, UNCHANGED <<id, identity>>,
           config' \in {config, None, [queue |-> "state", id |-> "state"]},
           pc' \in IdMoved => pc \in IdMoved \/ id["install"] = None
    PROVE  IdSafe'
<1> SUFFICES ASSUME excused' \subseteq {"wal"} PROVE IdSafe'
  BY DEF IdSafe
<1>1. OnlyOne(id)' /\ (Somewhere(id) => Somewhere(id)')
  BY DEF IdSafe, OnlyOne, Somewhere
<1>2. identity' # None => Somewhere(id)' /\ \A d \in Dirs : id'[d] \in {None, identity'}
  BY <1>1 DEF IdSafe
<1>3. config' # None /\ config'.id = "install" => Somewhere(id)'
  <2>1. config' # None /\ config'.id = "install" => config' = config
    OBVIOUS
  <2> QED  BY <1>1, <2>1 DEF IdSafe
<1>4. pc' \in IdMoved => id'["install"] = None
  BY DEF IdSafe, IdMoved
<1> QED  BY <1>1, <1>2, <1>3, <1>4 DEF IdSafe, IdMoved

\* A service that is not excused finds the one UUID there is, or makes the first.
LEMMA StartId ==
    ASSUME TypeOK, IdSafe, ServiceStarts, excused' \subseteq {"wal"}
    PROVE  /\ service'.id = identity' /\ UNCHANGED config
           /\ \/ UNCHANGED id /\ (identity # None => identity' = identity)
              \/ /\ id["install"] = None /\ id'["install"] = None
                 /\ identity = None
           /\ \A e \in Dirs : id'[e] \in {None, identity'}
           /\ OnlyOne(id)' /\ Somewhere(id)'
<1> DEFINE d == IdDir(Configured)
           q == Configured.queue
<1>1. d \in {"install", "state"}
  BY ConfiguredType DEF Dirs
<1>2. /\ KeepOrMakeId(d) /\ UNCHANGED config
      /\ service' = [queue |-> q, id |-> id'[d]]
      /\ identity' = IF identity = None THEN id'[d] ELSE identity
      /\ excused \subseteq {"wal"} /\ ~Elsewhere(id, d)
  BY DEF ServiceStarts
<1>3. /\ OnlyOne(id)
      /\ identity # None => Somewhere(id) /\ \A e \in Dirs : id[e] \in {None, identity}
  BY <1>2 DEF IdSafe
<1>4. d = "install" => Somewhere(id)
  BY <1>2 DEF IdSafe, IdDir, Configured, Somewhere
<1> HIDE DEF d, q
<1>5. CASE id[d] # None
  <2>1. UNCHANGED id
    BY <1>2, <1>5 DEF KeepOrMakeId
  <2>2. identity' = id[d]
    BY <1>1, <1>2, <1>3, <1>5, <2>1 DEF Dirs
  <2>3. \A e \in Dirs : id[e] \in {None, identity'}
    BY <1>1, <1>3, <1>5, <2>2 DEF OnlyOne, Dirs
  <2> QED  BY <1>1, <1>2, <1>3, <1>5, <2>1, <2>2, <2>3 DEF OnlyOne, Somewhere
<1>6. CASE id[d] = None
  <2>1. id["install"] = None /\ id["state"] = None
    BY <1>2, <1>6 DEF Elsewhere, Dirs
  <2>2. d = "state" /\ identity = None
    BY <1>1, <1>3, <1>4, <2>1 DEF Somewhere
  <2>3. ids' = ids + 1 /\ id' = [id EXCEPT !["state"] = ids']
    BY <1>2, <1>6, <2>2 DEF KeepOrMakeId
  <2>4. ids' \in Nat /\ ids' # None
    BY <2>3, Numbers, NoneIsNothing
  <2>5. id'["install"] = None /\ id'["state"] = ids'
    BY <2>1, <2>3, Numbers DEF Dirs
  <2>6. identity' = ids' /\ service'.id = ids'
    BY <1>2, <2>2, <2>5
  <2> QED  BY <1>2, <2>1, <2>2, <2>4, <2>5, <2>6 DEF OnlyOne, Somewhere, Dirs
<1> QED  BY <1>5, <1>6

LEMMA IdStep ==
    ASSUME TypeOK, IdSafe, [Next]_vars
    PROVE  IdSafe'
<1> SUFFICES ASSUME excused' \subseteq {"wal"} PROVE IdSafe'
  BY DEF IdSafe
<1>a. excused \subseteq {"wal"}
  BY ExcusedGrows
<1>b. /\ OnlyOne(id)
      /\ identity # None => Somewhere(id) /\ \A d \in Dirs : id[d] \in {None, identity}
      /\ config # None /\ config.id = "install" => Somewhere(id)
      /\ pc \in IdMoved => id["install"] = None
  BY <1>a DEF IdSafe, IdMoved
<1>1. CASE Untouched
  BY <1>1, <1>a, QuietId DEF Untouched
<1>2. CASE Starting
  <2>1. ServiceStarts /\ (pc' \in IdMoved => pc \in IdMoved)
    BY <1>2 DEF Starting, IdMoved
  <2>2. /\ \A e \in Dirs : id'[e] \in {None, identity'}
        /\ OnlyOne(id)' /\ Somewhere(id)'
        /\ id'["install"] = id["install"]
    BY <2>1, StartId
  <2> QED  BY <1>b, <2>1, <2>2 DEF IdSafe, IdMoved
<1>3. ASSUME NEW r \in Rows, Enqueue(r) \/ Deliver(r) PROVE IdSafe'
  BY <1>3, <1>a, QuietId DEF Enqueue, Deliver
<1>4. CASE MigrateQueue
  <2>1. UNCHANGED <<id, identity, config>> /\ pc' = "move id"
    BY <1>4 DEF MigrateQueue, Step
  <2> QED  BY <1>a, <2>1, QuietId DEF IdMoved
<1>5. CASE MigrateId
  <2>1. UNCHANGED <<config, identity>>
    BY <1>5 DEF MigrateId, history
  <2>2. CASE id["install"] = None
    BY <1>5, <1>a, <2>1, <2>2, QuietId DEF MigrateId
  <2>3. CASE id["install"] # None
    <3>1. id["state"] = None /\ id' = [id EXCEPT !["install"] = None,
                                              !["state"] = id["install"]]
      BY <1>5, <1>b, <2>3 DEF MigrateId, OnlyOne
    <3>2. id'["install"] = None /\ id'["state"] = id["install"]
      BY <3>1, Numbers DEF Dirs
    <3> QED  BY <1>b, <2>1, <2>3, <3>2 DEF IdSafe, OnlyOne, Somewhere, Dirs
  <2> QED  BY <2>2, <2>3
<1>6. CASE ClearDirectory
  <2>1. Rmtree /\ pc = "clear" /\ UNCHANGED identity
    BY <1>6 DEF ClearDirectory, Step, history
  <2>2. id["install"] = None
    BY <1>b, <2>1 DEF IdMoved
  <2>3. id' = id /\ config' \in {config, None}
    <3>1. id' \in [Dirs -> (1 .. ids) \union {None}] /\ id \in [Dirs -> (1 .. ids) \union {None}]
      BY <2>1, RmtreeType, Numbers
    <3>2. \A d \in Dirs : id'[d] = id[d]
      BY <2>1, <2>2, RmtreeType DEF Dirs
    <3> QED  BY <2>1, <3>1, <3>2, RmtreeType
  <2> QED  BY <1>a, <2>1, <2>2, <2>3, QuietId
<1>7. CASE PersistId
  <2>1. UNCHANGED config /\ pc = "identity" /\ pc' = "config"
    BY <1>7 DEF PersistId, Step
  <2>2. id["install"] = None
    BY <1>b, <2>1 DEF IdMoved
  <2>3. CASE UNCHANGED <<id, identity>>
    BY <1>a, <2>1, <2>3, QuietId DEF IdMoved
  <2>4. CASE /\ ids' = ids + 1 /\ id' = [id EXCEPT !["state"] = ids']
             /\ identity' = ids' \/ (identity' = identity /\ id["state"] = None)
    <3>1. ids' \in Nat /\ ids' # None
      BY <2>4, Numbers, NoneIsNothing
    <3>2. id'["install"] = None /\ id'["state"] = ids'
      BY <2>2, <2>4, Numbers DEF Dirs
    <3>3. identity' = ids' \/ identity' = None
      BY <1>b, <2>2, <2>4 DEF Somewhere
    <3> QED  BY <2>1, <3>1, <3>2, <3>3 DEF IdSafe, OnlyOne, Somewhere, Dirs
  <2> QED  BY <1>7, <2>3, <2>4 DEF PersistId, KeepOrMakeId
<1>8. CASE DeleteDirectory
  <2>1. Rmtree /\ pc' \in {"stop", "idle"} /\ UNCHANGED <<identity, id>>
    BY <1>8 DEF DeleteDirectory
  <2> QED  BY <1>a, <2>1, RmtreeType, QuietId DEF IdMoved
<1> QED  BY <1>1, <1>2, <1>3, <1>4, <1>5, <1>6, <1>7, <1>8, Kinds

----------------------------------------------------------------------------
(* The theorems *)

LEMMA InitSafe == Init => QueueSafe /\ IdSafe
<1> SUFFICES ASSUME Init PROVE QueueSafe /\ IdSafe
  OBVIOUS
<1>1. TypeOK /\ pending = {} /\ pc = "idle" /\ Layouts \subseteq Paths
  BY InitType, InstallerAssumption DEF Init
<1>2. OnlyOne(queue) /\ OnlyOne(id)
  BY DEF Init, OnlyOne, Dirs
<1>3. CASE config = None /\ identity = None
  BY <1>1, <1>2, <1>3 DEF QueueSafe, IdSafe
<1>4. CASE \E p \in Paths :
             /\ config = p /\ identity = 1
             /\ queue = [d \in Dirs |-> IF d = p.queue THEN [main |-> {}, all |-> {}]
                                        ELSE None]
             /\ id = [d \in Dirs |-> IF d = p.id THEN 1 ELSE None]
  <2>1. PICK p \in Paths :
             /\ config = p /\ identity = 1
             /\ queue = [d \in Dirs |-> IF d = p.queue THEN [main |-> {}, all |-> {}]
                                        ELSE None]
             /\ id = [d \in Dirs |-> IF d = p.id THEN 1 ELSE None]
    BY <1>4
  <2>2. p.queue \in Dirs /\ p.id \in Dirs
    BY DEF Paths
  <2>3. [main |-> {}, all |-> {}] # None /\ 1 # None
    <3>1. [main |-> {}, all |-> {}] \in QueueFiles /\ 1 \in Nat
      BY DEF QueueFiles
    <3> QED  BY <3>1, NoneIsNothing
  <2>4. queue[p.queue] # None /\ id[p.id] # None
    BY <2>1, <2>2, <2>3
  <2>5. Somewhere(queue) /\ Somewhere(id)
    BY <2>2, <2>4 DEF Somewhere, Dirs
  <2>6. \A d \in Dirs : id[d] \in {None, identity}
    BY <2>1
  <2> QED  BY <1>1, <1>2, <2>5, <2>6 DEF QueueSafe, IdSafe
<1> QED  BY <1>1, <1>3, <1>4 DEF Init

\* The inductive invariant holds throughout.
THEOREM Invariance == Spec => []Inv
<1>1. Init => Inv
  BY InitType, InitSafe DEF Inv
<1>2. Inv /\ [Next]_vars => Inv'
  BY TypeStep, QueueStep, IdStep DEF Inv
<1> QED  BY <1>1, <1>2, PTL DEF Spec

\* The directories, the service and the installer's step have their shapes
\* throughout, and a service that runs has its queue's file: neither a
\* migration nor rmtree takes it away.
THEOREM TypeCorrect == Spec => []TypeOK
<1>1. Inv => TypeOK
  BY DEF Inv
<1> QED  BY <1>1, Invariance, PTL

\* QueueKept, installer.py:86: an observation queued and not delivered is in
\* a queue on the disk after any installs, reinstalls and uninstalls, but for
\* what is excused.
THEOREM QueueSurvives == Spec => []QueueKept
<1>1. Inv => QueueKept
  BY DEF Inv, QueueSafe, QueueKept
<1> QED  BY <1>1, Invariance, PTL

\* IdentityKept, installer.py:90 and heartbeat.py:13: a service that starts has the UUID
\* it had first or the administrator gave it, but for what is excused.
THEOREM IdentitySurvives == Spec => IdentityKept
<1>1. ASSUME Inv, [Next]_vars, service = None, service' # None, excused' \subseteq {"wal"}
      PROVE  service'.id = identity'
  <2>1. TypeOK /\ IdSafe
    BY <1>1 DEF Inv
  <2>2. ServiceStarts
    BY <1>1 DEF Next, Installation, Start, StartAfterInstall, Checkpoint, StopOrDie, Stops,
                Killed, Enqueue, Deliver, Begin, StopService, StopProcesses, MigrateQueue,
                MigrateId, ClearDirectory, CopyTree, CopyBinary, PersistId, WriteConfig,
                RemoveOldService, StopAndRemove, Register, Fail, Unregister,
                DeleteDirectory, vars
  <2> QED  BY <1>1, <2>1, <2>2, StartId
<1>2. Inv /\ [Next]_vars
        => [service = None /\ service' # None /\ excused' \subseteq {"wal"}
              => service'.id = identity']_vars
  BY <1>1
<1> QED  BY <1>2, Invariance, PTL DEF Spec, IdentityKept
============================================================================
