------------------------------ MODULE Installer ---------------------------
(***************************************************************************)
(* The agent's installer, FlashControlAgent/installer.py, and what it does *)
(* to the two things the agent must keep: its delivery queue and its UUID. *)
(*                                                                         *)
(* Older agents kept both in the install directory, newer ones keep them   *)
(* in a state directory next to it; agent_config.json says where.  The     *)
(* queue is an SQLite database in WAL mode that the service holds open:    *)
(* what is in its main file lags behind what is committed until SQLite     *)
(* checkpoints or the service closes the queue.                            *)
(***************************************************************************)
EXTENDS Integers, FiniteSets

CONSTANTS
    None,         \* no file, no service
    Rows,         \* observations
    Layouts,      \* what agent_config.json of the agent found says
    Commands,     \* "install", "uninstall", "reinstall"
    MaxCommands,  \* bound: runs of the installer
    MaxIds,       \* bound: UUIDs before the administrator asks for no other
    MaxFaults     \* bound: steps that fail

Dirs == {"install", "state"}
Paths == [queue : Dirs, id : Dirs]

ASSUME InstallerAssumption ==
    /\ Layouts \subseteq Paths
    /\ Commands \subseteq {"install", "uninstall", "reinstall"}
    /\ MaxCommands \in Nat /\ MaxIds \in Nat /\ MaxFaults \in Nat
    /\ None \notin Nat \union Paths \union [main : SUBSET Rows, all : SUBSET Rows]
                  \union [queue : Dirs, id : Nat]

VARIABLES
    files,       \* what the install directory holds but for the next two
    queue,       \* per directory: None, or the queue as [main, all]
    id,          \* per directory: None, or the UUID in FlashControlAgent.id
    config,      \* the paths in agent_config.json, None for no file
    registered,  \* the service is known to Windows
    service,     \* None, or the running service: its queue's directory, its UUID
    pc,          \* the next step of the installer
    again,       \* reinstall: install follows
    pending,     \* history: observations queued and not delivered
    ids,         \* history: UUIDs made so far
    identity,    \* history: the UUID the agent should have
    excused,     \* history: what the code does to lose something: see below
    commands,
    faults

disk == <<files, queue, id, config>>
history == <<pending, ids, identity, excused>>
vars == <<disk, registered, service, pc, again, history, commands, faults>>

Files == {"binaries", "other"}
Fault == faults < MaxFaults /\ faults' = faults + 1

\* read_config: without a file, the defaults.
Configured == IF config = None THEN [queue |-> "state", id |-> "state"] ELSE config

\* agent_id_path: the legacy file is used while the configured one is missing.
IdDir(p) ==
    IF id[p.id] = None /\ id["install"] # None THEN "install" ELSE p.id

\* Either a machine without the agent, or an agent that runs.
Init ==
    /\ \/ /\ files = {} /\ config = None /\ registered = FALSE /\ service = None
          /\ queue = [d \in Dirs |-> None] /\ id = [d \in Dirs |-> None]
          /\ ids = 0 /\ identity = None
       \/ \E p \in Layouts :
          /\ files = Files /\ config = p /\ registered = TRUE
          /\ service = [queue |-> p.queue, id |-> 1]
          /\ queue = [d \in Dirs |-> IF d = p.queue THEN [main |-> {}, all |-> {}] ELSE None]
          /\ id = [d \in Dirs |-> IF d = p.id THEN 1 ELSE None]
          /\ ids = 1 /\ identity = 1
    /\ pc = "idle" /\ again = FALSE
    /\ pending = {} /\ excused = {}
    /\ commands = 0 /\ faults = 0

----------------------------------------------------------------------------
(* The service *)

\* persist_agent_id: a UUID that is there is kept.
KeepOrMakeId(d) ==
    IF id[d] # None
    THEN UNCHANGED <<id, ids>>
    ELSE /\ ids' = ids + 1
         /\ id' = [id EXCEPT ![d] = ids']

OpenQueue(d) ==
    queue' = IF queue[d] = None THEN [queue EXCEPT ![d] = [main |-> {}, all |-> {}]]
             ELSE queue

\* What the configuration points to is missing here and present elsewhere.
Elsewhere(place, d) == place[d] = None /\ \E e \in Dirs : place[e] # None

ServiceStarts ==
    /\ registered /\ "binaries" \in files /\ service = None
    /\ LET d == IdDir(Configured)
       IN  /\ KeepOrMakeId(d)
           /\ OpenQueue(Configured.queue)
           /\ service' = [queue |-> Configured.queue, id |-> id'[d]]
           /\ identity' = IF identity = None THEN id'[d] ELSE identity
           /\ excused' = IF Elsewhere(queue, Configured.queue) \/ Elsewhere(id, d)
                      THEN excused \union {"moved"} ELSE excused
    /\ UNCHANGED <<files, config, registered, pending>>

Start ==
    /\ ServiceStarts
    /\ UNCHANGED <<pc, again, commands, faults>>

InUse(d) == service # None /\ service.queue = d

Content(d, rows) == queue' = [queue EXCEPT ![d].all = rows]

Enqueue(r) ==
    /\ service # None
    /\ r \notin pending
    /\ pending' = pending \union {r}
    /\ Content(service.queue, queue[service.queue].all \union {r})
    /\ UNCHANGED <<files, id, config, registered, service, pc, again, ids, identity,
                   excused, commands, faults>>

Deliver(r) ==
    /\ service # None
    /\ r \in queue[service.queue].all
    /\ pending' = pending \ {r}
    /\ Content(service.queue, queue[service.queue].all \ {r})
    /\ UNCHANGED <<files, id, config, registered, service, pc, again, ids, identity,
                   excused, commands, faults>>

Checkpointed(d) == queue' = [queue EXCEPT ![d].main = queue[d].all]

Checkpoint ==
    /\ service # None
    /\ Checkpointed(service.queue)
    /\ UNCHANGED <<files, id, config, registered, service, pc, again, history, commands,
                   faults>>

\* A stop the service obeys closes the queue, and SQLite checkpoints it.
Stops == service # None /\ Checkpointed(service.queue) /\ service' = None

\* A service that is killed leaves the -wal file behind.
Killed == service # None /\ service' = None /\ UNCHANGED queue

StopOrDie ==
    /\ Stops \/ Killed
    /\ UNCHANGED <<files, id, config, registered, pc, again, history, commands, faults>>

----------------------------------------------------------------------------
(* The installer *)

\* stop_service_processes: taskkill /F, then `sc stop`; neither need succeed.
StopProcesses ==
    \/ Killed /\ UNCHANGED faults
    \/ service = None /\ UNCHANGED <<queue, service, faults>>
    \/ service # None /\ UNCHANGED service /\ UNCHANGED queue /\ Fault
    \/ Stops /\ Fault

Begin(c) ==
    /\ pc = "idle"
    /\ commands < MaxCommands
    /\ commands' = commands + 1
    /\ pc' = IF c = "install" THEN "stop" ELSE "unregister"
    /\ again' = (c = "reinstall")
    /\ UNCHANGED <<disk, registered, service, history, faults>>

Step(from, to) == pc = from /\ pc' = to

StopService ==
    /\ Step("stop", "move queue") \/ Step("stop again", "clear")
    /\ StopProcesses
    /\ UNCHANGED <<files, id, config, registered, again, history, commands>>

\* Mutant of MigrateQueue: the queue is left where it is.
MigrateNoQueue ==
    /\ Step("move queue", "move id")
    /\ UNCHANGED <<disk, registered, service, again, history, commands, faults>>

\* migrate_state_file moves the main file alone, unless there is one already;
\* Windows refuses while the service has it open.
MigrateQueue ==
    /\ Step("move queue", "move id")
    /\ IF queue["install"] = None \/ queue["state"] # None
       THEN UNCHANGED <<queue, excused>>
       ELSE /\ ~InUse("install")
            /\ queue' = [queue EXCEPT !["install"] = None,
                                      !["state"] = [main |-> queue["install"].main,
                                                    all |-> queue["install"].main]]
            /\ excused' = IF pending \subseteq queue'["state"].all THEN excused
                          ELSE excused \union {"wal"}
    /\ UNCHANGED <<files, id, config, registered, service, again, pending, ids, identity,
                   commands, faults>>

\* Mutant of MigrateId: the UUID is left where it is.
MigrateNoId ==
    /\ Step("move id", "stop again")
    /\ UNCHANGED <<disk, registered, service, again, history, commands, faults>>

MigrateId ==
    /\ Step("move id", "stop again")
    /\ id' = IF id["install"] = None \/ id["state"] # None THEN id
             ELSE [id EXCEPT !["install"] = None, !["state"] = id["install"]]
    /\ UNCHANGED <<files, queue, config, registered, service, again, history, commands,
                   faults>>

\* rmtree(install_dir, ignore_errors): all goes but what is in use, and what
\* cannot be deleted for another reason.
Locked == (IF service = None THEN {} ELSE {"binaries"})
          \union (IF InUse("install") THEN {"queue"} ELSE {})

Rmtree ==
    \E kept \in SUBSET (Files \union {"queue", "id", "config"}) :
        /\ IF kept = Locked THEN UNCHANGED faults ELSE Fault
        /\ Locked \subseteq kept
        /\ files' = files \intersect kept
        /\ queue' = IF "queue" \in kept THEN queue ELSE [queue EXCEPT !["install"] = None]
        /\ id' = IF "id" \in kept THEN id ELSE [id EXCEPT !["install"] = None]
        /\ config' = IF "config" \in kept THEN config ELSE None

DirectoryExists ==
    files # {} \/ queue["install"] # None \/ id["install"] # None \/ config # None

\* copy_service_files of a bundled directory: what is there is removed first.
ClearDirectory ==
    /\ Step("clear", "copy")
    /\ Rmtree
    /\ UNCHANGED <<registered, service, again, history, commands>>

\* copytree refuses a directory that still exists.
CopyTree ==
    /\ Step("copy", "identity")
    /\ ~DirectoryExists
    /\ files' = Files
    /\ UNCHANGED <<queue, id, config, registered, service, again, history, commands, faults>>

\* A bundled executable is copied over the old one, unless that one runs.
CopyBinary ==
    /\ Step("clear", "identity")
    /\ service = None
    /\ files' = files \union Files
    /\ UNCHANGED <<queue, id, config, registered, service, again, history, commands, faults>>

\* persist_agent_id: a UUID of the administrator's, or else the one there is.
PersistId ==
    /\ Step("identity", "config")
    /\ \/ KeepOrMakeId("state") /\ UNCHANGED identity
       \/ /\ ids < MaxIds
          /\ ids' = ids + 1
          /\ id' = [id EXCEPT !["state"] = ids']
          /\ identity' = ids'
    /\ UNCHANGED <<files, queue, config, registered, service, again, pending, excused,
                   commands, faults>>

WriteConfig ==
    /\ Step("config", "replace")
    /\ config' = [queue |-> "state", id |-> "state"]
    /\ UNCHANGED <<files, queue, id, registered, service, again, history, commands, faults>>

\* `stop` and `remove` of the service, each of which may fail unnoticed.
StopAndRemove ==
    /\ \/ Stops /\ UNCHANGED faults
       \/ service = None /\ UNCHANGED <<queue, service, faults>>
       \/ service # None /\ UNCHANGED <<queue, service>> /\ Fault
    /\ \/ registered' = FALSE
       \/ service' # None /\ UNCHANGED registered

RemoveOldService ==
    /\ Step("replace", "register")
    /\ IF registered THEN StopAndRemove
       ELSE UNCHANGED <<queue, registered, service, faults>>
    /\ UNCHANGED <<files, id, config, again, history, commands>>

\* A service that is still registered cannot be installed.
Register ==
    /\ Step("register", "start")
    /\ ~registered
    /\ registered' = TRUE
    /\ UNCHANGED <<disk, service, again, history, commands, faults>>

StartAfterInstall ==
    /\ Step("start", "idle")
    /\ again' = FALSE
    /\ \/ ServiceStarts
       \/ UNCHANGED <<disk, registered, service, history>>
    /\ UNCHANGED <<commands, faults>>

\* An exception, or the end of the installer, at any step.
Fail ==
    /\ pc # "idle"
    /\ pc' = "idle" /\ again' = FALSE
    /\ UNCHANGED <<disk, registered, service, history, commands, faults>>

Unregister ==
    /\ Step("unregister", "delete")
    /\ StopAndRemove
    /\ UNCHANGED <<files, id, config, again, history, commands>>

\* reinstall goes on with install.
DeleteDirectory ==
    /\ pc = "delete"
    /\ pc' = IF again THEN "stop" ELSE "idle"
    /\ again' = FALSE
    /\ Rmtree
    /\ excused' = IF queue' # queue \/ id' # id THEN excused \union {"uninstall"}
                  ELSE excused
    /\ UNCHANGED <<registered, service, pending, ids, identity, commands>>

Installation ==
    \/ \E c \in Commands : Begin(c)
    \/ StopService \/ MigrateQueue \/ MigrateId
    \/ ClearDirectory \/ CopyTree \/ CopyBinary
    \/ PersistId \/ WriteConfig \/ RemoveOldService \/ Register \/ StartAfterInstall
    \/ Unregister \/ DeleteDirectory
    \/ Fail

Next ==
    \/ Start \/ Checkpoint \/ StopOrDie
    \/ \E r \in Rows : Enqueue(r) \/ Deliver(r)
    \/ Installation

Spec == Init /\ [][Next]_vars

----------------------------------------------------------------------------
(* Properties *)

\* Type invariant: the two directories, the service and the installer's step
\* have their shapes, and the service has its queue's file open.
TypeOK ==
    /\ files \subseteq Files
    /\ queue \in [Dirs -> [main : SUBSET Rows, all : SUBSET Rows] \union {None}]
    /\ id \in [Dirs -> (1 .. ids) \union {None}]
    /\ config \in Paths \union {None}
    /\ pc \in {"idle", "stop", "move queue", "move id", "stop again", "clear", "copy",
              "identity", "config", "replace", "register", "start", "unregister", "delete"}
    /\ ids \in Nat /\ identity \in (1 .. ids) \union {None}
    /\ registered \in BOOLEAN /\ again \in BOOLEAN
    /\ service \in [queue : Dirs, id : 1 .. ids] \union {None}
    /\ service # None => queue[service.queue] # None
    /\ pending \subseteq Rows
    /\ excused \subseteq {"wal", "uninstall", "moved"}
    /\ commands \in 0 .. MaxCommands /\ faults \in 0 .. MaxFaults

Kept == UNION {queue[d].all : d \in {e \in Dirs : queue[e] # None}}

\* An observation that is queued and not delivered is still in a queue on the
\* disk after any sequence of installs, reinstalls and uninstalls, each of
\* which may end at any step, unless an uninstall removed a queue that was in
\* the install directory, a migration left rows behind in its -wal file, or
\* the service was started between the steps of an install or an uninstall,
\* where its configuration no longer leads to its files.
QueueKept == excused = {} => pending \subseteq Kept

\* A service that starts has the UUID it had first or the administrator gave it,
\* unless an uninstall removed a UUID that was in the install directory, or
\* the service was started between the steps of an install or an uninstall,
\* where its configuration no longer leads to its files.
IdentityKept ==
    [][service = None /\ service' # None /\ excused' \subseteq {"wal"}
        => service'.id = identity']_vars

\* As build/README.md:83-85 has it, without exception: no reinstall changes the
\* identity of the agent.
AlwaysSameIdentity ==
    [][service = None /\ service' # None => service'.id = identity']_vars
=============================================================================
