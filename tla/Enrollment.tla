----------------------------- MODULE Enrollment ----------------------------
(***************************************************************************)
(* The machine token of one agent: how the service obtains it from the     *)
(* PIB Server, keeps it in a file, uses it, and forgets it once when the   *)
(* server no longer knows it (FlashControlAgent/service.py, heartbeat.py;  *)
(* FlashControlPIBServer/app/enroll.py, machine_auth.py).                  *)
(*                                                                         *)
(* Tokens are numbered as they are issued.  The requests of the drain and  *)
(* of the heartbeat matter here only by the answer 401.                    *)
(***************************************************************************)
EXTENDS Integers

CONSTANTS
    MaxResets,     \* bound: how often the server's database is reset
    MaxLosses,     \* bound: enrollments whose answer the agent does not get
    MaxRestarts,   \* bound: how often the service is stopped and started
    MaxCrashes,    \* bound: how often it dies in the middle of a pass
    MaxFileErrors  \* bound: how often the token file cannot be written or removed

ASSUME BoundsAssumption ==
    /\ MaxResets \in Nat /\ MaxLosses \in Nat
    /\ MaxRestarts \in Nat /\ MaxCrashes \in Nat /\ MaxFileErrors \in Nat

None == 0        \* no token; issued tokens start at 1
Shared == -1     \* machine_token of agent_config.json

\* What the agent may wait for: nothing, an answer, a refusal, or the token
\* the answer carries.
Waiting == -1
Refused == -2

VARIABLES
    mode,         \* "issued", "token" or "cert": what agent_config.json sets
    file,         \* machine_token_file
    tokenHash,    \* agents.token_hash, None when the row or the hash is missing
    issued,       \* tokens issued so far
    pc,           \* where the pass of the loop stands
    held,         \* machine_token of this pass
    ready,        \* credentials_ready of this pass
    recovery,     \* stale_token_recovery_attempted
    wire,         \* the enroll request of this pass
    late,         \* enroll requests the agent gave up that may still arrive
    forgotten,    \* history: tokens forgotten since the service started
    resets, losses, restarts, crashes, fileErrors

bounds == <<resets, losses, restarts, crashes, fileErrors>>
server == <<tokenHash, issued>>
vars == <<mode, file, server, pc, held, ready, recovery, wire, late, forgotten,
          bounds>>

Init ==
    /\ mode \in {"issued", "token", "cert"}
    /\ file = None
    /\ tokenHash = None
    /\ issued = 0
    /\ pc = "check"
    /\ held = None
    /\ ready = FALSE
    /\ recovery = FALSE
    /\ wire = None
    /\ late = 0
    /\ forgotten = 0
    /\ resets = 0 /\ losses = 0 /\ restarts = 0 /\ crashes = 0
    /\ fileErrors = 0

----------------------------------------------------------------------------
(* The server: issue_agent_token, require_machine *)

\* Mutant of MayEnroll: whoever knows the agent's id may rotate its token.
AlwaysMayEnroll == TRUE

\* An agent the server holds a token for must present it to enroll again.
\* The agent presents none.
MayEnroll == tokenHash = None

Issue ==
    /\ issued' = issued + 1
    /\ tokenHash' = issued'

ServerEnrolls ==
    /\ wire = Waiting
    /\ IF MayEnroll
       THEN Issue /\ wire' = issued'
       ELSE wire' = Refused /\ UNCHANGED server
    /\ UNCHANGED <<mode, file, pc, held, ready, recovery, late, forgotten, bounds>>

\* A request the agent has given up still reaches the server, or never does.
ServerEnrollsLate ==
    /\ late > 0
    /\ late' = late - 1
    /\ IF MayEnroll THEN Issue ELSE UNCHANGED server
    /\ UNCHANGED <<mode, file, pc, held, ready, recovery, wire, forgotten, bounds>>

LateEnrollDies ==
    /\ late > 0
    /\ late' = late - 1
    /\ UNCHANGED <<mode, file, server, pc, held, ready, recovery, wire, forgotten,
                   bounds>>

ResetDatabase ==
    /\ resets < MaxResets
    /\ resets' = resets + 1
    /\ tokenHash' = None
    /\ UNCHANGED <<mode, file, issued, pc, held, ready, recovery, wire, late,
                   forgotten, losses, restarts, crashes, fileErrors>>

----------------------------------------------------------------------------
(* The pass of the service's loop *)

\* current_machine_token, delivery_credentials_configured, and the decision
\* to enroll.
CheckCredentials ==
    /\ pc = "check"
    /\ held' = IF mode = "token" THEN Shared ELSE file
    /\ ready' = (mode # "issued" \/ file # None)
    /\ IF ready' THEN pc' = "drain" /\ wire' = wire
                 ELSE pc' = "enroll" /\ wire' = Waiting
    /\ UNCHANGED <<mode, file, server, recovery, late, forgotten, bounds>>

\* Mutant of EnrollSucceeds: the pass goes on with the token it had before.
EnrollSucceedsHoldingOld ==
    /\ pc = "enroll"
    /\ wire > 0
    /\ file' = wire
    /\ ready' = TRUE
    /\ wire' = None
    /\ pc' = "drain"
    /\ UNCHANGED <<mode, server, held, recovery, late, forgotten, bounds>>

\* The token arrives and persist_secret replaces the file.
EnrollSucceeds ==
    /\ pc = "enroll"
    /\ wire > 0
    /\ file' = wire
    /\ held' = wire
    /\ ready' = TRUE
    /\ wire' = None
    /\ pc' = "drain"
    /\ UNCHANGED <<mode, server, recovery, late, forgotten, bounds>>

\* The server refused with 401.
EnrollRefused ==
    /\ pc = "enroll"
    /\ wire = Refused
    /\ wire' = None
    /\ pc' = "drain"
    /\ UNCHANGED <<mode, file, server, held, ready, recovery, late, forgotten,
                   bounds>>

GivenUp == IF wire = Waiting THEN late + 1 ELSE late

\* The request or its answer is lost.
EnrollLost ==
    /\ pc = "enroll"
    /\ losses < MaxLosses
    /\ losses' = losses + 1
    /\ late' = GivenUp
    /\ wire' = None
    /\ pc' = "drain"
    /\ UNCHANGED <<mode, file, server, held, ready, recovery, forgotten, resets,
                   restarts, crashes, fileErrors>>

\* The token arrives and persist_secret raises.
PersistFails ==
    /\ pc = "enroll"
    /\ wire > 0
    /\ fileErrors < MaxFileErrors
    /\ fileErrors' = fileErrors + 1
    /\ wire' = None
    /\ pc' = "drain"
    /\ UNCHANGED <<mode, file, server, held, ready, recovery, late, forgotten,
                   resets, losses, restarts, crashes>>

NextPc == [drain |-> "heartbeat", heartbeat |-> "check"]

\* drain_delivery_queue or the heartbeat has nothing to send, cannot reach
\* the server, or is accepted.
RequestPasses ==
    /\ pc \in {"drain", "heartbeat"}
    /\ pc' = NextPc[pc]
    /\ UNCHANGED <<mode, file, server, held, ready, recovery, wire, late, forgotten,
                   bounds>>

\* What the server checks: an issued token against its hash.  A shared token
\* or a certificate may be wrong for reasons of its own.
Unauthorized == mode # "issued" \/ held = None \/ held # tokenHash

\* Mutants of Recover: it forgets at every 401, or it forgets nothing.
RecoverAgain ==
    /\ recovery' = TRUE
    /\ IF mode # "issued" THEN UNCHANGED <<file, forgotten, fileErrors>>
       ELSE /\ file' = None
            /\ forgotten' = forgotten + (IF file # None THEN 1 ELSE 0)
            /\ UNCHANGED fileErrors

NoRecovery == UNCHANGED <<recovery, file, forgotten, fileErrors>>

\* recover_stale_issued_token: once per run of the service, and only for an
\* issued token, the file is removed, or cannot be.
Recover ==
    IF recovery \/ mode # "issued"
    THEN UNCHANGED <<recovery, file, forgotten, fileErrors>>
    ELSE /\ recovery' = TRUE
         /\ \/ /\ file' = None
               /\ forgotten' = forgotten + (IF file # None THEN 1 ELSE 0)
               /\ UNCHANGED fileErrors
            \/ /\ fileErrors < MaxFileErrors
               /\ fileErrors' = fileErrors + 1
               /\ UNCHANGED <<file, forgotten>>

\* The drain or the heartbeat is answered with 401.
RequestUnauthorized ==
    /\ pc \in {"drain", "heartbeat"}
    /\ ready
    /\ Unauthorized
    /\ Recover
    /\ pc' = NextPc[pc]
    /\ UNCHANGED <<mode, server, held, ready, wire, late, resets, losses, restarts,
                   crashes>>

\* run() begins; the token file survives.
StartService ==
    /\ wire' = None
    /\ pc' = "check"
    /\ held' = None
    /\ ready' = FALSE
    /\ recovery' = FALSE
    /\ forgotten' = 0
    /\ UNCHANGED <<mode, file, server, resets, losses, fileErrors>>

\* SvcStop only sets an event: the pass runs to its end before run() returns.
StopAndStart ==
    /\ pc = "check"
    /\ restarts < MaxRestarts
    /\ restarts' = restarts + 1
    /\ StartService
    /\ UNCHANGED <<late, crashes>>

\* The process dies anywhere, an enroll request under way included.
DieAndStart ==
    /\ crashes < MaxCrashes
    /\ crashes' = crashes + 1
    /\ late' = GivenUp
    /\ StartService
    /\ UNCHANGED restarts

----------------------------------------------------------------------------

Next ==
    \/ ServerEnrolls \/ ServerEnrollsLate \/ LateEnrollDies \/ ResetDatabase
    \/ CheckCredentials
    \/ EnrollSucceeds \/ EnrollRefused \/ EnrollLost \/ PersistFails
    \/ RequestPasses \/ RequestUnauthorized
    \/ StopAndStart \/ DieAndStart

Safety == Init /\ [][Next]_vars

(* The loop goes on, the server answers enrollments, and a 401 the agent   *)
(* could be given again and again reaches it some time.                    *)
Fairness ==
    /\ WF_vars(CheckCredentials \/ EnrollSucceeds \/ EnrollRefused \/ RequestPasses)
    /\ WF_vars(ServerEnrolls)
    /\ SF_vars(RequestUnauthorized)

Spec == Safety /\ Fairness

----------------------------------------------------------------------------
(* Properties *)

MaxTokens == 1 + MaxResets
Tokens == 1 .. MaxTokens

TypeOK ==
    /\ mode \in {"issued", "token", "cert"}
    /\ file \in Tokens \union {None}
    /\ tokenHash \in Tokens \union {None}
    /\ issued \in 0 .. MaxTokens
    /\ pc \in {"check", "enroll", "drain", "heartbeat"}
    /\ held \in Tokens \union {None, Shared}
    /\ ready \in BOOLEAN
    /\ recovery \in BOOLEAN
    /\ wire \in Tokens \union {None, Waiting, Refused}
    /\ late \in 0 .. MaxLosses + MaxCrashes
    /\ forgotten \in 0 .. MaxTokens
    /\ resets \in 0 .. MaxResets
    /\ losses \in 0 .. MaxLosses
    /\ restarts \in 0 .. MaxRestarts
    /\ crashes \in 0 .. MaxCrashes
    /\ fileErrors \in 0 .. MaxFileErrors

\* "Retry enrollment once for that specific case; never loop on a bad server
\* setup" (service.py:554-556): one run of the service forgets at most one
\* token, whichever of its requests meet a 401.
ForgetsOnce == forgotten <= 1

\* A working token is never forgotten: the agent removes its file only when
\* the server's database no longer knows the token.
NeverForgetsValid ==
    [][(file # None /\ file' = None) => file # tokenHash]_vars

\* While the server holds a token for the agent no enrollment replaces it,
\* late and repeated ones included: the token the agent may be using keeps
\* working until the database is reset (enroll.py:36-44).
NeverRotated == [][tokenHash # None => tokenHash' \in {tokenHash, None}]_vars

\* The agent holds the token the server knows.
Working == file # None /\ file = tokenHash

\* The server knows a token that reached nobody.
LockedOut == tokenHash # None /\ tokenHash \notin {file, wire}

\* The one recovery of this run is spent, and the stale token is still there.
RecoverySpent == recovery /\ file # None /\ file # tokenHash

\* Whatever is reset, lost, restarted or unwritable, the agent ends up with
\* the token the server knows and keeps it, unless the server knows a token
\* the agent never got or the run has already recovered once
\* (service.py:554-556).
Recovers == mode = "issued" ~> [](Working \/ LockedOut \/ RecoverySpent)
=============================================================================
