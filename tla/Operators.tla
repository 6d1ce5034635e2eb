------------------------------ MODULE Operators ----------------------------
(***************************************************************************)
(* Operators of the PIB Server: login against the local passwords or the   *)
(* directory (auth.py, ldap_auth.py), sessions, and the management of      *)
(* users by administrators (main.py, manage_user.py).                      *)
(*                                                                         *)
(* FastAPI runs each request on a thread of its own with a READ COMMITTED  *)
(* transaction of its own.  A request reads first and writes much later    *)
(* (scrypt, or a directory that answers slowly, lies in between), and      *)
(* SQLAlchemy does not read a row again that the request has loaded: what  *)
(* it writes is decided by what it read.                                   *)
(***************************************************************************)
EXTENDS Integers, Sequences, FiniteSets

CONSTANTS
    Users,           \* normalised user names
    Accounts,        \* users manage_user created before the server started
    Threads,         \* requests the server handles at the same time
    Addresses,       \* source addresses
    Roles,           \* ALLOWED_ROLES
    Admin,           \* the role "admin"
    AllowLocal,      \* local passwords are accepted
    LdapConfigured,  \* ldap_configured()
    Groups,          \* per role: the directory groups mapped to it
    RoleOrder,       \* the roles in the order they are tried
    DefaultRole,     \* LDAP_DEFAULT_ROLE, None when not set
    AccessGroups,    \* LDAP_ACCESS_GROUP, {} when not set
    Memberships,     \* per user: what memberOf may be whenever it is read
    UserLimit,       \* LOGIN_FAILURE_LIMIT
    AddressLimit,    \* LOGIN_IP_FAILURE_LIMIT
    Window,          \* LOGIN_WINDOW
    SessionLife,     \* SESSION_HOURS
    MaxClock,        \* bound: ticks
    MaxRequests      \* bound: logins and management requests

None == "none"
Keep == "keep"          \* a field the payload of update_user leaves out

ASSUME OperatorsAssumption ==
    /\ Accounts \subseteq Users
    /\ IsFiniteSet(Threads)
    /\ Admin \in Roles /\ None \notin Roles /\ Keep \notin Roles
    /\ AllowLocal \in BOOLEAN /\ LdapConfigured \in BOOLEAN
    /\ AllowLocal \/ LdapConfigured
    /\ RoleOrder \in Seq(Roles) /\ DefaultRole \in Roles \union {None}
    /\ UserLimit \in Nat \ {0} /\ AddressLimit \in Nat \ {0}
    /\ Window \in Nat /\ SessionLife \in Nat \ {0}
    /\ MaxClock \in Nat /\ MaxRequests \in Nat

VARIABLES
    role,      \* auth_users.role, None for no row
    enabled,   \* auth_users.enabled
    local,     \* password_hash is not NULL
    sessions,  \* auth_sessions: records [token, user, expires, epoch]
    failures,  \* audit_log: records [login, user, address, at] of failed logins
    thread,    \* what each thread is doing
    epoch,     \* history: how often the user was disabled or given a password
    raced,     \* history: tokens whose login overlapped such a revocation
    overtaken, \* history: threads with an update whose author has been no
               \* administrator at some time since he was let through
    clock,
    requests   \* logins and management requests so far; a login's is its token

users == <<role, enabled, local>>
history == <<epoch, raced, overtaken>>
vars == <<users, sessions, failures, thread, history, clock, requests>>

Idle == [pc |-> "idle"]

Row(u) == [role |-> role[u], enabled |-> enabled[u], local |-> local[u], epoch |-> epoch[u]]
Admins == {u \in Users : role[u] = Admin /\ enabled[u]}
Of(u) == {s \in sessions : s.user = u}
Expired == {s \in sessions : s.expires <= clock}

Init ==
    /\ role = [u \in Users |-> IF u \in Accounts THEN Admin ELSE None]
    /\ enabled = [u \in Users |-> u \in Accounts]
    /\ local = [u \in Users |-> u \in Accounts]
    /\ sessions = {}
    /\ failures = {}
    /\ thread = [t \in Threads |-> Idle]
    /\ epoch = [u \in Users |-> 0]
    /\ raced = {}
    /\ overtaken = {}
    /\ clock = 0
    /\ requests = 0

CountRequest == requests < MaxRequests /\ requests' = requests + 1

\* The answer of a request: its thread is free again.
Answer(t) == thread' = [thread EXCEPT ![t] = Idle]

\* t writes a row of auth_users and is done: the updates still under way whose
\* author is no administrator now have been overtaken.
Overtakes(t) ==
    overtaken' = {o \in Threads \ {t} :
        /\ thread[o].pc \in {"update", "commit"}
        /\ o \in overtaken \/ thread[o].by.user \notin Admins'}

----------------------------------------------------------------------------
(* Login *)

FailuresFrom(a) == {f \in failures : f.address = a}
FailuresOf(u, a) == {f \in FailuresFrom(a) : f.user = u}
Recent(rows) == {f \in rows : f.at >= clock - Window}

\* Mutant of Throttled: the count is compared one too late.
ThrottledLate(u, a) ==
    \/ Cardinality(Recent(FailuresOf(u, a))) > UserLimit
    \/ Cardinality(Recent(FailuresFrom(a))) > AddressLimit

Throttled(u, a) ==
    \/ Cardinality(Recent(FailuresOf(u, a))) >= UserLimit
    \/ Cardinality(Recent(FailuresFrom(a))) >= AddressLimit

\* A throttled login is answered 429 and leaves no row.  Otherwise the row of
\* the user is read, and the password it is compared with is this row's.
LoginReads(t, u, a, knows) ==
    /\ thread[t] = Idle
    /\ CountRequest
    /\ IF Throttled(u, a)
       THEN UNCHANGED thread
       ELSE thread' = [thread EXCEPT ![t] =
                [pc |-> "login", user |-> u, address |-> a, at |-> clock,
                 known |-> Row(u), token |-> requests',
                 valid |-> AllowLocal /\ knows /\ enabled[u] /\ local[u]]]
    /\ UNCHANGED <<users, sessions, failures, history, clock>>

\* The audit row's CURRENT_TIMESTAMP is the start of its transaction.
RecordFailure(l) ==
    failures' = failures \union
        {[login |-> l.token, user |-> l.user, address |-> l.address, at |-> l.at]}

\* A request has deleted the sessions of u and not committed yet.
Revoking(u) == \E t \in Threads : thread[t].pc = "commit" /\ thread[t].revokes = {u}

\* _create_session: expired sessions go, the new one comes.
CreateSession(l) ==
    /\ sessions' = (sessions \ Expired) \union
         {[token |-> l.token, user |-> l.user, expires |-> clock + SessionLife,
           epoch |-> l.known.epoch]}
    /\ raced' = IF Revoking(l.user) \/ epoch[l.user] # l.known.epoch
                THEN raced \union {l.token} ELSE raced
    /\ UNCHANGED epoch

LocalLogin(t) ==
    LET l == thread[t]
    IN  /\ l.pc = "login"
        /\ l.valid
        /\ CreateSession(l)
        /\ Answer(t)
        /\ UNCHANGED <<users, failures, overtaken, clock, requests>>

\* A group is known by its common name, in whatever container it lies.
MatchesGroups(configured, memberOf) == configured \intersect memberOf # {}
HasAccessGroup(memberOf) == AccessGroups = {} \/ MatchesGroups(AccessGroups, memberOf)

\* The first role with a group of the user wins; the default is for a user in
\* none of the groups.
RoleFromMemberOf(memberOf) ==
    LET matching == {i \in DOMAIN RoleOrder : MatchesGroups(Groups[RoleOrder[i]], memberOf)}
    IN  IF matching = {} THEN DefaultRole
        ELSE RoleOrder[CHOOSE i \in matching : \A j \in matching : i <= j]

\* perform_ldap_login after a successful bind; None is "not_in_group".
DirectoryRole(memberOf) ==
    IF HasAccessGroup(memberOf) THEN RoleFromMemberOf(memberOf) ELSE None

\* The row upsert_directory_user works on: as loaded before the bind, or as it
\* is now when there was none.
Loaded(l) == IF l.known.role # None THEN l.known ELSE Row(l.user)

\* upsert_directory_user: a new user is enabled and has no password; the role
\* is written only where it differs from the one loaded.
UpsertDirectoryUser(l, r) ==
    LET u == l.user
    IN  IF role[u] = None
        THEN /\ role' = [role EXCEPT ![u] = r]
             /\ enabled' = [enabled EXCEPT ![u] = TRUE]
             /\ local' = [local EXCEPT ![u] = FALSE]
        ELSE /\ role' = [role EXCEPT ![u] = IF r # Loaded(l).role THEN r ELSE @]
             /\ UNCHANGED <<enabled, local>>

\* The directory accepts the bind.  A user it knows to be disabled here gets
\* his new role all the same, and no session.
DirectoryLogin(t) ==
    LET l == thread[t]
    IN  /\ l.pc = "login"
        /\ ~ l.valid
        /\ LdapConfigured
        /\ \E memberOf \in Memberships[l.user] :
             /\ DirectoryRole(memberOf) # None
             /\ UpsertDirectoryUser(l, DirectoryRole(memberOf))
        /\ IF role[l.user] = None \/ Loaded(l).enabled
           THEN CreateSession(l) /\ UNCHANGED failures
           ELSE RecordFailure(l) /\ UNCHANGED <<sessions, epoch, raced>>
        /\ Overtakes(t)
        /\ Answer(t)
        /\ UNCHANGED <<clock, requests>>

\* Wrong password, not in a group, directory unavailable.
LoginFails(t) ==
    LET l == thread[t]
    IN  /\ l.pc = "login"
        /\ ~ l.valid
        /\ RecordFailure(l)
        /\ Answer(t)
        /\ UNCHANGED <<users, sessions, history, clock, requests>>

----------------------------------------------------------------------------
(* Sessions *)

\* _session_from_request
Usable(s) == s.expires > clock /\ enabled[s.user]

\* Any request with an expired session deletes it.
UseExpired ==
    /\ \E s \in Expired : sessions' = sessions \ {s}
    /\ UNCHANGED <<users, failures, thread, history, clock, requests>>

Logout ==
    /\ \E s \in sessions : Usable(s) /\ sessions' = sessions \ {s}
    /\ UNCHANGED <<users, failures, thread, history, clock, requests>>

----------------------------------------------------------------------------
(* Management of users *)

\* Mutant of AdminContext: any session may manage users.
AnyContext(s) == Usable(s)

\* require_admin_context
AdminContext(s) == Usable(s) /\ role[s.user] = Admin

\* Mutant of RemovesOwnAccess: update_user has no such guard.
NeverRemovesOwnAccess(s, u, newRole, newEnabled) == FALSE

RemovesOwnAccess(s, u, newRole, newEnabled) ==
    s.user = u /\ (newEnabled = "disable" \/ newRole \notin {Keep, Admin})

NewRoles == Roles \union {Keep}
NewEnabled == {"enable", "disable", Keep}
Status(u) == IF enabled[u] THEN "enable" ELSE "disable"

\* Mutant of Revokes: only a disabled user loses his sessions.
RevokesDisabled(newEnabled, reset) == newEnabled = "disable"

Revokes(newEnabled, reset) == newEnabled = "disable" \/ reset

\* update_user up to its DELETE: require_admin_context, the guards, and the
\* rows it will write.  A request that changes nothing, or is refused, writes
\* nothing.
UpdateReads(t) ==
    /\ thread[t] = Idle
    /\ CountRequest
    /\ \E s \in sessions, u \in Users, newRole \in NewRoles,
          newEnabled \in NewEnabled, reset \in BOOLEAN :
         /\ AdminContext(s)
         /\ role[u] # None
         /\ ~ RemovesOwnAccess(s, u, newRole, newEnabled)
         /\ reset => local[u]
         /\ newRole \notin {Keep, role[u]} \/ newEnabled \notin {Keep, Status(u)} \/ reset
         /\ thread' = [thread EXCEPT ![t] =
              [pc |-> "update", by |-> s, user |-> u,
               role |-> IF newRole = role[u] THEN Keep ELSE newRole,
               enabled |-> IF newEnabled = Status(u) THEN Keep ELSE newEnabled,
               reset |-> reset,
               revokes |-> IF Revokes(newEnabled, reset) THEN {u} ELSE {}]]
    /\ UNCHANGED <<users, sessions, failures, history, clock>>

\* DELETE FROM auth_sessions: the sessions that are committed by now.
UpdateDeletes(t) ==
    /\ thread[t].pc = "update"
    /\ thread' = [thread EXCEPT ![t] =
         [pc |-> "commit", by |-> @.by, user |-> @.user, role |-> @.role,
          enabled |-> @.enabled, reset |-> @.reset, revokes |-> @.revokes,
          deleted |-> UNION {Of(u) : u \in @.revokes}]]
    /\ UNCHANGED <<users, sessions, failures, history, clock, requests>>

\* The flush writes last_seen_at_utc of the administrator's own session: it
\* waits for whoever has deleted that row, and fails when the row is gone.
\* His own DELETE takes the session out of the flush.
Locked(t) ==
    \E o \in Threads \ {t} :
        thread[o].pc = "commit" /\ thread[t].by \in thread[o].deleted

UpdateCommits(t) ==
    LET c == thread[t]
    IN  /\ c.pc = "commit"
        /\ c.by \in c.deleted \/ (c.by \in sessions /\ ~ Locked(t))
        /\ role' = [role EXCEPT ![c.user] = IF c.role = Keep THEN @ ELSE c.role]
        /\ enabled' = [enabled EXCEPT ![c.user] = IF c.enabled = Keep THEN @ ELSE c.enabled = "enable"]
        /\ epoch' = [epoch EXCEPT ![c.user] =
                        IF c.reset \/ c.enabled = "disable" THEN @ + 1 ELSE @]
        /\ sessions' = sessions \ c.deleted
        /\ Overtakes(t)
        /\ Answer(t)
        /\ UNCHANGED <<local, failures, raced, clock, requests>>

\* create_user: the user must be new when it is read ...
CreateReads(t) ==
    /\ thread[t] = Idle
    /\ CountRequest
    /\ \E s \in sessions, u \in Users, r \in Roles :
         /\ AdminContext(s)
         /\ role[u] = None
         /\ thread' = [thread EXCEPT ![t] =
              [pc |-> "create", by |-> s, user |-> u, role |-> r]]
    /\ UNCHANGED <<users, sessions, failures, history, clock>>

Insert(u, r) ==
    /\ role[u] = None
    /\ role' = [role EXCEPT ![u] = r]
    /\ enabled' = [enabled EXCEPT ![u] = TRUE]
    /\ local' = [local EXCEPT ![u] = TRUE]

\* ... and when it is inserted, or the unique key refuses it.
CreateCommits(t) ==
    LET c == thread[t]
    IN  /\ c.pc = "create"
        /\ c.by \in sessions /\ ~ Locked(t)
        /\ Insert(c.user, c.role)
        /\ Answer(t)
        /\ UNCHANGED <<sessions, failures, history, clock, requests>>

\* python -m app.manage_user create
ManageUser ==
    /\ CountRequest
    /\ \E u \in Users, r \in Roles : Insert(u, r)
    /\ UNCHANGED <<sessions, failures, thread, history, clock>>

\* A lost row or a unique key (500), a deadlock PostgreSQL resolves, a lost
\* connection, the death of the process: the transaction is rolled back.
RequestFails(t) ==
    /\ thread[t] # Idle
    /\ Answer(t)
    /\ overtaken' = overtaken \ {t}
    /\ UNCHANGED <<users, sessions, failures, epoch, raced, clock, requests>>

Tick ==
    /\ clock < MaxClock
    /\ clock' = clock + 1
    /\ UNCHANGED <<users, sessions, failures, thread, history, requests>>

Next ==
    \/ \E t \in Threads :
         \/ \E u \in Users, a \in Addresses, knows \in BOOLEAN : LoginReads(t, u, a, knows)
         \/ LocalLogin(t) \/ DirectoryLogin(t) \/ LoginFails(t)
         \/ UpdateReads(t) \/ UpdateDeletes(t) \/ UpdateCommits(t)
         \/ CreateReads(t) \/ CreateCommits(t)
         \/ RequestFails(t)
    \/ UseExpired \/ Logout \/ ManageUser \/ Tick

Spec == Init /\ [][Next]_vars

----------------------------------------------------------------------------
(* Properties *)

FailureRecords ==
    [login : 1 .. MaxRequests, user : Users, address : Addresses, at : 0 .. MaxClock]
SessionRecords ==
    [token : 1 .. MaxRequests, user : Users, expires : Nat, epoch : 0 .. MaxRequests]

TypeOK ==
    /\ role \in [Users -> Roles \union {None}]
    /\ enabled \in [Users -> BOOLEAN]
    /\ local \in [Users -> BOOLEAN]
    /\ \A s \in sessions : s \in SessionRecords /\ role[s.user] # None
    /\ failures \subseteq FailureRecords
    /\ \A t \in Threads :
         thread[t].pc \in {"idle", "login", "update", "commit", "create"}
    /\ epoch \in [Users -> 0 .. MaxRequests]
    /\ raced \subseteq 1 .. MaxRequests
    /\ overtaken \subseteq Threads
    /\ clock \in 0 .. MaxClock
    /\ requests \in 0 .. MaxRequests

AtMost(rows, limit) ==
    \A now \in 0 .. MaxClock :
        Cardinality({f \in rows : f.at \in now - Window .. now})
            <= limit + Cardinality(Threads) - 1

\* Whatever requests overlap, no window holds more failed logins of a user
\* from an address, or of all users from an address, than the limit and the
\* requests that had been counted too early (auth.py:281-304).
ThrottleHolds ==
    \A a \in Addresses :
        /\ AtMost(FailuresFrom(a), AddressLimit)
        /\ \A u \in Users : AtMost(FailuresOf(u, a), UserLimit)

\* A session opened before its user was disabled or given another password
\* has survived only because its login overlapped that update: the DELETE of
\* update_user takes every other one, whatever else runs (main.py:378-379).
SurvivorsRaced ==
    \A s \in sessions : s.epoch < epoch[s.user] => s.token \in raced

\* Whatever requests overlap, the server is left without an administrator in
\* two ways only.  One is an update whose author has lost his own access since
\* he was let through: two administrators who demote each other, or one whom
\* the directory demotes meanwhile (main.py:362-363 spares only the author
\* himself).  The other is the last administrator's own login, when the
\* directory has another role for him (auth.py:81).
LastAdminKept ==
    [][Admins # {} /\ Admins' = {} =>
         \E t \in Threads :
            /\ thread'[t] = Idle
            /\ \/ thread[t].pc = "commit" /\ t \in overtaken
               \/ thread[t].pc = "login" /\ Admins = {thread[t].user}]_vars
=============================================================================
