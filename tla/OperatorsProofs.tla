--------------------------- MODULE OperatorsProofs -------------------------
(***************************************************************************)
(* Proofs about Operators, for every set of users, threads, addresses and  *)
(* roles, every directory, limit and life of a session.                    *)
(***************************************************************************)
EXTENDS Operators, FiniteSetTheorems, WellFoundedInduction, TLAPS

----------------------------------------------------------------------------
(* The inductive invariant *)

\* Passwords and accounts are counted from 0.
EpochsCounted ==
    /\ epoch \in [Users -> Nat]
    /\ role = [u \in Users |-> role[u]]
    /\ enabled = [u \in Users |-> enabled[u]]
    /\ thread = [t \in Threads |-> thread[t]]
    /\ \A s \in sessions : s.user \in Users /\ s.epoch \in Nat

\* A login remembers how far the user was when it read him.
LoginsRemember ==
    \A t \in Threads : thread[t].pc = "login" =>
        thread[t].user \in Users /\ thread[t].known.epoch \in Nat

\* What the guards of update_user leave for its transaction: a revocation
\* deletes sessions, and no one takes his own role or account away.
UpdatesGuarded ==
    \A t \in Threads : thread[t].pc \in {"update", "commit"} =>
        /\ thread[t].user \in Users
        /\ thread[t].reset \/ thread[t].enabled = "disable"
             => thread[t].revokes = {thread[t].user}
        /\ thread[t].by.user = thread[t].user
             => thread[t].role \in {Keep, Admin} /\ thread[t].enabled \in {Keep, "enable"}

\* Between the DELETE of a revocation and its COMMIT: a session of the user
\* is deleted, or its login has overlapped the revocation.
DeletedOrRaced ==
    \A t \in Threads : \A s \in sessions :
        (thread[t].pc = "commit" /\ thread[t].revokes = {s.user})
            => s \in thread[t].deleted \/ s.token \in raced

Inv ==
    /\ EpochsCounted
    /\ LoginsRemember
    /\ UpdatesGuarded
    /\ DeletedOrRaced
    /\ SurvivorsRaced

LEMMA InitInv == Init => Inv
  BY DEF Init, Idle, Inv, EpochsCounted, LoginsRemember, UpdatesGuarded,
         DeletedOrRaced, SurvivorsRaced

----------------------------------------------------------------------------

\* A step that only takes sessions away, and leaves a thread as it was or
\* free, or with a record that keeps to the invariant.
LEMMA QuietStep ==
    ASSUME Inv, sessions' \subseteq sessions, raced' = raced, epoch' = epoch,
           role' = [u \in Users |-> role'[u]],
           enabled' = [u \in Users |-> enabled'[u]],
           thread' = [t \in Threads |-> thread'[t]],
           \A t \in Threads : thread'[t] = thread[t] \/ thread'[t] = Idle
    PROVE  Inv'
<1>1. Idle.pc = "idle"
  BY DEF Idle
<1>2. EpochsCounted'
  BY DEF Inv, EpochsCounted
<1>3. LoginsRemember' /\ UpdatesGuarded' /\ DeletedOrRaced' /\ SurvivorsRaced'
  BY <1>1 DEF Inv, LoginsRemember, UpdatesGuarded, DeletedOrRaced, SurvivorsRaced
<1> QED  BY <1>2, <1>3 DEF Inv

LEMMA LoginReadsInv ==
    ASSUME Inv, NEW t \in Threads, NEW u \in Users, NEW a \in Addresses,
           NEW knows \in BOOLEAN, LoginReads(t, u, a, knows)
    PROVE  Inv'
<1>1. UNCHANGED <<role, enabled, sessions, raced, epoch>>
  BY DEF LoginReads, users, history
<1>2. CASE thread' = thread
  BY <1>1, <1>2, QuietStep DEF Inv, EpochsCounted
<1>3. CASE thread' # thread
  <2> DEFINE r == [pc |-> "login", user |-> u, address |-> a, at |-> clock,
                   known |-> Row(u), token |-> requests',
                   valid |-> AllowLocal /\ knows /\ enabled[u] /\ local[u]]
  <2>1. thread' = [thread EXCEPT ![t] = r]
    BY <1>3, Zenon DEF LoginReads
  <2>2. r.pc = "login" /\ r.user = u /\ r.known = Row(u)
    BY Zenon
  <2>3. Row(u).epoch = epoch[u]
    BY DEF Row
  <2> HIDE DEF r
  <2>4. /\ thread'[t] = r /\ \A o \in Threads \ {t} : thread'[o] = thread[o]
        /\ thread' = [o \in Threads |-> thread'[o]]
    BY <2>1 DEF Inv, EpochsCounted
  <2>5. EpochsCounted'
    BY <1>1, <2>4 DEF Inv, EpochsCounted
  <2>6. LoginsRemember'
    BY <1>1, <2>2, <2>3, <2>4 DEF Inv, LoginsRemember, EpochsCounted
  <2>7. UpdatesGuarded' /\ DeletedOrRaced'
    BY <1>1, <2>2, <2>4 DEF Inv, UpdatesGuarded, DeletedOrRaced
  <2>8. SurvivorsRaced'
    BY <1>1 DEF Inv, SurvivorsRaced
  <2> QED  BY <2>5, <2>6, <2>7, <2>8 DEF Inv
<1> QED  BY <1>2, <1>3

\* The session of a login that a revocation overlaps is counted as raced.
LEMMA CreateSessionInv ==
    ASSUME Inv, NEW t \in Threads, thread[t].pc = "login",
           CreateSession(thread[t]), Answer(t),
           role' = [u \in Users |-> role'[u]],
           enabled' = [u \in Users |-> enabled'[u]]
    PROVE  Inv'
<1> DEFINE l == thread[t]
           new == [token |-> l.token, user |-> l.user, expires |-> clock + SessionLife,
                   epoch |-> l.known.epoch]
<1>1. /\ sessions' \subseteq sessions \union {new}
      /\ raced \subseteq raced'
      /\ Revoking(l.user) \/ epoch[l.user] # l.known.epoch => l.token \in raced'
      /\ epoch' = epoch
  BY DEF CreateSession
<1>2. l.user \in Users /\ l.known.epoch \in Nat
  BY DEF Inv, LoginsRemember
<1>3. new.token = l.token /\ new.user = l.user /\ new.epoch = l.known.epoch
  OBVIOUS
<1>4. /\ thread'[t] = Idle /\ \A o \in Threads \ {t} : thread'[o] = thread[o]
      /\ thread' = [o \in Threads |-> thread'[o]]
  BY DEF Answer, Inv, EpochsCounted
<1>5. Idle.pc = "idle"
  BY DEF Idle
<1> HIDE DEF l, new
<1>6. EpochsCounted'
  BY <1>1, <1>2, <1>3, <1>4 DEF Inv, EpochsCounted
<1>7. LoginsRemember' /\ UpdatesGuarded'
  BY <1>4, <1>5 DEF Inv, LoginsRemember, UpdatesGuarded
<1>8. DeletedOrRaced'
  <2> SUFFICES ASSUME NEW o \in Threads, NEW s \in sessions',
                      thread'[o].pc = "commit", thread'[o].revokes = {s.user}
               PROVE  s \in thread'[o].deleted \/ s.token \in raced'
    BY DEF DeletedOrRaced
  <2>1. o # t /\ thread'[o] = thread[o]
    BY <1>4, <1>5
  <2>2. CASE s \in sessions
    BY <1>1, <2>1, <2>2 DEF Inv, DeletedOrRaced
  <2>3. CASE s = new
    <3>1. Revoking(l.user)
      BY <1>3, <2>1, <2>3 DEF Revoking
    <3> QED  BY <1>1, <1>3, <2>3, <3>1
  <2> QED  BY <1>1, <2>2, <2>3
<1>9. SurvivorsRaced'
  BY <1>1, <1>2, <1>3 DEF Inv, SurvivorsRaced, EpochsCounted
<1> QED  BY <1>6, <1>7, <1>8, <1>9 DEF Inv

LEMMA LoginInv ==
    ASSUME Inv, NEW t \in Threads, LocalLogin(t) \/ DirectoryLogin(t) \/ LoginFails(t)
    PROVE  Inv'
<1>1. CASE LocalLogin(t)
  BY <1>1, CreateSessionInv DEF LocalLogin, users, Inv, EpochsCounted
<1>2. CASE DirectoryLogin(t)
  <2>1. /\ thread[t].pc = "login" /\ Answer(t)
        /\ \/ CreateSession(thread[t])
           \/ UNCHANGED <<sessions, epoch, raced>>
    BY <1>2 DEF DirectoryLogin, history
  <2>2. PICK r : UpsertDirectoryUser(thread[t], r)
    BY <1>2 DEF DirectoryLogin
  <2>3. /\ role' = [u \in Users |-> role'[u]]
        /\ enabled' = [u \in Users |-> enabled'[u]]
    BY <2>2 DEF UpsertDirectoryUser, Inv, EpochsCounted
  <2>4. CASE CreateSession(thread[t])
    BY <2>1, <2>3, <2>4, CreateSessionInv
  <2>5. CASE UNCHANGED <<sessions, epoch, raced>>
    <3>1. /\ thread' = [o \in Threads |-> thread'[o]]
          /\ \A o \in Threads : thread'[o] = thread[o] \/ thread'[o] = Idle
      BY <2>1 DEF Answer, Inv, EpochsCounted
    <3> QED  BY <2>3, <2>5, <3>1, QuietStep
  <2> QED  BY <2>1, <2>4, <2>5
<1>3. CASE LoginFails(t)
  <2>1. /\ thread' = [o \in Threads |-> thread'[o]]
        /\ \A o \in Threads : thread'[o] = thread[o] \/ thread'[o] = Idle
    BY <1>3 DEF LoginFails, Answer, Inv, EpochsCounted
  <2>2. UNCHANGED <<role, enabled, sessions, epoch, raced>>
    BY <1>3 DEF LoginFails, users, history
  <2> QED  BY <2>1, <2>2, QuietStep DEF Inv, EpochsCounted
<1> QED  BY <1>1, <1>2, <1>3

----------------------------------------------------------------------------
(* update_user *)

LEMMA UpdateReadsInv ==
    ASSUME Inv, NEW t \in Threads, UpdateReads(t)
    PROVE  Inv'
<1>1. UNCHANGED <<role, enabled, sessions, raced, epoch>>
  BY DEF UpdateReads, users, history
<1>2. PICK s \in sessions, u \in Users, newRole \in NewRoles,
           newEnabled \in NewEnabled, reset \in BOOLEAN :
        /\ AdminContext(s)
        /\ role[u] # None
        /\ ~ RemovesOwnAccess(s, u, newRole, newEnabled)
        /\ reset => local[u]
        /\ newRole \notin {Keep, role[u]} \/ newEnabled \notin {Keep, Status(u)} \/ reset
        /\ thread' = [thread EXCEPT ![t] =
              [pc |-> "update", by |-> s, user |-> u,
               role |-> IF newRole = role[u] THEN Keep ELSE newRole,
               enabled |-> IF newEnabled = Status(u) THEN Keep ELSE newEnabled,
               reset |-> reset,
               revokes |-> IF Revokes(newEnabled, reset) THEN {u} ELSE {}]]
  BY Zenon DEF UpdateReads
<1> DEFINE kept == IF newRole = role[u] THEN Keep ELSE newRole
           status == IF newEnabled = Status(u) THEN Keep ELSE newEnabled
           revoked == IF Revokes(newEnabled, reset) THEN {u} ELSE {}
<1>3. /\ s.user = u => kept \in {Keep, Admin} /\ status \in {Keep, "enable"}
      /\ reset \/ status = "disable" => revoked = {u}
  BY <1>2 DEF RemovesOwnAccess, Revokes, Keep, NewEnabled
<1> HIDE DEF kept, status, revoked
<1> DEFINE r == [pc |-> "update", by |-> s, user |-> u, role |-> kept,
                 enabled |-> status, reset |-> reset, revokes |-> revoked]
<1>4. thread' = [thread EXCEPT ![t] = r]
  BY <1>2 DEF kept, status, revoked
<1>5. /\ r.pc = "update" /\ r.by = s /\ r.user = u /\ r.role = kept
      /\ r.enabled = status /\ r.revokes = revoked /\ r.reset = reset
  OBVIOUS
<1> HIDE DEF r
<1>6. /\ thread'[t] = r /\ \A o \in Threads \ {t} : thread'[o] = thread[o]
      /\ thread' = [o \in Threads |-> thread'[o]]
  BY <1>4 DEF Inv, EpochsCounted
<1>7. EpochsCounted'
  BY <1>1, <1>6 DEF Inv, EpochsCounted
<1>8. LoginsRemember' /\ DeletedOrRaced'
  BY <1>1, <1>5, <1>6 DEF Inv, LoginsRemember, DeletedOrRaced
<1>9. UpdatesGuarded'
  <2>1. /\ r.reset \/ r.enabled = "disable" => r.revokes = {r.user}
        /\ r.by.user = r.user => r.role \in {Keep, Admin} /\ r.enabled \in {Keep, "enable"}
    BY <1>3, <1>5
  <2> QED  BY <1>5, <1>6, <2>1 DEF Inv, UpdatesGuarded
<1>10. SurvivorsRaced'
  BY <1>1 DEF Inv, SurvivorsRaced
<1> QED  BY <1>7, <1>8, <1>9, <1>10 DEF Inv

\* The DELETE takes every session of the user that is committed by then.
LEMMA UpdateDeletesInv ==
    ASSUME Inv, NEW t \in Threads, UpdateDeletes(t)
    PROVE  Inv'
<1>1. UNCHANGED <<role, enabled, sessions, raced, epoch>>
  BY DEF UpdateDeletes, users, history
<1> DEFINE c == thread[t]
           r == [pc |-> "commit", by |-> c.by, user |-> c.user, role |-> c.role,
                 enabled |-> c.enabled, reset |-> c.reset, revokes |-> c.revokes,
                 deleted |-> UNION {Of(u) : u \in c.revokes}]
<1>2. c.pc = "update" /\ thread' = [thread EXCEPT ![t] = r]
  BY DEF UpdateDeletes
<1>3. /\ r.pc = "commit" /\ r.by = c.by /\ r.user = c.user /\ r.role = c.role
      /\ r.enabled = c.enabled /\ r.reset = c.reset /\ r.revokes = c.revokes
      /\ \A s \in sessions : r.revokes = {s.user} => s \in r.deleted
  BY DEF Of
<1> HIDE DEF r
<1>4. /\ thread'[t] = r /\ \A o \in Threads \ {t} : thread'[o] = thread[o]
      /\ thread' = [o \in Threads |-> thread'[o]]
  BY <1>2 DEF Inv, EpochsCounted
<1>5. EpochsCounted'
  BY <1>1, <1>4 DEF Inv, EpochsCounted
<1>6. LoginsRemember' /\ DeletedOrRaced'
  BY <1>1, <1>3, <1>4 DEF Inv, LoginsRemember, DeletedOrRaced
<1>7. UpdatesGuarded'
  BY <1>2, <1>3, <1>4 DEF Inv, UpdatesGuarded
<1>8. SurvivorsRaced'
  BY <1>1 DEF Inv, SurvivorsRaced
<1> QED  BY <1>5, <1>6, <1>7, <1>8 DEF Inv

LEMMA UpdateCommitsInv ==
    ASSUME Inv, NEW t \in Threads, UpdateCommits(t)
    PROVE  Inv'
<1> DEFINE c == thread[t]
<1>1. /\ c.pc = "commit"
      /\ role' = [role EXCEPT ![c.user] = IF c.role = Keep THEN @ ELSE c.role]
      /\ enabled' = [enabled EXCEPT ![c.user] =
                       IF c.enabled = Keep THEN @ ELSE c.enabled = "enable"]
      /\ epoch' = [epoch EXCEPT ![c.user] =
                        IF c.reset \/ c.enabled = "disable" THEN @ + 1 ELSE @]
      /\ sessions' = sessions \ c.deleted
      /\ Answer(t) /\ raced' = raced
  BY DEF UpdateCommits
<1>2. /\ thread'[t] = Idle /\ \A o \in Threads \ {t} : thread'[o] = thread[o]
      /\ thread' = [o \in Threads |-> thread'[o]]
  BY <1>1 DEF Answer, Inv, EpochsCounted
<1>3. /\ c.user \in Users
      /\ c.reset \/ c.enabled = "disable" => c.revokes = {c.user}
  BY <1>1 DEF Inv, UpdatesGuarded
<1>4. Idle.pc = "idle"
  BY DEF Idle
<1>5. \A u \in Users : epoch'[u] = epoch[u]
                         \/ (u = c.user /\ c.revokes = {u} /\ epoch'[u] = epoch[u] + 1)
  BY <1>1, <1>3 DEF Inv, EpochsCounted
<1>6. EpochsCounted'
  <2>1. /\ role' = [u \in Users |-> role'[u]]
        /\ enabled' = [u \in Users |-> enabled'[u]]
        /\ epoch' = [u \in Users |-> epoch'[u]]
    BY <1>1 DEF Inv, EpochsCounted
  <2>2. epoch' \in [Users -> Nat]
    BY <1>5, <2>1 DEF Inv, EpochsCounted
  <2> QED  BY <1>1, <1>2, <2>1, <2>2 DEF Inv, EpochsCounted
<1>7. LoginsRemember' /\ UpdatesGuarded' /\ DeletedOrRaced'
  BY <1>1, <1>2, <1>4 DEF Inv, LoginsRemember, UpdatesGuarded, DeletedOrRaced
<1>8. SurvivorsRaced'
  <2> SUFFICES ASSUME NEW s \in sessions', s.epoch < epoch'[s.user]
               PROVE  s.token \in raced
    BY <1>1 DEF SurvivorsRaced
  <2>1. s \in sessions /\ s \notin c.deleted /\ s.user \in Users
    BY <1>1 DEF Inv, EpochsCounted
  <2>2. CASE epoch'[s.user] = epoch[s.user]
    BY <2>1, <2>2 DEF Inv, SurvivorsRaced
  <2>3. CASE c.revokes = {s.user}
    BY <1>1, <2>1, <2>3 DEF Inv, DeletedOrRaced
  <2> QED  BY <1>5, <2>1, <2>2, <2>3
<1> QED  BY <1>6, <1>7, <1>8 DEF Inv

----------------------------------------------------------------------------
(* create_user, and the steps without a say in this *)

LEMMA InsertTyped ==
    ASSUME Inv, NEW u \in Users, NEW r, Insert(u, r)
    PROVE  /\ role' = [x \in Users |-> role'[x]]
           /\ enabled' = [x \in Users |-> enabled'[x]]
  BY DEF Insert, Inv, EpochsCounted

LEMMA CreateReadsInv ==
    ASSUME Inv, NEW t \in Threads, CreateReads(t)
    PROVE  Inv'
<1>1. UNCHANGED <<role, enabled, sessions, raced, epoch>>
  BY DEF CreateReads, users, history
<1>2. PICK r : r.pc = "create" /\ thread' = [thread EXCEPT ![t] = r]
  BY DEF CreateReads
<1>3. /\ thread'[t] = r /\ \A o \in Threads \ {t} : thread'[o] = thread[o]
      /\ thread' = [o \in Threads |-> thread'[o]]
  BY <1>2 DEF Inv, EpochsCounted
<1>4. EpochsCounted'
  BY <1>1, <1>3 DEF Inv, EpochsCounted
<1>5. LoginsRemember' /\ UpdatesGuarded' /\ DeletedOrRaced' /\ SurvivorsRaced'
  BY <1>1, <1>2, <1>3
  DEF Inv, LoginsRemember, UpdatesGuarded, DeletedOrRaced, SurvivorsRaced
<1> QED  BY <1>4, <1>5 DEF Inv

LEMMA CreateCommitsInv ==
    ASSUME Inv, NEW t \in Threads, CreateCommits(t)
    PROVE  Inv'
<1>1. UNCHANGED <<sessions, raced, epoch>> /\ Answer(t)
         /\ Insert(thread[t].user, thread[t].role)
  BY DEF CreateCommits, history
<1>2. /\ role' = [x \in Users |-> role'[x]]
      /\ enabled' = [x \in Users |-> enabled'[x]]
  BY <1>1 DEF Insert, Inv, EpochsCounted
<1>3. /\ thread' = [o \in Threads |-> thread'[o]]
      /\ \A o \in Threads : thread'[o] = thread[o] \/ thread'[o] = Idle
  BY <1>1 DEF Answer, Inv, EpochsCounted
<1> QED  BY <1>1, <1>2, <1>3, QuietStep

LEMMA OtherInv ==
    ASSUME Inv,
           \/ UseExpired \/ Logout \/ ManageUser \/ Tick
           \/ \E t \in Threads : RequestFails(t)
    PROVE  Inv'
<1>1. sessions' \subseteq sessions /\ raced' = raced /\ epoch' = epoch
  BY DEF UseExpired, Logout, ManageUser, Tick, RequestFails, history
<1>2. /\ role' = [x \in Users |-> role'[x]]
      /\ enabled' = [x \in Users |-> enabled'[x]]
  <2>1. CASE ManageUser
    BY <2>1, InsertTyped DEF ManageUser
  <2>2. CASE ~ManageUser
    BY <2>2 DEF UseExpired, Logout, Tick, RequestFails, users, Inv, EpochsCounted
  <2> QED  BY <2>1, <2>2
<1>3. /\ thread' = [o \in Threads |-> thread'[o]]
      /\ \A o \in Threads : thread'[o] = thread[o] \/ thread'[o] = Idle
  BY DEF UseExpired, Logout, ManageUser, Tick, RequestFails, Answer, Inv, EpochsCounted
<1> QED  BY <1>1, <1>2, <1>3, QuietStep

LEMMA StutterInv == ASSUME Inv, UNCHANGED vars PROVE Inv'
  BY QuietStep DEF vars, users, history, Inv, EpochsCounted

LEMMA InvStep == Inv /\ [Next]_vars => Inv'
  BY LoginReadsInv, LoginInv, UpdateReadsInv, UpdateDeletesInv, UpdateCommitsInv,
     CreateReadsInv, CreateCommitsInv, OtherInv, StutterInv DEF Next

\* The invariant, from which the properties below follow.
THEOREM Invariance == Spec => []Inv
  BY InvStep, InitInv, PTL DEF Spec

----------------------------------------------------------------------------

\* A session outlives the disabling of its user, or a new password, only if
\* its login overlapped that update (main.py:378-379, auth.py:307-349).
THEOREM RevocationComplete == Spec => []SurvivorsRaced
<1>1. Inv => SurvivorsRaced
  BY DEF Inv
<1> QED  BY <1>1, Invariance, PTL

----------------------------------------------------------------------------
(* The last administrator *)

\* Whoever has an update under way is an administrator, or has been overtaken.
AuthorsAllowed ==
    \A t \in Threads : thread[t].pc \in {"update", "commit"} =>
        thread[t].by.user \in Admins \/ t \in overtaken

\* A step that takes nobody's access, and begins no update.
LEMMA QuietAuthors ==
    ASSUME AuthorsAllowed, Admins \subseteq Admins',
           \A t \in Threads : \/ thread'[t] = thread[t] /\ (t \in overtaken => t \in overtaken')
                             \/ thread'[t].pc \notin {"update", "commit"}
    PROVE  AuthorsAllowed'
  BY DEF AuthorsAllowed

\* A step that writes a row of auth_users, and ends its request.
LEMMA OvertakesAuthors ==
    ASSUME Inv, NEW t \in Threads, Overtakes(t), Answer(t)
    PROVE  AuthorsAllowed'
<1>1. thread'[t].pc = "idle" /\ \A o \in Threads \ {t} : thread'[o] = thread[o]
  BY DEF Answer, Idle, Inv, EpochsCounted
<1> QED  BY <1>1 DEF AuthorsAllowed, Overtakes

\* A new row is nobody's who had access before.
LEMMA InsertKeepsAdmins ==
    ASSUME Inv, NEW u, NEW r, Insert(u, r)
    PROVE  Admins \subseteq Admins'
<1>1. Admin # None
  BY OperatorsAssumption
<1>2. \A x \in Admins : x # u /\ role'[x] = role[x] /\ enabled'[x] = enabled[x]
  BY <1>1 DEF Insert, Admins, Inv, EpochsCounted
<1> QED  BY <1>2 DEF Admins

\* Only an update and a login with the directory take access away.
LEMMA OthersKeepAdmins ==
    ASSUME Inv, [Next]_vars,
           \A t \in Threads : ~UpdateCommits(t) /\ ~DirectoryLogin(t)
    PROVE  Admins \subseteq Admins'
<1> USE DEF users, history
<1>1. CASE UNCHANGED <<role, enabled>>
  BY <1>1 DEF Admins
<1>2. ASSUME NEW t \in Threads, CreateCommits(t) PROVE Admins \subseteq Admins'
  BY <1>2, InsertKeepsAdmins DEF CreateCommits
<1>3. CASE ManageUser
  BY <1>3, InsertKeepsAdmins DEF ManageUser
<1>4. CASE UseExpired \/ Logout \/ Tick \/ UNCHANGED vars
  BY <1>1, <1>4 DEF UseExpired, Logout, Tick, vars
<1>5. ASSUME NEW t \in Threads,
             \/ \E u \in Users, a \in Addresses, knows \in BOOLEAN : LoginReads(t, u, a, knows)
             \/ LocalLogin(t) \/ LoginFails(t)
             \/ UpdateReads(t) \/ UpdateDeletes(t) \/ CreateReads(t) \/ RequestFails(t)
      PROVE  Admins \subseteq Admins'
  <2>1. UNCHANGED <<role, enabled>>
    BY <1>5 DEF LoginReads, LocalLogin, LoginFails, UpdateReads, UpdateDeletes, CreateReads,
                RequestFails
  <2> QED  BY <1>1, <2>1
<1> QED  BY <1>2, <1>3, <1>4, <1>5 DEF Next

LEMMA UpdateReadsAuthors ==
    ASSUME Inv, AuthorsAllowed, NEW t \in Threads, UpdateReads(t)
    PROVE  AuthorsAllowed'
<1>1. UNCHANGED <<role, enabled, overtaken>>
  BY DEF UpdateReads, users, history
<1>2. PICK s \in sessions : /\ AdminContext(s)
                           /\ \E r : r.by = s /\ thread' = [thread EXCEPT ![t] = r]
  <2>1. PICK s \in sessions, u \in Users, newRole \in NewRoles,
             newEnabled \in NewEnabled, reset \in BOOLEAN :
          /\ AdminContext(s)
          /\ role[u] # None
          /\ ~ RemovesOwnAccess(s, u, newRole, newEnabled)
          /\ reset => local[u]
          /\ newRole \notin {Keep, role[u]} \/ newEnabled \notin {Keep, Status(u)} \/ reset
          /\ thread' = [thread EXCEPT ![t] =
                [pc |-> "update", by |-> s, user |-> u,
                 role |-> IF newRole = role[u] THEN Keep ELSE newRole,
                 enabled |-> IF newEnabled = Status(u) THEN Keep ELSE newEnabled,
                 reset |-> reset,
                 revokes |-> IF Revokes(newEnabled, reset) THEN {u} ELSE {}]]
    BY Zenon DEF UpdateReads
  <2> DEFINE r == [pc |-> "update", by |-> s, user |-> u,
                   role |-> IF newRole = role[u] THEN Keep ELSE newRole,
                   enabled |-> IF newEnabled = Status(u) THEN Keep ELSE newEnabled,
                   reset |-> reset,
                   revokes |-> IF Revokes(newEnabled, reset) THEN {u} ELSE {}]
  <2>2. r.by = s /\ thread' = [thread EXCEPT ![t] = r]
    BY <2>1, Zenon
  <2> HIDE DEF r
  <2> QED  BY <2>1, <2>2
<1>3. s.user \in Admins
  BY <1>2 DEF AdminContext, Usable, Admins, Inv, EpochsCounted
<1>4. thread'[t].by = s /\ \A o \in Threads \ {t} : thread'[o] = thread[o]
  BY <1>2 DEF Inv, EpochsCounted
<1> QED  BY <1>1, <1>3, <1>4 DEF AuthorsAllowed, Admins

LEMMA AuthorsStep == Inv /\ AuthorsAllowed /\ [Next]_vars => AuthorsAllowed'
<1> SUFFICES ASSUME Inv, AuthorsAllowed, [Next]_vars PROVE AuthorsAllowed'
  OBVIOUS
<1> USE DEF users, history
<1>1. ASSUME NEW t \in Threads, UpdateCommits(t) \/ DirectoryLogin(t)
      PROVE  AuthorsAllowed'
  BY <1>1, OvertakesAuthors DEF UpdateCommits, DirectoryLogin
<1>2. ASSUME NEW t \in Threads, UpdateReads(t) PROVE AuthorsAllowed'
  BY <1>2, UpdateReadsAuthors
<1>3. ASSUME NEW t \in Threads, UpdateDeletes(t) PROVE AuthorsAllowed'
  <2> DEFINE c == thread[t]
             r == [pc |-> "commit", by |-> c.by, user |-> c.user, role |-> c.role,
                   enabled |-> c.enabled, reset |-> c.reset, revokes |-> c.revokes,
                   deleted |-> UNION {Of(u) : u \in c.revokes}]
  <2>1. c.pc = "update" /\ thread' = [thread EXCEPT ![t] = r] /\ r.by = c.by
    BY <1>3 DEF UpdateDeletes
  <2> HIDE DEF r
  <2>2. thread'[t].by = thread[t].by /\ \A o \in Threads \ {t} : thread'[o] = thread[o]
    BY <2>1 DEF Inv, EpochsCounted
  <2>3. UNCHANGED <<role, enabled, overtaken>>
    BY <1>3 DEF UpdateDeletes
  <2> QED  BY <2>1, <2>2, <2>3 DEF AuthorsAllowed, Admins
<1>4. CASE \A t \in Threads :
             ~UpdateCommits(t) /\ ~DirectoryLogin(t) /\ ~UpdateReads(t) /\ ~UpdateDeletes(t)
  <2>1. Admins \subseteq Admins'
    BY <1>4, OthersKeepAdmins
  <2>2. \A o \in Threads : \/ thread'[o] = thread[o] /\ (o \in overtaken => o \in overtaken')
                           \/ thread'[o].pc \notin {"update", "commit"}
    <3>1. CASE UNCHANGED <<thread, overtaken>>
      BY <3>1
    <3>2. ASSUME NEW t \in Threads, Answer(t), overtaken \ {t} \subseteq overtaken'
          PROVE  \A o \in Threads :
                   \/ thread'[o] = thread[o] /\ (o \in overtaken => o \in overtaken')
                   \/ thread'[o].pc \notin {"update", "commit"}
      BY <3>2 DEF Answer, Idle, Inv, EpochsCounted
    <3>3. ASSUME NEW t \in Threads,
                 LocalLogin(t) \/ LoginFails(t) \/ CreateCommits(t) \/ RequestFails(t)
          PROVE  Answer(t) /\ overtaken \ {t} \subseteq overtaken'
      BY <3>3 DEF LocalLogin, LoginFails, CreateCommits, RequestFails
    <3>4. ASSUME NEW t \in Threads, NEW r, r.pc \notin {"update", "commit"},
                 thread' = [thread EXCEPT ![t] = r], overtaken' = overtaken
          PROVE  \A o \in Threads :
                   \/ thread'[o] = thread[o] /\ (o \in overtaken => o \in overtaken')
                   \/ thread'[o].pc \notin {"update", "commit"}
      BY <3>4 DEF Inv, EpochsCounted
    <3>5. ASSUME NEW t \in Threads, CreateReads(t)
          PROVE  /\ \E r : /\ r.pc \notin {"update", "commit"}
                           /\ thread' = [thread EXCEPT ![t] = r]
                 /\ overtaken' = overtaken
      BY <3>5 DEF CreateReads
    <3>6. ASSUME NEW t \in Threads, NEW u \in Users, NEW a \in Addresses,
                 NEW knows \in BOOLEAN, LoginReads(t, u, a, knows)
          PROVE  /\ \/ thread' = thread
                    \/ \E r : /\ r.pc \notin {"update", "commit"}
                              /\ thread' = [thread EXCEPT ![t] = r]
                 /\ overtaken' = overtaken
      <4> DEFINE r == [pc |-> "login", user |-> u, address |-> a, at |-> clock,
                       known |-> Row(u), token |-> requests',
                       valid |-> AllowLocal /\ knows /\ enabled[u] /\ local[u]]
      <4>1. thread' = thread \/ thread' = [thread EXCEPT ![t] = r]
        BY <3>6, Zenon DEF LoginReads
      <4>2. r.pc = "login"
        BY Zenon
      <4>3. overtaken' = overtaken
        BY <3>6 DEF LoginReads
      <4> HIDE DEF r
      <4> QED  BY <4>1, <4>2, <4>3
    <3>7. CASE UseExpired \/ Logout \/ ManageUser \/ Tick \/ UNCHANGED vars
      BY <3>1, <3>7 DEF UseExpired, Logout, ManageUser, Tick, vars
    <3> QED  BY <1>4, <3>1, <3>2, <3>3, <3>4, <3>5, <3>6, <3>7 DEF Next
  <2> QED  BY <2>1, <2>2, QuietAuthors
<1> QED  BY <1>1, <1>2, <1>3, <1>4

\* An administrator's update leaves him his own access (main.py:362-363).
LEMMA UpdateSparesAuthor ==
    ASSUME Inv, NEW t \in Threads, UpdateCommits(t), thread[t].by.user \in Admins
    PROVE  thread[t].by.user \in Admins'
<1> DEFINE c == thread[t]
<1>1. /\ c.pc = "commit"
      /\ role' = [role EXCEPT ![c.user] = IF c.role = Keep THEN @ ELSE c.role]
      /\ enabled' = [enabled EXCEPT ![c.user] =
                       IF c.enabled = Keep THEN @ ELSE c.enabled = "enable"]
  BY DEF UpdateCommits
<1>2. /\ c.user \in Users
      /\ c.by.user = c.user => c.role \in {Keep, Admin} /\ c.enabled \in {Keep, "enable"}
  BY <1>1 DEF Inv, UpdatesGuarded
<1>3. c.by.user \in Users /\ role[c.by.user] = Admin /\ enabled[c.by.user]
  BY DEF Admins
<1>4. role'[c.by.user] = Admin
  BY <1>1, <1>2, <1>3 DEF Inv, EpochsCounted
<1>5. enabled'[c.by.user]
  <2>1. CASE c.by.user # c.user
    BY <1>1, <1>3, <2>1 DEF Inv, EpochsCounted
  <2>2. CASE c.by.user = c.user /\ c.enabled = Keep
    BY <1>1, <1>2, <1>3, <2>2 DEF Inv, EpochsCounted
  <2>3. CASE c.by.user = c.user /\ c.enabled = "enable"
    BY <1>1, <1>2, <2>3 DEF Inv, EpochsCounted, Keep
  <2> QED  BY <1>2, <2>1, <2>2, <2>3
<1> QED  BY <1>3, <1>4, <1>5 DEF Admins

\* A login with the directory writes no row but that of its user.
LEMMA DirectoryLoginSparesOthers ==
    ASSUME Inv, NEW t \in Threads, DirectoryLogin(t)
    PROVE  Admins \ {thread[t].user} \subseteq Admins'
<1>1. PICK r : UpsertDirectoryUser(thread[t], r)
  BY DEF DirectoryLogin
<1>2. \A x \in Users \ {thread[t].user} : role'[x] = role[x] /\ enabled'[x] = enabled[x]
  BY <1>1 DEF UpsertDirectoryUser, Inv, EpochsCounted
<1> QED  BY <1>2 DEF Admins

\* The last administrator is lost only to an update whose author had been
\* overtaken, or to his own login with the directory, for any number of users,
\* sessions, requests that overlap and memberships that change (main.py:362-363,
\* auth.py:69-82).
THEOREM LastAdminSpared == Spec => LastAdminKept
<1>1. ASSUME Inv, AuthorsAllowed, [Next]_vars, Admins # {}, Admins' = {}
      PROVE  \E t \in Threads :
                /\ thread'[t] = Idle
                /\ \/ thread[t].pc = "commit" /\ t \in overtaken
                   \/ thread[t].pc = "login" /\ Admins = {thread[t].user}
  <2>1. PICK t \in Threads : UpdateCommits(t) \/ DirectoryLogin(t)
    BY <1>1, OthersKeepAdmins
  <2>2. thread'[t] = Idle
    BY <1>1, <2>1 DEF UpdateCommits, DirectoryLogin, Answer, Inv, EpochsCounted
  <2>3. CASE UpdateCommits(t)
    <3>1. thread[t].pc = "commit"
      BY <2>3 DEF UpdateCommits
    <3>2. thread[t].by.user \notin Admins
      BY <1>1, <2>3, UpdateSparesAuthor
    <3>3. t \in overtaken
      BY <1>1, <3>1, <3>2 DEF AuthorsAllowed
    <3> QED  BY <2>2, <3>1, <3>3
  <2>4. CASE DirectoryLogin(t)
    <3>1. thread[t].pc = "login"
      BY <2>4 DEF DirectoryLogin
    <3>2. Admins = {thread[t].user}
      BY <1>1, <2>4, DirectoryLoginSparesOthers
    <3> QED  BY <2>2, <3>1, <3>2
  <2> QED  BY <2>1, <2>3, <2>4
<1>2. Inv /\ AuthorsAllowed /\ [Next]_vars =>
        [Admins # {} /\ Admins' = {} =>
           \E t \in Threads :
              /\ thread'[t] = Idle
              /\ \/ thread[t].pc = "commit" /\ t \in overtaken
                 \/ thread[t].pc = "login" /\ Admins = {thread[t].user}]_vars
  BY <1>1
<1>3. Init => AuthorsAllowed
  BY DEF Init, Idle, AuthorsAllowed
<1> QED  BY <1>2, <1>3, AuthorsStep, Invariance, PTL DEF Spec, LastAdminKept

----------------------------------------------------------------------------
(* The throttle *)

\* Of the users U, from the address a, in the window that ends now: the failed
\* logins, and the requests that may still become one.
Failed(U, a, now) ==
    {f \in failures : f.address = a /\ f.user \in U /\ f.at \in now - Window .. now}

Underway(U, a, now) ==
    {t \in Threads : /\ thread[t].pc = "login"
                     /\ thread[t].address = a
                     /\ thread[t].user \in U
                     /\ thread[t].at \in now - Window .. now}

\* A request under way is counted as if it had failed already.
Room(U, a, limit) ==
    \A now \in 0 .. MaxClock :
        Cardinality(Failed(U, a, now)) + Cardinality(Underway(U, a, now))
            <= limit + Cardinality(Threads) - 1

\* The rows are finitely many, and each names a user.
FailuresCounted ==
    /\ IsFiniteSet(failures)
    /\ \A f \in failures : f.user \in Users

ThrottleInv ==
    /\ Inv
    /\ FailuresCounted
    /\ \A a \in Addresses :
         /\ Room(Users, a, AddressLimit)
         /\ \A u \in Users : Room({u}, a, UserLimit)

LEMMA CountsFinite ==
    ASSUME FailuresCounted, NEW U, NEW a, NEW now
    PROVE  /\ IsFiniteSet(Failed(U, a, now)) /\ Cardinality(Failed(U, a, now)) \in Nat
           /\ IsFiniteSet(Underway(U, a, now)) /\ Cardinality(Underway(U, a, now)) \in Nat
           /\ IsFiniteSet(Threads) /\ Cardinality(Threads) \in Nat
           /\ Cardinality(Underway(U, a, now)) <= Cardinality(Threads)
<1>1. Failed(U, a, now) \subseteq failures /\ Underway(U, a, now) \subseteq Threads
  BY DEF Failed, Underway
<1>2. IsFiniteSet(Failed(U, a, now)) /\ IsFiniteSet(Underway(U, a, now))
  BY <1>1, FS_Subset, OperatorsAssumption DEF FailuresCounted
<1> QED  BY <1>1, <1>2, FS_Subset, FS_CardinalityType, OperatorsAssumption

LEMMA InitThrottle == Init => ThrottleInv
<1> SUFFICES ASSUME Init PROVE ThrottleInv
  OBVIOUS
<1>1. FailuresCounted
  BY FS_EmptySet DEF Init, FailuresCounted
<1>2. ASSUME NEW U, NEW a, NEW limit \in Nat \ {0} PROVE Room(U, a, limit)
  <2> SUFFICES ASSUME NEW now \in 0 .. MaxClock
               PROVE  Cardinality(Failed(U, a, now)) + Cardinality(Underway(U, a, now))
                        <= limit + Cardinality(Threads) - 1
    BY DEF Room
  <2>1. Failed(U, a, now) = {} /\ Underway(U, a, now) = {}
    BY DEF Init, Idle, Failed, Underway
  <2> QED  BY <1>1, <1>2, <2>1, FS_EmptySet, CountsFinite
<1> QED  BY <1>1, <1>2, InitInv, OperatorsAssumption DEF ThrottleInv

\* A step that records no failure and begins no login.
LEMMA RoomKept ==
    ASSUME FailuresCounted, failures' = failures,
           \A t \in Threads : thread'[t] = thread[t] \/ thread'[t].pc # "login",
           NEW U, NEW a, NEW limit \in Nat, Room(U, a, limit)
    PROVE  Room(U, a, limit)'
<1> SUFFICES ASSUME NEW now \in 0 .. MaxClock
             PROVE  Cardinality(Failed(U, a, now)') + Cardinality(Underway(U, a, now)')
                      <= limit + Cardinality(Threads) - 1
  BY DEF Room
<1>1. Failed(U, a, now)' = Failed(U, a, now)
  BY DEF Failed
<1>2. Underway(U, a, now)' \subseteq Underway(U, a, now)
  BY DEF Underway
<1>3. /\ Cardinality(Underway(U, a, now)') \in Nat
      /\ Cardinality(Underway(U, a, now)') <= Cardinality(Underway(U, a, now))
  BY <1>2, CountsFinite, FS_Subset, FS_CardinalityType
<1> QED  BY <1>1, <1>3, CountsFinite DEF Room

LEMMA QuietThrottle ==
    ASSUME ThrottleInv, Inv', failures' = failures,
           \A t \in Threads : thread'[t] = thread[t] \/ thread'[t].pc # "login"
    PROVE  ThrottleInv'
<1>1. FailuresCounted'
  BY DEF ThrottleInv, FailuresCounted
<1> QED  BY <1>1, RoomKept, OperatorsAssumption DEF ThrottleInv

\* A login that is let through: in every window that holds it there were fewer
\* failures than the limit, and there are at most as many requests as threads.
LEMMA RoomForOneMore ==
    ASSUME ThrottleInv, failures' = failures,
           NEW t \in Threads, \A o \in Threads \ {t} : thread'[o] = thread[o],
           NEW U, NEW a, NEW limit \in Nat \ {0}, Room(U, a, limit),
           NEW rows, rows = {f \in failures : f.address = a /\ f.user \in U},
           thread'[t].at = clock,
           thread'[t].address = a /\ thread'[t].user \in U
             => ~(Cardinality(Recent(rows)) >= limit)
    PROVE  Room(U, a, limit)'
<1> SUFFICES ASSUME NEW now \in 0 .. MaxClock
             PROVE  Cardinality(Failed(U, a, now)') + Cardinality(Underway(U, a, now)')
                      <= limit + Cardinality(Threads) - 1
  BY DEF Room
<1> USE DEF ThrottleInv
<1>1. FailuresCounted'
  BY DEF FailuresCounted
<1>2. Failed(U, a, now)' = Failed(U, a, now)
  BY DEF Failed
<1>3. CASE t \notin Underway(U, a, now)'
  <2>1. Underway(U, a, now)' \subseteq Underway(U, a, now)
    BY <1>3 DEF Underway
  <2>2. /\ Cardinality(Underway(U, a, now)') \in Nat
        /\ Cardinality(Underway(U, a, now)') <= Cardinality(Underway(U, a, now))
    BY <2>1, CountsFinite, FS_Subset, FS_CardinalityType
  <2> QED  BY <1>2, <2>2, CountsFinite DEF Room
<1>4. CASE t \in Underway(U, a, now)'
  <2>1. /\ thread'[t].address = a /\ thread'[t].user \in U
        /\ clock \in now - Window .. now
    BY <1>4 DEF Underway
  <2>2. Failed(U, a, now) \subseteq Recent(rows)
    BY <2>1, OperatorsAssumption DEF Failed, Recent
  <2>3. IsFiniteSet(Recent(rows)) /\ Cardinality(Recent(rows)) \in Nat
    <3>1. Recent(rows) \subseteq failures
      BY DEF Recent
    <3> QED  BY <3>1, FS_Subset, FS_CardinalityType DEF FailuresCounted
  <2>4. Cardinality(Failed(U, a, now)) <= Cardinality(Recent(rows))
    BY <2>2, <2>3, FS_Subset
  <2>5. Cardinality(Recent(rows)) < limit
    BY <2>1, <2>3
  <2>6. /\ Cardinality(Underway(U, a, now)') \in Nat
        /\ Cardinality(Underway(U, a, now)') <= Cardinality(Threads)
        /\ Cardinality(Threads) \in Nat
    <3>1. Underway(U, a, now)' \subseteq Threads
      BY DEF Underway
    <3> QED  BY <3>1, FS_Subset, FS_CardinalityType, OperatorsAssumption
  <2> QED  BY <1>2, <2>3, <2>4, <2>5, <2>6, CountsFinite
<1> QED  BY <1>3, <1>4

LEMMA LoginReadsThrottle ==
    ASSUME ThrottleInv, NEW t \in Threads, NEW u \in Users, NEW a \in Addresses,
           NEW knows \in BOOLEAN, LoginReads(t, u, a, knows)
    PROVE  ThrottleInv'
<1>1. Inv' /\ failures' = failures
  BY LoginReadsInv DEF ThrottleInv, LoginReads
<1>2. CASE thread' = thread
  BY <1>1, <1>2, QuietThrottle
<1>3. CASE thread' # thread
  <2> DEFINE r == [pc |-> "login", user |-> u, address |-> a, at |-> clock,
                   known |-> Row(u), token |-> requests',
                   valid |-> AllowLocal /\ knows /\ enabled[u] /\ local[u]]
  <2>1. ~Throttled(u, a) /\ thread' = [thread EXCEPT ![t] = r]
    BY <1>3, Zenon DEF LoginReads
  <2>2. r.user = u /\ r.address = a /\ r.at = clock
    BY Zenon
  <2> HIDE DEF r
  <2>3. thread'[t] = r /\ \A o \in Threads \ {t} : thread'[o] = thread[o]
    BY <2>1 DEF ThrottleInv, Inv, EpochsCounted
  <2>4. /\ ~(Cardinality(Recent(FailuresOf(u, a))) >= UserLimit)
        /\ ~(Cardinality(Recent(FailuresFrom(a))) >= AddressLimit)
    BY <2>1 DEF Throttled
  <2>5. FailuresCounted'
    BY <1>1 DEF ThrottleInv, FailuresCounted
  <2>6. ASSUME NEW b \in Addresses PROVE Room(Users, b, AddressLimit)'
    <3> DEFINE rows == {f \in failures : f.address = b /\ f.user \in Users}
    <3>1. rows = FailuresFrom(b)
      BY DEF FailuresFrom, ThrottleInv, FailuresCounted
    <3>2. Room(Users, b, AddressLimit) /\ AddressLimit \in Nat \ {0}
      BY OperatorsAssumption DEF ThrottleInv
    <3>3. thread'[t].address = b => ~(Cardinality(Recent(rows)) >= AddressLimit)
      BY <2>2, <2>3, <2>4, <3>1
    <3>4. thread'[t].at = clock
      BY <2>2, <2>3
    <3> HIDE DEF rows
    <3>5. rows = {f \in failures : f.address = b /\ f.user \in Users}
      BY DEF rows
    <3> QED  BY <1>1, <2>3, <3>2, <3>3, <3>4, <3>5, RoomForOneMore
  <2>7. ASSUME NEW b \in Addresses, NEW v \in Users PROVE Room({v}, b, UserLimit)'
    <3> DEFINE rows == {f \in failures : f.address = b /\ f.user \in {v}}
    <3>1. rows = FailuresOf(v, b)
      BY DEF FailuresOf, FailuresFrom
    <3>2. Room({v}, b, UserLimit) /\ UserLimit \in Nat \ {0}
      BY OperatorsAssumption DEF ThrottleInv
    <3>3. thread'[t].address = b /\ thread'[t].user \in {v}
            => ~(Cardinality(Recent(rows)) >= UserLimit)
      BY <2>2, <2>3, <2>4, <3>1
    <3>4. thread'[t].at = clock
      BY <2>2, <2>3
    <3> HIDE DEF rows
    <3>5. rows = {f \in failures : f.address = b /\ f.user \in {v}}
      BY DEF rows
    <3> QED  BY <1>1, <2>3, <3>2, <3>3, <3>4, <3>5, RoomForOneMore
  <2> QED  BY <1>1, <2>5, <2>6, <2>7 DEF ThrottleInv
<1> QED  BY <1>2, <1>3

\* A login that fails is no longer under way in the windows it is counted in.
LEMMA FailureTakesItsRoom ==
    ASSUME ThrottleInv, NEW t \in Threads, thread[t].pc = "login",
           RecordFailure(thread[t]), Answer(t),
           NEW U, NEW a, NEW limit \in Nat, Room(U, a, limit)
    PROVE  Room(U, a, limit)'
<1> SUFFICES ASSUME NEW now \in 0 .. MaxClock
             PROVE  Cardinality(Failed(U, a, now)') + Cardinality(Underway(U, a, now)')
                      <= limit + Cardinality(Threads) - 1
  BY DEF Room
<1> DEFINE l == thread[t]
           new == [login |-> l.token, user |-> l.user, address |-> l.address, at |-> l.at]
<1>1. failures' = failures \union {new}
  BY DEF RecordFailure
<1>2. new.user = l.user /\ new.address = l.address /\ new.at = l.at
  OBVIOUS
<1>3. /\ thread'[t].pc = "idle" /\ \A o \in Threads \ {t} : thread'[o] = thread[o]
  BY DEF Answer, Idle, ThrottleInv, Inv, EpochsCounted
<1> HIDE DEF new
<1>4. Underway(U, a, now)' = Underway(U, a, now) \ {t}
  BY <1>3 DEF Underway
<1>5. FailuresCounted
  BY DEF ThrottleInv
<1>6. CASE t \in Underway(U, a, now)
  <2>1. Failed(U, a, now)' \subseteq Failed(U, a, now) \union {new}
    BY <1>1 DEF Failed
  <2>2. /\ IsFiniteSet(Failed(U, a, now) \union {new})
        /\ Cardinality(Failed(U, a, now) \union {new}) <= Cardinality(Failed(U, a, now)) + 1
        /\ Cardinality(Failed(U, a, now) \union {new}) \in Nat
    <3> DEFINE F == Failed(U, a, now)
    <3>1. IsFiniteSet(F) /\ Cardinality(F) \in Nat
      BY <1>5, CountsFinite
    <3> HIDE DEF F
    <3>2. /\ IsFiniteSet(F \union {new})
          /\ Cardinality(F \union {new}) \in {Cardinality(F), Cardinality(F) + 1}
      BY <3>1, FS_AddElement
    <3> QED  BY <3>1, <3>2 DEF F
  <2>3. /\ Cardinality(Failed(U, a, now)') \in Nat
        /\ Cardinality(Failed(U, a, now)') <= Cardinality(Failed(U, a, now)) + 1
    BY <1>5, <2>1, <2>2, CountsFinite, FS_Subset, FS_CardinalityType
  <2>4. Cardinality(Underway(U, a, now)') = Cardinality(Underway(U, a, now)) - 1
    BY <1>4, <1>5, <1>6, CountsFinite, FS_RemoveElement
  <2> QED  BY <1>5, <2>3, <2>4, CountsFinite DEF Room
<1>7. CASE t \notin Underway(U, a, now)
  <2>1. Failed(U, a, now)' = Failed(U, a, now)
    BY <1>1, <1>2, <1>7 DEF Failed, Underway
  <2>2. Underway(U, a, now)' = Underway(U, a, now)
    BY <1>4, <1>7
  <2> QED  BY <2>1, <2>2 DEF Room
<1> QED  BY <1>6, <1>7

LEMMA FailureThrottle ==
    ASSUME ThrottleInv, Inv', NEW t \in Threads, thread[t].pc = "login",
           RecordFailure(thread[t]), Answer(t)
    PROVE  ThrottleInv'
<1>1. FailuresCounted'
  <2>1. IsFiniteSet(failures')
    BY FS_AddElement DEF ThrottleInv, FailuresCounted, RecordFailure
  <2>2. \A f \in failures' : f.user \in Users
    BY DEF ThrottleInv, Inv, LoginsRemember, FailuresCounted, RecordFailure
  <2> QED  BY <2>1, <2>2 DEF FailuresCounted
<1> QED  BY <1>1, FailureTakesItsRoom, OperatorsAssumption DEF ThrottleInv

LEMMA UpdateReadsRecord ==
    ASSUME NEW t \in Threads, UpdateReads(t)
    PROVE  \E r : r.pc # "login" /\ thread' = [thread EXCEPT ![t] = r]
<1>1. PICK s \in sessions, u \in Users, newRole \in NewRoles,
           newEnabled \in NewEnabled, reset \in BOOLEAN :
        /\ AdminContext(s)
        /\ role[u] # None
        /\ ~ RemovesOwnAccess(s, u, newRole, newEnabled)
        /\ reset => local[u]
        /\ newRole \notin {Keep, role[u]} \/ newEnabled \notin {Keep, Status(u)} \/ reset
        /\ thread' = [thread EXCEPT ![t] =
              [pc |-> "update", by |-> s, user |-> u,
               role |-> IF newRole = role[u] THEN Keep ELSE newRole,
               enabled |-> IF newEnabled = Status(u) THEN Keep ELSE newEnabled,
               reset |-> reset,
               revokes |-> IF Revokes(newEnabled, reset) THEN {u} ELSE {}]]
  BY Zenon DEF UpdateReads
<1> DEFINE r == [pc |-> "update", by |-> s, user |-> u,
                 role |-> IF newRole = role[u] THEN Keep ELSE newRole,
                 enabled |-> IF newEnabled = Status(u) THEN Keep ELSE newEnabled,
                 reset |-> reset,
                 revokes |-> IF Revokes(newEnabled, reset) THEN {u} ELSE {}]
<1>2. r.pc = "update" /\ thread' = [thread EXCEPT ![t] = r]
  BY <1>1, Zenon
<1> HIDE DEF r
<1> QED  BY <1>2

LEMMA ThrottleStep == ASSUME ThrottleInv, [Next]_vars PROVE ThrottleInv'
<1>1. Inv'
  BY InvStep DEF ThrottleInv
<1>2. ASSUME NEW t \in Threads, Answer(t)
      PROVE  \A o \in Threads : thread'[o] = thread[o] \/ thread'[o].pc # "login"
  BY <1>2 DEF Answer, Idle, ThrottleInv, Inv, EpochsCounted
<1>3. ASSUME NEW t \in Threads, DirectoryLogin(t) \/ LoginFails(t) PROVE ThrottleInv'
  <2>1. /\ thread[t].pc = "login" /\ Answer(t)
        /\ RecordFailure(thread[t]) \/ failures' = failures
    BY <1>3 DEF DirectoryLogin, LoginFails
  <2> QED  BY <1>1, <1>2, <2>1, FailureThrottle, QuietThrottle
<1>4. ASSUME NEW t \in Threads,
             \/ LocalLogin(t) \/ UpdateCommits(t) \/ CreateCommits(t) \/ RequestFails(t)
      PROVE  ThrottleInv'
  <2>1. Answer(t) /\ failures' = failures
    BY <1>4 DEF LocalLogin, UpdateCommits, CreateCommits, RequestFails
  <2> QED  BY <1>1, <1>2, <2>1, QuietThrottle
<1>5. ASSUME NEW t \in Threads, UpdateReads(t) \/ UpdateDeletes(t) \/ CreateReads(t)
      PROVE  ThrottleInv'
  <2>1. failures' = failures
    BY <1>5 DEF UpdateReads, UpdateDeletes, CreateReads
  <2>2. \E r : r.pc # "login" /\ thread' = [thread EXCEPT ![t] = r]
    <3>1. CASE UpdateReads(t)
      BY <3>1, UpdateReadsRecord
    <3>2. CASE UpdateDeletes(t)
      <4> DEFINE c == thread[t]
                 r == [pc |-> "commit", by |-> c.by, user |-> c.user, role |-> c.role,
                       enabled |-> c.enabled, reset |-> c.reset, revokes |-> c.revokes,
                       deleted |-> UNION {Of(u) : u \in c.revokes}]
      <4>1. r.pc = "commit" /\ thread' = [thread EXCEPT ![t] = r]
        BY <3>2 DEF UpdateDeletes
      <4> HIDE DEF r
      <4> QED  BY <4>1
    <3>3. CASE CreateReads(t)
      BY <3>3 DEF CreateReads
    <3> QED  BY <1>5, <3>1, <3>2, <3>3
  <2>3. \A o \in Threads : thread'[o] = thread[o] \/ thread'[o].pc # "login"
    BY <2>2 DEF ThrottleInv, Inv, EpochsCounted
  <2> QED  BY <1>1, <2>1, <2>3, QuietThrottle
<1>6. CASE UseExpired \/ Logout \/ ManageUser \/ Tick \/ UNCHANGED vars
  BY <1>1, <1>6, QuietThrottle DEF UseExpired, Logout, ManageUser, Tick, vars
<1> QED  BY <1>3, <1>4, <1>5, <1>6, LoginReadsThrottle DEF Next

\* No window holds more failed logins of a user from an address, or of all
\* users from one, than the limit and the requests the server handles at the
\* same time, less one: auth.py:281-304 counts the rows before it compares the
\* password, and writes its own only afterwards.
THEOREM ThrottleBounds == Spec => []ThrottleHolds
<1>1. ASSUME ThrottleInv PROVE ThrottleHolds
  <2> USE <1>1 DEF ThrottleInv
  <2>1. ASSUME NEW U, NEW a, NEW limit \in Nat, NEW rows, Room(U, a, limit),
               rows = {f \in failures : f.address = a /\ f.user \in U}
        PROVE  AtMost(rows, limit)
    <3> SUFFICES ASSUME NEW now \in 0 .. MaxClock
                 PROVE  Cardinality({f \in rows : f.at \in now - Window .. now})
                          <= limit + Cardinality(Threads) - 1
      BY DEF AtMost
    <3>1. {f \in rows : f.at \in now - Window .. now} = Failed(U, a, now)
      BY <2>1 DEF Failed
    <3> QED  BY <2>1, <3>1, CountsFinite DEF Room
  <2>2. ASSUME NEW a \in Addresses PROVE AtMost(FailuresFrom(a), AddressLimit)
    <3>1. FailuresFrom(a) = {f \in failures : f.address = a /\ f.user \in Users}
      BY DEF FailuresFrom, FailuresCounted
    <3> QED  BY <2>1, <3>1, OperatorsAssumption
  <2>3. ASSUME NEW a \in Addresses, NEW u \in Users
        PROVE  AtMost(FailuresOf(u, a), UserLimit)
    <3>1. FailuresOf(u, a) = {f \in failures : f.address = a /\ f.user \in {u}}
      BY DEF FailuresFrom, FailuresOf
    <3> QED  BY <2>1, <3>1, OperatorsAssumption
  <2> QED  BY <2>2, <2>3 DEF ThrottleHolds
<1> QED  BY <1>1, InitThrottle, ThrottleStep, PTL DEF Spec

----------------------------------------------------------------------------
(* Types *)

\* A user without a row has neither access nor a password.
RowsWhole == \A u \in Users : role[u] = None => ~enabled[u] /\ ~local[u]

\* What a request has read and will write; the row it read stays.
ThreadsTyped ==
    /\ thread = [t \in Threads |-> thread[t]]
    /\ \A t \in Threads :
         /\ thread[t].pc = "login" =>
              /\ thread[t].user \in Users /\ thread[t].address \in Addresses
              /\ thread[t].at \in 0 .. MaxClock /\ thread[t].token \in 1 .. MaxRequests
              /\ thread[t].known.epoch \in 0 .. MaxRequests
              /\ thread[t].valid => role[thread[t].user] # None
         /\ thread[t].pc \in {"update", "commit"} =>
              /\ thread[t].user \in Users /\ role[thread[t].user] # None
              /\ thread[t].role \in NewRoles
         /\ thread[t].pc = "create" => thread[t].user \in Users /\ thread[t].role \in Roles

\* Each disabling and each new password was a request of its own.
Updating(u) == {t \in Threads : thread[t].pc \in {"update", "commit"} /\ thread[t].user = u}

EpochsRequested == \A u \in Users : epoch[u] + Cardinality(Updating(u)) <= requests

TypeInv == TypeOK /\ RowsWhole /\ ThreadsTyped /\ EpochsRequested

LEMMA UpdatingCounted ==
    ASSUME NEW u
    PROVE  /\ IsFiniteSet(Updating(u)) /\ Cardinality(Updating(u)) \in Nat
           /\ IsFiniteSet(Updating(u)') /\ Cardinality(Updating(u)') \in Nat
           /\ Updating(u)' \subseteq Updating(u)
                => Cardinality(Updating(u)') <= Cardinality(Updating(u))
<1>1. Updating(u) \subseteq Threads /\ Updating(u)' \subseteq Threads
  BY DEF Updating
<1>2. IsFiniteSet(Updating(u)) /\ IsFiniteSet(Updating(u)')
  BY <1>1, FS_Subset, OperatorsAssumption
<1> QED  BY <1>2, FS_Subset, FS_CardinalityType

\* The parts of TypeOK that are numbers.
LEMMA NumbersTyped ==
    ASSUME TypeInv
    PROVE  /\ MaxClock \in Nat /\ MaxRequests \in Nat
           /\ clock \in 0 .. MaxClock /\ requests \in 0 .. MaxRequests
           /\ raced \subseteq 1 .. MaxRequests
           /\ epoch \in [Users -> 0 .. MaxRequests]
           /\ overtaken \subseteq Threads
  BY OperatorsAssumption DEF TypeInv, TypeOK

LEMMA InitTypeInv == Init => TypeInv
<1> SUFFICES ASSUME Init PROVE TypeInv
  OBVIOUS
<1>1. MaxClock \in Nat /\ MaxRequests \in Nat /\ Admin \in Roles
  BY OperatorsAssumption
<1>2. 0 \in 0 .. MaxClock /\ 0 \in 0 .. MaxRequests
  BY <1>1
<1>3. TypeOK
  BY <1>1, <1>2 DEF Init, Idle, TypeOK
<1>4. RowsWhole /\ ThreadsTyped
  BY <1>1, OperatorsAssumption DEF Init, Idle, RowsWhole, ThreadsTyped
<1>5. EpochsRequested
  <2>1. \A u \in Users : Updating(u) = {}
    BY DEF Init, Idle, Updating
  <2> QED  BY <2>1, FS_EmptySet DEF Init, EpochsRequested
<1> QED  BY <1>3, <1>4, <1>5 DEF TypeInv

\* A step that begins no request but may end one, and adds no more than typed
\* rows.
LEMMA QuietType ==
    ASSUME TypeInv,
           thread' = [t \in Threads |-> thread'[t]],
           \A t \in Threads : thread'[t] = thread[t] \/ thread'[t] = Idle,
           role' \in [Users -> Roles \union {None}],
           enabled' \in [Users -> BOOLEAN], local' \in [Users -> BOOLEAN],
           \A u \in Users : role[u] # None => role'[u] # None,
           RowsWhole',
           \A s \in sessions' : s \in SessionRecords /\ role'[s.user] # None,
           failures' \subseteq FailureRecords,
           epoch' = epoch, raced' \subseteq 1 .. MaxRequests, overtaken' \subseteq Threads,
           clock' \in 0 .. MaxClock, requests' \in 0 .. MaxRequests, requests <= requests'
    PROVE  TypeInv'
<1>1. Idle.pc = "idle"
  BY DEF Idle
<1>2. \A t \in Threads : thread'[t].pc \in {"idle", "login", "update", "commit", "create"}
  BY <1>1 DEF TypeInv, TypeOK
<1>3. TypeOK'
  BY <1>2 DEF TypeInv, TypeOK, SessionRecords, FailureRecords
<1>4. ThreadsTyped'
  BY <1>1 DEF TypeInv, ThreadsTyped
<1>5. EpochsRequested'
  <2> SUFFICES ASSUME NEW u \in Users
               PROVE  epoch[u] + Cardinality(Updating(u)') <= requests'
    BY DEF EpochsRequested
  <2>1. Updating(u)' \subseteq Updating(u)
    BY <1>1 DEF Updating
  <2>2. epoch[u] + Cardinality(Updating(u)) <= requests
    BY DEF TypeInv, EpochsRequested
  <2>3. epoch[u] \in Nat /\ requests \in Nat /\ requests' \in Nat
    BY NumbersTyped
  <2> QED  BY <2>1, <2>2, <2>3, UpdatingCounted
<1> QED  BY <1>3, <1>4, <1>5 DEF TypeInv

\* A step that leaves the rows alone, and gives a thread a record it may have.
LEMMA RecordType ==
    ASSUME TypeInv, NEW t \in Threads, NEW r, thread' = [thread EXCEPT ![t] = r],
           UNCHANGED <<users, sessions, failures, history, clock>>,
           requests' \in 0 .. MaxRequests,
           r.pc \in {"login", "update", "commit", "create"},
           r.pc = "login" =>
              /\ r.user \in Users /\ r.address \in Addresses
              /\ r.at \in 0 .. MaxClock /\ r.token \in 1 .. MaxRequests
              /\ r.known.epoch \in 0 .. MaxRequests
              /\ r.valid => role[r.user] # None,
           r.pc \in {"update", "commit"} =>
              /\ r.user \in Users /\ role[r.user] # None /\ r.role \in NewRoles,
           r.pc = "create" => r.user \in Users /\ r.role \in Roles,
           \/ requests' = requests + 1
           \/ requests' = requests /\ (r.pc \in {"update", "commit"}
                                         => t \in Updating(r.user))
    PROVE  TypeInv'
<1> USE DEF users, history
<1>1. /\ thread' = [o \in Threads |-> thread'[o]]
      /\ thread'[t] = r /\ \A o \in Threads \ {t} : thread'[o] = thread[o]
  BY DEF TypeInv, ThreadsTyped
<1>2. TypeOK'
  <2>1. \A o \in Threads : thread'[o].pc \in {"idle", "login", "update", "commit", "create"}
    BY <1>1 DEF TypeInv, TypeOK
  <2> QED  BY <2>1 DEF TypeInv, TypeOK, SessionRecords, FailureRecords
<1>3. ThreadsTyped' /\ RowsWhole'
  BY <1>1 DEF TypeInv, ThreadsTyped, RowsWhole
<1>4. EpochsRequested'
  <2> SUFFICES ASSUME NEW u \in Users
               PROVE  epoch[u] + Cardinality(Updating(u)') <= requests'
    BY DEF EpochsRequested
  <2>1. epoch[u] + Cardinality(Updating(u)) <= requests
    BY DEF TypeInv, EpochsRequested
  <2>2. epoch[u] \in Nat /\ requests \in Nat /\ requests' \in Nat
    BY NumbersTyped
  <2>3. CASE Updating(u)' \subseteq Updating(u)
    BY <2>1, <2>2, <2>3, UpdatingCounted
  <2>4. CASE ~(Updating(u)' \subseteq Updating(u))
    <3>1. Updating(u)' \subseteq Updating(u) \union {t}
      BY <1>1 DEF Updating
    <3>2. t \in Updating(u)' /\ t \notin Updating(u)
      BY <2>4, <3>1
    <3>3. r.pc \in {"update", "commit"} /\ r.user = u
      BY <1>1, <3>2 DEF Updating
    <3>4. requests' = requests + 1
      BY <3>2, <3>3
    <3>5. Cardinality(Updating(u)') <= Cardinality(Updating(u)) + 1
      <4>1. /\ IsFiniteSet(Updating(u) \union {t})
            /\ Cardinality(Updating(u) \union {t}) = Cardinality(Updating(u)) + 1
        BY <3>2, UpdatingCounted, FS_AddElement
      <4> QED  BY <3>1, <4>1, FS_Subset
    <3> QED  BY <2>1, <2>2, <3>4, <3>5, UpdatingCounted
  <2> QED  BY <2>3, <2>4
<1> QED  BY <1>2, <1>3, <1>4 DEF TypeInv

----------------------------------------------------------------------------
(* Types: login *)

\* Of the matching positions one comes first.
LEMMA HasFirst ==
    ASSUME NEW T, T \subseteq Nat, T # {}
    PROVE  \E i \in T : \A j \in T : i <= j
<1> DEFINE less == OpToRel(<, Nat)
<1>1. \E i \in T : \A j \in T : ~(<<j, i>> \in less)
  <2>1. IsWellFoundedOn(less, Nat)
    BY NatLessThanWellFounded
  <2> HIDE DEF less
  <2> QED  BY <2>1, WFMin
<1>2. \A i, j \in Nat : <<j, i>> \in less <=> j < i
  BY DEF OpToRel
<1>3. PICK i \in T : \A j \in T : ~(<<j, i>> \in less)
  BY <1>1
<1>4. ASSUME NEW j \in T PROVE i <= j
  <2>1. ~(j < i) /\ i \in Nat /\ j \in Nat
    BY <1>2, <1>3
  <2> QED  BY <2>1
<1> QED  BY <1>4

LEMMA DirectoryRoleType ==
    ASSUME NEW memberOf, DirectoryRole(memberOf) # None
    PROVE  DirectoryRole(memberOf) \in Roles
<1> DEFINE matching == {i \in DOMAIN RoleOrder : MatchesGroups(Groups[RoleOrder[i]], memberOf)}
<1>1. DirectoryRole(memberOf) = IF matching = {} THEN DefaultRole
        ELSE RoleOrder[CHOOSE i \in matching : \A j \in matching : i <= j]
  BY DEF DirectoryRole, RoleFromMemberOf
<1>2. RoleOrder \in Seq(Roles) /\ DefaultRole \in Roles \union {None}
  BY OperatorsAssumption
<1>3. matching \subseteq DOMAIN RoleOrder /\ DOMAIN RoleOrder \subseteq Nat
  BY <1>2
<1> HIDE DEF matching
<1>4. CASE matching = {}
  BY <1>1, <1>2, <1>4
<1>5. CASE matching # {}
  <2>1. \E i \in matching : \A j \in matching : i <= j
    BY <1>3, <1>5, HasFirst
  <2>2. (CHOOSE i \in matching : \A j \in matching : i <= j) \in matching
    BY <2>1
  <2>3. (CHOOSE i \in matching : \A j \in matching : i <= j) \in DOMAIN RoleOrder
    BY <1>3, <2>2
  <2> QED  BY <1>1, <1>2, <1>5, <2>3
<1> QED  BY <1>4, <1>5

LEMMA LoginReadsType ==
    ASSUME TypeInv, NEW t \in Threads, NEW u \in Users, NEW a \in Addresses,
           NEW knows \in BOOLEAN, LoginReads(t, u, a, knows)
    PROVE  TypeInv'
<1> USE DEF users, history
<1>1. /\ UNCHANGED <<users, sessions, failures, history, clock>>
      /\ requests < MaxRequests /\ requests' = requests + 1
  BY DEF LoginReads, CountRequest
<1>2. requests' \in 1 .. MaxRequests /\ requests' \in 0 .. MaxRequests /\ requests <= requests'
  BY <1>1, NumbersTyped
<1>3. CASE thread' = thread
  <2>1. /\ thread' = [o \in Threads |-> thread'[o]] /\ RowsWhole'
        /\ role' \in [Users -> Roles \union {None}]
        /\ enabled' \in [Users -> BOOLEAN] /\ local' \in [Users -> BOOLEAN]
        /\ \A s \in sessions' : s \in SessionRecords /\ role'[s.user] # None
        /\ failures' \subseteq FailureRecords
    BY <1>1, <1>3 DEF TypeInv, TypeOK, ThreadsTyped, RowsWhole
  <2> QED  BY <1>1, <1>2, <1>3, <2>1, QuietType, NumbersTyped
<1>4. CASE thread' # thread
  <2> DEFINE r == [pc |-> "login", user |-> u, address |-> a, at |-> clock,
                   known |-> Row(u), token |-> requests',
                   valid |-> AllowLocal /\ knows /\ enabled[u] /\ local[u]]
  <2>1. thread' = [thread EXCEPT ![t] = r]
    BY <1>4, Zenon DEF LoginReads
  <2>2. /\ r.pc = "login" /\ r.user = u /\ r.address = a /\ r.at = clock
        /\ r.known = Row(u) /\ r.token = requests'
        /\ r.valid = (AllowLocal /\ knows /\ enabled[u] /\ local[u])
    BY Zenon
  <2> HIDE DEF r
  <2>3. r.known.epoch \in 0 .. MaxRequests
    BY <2>2, NumbersTyped DEF Row
  <2>4. r.valid => role[r.user] # None
    BY <2>2 DEF TypeInv, RowsWhole
  <2> QED  BY <1>1, <1>2, <2>1, <2>2, <2>3, <2>4, RecordType, NumbersTyped
<1> QED  BY <1>3, <1>4

\* The session that a login leaves, and the row of its user.
LEMMA CreateSessionType ==
    ASSUME TypeInv, NEW t \in Threads, thread[t].pc = "login",
           CreateSession(thread[t]), role'[thread[t].user] # None,
           \A u \in Users : role[u] # None => role'[u] # None
    PROVE  /\ \A s \in sessions' : s \in SessionRecords /\ role'[s.user] # None
           /\ epoch' = epoch /\ raced' \subseteq 1 .. MaxRequests
<1> DEFINE l == thread[t]
           new == [token |-> l.token, user |-> l.user, expires |-> clock + SessionLife,
                   epoch |-> l.known.epoch]
<1>1. /\ sessions' \subseteq sessions \union {new} /\ epoch' = epoch
      /\ raced' \subseteq raced \union {l.token}
  BY DEF CreateSession
<1>2. /\ l.user \in Users /\ l.token \in 1 .. MaxRequests
      /\ l.known.epoch \in 0 .. MaxRequests
  BY DEF TypeInv, ThreadsTyped
<1>3. clock + SessionLife \in Nat
  BY NumbersTyped, OperatorsAssumption
<1>4. new \in SessionRecords /\ new.user = l.user
  BY <1>2, <1>3 DEF SessionRecords
<1> HIDE DEF l, new
<1>5. \A s \in sessions : s \in SessionRecords /\ s.user \in Users /\ role[s.user] # None
  BY DEF TypeInv, TypeOK, SessionRecords
<1>6. \A s \in sessions' : s \in SessionRecords /\ role'[s.user] # None
  BY <1>1, <1>4, <1>5 DEF l
<1> QED  BY <1>1, <1>2, <1>6, NumbersTyped

LEMMA FailureType ==
    ASSUME TypeInv, NEW t \in Threads, thread[t].pc = "login", RecordFailure(thread[t])
    PROVE  failures' \subseteq FailureRecords
<1> DEFINE l == thread[t]
<1>1. /\ l.user \in Users /\ l.address \in Addresses /\ l.at \in 0 .. MaxClock
      /\ l.token \in 1 .. MaxRequests
  BY DEF TypeInv, ThreadsTyped
<1>2. [login |-> l.token, user |-> l.user, address |-> l.address, at |-> l.at]
        \in FailureRecords
  BY <1>1 DEF FailureRecords
<1>3. failures \subseteq FailureRecords
  BY DEF TypeInv, TypeOK
<1> QED  BY <1>2, <1>3 DEF RecordFailure

\* An answer frees its thread.
LEMMA AnswerType ==
    ASSUME TypeInv, NEW t \in Threads, Answer(t)
    PROVE  /\ thread' = [o \in Threads |-> thread'[o]]
           /\ \A o \in Threads : thread'[o] = thread[o] \/ thread'[o] = Idle
  BY DEF TypeInv, ThreadsTyped, Answer

\* Steps that leave the users, or the sessions, as they were.
LEMMA SameUsers ==
    ASSUME TypeInv, UNCHANGED users
    PROVE  /\ role' \in [Users -> Roles \union {None}]
           /\ enabled' \in [Users -> BOOLEAN] /\ local' \in [Users -> BOOLEAN]
           /\ \A u \in Users : role[u] # None => role'[u] # None
           /\ RowsWhole'
  BY DEF users, TypeInv, TypeOK, RowsWhole

LEMMA FewerSessions ==
    ASSUME TypeInv, sessions' \subseteq sessions,
           \A u \in Users : role[u] # None => role'[u] # None
    PROVE  \A s \in sessions' : s \in SessionRecords /\ role'[s.user] # None
<1>1. \A s \in sessions : s \in SessionRecords /\ s.user \in Users /\ role[s.user] # None
  BY DEF TypeInv, TypeOK, SessionRecords
<1> QED  BY <1>1

LEMMA SameFailures ==
    ASSUME TypeInv, UNCHANGED failures
    PROVE  failures' \subseteq FailureRecords
  BY DEF TypeInv, TypeOK

\* A row that is written: its user has a role from then on.
LEMMA WrittenRow ==
    ASSUME TypeInv, NEW u \in Users, NEW r \in Roles, NEW e \in BOOLEAN, NEW p \in BOOLEAN,
           \/ /\ role' = [role EXCEPT ![u] = r]
              /\ enabled' = [enabled EXCEPT ![u] = e] /\ local' = [local EXCEPT ![u] = p]
           \/ /\ role[u] # None /\ role' \in {role, [role EXCEPT ![u] = r]}
              /\ UNCHANGED <<enabled, local>>
    PROVE  /\ role' \in [Users -> Roles \union {None}]
           /\ enabled' \in [Users -> BOOLEAN] /\ local' \in [Users -> BOOLEAN]
           /\ \A x \in Users : role[x] # None => role'[x] # None
           /\ RowsWhole' /\ role'[u] # None
<1>1. /\ role \in [Users -> Roles \union {None}] /\ enabled \in [Users -> BOOLEAN]
      /\ local \in [Users -> BOOLEAN] /\ r # None
      /\ \A x \in Users : role[x] = None => ~enabled[x] /\ ~local[x]
  BY OperatorsAssumption DEF TypeInv, TypeOK, RowsWhole
<1>2. CASE /\ role' = [role EXCEPT ![u] = r]
           /\ enabled' = [enabled EXCEPT ![u] = e] /\ local' = [local EXCEPT ![u] = p]
  BY <1>1, <1>2 DEF RowsWhole
<1>3. CASE /\ role[u] # None /\ role' \in {role, [role EXCEPT ![u] = r]}
           /\ UNCHANGED <<enabled, local>>
  BY <1>1, <1>3 DEF RowsWhole
<1> QED  BY <1>2, <1>3

LEMMA LoginType ==
    ASSUME TypeInv, NEW t \in Threads, LocalLogin(t) \/ DirectoryLogin(t) \/ LoginFails(t)
    PROVE  TypeInv'
<1> DEFINE l == thread[t]
<1>1. /\ l.pc = "login" /\ Answer(t) /\ UNCHANGED <<clock, requests>>
      /\ l.user \in Users
  BY DEF LocalLogin, DirectoryLogin, LoginFails, TypeInv, ThreadsTyped
<1>2. /\ clock' \in 0 .. MaxClock /\ requests' \in 0 .. MaxRequests /\ requests <= requests'
      /\ overtaken' \subseteq Threads
  <2>1. overtaken' \in {overtaken, overtaken \ {t}} \/ Overtakes(t)
    BY DEF LocalLogin, DirectoryLogin, LoginFails, history
  <2> QED  BY <1>1, <2>1, NumbersTyped DEF Overtakes
<1>3. CASE LocalLogin(t)
  <2>1. CreateSession(l) /\ UNCHANGED <<users, failures>> /\ role[l.user] # None
    BY <1>3 DEF LocalLogin, TypeInv, ThreadsTyped
  <2>2. role'[l.user] # None
    BY <2>1 DEF users
  <2> HIDE DEF l
  <2> QED
    BY <1>1, <1>2, <2>1, <2>2, SameUsers, SameFailures, AnswerType, CreateSessionType,
       QuietType DEF l
<1>4. CASE LoginFails(t)
  <2>1. RecordFailure(l) /\ UNCHANGED <<users, sessions, history>>
    BY <1>4 DEF LoginFails
  <2>2. sessions' \subseteq sessions /\ epoch' = epoch /\ raced' \subseteq 1 .. MaxRequests
    BY <2>1, NumbersTyped DEF history
  <2> QED
    BY <1>1, <1>2, <2>1, <2>2, SameUsers, FewerSessions, FailureType, AnswerType, QuietType
<1>5. CASE DirectoryLogin(t)
  <2>1. PICK memberOf : /\ DirectoryRole(memberOf) # None
                        /\ UpsertDirectoryUser(l, DirectoryRole(memberOf))
    BY <1>5 DEF DirectoryLogin
  <2>2. DirectoryRole(memberOf) \in Roles
    BY <2>1, DirectoryRoleType
  <2>3. \/ CreateSession(l) /\ UNCHANGED failures
        \/ RecordFailure(l) /\ UNCHANGED <<sessions, epoch, raced>>
    BY <1>5 DEF DirectoryLogin
  <2> HIDE DEF l
  <2>4. /\ role' \in [Users -> Roles \union {None}]
        /\ enabled' \in [Users -> BOOLEAN] /\ local' \in [Users -> BOOLEAN]
        /\ \A x \in Users : role[x] # None => role'[x] # None
        /\ RowsWhole' /\ role'[l.user] # None
    <3>1. CASE role[l.user] = None
      BY <1>1, <2>1, <2>2, <3>1, WrittenRow DEF UpsertDirectoryUser
    <3>2. CASE role[l.user] # None
      <4>1. role' \in {role, [role EXCEPT ![l.user] = DirectoryRole(memberOf)]}
        BY <1>1, <2>1, <3>2 DEF UpsertDirectoryUser, TypeInv, TypeOK
      <4>2. UNCHANGED <<enabled, local>>
        BY <2>1, <3>2 DEF UpsertDirectoryUser
      <4> QED  BY <1>1, <2>2, <3>2, <4>1, <4>2, WrittenRow
    <3> QED  BY <3>1, <3>2
  <2>5. CASE CreateSession(l) /\ UNCHANGED failures
    BY <1>1, <1>2, <2>4, <2>5, SameFailures, AnswerType, CreateSessionType, QuietType DEF l
  <2>6. CASE RecordFailure(l) /\ UNCHANGED <<sessions, epoch, raced>>
    <3>1. sessions' \subseteq sessions /\ epoch' = epoch /\ raced' \subseteq 1 .. MaxRequests
      BY <2>6, NumbersTyped
    <3> QED
      BY <1>1, <1>2, <2>4, <2>6, <3>1, FewerSessions, FailureType, AnswerType, QuietType
      DEF l
  <2> QED  BY <2>3, <2>5, <2>6
<1> QED  BY <1>3, <1>4, <1>5

----------------------------------------------------------------------------
(* Types: the management of users *)

LEMMA UpdateReadsType ==
    ASSUME TypeInv, NEW t \in Threads, UpdateReads(t)
    PROVE  TypeInv'
<1>1. /\ UNCHANGED <<users, sessions, failures, history, clock>>
      /\ requests < MaxRequests /\ requests' = requests + 1
  BY DEF UpdateReads, CountRequest
<1>2. requests' \in 0 .. MaxRequests
  BY <1>1, NumbersTyped
<1>3. PICK s \in sessions, u \in Users, newRole \in NewRoles,
           newEnabled \in NewEnabled, reset \in BOOLEAN :
        /\ AdminContext(s)
        /\ role[u] # None
        /\ ~ RemovesOwnAccess(s, u, newRole, newEnabled)
        /\ reset => local[u]
        /\ newRole \notin {Keep, role[u]} \/ newEnabled \notin {Keep, Status(u)} \/ reset
        /\ thread' = [thread EXCEPT ![t] =
              [pc |-> "update", by |-> s, user |-> u,
               role |-> IF newRole = role[u] THEN Keep ELSE newRole,
               enabled |-> IF newEnabled = Status(u) THEN Keep ELSE newEnabled,
               reset |-> reset,
               revokes |-> IF Revokes(newEnabled, reset) THEN {u} ELSE {}]]
  BY Zenon DEF UpdateReads
<1> DEFINE kept == IF newRole = role[u] THEN Keep ELSE newRole
           status == IF newEnabled = Status(u) THEN Keep ELSE newEnabled
           revoked == IF Revokes(newEnabled, reset) THEN {u} ELSE {}
           r == [pc |-> "update", by |-> s, user |-> u, role |-> kept,
                 enabled |-> status, reset |-> reset, revokes |-> revoked]
<1>4. kept \in NewRoles
  BY DEF NewRoles
<1> HIDE DEF kept, status, revoked
<1>5. thread' = [thread EXCEPT ![t] = r]
  BY <1>3 DEF kept, status, revoked
<1>6. r.pc = "update" /\ r.user = u /\ r.role = kept
  OBVIOUS
<1> HIDE DEF r
<1> QED  BY <1>1, <1>2, <1>3, <1>4, <1>5, <1>6, RecordType

LEMMA UpdateDeletesType ==
    ASSUME TypeInv, NEW t \in Threads, UpdateDeletes(t)
    PROVE  TypeInv'
<1> DEFINE c == thread[t]
           r == [pc |-> "commit", by |-> c.by, user |-> c.user, role |-> c.role,
                 enabled |-> c.enabled, reset |-> c.reset, revokes |-> c.revokes,
                 deleted |-> UNION {Of(u) : u \in c.revokes}]
<1>1. c.pc = "update" /\ thread' = [thread EXCEPT ![t] = r]
  BY DEF UpdateDeletes
<1>2. UNCHANGED <<users, sessions, failures, history, clock, requests>>
  BY DEF UpdateDeletes
<1>3. r.pc = "commit" /\ r.user = c.user /\ r.role = c.role
  OBVIOUS
<1> HIDE DEF r
<1>4. r.user \in Users /\ role[r.user] # None /\ r.role \in NewRoles
  BY <1>1, <1>3 DEF TypeInv, ThreadsTyped
<1>5. t \in Updating(r.user) /\ requests' \in 0 .. MaxRequests
  BY <1>1, <1>2, <1>3, NumbersTyped DEF Updating
<1> QED  BY <1>1, <1>2, <1>3, <1>4, <1>5, RecordType

LEMMA CreateReadsType ==
    ASSUME TypeInv, NEW t \in Threads, CreateReads(t)
    PROVE  TypeInv'
<1>1. /\ UNCHANGED <<users, sessions, failures, history, clock>>
      /\ requests < MaxRequests /\ requests' = requests + 1
  BY DEF CreateReads, CountRequest
<1>2. requests' \in 0 .. MaxRequests
  BY <1>1, NumbersTyped
<1>3. PICK r : /\ r.pc = "create" /\ r.user \in Users /\ r.role \in Roles
               /\ thread' = [thread EXCEPT ![t] = r]
  BY DEF CreateReads
<1> QED  BY <1>1, <1>2, <1>3, RecordType

LEMMA InsertType ==
    ASSUME TypeInv, NEW u \in Users, NEW r \in Roles, Insert(u, r)
    PROVE  /\ role' \in [Users -> Roles \union {None}]
           /\ enabled' \in [Users -> BOOLEAN] /\ local' \in [Users -> BOOLEAN]
           /\ \A x \in Users : role[x] # None => role'[x] # None
           /\ RowsWhole'
  BY WrittenRow DEF Insert

\* The commit takes an update from those that may still be counted.
LEMMA UpdateCommitsType ==
    ASSUME TypeInv, NEW t \in Threads, UpdateCommits(t)
    PROVE  TypeInv'
<1> DEFINE c == thread[t]
<1>1. /\ c.pc = "commit" /\ Answer(t)
      /\ role' = [role EXCEPT ![c.user] = IF c.role = Keep THEN @ ELSE c.role]
      /\ enabled' = [enabled EXCEPT ![c.user] =
                       IF c.enabled = Keep THEN @ ELSE c.enabled = "enable"]
      /\ epoch' = [epoch EXCEPT ![c.user] =
                        IF c.reset \/ c.enabled = "disable" THEN @ + 1 ELSE @]
      /\ sessions' \subseteq sessions
      /\ UNCHANGED <<local, failures, raced, clock, requests>>
      /\ overtaken' \subseteq Threads
  BY DEF UpdateCommits, Overtakes
<1>2. c.user \in Users /\ role[c.user] # None /\ c.role \in NewRoles
  BY <1>1 DEF TypeInv, ThreadsTyped
<1>3. /\ thread' = [o \in Threads |-> thread'[o]]
      /\ thread'[t] = Idle /\ \A o \in Threads \ {t} : thread'[o] = thread[o]
      /\ Idle.pc = "idle"
  BY <1>1 DEF TypeInv, ThreadsTyped, Answer, Idle
<1> HIDE DEF c
<1>4. /\ role' \in [Users -> Roles \union {None}] /\ enabled' \in [Users -> BOOLEAN]
      /\ \A x \in Users : role[x] # None => role'[x] # None
      /\ RowsWhole'
  <2>1. /\ role \in [Users -> Roles \union {None}] /\ enabled \in [Users -> BOOLEAN]
        /\ \A x \in Users : role[x] = None => ~enabled[x] /\ ~local[x]
    BY DEF TypeInv, TypeOK, RowsWhole
  <2>2. c.role # Keep => c.role \in Roles /\ c.role # None
    BY <1>2, OperatorsAssumption DEF NewRoles
  <2>3. /\ role' \in [Users -> Roles \union {None}]
        /\ \A x \in Users : role[x] # None => role'[x] # None
        /\ \A x \in Users : role'[x] = None => role[x] = None /\ x # c.user
    BY <1>1, <1>2, <2>1, <2>2
  <2>4. /\ enabled' \in [Users -> BOOLEAN]
        /\ \A x \in Users \ {c.user} : enabled'[x] = enabled[x]
    <3>1. CASE c.enabled = Keep
      BY <1>1, <2>1, <3>1
    <3>2. CASE c.enabled # Keep
      <4> DEFINE e == c.enabled = "enable"
      <4>1. enabled' = [enabled EXCEPT ![c.user] = e] /\ e \in BOOLEAN
        BY <1>1, <3>2
      <4> HIDE DEF e
      <4> QED  BY <2>1, <4>1
    <3> QED  BY <3>1, <3>2
  <2> QED  BY <1>1, <2>1, <2>3, <2>4 DEF RowsWhole
<1>5. \A s \in sessions' : s \in SessionRecords /\ role'[s.user] # None
  BY <1>1, <1>4, FewerSessions
<1>6. \A u \in Users : epoch'[u] = epoch[u] \/ (u = c.user /\ epoch'[u] = epoch[u] + 1)
  BY <1>1, NumbersTyped
<1>7. ASSUME NEW u \in Users PROVE epoch'[u] + Cardinality(Updating(u)') <= requests
  <2>1. epoch[u] + Cardinality(Updating(u)) <= requests
    BY DEF TypeInv, EpochsRequested
  <2>2. epoch[u] \in Nat /\ requests \in Nat
    BY NumbersTyped
  <2>3. Updating(u)' = Updating(u) \ {t}
    BY <1>3 DEF Updating
  <2>4. Updating(u)' \subseteq Updating(u)
    BY <2>3
  <2>5. CASE epoch'[u] = epoch[u]
    BY <2>1, <2>2, <2>4, <2>5, UpdatingCounted
  <2>6. CASE u = c.user /\ epoch'[u] = epoch[u] + 1
    <3>1. t \in Updating(u)
      BY <1>1, <2>6 DEF Updating, c
    <3>2. Cardinality(Updating(u)') = Cardinality(Updating(u)) - 1
      BY <2>3, <3>1, UpdatingCounted, FS_RemoveElement
    <3> QED  BY <2>1, <2>2, <2>6, <3>2, UpdatingCounted
  <2> QED  BY <1>6, <2>5, <2>6
<1>8. epoch' \in [Users -> 0 .. MaxRequests]
  <2>1. ASSUME NEW u \in Users PROVE epoch'[u] \in 0 .. MaxRequests
    <3>1. epoch[u] \in Nat /\ requests \in Nat /\ requests <= MaxRequests /\ MaxRequests \in Nat
      BY NumbersTyped
    <3>2. epoch'[u] \in Nat
      BY <1>6, <3>1
    <3> QED  BY <1>7, <3>1, <3>2, UpdatingCounted
  <2>2. epoch' = [u \in Users |-> epoch'[u]]
    BY <1>1, NumbersTyped
  <2> QED  BY <2>1, <2>2
<1>9. \A o \in Threads : thread'[o].pc \in {"idle", "login", "update", "commit", "create"}
  BY <1>3 DEF TypeInv, TypeOK
<1>10. TypeOK'
  BY <1>1, <1>4, <1>5, <1>8, <1>9 DEF TypeInv, TypeOK, SessionRecords, FailureRecords
<1>11. ThreadsTyped'
  BY <1>3, <1>4 DEF TypeInv, ThreadsTyped
<1>12. EpochsRequested'
  BY <1>1, <1>7 DEF EpochsRequested
<1> QED  BY <1>4, <1>10, <1>11, <1>12 DEF TypeInv

LEMMA OtherType ==
    ASSUME TypeInv,
           \/ UseExpired \/ Logout \/ ManageUser \/ Tick \/ UNCHANGED vars
           \/ \E t \in Threads : CreateCommits(t) \/ RequestFails(t)
    PROVE  TypeInv'
<1> USE DEF history
<1>1. /\ sessions' \subseteq sessions /\ UNCHANGED failures
      /\ epoch' = epoch /\ raced' \subseteq 1 .. MaxRequests /\ overtaken' \subseteq Threads
  BY NumbersTyped DEF UseExpired, Logout, ManageUser, Tick, vars, CreateCommits, RequestFails
<1>2. /\ role' \in [Users -> Roles \union {None}]
      /\ enabled' \in [Users -> BOOLEAN] /\ local' \in [Users -> BOOLEAN]
      /\ \A u \in Users : role[u] # None => role'[u] # None
      /\ RowsWhole'
  <2>1. CASE UNCHANGED users
    BY <2>1, SameUsers
  <2>2. CASE \E u \in Users, r \in Roles : Insert(u, r)
    BY <2>2, InsertType
  <2>3. ASSUME NEW t \in Threads, CreateCommits(t)
        PROVE  \E u \in Users, r \in Roles : Insert(u, r)
    BY <2>3 DEF CreateCommits, TypeInv, ThreadsTyped
  <2>4. ManageUser => \E u \in Users, r \in Roles : Insert(u, r)
    BY DEF ManageUser
  <2>5. UseExpired \/ Logout \/ Tick \/ UNCHANGED vars => UNCHANGED users
    BY DEF UseExpired, Logout, Tick, vars
  <2>6. (\E t \in Threads : RequestFails(t)) => UNCHANGED users
    BY DEF RequestFails
  <2> QED  BY <2>1, <2>2, <2>3, <2>4, <2>5, <2>6
<1>3. /\ thread' = [o \in Threads |-> thread'[o]]
      /\ \A o \in Threads : thread'[o] = thread[o] \/ thread'[o] = Idle
  <2>1. CASE UNCHANGED thread
    BY <2>1 DEF TypeInv, ThreadsTyped
  <2>2. CASE \E t \in Threads : Answer(t)
    BY <2>2, AnswerType
  <2> QED
    BY <2>1, <2>2 DEF UseExpired, Logout, ManageUser, Tick, vars, CreateCommits, RequestFails
<1>4. /\ clock' \in 0 .. MaxClock /\ requests' \in 0 .. MaxRequests /\ requests <= requests'
  <2>1. UNCHANGED requests \/ (requests < MaxRequests /\ requests' = requests + 1)
    BY DEF UseExpired, Logout, ManageUser, Tick, vars, CreateCommits, RequestFails,
           CountRequest
  <2>2. UNCHANGED clock \/ (clock < MaxClock /\ clock' = clock + 1)
    BY DEF UseExpired, Logout, ManageUser, Tick, vars, CreateCommits, RequestFails
  <2> QED  BY <2>1, <2>2, NumbersTyped
<1> QED  BY <1>1, <1>2, <1>3, <1>4, FewerSessions, SameFailures, QuietType

\* The rows, and what requests have read and will write, have their shapes
\* throughout; a session belongs to a user who has a row (its foreign key),
\* and a user has been disabled or given a password at most once per request.
THEOREM TypeCorrect == Spec => []TypeOK
<1>1. TypeInv /\ [Next]_vars => TypeInv'
  <2> SUFFICES ASSUME TypeInv, [Next]_vars PROVE TypeInv'
    OBVIOUS
  <2>1. ASSUME NEW t \in Threads, NEW u \in Users, NEW a \in Addresses,
               NEW knows \in BOOLEAN, LoginReads(t, u, a, knows)
        PROVE  TypeInv'
    BY <2>1, LoginReadsType
  <2>2. ASSUME NEW t \in Threads, LocalLogin(t) \/ DirectoryLogin(t) \/ LoginFails(t)
        PROVE  TypeInv'
    BY <2>2, LoginType
  <2>3. ASSUME NEW t \in Threads,
               UpdateReads(t) \/ UpdateDeletes(t) \/ UpdateCommits(t) \/ CreateReads(t)
        PROVE  TypeInv'
    BY <2>3, UpdateReadsType, UpdateDeletesType, UpdateCommitsType, CreateReadsType
  <2> QED  BY <2>1, <2>2, <2>3, OtherType DEF Next
<1>2. TypeInv => TypeOK
  BY DEF TypeInv
<1> QED  BY <1>1, <1>2, InitTypeInv, PTL DEF Spec
============================================================================
