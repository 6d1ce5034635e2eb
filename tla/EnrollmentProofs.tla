------------------------- MODULE EnrollmentProofs -------------------------
(***************************************************************************)
(* Proofs about Enrollment, for every number of resets, losses, restarts,  *)
(* crashes and file errors.                                                *)
(***************************************************************************)
EXTENDS Enrollment, TLAPS

----------------------------------------------------------------------------
(* The inductive invariant *)

\* The server issues a token only while it holds none, so each token but the
\* one it holds has been reset.
IssuedPerReset == issued <= resets + (IF tokenHash = None THEN 0 ELSE 1)

\* What is kept, held or on the wire is something the server has issued.
TokensAreIssued ==
    /\ tokenHash \in 0 .. issued
    /\ file \in 0 .. issued
    /\ held \in -1 .. issued
    /\ wire \in -2 .. issued

\* A request given up was lost or outlived its process.
LateIsCounted == late <= losses + crashes

\* Nothing is forgotten before the recovery of this run.
ForgottenByRecovery ==
    /\ ~recovery => forgotten = 0
    /\ forgotten <= 1

\* Enrollment begins only for an issued token and without one.
EnrollingIsUnready == pc = "enroll" => ~ready /\ mode = "issued"

\* Until the recovery, the token a pass sends is the one in the file.
SendsTheFile ==
    pc \in {"drain", "heartbeat"} /\ ready /\ mode = "issued" /\ ~recovery
        => held = file

Inv ==
    /\ TypeOK
    /\ IssuedPerReset
    /\ TokensAreIssued
    /\ LateIsCounted
    /\ ForgottenByRecovery
    /\ EnrollingIsUnready
    /\ SendsTheFile

----------------------------------------------------------------------------

LEMMA InitInv == Init => Inv
<1> SUFFICES ASSUME Init PROVE Inv
  OBVIOUS
<1>1. ready \in BOOLEAN /\ recovery \in BOOLEAN
  BY Zenon DEF Init
<1>2. TypeOK
  BY <1>1, BoundsAssumption DEF Init, TypeOK, Tokens, MaxTokens, None
<1>3. IssuedPerReset /\ TokensAreIssued /\ LateIsCounted
  BY DEF Init, IssuedPerReset, TokensAreIssued, LateIsCounted, None
<1>4. ForgottenByRecovery /\ EnrollingIsUnready /\ SendsTheFile
  BY DEF Init, ForgottenByRecovery, EnrollingIsUnready, SendsTheFile
<1> QED  BY <1>2, <1>3, <1>4 DEF Inv

\* The token a step issues is one of the MaxTokens.
LEMMA IssueInv ==
    ASSUME Inv, MayEnroll, Issue, UNCHANGED resets
    PROVE  /\ issued' \in Tokens /\ tokenHash' = issued'
           /\ issued' = issued + 1
           /\ IssuedPerReset'
  BY BoundsAssumption
  DEF Inv, TypeOK, IssuedPerReset, MayEnroll, Issue, Tokens, MaxTokens, None

\* The server's steps.
LEMMA ServerStep ==
    ASSUME Inv,
           ServerEnrolls \/ ServerEnrollsLate \/ LateEnrollDies \/ ResetDatabase
    PROVE  Inv'
<1> USE BoundsAssumption
<1>1. CASE ServerEnrolls
  <2>1. CASE MayEnroll
    <3>1. Issue /\ UNCHANGED resets /\ wire' = issued'
      BY <1>1, <2>1 DEF ServerEnrolls, bounds
    <3>2. /\ issued' \in Tokens /\ tokenHash' = issued'
          /\ issued' = issued + 1
          /\ IssuedPerReset'
      BY <2>1, <3>1, IssueInv
    <3> QED
      BY <1>1, <3>1, <3>2
      DEF ServerEnrolls, bounds, Inv, TypeOK, TokensAreIssued,
          LateIsCounted, ForgottenByRecovery, EnrollingIsUnready, SendsTheFile,
          Tokens, MaxTokens, None, Shared, Waiting, Refused
  <2>2. CASE ~MayEnroll
    BY <1>1, <2>2
    DEF ServerEnrolls, server, bounds, Inv, TypeOK, IssuedPerReset, TokensAreIssued,
        LateIsCounted, ForgottenByRecovery, EnrollingIsUnready, SendsTheFile,
        Tokens, MaxTokens, None, Shared, Waiting, Refused
  <2> QED  BY <2>1, <2>2
<1>2. CASE ServerEnrollsLate
  <2>1. CASE MayEnroll
    <3>1. Issue /\ UNCHANGED resets
      BY <1>2, <2>1 DEF ServerEnrollsLate, bounds
    <3>2. /\ issued' \in Tokens /\ tokenHash' = issued'
          /\ issued' = issued + 1
          /\ IssuedPerReset'
      BY <2>1, <3>1, IssueInv
    <3> QED
      BY <1>2, <3>1, <3>2
      DEF ServerEnrollsLate, bounds, Inv, TypeOK, TokensAreIssued,
          LateIsCounted, ForgottenByRecovery, EnrollingIsUnready, SendsTheFile,
          Tokens, MaxTokens, None, Shared, Waiting, Refused
  <2>2. CASE ~MayEnroll
    BY <1>2, <2>2
    DEF ServerEnrollsLate, server, bounds, Inv, TypeOK, IssuedPerReset,
        TokensAreIssued, LateIsCounted, ForgottenByRecovery, EnrollingIsUnready,
        SendsTheFile, Tokens, MaxTokens, None, Shared, Waiting, Refused
  <2> QED  BY <2>1, <2>2
<1>3. CASE LateEnrollDies
  BY <1>3
  DEF LateEnrollDies, server, bounds, Inv, TypeOK, IssuedPerReset,
      TokensAreIssued, LateIsCounted, ForgottenByRecovery, EnrollingIsUnready,
      SendsTheFile, Tokens, MaxTokens, None, Shared, Waiting, Refused
<1>4. CASE ResetDatabase
  BY <1>4
  DEF ResetDatabase, Inv, TypeOK, IssuedPerReset,
      TokensAreIssued, LateIsCounted, ForgottenByRecovery, EnrollingIsUnready,
      SendsTheFile, Tokens, MaxTokens, None, Shared, Waiting, Refused
<1> QED  BY <1>1, <1>2, <1>3, <1>4

\* The steps of an enrollment, the decision to enroll included.
LEMMA EnrollStep ==
    ASSUME Inv,
           CheckCredentials \/ EnrollSucceeds \/ EnrollRefused \/ EnrollLost
               \/ PersistFails
    PROVE  Inv'
<1> USE BoundsAssumption
      DEF server, bounds, Inv, TypeOK, IssuedPerReset,
          TokensAreIssued, LateIsCounted, ForgottenByRecovery, EnrollingIsUnready,
          SendsTheFile, Tokens, MaxTokens, None, Shared, Waiting, Refused
<1>1. CASE CheckCredentials
  <2>0. ready' \in BOOLEAN /\ recovery' \in BOOLEAN
    BY <1>1, Zenon DEF CheckCredentials
  <2>1. held' \in Tokens \union {None, Shared} /\ held' \in -1 .. issued
    BY <1>1 DEF CheckCredentials
  <2>2. /\ mode = "issued" => held' = file
        /\ ~ready' => mode = "issued"
    BY <1>1 DEF CheckCredentials
  <2>3. \/ ready' /\ pc' = "drain" /\ wire' = wire
        \/ ~ready' /\ pc' = "enroll" /\ wire' = Waiting
    BY <1>1, Zenon DEF CheckCredentials
  <2>4. UNCHANGED <<mode, file, server, recovery, late, forgotten, bounds>>
    BY <1>1 DEF CheckCredentials
  <2>5. CASE ready'
    BY <2>0, <2>1, <2>2, <2>3, <2>4, <2>5
  <2>6. CASE ~ready'
    BY <2>0, <2>1, <2>2, <2>3, <2>4, <2>6
  <2> QED  BY <2>5, <2>6
<1>2. CASE EnrollSucceeds
  BY <1>2 DEF EnrollSucceeds
<1>3. CASE EnrollRefused
  BY <1>3 DEF EnrollRefused
<1>4. CASE EnrollLost
  BY <1>4 DEF EnrollLost, GivenUp
<1>5. CASE PersistFails
  BY <1>5 DEF PersistFails
<1> QED  BY <1>1, <1>2, <1>3, <1>4, <1>5

\* The drain and the heartbeat, a refused one included.
LEMMA RequestStep ==
    ASSUME Inv, RequestPasses \/ RequestUnauthorized
    PROVE  Inv'
<1> USE BoundsAssumption
      DEF server, bounds, Inv, TypeOK, IssuedPerReset,
          TokensAreIssued, LateIsCounted, ForgottenByRecovery, EnrollingIsUnready,
          SendsTheFile, Tokens, MaxTokens, None, Shared, Waiting, Refused
<1>0. pc \in {"drain", "heartbeat"} => NextPc[pc] \in {"heartbeat", "check"}
  BY DEF NextPc
<1>1. CASE RequestPasses
  BY <1>0, <1>1 DEF RequestPasses
<1>2. CASE RequestUnauthorized
  <2>1. CASE recovery \/ mode # "issued"
    BY <1>0, <1>2, <2>1 DEF RequestUnauthorized, Recover
  <2>2. CASE ~(recovery \/ mode # "issued")
    <3>1. recovery' /\ forgotten = 0 /\ forgotten' \in {0, 1}
      BY <1>2, <2>2 DEF RequestUnauthorized, Recover
    <3>2. file' \in {None, file} /\ fileErrors' \in 0 .. MaxFileErrors
      BY <1>2, <2>2 DEF RequestUnauthorized, Recover
    <3> QED
      BY <1>0, <1>2, <3>1, <3>2 DEF RequestUnauthorized
  <2> QED  BY <2>1, <2>2
<1> QED  BY <1>1, <1>2

\* The service is stopped or dies, and starts again.
LEMMA StartStep ==
    ASSUME Inv, StopAndStart \/ DieAndStart
    PROVE  Inv'
<1> USE BoundsAssumption
      DEF StartService, server, Inv, TypeOK, IssuedPerReset,
          TokensAreIssued, LateIsCounted, ForgottenByRecovery, EnrollingIsUnready,
          SendsTheFile, Tokens, MaxTokens, None, Shared, Waiting, Refused
<1>0. ready' \in BOOLEAN /\ recovery' \in BOOLEAN /\ ~ready' /\ ~recovery'
  BY Zenon DEF StopAndStart, DieAndStart
<1>1. CASE StopAndStart
  BY <1>0, <1>1 DEF StopAndStart
<1>2. CASE DieAndStart
  BY <1>0, <1>2 DEF DieAndStart, GivenUp
<1> QED  BY <1>1, <1>2

LEMMA StutterInv == ASSUME Inv, UNCHANGED vars PROVE Inv'
  BY DEF vars, server, bounds, Inv, TypeOK, IssuedPerReset, TokensAreIssued,
         LateIsCounted, ForgottenByRecovery, EnrollingIsUnready, SendsTheFile

\* The invariant, from which the properties below follow.
THEOREM Invariance == Safety => []Inv
<1>1. Init => Inv
  BY InitInv
<1>2. Inv /\ [Next]_vars => Inv'
  BY ServerStep, EnrollStep, RequestStep, StartStep, StutterInv DEF Next
<1> QED  BY <1>1, <1>2, PTL DEF Safety

----------------------------------------------------------------------------

\* Every variable keeps its type; at most one token per reset, and the first,
\* is ever issued (enroll.py:36-46).
THEOREM TypeCorrect == Safety => []TypeOK
<1>1. Inv => TypeOK
  BY DEF Inv
<1> QED  BY <1>1, Invariance, PTL

\* One run of the service forgets at most one token (service.py:554-556).
THEOREM ForgottenOnce == Safety => []ForgetsOnce
<1>1. Inv => ForgetsOnce
  BY DEF Inv, ForgottenByRecovery, ForgetsOnce
<1> QED  BY <1>1, Invariance, PTL

\* Only a token the server does not know is forgotten: until the recovery the
\* refused request carried the very token of the file (service.py:554-570).
THEOREM ValidIsKept == Safety => NeverForgetsValid
<1>1. ASSUME Inv, [Next]_vars, file # None, file' = None
      PROVE  file # tokenHash
  <2>1. CASE RequestUnauthorized
    <3>1. ready /\ mode = "issued" /\ ~recovery /\ pc \in {"drain", "heartbeat"}
      BY <1>1, <2>1 DEF RequestUnauthorized, Recover
    <3>2. held = file
      BY <1>1, <3>1 DEF Inv, SendsTheFile
    <3> QED
      BY <1>1, <2>1, <3>1, <3>2 DEF RequestUnauthorized, Unauthorized
  <2>2. CASE EnrollSucceeds
    BY <1>1, <2>2 DEF EnrollSucceeds, None
  <2>3. CASE ~RequestUnauthorized /\ ~EnrollSucceeds
    BY <1>1, <2>3
    DEF Next, vars, ServerEnrolls, ServerEnrollsLate, LateEnrollDies, ResetDatabase,
        CheckCredentials, EnrollRefused, EnrollLost, PersistFails, RequestPasses,
        StopAndStart, DieAndStart, StartService
  <2> QED  BY <2>1, <2>2, <2>3
<1> QED  BY <1>1, Invariance, PTL DEF Safety, NeverForgetsValid

\* No enrollment replaces a token the server holds (enroll.py:36-44).
THEOREM TokenStays == Safety => NeverRotated
<1>1. ASSUME [Next]_vars, tokenHash # None
      PROVE  tokenHash' \in {tokenHash, None}
  BY <1>1
  DEF Next, vars, server, ServerEnrolls, ServerEnrollsLate, MayEnroll,
      LateEnrollDies, ResetDatabase, CheckCredentials, EnrollSucceeds,
      EnrollRefused, EnrollLost, PersistFails, RequestPasses, RequestUnauthorized,
      StopAndStart, DieAndStart, StartService
<1> QED  BY <1>1, PTL DEF Safety, NeverRotated
=============================================================================
