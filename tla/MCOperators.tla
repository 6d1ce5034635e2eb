---------------------------- MODULE MCOperators ----------------------------
(* Two administrators with local passwords and a user of the directory who *)
(* changes groups, one of them an administrator's.                         *)
EXTENDS Operators, TLC

CONSTANTS alice, bob, t1, t2, a1

MCUsers == {alice, bob}
MCAccounts == {alice}
MCThreads == {t1, t2}
MCAddresses == {a1}
MCRoles == {"admin", "auditor"}
MCGroups == [r \in MCRoles |-> {r}]
MCRoleOrder == <<"admin", "auditor">>
MCMemberships == [u \in MCUsers |-> IF u = alice THEN {} ELSE {{"admin", "auditor"}, {"auditor"}}]
ThreadSymmetry == Permutations(MCThreads)
=============================================================================
