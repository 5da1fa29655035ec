--------------------------- MODULE MCServiceControl ---------------------------
(* Instances of ServiceControl for TLC. *)
EXTENDS ServiceControl, TLC

CONSTANTS owner, admin, app, core

UserPair == {owner, admin}
Grants == [k \in IdentityKinds |-> IF k = "adminUserIds" THEN {admin} ELSE {}]

\* Nothing tells the threads that change the policy apart.
ChangersAlike == Permutations(Changers)
=============================================================================
