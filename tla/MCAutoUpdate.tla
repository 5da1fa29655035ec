----------------------------- MODULE MCAutoUpdate -----------------------------
(* Instances of AutoUpdate for TLC. *)
EXTENDS AutoUpdate

TheOwner == {Owner}
NoGrants == [k \in IdentityKinds |-> {}]
ThreeSorts == [v \in Versions |-> <<"full", "hotfix", "full">>[v]]
=============================================================================
