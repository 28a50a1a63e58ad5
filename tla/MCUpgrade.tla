------------------------------ MODULE MCUpgrade ------------------------------
(* Instances of Upgrade for TLC: two releases, ten migrations apart.         *)
EXTENDS Upgrade, TLC

Schemas == (1 :> 3) @@ (2 :> 13)
==============================================================================
