---------------------------- MODULE MCJsonlIngest ----------------------------
(* Instances of JsonlIngest for TLC. *)
EXTENDS JsonlIngest, TLC

CONSTANTS p1, p2, s1, s2

\* One file, one session.
OneId == (p1 :> s1)
OneParent == (p1 :> NoSession)
OneOrder == (p1 :> 1)

\* A session and its sidechain; the sidechain's path sorts first.
FamilyId == (p1 :> s1) @@ (p2 :> s2)
FamilyParent == (p1 :> NoSession) @@ (p2 :> s1)
FamilyOrder == (p1 :> 2) @@ (p2 :> 1)

LineSymmetry == Permutations(Good)
==============================================================================
