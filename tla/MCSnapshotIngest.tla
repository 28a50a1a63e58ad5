--------------------------- MODULE MCSnapshotIngest ---------------------------
(* Instances of SnapshotIngest for TLC: a session with a message and a part of *)
(* equal creation time, and its child session, whose id sorts first.           *)
EXTENDS SnapshotIngest, TLC

CONSTANTS main, child, message, part

FamilyParent == (main :> NoSession) @@ (child :> main)
FamilySession == (message :> main) @@ (part :> main)
FamilyRank == (message :> 1) @@ (part :> 2)
FamilyCreated == (main :> 1) @@ (child :> 1) @@ (message :> 2) @@ (part :> 2)
FamilyOrder == (main :> 2) @@ (child :> 1) @@ (message :> 2) @@ (part :> 1)
==============================================================================
