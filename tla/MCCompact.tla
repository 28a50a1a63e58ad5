------------------------------ MODULE MCCompact ------------------------------
(* Instances of Compact for TLC. *)
EXTENDS Compact, TLC

CONSTANTS tiny, dense, loose, odd, p1, p2, none

MCPayload == {tiny, dense, loose, odd}

\* loose shrinks; dense does not; odd shrinks but does not come back; tiny is
\* below the threshold.
MCSizeOf ==
    [x \in Payload |-> CASE x = tiny -> 1 [] x = dense -> 2
                         [] x = loose -> 4 [] x = odd -> 3]
MCZstdSizeOf == [x \in Payload |-> IF x \in {tiny, dense} THEN 2 ELSE 1]

\* Two generations of one session; the later one begins at an earlier seq.
MCKeys == {<<1, 0, 1>>, <<1, 1, 0>>}
==============================================================================
