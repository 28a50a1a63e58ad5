------------------------------- MODULE Journal -------------------------------
(***************************************************************************)
(* What the ingest core promises, whatever the schedule of writers, runs   *)
(* and crashes: each session is a list of generations, each generation a   *)
(* list of lines.  Only the last generation grows, only at its end; none   *)
(* is ever removed; and every generation is the beginning of one version   *)
(* that a source file really had, never a mixture of two.                  *)
(***************************************************************************)
EXTENDS Integers, Sequences

CONSTANTS Sessions, Line

VARIABLES
    versions,  \* session -> the line lists its source has had
    journal    \* session -> its generations, oldest first

Begins(short, long) ==
    Len(short) <= Len(long) /\ SubSeq(long, 1, Len(short)) = short

\* An empty generation needs no version.
Genuine(s, lines) == lines = <<>> \/ \E v \in versions[s] : Begins(lines, v)

Init ==
    /\ versions = [s \in Sessions |-> {}]
    /\ journal = [s \in Sessions |-> << <<>> >>]

\* A source gains a version.
SourceChanges(s) ==
    /\ versions[s] \subseteq versions'[s]
    /\ \A t \in Sessions \ {s} : versions'[t] = versions[t]
    /\ UNCHANGED journal

\* The last generation grows at its end.
Extend(s) ==
    LET g == Len(journal[s]) IN
    /\ UNCHANGED versions
    /\ Len(journal'[s]) = g
    /\ Begins(journal[s][g], journal'[s][g])
    /\ Genuine(s, journal'[s][g])
    /\ journal' = [journal EXCEPT ![s][g] = journal'[s][g]]

\* A new generation opens; the earlier ones stay as they are.
Supersede(s) ==
    LET g == Len(journal[s]) + 1 IN
    /\ UNCHANGED versions
    /\ Len(journal'[s]) = g
    /\ Genuine(s, journal'[s][g])
    /\ journal' = [journal EXCEPT ![s] = Append(@, journal'[s][g])]

Next == \E s \in Sessions : SourceChanges(s) \/ Extend(s) \/ Supersede(s)

Spec == Init /\ [][Next]_<<versions, journal>>
==============================================================================
