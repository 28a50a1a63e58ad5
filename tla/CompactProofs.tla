---------------------------- MODULE CompactProofs ----------------------------
(* Proofs about Compact, for every set of keys, payloads and commands. *)
EXTENDS Compact, FiniteSetTheorems, WellFoundedInduction, TLAPS

\* What a batch is about to write for a key is the payload of its row, and zstd
\* gives it back.
UpdatesOK ==
    \A p \in Procs : \A k \in DOMAIN updates[p] :
        /\ k \in DOMAIN events
        /\ updates[p][k] = events[k].of
        /\ updates[p][k] \in RoundTrips

\* A key counted as converted has its row encoded by zstd.
CountedOK ==
    /\ counted \in [Keys -> {0, 1}]
    /\ \A k \in Keys : counted[k] = 1 =>
          k \in DOMAIN events /\ events[k].codec = "zstd"

EventsOK == DOMAIN events \subseteq Keys /\ events \in [DOMAIN events -> Row]
UpdatesType == updates = [p \in Procs |-> updates[p]]

IInv == EventsOK /\ UpdatesType /\ UpdatesOK /\ CountedOK

------------------------------------------------------------------------------
LEMMA EncodedRow ==
    ASSUME NEW x \in Payload
    PROVE  Encoded(x) \in Row /\ Encoded(x).of = x
BY DEF Encoded, Row

LEMMA InitInvariant == Init => IInv
<1> SUFFICES ASSUME Init PROVE IInv
  OBVIOUS
<1>1. PICK K \in SUBSET Keys : \E x \in [K -> Payload] : \E legacy \in SUBSET K :
         events = [k \in K |-> IF k \in legacy THEN [codec |-> "raw", of |-> x[k]]
                               ELSE Encoded(x[k])]
  BY DEF Init
<1>2. PICK x \in [K -> Payload] : \E legacy \in SUBSET K :
         events = [k \in K |-> IF k \in legacy THEN [codec |-> "raw", of |-> x[k]]
                               ELSE Encoded(x[k])]
  BY <1>1
<1>3. PICK legacy \in SUBSET K :
         events = [k \in K |-> IF k \in legacy THEN [codec |-> "raw", of |-> x[k]]
                               ELSE Encoded(x[k])]
  BY <1>2
<1>4. ASSUME NEW k \in K
      PROVE  events[k] \in Row
  <2>1. CASE k \in legacy
    BY <1>3, <2>1 DEF Row
  <2>2. CASE k \notin legacy
    BY <1>3, <2>2, EncodedRow
  <2> QED
    BY <2>1, <2>2
<1>5. EventsOK
  BY <1>3, <1>4 DEF EventsOK
<1>6. UpdatesType /\ UpdatesOK
  BY DEF Init, UpdatesType, UpdatesOK
<1>7. CountedOK
  BY DEF Init, CountedOK
<1> QED
  BY <1>5, <1>6, <1>7 DEF IInv

\* A step that leaves the events and the counts alone, and whose updates stay
\* as they are or are forgotten.
LEMMA QuietStep ==
    ASSUME IInv, NEW p \in Procs, UNCHANGED <<events, counted>>,
           updates' = updates \/ updates' = [updates EXCEPT ![p] = << >>]
    PROVE  IInv'
<1>1. EventsOK' /\ CountedOK'
  BY DEF IInv, EventsOK, CountedOK
<1>2. CASE updates' = updates
  BY <1>1, <1>2 DEF IInv, UpdatesType, UpdatesOK
<1>3. CASE updates' = [updates EXCEPT ![p] = << >>]
  <2>1. UpdatesType'
    BY <1>3 DEF IInv, UpdatesType
  <2>2. ASSUME NEW q \in Procs, NEW k \in DOMAIN updates'[q]
        PROVE  k \in DOMAIN updates[q] /\ updates'[q][k] = updates[q][k]
    <3>1. CASE q = p
      <4>1. updates'[q] = << >>
        BY <1>3, <3>1 DEF IInv, UpdatesType
      <4> QED
        BY <2>2, <4>1
    <3>2. CASE q # p
      BY <1>3, <2>2, <3>2 DEF IInv, UpdatesType
    <3> QED
      BY <3>1, <3>2
  <2>3. UpdatesOK'
    BY <2>2 DEF IInv, UpdatesOK
  <2> QED
    BY <1>1, <2>1, <2>3 DEF IInv
<1> QED
  BY <1>2, <1>3, <1>1

\* The plan of a page is made of rows that are there.
LEMMA ScanStep ==
    ASSUME IInv, NEW p \in Procs, Scan(p)
    PROVE  IInv'
<1> DEFINE page == FirstOf(Candidates(events, cursor[p]))
           todo == {k \in page : Plan(events[k].of) = "compact"}
           new == IF mode[p] = "dry" THEN << >> ELSE [k \in todo |-> events[k].of]
<1>1. UNCHANGED <<events, counted>> /\ updates' = [updates EXCEPT ![p] = new]
  BY DEF Scan
<1>2. EventsOK' /\ CountedOK'
  BY <1>1 DEF IInv, EventsOK, CountedOK
<1>3. \A k \in todo : k \in DOMAIN events /\ events[k].of \in RoundTrips
  BY DEF FirstOf, Candidates, Plan
<1> HIDE DEF page, todo
<1>4. \A k \in DOMAIN new : k \in DOMAIN events /\ new[k] = events[k].of
                            /\ new[k] \in RoundTrips
  BY <1>3
<1> HIDE DEF new
<1>5. UpdatesType'
  BY <1>1 DEF IInv, UpdatesType
<1>6. ASSUME NEW q \in Procs, NEW k \in DOMAIN updates'[q]
      PROVE  /\ k \in DOMAIN events' /\ updates'[q][k] = events'[k].of
             /\ updates'[q][k] \in RoundTrips
  <2>1. CASE q = p
    <3>1. updates'[q] = new
      BY <1>1, <2>1 DEF IInv, UpdatesType
    <3> QED
      BY <1>1, <1>4, <1>6, <3>1
  <2>2. CASE q # p
    <3>1. updates'[q] = updates[q]
      BY <1>1, <2>2 DEF IInv, UpdatesType
    <3> QED
      BY <1>1, <1>6, <3>1 DEF IInv, UpdatesOK
  <2> QED
    BY <2>1, <2>2
<1>7. UpdatesOK'
  BY <1>6 DEF UpdatesOK
<1> QED
  BY <1>2, <1>5, <1>7 DEF IInv

\* What the transaction of a batch does to a row.
LEMMA ApplyRows ==
    ASSUME IInv, NEW p \in Procs, Apply(p)
    PROVE  /\ DOMAIN events' = DOMAIN events
           /\ \A k \in DOMAIN events :
                 \/ events'[k] = events[k] /\ counted'[k] = counted[k]
                 \/ /\ events[k].codec = "raw" /\ events[k].of \in RoundTrips
                    /\ events'[k] = [codec |-> "zstd", of |-> events[k].of]
                    /\ counted'[k] = counted[k] + 1
           /\ \A k \in Keys \ DOMAIN events : counted'[k] = counted[k]
<1> DEFINE done == Updated(events, updates[p])
<1>1. /\ events' = [k \in DOMAIN events |->
            IF k \in done THEN [codec |-> "zstd", of |-> updates[p][k]] ELSE events[k]]
      /\ counted' = [k \in Keys |-> IF k \in done THEN counted[k] + 1 ELSE counted[k]]
  BY DEF Apply
<1>2. \A k \in done : /\ k \in DOMAIN events /\ events[k].codec = "raw"
                      /\ updates[p][k] = events[k].of /\ events[k].of \in RoundTrips
  BY DEF Updated, IInv, UpdatesOK
<1> HIDE DEF done
<1>3. DOMAIN events \subseteq Keys
  BY DEF IInv, EventsOK
<1>4. ASSUME NEW k \in DOMAIN events
      PROVE  \/ events'[k] = events[k] /\ counted'[k] = counted[k]
             \/ /\ events[k].codec = "raw" /\ events[k].of \in RoundTrips
                /\ events'[k] = [codec |-> "zstd", of |-> events[k].of]
                /\ counted'[k] = counted[k] + 1
  BY <1>1, <1>2, <1>3
<1>5. ASSUME NEW k \in Keys \ DOMAIN events
      PROVE  counted'[k] = counted[k]
  BY <1>1, <1>2
<1> QED
  BY <1>1, <1>4, <1>5

LEMMA ApplyStep ==
    ASSUME IInv, NEW p \in Procs, Apply(p)
    PROVE  IInv'
<1>1. EventsOK'
  <2>1. events' = [k \in DOMAIN events' |-> events'[k]]
    BY DEF Apply
  <2>2. ASSUME NEW k \in DOMAIN events
        PROVE  events'[k] \in Row
    <3>1. events[k] \in Row /\ events[k].of \in Payload
      BY DEF IInv, EventsOK, Row
    <3>2. [codec |-> "zstd", of |-> events[k].of] \in Row
      BY <3>1 DEF Row
    <3>3. events'[k] = events[k] \/ events'[k] = [codec |-> "zstd", of |-> events[k].of]
      BY ApplyRows
    <3> QED
      BY <3>1, <3>2, <3>3
  <2> QED
    BY <2>1, <2>2, ApplyRows DEF IInv, EventsOK
<1>2. UpdatesType' /\ \A q \in Procs : updates'[q] = updates[q] \/ updates'[q] = << >>
  BY DEF Apply, IInv, UpdatesType
<1>3. ASSUME NEW k \in DOMAIN events
      PROVE  k \in DOMAIN events' /\ events'[k].of = events[k].of
  <2>1. events'[k] = events[k] \/ events'[k] = [codec |-> "zstd", of |-> events[k].of]
    BY ApplyRows
  <2> QED
    BY <2>1, ApplyRows
<1>4. UpdatesOK'
  <2> SUFFICES ASSUME NEW q \in Procs, NEW k \in DOMAIN updates'[q]
               PROVE  /\ k \in DOMAIN events' /\ updates'[q][k] = events'[k].of
                      /\ updates'[q][k] \in RoundTrips
    BY DEF UpdatesOK
  <2>1. k \in DOMAIN updates[q] /\ updates'[q][k] = updates[q][k]
    BY <1>2
  <2> QED
    BY <1>3, <2>1 DEF IInv, UpdatesOK
<1>5. CountedOK'
  <2>1. ASSUME NEW k \in Keys
        PROVE  /\ counted'[k] \in {0, 1}
               /\ counted'[k] = 1 => k \in DOMAIN events' /\ events'[k].codec = "zstd"
    <3>1. CASE k \in DOMAIN events
      <4>1. CASE events'[k] = events[k] /\ counted'[k] = counted[k]
        BY <1>3, <3>1, <4>1 DEF IInv, CountedOK
      <4>2. CASE /\ events[k].codec = "raw"
                 /\ events'[k] = [codec |-> "zstd", of |-> events[k].of]
                 /\ counted'[k] = counted[k] + 1
        <5>1. counted[k] = 0
          BY <4>2 DEF IInv, CountedOK
        <5> QED
          BY <1>3, <3>1, <4>2, <5>1
      <4> QED
        BY <3>1, <4>1, <4>2, ApplyRows
    <3>2. CASE k \notin DOMAIN events
      BY <3>2, ApplyRows DEF IInv, CountedOK
    <3> QED
      BY <3>1, <3>2
  <2>2. counted' = [k \in Keys |-> counted'[k]]
    BY DEF Apply
  <2> QED
    BY <2>1, <2>2 DEF CountedOK
<1> QED
  BY <1>1, <1>2, <1>4, <1>5 DEF IInv

LEMMA InsertStep ==
    ASSUME IInv, NEW k \in Keys, NEW x \in Payload, Insert(k, x)
    PROVE  /\ IInv'
           /\ \A j \in DOMAIN events : j \in DOMAIN events' /\ events'[j] = events[j]
<1>1. /\ events' = [j \in DOMAIN events \cup {k} |->
                       IF j = k THEN Encoded(x) ELSE events[j]]
      /\ k \notin DOMAIN events /\ UNCHANGED <<updates, counted>>
  BY DEF Insert, local
<1>2. \A j \in DOMAIN events : j \in DOMAIN events' /\ events'[j] = events[j]
  BY <1>1
<1>3. EventsOK'
  BY <1>1, EncodedRow DEF IInv, EventsOK
<1>4. UpdatesType' /\ UpdatesOK' /\ CountedOK'
  BY <1>1, <1>2 DEF IInv, UpdatesType, UpdatesOK, CountedOK
<1> QED
  BY <1>2, <1>3, <1>4 DEF IInv

\* The steps that touch no event.
Quiet(p) ==
    \/ ReadStats(p) \/ CountSmall(p) \/ Finish(p) \/ Leave(p) \/ Fail(p)
    \/ \E m \in {"dry", "apply"} : Begin(p, m)

LEMMA QuietKeeps ==
    ASSUME NEW p \in Procs, Quiet(p)
    PROVE  /\ UNCHANGED <<events, counted>>
           /\ updates' = updates \/ updates' = [updates EXCEPT ![p] = << >>]
BY DEF Quiet, ReadStats, CountSmall, Finish, Leave, Fail, Forget, Begin

LEMMA NextInvariant == IInv /\ [Next]_vars => IInv'
<1> SUFFICES ASSUME IInv, [Next]_vars PROVE IInv'
  OBVIOUS
<1>1. ASSUME NEW p \in Procs, Quiet(p)
      PROVE  IInv'
  BY <1>1, QuietKeeps, QuietStep
<1>2. CASE UNCHANGED vars
  BY <1>2 DEF vars, local, IInv, EventsOK, UpdatesType, UpdatesOK, CountedOK
<1> QED
  BY <1>1, <1>2, ScanStep, ApplyStep, InsertStep DEF Next, Step, Quiet

\* No step changes what a row decodes to.
LEMMA StepKeepsPayloads ==
    ASSUME IInv, [Next]_vars
    PROVE  \A k \in DOMAIN events :
              k \in DOMAIN events' /\ Decode(events'[k]) = Decode(events[k])
<1>1. CASE UNCHANGED events
  BY <1>1
<1>2. ASSUME NEW p \in Procs, Apply(p), NEW k \in DOMAIN events
      PROVE  k \in DOMAIN events' /\ Decode(events'[k]) = Decode(events[k])
  <2>1. CASE events'[k] = events[k]
    BY <1>2, <2>1, ApplyRows
  <2>2. CASE /\ events[k].codec = "raw" /\ events[k].of \in RoundTrips
             /\ events'[k] = [codec |-> "zstd", of |-> events[k].of]
    BY <1>2, <2>2, ApplyRows DEF Decode
  <2> QED
    BY <1>2, <2>1, <2>2, ApplyRows
<1>3. ASSUME NEW p \in Procs, Quiet(p) \/ Scan(p)
      PROVE  UNCHANGED events
  BY <1>3, QuietKeeps DEF Scan
<1>4. ASSUME NEW k \in Keys, NEW x \in Payload, Insert(k, x)
      PROVE  \A j \in DOMAIN events : j \in DOMAIN events' /\ events'[j] = events[j]
  BY <1>4, InsertStep
<1>5. CASE UNCHANGED vars
  BY <1>5 DEF vars
<1> QED
  BY <1>1, <1>2, <1>3, <1>4, <1>5 DEF Next, Step, Quiet

------------------------------------------------------------------------------
LEMMA Invariance == Spec => []IInv
<1> QED
  BY InitInvariant, NextInvariant, PTL DEF Spec

\* Compaction never changes what an event decodes to and never removes one,
\* whatever batches, failures, other compactions and ingest runs come together.
THEOREM NothingGarbled == Spec => PayloadsKept
<1>1. IInv /\ [Next]_vars =>
         [\A k \in DOMAIN events :
             k \in DOMAIN events' /\ Decode(events'[k]) = Decode(events[k])]_vars
  BY StepKeepsPayloads
<1> QED
  BY <1>1, Invariance, PTL DEF Spec, PayloadsKept

\* No event is reported as converted twice, even where the data lock lets two
\* commands in.
THEOREM NobodyCountsTwice == Spec => []CountedOnce
<1>1. IInv => CountedOnce
  BY DEF IInv, CountedOK, CountedOnce
<1> QED
  BY <1>1, Invariance, PTL
------------------------------------------------------------------------------
(* What a page is: the first of the candidates, in the order of the key. *)

LEMMA BeforeIsOrder ==
    ASSUME NEW i \in Keys, NEW j \in Keys, NEW k \in Keys
    PROVE  /\ ~Before(i, i)
           /\ Before(i, j) /\ Before(j, k) => Before(i, k)
           /\ i = j \/ Before(i, j) \/ Before(j, i)
<1>1. PICK a \in Nat, b \in Nat, c \in Nat : i = <<a, b, c>>
  BY KeyAssumption
<1>2. PICK d \in Nat, e \in Nat, f \in Nat : j = <<d, e, f>>
  BY KeyAssumption
<1>3. PICK g \in Nat, h \in Nat, l \in Nat : k = <<g, h, l>>
  BY KeyAssumption
<1> QED
  BY <1>1, <1>2, <1>3 DEF Before

LEMMA LeastNatural ==
    ASSUME NEW T \in SUBSET Nat, T # {}
    PROVE  \E n \in T : \A m \in T : n <= m
<1>1. PICK n \in T : \A m \in T : <<m, n>> \notin OpToRel(<, Nat)
  BY NatLessThanWellFounded, WFMin
<1>2. ASSUME NEW m \in T
      PROVE  n <= m
  <2>1. n \in Nat /\ m \in Nat /\ ~(m < n)
    BY <1>1 DEF OpToRel
  <2> QED
    BY <2>1
<1> QED
  BY <1>2

LEMMA FewerAbove ==
    ASSUME NEW S \in SUBSET Keys, NEW i \in S, NEW k \in S, Before(k, i)
    PROVE  /\ Cardinality({j \in S : Before(i, j)}) \in Nat
           /\ Cardinality({j \in S : Before(k, j)}) \in Nat
           /\ Cardinality({j \in S : Before(i, j)}) < Cardinality({j \in S : Before(k, j)})
<1> DEFINE A == {j \in S : Before(i, j)}
           B == {j \in S : Before(k, j)}
<1>1. A \subseteq B
  BY BeforeIsOrder
<1>2. i \in B /\ i \notin A
  BY BeforeIsOrder
<1>3. IsFiniteSet(B)
  BY KeyAssumption, FS_Subset
<1> HIDE DEF A, B
<1>4. IsFiniteSet(A) /\ Cardinality(A) <= Cardinality(B) /\ Cardinality(A) # Cardinality(B)
  BY <1>1, <1>2, <1>3, FS_Subset
<1>5. Cardinality(A) \in Nat /\ Cardinality(B) \in Nat
  BY <1>3, <1>4, FS_CardinalityType
<1>6. Cardinality(A) < Cardinality(B)
  BY <1>4, <1>5
<1> QED
  BY <1>5, <1>6 DEF A, B

\* A page has a last key, and LastOf is that key.
LEMMA LastIsLast ==
    ASSUME NEW S \in SUBSET Keys, S # {}
    PROVE  /\ LastOf(S) \in S
           /\ \A j \in S : j = LastOf(S) \/ Before(j, LastOf(S))
<1> DEFINE above(k) == Cardinality({j \in S : Before(k, j)})
           T == {above(k) : k \in S}
<1>1. T \in SUBSET Nat /\ T # {}
  <2>1. ASSUME NEW k \in S
        PROVE  IsFiniteSet({j \in S : Before(k, j)})
    BY KeyAssumption, FS_Subset
  <2>2. \A k \in S : above(k) \in Nat
    BY <2>1, FS_CardinalityType
  <2> QED
    BY <2>2
<1>2. PICK n \in T : \A m \in T : n <= m
  BY <1>1, LeastNatural
<1>3. PICK k \in S : n = above(k)
  BY <1>2
<1>4. ASSUME NEW j \in S
      PROVE  j = k \/ Before(j, k)
  <2>1. ~Before(k, j)
    <3> SUFFICES ASSUME Before(k, j) PROVE FALSE
      OBVIOUS
    <3>1. above(j) < above(k) /\ above(j) \in Nat /\ above(k) \in Nat
      BY FewerAbove
    <3>2. above(k) <= above(j)
      BY <1>2, <1>3
    <3> HIDE DEF above
    <3> QED
      BY <3>1, <3>2
  <2> QED
    BY <2>1, BeforeIsOrder
<1> QED
  BY <1>4 DEF LastOf

\* What a page leaves out comes after its last key.
LEMMA PagesAreInOrder ==
    ASSUME NEW S \in SUBSET Keys, FirstOf(S) # {}
    PROVE  /\ LastOf(FirstOf(S)) \in FirstOf(S)
           /\ \A k \in S \ FirstOf(S) : Before(LastOf(FirstOf(S)), k)
<1> DEFINE below(k) == {j \in S : Before(j, k)}
           l == LastOf(FirstOf(S))
<1>1. FirstOf(S) \in SUBSET Keys
  BY DEF FirstOf
<1>2. l \in FirstOf(S)
  BY <1>1, LastIsLast
<1>3. ASSUME NEW k \in S, k \notin FirstOf(S), ~Before(l, k)
      PROVE  FALSE
  <2>1. k \in Keys /\ l \in Keys
    BY <1>1, <1>2
  <2>2. k = l \/ Before(k, l)
    BY <1>3, <2>1, BeforeIsOrder
  <2>3. below(k) \subseteq below(l)
    BY <2>1, <2>2, BeforeIsOrder
  <2>4. Cardinality(below(l)) < BatchSize /\ ~(Cardinality(below(k)) < BatchSize)
    BY <1>2, <1>3 DEF FirstOf
  <2>5. IsFiniteSet(below(l))
    BY KeyAssumption, FS_Subset
  <2> HIDE DEF below
  <2>6. IsFiniteSet(below(k)) /\ Cardinality(below(k)) <= Cardinality(below(l))
    BY <2>3, <2>5, FS_Subset
  <2>7. Cardinality(below(k)) \in Nat /\ Cardinality(below(l)) \in Nat
    BY <2>5, <2>6, FS_CardinalityType
  <2> QED
    BY <2>4, <2>6, <2>7, CompactBoundAssumption
<1> QED
  BY <1>2, <1>3
------------------------------------------------------------------------------
(* What an applying command still has before it. *)

LocalType ==
    /\ pc \in [Procs -> {"idle", "stats", "small", "scan", "apply", "done"}]
    /\ mode \in [Procs -> {"dry", "apply"}]
    /\ cursor \in [Procs -> Keys \cup {NoKey}]
    /\ atStart \in [Procs -> SUBSET Keys]

\* What the command found and could still compact comes after its cursor or is
\* in the batch it is about to apply.
Ahead(p) ==
    /\ atStart[p] \subseteq DOMAIN events
    /\ pc[p] \in {"idle", "stats", "small"} => cursor[p] = NoKey
    /\ pc[p] = "idle" => atStart[p] = {}
    /\ mode[p] = "apply" => \A k \in LeftOver(p) :
          \/ pc[p] # "done" /\ (cursor[p] = NoKey \/ Before(cursor[p], k))
          \/ pc[p] = "apply" /\ k \in DOMAIN updates[p]

AheadInv == LocalType /\ \A p \in Procs : Ahead(p)

LEMMA InitAhead == Init => AheadInv
BY DEF Init, AheadInv, LocalType, Ahead, LeftOver

\* Rows are never removed and only change to the other codec.
RowsKept ==
    \A k \in DOMAIN events : /\ k \in DOMAIN events'
                             /\ events'[k] = events[k] \/ events'[k].codec = "zstd"

LEMMA StepKeepsRows ==
    ASSUME IInv, [Next]_vars
    PROVE  RowsKept
<1>1. CASE UNCHANGED events
  BY <1>1 DEF RowsKept
<1>2. ASSUME NEW p \in Procs, Apply(p)
      PROVE  RowsKept
  <2>1. ASSUME NEW k \in DOMAIN events
        PROVE  k \in DOMAIN events' /\ (events'[k] = events[k] \/ events'[k].codec = "zstd")
    <3>1. CASE events'[k] = events[k]
      BY <1>2, <3>1, ApplyRows
    <3>2. CASE events'[k] = [codec |-> "zstd", of |-> events[k].of]
      BY <1>2, <3>2, ApplyRows
    <3> QED
      BY <1>2, <3>1, <3>2, ApplyRows
  <2> QED
    BY <2>1 DEF RowsKept
<1>3. ASSUME NEW p \in Procs, Quiet(p) \/ Scan(p)
      PROVE  RowsKept
  BY <1>1, <1>3, QuietKeeps DEF Scan
<1>4. ASSUME NEW k \in Keys, NEW x \in Payload, Insert(k, x)
      PROVE  RowsKept
  BY <1>4, InsertStep DEF RowsKept
<1>5. CASE UNCHANGED vars
  BY <1>1, <1>5 DEF vars
<1>6. ASSUME NEW p \in Procs, Step(p) \/ Fail(p) \/ \E m \in {"dry", "apply"} : Begin(p, m)
      PROVE  RowsKept
  BY <1>2, <1>3, <1>6 DEF Step, Quiet
<1> QED
  BY <1>4, <1>5, <1>6 DEF Next

\* A command that takes no step keeps what it has before it, whoever else does.
LEMMA OthersKeep ==
    ASSUME NEW q \in Procs, Ahead(q), RowsKept,
           pc'[q] = pc[q], mode'[q] = mode[q], cursor'[q] = cursor[q],
           atStart'[q] = atStart[q], updates'[q] = updates[q]
    PROVE  Ahead(q)'
<1>1. atStart[q] \subseteq DOMAIN events
  BY DEF Ahead
<1>2. \A k \in atStart[q] : k \in DOMAIN events'
                            /\ (events'[k] = events[k] \/ events'[k].codec = "zstd")
  BY <1>1 DEF RowsKept
<1>3. LeftOver(q)' \subseteq LeftOver(q)
  BY <1>2 DEF LeftOver
<1>4. (atStart[q] \subseteq DOMAIN events)'
  BY <1>2
<1>5. ASSUME mode'[q] = "apply", NEW k \in LeftOver(q)'
      PROVE  (\/ pc[q] # "done" /\ (cursor[q] = NoKey \/ Before(cursor[q], k))
              \/ pc[q] = "apply" /\ k \in DOMAIN updates[q])'
  <2>1. \/ pc[q] # "done" /\ (cursor[q] = NoKey \/ Before(cursor[q], k))
        \/ pc[q] = "apply" /\ k \in DOMAIN updates[q]
    BY <1>3, <1>5 DEF Ahead
  <2> QED
    BY <2>1 DEF Before
<1>6. (pc[q] \in {"idle", "stats", "small"} => cursor[q] = NoKey)'
      /\ (pc[q] = "idle" => atStart[q] = {})'
  BY DEF Ahead
<1> QED
  BY <1>4, <1>5, <1>6 DEF Ahead

\* A command's own steps.
LEMMA ForgetAhead ==
    ASSUME AheadInv, NEW p \in Procs, Forget(p)
    PROVE  Ahead(p)'
<1>1. pc'[p] = "idle" /\ mode'[p] = "dry" /\ cursor'[p] = NoKey /\ atStart'[p] = {}
  BY DEF Forget, AheadInv, LocalType
<1> QED
  BY <1>1 DEF Ahead

LEMMA BeginAhead ==
    ASSUME AheadInv, NEW p \in Procs, NEW m \in {"dry", "apply"}, Begin(p, m)
    PROVE  Ahead(p)'
<1>1. pc'[p] = "stats" /\ cursor'[p] = NoKey /\ atStart'[p] = DOMAIN events'
  BY DEF Begin, AheadInv, LocalType, Ahead
<1> QED
  BY <1>1 DEF Ahead

LEMMA ReadAhead ==
    ASSUME AheadInv, NEW p \in Procs, ReadStats(p) \/ CountSmall(p)
    PROVE  Ahead(p)'
<1>1. /\ pc'[p] \in {"small", "scan"} /\ cursor'[p] = NoKey
      /\ atStart'[p] = atStart[p] /\ UNCHANGED events
  BY DEF ReadStats, CountSmall, AheadInv, LocalType, Ahead
<1>2. atStart[p] \subseteq DOMAIN events
  BY DEF AheadInv, Ahead
<1> QED
  BY <1>1, <1>2 DEF Ahead

LEMMA FinishAhead ==
    ASSUME AheadInv, NEW p \in Procs, Finish(p)
    PROVE  Ahead(p)'
<1>1. /\ pc'[p] = "done" /\ pc[p] = "scan" /\ Candidates(events, cursor[p]) = {}
      /\ UNCHANGED <<events, mode, cursor, atStart>>
  BY DEF Finish, AheadInv, LocalType
<1>2. /\ atStart[p] \subseteq DOMAIN events
      /\ mode[p] = "apply" => \A k \in LeftOver(p) :
            cursor[p] = NoKey \/ Before(cursor[p], k)
  BY <1>1 DEF AheadInv, Ahead
<1>3. mode[p] = "apply" => LeftOver(p) = {}
  BY <1>1, <1>2 DEF LeftOver, Candidates
<1>4. LeftOver(p)' = LeftOver(p)
  BY <1>1 DEF LeftOver
<1> QED
  BY <1>1, <1>2, <1>3, <1>4 DEF Ahead

\* A page moves the cursor over what it takes, and takes what it moves over.
LEMMA ScanAhead ==
    ASSUME IInv, AheadInv, NEW p \in Procs, Scan(p)
    PROVE  Ahead(p)' /\ cursor'[p] \in Keys
<1> DEFINE all == Candidates(events, cursor[p])
           page == FirstOf(all)
           last == LastOf(page)
<1>1. /\ page # {} /\ pc[p] = "scan" /\ cursor'[p] = last
      /\ UNCHANGED <<events, mode, atStart>>
  BY DEF Scan, AheadInv, LocalType
<1>2. mode[p] = "apply" =>
         /\ pc'[p] = "apply"
         /\ updates'[p] = [k \in {k \in page : Plan(events[k].of) = "compact"}
                              |-> events[k].of]
  BY DEF Scan, AheadInv, LocalType, IInv, UpdatesType
<1>3. pc'[p] \in {"scan", "apply"}
  BY DEF Scan, AheadInv, LocalType
<1>4. all \in SUBSET Keys
  BY DEF Candidates, IInv, EventsOK
<1>5. /\ last \in page
      /\ \A k \in all \ page : Before(last, k)
  BY <1>1, <1>4, PagesAreInOrder
<1>6. last \in Keys
  BY <1>4, <1>5 DEF FirstOf
<1>7. atStart[p] \subseteq DOMAIN events
  BY DEF AheadInv, Ahead
<1>8. ASSUME mode[p] = "apply", NEW k \in LeftOver(p)
      PROVE  Before(last, k) \/ k \in DOMAIN updates'[p]
  <2>1. cursor[p] = NoKey \/ Before(cursor[p], k)
    BY <1>1, <1>8 DEF AheadInv, Ahead
  <2>2. k \in all
    BY <1>7, <2>1 DEF LeftOver, Candidates
  <2>3. Plan(events[k].of) = "compact"
    BY DEF LeftOver
  <2> HIDE DEF all, page, last
  <2> QED
    BY <1>2, <1>5, <1>8, <2>2, <2>3
<1>9. LeftOver(p)' = LeftOver(p)
  BY <1>1 DEF LeftOver
<1> HIDE DEF all, page, last
<1>10. (\A k \in LeftOver(p) : mode[p] = "apply" =>
          Before(cursor[p], k) \/ k \in DOMAIN updates[p])'
  <2>1. ASSUME NEW k \in LeftOver(p)', mode'[p] = "apply"
        PROVE  Before(cursor'[p], k) \/ k \in DOMAIN updates'[p]
    BY <1>1, <1>8, <1>9, <2>1
  <2> QED
    BY <2>1 DEF Before
<1>11. (mode[p] = "apply" => pc[p] = "apply")'
  BY <1>1, <1>2
<1> QED
  BY <1>1, <1>3, <1>6, <1>7, <1>10, <1>11 DEF Ahead

\* The batch is written whole; what a row of it lost meanwhile is no matter.
LEMMA ApplyAhead ==
    ASSUME IInv, AheadInv, NEW p \in Procs, Apply(p)
    PROVE  Ahead(p)'
<1> DEFINE done == Updated(events, updates[p])
<1>1. /\ pc[p] = "apply" /\ pc'[p] = "scan"
      /\ UNCHANGED <<mode, cursor, atStart>>
      /\ events' = [k \in DOMAIN events |->
            IF k \in done THEN [codec |-> "zstd", of |-> updates[p][k]] ELSE events[k]]
  BY DEF Apply, AheadInv, LocalType
<1>2. atStart[p] \subseteq DOMAIN events /\ DOMAIN events' = DOMAIN events
  BY <1>1 DEF AheadInv, Ahead
<1>3. ASSUME mode[p] = "apply", NEW k \in LeftOver(p)'
      PROVE  cursor[p] = NoKey \/ Before(cursor[p], k)
  <2>1. k \in atStart[p] /\ k \in DOMAIN events /\ events'[k].codec = "raw"
    BY <1>1, <1>2 DEF LeftOver
  <2>2. k \notin done /\ events'[k] = events[k]
    BY <1>1, <2>1
  <2>3. k \in LeftOver(p)
    BY <1>1, <2>1, <2>2 DEF LeftOver
  <2>4. k \notin DOMAIN updates[p]
    BY <2>1, <2>2 DEF Updated
  <2> QED
    BY <1>3, <2>3, <2>4 DEF AheadInv, Ahead
<1> HIDE DEF done
<1>4. (\A k \in LeftOver(p) : mode[p] = "apply" =>
          cursor[p] = NoKey \/ Before(cursor[p], k))'
  <2>1. ASSUME NEW k \in LeftOver(p)', mode'[p] = "apply"
        PROVE  cursor'[p] = NoKey \/ Before(cursor'[p], k)
    BY <1>1, <1>3, <2>1
  <2> QED
    BY <2>1 DEF Before
<1> QED
  BY <1>1, <1>2, <1>4 DEF Ahead

LEMMA LocalTypes == IInv /\ AheadInv /\ [Next]_vars => LocalType'
<1> SUFFICES ASSUME IInv, AheadInv, [Next]_vars PROVE LocalType'
  OBVIOUS
<1>1. ASSUME NEW p \in Procs, Scan(p)
      PROVE  LocalType'
  <2>1. cursor'[p] \in Keys /\ cursor' = [cursor EXCEPT ![p] = cursor'[p]]
    BY <1>1, ScanAhead DEF Scan, AheadInv, LocalType
  <2> QED
    BY <1>1, <2>1 DEF Scan, AheadInv, LocalType
<1>2. ASSUME NEW p \in Procs, Leave(p) \/ Fail(p)
      PROVE  LocalType'
  BY <1>2 DEF Leave, Fail, Forget, AheadInv, LocalType
<1>3. ASSUME NEW p \in Procs, NEW m \in {"dry", "apply"}, Begin(p, m)
      PROVE  LocalType'
  BY <1>3 DEF Begin, AheadInv, LocalType, IInv, EventsOK
<1>4. ASSUME NEW p \in Procs, ReadStats(p) \/ CountSmall(p) \/ Apply(p) \/ Finish(p)
      PROVE  LocalType'
  BY <1>4 DEF ReadStats, CountSmall, Apply, Finish, AheadInv, LocalType
<1>5. ASSUME NEW k \in Keys, NEW x \in Payload, Insert(k, x)
      PROVE  LocalType'
  BY <1>5 DEF Insert, local, AheadInv, LocalType
<1>6. CASE UNCHANGED vars
  BY <1>6 DEF vars, local, AheadInv, LocalType
<1> QED
  BY <1>1, <1>2, <1>3, <1>4, <1>5, <1>6 DEF Next, Step

LEMMA NextAhead == IInv /\ AheadInv /\ [Next]_vars => AheadInv'
<1> SUFFICES ASSUME IInv, AheadInv, [Next]_vars PROVE AheadInv'
  OBVIOUS
<1>1. RowsKept /\ LocalType'
  BY StepKeepsRows, LocalTypes
<1>2. ASSUME NEW p \in Procs, Scan(p) \/ Apply(p) \/ Quiet(p), NEW q \in Procs, q # p
      PROVE  Ahead(q)'
  <2>1. /\ pc'[q] = pc[q] /\ mode'[q] = mode[q] /\ cursor'[q] = cursor[q]
        /\ atStart'[q] = atStart[q] /\ updates'[q] = updates[q]
    BY <1>2 DEF Quiet, ReadStats, CountSmall, Scan, Apply, Finish, Leave, Fail, Forget,
                Begin, AheadInv, LocalType, IInv, UpdatesType
  <2> QED
    BY <1>1, <2>1, OthersKeep DEF AheadInv
<1>3. ASSUME NEW p \in Procs, Scan(p) \/ Apply(p) \/ Quiet(p)
      PROVE  Ahead(p)'
  BY <1>3, ScanAhead, ApplyAhead, ForgetAhead, BeginAhead, ReadAhead, FinishAhead
     DEF Quiet, Leave, Fail
<1>4. ASSUME UNCHANGED local, UNCHANGED atStart, NEW q \in Procs
      PROVE  Ahead(q)'
  BY <1>1, <1>4, OthersKeep DEF local, AheadInv
<1>5. ASSUME NEW p \in Procs, Scan(p) \/ Apply(p) \/ Quiet(p)
      PROVE  AheadInv'
  BY <1>1, <1>2, <1>3, <1>5 DEF AheadInv
<1>6. CASE UNCHANGED local /\ UNCHANGED atStart
  BY <1>1, <1>4, <1>6 DEF AheadInv
<1> QED
  BY <1>5, <1>6 DEF Next, Step, Quiet, Insert, vars

\* A run that applies and ends has left nothing of what it found, also when an
\* earlier one failed half-way, and although its pages lose rows to other
\* commands and the table gains rows behind and before its cursor.
THEOREM LeavesNothing == Spec => []NothingLeftOver
<1>1. IInv /\ AheadInv => NothingLeftOver
  BY DEF AheadInv, Ahead, NothingLeftOver
<1> QED
  BY <1>1, Invariance, InitAhead, NextAhead, PTL DEF Spec

------------------------------------------------------------------------------
(* Sums over finite sets.  A sum of lengths is the number of places there are  *)
(* in all, which is what the facts about it are derived from.                  *)

\* Induction over the subsets of a finite set, by the size of the smallest one
\* that is not good.
LEMMA SetInduction ==
    ASSUME NEW S, IsFiniteSet(S), NEW Good, {} \in Good,
           \A T \in SUBSET S : T # {} /\ (\A x \in T : T \ {x} \in Good) => T \in Good
    PROVE  \A T \in SUBSET S : T \in Good
<1> SUFFICES ASSUME NEW U \in SUBSET S, U \notin Good PROVE FALSE
  OBVIOUS
<1> DEFINE Bad == {T \in SUBSET S : T \notin Good}
           Sizes == {Cardinality(T) : T \in Bad}
<1>1. \A T \in SUBSET S : IsFiniteSet(T) /\ Cardinality(T) \in Nat
  BY FS_Subset, FS_CardinalityType
<1>2. Sizes \in SUBSET Nat /\ Sizes # {}
  BY <1>1
<1>3. PICK n \in Sizes : \A m \in Sizes : n <= m
  BY <1>2, LeastNatural
<1>4. PICK T \in Bad : n = Cardinality(T)
  BY <1>3
<1>5. PICK x \in T : T \ {x} \notin Good
  BY <1>4
<1>6. T \ {x} \in Bad
  BY <1>4, <1>5
<1>7. Cardinality(T \ {x}) = Cardinality(T) - 1
  BY <1>1, <1>4, FS_RemoveElement
<1>8. Cardinality(T) <= Cardinality(T \ {x}) /\ Cardinality(T) \in Nat
  BY <1>1, <1>3, <1>4, <1>6
<1> QED
  BY <1>7, <1>8

LEMMA DisjointUnion ==
    ASSUME NEW A, NEW B, IsFiniteSet(A), IsFiniteSet(B), A \cap B = {}
    PROVE  /\ IsFiniteSet(A \cup B)
           /\ Cardinality(A \cup B) = Cardinality(A) + Cardinality(B)
           /\ Cardinality(A) \in Nat /\ Cardinality(B) \in Nat
<1>1. /\ IsFiniteSet(A \cup B)
      /\ Cardinality(A \cup B) = Cardinality(A) + Cardinality(B) - Cardinality(A \cap B)
  BY FS_Union
<1>2. Cardinality(A \cap B) = 0
  BY FS_EmptySet
<1>3. Cardinality(A) \in Nat /\ Cardinality(B) \in Nat
  BY FS_CardinalityType
<1>4. Cardinality(A \cup B) = Cardinality(A) + Cardinality(B) - 0
  BY <1>1, <1>2
<1> QED
  BY <1>1, <1>3, <1>4

\* The places of one key and of several.
Places(w, k) == {k} \X (1 .. w[k])
PlacesOf(w, S) == UNION {Places(w, k) : k \in S}

LEMMA PlacesOfOne ==
    ASSUME NEW w, NEW k, w[k] \in Nat
    PROVE  IsFiniteSet(Places(w, k)) /\ Cardinality(Places(w, k)) = w[k]
<1>1. IsFiniteSet({k}) /\ Cardinality({k}) = 1
  BY FS_Singleton
<1>2. IsFiniteSet(1 .. w[k]) /\ Cardinality(1 .. w[k]) = w[k]
  BY FS_Interval
<1>3. /\ IsFiniteSet({k} \X (1 .. w[k]))
      /\ Cardinality({k} \X (1 .. w[k])) = Cardinality({k}) * Cardinality(1 .. w[k])
  BY <1>1, <1>2, FS_Product
<1> QED
  BY <1>1, <1>2, <1>3 DEF Places

LEMMA PlacesAreFinite ==
    ASSUME NEW S, IsFiniteSet(S), NEW w, \A k \in S : w[k] \in Nat
    PROVE  IsFiniteSet(PlacesOf(w, S)) /\ Cardinality(PlacesOf(w, S)) \in Nat
<1> DEFINE P == {Places(w, k) : k \in S}
<1>1. IsFiniteSet(P)
  <2> DEFINE f == [k \in S |-> Places(w, k)]
  <2>1. f \in Surjection(S, P)
    BY DEF Surjection
  <2> QED
    BY <2>1, FS_Surjection
<1>2. \A Q \in P : IsFiniteSet(Q)
  BY PlacesOfOne
<1> HIDE DEF P
<1>3. IsFiniteSet(UNION P)
  BY <1>1, <1>2, FS_UNION
<1> QED
  BY <1>3, FS_CardinalityType DEF P, PlacesOf

\* Disjoint sets have disjoint places.
LEMMA PlacesSplit ==
    ASSUME NEW A, NEW B, IsFiniteSet(A), IsFiniteSet(B), A \cap B = {}, NEW w,
           \A k \in A \cup B : w[k] \in Nat
    PROVE  Cardinality(PlacesOf(w, A \cup B))
             = Cardinality(PlacesOf(w, A)) + Cardinality(PlacesOf(w, B))
<1>1. PlacesOf(w, A \cup B) = PlacesOf(w, A) \cup PlacesOf(w, B)
  BY DEF PlacesOf
<1>2. PlacesOf(w, A) \cap PlacesOf(w, B) = {}
  BY DEF PlacesOf, Places
<1>3. IsFiniteSet(PlacesOf(w, A)) /\ IsFiniteSet(PlacesOf(w, B))
  BY PlacesAreFinite
<1> QED
  BY <1>1, <1>2, <1>3, DisjointUnion

LEMMA PlacesOfTheRest ==
    ASSUME NEW S, IsFiniteSet(S), NEW w, \A k \in S : w[k] \in Nat, NEW x \in S
    PROVE  Cardinality(PlacesOf(w, S)) = w[x] + Cardinality(PlacesOf(w, S \ {x}))
<1>1. IsFiniteSet({x}) /\ IsFiniteSet(S \ {x}) /\ {x} \cup (S \ {x}) = S
  BY FS_Singleton, FS_Subset
<1>2. PlacesOf(w, {x}) = Places(w, x)
  BY DEF PlacesOf
<1>3. Cardinality(PlacesOf(w, S))
        = Cardinality(PlacesOf(w, {x})) + Cardinality(PlacesOf(w, S \ {x}))
  BY <1>1, PlacesSplit
<1> QED
  BY <1>2, <1>3, PlacesOfOne

\* The recursion by which the library defines a sum.
Chosen(S) == CHOOSE x \in S : TRUE
Recursion(w, S, g) ==
    g = [T \in SUBSET S |-> IF T = {} THEN 0 ELSE w[Chosen(T)] + g[T \ {Chosen(T)}]]

LEMMA SumUnfolds ==
    ASSUME NEW w, NEW S
    PROVE  SumFunctionOnSet(w, S) = (CHOOSE g : Recursion(w, S, g))[S]
BY DEF SumFunctionOnSet, FoldFunctionOnSet, MapThenFoldSet, Recursion, Chosen

LEMMA SumIsPlaces ==
    ASSUME NEW S, IsFiniteSet(S), NEW w, \A k \in S : w[k] \in Nat
    PROVE  SumFunctionOnSet(w, S) = Cardinality(PlacesOf(w, S))
<1> DEFINE size(T) == Cardinality(PlacesOf(w, T))
           h == [T \in SUBSET S |-> size(T)]
           g == CHOOSE g : Recursion(w, S, g)
<1>1. \A T \in SUBSET S : T # {} =>
         Chosen(T) \in T /\ size(T) = w[Chosen(T)] + size(T \ {Chosen(T)})
  <2> SUFFICES ASSUME NEW T \in SUBSET S, T # {}
               PROVE  Chosen(T) \in T /\ size(T) = w[Chosen(T)] + size(T \ {Chosen(T)})
    OBVIOUS
  <2>1. Chosen(T) \in T /\ IsFiniteSet(T)
    BY FS_Subset DEF Chosen
  <2> QED
    BY <2>1, PlacesOfTheRest
<1>2. size({}) = 0
  BY FS_EmptySet DEF PlacesOf
<1> HIDE DEF size
<1>3. Recursion(w, S, h)
  <2>1. ASSUME NEW T \in SUBSET S
        PROVE  h[T] = IF T = {} THEN 0 ELSE w[Chosen(T)] + h[T \ {Chosen(T)}]
    BY <1>1, <1>2
  <2> HIDE DEF h
  <2>2. h = [T \in SUBSET S |-> IF T = {} THEN 0 ELSE w[Chosen(T)] + h[T \ {Chosen(T)}]]
    BY <2>1 DEF h
  <2> QED
    BY <2>2 DEF Recursion
<1>4. Recursion(w, S, g)
  BY <1>3
<1> HIDE DEF g, h
<1> DEFINE Good == {T \in SUBSET S : g[T] = size(T)}
<1>5. {} \in Good
  BY <1>2, <1>4 DEF Recursion
<1>6. ASSUME NEW T \in SUBSET S, T # {}, \A x \in T : T \ {x} \in Good
      PROVE  T \in Good
  <2>1. Chosen(T) \in T /\ size(T) = w[Chosen(T)] + size(T \ {Chosen(T)})
    BY <1>1, <1>6
  <2>2. g[T \ {Chosen(T)}] = size(T \ {Chosen(T)})
    BY <1>6, <2>1
  <2>3. g[T] = w[Chosen(T)] + g[T \ {Chosen(T)}]
    BY <1>4, <1>6 DEF Recursion
  <2> QED
    BY <2>1, <2>2, <2>3
<1> HIDE DEF Good
<1>7. \A T \in SUBSET S : T # {} /\ (\A x \in T : T \ {x} \in Good) => T \in Good
  BY <1>6
<1>8. \A T \in SUBSET S : T \in Good
  BY <1>5, <1>7, SetInduction
<1> QED
  BY <1>8, SumUnfolds DEF g, size, Good

\* The same lengths have the same places.
LEMMA SamePlaces ==
    ASSUME NEW S, NEW v, NEW w, \A k \in S : v[k] = w[k]
    PROVE  PlacesOf(v, S) = PlacesOf(w, S)
BY DEF PlacesOf, Places

\* A sum of sums.
LEMMA PlacesPlus ==
    ASSUME NEW S, IsFiniteSet(S), NEW w, NEW v, NEW u,
           \A k \in S : v[k] \in Nat /\ u[k] \in Nat /\ w[k] = v[k] + u[k]
    PROVE  Cardinality(PlacesOf(w, S))
             = Cardinality(PlacesOf(v, S)) + Cardinality(PlacesOf(u, S))
<1> DEFINE a(T) == Cardinality(PlacesOf(w, T))
           b(T) == Cardinality(PlacesOf(v, T))
           c(T) == Cardinality(PlacesOf(u, T))
           Good == {T \in SUBSET S : a(T) = b(T) + c(T)}
<1>1. a({}) = 0 /\ b({}) = 0 /\ c({}) = 0
  BY FS_EmptySet DEF PlacesOf
<1>2. ASSUME NEW T \in SUBSET S, NEW x \in T
      PROVE  /\ a(T) = w[x] + a(T \ {x}) /\ b(T) = v[x] + b(T \ {x})
             /\ c(T) = u[x] + c(T \ {x})
             /\ a(T \ {x}) \in Nat /\ b(T \ {x}) \in Nat /\ c(T \ {x}) \in Nat
  <2>1. IsFiniteSet(T) /\ IsFiniteSet(T \ {x})
    BY FS_Subset
  <2>2. \A k \in T : w[k] \in Nat /\ v[k] \in Nat /\ u[k] \in Nat
    OBVIOUS
  <2> QED
    BY <2>1, <2>2, PlacesOfTheRest, PlacesAreFinite
<1> HIDE DEF a, b, c
<1>3. ASSUME NEW T \in SUBSET S, T # {}, \A x \in T : T \ {x} \in Good
      PROVE  T \in Good
  <2>1. PICK x \in T : TRUE
    BY <1>3
  <2>2. a(T \ {x}) = b(T \ {x}) + c(T \ {x})
    BY <1>3, <2>1
  <2>3. w[x] = v[x] + u[x] /\ v[x] \in Nat /\ u[x] \in Nat
    BY <2>1
  <2>4. a(T) = b(T) + c(T)
    BY <1>2, <2>1, <2>2, <2>3
  <2> QED
    BY <2>4
<1>4. {} \in Good
  BY <1>1
<1> HIDE DEF Good
<1>5. \A T \in SUBSET S : T # {} /\ (\A x \in T : T \ {x} \in Good) => T \in Good
  BY <1>3
<1>6. \A T \in SUBSET S : T \in Good
  BY <1>4, <1>5, SetInduction
<1> QED
  BY <1>6 DEF a, b, c, Good

------------------------------------------------------------------------------
(* Statistics, before and after rows are converted.                            *)

SavedBy(table, S) == SumFunction([k \in S |-> Saved(table[k].of)])

Convertible(table, k) == table[k].codec = "raw" /\ Plan(table[k].of) = "compact"

LEMMA PlannedShrinks ==
    ASSUME NEW x \in Payload, Plan(x) = "compact"
    PROVE  /\ SizeOf[x] >= MinSize /\ x \in RoundTrips
           /\ SizeOf[x] \in Nat /\ ZstdSizeOf[x] \in Nat /\ Saved(x) \in Nat
           /\ SizeOf[x] = ZstdSizeOf[x] + Saved(x)
<1>1. SizeOf[x] \in Nat /\ ZstdSizeOf[x] \in Nat /\ MinSize \in Nat
  BY PayloadAssumption
<1>2. SizeOf[x] >= MinSize /\ ZstdSizeOf[x] < SizeOf[x] /\ x \in RoundTrips
  BY DEF Plan, Encoded
<1> QED
  BY <1>1, <1>2 DEF Saved

\* What a sum of savings is, whichever table the payloads are taken from.
LEMMA SavedByPlaces ==
    ASSUME NEW table, NEW S, IsFiniteSet(S), NEW w,
           \A k \in S : w[k] = Saved(table[k].of) /\ w[k] \in Nat
    PROVE  /\ SavedBy(table, S) = Cardinality(PlacesOf(w, S))
           /\ SavedBy(table, S) \in Nat
<1> DEFINE s == [k \in S |-> Saved(table[k].of)]
<1>1. /\ SavedBy(table, S) = SumFunctionOnSet(s, DOMAIN s) /\ DOMAIN s = S
      /\ \A k \in S : s[k] = w[k]
  BY DEF SavedBy, SumFunction
<1> HIDE DEF s
<1>2. SumFunctionOnSet(s, S) = Cardinality(PlacesOf(s, S))
  BY <1>1, SumIsPlaces
<1>3. PlacesOf(s, S) = PlacesOf(w, S)
  BY <1>1, SamePlaces
<1>4. Cardinality(PlacesOf(w, S)) \in Nat
  BY PlacesAreFinite
<1> QED
  BY <1>1, <1>2, <1>3, <1>4

\* What is saved in two pages is saved in both together.
LEMMA SavedSplit ==
    ASSUME NEW table, NEW A, NEW B, IsFiniteSet(A), IsFiniteSet(B), A \cap B = {},
           \A k \in A \cup B : Saved(table[k].of) \in Nat
    PROVE  SavedBy(table, A \cup B) = SavedBy(table, A) + SavedBy(table, B)
<1> DEFINE w == [k \in A \cup B |-> Saved(table[k].of)]
<1>1. \A k \in A \cup B : w[k] = Saved(table[k].of) /\ w[k] \in Nat
  OBVIOUS
<1> HIDE DEF w
<1>2. IsFiniteSet(A \cup B)
  BY FS_Union
<1>3. /\ SavedBy(table, A) = Cardinality(PlacesOf(w, A))
      /\ SavedBy(table, B) = Cardinality(PlacesOf(w, B))
      /\ SavedBy(table, A \cup B) = Cardinality(PlacesOf(w, A \cup B))
  BY <1>1, <1>2, SavedByPlaces
<1>4. Cardinality(PlacesOf(w, A \cup B))
        = Cardinality(PlacesOf(w, A)) + Cardinality(PlacesOf(w, B))
  BY <1>1, PlacesSplit
<1> QED
  BY <1>3, <1>4

RawIn(table) == {k \in DOMAIN table : table[k].codec = "raw"}
ZstdIn(table) == {k \in DOMAIN table : table[k].codec = "zstd"}
SizesIn(table) == [k \in DOMAIN table |-> StoredSize(table[k])]

LEMMA StatsOf ==
    ASSUME NEW D \in SUBSET Keys, NEW table \in [D -> Row]
    PROVE  /\ Stats(table) \in [raw : Nat, zstd : Nat, bytes : Nat]
           /\ Stats(table).raw = Cardinality(RawIn(table))
           /\ Stats(table).zstd = Cardinality(ZstdIn(table))
           /\ Stats(table).bytes = Cardinality(PlacesOf(SizesIn(table), D))
           /\ \A k \in D : SizesIn(table)[k] \in Nat
<1>1. IsFiniteSet(D) /\ IsFiniteSet(RawIn(table)) /\ IsFiniteSet(ZstdIn(table))
  BY KeyAssumption, FS_Subset DEF RawIn, ZstdIn
<1>2. Cardinality(RawIn(table)) \in Nat /\ Cardinality(ZstdIn(table)) \in Nat
  BY <1>1, FS_CardinalityType
<1>3. DOMAIN SizesIn(table) = D /\ \A k \in D : SizesIn(table)[k] \in Nat
  BY PayloadAssumption DEF SizesIn, StoredSize, Row
<1>4. SumFunction(SizesIn(table)) = SumFunctionOnSet(SizesIn(table), D)
  BY <1>3 DEF SumFunction
<1>5. SumFunction(SizesIn(table)) = Cardinality(PlacesOf(SizesIn(table), D))
  BY <1>1, <1>3, <1>4, SumIsPlaces
<1>6. SumFunction(SizesIn(table)) \in Nat
  BY <1>1, <1>3, <1>5, PlacesAreFinite
<1>7. Stats(table) = [raw |-> Cardinality(RawIn(table)), zstd |-> Cardinality(ZstdIn(table)),
                      bytes |-> SumFunction(SizesIn(table))]
  BY DEF Stats, RawIn, ZstdIn, SizesIn
<1> QED
  BY <1>2, <1>3, <1>5, <1>6, <1>7

\* The rows of C are converted.
Converted(table, C) ==
    [k \in DOMAIN table |->
        IF k \in C THEN [codec |-> "zstd", of |-> table[k].of] ELSE table[k]]

LEMMA ConvertedRows ==
    ASSUME NEW D \in SUBSET Keys, NEW table \in [D -> Row], NEW C \in SUBSET D
    PROVE  Converted(table, C) \in [D -> Row]
BY DEF Converted, Row

\* As many raw events less, as many zstd events more, and the bytes saved less.
LEMMA ConvertedStats ==
    ASSUME NEW D \in SUBSET Keys, NEW table \in [D -> Row], NEW C \in SUBSET D,
           \A k \in C : Convertible(table, k)
    PROVE  /\ Stats(Converted(table, C)).raw + Cardinality(C) = Stats(table).raw
           /\ Stats(Converted(table, C)).zstd = Stats(table).zstd + Cardinality(C)
           /\ Stats(Converted(table, C)).bytes + SavedBy(table, C) = Stats(table).bytes
           /\ Cardinality(C) \in Nat /\ SavedBy(table, C) \in Nat
<1> DEFINE new == Converted(table, C)
<1>1. new \in [D -> Row]
  BY ConvertedRows
<1>2. /\ IsFiniteSet(D) /\ IsFiniteSet(C) /\ Cardinality(C) \in Nat
      /\ IsFiniteSet(RawIn(new)) /\ IsFiniteSet(ZstdIn(table))
  BY KeyAssumption, FS_Subset, FS_CardinalityType, <1>1 DEF RawIn, ZstdIn
<1>3. \A k \in C : table[k].codec = "raw" /\ new[k].codec = "zstd"
  BY DEF Convertible, Converted
<1>4. \A k \in D \ C : new[k] = table[k]
  BY DEF Converted
<1>5. RawIn(table) = RawIn(new) \cup C /\ RawIn(new) \cap C = {}
  BY <1>1, <1>3, <1>4 DEF RawIn
<1>6. ZstdIn(new) = ZstdIn(table) \cup C /\ ZstdIn(table) \cap C = {}
  BY <1>1, <1>3, <1>4 DEF ZstdIn
<1>7. \A k \in C : /\ table[k].of \in Payload /\ Plan(table[k].of) = "compact"
                   /\ Saved(table[k].of) \in Nat
                   /\ SizesIn(table)[k] = SizesIn(new)[k] + Saved(table[k].of)
  <2> SUFFICES ASSUME NEW k \in C
               PROVE  /\ table[k].of \in Payload /\ Plan(table[k].of) = "compact"
                      /\ Saved(table[k].of) \in Nat
                      /\ SizesIn(table)[k] = SizesIn(new)[k] + Saved(table[k].of)
    OBVIOUS
  <2>1. table[k].of \in Payload /\ Plan(table[k].of) = "compact" /\ table[k].codec = "raw"
    BY DEF Convertible, Row
  <2>2. /\ Saved(table[k].of) \in Nat
        /\ SizeOf[table[k].of] = ZstdSizeOf[table[k].of] + Saved(table[k].of)
    BY <2>1, PlannedShrinks
  <2>3. SizesIn(table)[k] = SizeOf[table[k].of] /\ SizesIn(new)[k] = ZstdSizeOf[table[k].of]
    BY <1>1, <2>1 DEF SizesIn, StoredSize, Converted
  <2> QED
    BY <2>1, <2>2, <2>3
<1> DEFINE u == [k \in D |-> IF k \in C THEN Saved(table[k].of) ELSE 0]
<1>8. \A k \in D : /\ SizesIn(new)[k] \in Nat /\ u[k] \in Nat
                   /\ SizesIn(table)[k] = SizesIn(new)[k] + u[k]
  <2> SUFFICES ASSUME NEW k \in D
               PROVE  /\ SizesIn(new)[k] \in Nat /\ u[k] \in Nat
                      /\ SizesIn(table)[k] = SizesIn(new)[k] + u[k]
    OBVIOUS
  <2>1. SizesIn(new)[k] \in Nat
    BY <1>1, StatsOf
  <2>2. CASE k \in C
    BY <1>7, <2>1, <2>2
  <2>3. CASE k \notin C
    <3>1. SizesIn(table)[k] = SizesIn(new)[k]
      BY <1>1, <1>4, <2>3 DEF SizesIn
    <3> QED
      BY <2>1, <2>3, <3>1
  <2> QED
    BY <2>2, <2>3
<1>9. \A k \in C : u[k] = Saved(table[k].of) /\ u[k] \in Nat
  BY <1>7
<1>10. \A k \in D \ C : u[k] = 0
  OBVIOUS
<1> HIDE DEF u, new
<1>11. PlacesOf(u, D) = PlacesOf(u, C)
  BY <1>10 DEF PlacesOf, Places
<1>12. /\ SavedBy(table, C) = Cardinality(PlacesOf(u, D)) /\ SavedBy(table, C) \in Nat
  BY <1>2, <1>9, <1>11, SavedByPlaces
<1>13. Cardinality(PlacesOf(SizesIn(table), D))
         = Cardinality(PlacesOf(SizesIn(new), D)) + Cardinality(PlacesOf(u, D))
  BY <1>2, <1>8, PlacesPlus
<1>14. /\ Stats(table).raw = Cardinality(RawIn(table))
       /\ Stats(table).zstd = Cardinality(ZstdIn(table))
       /\ Stats(table).bytes = Cardinality(PlacesOf(SizesIn(table), D))
  BY StatsOf
<1>15. /\ Stats(new).raw = Cardinality(RawIn(new)) /\ Stats(new).raw \in Nat
       /\ Stats(new).zstd = Cardinality(ZstdIn(new)) /\ Stats(new).zstd \in Nat
       /\ Stats(new).bytes = Cardinality(PlacesOf(SizesIn(new), D)) /\ Stats(new).bytes \in Nat
  BY <1>1, StatsOf
<1>16. Cardinality(RawIn(table)) = Cardinality(RawIn(new)) + Cardinality(C)
  BY <1>2, <1>5, DisjointUnion
<1>17. Cardinality(ZstdIn(new)) = Cardinality(ZstdIn(table)) + Cardinality(C)
  BY <1>2, <1>6, DisjointUnion
<1> QED
  BY <1>2, <1>12, <1>13, <1>14, <1>15, <1>16, <1>17 DEF new

------------------------------------------------------------------------------
(* What a command has seen of the table, page after page.                      *)

Big(table) == {k \in DOMAIN table : table[k].codec = "raw" /\ SizeOf[table[k].of] >= MinSize}
Scanned(table, c) == Big(table) \ Candidates(table, c)
PlannedIn(table, S, w) == {k \in S : Plan(table[k].of) = w}

LEMMA CandidatesAreBig ==
    ASSUME NEW table, NEW c
    PROVE  /\ Candidates(table, c) \subseteq Big(table)
           /\ c = NoKey => Candidates(table, c) = Big(table)
           /\ c # NoKey => Candidates(table, c) = {k \in Big(table) : Before(c, k)}
BY DEF Candidates, Big

\* A page adds its rows, and only them, to what was seen.
LEMMA PageIsScanned ==
    ASSUME NEW D \in SUBSET Keys, NEW table \in [D -> Row], NEW c \in Keys \cup {NoKey},
           FirstOf(Candidates(table, c)) # {}
    PROVE  LET page == FirstOf(Candidates(table, c))
               last == LastOf(page)
           IN  /\ page \subseteq D /\ last \in Keys
               /\ Scanned(table, last) = Scanned(table, c) \cup page
               /\ Scanned(table, c) \cap page = {}
<1> DEFINE all == Candidates(table, c)
           page == FirstOf(all)
           last == LastOf(page)
           big == Big(table)
<1>1. all \subseteq big /\ big \subseteq D /\ page \subseteq all
  BY CandidatesAreBig DEF Big, FirstOf
<1>2. last \in page /\ \A k \in all \ page : Before(last, k)
  BY <1>1, PagesAreInOrder
<1>3. \A k \in page : k = last \/ Before(k, last)
  BY <1>1, <1>2, LastIsLast
<1>4. last \in Keys /\ last # NoKey
  BY <1>1, <1>2, KeyAssumption
<1>5. Candidates(table, last) = {k \in big : Before(last, k)}
  BY <1>4, CandidatesAreBig
<1>6. c = NoKey \/ (c \in Keys /\ all = {k \in big : Before(c, k)})
  BY CandidatesAreBig
<1>7. c = NoKey => all = big
  BY CandidatesAreBig
<1> HIDE DEF all, page, last, big
<1>8. ASSUME NEW k \in big, Before(last, k)
      PROVE  k \in all \ page
  <2>1. k \in Keys
    BY <1>1
  <2>2. k \notin page
    BY <1>3, <1>4, <1>8, <2>1, BeforeIsOrder
  <2>3. k \in all
    BY <1>1, <1>2, <1>4, <1>6, <1>7, <1>8, <2>1, BeforeIsOrder
  <2> QED
    BY <2>2, <2>3
<1>9. Candidates(table, last) = all \ page
  BY <1>1, <1>2, <1>5, <1>8
<1>10. Scanned(table, last) = big \ (all \ page) /\ Scanned(table, c) = big \ all
  BY <1>9 DEF Scanned, big, all
<1>11. /\ Scanned(table, last) = Scanned(table, c) \cup page
       /\ Scanned(table, c) \cap page = {}
  BY <1>1, <1>10
<1>12. page \subseteq D
  BY <1>1
<1> QED
  BY <1>4, <1>11, <1>12 DEF page, last, all

LEMMA PlansSplit ==
    ASSUME NEW table, NEW A \in SUBSET Keys, NEW B \in SUBSET Keys, A \cap B = {}, NEW w
    PROVE  LET a == PlannedIn(table, A, w)
               b == PlannedIn(table, B, w)
           IN  /\ PlannedIn(table, A \cup B, w) = a \cup b /\ a \cap b = {}
               /\ IsFiniteSet(a) /\ IsFiniteSet(b)
               /\ Cardinality(PlannedIn(table, A \cup B, w)) = Cardinality(a) + Cardinality(b)
               /\ Cardinality(a) \in Nat /\ Cardinality(b) \in Nat
<1> DEFINE a == PlannedIn(table, A, w)
           b == PlannedIn(table, B, w)
<1>1. PlannedIn(table, A \cup B, w) = a \cup b /\ a \cap b = {}
  BY DEF PlannedIn
<1>2. a \in SUBSET Keys /\ b \in SUBSET Keys
  BY DEF PlannedIn
<1>3. IsFiniteSet(a) /\ IsFiniteSet(b)
  BY <1>2, KeyAssumption, FS_Subset
<1> HIDE DEF a, b
<1>4. /\ Cardinality(a \cup b) = Cardinality(a) + Cardinality(b)
      /\ Cardinality(a) \in Nat /\ Cardinality(b) \in Nat
  BY <1>1, <1>3, DisjointUnion
<1> QED
  BY <1>1, <1>3, <1>4 DEF a, b

\* Every row a command has seen has one of the three plans.
LEMMA ThreePlans ==
    ASSUME NEW table, NEW S \in SUBSET Keys
    PROVE  Cardinality(S) = Cardinality(PlannedIn(table, S, "compact"))
                              + Cardinality(PlannedIn(table, S, "not_smaller"))
                              + Cardinality(PlannedIn(table, S, "round_trip_failed"))
<1> DEFINE a == PlannedIn(table, S, "compact")
           b == PlannedIn(table, S, "not_smaller")
           c == PlannedIn(table, S, "round_trip_failed")
<1>1. S = (a \cup b) \cup c /\ a \cap b = {} /\ (a \cup b) \cap c = {}
  BY DEF PlannedIn, Plan
<1>2. IsFiniteSet(a) /\ IsFiniteSet(b) /\ IsFiniteSet(c)
  BY KeyAssumption, FS_Subset DEF PlannedIn
<1> HIDE DEF a, b, c
<1>3. IsFiniteSet(a \cup b) /\ Cardinality(a \cup b) = Cardinality(a) + Cardinality(b)
  BY <1>1, <1>2, DisjointUnion
<1>4. Cardinality((a \cup b) \cup c) = Cardinality(a \cup b) + Cardinality(c)
  BY <1>1, <1>2, <1>3, DisjointUnion
<1> QED
  BY <1>1, <1>3, <1>4 DEF a, b, c

LEMMA NothingPlanned ==
    ASSUME NEW table, NEW w
    PROVE  /\ PlannedIn(table, {}, w) = {} /\ Cardinality({}) = 0
           /\ SavedBy(table, {}) = 0
<1> DEFINE none == [k \in {} |-> 0]
<1>1. IsFiniteSet({}) /\ Cardinality({}) = 0
  BY FS_EmptySet
<1>2. SavedBy(table, {}) = Cardinality(PlacesOf(none, {}))
  BY <1>1, SavedByPlaces
<1>3. PlacesOf(none, {}) = {}
  BY DEF PlacesOf
<1> QED
  BY <1>1, <1>2, <1>3 DEF PlannedIn

\* What converting the rows a command has planned does to what it has seen.
LEMMA ConvertedScan ==
    ASSUME NEW D \in SUBSET Keys, NEW table \in [D -> Row], NEW c,
           NEW C, C = PlannedIn(table, Scanned(table, c), "compact")
    PROVE  LET new == Converted(table, C) IN
           /\ C \in SUBSET D /\ \A k \in C : Convertible(table, k)
           /\ SmallRaw(new) = SmallRaw(table)
           /\ \A w \in {"not_smaller", "round_trip_failed"} :
                 PlannedIn(new, Scanned(new, c), w) = PlannedIn(table, Scanned(table, c), w)
           /\ PlannedIn(new, Scanned(new, c), "compact") = {}
<1> DEFINE new == Converted(table, C)
           few(t) == {k \in DOMAIN t : t[k].codec = "raw" /\ SizeOf[t[k].of] < MinSize}
<1>1. C \in SUBSET D /\ \A k \in C : Convertible(table, k) /\ SizeOf[table[k].of] >= MinSize
  BY DEF PlannedIn, Scanned, Big, Convertible
<1>2. /\ DOMAIN new = D /\ DOMAIN table = D
      /\ \A k \in C : new[k].codec = "zstd"
      /\ \A k \in D \ C : new[k] = table[k]
  BY <1>1 DEF Converted
<1>3. \A k \in C : SizeOf[table[k].of] \in Nat /\ ~(SizeOf[table[k].of] < MinSize)
  BY <1>1, PayloadAssumption DEF Row
<1> HIDE DEF new
<1>4. few(new) = few(table)
  BY <1>2, <1>3
<1>5. Scanned(new, c) = Scanned(table, c) \ C
  BY <1>1, <1>2 DEF Scanned, Big, Candidates
<1>6. \A k \in Scanned(new, c) : k \in D \ C /\ new[k] = table[k]
  BY <1>2, <1>5 DEF Scanned, Big
<1>7. \A w : PlannedIn(new, Scanned(new, c), w) = PlannedIn(table, Scanned(table, c) \ C, w)
  BY <1>5, <1>6 DEF PlannedIn
<1>8. \A w \in {"not_smaller", "round_trip_failed"} :
         PlannedIn(table, Scanned(table, c) \ C, w) = PlannedIn(table, Scanned(table, c), w)
  BY DEF PlannedIn
<1>9. PlannedIn(table, Scanned(table, c) \ C, "compact") = {}
  BY DEF PlannedIn
<1>10. SmallRaw(new) = SmallRaw(table)
  BY <1>4 DEF SmallRaw
<1> QED
  BY <1>1, <1>7, <1>8, <1>9, <1>10 DEF new

------------------------------------------------------------------------------
(* The books of a command: what it read and counted, against the table.        *)

QuantityTypes ==
    /\ before \in [Procs -> StatsType]
    /\ small \in [Procs -> Nat]
    /\ analysis \in [Procs -> AnalysisType]
    /\ alone \in [Procs -> BOOLEAN]
    /\ failures \in 0 .. MaxFailures

\* What holds of a command whoever else writes.
Orderly(p) ==
    /\ pc[p] \in {"idle", "stats", "small"} =>
          cursor[p] = NoKey /\ analysis[p] = NoAnalysis
    /\ pc[p] # "apply" => updates[p] = << >>
    /\ pc[p] = "apply" => mode[p] = "apply"
    /\ mode[p] = "dry" => analysis[p].converted = 0
    /\ updates[p] = [k \in DOMAIN updates[p] |-> updates[p][k]]
    /\ \A k \in DOMAIN updates[p] : Plan(updates[p][k]) = "compact"

\* What was read before differs from the table by what was converted.
TotalsMatch(table, b, m, a) ==
    /\ b.raw = Stats(table).raw + a.converted
    /\ b.zstd + a.converted = Stats(table).zstd
    /\ b.bytes = Stats(table).bytes + (IF m = "dry" THEN 0 ELSE a.saved)

\* What was counted is what the pages up to the cursor held.
PlansMatch(table, c, m, a, u) ==
    LET found(w) == PlannedIn(table, Scanned(table, c), w) IN
    /\ a.notSmaller = Cardinality(found("not_smaller"))
    /\ a.failed = Cardinality(found("round_trip_failed"))
    /\ m = "dry" => /\ a.eligible = Cardinality(found("compact"))
                    /\ a.saved = SavedBy(table, found("compact"))
    /\ m = "apply" => /\ found("compact") = DOMAIN u
                      /\ a.eligible = a.converted + Cardinality(DOMAIN u)

\* The books of a command nobody has disturbed are right at every step.
Books(p) ==
    alone[p] /\ pc[p] \in {"small", "scan", "apply", "done"} =>
        /\ TotalsMatch(events, before[p], mode[p], analysis[p])
        /\ PlansMatch(events, cursor[p], mode[p], analysis[p], updates[p])
        /\ pc[p] # "small" => small[p] = SmallRaw(events)
        /\ pc[p] = "done" => Scanned(events, cursor[p]) = Big(events)

ExactInv == QuantityTypes /\ \A p \in Procs : Orderly(p) /\ Books(p)

LEMMA EventsTable ==
    ASSUME IInv
    PROVE  events \in [DOMAIN events -> Row] /\ DOMAIN events \in SUBSET Keys
BY DEF IInv, EventsOK

LEMMA InitExact == Init => ExactInv
<1> SUFFICES ASSUME Init PROVE ExactInv
  OBVIOUS
<1>1. NoStats \in StatsType /\ NoAnalysis \in AnalysisType /\ NoAnalysis.converted = 0
  BY DEF NoStats, NoAnalysis, StatsType, AnalysisType
<1>2. 0 \in 0 .. MaxFailures
  BY CompactBoundAssumption
<1>3. QuantityTypes
  BY <1>1, <1>2 DEF Init, QuantityTypes
<1>4. \A p \in Procs : Orderly(p) /\ Books(p)
  BY <1>1 DEF Init, Orderly, Books
<1> QED
  BY <1>3, <1>4 DEF ExactInv

\* A command that takes no step keeps its books if the table stays; if the
\* table changes, they are no longer anybody's.
LEMMA OthersBooks ==
    ASSUME NEW q \in Procs, Orderly(q), Books(q),
           pc'[q] = pc[q], mode'[q] = mode[q], cursor'[q] = cursor[q],
           updates'[q] = updates[q], before'[q] = before[q], small'[q] = small[q],
           analysis'[q] = analysis[q],
           alone'[q] => pc[q] = "idle" \/ (alone[q] /\ UNCHANGED events)
    PROVE  Orderly(q)' /\ Books(q)'
<1>1. Orderly(q)'
  BY DEF Orderly
<1>2. CASE alone'[q] /\ pc'[q] # "idle"
  <2>1. alone[q] /\ UNCHANGED events
    BY <1>2
  <2> QED
    BY <1>1, <2>1 DEF Books
<1>3. CASE ~alone'[q] \/ pc'[q] = "idle"
  BY <1>1, <1>3 DEF Books
<1> QED
  BY <1>2, <1>3

\* A command's own steps, the first of which read what the others are held
\* against.
LEMMA ForgetBooks ==
    ASSUME AheadInv, IInv, ExactInv, NEW p \in Procs, Forget(p)
    PROVE  Orderly(p)' /\ Books(p)'
<1>1. /\ pc'[p] = "idle" /\ cursor'[p] = NoKey /\ updates'[p] = << >>
      /\ analysis'[p] = NoAnalysis
  BY DEF Forget, AheadInv, LocalType, IInv, UpdatesType, ExactInv, QuantityTypes
<1> QED
  BY <1>1 DEF Orderly, Books, NoAnalysis

LEMMA BeginBooks ==
    ASSUME AheadInv, ExactInv, NEW p \in Procs, NEW m \in {"dry", "apply"}, Begin(p, m)
    PROVE  Orderly(p)' /\ Books(p)'
<1>1. /\ pc[p] = "idle" /\ pc'[p] = "stats" /\ UNCHANGED <<cursor, updates, analysis>>
  BY DEF Begin, AheadInv, LocalType
<1> QED
  BY <1>1 DEF Orderly, Books, NoAnalysis, ExactInv

LEMMA ReadStatsBooks ==
    ASSUME AheadInv, IInv, ExactInv, NEW p \in Procs, ReadStats(p)
    PROVE  Orderly(p)' /\ Books(p)'
<1>1. /\ pc[p] = "stats" /\ pc'[p] = "small" /\ before'[p] = Stats(events)
      /\ UNCHANGED <<events, mode, cursor, updates, analysis>>
  BY DEF ReadStats, AheadInv, LocalType, ExactInv, QuantityTypes
<1>2. cursor[p] = NoKey /\ analysis[p] = NoAnalysis /\ updates[p] = << >>
  BY <1>1 DEF ExactInv, Orderly
<1>3. Orderly(p)'
  BY <1>1, <1>2 DEF Orderly, ExactInv
<1>4. Stats(events) \in [raw : Nat, zstd : Nat, bytes : Nat]
  BY EventsTable, StatsOf
<1>5. TotalsMatch(events, Stats(events), mode[p], NoAnalysis)
  BY <1>4 DEF TotalsMatch, NoAnalysis
<1>6. Scanned(events, NoKey) = {}
  BY CandidatesAreBig DEF Scanned
<1>7. /\ DOMAIN << >> = {} /\ Cardinality({}) = 0 /\ SavedBy(events, {}) = 0
      /\ \A w : PlannedIn(events, {}, w) = {}
  BY NothingPlanned
<1>8. PlansMatch(events, NoKey, mode[p], NoAnalysis, << >>)
  BY <1>6, <1>7 DEF PlansMatch, NoAnalysis
<1> QED
  BY <1>1, <1>2, <1>3, <1>5, <1>8 DEF Books

LEMMA CountSmallBooks ==
    ASSUME AheadInv, ExactInv, NEW p \in Procs, CountSmall(p)
    PROVE  Orderly(p)' /\ Books(p)'
<1>1. /\ pc[p] = "small" /\ pc'[p] = "scan" /\ small'[p] = SmallRaw(events)
      /\ UNCHANGED <<events, mode, cursor, updates, before, analysis, alone>>
  BY DEF CountSmall, AheadInv, LocalType, ExactInv, QuantityTypes
<1>2. Orderly(p)'
  BY <1>1 DEF Orderly, ExactInv
<1> QED
  BY <1>1, <1>2 DEF Books, ExactInv

LEMMA FinishBooks ==
    ASSUME AheadInv, ExactInv, NEW p \in Procs, Finish(p)
    PROVE  Orderly(p)' /\ Books(p)'
<1>1. /\ pc[p] = "scan" /\ pc'[p] = "done" /\ Candidates(events, cursor[p]) = {}
      /\ UNCHANGED <<events, mode, cursor, updates, before, small, analysis, alone>>
  BY DEF Finish, AheadInv, LocalType
<1>2. Orderly(p)'
  BY <1>1 DEF Orderly, ExactInv
<1>3. Scanned(events, cursor[p]) = Big(events)
  BY <1>1 DEF Scanned
<1> QED
  BY <1>1, <1>2, <1>3 DEF Books, ExactInv

\* What a page does to the books.
LEMMA ScanEntries ==
    ASSUME AheadInv, IInv, ExactInv, NEW p \in Procs, Scan(p)
    PROVE  LET page == FirstOf(Candidates(events, cursor[p]))
               found(w) == PlannedIn(events, page, w)
               a == analysis[p]
               b == analysis'[p]
           IN  /\ pc[p] = "scan" /\ page # {} /\ cursor'[p] = LastOf(page)
               /\ UNCHANGED <<events, mode, before, small, alone, failures>>
               /\ \A w : Cardinality(found(w)) \in Nat
               /\ b \in AnalysisType /\ analysis' = [analysis EXCEPT ![p] = b]
               /\ b.eligible = a.eligible + Cardinality(found("compact"))
               /\ b.notSmaller = a.notSmaller + Cardinality(found("not_smaller"))
               /\ b.failed = a.failed + Cardinality(found("round_trip_failed"))
               /\ b.converted = a.converted
               /\ mode[p] = "dry" =>
                     /\ pc'[p] = "scan" /\ updates'[p] = << >>
                     /\ b.saved = a.saved + SavedBy(events, found("compact"))
               /\ mode[p] = "apply" =>
                     /\ pc'[p] = "apply"
                     /\ updates'[p] = [k \in found("compact") |-> events[k].of]
                     /\ b.saved = a.saved
<1> DEFINE page == FirstOf(Candidates(events, cursor[p]))
           found(w) == PlannedIn(events, page, w)
           a == analysis[p]
           more == SavedBy(events, found("compact"))
           b == [eligible   |-> a.eligible + Cardinality(found("compact")),
                 notSmaller |-> a.notSmaller + Cardinality(found("not_smaller")),
                 failed     |-> a.failed + Cardinality(found("round_trip_failed")),
                 converted  |-> a.converted,
                 saved      |-> IF mode[p] = "dry" THEN a.saved + more ELSE a.saved]
<1>1. /\ pc[p] = "scan" /\ page # {} /\ cursor'[p] = LastOf(page)
      /\ UNCHANGED <<events, mode, before, small, alone, failures>>
  BY DEF Scan, AheadInv, LocalType
<1>2. analysis' = [analysis EXCEPT ![p] = b]
  <2>1. found("compact") = {k \in page : Plan(events[k].of) = "compact"}
    BY DEF PlannedIn
  <2>2. found("not_smaller") = {k \in page : Plan(events[k].of) = "not_smaller"}
    BY DEF PlannedIn
  <2>3. found("round_trip_failed") = {k \in page : Plan(events[k].of) = "round_trip_failed"}
    BY DEF PlannedIn
  <2>4. more = SumFunction([k \in found("compact") |-> Saved(events[k].of)])
    BY DEF SavedBy
  <2> HIDE DEF found, more
  <2> QED
    BY <2>1, <2>2, <2>3, <2>4 DEF Scan
<1>3. \A w : found(w) \in SUBSET DOMAIN events
  BY DEF PlannedIn, FirstOf, Candidates
<1>4. \A w : IsFiniteSet(found(w)) /\ Cardinality(found(w)) \in Nat
  BY <1>3, EventsTable, KeyAssumption, FS_Subset, FS_CardinalityType
<1>5. \A k \in found("compact") : Saved(events[k].of) \in Nat
  BY <1>3, EventsTable, PlannedShrinks DEF PlannedIn, Row
<1>6. more \in Nat
  <2> DEFINE w == [k \in found("compact") |-> Saved(events[k].of)]
  <2>1. \A k \in found("compact") : w[k] = Saved(events[k].of) /\ w[k] \in Nat
    BY <1>5
  <2> QED
    BY <1>4, <2>1, SavedByPlaces
<1>7. /\ pc'[p] = IF mode[p] = "dry" THEN "scan" ELSE "apply"
      /\ updates'[p] = IF mode[p] = "dry" THEN << >>
                       ELSE [k \in found("compact") |-> events[k].of]
  BY DEF Scan, AheadInv, LocalType, IInv, UpdatesType, PlannedIn
<1>8. a \in AnalysisType /\ analysis \in [Procs -> AnalysisType]
  BY DEF ExactInv, QuantityTypes
<1> HIDE DEF page, found, more
<1>9. /\ b \in AnalysisType
      /\ b.eligible = a.eligible + Cardinality(found("compact"))
      /\ b.notSmaller = a.notSmaller + Cardinality(found("not_smaller"))
      /\ b.failed = a.failed + Cardinality(found("round_trip_failed"))
      /\ b.converted = a.converted
      /\ b.saved = IF mode[p] = "dry" THEN a.saved + more ELSE a.saved
  BY <1>4, <1>6, <1>8 DEF AnalysisType
<1>10. analysis'[p] = b
  BY <1>2, <1>8
<1> HIDE DEF b
<1> QED
  BY <1>1, <1>2, <1>4, <1>7, <1>9, <1>10 DEF page, found, more

LEMMA ScanBooks ==
    ASSUME AheadInv, IInv, ExactInv, NEW p \in Procs, Scan(p)
    PROVE  Orderly(p)' /\ Books(p)'
<1> DEFINE page == FirstOf(Candidates(events, cursor[p]))
           found(w) == PlannedIn(events, page, w)
           seen == Scanned(events, cursor[p])
           a == analysis[p]
           b == analysis'[p]
<1>1. /\ pc[p] = "scan" /\ page # {} /\ cursor'[p] = LastOf(page)
      /\ UNCHANGED <<events, mode, before, small, alone>>
      /\ mode[p] \in {"dry", "apply"} /\ a \in AnalysisType
  BY ScanEntries DEF AheadInv, LocalType, ExactInv, QuantityTypes
<1>2. /\ b.eligible = a.eligible + Cardinality(found("compact"))
      /\ b.notSmaller = a.notSmaller + Cardinality(found("not_smaller"))
      /\ b.failed = a.failed + Cardinality(found("round_trip_failed"))
      /\ b.converted = a.converted
  BY ScanEntries
<1>3. mode[p] = "dry" => /\ pc'[p] = "scan" /\ updates'[p] = << >>
                         /\ b.saved = a.saved + SavedBy(events, found("compact"))
  BY ScanEntries
<1>4. mode[p] = "apply" => /\ pc'[p] = "apply"
                           /\ updates'[p] = [k \in found("compact") |-> events[k].of]
                           /\ b.saved = a.saved
  BY ScanEntries
<1>5. /\ page \subseteq DOMAIN events /\ seen \subseteq DOMAIN events
      /\ Scanned(events, LastOf(page)) = seen \cup page /\ seen \cap page = {}
  BY <1>1, EventsTable, PageIsScanned DEF AheadInv, LocalType, Scanned, Big
<1>6. \A k \in found("compact") : Plan(events[k].of) = "compact"
  BY DEF PlannedIn
<1>7. Orderly(p) /\ Books(p)
  BY DEF ExactInv
<1> HIDE DEF page, a, b, seen
<1> page \in SUBSET Keys /\ seen \in SUBSET Keys
  BY <1>5, EventsTable
<1>8. ASSUME NEW w
      PROVE  /\ PlannedIn(events, seen \cup page, w) = PlannedIn(events, seen, w) \cup found(w)
             /\ PlannedIn(events, seen, w) \cap found(w) = {}
             /\ IsFiniteSet(PlannedIn(events, seen, w)) /\ IsFiniteSet(found(w))
             /\ Cardinality(PlannedIn(events, seen \cup page, w))
                  = Cardinality(PlannedIn(events, seen, w)) + Cardinality(found(w))
  BY PlansSplit, <1>5 DEF found
<1> HIDE DEF found
<1>9. Orderly(p)'
  <2>1. /\ pc'[p] \in {"scan", "apply"} /\ (pc'[p] # "apply" => updates'[p] = << >>)
        /\ (pc'[p] = "apply" => mode'[p] = "apply")
    BY <1>1, <1>3, <1>4
  <2>2. mode'[p] = "dry" => b.converted = 0
    BY <1>1, <1>2, <1>7 DEF Orderly, a
  <2>3. \A k \in DOMAIN updates'[p] : Plan(updates'[p][k]) = "compact"
    BY <1>1, <1>3, <1>4, <1>6
  <2>4. updates'[p] = [k \in DOMAIN updates'[p] |-> updates'[p][k]]
    <3>1. CASE mode[p] = "dry"
      BY <1>3, <3>1
    <3>2. CASE mode[p] = "apply"
      BY <1>4, <3>2
    <3> QED
      BY <1>1, <3>1, <3>2
  <2> QED
    BY <2>1, <2>2, <2>3, <2>4 DEF Orderly, b
<1>10. ASSUME alone[p]
       PROVE  /\ TotalsMatch(events, before[p], mode[p], a)
              /\ PlansMatch(events, cursor[p], mode[p], a, updates[p])
              /\ small[p] = SmallRaw(events) /\ updates[p] = << >>
  BY <1>1, <1>7, <1>10 DEF Books, Orderly, a
<1>11. ASSUME alone[p]
       PROVE  TotalsMatch(events, before[p], mode[p], b)
  BY <1>1, <1>2, <1>4, <1>10, <1>11 DEF TotalsMatch
<1>12. ASSUME alone[p]
       PROVE  PlansMatch(events, LastOf(page), mode[p], b, updates'[p])
  <2>1. /\ b.notSmaller = Cardinality(PlannedIn(events, seen \cup page, "not_smaller"))
        /\ b.failed = Cardinality(PlannedIn(events, seen \cup page, "round_trip_failed"))
    BY <1>2, <1>8, <1>10, <1>12 DEF PlansMatch, seen
  <2>2. ASSUME mode[p] = "dry"
        PROVE  /\ b.eligible = Cardinality(PlannedIn(events, seen \cup page, "compact"))
               /\ b.saved = SavedBy(events, PlannedIn(events, seen \cup page, "compact"))
    <3>1. /\ a.eligible = Cardinality(PlannedIn(events, seen, "compact"))
          /\ a.saved = SavedBy(events, PlannedIn(events, seen, "compact"))
      BY <1>10, <1>12, <2>2 DEF PlansMatch, seen
    <3>2. \A k \in PlannedIn(events, seen, "compact") \cup found("compact") :
             Saved(events[k].of) \in Nat
      BY <1>5, EventsTable, PlannedShrinks DEF PlannedIn, found, Row
    <3>3. SavedBy(events, PlannedIn(events, seen \cup page, "compact"))
            = SavedBy(events, PlannedIn(events, seen, "compact"))
                + SavedBy(events, found("compact"))
      BY <1>8, <3>2, SavedSplit
    <3> QED
      BY <1>2, <1>3, <1>8, <2>2, <3>1, <3>3
  <2>3. ASSUME mode[p] = "apply"
        PROVE  /\ PlannedIn(events, seen \cup page, "compact") = DOMAIN updates'[p]
               /\ b.eligible = b.converted + Cardinality(DOMAIN updates'[p])
    <3>1. /\ PlannedIn(events, seen, "compact") = DOMAIN updates[p]
          /\ a.eligible = a.converted + Cardinality(DOMAIN updates[p])
      BY <1>10, <1>12, <2>3 DEF PlansMatch, seen
    <3>2. DOMAIN updates[p] = {} /\ Cardinality({}) = 0
      BY <1>10, <1>12, NothingPlanned
    <3>3. DOMAIN updates'[p] = found("compact")
      BY <1>4, <2>3
    <3>4. a.eligible = a.converted /\ a.converted \in Nat
      BY <1>1, <3>1, <3>2 DEF AnalysisType
    <3> QED
      BY <1>2, <1>8, <3>1, <3>2, <3>3, <3>4
  <2> QED
    BY <1>5, <2>1, <2>2, <2>3 DEF PlansMatch
<1>13. Books(p)'
  <2>1. CASE alone[p]
    <3>1. /\ TotalsMatch(events', before'[p], mode'[p], analysis'[p])
          /\ PlansMatch(events', cursor'[p], mode'[p], analysis'[p], updates'[p])
          /\ small'[p] = SmallRaw(events') /\ pc'[p] # "done"
      BY <1>1, <1>3, <1>4, <1>10, <1>11, <1>12, <2>1 DEF b
    <3> QED
      BY <3>1 DEF Books
  <2>2. CASE ~alone[p]
    BY <1>1, <2>2 DEF Books
  <2> QED
    BY <2>1, <2>2
<1> QED
  BY <1>9, <1>13

\* What the transaction of a batch does to the table and to the books.
LEMMA ApplyEntries ==
    ASSUME AheadInv, IInv, ExactInv, NEW p \in Procs, Apply(p)
    PROVE  LET done == Updated(events, updates[p])
               a == analysis[p]
               b == analysis'[p]
           IN  /\ pc[p] = "apply" /\ mode[p] = "apply"
               /\ pc'[p] = "scan" /\ updates'[p] = << >>
               /\ UNCHANGED <<mode, cursor, before, small, failures>>
               /\ done \in SUBSET DOMAIN events
               /\ \A k \in done : Convertible(events, k)
               /\ events' = Converted(events, done)
               /\ b \in AnalysisType /\ analysis' = [analysis EXCEPT ![p] = b]
               /\ b.eligible = a.eligible /\ b.notSmaller = a.notSmaller
               /\ b.failed = a.failed
               /\ b.converted = a.converted + Cardinality(done)
               /\ b.saved = a.saved + SavedBy(events, done)
<1> DEFINE done == Updated(events, updates[p])
           more == SavedBy(events, done)
           a == analysis[p]
           b == [eligible   |-> a.eligible,
                 notSmaller |-> a.notSmaller,
                 failed     |-> a.failed,
                 converted  |-> a.converted + Cardinality(done),
                 saved      |-> a.saved + more]
<1>1. /\ pc[p] = "apply" /\ pc'[p] = "scan" /\ updates'[p] = << >>
      /\ UNCHANGED <<mode, cursor, before, small, failures>>
  BY DEF Apply, AheadInv, LocalType, IInv, UpdatesType
<1>2. mode[p] = "apply"
  BY <1>1 DEF ExactInv, Orderly
<1>3. /\ done \in SUBSET DOMAIN events
      /\ \A k \in done : updates[p][k] = events[k].of /\ events[k].codec = "raw"
  BY DEF Updated, IInv, UpdatesOK
<1>4. \A k \in done : Convertible(events, k)
  BY <1>3 DEF Convertible, ExactInv, Orderly, Updated
<1>5. more = SumFunction([k \in done |-> Saved(updates[p][k])])
  BY <1>3 DEF SavedBy
<1>6. events' = [k \in DOMAIN events |->
         IF k \in done THEN [codec |-> "zstd", of |-> updates[p][k]] ELSE events[k]]
  BY DEF Apply
<1>7. Cardinality(done) \in Nat /\ more \in Nat
  BY <1>3, <1>4, EventsTable, ConvertedStats
<1>8. a \in AnalysisType /\ analysis \in [Procs -> AnalysisType]
  BY DEF ExactInv, QuantityTypes
<1> HIDE DEF more
<1>9. analysis' = [analysis EXCEPT ![p] = b]
  BY <1>5 DEF Apply
<1> HIDE DEF done
<1>10. events' = Converted(events, done)
  BY <1>3, <1>6 DEF Converted
<1>11. b \in AnalysisType
  BY <1>7, <1>8 DEF AnalysisType
<1>12. analysis'[p] = b
  BY <1>8, <1>9
<1>13. /\ b.eligible = a.eligible /\ b.notSmaller = a.notSmaller
       /\ b.failed = a.failed
       /\ b.converted = a.converted + Cardinality(done)
       /\ b.saved = a.saved + SavedBy(events, done)
  BY DEF more
<1> HIDE DEF b
<1> QED
  BY <1>1, <1>2, <1>3, <1>4, <1>9, <1>10, <1>11, <1>12, <1>13 DEF done

LEMMA ApplyBooks ==
    ASSUME AheadInv, IInv, ExactInv, NEW p \in Procs, Apply(p)
    PROVE  Orderly(p)' /\ Books(p)'
<1> DEFINE done == Updated(events, updates[p])
           a == analysis[p]
           b == analysis'[p]
<1>1. /\ pc[p] = "apply" /\ mode[p] = "apply" /\ pc'[p] = "scan" /\ updates'[p] = << >>
      /\ UNCHANGED <<mode, cursor, before, small>>
      /\ events' = Converted(events, done)
  BY ApplyEntries
<1>2. /\ b.eligible = a.eligible /\ b.notSmaller = a.notSmaller /\ b.failed = a.failed
      /\ b.converted = a.converted + Cardinality(done)
      /\ b.saved = a.saved + SavedBy(events, done)
  BY ApplyEntries
<1>3. a \in AnalysisType /\ before[p] \in StatsType /\ b \in AnalysisType
  BY ApplyEntries DEF ExactInv, QuantityTypes
<1>4. Orderly(p)'
  BY <1>1 DEF Orderly
<1>5. alone'[p] => alone[p]
  BY <1>1 DEF Apply, Disturb, ExactInv, QuantityTypes
<1>6. ASSUME alone[p]
      PROVE  /\ TotalsMatch(events', before[p], "apply", b)
             /\ PlansMatch(events', cursor[p], "apply", b, << >>)
             /\ small[p] = SmallRaw(events')
  <2> DEFINE seen == Scanned(events, cursor[p])
  <2>1. /\ TotalsMatch(events, before[p], "apply", a)
        /\ PlansMatch(events, cursor[p], "apply", a, updates[p])
        /\ small[p] = SmallRaw(events)
    BY <1>1, <1>6 DEF ExactInv, Books
  <2>2. /\ PlannedIn(events, seen, "compact") = DOMAIN updates[p]
        /\ a.eligible = a.converted + Cardinality(DOMAIN updates[p])
        /\ a.notSmaller = Cardinality(PlannedIn(events, seen, "not_smaller"))
        /\ a.failed = Cardinality(PlannedIn(events, seen, "round_trip_failed"))
    BY <2>1 DEF PlansMatch
  <2>3. done = DOMAIN updates[p]
    BY <2>2 DEF Updated, PlannedIn, Scanned, Big
  <2>4. done = PlannedIn(events, seen, "compact")
    BY <2>2, <2>3
  <2> HIDE DEF done
  <2>5. /\ done \in SUBSET DOMAIN events /\ \A k \in done : Convertible(events, k)
        /\ SmallRaw(events') = SmallRaw(events)
        /\ PlannedIn(events', Scanned(events', cursor[p]), "compact") = {}
        /\ PlannedIn(events', Scanned(events', cursor[p]), "not_smaller")
             = PlannedIn(events, seen, "not_smaller")
        /\ PlannedIn(events', Scanned(events', cursor[p]), "round_trip_failed")
             = PlannedIn(events, seen, "round_trip_failed")
    BY <1>1, <2>4, EventsTable, ConvertedScan
  <2>6. /\ Stats(events').raw + Cardinality(done) = Stats(events).raw
        /\ Stats(events').zstd = Stats(events).zstd + Cardinality(done)
        /\ Stats(events').bytes + SavedBy(events, done) = Stats(events).bytes
        /\ Cardinality(done) \in Nat /\ SavedBy(events, done) \in Nat
    BY <1>1, <2>5, EventsTable, ConvertedStats
  <2>7. /\ Stats(events).raw \in Nat /\ Stats(events).zstd \in Nat
        /\ Stats(events).bytes \in Nat
    BY EventsTable, StatsOf
  <2>8. /\ Stats(events').raw \in Nat /\ Stats(events').zstd \in Nat
        /\ Stats(events').bytes \in Nat
    BY <1>1, <2>5, EventsTable, ConvertedRows, StatsOf
  <2>9. a.converted \in Nat /\ a.saved \in Nat
    BY <1>3 DEF AnalysisType
  <2>10. /\ before[p].raw = Stats(events).raw + a.converted
         /\ before[p].zstd + a.converted = Stats(events).zstd
         /\ before[p].bytes = Stats(events).bytes + a.saved
         /\ before[p].zstd \in Nat
    BY <1>3, <2>1 DEF TotalsMatch, StatsType
  <2> HIDE DEF seen, a, b
  <2>11. TotalsMatch(events', before[p], "apply", b)
    BY <1>2, <2>6, <2>7, <2>8, <2>9, <2>10 DEF TotalsMatch
  <2>12. DOMAIN << >> = {} /\ Cardinality({}) = 0
    BY NothingPlanned
  <2>13. b.eligible = b.converted + 0
    BY <1>2, <2>2, <2>3, <2>6, <2>9
  <2>14. PlansMatch(events', cursor[p], "apply", b, << >>)
    BY <1>2, <2>2, <2>5, <2>12, <2>13 DEF PlansMatch
  <2> QED
    BY <2>1, <2>5, <2>11, <2>14
<1>7. Books(p)'
  <2>1. CASE alone'[p]
    BY <1>1, <1>5, <1>6, <2>1 DEF Books
  <2>2. CASE ~alone'[p]
    BY <2>2 DEF Books
  <2> QED
    BY <2>1, <2>2
<1> QED
  BY <1>4, <1>7

LEMMA TypesKept == AheadInv /\ IInv /\ ExactInv /\ [Next]_vars => QuantityTypes'
<1> SUFFICES ASSUME AheadInv, IInv, ExactInv, [Next]_vars PROVE QuantityTypes'
  OBVIOUS
<1>1. QuantityTypes
  BY DEF ExactInv
<1>2. ASSUME NEW p \in Procs, ReadStats(p)
      PROVE  QuantityTypes'
  <2>1. Stats(events) \in StatsType
    BY EventsTable, StatsOf DEF StatsType
  <2> QED
    BY <1>1, <1>2, <2>1 DEF ReadStats, QuantityTypes
<1>3. ASSUME NEW p \in Procs, CountSmall(p)
      PROVE  QuantityTypes'
  <2> DEFINE few == {k \in DOMAIN events :
                        events[k].codec = "raw" /\ SizeOf[events[k].of] < MinSize}
  <2>1. IsFiniteSet(few)
    BY EventsTable, KeyAssumption, FS_Subset
  <2> HIDE DEF few
  <2>2. Cardinality(few) \in Nat
    BY <2>1, FS_CardinalityType
  <2>3. SmallRaw(events) \in Nat
    BY <2>2 DEF few, SmallRaw
  <2> QED
    BY <1>1, <1>3, <2>3 DEF CountSmall, QuantityTypes
<1>4. ASSUME NEW p \in Procs, Scan(p)
      PROVE  QuantityTypes'
  <2>1. /\ UNCHANGED <<before, small, alone, failures>>
        /\ analysis'[p] \in AnalysisType /\ analysis' = [analysis EXCEPT ![p] = analysis'[p]]
    BY <1>4, ScanEntries
  <2> QED
    BY <1>1, <2>1 DEF QuantityTypes
<1>5. ASSUME NEW p \in Procs, Apply(p)
      PROVE  QuantityTypes'
  <2>1. /\ UNCHANGED <<before, small, failures>>
        /\ analysis'[p] \in AnalysisType /\ analysis' = [analysis EXCEPT ![p] = analysis'[p]]
    BY <1>5, ApplyEntries
  <2>2. alone' \in [Procs -> BOOLEAN]
    BY <1>1, <1>5 DEF Apply, Disturb, QuantityTypes
  <2> QED
    BY <1>1, <2>1, <2>2 DEF QuantityTypes
<1>6. ASSUME NEW p \in Procs, Forget(p),
             failures' = failures \/ (failures < MaxFailures /\ failures' = failures + 1)
      PROVE  QuantityTypes'
  <2>1. NoStats \in StatsType /\ NoAnalysis \in AnalysisType
    BY DEF NoStats, NoAnalysis, StatsType, AnalysisType
  <2>2. failures' \in 0 .. MaxFailures
    BY <1>1, <1>6, CompactBoundAssumption DEF QuantityTypes
  <2> QED
    BY <1>1, <1>6, <2>1, <2>2 DEF Forget, QuantityTypes
<1>7. ASSUME NEW p \in Procs, Finish(p) \/ \E m \in {"dry", "apply"} : Begin(p, m)
      PROVE  QuantityTypes'
  BY <1>1, <1>7 DEF Finish, Begin, QuantityTypes
<1>8. ASSUME NEW k \in Keys, NEW x \in Payload, Insert(k, x)
      PROVE  QuantityTypes'
  BY <1>1, <1>8 DEF Insert, local, QuantityTypes
<1>9. CASE UNCHANGED vars
  BY <1>1, <1>9 DEF vars, local, QuantityTypes
<1>10. ASSUME NEW p \in Procs, Leave(p) \/ Fail(p)
       PROVE  QuantityTypes'
  BY <1>6, <1>10 DEF Leave, Fail
<1> QED
  BY <1>2, <1>3, <1>4, <1>5, <1>7, <1>8, <1>9, <1>10 DEF Next, Step

LEMMA NextExact == AheadInv /\ IInv /\ ExactInv /\ [Next]_vars => ExactInv'
<1> SUFFICES ASSUME AheadInv, IInv, ExactInv, [Next]_vars PROVE ExactInv'
  OBVIOUS
<1>1. QuantityTypes'
  BY TypesKept
<1>2. ASSUME NEW p \in Procs, Scan(p) \/ Apply(p) \/ Quiet(p), NEW q \in Procs, q # p
      PROVE  Orderly(q)' /\ Books(q)'
  <2>1. /\ pc'[q] = pc[q] /\ mode'[q] = mode[q] /\ cursor'[q] = cursor[q]
        /\ updates'[q] = updates[q] /\ before'[q] = before[q] /\ small'[q] = small[q]
        /\ analysis'[q] = analysis[q]
    BY <1>2 DEF Quiet, ReadStats, CountSmall, Scan, Apply, Finish, Leave, Fail, Forget,
                Begin, AheadInv, LocalType, IInv, UpdatesType, ExactInv, QuantityTypes
  <2>2. alone'[q] => pc[q] = "idle" \/ (alone[q] /\ UNCHANGED events)
    <3>1. CASE Apply(p)
      <4>1. CASE Updated(events, updates[p]) = {}
        <5>1. events' = Converted(events, {})
          BY <3>1, <4>1, ApplyEntries
        <5>2. events' = events
          BY <5>1, EventsTable DEF Converted
        <5>3. UNCHANGED alone
          BY <3>1, <4>1 DEF Apply
        <5> QED
          BY <5>2, <5>3
      <4>2. CASE Updated(events, updates[p]) # {}
        BY <1>2, <3>1, <4>2 DEF Apply, Disturb
      <4> QED
        BY <4>1, <4>2
    <3>2. CASE Scan(p) \/ Quiet(p)
      BY <1>2, <3>2 DEF Quiet, ReadStats, CountSmall, Scan, Finish, Leave, Fail, Forget,
                        Begin, ExactInv, QuantityTypes
    <3> QED
      BY <1>2, <3>1, <3>2
  <2> QED
    BY <2>1, <2>2, OthersBooks DEF ExactInv
<1>3. ASSUME NEW p \in Procs, Scan(p) \/ Apply(p) \/ Quiet(p)
      PROVE  Orderly(p)' /\ Books(p)'
  BY <1>3, ScanBooks, ApplyBooks, ForgetBooks, BeginBooks, ReadStatsBooks,
     CountSmallBooks, FinishBooks DEF Quiet, Leave, Fail
<1>4. ASSUME NEW p \in Procs, Scan(p) \/ Apply(p) \/ Quiet(p)
      PROVE  ExactInv'
  BY <1>1, <1>2, <1>3, <1>4 DEF ExactInv
<1>5. ASSUME UNCHANGED local, NEW q \in Procs,
             alone'[q] => pc[q] = "idle" \/ (alone[q] /\ UNCHANGED events)
      PROVE  Orderly(q)' /\ Books(q)'
  BY <1>5, OthersBooks DEF local, ExactInv
<1>6. ASSUME NEW k \in Keys, NEW x \in Payload, Insert(k, x)
      PROVE  ExactInv'
  <2>1. UNCHANGED local /\ \A q \in Procs : alone'[q] => pc[q] = "idle"
    BY <1>6 DEF Insert
  <2> QED
    BY <1>1, <1>5, <2>1 DEF ExactInv
<1>7. CASE UNCHANGED vars
  <2>1. UNCHANGED local /\ UNCHANGED events /\ UNCHANGED alone
    BY <1>7 DEF vars
  <2> QED
    BY <1>1, <1>5, <2>1 DEF ExactInv
<1> QED
  BY <1>4, <1>6, <1>7 DEF Next, Step, Quiet

LEMMA Exactness == Spec => [](IInv /\ AheadInv /\ ExactInv)
<1> QED
  BY InitInvariant, NextInvariant, InitAhead, NextAhead, InitExact, NextExact, PTL DEF Spec

LEMMA MaxOfNat ==
    ASSUME NEW n \in Nat
    PROVE  Max({0, n}) = n
BY DEF Max

LEMMA ReportAtTheEnd ==
    ASSUME IInv, AheadInv, ExactInv, NEW p \in Procs, pc[p] = "done", alone[p]
    PROVE  /\ Estimate(p) = Stats(Compacted(events))
           /\ before[p].raw = analysis[p].eligible + small[p]
                                + analysis[p].notSmaller + analysis[p].failed
<1> DEFINE big == Big(events)
           few == {k \in DOMAIN events :
                      events[k].codec = "raw" /\ SizeOf[events[k].of] < MinSize}
           C == PlannedIn(events, big, "compact")
           a == analysis[p]
           b == before[p]
           n == IF mode[p] = "dry" THEN a.eligible ELSE a.converted
<1>1. /\ TotalsMatch(events, b, mode[p], a)
      /\ PlansMatch(events, cursor[p], mode[p], a, updates[p])
      /\ small[p] = SmallRaw(events) /\ Scanned(events, cursor[p]) = big
      /\ updates[p] = << >> /\ (mode[p] = "dry" => a.converted = 0)
  BY DEF ExactInv, Books, Orderly
<1>2. /\ mode[p] \in {"dry", "apply"}
      /\ b.raw \in Nat /\ b.zstd \in Nat /\ b.bytes \in Nat
      /\ a.eligible \in Nat /\ a.converted \in Nat /\ a.saved \in Nat
      /\ a.notSmaller \in Nat /\ a.failed \in Nat
  BY DEF AheadInv, LocalType, ExactInv, QuantityTypes, StatsType, AnalysisType
<1>3. /\ a.notSmaller = Cardinality(PlannedIn(events, big, "not_smaller"))
      /\ a.failed = Cardinality(PlannedIn(events, big, "round_trip_failed"))
      /\ mode[p] = "dry" => a.eligible = Cardinality(C) /\ a.saved = SavedBy(events, C)
      /\ mode[p] = "apply" => C = DOMAIN << >>
                              /\ a.eligible = a.converted + Cardinality(DOMAIN << >>)
  BY <1>1 DEF PlansMatch
<1>4. mode[p] = "apply" => C = {} /\ Cardinality(C) = 0 /\ SavedBy(events, C) = 0
                           /\ a.eligible = a.converted
  <2>1. DOMAIN << >> = {} /\ Cardinality({}) = 0 /\ SavedBy(events, {}) = 0
    BY NothingPlanned
  <2> HIDE DEF a, C
  <2> QED
    BY <1>2, <1>3, <2>1 DEF a
<1>5. /\ C \in SUBSET DOMAIN events /\ \A k \in C : Convertible(events, k)
      /\ \A k \in DOMAIN events : k \in C <=> /\ events[k].codec = "raw"
                                              /\ SizeOf[events[k].of] >= MinSize
                                              /\ Plan(events[k].of) = "compact"
  BY DEF PlannedIn, Big, Convertible
<1> HIDE DEF C
<1>6. Compacted(events) = Converted(events, C)
  BY <1>5 DEF Compacted, Converted
<1>7. /\ Stats(Converted(events, C)).raw + Cardinality(C) = Stats(events).raw
      /\ Stats(Converted(events, C)).zstd = Stats(events).zstd + Cardinality(C)
      /\ Stats(Converted(events, C)).bytes + SavedBy(events, C) = Stats(events).bytes
      /\ Cardinality(C) \in Nat /\ SavedBy(events, C) \in Nat
  BY <1>5, EventsTable, ConvertedStats
<1>8. /\ Stats(Converted(events, C)) \in [raw : Nat, zstd : Nat, bytes : Nat]
      /\ Stats(events) \in [raw : Nat, zstd : Nat, bytes : Nat]
      /\ Stats(events).raw = Cardinality(RawIn(events))
  BY <1>5, EventsTable, ConvertedRows, StatsOf
<1> DEFINE s == Stats(Converted(events, C))
           t == Stats(events)
<1>9. /\ s.raw \in Nat /\ s.zstd \in Nat /\ s.bytes \in Nat
      /\ t.raw \in Nat /\ t.zstd \in Nat /\ t.bytes \in Nat
      /\ s = [raw |-> s.raw, zstd |-> s.zstd, bytes |-> s.bytes]
  BY <1>8
<1>10. /\ b.raw = t.raw + a.converted /\ b.zstd + a.converted = t.zstd
       /\ b.bytes = t.bytes + (IF mode[p] = "dry" THEN 0 ELSE a.saved)
  BY <1>1 DEF TotalsMatch
<1> HIDE DEF s, t, a, b
<1>11. /\ s.raw + Cardinality(C) = t.raw /\ s.zstd = t.zstd + Cardinality(C)
       /\ s.bytes + SavedBy(events, C) = t.bytes
  BY <1>7 DEF s, t
<1>12. b.raw - n = s.raw /\ b.zstd + n = s.zstd /\ b.bytes - a.saved = s.bytes
  <2> HIDE DEF n
  <2>1. CASE mode[p] = "dry"
    <3>1. n = Cardinality(C) /\ a.converted = 0 /\ a.saved = SavedBy(events, C)
      BY <1>1, <1>3, <2>1 DEF n
    <3>2. b.raw = t.raw /\ b.zstd = t.zstd /\ b.bytes = t.bytes
      BY <1>2, <1>9, <1>10, <2>1, <3>1
    <3> QED
      BY <1>7, <1>9, <1>11, <3>1, <3>2
  <2>2. CASE mode[p] = "apply"
    <3>1. n = a.converted /\ Cardinality(C) = 0 /\ SavedBy(events, C) = 0
      BY <1>4, <2>2 DEF n
    <3>2. b.bytes = t.bytes + a.saved
      BY <1>10, <2>2
    <3> QED
      BY <1>2, <1>9, <1>10, <1>11, <3>1, <3>2
  <2> QED
    BY <1>2, <2>1, <2>2
<1>13. Estimate(p) = [raw |-> Max({0, b.raw - n}), zstd |-> b.zstd + n,
                      bytes |-> Max({0, b.bytes - a.saved})]
  BY DEF Estimate, a, b
<1>14. Estimate(p) = Stats(Compacted(events))
  BY <1>6, <1>9, <1>12, <1>13, MaxOfNat DEF s
<1>15. t.raw = small[p] + Cardinality(big)
  <2>1. RawIn(events) = few \cup big /\ few \cap big = {}
    BY EventsTable, PayloadAssumption DEF RawIn, Big, Row
  <2>2. IsFiniteSet(few) /\ IsFiniteSet(big)
    BY EventsTable, KeyAssumption, FS_Subset DEF Big
  <2> HIDE DEF few, big
  <2>3. Cardinality(RawIn(events)) = Cardinality(few) + Cardinality(big)
    BY <2>1, <2>2, DisjointUnion
  <2> QED
    BY <1>1, <1>8, <2>3 DEF t, few, SmallRaw
<1>16. Cardinality(big) = Cardinality(C) + a.notSmaller + a.failed
  BY <1>3, EventsTable, ThreePlans DEF C, a, Big
<1>17. b.raw = a.eligible + small[p] + a.notSmaller + a.failed
  <2>1. small[p] \in Nat /\ a.eligible = Cardinality(C) + a.converted
    BY <1>1, <1>2, <1>3, <1>4 DEF a, ExactInv, QuantityTypes
  <2> QED
    BY <1>2, <1>7, <1>10, <1>15, <1>16, <2>1 DEF a, b
<1> QED
  BY <1>14, <1>17 DEF a, b

\* Every variable of a compaction keeps its type: in particular no count of a
\* report and no sum of bytes saved ever falls below zero.
THEOREM TypeCorrect == Spec => []TypeOK
<1>1. IInv /\ AheadInv /\ ExactInv => TypeOK
  <2> SUFFICES ASSUME IInv, AheadInv, ExactInv PROVE TypeOK
    OBVIOUS
  <2>1. \A p \in Procs : DOMAIN updates[p] \subseteq Keys
    BY DEF IInv, UpdatesOK, EventsOK
  <2>2. counted \in [Keys -> Nat]
    BY DEF IInv, CountedOK
  <2>3. ASSUME NEW p \in Procs
        PROVE  updates[p] \in [DOMAIN updates[p] -> RoundTrips]
    <3>1. /\ \A k \in DOMAIN updates[p] : updates[p][k] \in RoundTrips
          /\ updates[p] = [k \in DOMAIN updates[p] |-> updates[p][k]]
      BY DEF IInv, UpdatesOK, ExactInv, Orderly
    <3> QED
      BY <3>1
  <2> QED
    BY <2>1, <2>2, <2>3 DEF TypeOK, IInv, EventsOK, UpdatesType, AheadInv, LocalType,
                            ExactInv, QuantityTypes
<1> QED
  BY <1>1, Exactness, PTL

\* The report of a command nobody disturbed says exactly what the table holds
\* after it, or for a dry run would hold, in events and in bytes, and accounts
\* for every raw event.
THEOREM ReportsAreExact == Spec => []ReportIsExact
<1>1. IInv /\ AheadInv /\ ExactInv => ReportIsExact
  BY ReportAtTheEnd DEF ReportIsExact
<1> QED
  BY <1>1, Exactness, PTL

==============================================================================
