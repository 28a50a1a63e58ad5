------------------------ MODULE SnapshotIngestProofs ------------------------
(***************************************************************************)
(* Proofs about SnapshotIngest, for every finite store and all bounds: the *)
(* sort puts every record in one place, stored generations are kept, and   *)
(* each of them is owed to a write of the agent.                           *)
(***************************************************************************)
EXTENDS SnapshotIngest, FiniteSetTheorems, SequenceTheorems, TLAPS

------------------------------------------------------------------------------
(* Sorting. *)

Below(S, R, x) == {y \in S : <<y, x>> \in R}

TotalOrder(S, R) ==
    /\ \A x \in S : <<x, x>> \notin R
    /\ \A x, y \in S : x = y \/ <<x, y>> \in R \/ <<y, x>> \in R
    /\ \A x, y, z \in S : <<x, y>> \in R /\ <<y, z>> \in R => <<x, z>> \in R

\* In a finite total order every element has a rank of its own, and every rank
\* has an element.
LEMMA Ranks ==
    ASSUME NEW S, IsFiniteSet(S), NEW R, TotalOrder(S, R)
    PROVE  /\ Cardinality(S) \in Nat
           /\ \A x \in S : Cardinality(Below(S, R, x)) \in 0 .. Cardinality(S) - 1
           /\ \A x, y \in S :
                 Cardinality(Below(S, R, x)) = Cardinality(Below(S, R, y)) => x = y
           /\ \A n \in 0 .. Cardinality(S) - 1 :
                 \E x \in S : Cardinality(Below(S, R, x)) = n
<1> DEFINE c == Cardinality(S)
           rank(x) == Cardinality(Below(S, R, x))
<1>1. c \in Nat
  BY FS_CardinalityType
<1>2. ASSUME NEW x \in S PROVE IsFiniteSet(Below(S, R, x)) /\ rank(x) \in 0 .. c - 1
  <2>1. IsFiniteSet(S \ {x}) /\ Cardinality(S \ {x}) = c - 1
    BY FS_RemoveElement
  <2>2. Below(S, R, x) \in SUBSET (S \ {x})
    BY DEF Below, TotalOrder
  <2>3. IsFiniteSet(Below(S, R, x)) /\ rank(x) <= c - 1
    BY <2>1, <2>2, FS_Subset
  <2>4. rank(x) \in Nat
    BY <2>3, FS_CardinalityType
  <2> QED
    BY <1>1, <2>3, <2>4
<1>3. ASSUME NEW x \in S, NEW y \in S, <<x, y>> \in R PROVE rank(x) < rank(y)
  <2>1. x \notin Below(S, R, x) /\ Below(S, R, x) \cup {x} \in SUBSET Below(S, R, y)
    BY <1>3 DEF Below, TotalOrder
  <2>2. Cardinality(Below(S, R, x) \cup {x}) = rank(x) + 1
    BY <1>2, <2>1, FS_AddElement
  <2>3. Cardinality(Below(S, R, x) \cup {x}) <= rank(y)
    BY <1>2, <2>1, FS_Subset
  <2>4. rank(x) \in Nat /\ rank(y) \in Nat
    BY <1>1, <1>2
  <2> QED
    BY <2>2, <2>3, <2>4
<1>4. ASSUME NEW x \in S, NEW y \in S, rank(x) = rank(y) PROVE x = y
  <2>1. rank(x) \in Int
    BY <1>1, <1>2
  <2> HIDE DEF rank
  <2>2. ~(rank(x) < rank(y)) /\ ~(rank(y) < rank(x))
    BY <1>4, <2>1
  <2> QED
    BY <1>3, <2>2 DEF TotalOrder
<1>5. ASSUME NEW n \in 0 .. c - 1 PROVE \E x \in S : rank(x) = n
  <2>1. SUFFICES ASSUME \A x \in S : rank(x) # n PROVE FALSE
    OBVIOUS
  <2> DEFINE T == (0 .. c - 1) \ {n}
             f == [x \in S |-> rank(x)]
  <2>2. IsFiniteSet(0 .. c - 1) /\ Cardinality(0 .. c - 1) = c
    BY <1>1, FS_Interval
  <2>3. IsFiniteSet(T) /\ Cardinality(T) = c - 1
    BY <2>2, FS_RemoveElement
  <2>4. f \in [S -> T]
    BY <1>2, <2>1
  <2>5. \E x, y \in S : x # y /\ f[x] = f[y]
    <3> HIDE DEF T, f
    <3>1. Cardinality(T) < c
      BY <1>1, <2>3
    <3> QED
      BY <2>3, <2>4, <3>1, FS_PigeonHole
  <2> QED
    BY <1>4, <2>5
<1> QED
  BY <1>1, <1>2, <1>4, <1>5

\* Distinct records have distinct places in events.sort_by.
Records(es) == es \subseteq Event /\ \A e, f \in es : e.item = f.item => e = f

LEMMA PrecedesIsTotal ==
    ASSUME NEW es, Records(es)
    PROVE  TotalOrder(es, {p \in es \X es : Precedes(p[1], p[2])})
<1> DEFINE R == {p \in es \X es : Precedes(p[1], p[2])}
<1>1. \A x, y \in es : <<x, y>> \in R <=> Precedes(x, y)
  OBVIOUS
<1>2. ASSUME NEW e \in es
      PROVE  /\ e.item \in Sessions \cup Rows
             /\ CreatedAt[e.item] \in Int /\ Rank(e) \in Int /\ IdOrder[e.item] \in Int
  BY StoreAssumption DEF Records, Event, Rank
<1>3. ASSUME NEW e \in es, NEW f \in es, Rank(e) = Rank(f),
             IdOrder[e.item] = IdOrder[f.item]
      PROVE  e = f
  <2>1. e.item \in Sessions <=> f.item \in Sessions
    BY <1>2, <1>3, StoreAssumption DEF Rank
  <2>2. e.item = f.item
    BY <1>2, <1>3, <2>1, StoreAssumption DEF Rank
  <2> QED
    BY <2>2 DEF Records
<1>4. ASSUME NEW e \in es PROVE ~Precedes(e, e)
  BY <1>2 DEF Precedes
<1>5. ASSUME NEW e \in es, NEW f \in es PROVE e = f \/ Precedes(e, f) \/ Precedes(f, e)
  BY <1>2, <1>3 DEF Precedes
<1>6. ASSUME NEW d \in es, NEW e \in es, NEW f \in es, Precedes(d, e), Precedes(e, f)
      PROVE  Precedes(d, f)
  BY <1>2, <1>6 DEF Precedes
<1> HIDE DEF R
<1> QED
  BY <1>1, <1>4, <1>5, <1>6 DEF TotalOrder

\* A snapshot has every record that was read exactly once.
LEMMA OrderedLists ==
    ASSUME NEW es, IsFiniteSet(es), Records(es)
    PROVE  /\ Ordered(es) \in Seq(Event)
           /\ Len(Ordered(es)) = Cardinality(es)
           /\ \A e \in es : \E n \in DOMAIN Ordered(es) : Ordered(es)[n] = e
<1> DEFINE R == {p \in es \X es : Precedes(p[1], p[2])}
           c == Cardinality(es)
           rank(x) == Cardinality({y \in es : Precedes(y, x)})
<1>1. \A x \in es : Below(es, R, x) = {y \in es : Precedes(y, x)}
  BY DEF Below
<1>2. TotalOrder(es, R)
  BY PrecedesIsTotal
<1>3. /\ c \in Nat
      /\ \A x \in es : rank(x) \in 0 .. c - 1
      /\ \A x, y \in es : rank(x) = rank(y) => x = y
      /\ \A n \in 0 .. c - 1 : \E x \in es : rank(x) = n
  <2> DEFINE place(x) == Cardinality(Below(es, R, x))
  <2> HIDE DEF R
  <2>1. ASSUME NEW x \in es PROVE rank(x) = place(x)
    BY <1>1
  <2>2. /\ c \in Nat
        /\ \A x \in es : place(x) \in 0 .. c - 1
        /\ \A x, y \in es : place(x) = place(y) => x = y
        /\ \A n \in 0 .. c - 1 : \E x \in es : place(x) = n
    BY <1>2, Ranks
  <2> HIDE DEF rank, place, c
  <2> QED
    BY <2>1, <2>2
<1>4. Ordered(es) = [n \in 1 .. c |-> CHOOSE x \in es : rank(x) = n - 1]
  BY DEF Ordered, Sorted
<1> HIDE DEF rank, c
<1>5. ASSUME NEW n \in 1 .. c
      PROVE  Ordered(es)[n] \in es /\ rank(Ordered(es)[n]) = n - 1
  <2>1. \E x \in es : rank(x) = n - 1
    BY <1>3
  <2> QED
    BY <1>4, <2>1
<1>6. Ordered(es) \in Seq(Event) /\ Len(Ordered(es)) = c
  BY <1>3, <1>4, <1>5 DEF Records
<1>7. ASSUME NEW e \in es PROVE \E n \in DOMAIN Ordered(es) : Ordered(es)[n] = e
  <2>1. rank(e) \in Int /\ rank(e) + 1 \in 1 .. c
    BY <1>3
  <2>2. Ordered(es)[rank(e) + 1] \in es /\ rank(Ordered(es)[rank(e) + 1]) = rank(e)
    BY <1>5, <2>1
  <2>3. Ordered(es)[rank(e) + 1] = e
    BY <1>3, <2>2
  <2> QED
    BY <1>4, <2>1, <2>3
<1> QED
  BY <1>6, <1>7 DEF c

\* The sessions to read are a list of session ids.
LEMMA SessionFilesType == SessionFiles \in Seq(Ids)
<1> DEFINE S == {s \in Sessions : store.ver[s] # 0}
           R == {p \in S \X S : Discovered(p[1], p[2])}
           c == Cardinality(S)
           place(x) == Cardinality(Below(S, R, x))
           rank(x) == Cardinality({y \in S : Discovered(y, x)})
<1>1. IsFiniteSet(S)
  BY StoreAssumption, FS_Subset
<1>2. TotalOrder(S, R)
  <2>1. \A x, y \in S : <<x, y>> \in R <=> Discovered(x, y)
    OBVIOUS
  <2>2. ASSUME NEW x \in Sessions PROVE CreatedAt[x] \in Int /\ IdOrder[x] \in Int
    BY StoreAssumption
  <2>3. ASSUME NEW x \in S PROVE ~Discovered(x, x)
    BY <2>2 DEF Discovered
  <2>4. ASSUME NEW x \in S, NEW y \in S PROVE x = y \/ Discovered(x, y) \/ Discovered(y, x)
    BY <2>2, StoreAssumption DEF Discovered
  <2>5. ASSUME NEW x \in S, NEW y \in S, NEW z \in S, Discovered(x, y), Discovered(y, z)
        PROVE  Discovered(x, z)
    BY <2>2, <2>5 DEF Discovered
  <2> HIDE DEF R, S
  <2> QED
    BY <2>1, <2>3, <2>4, <2>5 DEF TotalOrder
<1>3. ASSUME NEW x \in S PROVE rank(x) = place(x)
  <2>1. Below(S, R, x) = {y \in S : Discovered(y, x)}
    BY DEF Below
  <2> QED
    BY <2>1
<1>4. c \in Nat /\ \A n \in 1 .. c : \E x \in S : rank(x) = n - 1
  <2> HIDE DEF S, R
  <2>1. c \in Nat /\ \A n \in 0 .. c - 1 : \E x \in S : place(x) = n
    BY <1>1, <1>2, Ranks
  <2> HIDE DEF rank, place, c
  <2> QED
    BY <1>3, <2>1
<1>5. Sorted(S, Discovered) = [n \in 1 .. c |-> CHOOSE x \in S : rank(x) = n - 1]
  BY DEF Sorted
<1>6. S \subseteq Ids /\ StoreSession \in Ids
  BY DEF Ids
<1>7. Sorted(S, Discovered) \in Seq(Ids)
  <2> HIDE DEF S, rank, c
  <2>1. ASSUME NEW n \in 1 .. c PROVE (CHOOSE x \in S : rank(x) = n - 1) \in Ids
    BY <1>4, <1>6
  <2> QED
    BY <1>4, <1>5, <2>1
<1> QED
  BY <1>6, <1>7 DEF SessionFiles

------------------------------------------------------------------------------
(* The invariant. *)

HistoryOK == writes \in Nat /\ touched \in [Ids -> Nat]

\* Between passes nothing has been read; in a pass each record was read at most
\* once, the session first and then its rows, table by table.
PassInv ==
    /\ pc # "table" => table = 0
    /\ pc = "table" =>
          /\ Current \in Sessions
          /\ IsFiniteSet(buf) /\ Records(buf)
          /\ \E e \in buf : e.item = Current
          /\ \A e \in buf : e.item = Current \/ (e.item \in Rows /\ RankOf[e.item] <= table)

\* The stored generation is the last there is, and the one the next read is
\* compared with; none is stored for a session of which nothing was ever read.
KeptInv ==
    /\ \A s \in Ids :
          /\ DOMAIN events[s] \subseteq 0 .. rows[s].gen
          /\ ~rows[s].known \/ rows[s].print = <<>> => DOMAIN events[s] = {}
          /\ DOMAIN events[s] # {} =>
                rows[s].gen \in DOMAIN events[s] /\ events[s][rows[s].gen] = rows[s].print
    /\ DOMAIN events[StoreSession] = {}

IInv == TypeOK /\ HistoryOK /\ PassInv /\ KeptInv

LEMMA InitInvariant == Init => IInv
<1> SUFFICES ASSUME Init PROVE IInv
  OBVIOUS
<1>1. Unset \in Row
  BY StoreAssumption DEF Unset, Row, Ids
<1>2. store \in [kind : Kinds, ver : [Items -> Nat], bad : SUBSET Items, stamp : Nat]
  BY DEF Init, Kinds
<1>3. rows \in [Ids -> Row] /\ \A s \in Ids : rows[s] = Unset
  BY <1>1 DEF Init
<1>4. DOMAIN events = Ids /\ \A s \in Ids : events[s] = <<>> /\ DOMAIN events[s] = {}
  BY DEF Init
<1>5. TypeOK
  <2>1. \A s \in Ids : /\ DOMAIN events[s] \subseteq Nat
                       /\ \A g \in DOMAIN events[s] : events[s][g] \in Seq(Event)
    BY <1>4
  <2>2. todo \in Seq(Ids) /\ table \in 0 .. Tables /\ flagged \in BOOLEAN /\ stamp \in Int
    <3>1. todo = <<>> /\ table = 0 /\ flagged = FALSE /\ stamp = -1
      BY DEF Init
    <3>2. Tables \in {1, 3}
      BY DEF Tables
    <3>3. todo \in Seq(Ids)
      BY <3>1, EmptySeq
    <3>4. table \in 0 .. Tables
      BY <3>1, <3>2
    <3>5. stamp \in Int
      BY <3>1
    <3> QED
      BY <3>1, <3>3, <3>4, <3>5
  <2> QED
    BY <1>2, <1>3, <1>4, <2>1, <2>2 DEF Init, TypeOK
<1>6. HistoryOK /\ PassInv
  BY DEF Init, HistoryOK, PassInv
<1>7. KeptInv
  BY <1>3, <1>4 DEF KeptInv, Ids
<1> QED
  BY <1>5, <1>6, <1>7 DEF IInv

------------------------------------------------------------------------------
(* The agent writes. *)

\* What a write may do to what the reader depends on: a session that it does not
\* concern keeps its records.
LEMMA AgentStep ==
    ASSUME IInv, Agent
    PROVE  /\ IInv'
           /\ UNCHANGED <<source, db, proc>>
           /\ \E concerned \in SUBSET Sessions :
                 touched' = [s \in Ids |-> touched[s] + (IF s \in concerned THEN 1 ELSE 0)]
<1> USE DEF IInv
<1> DEFINE Store == [kind : Kinds, ver : [Items -> Nat], bad : SUBSET Items, stamp : Nat]
<1>1. ASSUME NEW new \in Store, NEW C \in SUBSET Sessions, Write(new, C)
      PROVE  /\ IInv' /\ UNCHANGED <<source, db, proc>>
             /\ touched' = [s \in Ids |-> touched[s] + (IF s \in C THEN 1 ELSE 0)]
  <2>1. store' \in Store /\ UNCHANGED <<source, db, proc>>
    <3>1. PICK t \in {store.stamp, store.stamp + 1} : store' = [new EXCEPT !.stamp = t]
      BY <1>1 DEF Write
    <3>2. t \in Nat
      BY DEF TypeOK
    <3>3. store' \in Store
      BY <3>1, <3>2
    <3> QED
      BY <1>1, <3>3 DEF Write
  <2>2. HistoryOK'
    BY <1>1 DEF Write, HistoryOK
  <2>3. TypeOK'
    BY <2>1 DEF TypeOK, Tables, db, proc
  <2>4. PassInv' /\ KeptInv'
    BY <2>1 DEF PassInv, KeptInv, Current, db, proc
  <2> QED
    BY <1>1, <2>1, <2>2, <2>3, <2>4 DEF Write
<1>2. ASSUME NEW i \in Items PROVE Concerns(i) \in SUBSET Sessions
  BY StoreAssumption DEF Concerns
<1>3. ASSUME NEW i \in Items, Put(i) PROVE \E new \in Store : Write(new, Concerns(i))
  <2>1. PICK bad \in BOOLEAN :
           Write([store EXCEPT !.ver[i] = writes + 1,
                               !.bad = IF bad THEN @ \cup {i} ELSE @ \ {i}], Concerns(i))
    BY <1>3 DEF Put
  <2>2. writes + 1 \in Nat
    BY DEF HistoryOK
  <2>3. [store EXCEPT !.ver[i] = writes + 1,
                      !.bad = IF bad THEN @ \cup {i} ELSE @ \ {i}] \in Store
    BY <2>2 DEF TypeOK
  <2> QED
    BY <2>1, <2>3
<1>4. ASSUME NEW i \in Items, Delete(i) PROVE \E new \in Store : Write(new, Concerns(i))
  <2> DEFINE gone == {i} \cup {r \in Rows : SessionOf[r] = i}
             new == [store EXCEPT !.ver = [j \in Items |-> IF j \in gone THEN 0 ELSE @[j]],
                                  !.bad = @ \ gone]
  <2>1. Write(new, Concerns(i))
    BY <1>4 DEF Delete
  <2>2. new \in Store
    <3> HIDE DEF gone
    <3> QED
      BY DEF TypeOK
  <2> QED
    BY <2>1, <2>2
<1>5. ASSUME NEW k \in Kinds, Become(k) PROVE \E new \in Store : Write(new, {})
  <2>1. [store EXCEPT !.kind = k] \in Store
    BY DEF TypeOK
  <2> QED
    BY <1>5, <2>1 DEF Become
<1>6. \E new \in Store, C \in SUBSET Sessions : Write(new, C)
  BY <1>2, <1>3, <1>4, <1>5 DEF Agent
<1> QED
  BY <1>1, <1>6

------------------------------------------------------------------------------
(* The ingest run: its list, its errors, its reads. *)

LEMMA ListGoesOn ==
    ASSUME TypeOK, pc # "idle"
    PROVE  /\ Current \in Ids
           /\ NextSession =>
                 /\ todo' \in Seq(Ids) /\ pc' \in {"idle", "stat"}
                 /\ pc' # "idle" => todo' # <<>>
                 /\ table' = 0 /\ buf' = {} /\ stamp' = -1
<1>1. todo \in Seq(Ids) /\ todo # <<>>
  BY DEF TypeOK
<1>2. Head(todo) \in Ids /\ Tail(todo) \in Seq(Ids) /\ Len(Tail(todo)) = Len(todo) - 1
      /\ Len(todo) \in Nat \ {0}
  BY <1>1, HeadTailProperties, EmptySeq
<1>3. Len(todo) # 1 => Tail(todo) # <<>>
  <2>1. Tail(todo) = <<>> => Len(Tail(todo)) = 0
    BY EmptySeq
  <2> QED
    BY <1>2, <2>1
<1> QED
  BY <1>2, <1>3 DEF Current, NextSession

LEMMA RowForType ==
    ASSUME TypeOK, NEW s \in Ids
    PROVE  /\ RowFor(s) \in Row /\ RowFor(s).known
           /\ rows[s].known => RowFor(s) = rows[s]
           /\ ~rows[s].known => RowFor(s).gen = 0 /\ RowFor(s).print = <<>>
<1>1. rows[s] \in Row
  BY DEF TypeOK
<1>2. Unset \in Row
  BY StoreAssumption DEF Unset, Row, Ids
<1>3. /\ [Unset EXCEPT !.known = TRUE] \in Row
      /\ [Unset EXCEPT !.known = TRUE].known
      /\ [Unset EXCEPT !.known = TRUE].gen = 0
      /\ [Unset EXCEPT !.known = TRUE].print = <<>>
  BY <1>2 DEF Unset, Row
<1> QED
  BY <1>1, <1>3 DEF RowFor

\* A read that fails leaves an error and at most a row without generations.
LEMMA ErrorStep ==
    ASSUME IInv, pc # "idle", NextSession, UNCHANGED <<agent, events, flagged>>,
           rows' = [rows EXCEPT ![Current] = RowFor(Current)],
           NEW kind \in {"invalid_session_meta", "not_file", "read_error"},
           errors' = Record(errors, [session |-> Current, gen |-> RowFor(Current).gen,
                                     kind |-> kind])
    PROVE  IInv'
<1> USE DEF IInv
<1>1. Current \in Ids /\ todo' \in Seq(Ids) /\ pc' \in {"idle", "stat"}
      /\ (pc' # "idle" => todo' # <<>>) /\ table' = 0 /\ buf' = {} /\ stamp' = -1
  BY ListGoesOn
<1>2. /\ rows' \in [Ids -> Row]
      /\ \A s \in Ids : rows'[s] = IF s = Current THEN RowFor(s) ELSE rows[s]
  BY <1>1, RowForType DEF TypeOK
<1>3. \A s \in Ids : /\ rows[s].known => rows'[s] = rows[s]
                     /\ rows[s].known => rows'[s].known
                     /\ ~rows[s].known => DOMAIN events[s] = {}
  BY <1>2, RowForType DEF KeptInv
<1>4. errors' \subseteq ErrorRow /\ \A e \in errors' : rows'[e.session].known
  <2>1. RowFor(Current) \in Row /\ RowFor(Current).gen \in Nat /\ RowFor(Current).known
    BY <1>1, RowForType DEF Row
  <2> DEFINE e == [session |-> Current, gen |-> RowFor(Current).gen, kind |-> kind]
  <2>2. e \in ErrorRow /\ e.session = Current
    BY <1>1, <2>1 DEF ErrorRow
  <2>3. \A f \in errors : f.session \in Ids /\ rows[f.session].known
    BY DEF TypeOK, ErrorRow
  <2> HIDE DEF e
  <2>4. errors' = errors \cup {e}
    BY DEF Record, e
  <2> QED
    BY <1>1, <1>2, <1>3, <2>1, <2>2, <2>3, <2>4 DEF TypeOK
<1>5. TypeOK'
  <2>1. \A s \in Ids : DOMAIN events[s] # {} => rows'[s].known
    BY <1>3
  <2>2. 0 \in 0 .. Tables /\ -1 \in Int
    BY DEF Tables
  <2> QED
    BY <1>1, <1>2, <1>4, <2>1, <2>2 DEF TypeOK, agent, Tables
<1>6. HistoryOK' /\ PassInv'
  BY <1>1 DEF HistoryOK, PassInv, agent
<1>7. KeptInv'
  BY <1>1, <1>2, <1>3 DEF KeptInv
<1> QED
  BY <1>5, <1>6, <1>7

LEMMA SessionEventType ==
    ASSUME TypeOK, NEW s \in Sessions
    PROVE  SessionEvent(s) \in Event /\ SessionEvent(s).item = s
<1>1. store.ver[s] \in Nat /\ store.ver[Project] \in Nat
  BY DEF TypeOK, Items
<1> QED
  BY <1>1 DEF SessionEvent, OpenCodeSessionEvent, HermesSessionEvent, Event

\* The rows of one table are finitely many records, one for each id.
LEMMA TableRead ==
    ASSUME TypeOK, NEW s \in Sessions, NEW k
    PROVE  LET found == {RowEvent(r) : r \in RowsIn(s, k)}
           IN  /\ IsFiniteSet(found) /\ Records(found)
               /\ \A e \in found : e.item \in Rows /\ RankOf[e.item] = k
<1> DEFINE found == {RowEvent(r) : r \in RowsIn(s, k)}
           f == [e \in found |-> e.item]
<1>1. ASSUME NEW r \in RowsIn(s, k)
      PROVE  RowEvent(r) \in Event /\ RowEvent(r).item = r /\ r \in Rows /\ RankOf[r] = k
  <2>1. r \in Rows /\ RankOf[r] = k /\ store.ver[r] \in Nat
    BY DEF RowsIn, TypeOK, Items
  <2> QED
    BY <2>1 DEF RowEvent, Event
<1>2. Records(found) /\ \A e \in found : e.item \in Rows /\ RankOf[e.item] = k
  BY <1>1 DEF Records
<1>3. f \in Injection(found, Rows)
  <2> HIDE DEF found
  <2>1. f \in [found -> Rows]
    BY <1>2
  <2>2. IsInjective(f)
    BY <1>2 DEF IsInjective, Records
  <2> QED
    BY <2>1, <2>2 DEF Injection
<1>4. IsFiniteSet(found)
  BY <1>3, FS_Injection, StoreAssumption
<1> QED
  BY <1>2, <1>4

------------------------------------------------------------------------------
(* The import of what was read. *)

\* A pass that read everything has a snapshot, in which the session itself is.
LEMMA SnapshotRead ==
    ASSUME IInv, pc = "table"
    PROVE  /\ Current \in Sessions
           /\ Ordered(buf) \in Seq(Event) /\ Ordered(buf) # <<>>
           /\ MetaOf(Ordered(buf), Current) \in Nat \X Nat
<1> DEFINE snap == Ordered(buf)
<1>1. PICK e \in buf : e.item = Current
  BY DEF IInv, PassInv
<1>2. snap \in Seq(Event) /\ \E n \in DOMAIN snap : snap[n] = e
  BY OrderedLists DEF IInv, PassInv
<1> HIDE DEF snap
<1>3. DOMAIN snap = 1 .. Len(snap) /\ \A n \in 1 .. Len(snap) : snap[n] \in Event
  BY <1>2, LenProperties, ElementOfSeq
<1>4. snap # <<>>
  BY <1>2, <1>3, EmptySeq
<1>5. MetaOf(snap, Current) \in Nat \X Nat
  <2> DEFINE i == CHOOSE i \in DOMAIN snap : snap[i].item = Current
  <2>1. i \in DOMAIN snap
    BY <1>1, <1>2
  <2>2. snap[i] \in Event
    BY <1>3, <2>1
  <2> HIDE DEF i
  <2>3. <<snap[i].ver, snap[i].project>> \in Nat \X Nat
    BY <2>2 DEF Event
  <2> QED
    BY <2>3 DEF MetaOf, i
<1> QED
  BY <1>2, <1>4, <1>5 DEF snap, IInv, PassInv

\* The next generation is a new one.
LEMMA GenerationIsNew ==
    ASSUME IInv, NEW s \in Ids
    PROVE  /\ Generation(rows[s]) \in Nat /\ Generation(rows[s]) \notin DOMAIN events[s]
           /\ DOMAIN events[s] \subseteq 0 .. Generation(rows[s])
<1>1. rows[s] \in Row /\ rows[s].gen \in Nat
  BY DEF IInv, TypeOK, Row
<1>2. DOMAIN events[s] \subseteq 0 .. rows[s].gen
      /\ (~rows[s].known \/ rows[s].print = <<>> => DOMAIN events[s] = {})
  BY DEF IInv, KeptInv
<1>3. CASE ~rows[s].known \/ IsPlaceholder(rows[s])
  BY <1>2, <1>3 DEF Generation, IsPlaceholder
<1>4. CASE rows[s].known /\ ~IsPlaceholder(rows[s])
  BY <1>1, <1>2, <1>4 DEF Generation
<1> QED
  BY <1>3, <1>4

\* It is stored as it was read.
LEMMA StoredIsSnapshot ==
    ASSUME IInv, NEW s \in Ids, NEW snap \in Seq(Event)
    PROVE  InsertOrIgnore(GenerationRows(s, Generation(rows[s])), snap) = snap
<1>1. GenerationRows(s, Generation(rows[s])) = <<>>
  BY GenerationIsNew DEF GenerationRows
<1>2. SubSeq(snap, Len(<<>>) + 1, Len(snap)) = snap
  <2>1. SubSeq(snap, 1, Len(snap)) = snap
    BY SubSeqFull
  <2>2. Len(<<>>) + 1 = 1
    BY EmptySeq
  <2> QED
    BY <2>1, <2>2
<1> QED
  BY <1>1, <1>2, ConcatEmptySeq DEF InsertOrIgnore

LEMMA RefreshedType ==
    ASSUME IInv, pc = "table", NEW row \in Row
    PROVE  LET new == Refreshed(row, Ordered(buf))
           IN  new \in Row /\ new.known /\ new.print = Ordered(buf) /\ new.gen = row.gen
<1>1. ResolvedParent(Current) \in Ids \cup {NoSession}
  BY SnapshotRead, StoreAssumption DEF ResolvedParent, Ids
<1>2. stamp \in Int
  BY DEF IInv, TypeOK
<1>3. Ordered(buf) \in Seq(Event) /\ MetaOf(Ordered(buf), Current) \in {<<>>} \cup (Nat \X Nat)
  BY SnapshotRead
<1> QED
  BY <1>1, <1>2, <1>3 DEF Refreshed, Row

\* An import writes nothing that a reader could miss, or a new generation.
LEMMA ImportWrites ==
    ASSUME IInv, Import
    PROVE  LET snap == Ordered(buf)
               g == Generation(rows[Current])
           IN  /\ rows' \in [Ids -> Row]
               /\ \A s \in Ids \ {Current} : rows'[s] = rows[s]
               /\ rows'[Current].known /\ rows'[Current].print = snap
               /\ \/ /\ rows[Current].known /\ rows[Current].print = snap
                     /\ rows'[Current].gen = rows[Current].gen
                     /\ events' = events
                  \/ /\ ~rows[Current].known \/ rows[Current].print # snap
                     /\ rows'[Current].gen = g
                     /\ events' = [events EXCEPT ![Current] =
                                     [k \in DOMAIN @ \cup {g} |-> IF k = g THEN snap ELSE @[k]]]
<1> USE DEF IInv
<1> DEFINE snap == Ordered(buf)
           row == rows[Current]
           g == Generation(row)
<1>1. pc = "table" /\ Current \in Ids /\ row \in Row /\ rows \in [Ids -> Row]
  BY ListGoesOn DEF Import, TypeOK
<1>2. snap \in Seq(Event) /\ g \in Nat /\ InsertOrIgnore(GenerationRows(Current, g), snap) = snap
  BY <1>1, SnapshotRead, GenerationIsNew, StoredIsSnapshot
<1>3. CASE row.known /\ ~Differs(row, snap)
  <2>1. events' = events /\ row.print = snap
        /\ rows' \in {rows, [rows EXCEPT ![Current] = Refreshed(row, snap)]}
    BY <1>3 DEF Import, Differs
  <2>2. LET new == Refreshed(row, snap)
        IN  new \in Row /\ new.known /\ new.print = snap /\ new.gen = row.gen
    BY <1>1, RefreshedType
  <2> HIDE DEF snap
  <2> QED
    BY <1>1, <1>3, <2>1, <2>2 DEF snap
<1>4. CASE ~(row.known /\ ~Differs(row, snap))
  <2> DEFINE base == Refreshed(RowFor(Current), snap)
             new == [base EXCEPT !.gen = g, !.count = Len(snap)]
  <2>1. /\ events' = [events EXCEPT ![Current] =
                         [k \in DOMAIN @ \cup {g} |-> IF k = g THEN snap ELSE @[k]]]
        /\ rows' = [rows EXCEPT ![Current] = new]
    BY <1>2, <1>4 DEF Import
  <2>2. base \in Row /\ base.known /\ base.print = snap
    BY <1>1, RowForType, RefreshedType
  <2>3. Len(snap) \in Nat
    BY <1>2, LenProperties
  <2> HIDE DEF base, snap, g
  <2>4. new \in Row /\ new.known /\ new.print = snap /\ new.gen = g
    BY <1>2, <2>2, <2>3 DEF Row
  <2> HIDE DEF new
  <2>5. row.print # snap \/ ~row.known
    BY <1>4 DEF Differs
  <2>6. /\ rows' \in [Ids -> Row] /\ rows'[Current] = new
        /\ \A s \in Ids \ {Current} : rows'[s] = rows[s]
    BY <1>1, <2>1, <2>4
  <2> QED
    BY <2>1, <2>4, <2>5, <2>6 DEF snap, g
<1> QED
  BY <1>3, <1>4

\* The generations of every session, after an import.
LEMMA ImportKeeps ==
    ASSUME IInv, Import
    PROVE  /\ IInv'
           /\ \A s \in Ids : \A g \in DOMAIN events[s] :
                 g \in DOMAIN events'[s] /\ events'[s][g] = events[s][g]
<1> USE DEF IInv
<1> DEFINE snap == Ordered(buf)
           new == Generation(rows[Current])
<1>1. pc = "table" /\ Current \in Ids /\ snap \in Seq(Event) /\ snap # <<>>
      /\ Current \in Sessions /\ Current # StoreSession
  BY ListGoesOn, SnapshotRead, StoreAssumption DEF Import
<1>2. /\ todo' \in Seq(Ids) /\ pc' \in {"idle", "stat"} /\ (pc' # "idle" => todo' # <<>>)
      /\ table' = 0 /\ buf' = {} /\ stamp' = -1
      /\ flagged' = FALSE /\ errors' \subseteq errors /\ UNCHANGED agent
  BY <1>1, ListGoesOn DEF Import, Resolve
<1>3. /\ rows' \in [Ids -> Row]
      /\ \A s \in Ids \ {Current} : rows'[s] = rows[s]
      /\ rows'[Current].known /\ rows'[Current].print = snap
  BY ImportWrites
<1>4. /\ new \in Nat /\ new \notin DOMAIN events[Current]
      /\ DOMAIN events[Current] \subseteq 0 .. new
  BY <1>1, GenerationIsNew
<1>5. \/ /\ events' = events /\ rows'[Current].gen = rows[Current].gen
         /\ rows[Current].print = snap
      \/ /\ rows'[Current].gen = new
         /\ events' = [events EXCEPT ![Current] =
                         [k \in DOMAIN @ \cup {new} |-> IF k = new THEN snap ELSE @[k]]]
  BY ImportWrites
<1> HIDE DEF snap, new
<1>6. /\ DOMAIN events' = Ids
      /\ \A s \in Ids \ {Current} : events'[s] = events[s]
      /\ \/ /\ events'[Current] = events[Current] /\ rows'[Current].gen = rows[Current].gen
            /\ rows[Current].print = snap
         \/ /\ rows'[Current].gen = new
            /\ DOMAIN events'[Current] = DOMAIN events[Current] \cup {new}
            /\ events'[Current][new] = snap
            /\ \A k \in DOMAIN events[Current] : events'[Current][k] = events[Current][k]
  BY <1>1, <1>4, <1>5 DEF TypeOK
<1>7. TypeOK'
  <2>1. \A s \in Ids : /\ DOMAIN events'[s] \subseteq Nat
                       /\ \A k \in DOMAIN events'[s] : events'[s][k] \in Seq(Event)
    BY <1>1, <1>4, <1>6 DEF TypeOK
  <2>2. \A s \in Ids : rows[s].known => rows'[s].known
    BY <1>3
  <2>3. errors' \subseteq ErrorRow /\ \A e \in errors' : rows'[e.session].known
    BY <1>2, <2>2 DEF TypeOK, ErrorRow
  <2>4. \A s \in Ids : DOMAIN events'[s] # {} => rows'[s].known
    BY <1>3, <1>6, <2>2 DEF TypeOK
  <2>5. 0 \in 0 .. Tables /\ -1 \in Int
    BY DEF Tables
  <2> QED
    BY <1>2, <1>3, <1>6, <2>1, <2>3, <2>4, <2>5 DEF TypeOK, agent, Tables
<1>8. HistoryOK' /\ PassInv'
  BY <1>2 DEF HistoryOK, PassInv, agent
<1>9. KeptInv'
  <2>1. /\ DOMAIN events'[Current] \subseteq 0 .. rows'[Current].gen
        /\ rows'[Current].known /\ rows'[Current].print # <<>>
    BY <1>1, <1>3, <1>4, <1>6 DEF KeptInv
  <2>2. DOMAIN events'[Current] # {} =>
          /\ rows'[Current].gen \in DOMAIN events'[Current]
          /\ events'[Current][rows'[Current].gen] = rows'[Current].print
    BY <1>1, <1>3, <1>6 DEF KeptInv
  <2>3. ASSUME NEW s \in Ids \ {Current}
        PROVE  rows'[s] = rows[s] /\ events'[s] = events[s]
    BY <1>3, <1>6
  <2>4. StoreSession \in Ids \ {Current}
    BY <1>1 DEF Ids
  <2> QED
    BY <2>1, <2>2, <2>3, <2>4 DEF KeptInv
<1> QED
  BY <1>6, <1>7, <1>8, <1>9

------------------------------------------------------------------------------
(* Every step. *)

LEMMA ReadSessionStep ==
    ASSUME IInv, ReadSession
    PROVE  IInv' /\ events' = events
<1> USE DEF IInv
<1>1. pc = "session" /\ table = 0
  BY DEF ReadSession, PassInv
<1>2. CASE SessionFails
  <2>1. RecordError("invalid_session_meta")
    BY <1>2 DEF ReadSession
  <2> QED
    BY <1>1, <2>1, ErrorStep DEF RecordError
<1>3. CASE ~SessionFails
  <2>1. /\ buf' = {SessionEvent(Current)} /\ pc' = "table"
        /\ UNCHANGED <<agent, db, todo, flagged, stamp, table, faults>>
    BY <1>3 DEF ReadSession
  <2>2. Current \in Sessions
    BY <1>3 DEF SessionFails
  <2>3. SessionEvent(Current) \in Event /\ SessionEvent(Current).item = Current
    BY <2>2, SessionEventType
  <2>4. IsFiniteSet(buf') /\ Records(buf')
    BY <2>1, <2>3, FS_Singleton DEF Records
  <2>5. PassInv'
    BY <1>1, <2>1, <2>2, <2>3, <2>4 DEF PassInv, Current
  <2>6. TypeOK'
    BY <1>1, <2>1, <2>3 DEF TypeOK, agent, db, Tables
  <2> QED
    BY <2>1, <2>5, <2>6 DEF HistoryOK, KeptInv, agent, db
<1> QED
  BY <1>2, <1>3

LEMMA ReadTableStep ==
    ASSUME IInv, ReadTable
    PROVE  IInv' /\ events' = events
<1> USE DEF IInv
<1> DEFINE found == {RowEvent(r) : r \in RowsIn(Current, table + 1)}
<1>1. pc = "table" /\ table < Tables /\ Current \in Sessions
  BY DEF ReadTable, PassInv
<1>2. CASE RecordError("invalid_session_meta")
  BY <1>1, <1>2, ErrorStep DEF RecordError
<1>3. CASE /\ buf' = buf \cup found /\ table' = table + 1
           /\ UNCHANGED <<agent, db, pc, todo, flagged, stamp, faults>>
  <2>1. /\ IsFiniteSet(found) /\ Records(found)
        /\ \A e \in found : e.item \in Rows /\ RankOf[e.item] = table + 1
    BY <1>1, TableRead
  <2>2. /\ IsFiniteSet(buf) /\ Records(buf) /\ table \in Int
        /\ \A e \in buf : e.item = Current \/ (e.item \in Rows /\ RankOf[e.item] <= table)
        /\ Current \notin Rows
    BY <1>1, StoreAssumption DEF PassInv, TypeOK
  <2> HIDE DEF found
  <2>3. IsFiniteSet(buf')
    BY <1>3, <2>1, <2>2, FS_Union
  <2>4. \A e \in buf, f \in found : e.item # f.item
    BY <2>1, <2>2
  <2>5. Records(buf')
    BY <1>3, <2>1, <2>2, <2>4 DEF Records
  <2>6. \A e \in buf' : e.item = Current \/ (e.item \in Rows /\ RankOf[e.item] <= table + 1)
    <3>1. table + 1 <= table + 1 /\ \A k \in Int : k <= table => k <= table + 1
      BY <2>2
    <3>2. \A r \in Rows : RankOf[r] \in Int
      BY StoreAssumption
    <3> QED
      BY <1>3, <2>1, <2>2, <3>1, <3>2
  <2>7. PassInv'
    BY <1>1, <1>3, <2>3, <2>5, <2>6 DEF PassInv, Current
  <2>8. TypeOK'
    <3>1. table' \in 0 .. Tables
      BY <1>1, <1>3 DEF TypeOK, Tables
    <3> QED
      BY <1>3, <2>5, <3>1 DEF TypeOK, agent, db, Tables, Records
  <2> QED
    BY <1>3, <2>7, <2>8 DEF HistoryOK, KeptInv, agent, db
<1> QED
  BY <1>2, <1>3 DEF ReadTable

\* What a step does to stored generations: nothing but an import adds to them.
LEMMA NextStep ==
    ASSUME IInv, [Next]_vars
    PROVE  /\ IInv'
           /\ \A s \in Ids : \A g \in DOMAIN events[s] :
                 g \in DOMAIN events'[s] /\ events'[s][g] = events[s][g]
<1> USE DEF IInv
<1>1. CASE Agent
  BY <1>1, AgentStep DEF db
<1>2. CASE StartRun
  <2>1. /\ todo' = SessionFiles /\ pc' = (IF todo' = <<>> THEN "idle" ELSE "stat")
        /\ flagged' \in BOOLEAN /\ pc = "idle"
        /\ UNCHANGED <<agent, db, stamp, table, buf, faults>>
    BY <1>2 DEF StartRun
  <2>2. TypeOK'
    BY <2>1, SessionFilesType DEF TypeOK, agent, db, Tables
  <2>3. PassInv' /\ KeptInv' /\ HistoryOK'
    BY <2>1 DEF PassInv, KeptInv, HistoryOK, agent, db
  <2> QED
    BY <2>1, <2>2, <2>3 DEF db
<1>3. CASE Stat
  <2>1. CASE \E kind \in {"not_file", "read_error"} : RecordError(kind)
    BY <1>3, <2>1, ErrorStep DEF Stat, RecordError
  <2>2. CASE /\ stamp' = store.stamp /\ pc' = "session" /\ pc = "stat"
             /\ UNCHANGED <<agent, db, todo, flagged, table, buf, faults>>
    <3>1. TypeOK'
      BY <2>2 DEF TypeOK, agent, db, Tables
    <3> QED
      BY <2>2, <3>1 DEF PassInv, KeptInv, HistoryOK, agent, db
  <2> QED
    BY <1>3, <2>1, <2>2 DEF Stat
<1>4. CASE ReadSession
  BY <1>4, ReadSessionStep
<1>5. CASE ReadTable
  BY <1>5, ReadTableStep
<1>6. CASE Import
  BY <1>6, ImportKeeps
<1>7. CASE Busy
  BY <1>7, ErrorStep DEF Busy
<1>8. CASE Crash
  <2>1. /\ pc' = "idle" /\ todo' = <<>> /\ buf' = {} /\ stamp' = -1 /\ table' = 0
        /\ flagged' = FALSE /\ UNCHANGED <<agent, db>>
    BY <1>8 DEF Crash
  <2>2. todo' \in Seq(Ids) /\ 0 \in 0 .. Tables /\ -1 \in Int
    BY <2>1, EmptySeq DEF Tables
  <2>3. TypeOK'
    BY <2>1, <2>2 DEF TypeOK, agent, db, Tables
  <2> QED
    BY <2>1, <2>3 DEF PassInv, KeptInv, HistoryOK, agent, db
<1>9. CASE UNCHANGED vars
  <2>1. TypeOK'
    BY <1>9 DEF TypeOK, vars, agent, db, proc, Tables
  <2> QED
    BY <1>9, <2>1 DEF PassInv, KeptInv, HistoryOK, vars, agent, db, proc, Current
<1> QED
  BY <1>1, <1>2, <1>3, <1>4, <1>5, <1>6, <1>7, <1>8, <1>9 DEF Next, Step

LEMMA InvariantHolds == Spec => []IInv
<1>1. IInv /\ [Next]_vars => IInv'
  BY NextStep
<1> QED
  BY <1>1, InitInvariant, PTL DEF Spec

\* Every variable keeps its type: what is stored is sequences of records, the
\* snapshot has the session it is of, and every error and every generation
\* belongs to a session row.
THEOREM TypeCorrect == Spec => []TypeOK
<1>1. IInv => TypeOK
  BY DEF IInv
<1> QED
  BY <1>1, InvariantHolds, PTL

\* What the next read is compared with is the last generation that is stored,
\* whatever failed or was killed between.
THEOREM FingerprintsAreStored == Spec => []FingerprintIsStored
<1>1. IInv => FingerprintIsStored
  BY DEF IInv, KeptInv, FingerprintIsStored
<1> QED
  BY <1>1, InvariantHolds, PTL

\* A stored generation is never changed, extended or removed, whatever the agent
\* does to its store while and after it is read.
THEOREM StoredForGood == Spec => GenerationsKept
<1>1. IInv /\ [Next]_vars =>
        [\A s \in Ids : \A g \in DOMAIN events[s] :
            g \in DOMAIN events'[s] /\ events'[s][g] = events[s][g]]_vars
  BY NextStep
<1> QED
  BY <1>1, InvariantHolds, PTL DEF Spec, GenerationsKept

------------------------------------------------------------------------------
(* One generation for each change.                                            *)

Owed(p) == IF p THEN 1 ELSE 0

\* What a read of one table, or of the tables ks, finds now.
TableNow(s, k) == {RowEvent(r) : r \in RowsIn(s, k)}
TablesNow(s, ks) == UNION {TableNow(s, k) : k \in ks}

\* What the pass has read, were it read now; what it will have read in the end,
\* if nobody writes.
ReadNow(s) == {SessionEvent(s)} \cup TablesNow(s, 1 .. table)
Coming(s) == buf \cup TablesNow(s, table + 1 .. Tables)

IsNew(s, snap) == ~rows[s].known \/ rows[s].print # snap
Generations(s) == Cardinality(DOMAIN events[s])

\* Outside a pass a session that differs from what is stored of it has a write
\* to its credit.  In a pass there are two that may be owed: one if what the pass
\* is going to import is new, one if what it has read is already outdated, for
\* then the next pass imports again.
CreditInv ==
    \A s \in Sessions :
        Generations(s) + Owed(store.ver[s] # 0 /\ IsNew(s, SnapshotOf(s))) <= touched[s]

PassCreditInv ==
    pc = "table" =>
        Generations(Current) + Owed(IsNew(Current, Ordered(Coming(Current))))
            + Owed(store.ver[Current] # 0 /\ buf # ReadNow(Current)) <= touched[Current]

CountInv == CreditInv /\ PassCreditInv

LEMMA OwedType ==
    ASSUME NEW p PROVE Owed(p) \in {0, 1} /\ (p => Owed(p) = 1) /\ (~p => Owed(p) = 0)
BY DEF Owed

LEMMA CountTypes ==
    ASSUME IInv, NEW s \in Ids
    PROVE  IsFiniteSet(DOMAIN events[s]) /\ Generations(s) \in Nat /\ touched[s] \in Nat
<1>1. DOMAIN events[s] \in SUBSET (0 .. rows[s].gen) /\ rows[s].gen \in Nat
  BY DEF IInv, KeptInv, TypeOK, Row
<1>2. IsFiniteSet(0 .. rows[s].gen)
  BY <1>1, FS_Interval
<1>3. IsFiniteSet(DOMAIN events[s])
  BY <1>1, <1>2, FS_Subset
<1> QED
  BY <1>3, FS_CardinalityType DEF Generations, IInv, HistoryOK

LEMMA SnapshotIsComing ==
    ASSUME NEW s PROVE SnapshotOf(s) = Ordered({SessionEvent(s)} \cup TablesNow(s, 1 .. Tables))
BY DEF SnapshotOf, TablesNow, TableNow

LEMMA InitCount == Init => CountInv
<1> SUFFICES ASSUME Init PROVE CountInv
  OBVIOUS
<1>1. ASSUME NEW s \in Sessions
      PROVE  Generations(s) = 0 /\ touched[s] = 0 /\ store.ver[s] = 0
  <2>1. s \in Ids /\ s \in Items
    BY DEF Ids, Items
  <2>2. events[s] = <<>> /\ touched[s] = 0 /\ store.ver[s] = 0
    BY <2>1 DEF Init
  <2>3. DOMAIN events[s] = {}
    BY <2>2
  <2> QED
    BY <2>2, <2>3, FS_EmptySet DEF Generations
<1>2. CreditInv
  BY <1>1 DEF CreditInv, Owed
<1> QED
  BY <1>2 DEF Init, CountInv, PassCreditInv

\* The tables that a step leaves alone read the same.
LEMMA TableKept ==
    ASSUME NEW s, NEW k,
           \A r \in Rows : SessionOf[r] = s /\ RankOf[r] = k => store'.ver[r] = store.ver[r]
    PROVE  TableNow(s, k)' = TableNow(s, k)
<1>1. RowsIn(s, k)' = RowsIn(s, k)
  BY DEF RowsIn
<1>2. \A r \in RowsIn(s, k) : RowEvent(r)' = RowEvent(r)
  BY DEF RowsIn, RowEvent
<1> QED
  BY <1>1, <1>2 DEF TableNow

\* A write to the store leaves a session alone, or it counts as one to it and
\* deletes it, spares its rows, or touches one table of them.
SameTable(s, k) == TableNow(s, k)' = TableNow(s, k)
SameRecord(s) == store'.ver[s] = store.ver[s] /\ SessionEvent(s)' = SessionEvent(s)

Spared(s) == SameRecord(s) /\ (\A k \in 1 .. 3 : SameTable(s, k)) /\ touched'[s] = touched[s]
Written(s) ==
    /\ touched'[s] = touched[s] + 1
    /\ \/ store'.ver[s] = 0
       \/ \A k \in 1 .. 3 : SameTable(s, k)
       \/ SameRecord(s) /\ \E n \in 1 .. 3 : \A k \in (1 .. 3) \ {n} : SameTable(s, k)

LEMMA WriteEffect ==
    ASSUME IInv, Agent, NEW s \in Sessions
    PROVE  Spared(s) \/ Written(s)
<1> USE DEF IInv
<1>1. source' = source /\ s \in Ids /\ touched \in [Ids -> Nat] /\ s \in Items /\ Project \in Items
      /\ store.ver \in [Items -> Nat] /\ Sessions \cup Rows \subseteq Items
      /\ s \notin Rows /\ s # Project /\ Project \notin Rows
  BY AgentStep, StoreAssumption DEF HistoryOK, TypeOK, Ids, Items
<1>2. store'.ver[s] = store.ver[s] /\ store'.ver[Project] = store.ver[Project] => SameRecord(s)
  BY <1>1 DEF SameRecord, SessionEvent, OpenCodeSessionEvent, HermesSessionEvent
<1>3. ASSUME \A r \in Rows : SessionOf[r] = s => store'.ver[r] = store.ver[r]
      PROVE  \A k \in 1 .. 3 : SameTable(s, k)
  BY <1>3, TableKept DEF SameTable
<1>4. ASSUME NEW i \in Items, NEW C, NEW gone \in SUBSET Items,
             \A j \in Items \ gone : store'.ver[j] = store.ver[j],
             gone = {i} \/ (i \in Sessions /\ gone = {i} \cup {r \in Rows : SessionOf[r] = i}
                             /\ store'.ver[i] = 0),
             C = Concerns(i),
             touched' = [q \in Ids |-> touched[q] + (IF q \in C THEN 1 ELSE 0)]
      PROVE  Spared(s) \/ Written(s)
  <2>1. touched'[s] = touched[s] + (IF s \in Concerns(i) THEN 1 ELSE 0) /\ touched[s] \in Nat
    BY <1>1, <1>4
  <2>2. CASE i \in Rows
    <3>1. gone = {i} /\ SameRecord(s)
      BY <1>1, <1>2, <1>4, <2>2, StoreAssumption
    <3>2. RankOf[i] \in 1 .. 3
      BY <2>2, StoreAssumption
    <3>3. ASSUME NEW k \in 1 .. 3, k # RankOf[i] \/ SessionOf[i] # s
          PROVE  SameTable(s, k)
      BY <1>1, <1>4, <3>1, <3>3, TableKept DEF SameTable
    <3>4. Concerns(i) = {SessionOf[i]}
      BY <2>2 DEF Concerns
    <3> QED
      BY <2>1, <3>1, <3>2, <3>3, <3>4 DEF Spared, Written
  <2>3. CASE i \in Sessions
    <3>1. Concerns(i) = {i} /\ i \notin Rows /\ i # Project
      BY <2>3, StoreAssumption DEF Concerns
    <3>2. CASE gone # {i} /\ i = s
      BY <1>4, <2>1, <3>1, <3>2 DEF Written
    <3>3. CASE gone = {i} \/ i # s
      <4>1. \A r \in Rows : SessionOf[r] = s => r \notin gone
        BY <1>4, <3>1, <3>3
      <4>2. \A k \in 1 .. 3 : SameTable(s, k)
        BY <1>1, <1>3, <1>4, <4>1
      <4>3. i # s => SameRecord(s)
        BY <1>1, <1>2, <1>4, <3>1
      <4> QED
        BY <2>1, <3>1, <4>2, <4>3 DEF Spared, Written
    <3> QED
      BY <3>2, <3>3
  <2>4. CASE i = Project
    <3>1. \A k \in 1 .. 3 : SameTable(s, k)
      BY <1>1, <1>3, <1>4, <2>4, StoreAssumption
    <3>2. s \in Concerns(i)
      BY <2>4, StoreAssumption DEF Concerns
    <3> QED
      BY <2>1, <3>1, <3>2 DEF Written
  <2> QED
    BY <2>2, <2>3, <2>4 DEF Items
<1>5. ASSUME NEW i \in Items, Put(i) PROVE Spared(s) \/ Written(s)
  <2>1. /\ touched' = [q \in Ids |-> touched[q] + (IF q \in Concerns(i) THEN 1 ELSE 0)]
        /\ store'.ver = [store.ver EXCEPT ![i] = writes + 1]
    BY <1>5 DEF Put, Write, TypeOK
  <2> DEFINE gone == {i}
  <2>2. gone \in SUBSET Items /\ \A j \in Items \ gone : store'.ver[j] = store.ver[j]
    BY <1>1, <2>1
  <2>3. gone = {i}
    OBVIOUS
  <2> HIDE DEF gone
  <2> QED
    BY <1>4, <2>1, <2>2, <2>3
<1>6. ASSUME NEW i \in Items, Delete(i) PROVE Spared(s) \/ Written(s)
  <2> DEFINE gone == {i} \cup {r \in Rows : SessionOf[r] = i}
  <2>1. /\ touched' = [q \in Ids |-> touched[q] + (IF q \in Concerns(i) THEN 1 ELSE 0)]
        /\ store'.ver = [j \in Items |-> IF j \in gone THEN 0 ELSE store.ver[j]]
    BY <1>6 DEF Delete, Write, TypeOK
  <2>2. gone \in SUBSET Items /\ (i \notin Sessions => gone = {i})
    BY StoreAssumption DEF Items
  <2> HIDE DEF gone
  <2>3. i \in gone
    BY DEF gone
  <2>4. \A j \in Items \ gone : store'.ver[j] = store.ver[j]
    BY <2>1
  <2>5. store'.ver[i] = 0
    BY <2>1, <2>3
  <2>6. gone = {i} \/ (i \in Sessions /\ gone = {i} \cup {r \in Rows : SessionOf[r] = i})
    BY <2>2 DEF gone
  <2> QED
    BY <1>4, <2>1, <2>2, <2>4, <2>5, <2>6
<1>7. ASSUME NEW k \in Kinds, Become(k) PROVE Spared(s)
  <2>1. store'.ver = store.ver /\ touched'[s] = touched[s]
    BY <1>1, <1>7 DEF Become, Write, TypeOK
  <2> QED
    BY <1>2, <1>3, <2>1 DEF Spared
<1> QED
  BY <1>5, <1>6, <1>7 DEF Agent

\* A write is worth the one credit that it may cost.
LEMMA AgentCount ==
    ASSUME IInv, CountInv, Agent
    PROVE  CountInv'
<1>1. /\ source' = source /\ rows' = rows /\ events' = events
      /\ pc' = pc /\ todo' = todo /\ table' = table /\ buf' = buf
      /\ Tables' = Tables /\ Tables \in {1, 3} /\ table \in 0 .. Tables
  BY AgentStep DEF db, proc, Tables, IInv, TypeOK
<1>2. ASSUME NEW s \in Sessions
      PROVE  Generations(s)' = Generations(s) /\ Generations(s) \in Nat /\ touched[s] \in Nat
  BY <1>1, CountTypes DEF Generations, Ids
<1>3. ASSUME NEW s \in Sessions, Written(s)
      PROVE  Generations(s) + 1 <= touched'[s]
  BY <1>2, <1>3, OwedType DEF CountInv, CreditInv, Written
<1>4. ASSUME NEW s \in Sessions
      PROVE  Generations(s)' + Owed(store.ver[s] # 0 /\ IsNew(s, SnapshotOf(s)))' <= touched'[s]
  <2>1. CASE Spared(s)
    <3>1. SameRecord(s) /\ touched'[s] = touched[s] /\ \A k \in 1 .. 3 : SameTable(s, k)
      BY <2>1 DEF Spared
    <3>2. TablesNow(s, 1 .. Tables)' = TablesNow(s, 1 .. Tables)
      BY <1>1, <3>1 DEF TablesNow, SameTable
    <3>3. SnapshotOf(s)' = SnapshotOf(s)
      BY <1>1, <3>1, <3>2 DEF SnapshotOf, TablesNow, TableNow, SameRecord
    <3>4. Owed(store.ver[s] # 0 /\ IsNew(s, SnapshotOf(s)))'
            = Owed(store.ver[s] # 0 /\ IsNew(s, SnapshotOf(s)))
      BY <1>1, <3>1, <3>3 DEF Owed, IsNew, SameRecord
    <3> QED
      BY <1>2, <3>1, <3>4 DEF CountInv, CreditInv
  <2>2. CASE Written(s)
    <3>1. Owed(store.ver[s] # 0 /\ IsNew(s, SnapshotOf(s)))' \in {0, 1}
      BY DEF Owed
    <3>2. touched'[s] \in Nat
      BY <1>2, <2>2 DEF Written
    <3> QED
      BY <1>2, <1>3, <2>2, <3>1, <3>2
  <2> QED
    BY <2>1, <2>2, WriteEffect
<1>5. ASSUME pc = "table"
      PROVE  LET s == Current
             IN  Generations(s)' + Owed(IsNew(s, Ordered(Coming(s))))'
                   + Owed(store.ver[s] # 0 /\ buf # ReadNow(s))' <= touched'[s]
  <2> DEFINE s == Current
             new == Owed(IsNew(s, Ordered(Coming(s))))
             stale == Owed(store.ver[s] # 0 /\ buf # ReadNow(s))
  <2>1. s \in Sessions /\ Current' = Current
    BY <1>1, <1>5 DEF IInv, PassInv, Current
  <2>2. /\ Generations(s) + new + stale <= touched[s]
        /\ new \in {0, 1} /\ stale \in {0, 1} /\ new' \in {0, 1} /\ stale' \in {0, 1}
    BY <1>5 DEF CountInv, PassCreditInv, Owed
  <2>7. Generations(s)' = Generations(s) /\ Generations(s) \in Nat /\ touched[s] \in Nat
    BY <1>1, <1>2, <2>1 DEF Generations
  <2>3. ASSUME \A k \in 1 .. table : SameTable(s, k), SameRecord(s)
        PROVE  stale' = stale
    <3>1. ReadNow(s)' = ReadNow(s)
      BY <1>1, <2>1, <2>3 DEF ReadNow, TablesNow, SameTable, SameRecord
    <3> QED
      BY <1>1, <2>1, <2>3, <3>1 DEF Owed, SameRecord
  <2>4. ASSUME \A k \in table + 1 .. Tables : SameTable(s, k)
        PROVE  new' = new
    <3>1. Coming(s)' = Coming(s)
      BY <1>1, <2>1, <2>4 DEF Coming, TablesNow, SameTable
    <3>2. Ordered(Coming(s))' = Ordered(Coming(s))
      BY <3>1 DEF Ordered, Sorted, Precedes, Rank
    <3> QED
      BY <1>1, <2>1, <3>2 DEF Owed, IsNew
  <2>5. CASE Spared(s)
    <3>1. new' = new /\ stale' = stale /\ touched'[s] = touched[s]
      BY <1>1, <2>3, <2>4, <2>5 DEF Spared
    <3> HIDE DEF new, stale, s
    <3>2. Generations(s)' + new' + stale' <= touched'[s]
      BY <2>2, <2>7, <3>1
    <3> QED
      BY <2>1, <3>2 DEF new, stale, s
  <2>6. CASE Written(s)
    <3>1. touched'[s] = touched[s] + 1
      BY <2>6 DEF Written
    <3>2. new' = new \/ stale' = 0 \/ stale' = stale
      <4>1. CASE store'.ver[s] = 0
        BY <2>1, <4>1 DEF Owed
      <4>2. CASE \A k \in 1 .. 3 : SameTable(s, k)
        BY <1>1, <2>4, <4>2
      <4>3. ASSUME SameRecord(s), NEW n \in 1 .. 3, \A k \in (1 .. 3) \ {n} : SameTable(s, k)
            PROVE  new' = new \/ stale' = stale
        <5>1. CASE n <= table
          BY <1>1, <2>4, <4>3, <5>1
        <5>2. CASE n > table
          BY <1>1, <2>3, <4>3, <5>2
        <5> QED
          BY <1>1, <5>1, <5>2
      <4> QED
        BY <2>6, <4>1, <4>2, <4>3 DEF Written
    <3> HIDE DEF new, stale, s
    <3>3. Generations(s)' + new' + stale' <= touched'[s]
      BY <2>2, <2>7, <3>1, <3>2
    <3> QED
      BY <2>1, <3>3 DEF new, stale, s
  <2> QED
    BY <2>1, <2>5, <2>6, WriteEffect
<1> QED
  BY <1>1, <1>4, <1>5 DEF CountInv, CreditInv, PassCreditInv, Current

\* A run that stores nothing owes no more than before: at most it adds the row of
\* a session that had none.
LEMMA CreditKept ==
    ASSUME IInv, CountInv, UNCHANGED <<agent, events>>,
           \A s \in Sessions : rows'[s] = rows[s] \/ ~rows[s].known
    PROVE  CreditInv'
<1> SUFFICES ASSUME NEW s \in Sessions
             PROVE  Generations(s)' + Owed(store.ver[s] # 0 /\ IsNew(s, SnapshotOf(s)))' <= touched'[s]
  BY DEF CreditInv
<1>1. /\ SnapshotOf(s)' = SnapshotOf(s)
      /\ Generations(s)' = Generations(s) /\ store' = store /\ touched' = touched
  BY DEF SnapshotOf, SessionEvent, OpenCodeSessionEvent, HermesSessionEvent, RowEvent, RowsIn,
    Tables, Ordered, Sorted, Precedes, Rank, Generations, agent
<1>2. Owed(store.ver[s] # 0 /\ IsNew(s, SnapshotOf(s)))'
        <= Owed(store.ver[s] # 0 /\ IsNew(s, SnapshotOf(s)))
  <2>1. CASE rows'[s] = rows[s]
    BY <1>1, <2>1 DEF Owed, IsNew
  <2>2. CASE ~rows[s].known
    BY <1>1, <2>2 DEF Owed, IsNew
  <2> QED
    BY <2>1, <2>2
<1>3. /\ Generations(s) + Owed(store.ver[s] # 0 /\ IsNew(s, SnapshotOf(s))) <= touched[s]
      /\ Generations(s) \in Nat /\ touched[s] \in Nat
  BY CountTypes DEF CountInv, CreditInv, Ids
<1> QED
  BY <1>1, <1>2, <1>3, OwedType

\* The pass begins with the session: it owes no more than the session did.
LEMMA ReadSessionCount ==
    ASSUME IInv, CountInv, ReadSession, pc' = "table"
    PROVE  CountInv'
<1> DEFINE s == Current
<1>1. /\ buf' = {SessionEvent(s)} /\ table' = 0 /\ Current' = Current
      /\ UNCHANGED <<agent, db>> /\ s \in Sessions /\ store.ver[s] # 0
  <2>1. ~RecordError("invalid_session_meta")
    BY DEF RecordError, NextSession
  <2> QED
    BY <2>1 DEF ReadSession, SessionFails, Current, IInv, PassInv
<1>2. /\ SessionEvent(s)' = SessionEvent(s) /\ Tables' = Tables
      /\ \A k \in 1 .. 3 : SameTable(s, k)
  BY <1>1 DEF SessionEvent, OpenCodeSessionEvent, HermesSessionEvent, SameTable, TableNow,
    RowEvent, RowsIn, Tables, agent
<1>3. ReadNow(s)' = {SessionEvent(s)}
  BY <1>1, <1>2 DEF ReadNow, TablesNow
<1>4. Coming(s)' = {SessionEvent(s)} \cup TablesNow(s, 1 .. Tables)
  <2>1. Tables \in {1, 3}
    BY DEF Tables
  <2>2. 0 + 1 .. Tables = 1 .. Tables
    OBVIOUS
  <2> QED
    BY <1>1, <1>2, <2>1, <2>2 DEF Coming, TablesNow, SameTable
<1>5. Ordered(Coming(s))' = SnapshotOf(s)
  BY <1>4, SnapshotIsComing DEF Ordered, Sorted, Precedes, Rank
<1>6. /\ Owed(store.ver[s] # 0 /\ buf # ReadNow(s))' = 0
      /\ Owed(IsNew(s, Ordered(Coming(s))))' = Owed(store.ver[s] # 0 /\ IsNew(s, SnapshotOf(s)))
  BY <1>1, <1>3, <1>5 DEF Owed, IsNew, db
<1>7. Generations(s)' = Generations(s) /\ touched'[s] = touched[s] /\ Generations(s) \in Nat
      /\ s' = s
  BY <1>1, CountTypes DEF Generations, agent, db, Ids
<1>8. Generations(s) + Owed(store.ver[s] # 0 /\ IsNew(s, SnapshotOf(s))) <= touched[s]
  BY <1>1 DEF CountInv, CreditInv
<1>9. Generations(s)' + Owed(IsNew(s, Ordered(Coming(s))))'
        + Owed(store.ver[s] # 0 /\ buf # ReadNow(s))' <= touched'[s]
  <2> HIDE DEF s
  <2> QED
    BY <1>6, <1>7, <1>8, OwedType
<1>10. CreditInv'
  BY <1>1, CreditKept DEF db
<1> QED
  BY <1>1, <1>9, <1>10 DEF CountInv, PassCreditInv

\* What is read of a table is what was coming.
LEMMA ReadTableCount ==
    ASSUME IInv, CountInv, ReadTable, pc' = "table"
    PROVE  CountInv'
<1> DEFINE s == Current
           new == Owed(IsNew(s, Ordered(Coming(s))))
           stale == Owed(store.ver[s] # 0 /\ buf # ReadNow(s))
<1>1. /\ buf' = buf \cup TableNow(s, table + 1) /\ table' = table + 1 /\ Current' = Current
      /\ UNCHANGED <<agent, db>> /\ s \in Sessions /\ pc = "table" /\ table < Tables
      /\ table \in 0 .. 3 /\ Tables \in {1, 3}
  <2>1. ~RecordError("invalid_session_meta")
    BY DEF RecordError, NextSession
  <2> QED
    BY <2>1 DEF ReadTable, Current, TableNow, IInv, TypeOK, PassInv, Tables
<1>2. /\ SessionEvent(s)' = SessionEvent(s) /\ Tables' = Tables
      /\ \A k \in 1 .. 3 : SameTable(s, k)
  BY <1>1 DEF SessionEvent, OpenCodeSessionEvent, HermesSessionEvent, SameTable, TableNow,
    RowEvent, RowsIn, Tables, agent
<1>3. ReadNow(s)' = ReadNow(s) \cup TableNow(s, table + 1)
  <2>1. 1 .. table + 1 = (1 .. table) \cup {table + 1}
    BY <1>1
  <2>2. \A k \in 1 .. table + 1 : SameTable(s, k)
    BY <1>1, <1>2
  <2>3. TablesNow(s, 1 .. table)' = TablesNow(s, 1 .. table) \cup TableNow(s, table + 1)
    BY <1>1, <2>1, <2>2 DEF TablesNow, SameTable
  <2> QED
    BY <1>1, <1>2, <2>3 DEF ReadNow
<1>4. Coming(s)' = Coming(s)
  <2>1. table + 1 .. Tables = {table + 1} \cup (table + 1 + 1 .. Tables)
    BY <1>1
  <2>2. \A k \in table + 1 .. Tables : SameTable(s, k)
    BY <1>1, <1>2
  <2>3. TablesNow(s, table + 1 .. Tables)' \cup TableNow(s, table + 1) = TablesNow(s, table + 1 .. Tables)
    BY <1>1, <1>2, <2>1, <2>2 DEF TablesNow, SameTable
  <2> QED
    BY <1>1, <2>3 DEF Coming
<1>5. Ordered(Coming(s))' = Ordered(Coming(s))
  BY <1>4 DEF Ordered, Sorted, Precedes, Rank
<1>6. new' = new /\ stale' <= stale /\ new \in {0, 1} /\ stale \in {0, 1} /\ stale' \in {0, 1}
  BY <1>1, <1>3, <1>5 DEF Owed, IsNew, db, agent
<1>7. /\ Generations(s)' = Generations(s) /\ touched'[s] = touched[s] /\ Generations(s) \in Nat
      /\ touched[s] \in Nat /\ s' = s
      /\ Generations(s) + new + stale <= touched[s]
  BY <1>1, CountTypes DEF Generations, agent, db, Ids, CountInv, PassCreditInv
<1>8. Generations(s)' + new' + stale' <= touched'[s]
  <2> HIDE DEF s, new, stale
  <2> QED
    BY <1>6, <1>7
<1>9. CreditInv'
  BY <1>1, CreditKept DEF db
<1> QED
  BY <1>1, <1>8, <1>9 DEF CountInv, PassCreditInv

\* An import is paid by what the pass owed for it; what the session owes after
\* it is what the pass owed for being outdated.
LEMMA ImportCount ==
    ASSUME IInv, CountInv, Import
    PROVE  CountInv'
<1> DEFINE s == Current
           snap == Ordered(buf)
           stale == Owed(store.ver[s] # 0 /\ buf # ReadNow(s))
<1>1. /\ pc = "table" /\ table = Tables /\ s \in Sessions /\ s \in Ids /\ pc' # "table"
      /\ UNCHANGED agent
  BY SnapshotRead DEF Import, NextSession, Ids
<1>2. Coming(s) = buf /\ (buf = ReadNow(s) => SnapshotOf(s) = snap)
  <2>1. Tables \in {1, 3}
    BY DEF Tables
  <2>2. TablesNow(s, table + 1 .. Tables) = {}
    BY <1>1, <2>1 DEF TablesNow
  <2> QED
    BY <1>1, <2>2, SnapshotIsComing DEF Coming, ReadNow
<1>3. /\ Generations(s) + Owed(IsNew(s, snap)) + stale <= touched[s]
      /\ Generations(s) \in Nat /\ touched[s] \in Nat /\ IsFiniteSet(DOMAIN events[s])
  BY <1>1, <1>2, CountTypes DEF CountInv, PassCreditInv
<1>4. \A q \in Sessions : SnapshotOf(q)' = SnapshotOf(q)
  BY <1>1 DEF SnapshotOf, SessionEvent, OpenCodeSessionEvent, HermesSessionEvent, RowEvent,
    RowsIn, Tables, Ordered, Sorted, Precedes, Rank, agent
<1>5. /\ \A q \in Ids \ {s} : rows'[q] = rows[q] /\ events'[q] = events[q]
      /\ rows'[s].known /\ rows'[s].print = snap
      /\ \/ ~IsNew(s, snap) /\ events' = events
         \/ /\ IsNew(s, snap)
            /\ DOMAIN events'[s] = DOMAIN events[s] \cup {Generation(rows[s])}
            /\ Generation(rows[s]) \notin DOMAIN events[s]
  <2>1. DOMAIN events = Ids
    BY DEF IInv, TypeOK
  <2> QED
    BY <1>1, <2>1, ImportWrites, GenerationIsNew DEF IsNew
<1>6. Cardinality(DOMAIN events'[s]) = Generations(s) + Owed(IsNew(s, snap))
  <2>1. CASE ~IsNew(s, snap) /\ events' = events
    BY <1>3, <2>1 DEF Generations, Owed
  <2>2. CASE /\ IsNew(s, snap)
             /\ DOMAIN events'[s] = DOMAIN events[s] \cup {Generation(rows[s])}
             /\ Generation(rows[s]) \notin DOMAIN events[s]
    <3>1. Cardinality(DOMAIN events'[s]) = Cardinality(DOMAIN events[s]) + 1
      BY <1>3, <2>2, FS_AddElement
    <3> QED
      BY <2>2, <3>1 DEF Generations, Owed
  <2> QED
    BY <1>5, <2>1, <2>2
<1>7. ASSUME NEW q \in Sessions
      PROVE  Generations(q)' + Owed(store.ver[q] # 0 /\ IsNew(q, SnapshotOf(q)))' <= touched'[q]
  <2>1. CASE q = s
    <3>1. Owed(store.ver[q] # 0 /\ IsNew(q, SnapshotOf(q)))' <= stale
      BY <1>1, <1>2, <1>4, <1>5, <2>1 DEF Owed, IsNew, agent
    <3>2. Generations(q)' = Generations(s) + Owed(IsNew(s, snap)) /\ touched'[q] = touched[s]
      BY <1>1, <1>6, <2>1 DEF Generations, agent
    <3>3. Owed(IsNew(s, snap)) \in {0, 1} /\ stale \in {0, 1}
          /\ Owed(store.ver[q] # 0 /\ IsNew(q, SnapshotOf(q)))' \in {0, 1}
      BY DEF Owed
    <3> HIDE DEF s, snap, stale
    <3> QED
      BY <1>3, <3>1, <3>2, <3>3
  <2>2. CASE q # s
    <3>1. q \in Ids \ {s}
      BY <2>2 DEF Ids
    <3>2. rows'[q] = rows[q] /\ events'[q] = events[q]
      BY <1>5, <3>1
    <3>3. Generations(q)' = Generations(q) /\ touched'[q] = touched[q]
          /\ Owed(store.ver[q] # 0 /\ IsNew(q, SnapshotOf(q)))'
               = Owed(store.ver[q] # 0 /\ IsNew(q, SnapshotOf(q)))
      BY <1>1, <1>4, <3>2 DEF Generations, Owed, IsNew, agent
    <3> QED
      BY <3>3 DEF CountInv, CreditInv
  <2> QED
    BY <2>1, <2>2
<1> QED
  BY <1>1, <1>7 DEF CountInv, CreditInv, PassCreditInv

LEMMA CountStep ==
    ASSUME IInv, CountInv, [Next]_vars
    PROVE  CountInv'
<1>1. CASE Agent
  BY <1>1, AgentCount
<1>2. ASSUME UNCHANGED <<agent, db>>, pc' # "table"
      PROVE  CountInv'
  BY <1>2, CreditKept DEF db, CountInv, PassCreditInv
<1>3. ASSUME NextSession, UNCHANGED <<agent, events>>, pc # "idle",
             rows' = [rows EXCEPT ![Current] = RowFor(Current)]
      PROVE  CountInv'
  <2>1. Current \in Ids /\ pc' # "table"
    BY <1>3, ListGoesOn DEF IInv
  <2>2. ASSUME NEW s \in Sessions PROVE rows'[s] = rows[s] \/ ~rows[s].known
    <3>1. s \in Ids /\ rows \in [Ids -> Row]
      BY DEF Ids, IInv, TypeOK
    <3>2. rows'[s] = rows[s] \/ (s = Current /\ rows'[s] = RowFor(s))
      BY <1>3, <3>1
    <3>3. rows[s].known => RowFor(s) = rows[s]
      BY <3>1, RowForType DEF IInv
    <3> QED
      BY <3>2, <3>3
  <2>3. CreditInv'
    BY <1>3, <2>2, CreditKept
  <2> QED
    BY <2>1, <2>3 DEF CountInv, PassCreditInv
<1>4. CASE StartRun \/ Crash
  BY <1>2, <1>4 DEF StartRun, Crash
<1>5. CASE Stat
  BY <1>2, <1>3, <1>5 DEF Stat, RecordError
<1>6. CASE ReadSession
  <2>1. CASE pc' = "table"
    BY <1>6, <2>1, ReadSessionCount
  <2>2. CASE RecordError("invalid_session_meta")
    BY <1>3, <1>6, <2>2 DEF ReadSession, RecordError
  <2> QED
    BY <1>6, <2>1, <2>2 DEF ReadSession
<1>7. CASE ReadTable
  <2>1. CASE pc' = "table"
    BY <1>7, <2>1, ReadTableCount
  <2>2. CASE RecordError("invalid_session_meta")
    BY <1>3, <1>7, <2>2 DEF ReadTable, RecordError
  <2> QED
    BY <1>7, <2>1, <2>2 DEF ReadTable
<1>8. CASE Import
  BY <1>8, ImportCount
<1>9. CASE Busy
  BY <1>3, <1>9 DEF Busy
<1>10. CASE UNCHANGED vars
  <2>1. CreditInv'
    BY <1>10, CreditKept DEF vars, agent, db
  <2>2. PassCreditInv'
    BY <1>10 DEF CountInv, PassCreditInv, vars, agent, db, proc, Owed, IsNew, Generations, Coming,
      ReadNow, TablesNow, TableNow, SessionEvent, OpenCodeSessionEvent, HermesSessionEvent,
      RowEvent, RowsIn, Tables, Current, Ordered, Sorted, Precedes, Rank
  <2> QED
    BY <2>1, <2>2 DEF CountInv
<1> QED
  BY <1>1, <1>4, <1>5, <1>6, <1>7, <1>8, <1>9, <1>10 DEF Next, Step

LEMMA CountHolds == Spec => []CountInv
<1>1. IInv /\ CountInv /\ [Next]_vars => CountInv'
  BY CountStep
<1> QED
  BY <1>1, InitCount, InvariantHolds, PTL DEF Spec

\* However often the store is read, whatever mixtures of its states are read, and
\* wherever a run dies: a session has no more generations than its records, or
\* its project, saw writes.
THEOREM GenerationsArePaidFor == Spec => []OneGenerationPerChange
<1>1. IInv /\ CountInv => OneGenerationPerChange
  <2> SUFFICES ASSUME IInv, CountInv, NEW s \in Ids
               PROVE  Generations(s) <= touched[s]
    BY DEF OneGenerationPerChange, Generations
  <2>1. Generations(s) \in Nat /\ touched[s] \in Nat
    BY CountTypes
  <2>2. CASE s \in Sessions
    BY <2>1, <2>2, OwedType DEF CountInv, CreditInv
  <2>3. CASE s = StoreSession
    <3>1. DOMAIN events[s] = {}
      BY <2>3 DEF IInv, KeptInv
    <3>2. Generations(s) = 0
      BY <3>1, FS_EmptySet DEF Generations
    <3> QED
      BY <2>1, <3>2
  <2> QED
    BY <2>2, <2>3 DEF Ids
<1> QED
  BY <1>1, InvariantHolds, CountHolds, PTL
==============================================================================
