-------------------------- MODULE TasteExtractProofs --------------------------
(***************************************************************************)
(* Proofs about TasteExtract and the computation of Preferences, for every *)
(* set of sessions, transcripts and sidecars.                              *)
(***************************************************************************)
EXTENDS TasteExtract, FiniteSetTheorems, SequenceTheorems, WellFoundedInduction, TLAPS

------------------------------------------------------------------------------
(* Least elements and ranks. *)

\* A set of naturals that is not empty has a least element.
LEMMA LeastNatural ==
    ASSUME NEW T \in SUBSET Nat, T # {}
    PROVE  \E n \in T : \A m \in T : n <= m
<1>1. PICK n \in T : \A m \in T : <<m, n>> \notin OpToRel(<, Nat)
  BY NatLessThanWellFounded, WFMin
<1>2. ASSUME NEW m \in T
      PROVE  n <= m
  <2>1. n \in Nat /\ m \in Nat /\ ~(m < n)
    BY <1>1 DEF OpToRel
  <2> QED
    BY <2>1
<1> QED
  BY <1>2

\* Min and Max of a set of positions.
LEMMA MinProperty ==
    ASSUME NEW T \in SUBSET Nat, T # {}
    PROVE  Min(T) \in T /\ \A m \in T : Min(T) <= m
BY LeastNatural DEF Min

LEMMA MaxProperty ==
    ASSUME NEW n \in Nat, NEW T \in SUBSET (1 .. n), T # {}
    PROVE  Max(T) \in T /\ \A m \in T : m <= Max(T)
<1> DEFINE U == {d \in Nat : n - d \in T}
<1>1. PICK d \in U : \A e \in U : d <= e
  <2>1. PICK m \in T : TRUE
    OBVIOUS
  <2>2. n - m \in Nat /\ n - (n - m) = m
    OBVIOUS
  <2>3. U # {}
    BY <2>1, <2>2
  <2> QED
    BY <2>3, LeastNatural
<1>2. ASSUME NEW m \in T PROVE m <= n - d
  <2>1. n - m \in Nat /\ n - (n - m) = m /\ m \in Nat
    OBVIOUS
  <2>2. d <= n - m /\ d \in Nat
    BY <1>1, <2>1
  <2> QED
    BY <2>1, <2>2
<1>3. n - d \in T
  BY <1>1
<1>4. \E x \in T : \A y \in T : x >= y
  <2>1. \A y \in T : n - d >= y
    BY <1>2, <1>3
  <2> QED
    BY <1>3, <2>1
<1>5. Max(T) \in T /\ \A y \in T : Max(T) >= y
  BY <1>4 DEF Max
<1> QED
  BY <1>5

Below(S, R, x) == {y \in S : <<y, x>> \in R}

TotalOrder(S, R) ==
    /\ \A x \in S : <<x, x>> \notin R
    /\ \A x, y \in S : x = y \/ <<x, y>> \in R \/ <<y, x>> \in R
    /\ \A x, y, z \in S : <<x, y>> \in R /\ <<y, z>> \in R => <<x, z>> \in R

\* In a finite total order every element has a rank of its own, and every rank
\* has an element.
LEMMA Ranks ==
    ASSUME NEW S, IsFiniteSet(S), NEW R, TotalOrder(S, R)
    PROVE  /\ Cardinality(S) \in Nat
           /\ \A x \in S : Cardinality(Below(S, R, x)) \in 0 .. Cardinality(S) - 1
           /\ \A x, y \in S :
                 Cardinality(Below(S, R, x)) = Cardinality(Below(S, R, y)) => x = y
           /\ \A n \in 0 .. Cardinality(S) - 1 :
                 {x \in S : Cardinality(Below(S, R, x)) = n} # {}
<1> DEFINE c == Cardinality(S)
           rank(x) == Cardinality(Below(S, R, x))
<1>1. c \in Nat
  BY FS_CardinalityType
<1>2. ASSUME NEW x \in S PROVE IsFiniteSet(Below(S, R, x)) /\ rank(x) \in 0 .. c - 1
  <2>1. IsFiniteSet(S \ {x}) /\ Cardinality(S \ {x}) = c - 1
    BY FS_RemoveElement
  <2>2. Below(S, R, x) \in SUBSET (S \ {x})
    BY DEF Below, TotalOrder
  <2>3. IsFiniteSet(Below(S, R, x)) /\ rank(x) <= c - 1
    BY <2>1, <2>2, FS_Subset
  <2>4. rank(x) \in Nat
    BY <2>3, FS_CardinalityType
  <2> QED
    BY <1>1, <2>3, <2>4
<1>3. ASSUME NEW x \in S, NEW y \in S, <<x, y>> \in R PROVE rank(x) < rank(y)
  <2>1. x \notin Below(S, R, x) /\ Below(S, R, x) \cup {x} \in SUBSET Below(S, R, y)
    BY <1>3 DEF Below, TotalOrder
  <2>2. Cardinality(Below(S, R, x) \cup {x}) = rank(x) + 1
    BY <1>2, <2>1, FS_AddElement
  <2>3. Cardinality(Below(S, R, x) \cup {x}) <= rank(y)
    BY <1>2, <2>1, FS_Subset
  <2>4. rank(x) \in Nat /\ rank(y) \in Nat
    BY <1>1, <1>2
  <2> QED
    BY <2>2, <2>3, <2>4
<1>4. ASSUME NEW x \in S, NEW y \in S, rank(x) = rank(y) PROVE x = y
  <2>1. rank(x) \in Int
    BY <1>1, <1>2
  <2> HIDE DEF rank
  <2>2. ~(rank(x) < rank(y)) /\ ~(rank(y) < rank(x))
    BY <1>4, <2>1
  <2> QED
    BY <1>3, <2>2 DEF TotalOrder
<1>5. ASSUME NEW n \in 0 .. c - 1 PROVE \E x \in S : rank(x) = n
  <2>1. SUFFICES ASSUME \A x \in S : rank(x) # n PROVE FALSE
    OBVIOUS
  <2> DEFINE T == (0 .. c - 1) \ {n}
             f == [x \in S |-> rank(x)]
  <2>2. IsFiniteSet(0 .. c - 1) /\ Cardinality(0 .. c - 1) = c
    BY <1>1, FS_Interval
  <2>3. IsFiniteSet(T) /\ Cardinality(T) = c - 1
    BY <2>2, FS_RemoveElement
  <2>4. f \in [S -> T]
    BY <1>2, <2>1
  <2>5. \E x, y \in S : x # y /\ f[x] = f[y]
    <3> HIDE DEF T, f
    <3>1. Cardinality(T) < c
      BY <1>1, <2>3
    <3> QED
      BY <2>3, <2>4, <3>1, FS_PigeonHole
  <2> QED
    BY <1>4, <2>5
<1> QED
  BY <1>1, <1>2, <1>4, <1>5

Upto(S, s) == {t \in S : t <= s}

Less(S) == {p \in S \X S : p[1] < p[2]}

\* Ordered enumerates a finite set of naturals from the least to the greatest.
LEMMA OrderedProperty ==
    ASSUME NEW S \in SUBSET Nat, IsFiniteSet(S)
    PROVE  /\ Cardinality(S) \in Nat
           /\ Ordered(S) \in [1 .. Cardinality(S) -> S]
           /\ \A i, j \in 1 .. Cardinality(S) : i < j => Ordered(S)[i] < Ordered(S)[j]
           /\ \A s \in S : \E i \in 1 .. Cardinality(S) : Ordered(S)[i] = s
           /\ \A i \in 1 .. Cardinality(S) :
                 Cardinality(Upto(S, Ordered(S)[i])) = i
           /\ \A s, u \in S :
                 Cardinality(Upto(S, s)) = Cardinality(Upto(S, u)) => s = u
<1> DEFINE R == Less(S)
           c == Cardinality(S)
           upto(s) == Cardinality(Upto(S, s))
<1>0. \A x \in S : x \in Nat
  OBVIOUS
<1>1. TotalOrder(S, R)
  BY DEF TotalOrder, Less
<1>2. /\ c \in Nat
      /\ \A x \in S : Cardinality(Below(S, R, x)) \in 0 .. c - 1
      /\ \A x, y \in S :
            Cardinality(Below(S, R, x)) = Cardinality(Below(S, R, y)) => x = y
      /\ \A n \in 0 .. c - 1 :
            \E x \in S : Cardinality(Below(S, R, x)) = n
  <2>1. IsFiniteSet(S) /\ TotalOrder(S, R)
    BY <1>1
  <2> HIDE DEF R
  <2>2. c \in Nat
    BY <2>1, Ranks
  <2>3. \A x \in S : Cardinality(Below(S, R, x)) \in 0 .. c - 1
    BY <2>1, Ranks
  <2>4. \A x, y \in S :
            Cardinality(Below(S, R, x)) = Cardinality(Below(S, R, y)) => x = y
    BY <2>1, Ranks
  <2>5. \A n \in 0 .. c - 1 :
            \E x \in S : Cardinality(Below(S, R, x)) = n
    <3> SUFFICES ASSUME NEW n \in 0 .. c - 1
                 PROVE  {x \in S : Cardinality(Below(S, R, x)) = n} # {}
      OBVIOUS
    <3>1. n \in 0 .. Cardinality(S) - 1
      OBVIOUS
    <3> QED
      BY <2>1, <3>1, Ranks
  <2> QED
    BY <2>2, <2>3, <2>4, <2>5
<1>3. ASSUME NEW x \in S PROVE upto(x) = Cardinality(Below(S, R, x)) + 1
  <2>1. Upto(S, x) = Below(S, R, x) \cup {x} /\ x \notin Below(S, R, x)
    <3>1. \A t \in S : (t <= x <=> t < x \/ t = x) /\ (<<t, x>> \in R <=> t < x)
      BY <1>0 DEF Less
    <3>2. ~(x < x)
      BY <1>0
    <3> HIDE DEF R
    <3> QED
      BY <3>1, <3>2 DEF Below, Upto
  <2>2. IsFiniteSet(Below(S, R, x))
    BY FS_Subset DEF Below
  <2> QED
    BY <2>1, <2>2, FS_AddElement
<1>4. ASSUME NEW i \in 1 .. c PROVE \E s \in S : upto(s) = i
  <2>1. PICK x \in S : Cardinality(Below(S, R, x)) = i - 1
    <3>1. i - 1 \in 0 .. c - 1
      BY <1>2
    <3> QED
      BY <1>2, <3>1
  <2> HIDE DEF R, c, upto
  <2>2. upto(x) = i
    BY <1>3, <2>1
  <2> QED
    BY <2>2
<1>5. ASSUME NEW i \in 1 .. c PROVE Ordered(S)[i] \in S /\ upto(Ordered(S)[i]) = i
  BY <1>4 DEF Ordered, Upto
<1>6. ASSUME NEW x \in S, NEW y \in S, x <= y PROVE upto(x) <= upto(y)
  <2>1. Upto(S, x) \subseteq Upto(S, y)
    <3>1. \A t \in S : t <= x => t <= y
      BY <1>0, <1>6
    <3> QED
      BY <3>1 DEF Upto
  <2>2. IsFiniteSet(Upto(S, y))
    BY FS_Subset DEF Upto
  <2> QED
    BY <2>1, <2>2, FS_Subset
<1>7. \A x, y \in S : upto(x) = upto(y) => x = y
  <2> HIDE DEF upto
  <2> SUFFICES ASSUME NEW x \in S, NEW y \in S, upto(x) = upto(y) PROVE x = y
    OBVIOUS
  <2>1. Cardinality(Below(S, R, x)) \in Int /\ Cardinality(Below(S, R, y)) \in Int
    BY <1>2
  <2>2. Cardinality(Below(S, R, x)) = Cardinality(Below(S, R, y))
    BY <1>3, <2>1
  <2> QED
    BY <1>2, <2>2
<1>8. Ordered(S) \in [1 .. c -> S]
  BY <1>5 DEF Ordered
<1>9. ASSUME NEW i \in 1 .. c, NEW j \in 1 .. c, i < j
      PROVE  Ordered(S)[i] < Ordered(S)[j]
  <2> DEFINE x == Ordered(S)[i]
             y == Ordered(S)[j]
  <2>1. x \in S /\ y \in S /\ upto(x) = i /\ upto(y) = j
    BY <1>5
  <2>2. ~(y <= x)
    <3>1. y <= x => j <= i
      BY <1>6, <2>1
    <3> QED
      BY <1>9, <3>1
  <2>3. x \in Nat /\ y \in Nat
    BY <2>1
  <2> HIDE DEF x, y
  <2>4. x < y
    BY <2>2, <2>3
  <2> QED
    BY <2>4 DEF x, y
<1>10. ASSUME NEW s \in S PROVE \E i \in 1 .. c : Ordered(S)[i] = s
  <2> HIDE DEF upto, c
  <2>1. upto(s) \in 1 .. c
    BY <1>2, <1>3
  <2> QED
    BY <1>5, <1>7, <2>1
<1> QED
  BY <1>2, <1>5, <1>7, <1>8, <1>9, <1>10

\* There is no other such enumeration.
LEMMA OrderedIs ==
    ASSUME NEW S \in SUBSET Nat, NEW n \in Nat, NEW f \in [1 .. n -> S],
           \A i, j \in 1 .. n : i < j => f[i] < f[j],
           \A s \in S : \E i \in 1 .. n : f[i] = s
    PROVE  IsFiniteSet(S) /\ Cardinality(S) = n /\ Ordered(S) = f
<1>0. \A i \in 1 .. n : f[i] \in S /\ f[i] \in Nat
  OBVIOUS
<1>1. ASSUME NEW k \in 0 .. n
      PROVE  LET T == {f[i] : i \in 1 .. k}
             IN  IsFiniteSet(T) /\ Cardinality(T) = k
  <2> DEFINE T == {f[i] : i \in 1 .. k}
             g == [i \in 1 .. k |-> f[i]]
  <2>1. g \in Surjection(1 .. k, T)
    BY DEF Surjection
  <2>2. g \in Injection(1 .. k, T)
    <3>1. ASSUME NEW i \in 1 .. k, NEW j \in 1 .. k, g[i] = g[j] PROVE i = j
      <4>0. i \in 1 .. n /\ j \in 1 .. n /\ f[i] = f[j]
        BY <3>1
      <4>1. f[i] \in Nat /\ f[j] \in Nat
        BY <1>0, <4>0
      <4>2. ~(i < j) /\ ~(j < i)
        BY <4>0, <4>1
      <4> QED
        BY <4>2
    <3>2. g \in [1 .. k -> T]
      OBVIOUS
    <3> HIDE DEF g, T
    <3> QED
      BY <3>1, <3>2 DEF Injection, IsInjective
  <2>3. IsFiniteSet(1 .. k) /\ Cardinality(1 .. k) = k
    BY FS_Interval
  <2> HIDE DEF T, g
  <2>4. IsFiniteSet(T) /\ Cardinality(T) = k
    BY <2>1, <2>2, <2>3, FS_Surjection
  <2> QED
    BY <2>4 DEF T
<1>2. S = {f[i] : i \in 1 .. n}
  OBVIOUS
<1>3. IsFiniteSet(S) /\ Cardinality(S) = n
  <2>1. n \in 0 .. n
    OBVIOUS
  <2> QED
    BY <1>1, <1>2, <2>1
<1>4. ASSUME NEW i \in 1 .. n PROVE Cardinality(Upto(S, f[i])) = i
  <2>1. ASSUME NEW j \in 1 .. n PROVE f[j] <= f[i] <=> j <= i
    <3>1. f[i] \in Nat /\ f[j] \in Nat
      BY <1>0
    <3>2. (i < j => f[i] < f[j]) /\ (j < i => f[j] < f[i])
      OBVIOUS
    <3> QED
      BY <3>1, <3>2
  <2>2. Upto(S, f[i]) = {f[j] : j \in 1 .. i}
    BY <2>1, <1>2 DEF Upto
  <2>3. i \in 0 .. n
    OBVIOUS
  <2> QED
    BY <1>1, <2>2, <2>3
<1>5. ASSUME NEW i \in 1 .. n PROVE Ordered(S)[i] = f[i]
  <2>1. Ordered(S)[i] \in S /\ Cardinality(Upto(S, Ordered(S)[i])) = i
    BY <1>3, OrderedProperty
  <2>2. f[i] \in S /\ Cardinality(Upto(S, f[i])) = i
    BY <1>0, <1>4
  <2>3. \A x, u \in S : Cardinality(Upto(S, x)) = Cardinality(Upto(S, u)) => x = u
    BY <1>3, OrderedProperty
  <2> QED
    BY <2>1, <2>2, <2>3
<1>6. DOMAIN Ordered(S) = 1 .. n /\ Ordered(S) = [i \in 1 .. n |-> Ordered(S)[i]]
  <2> DEFINE At(i) == CHOOSE s \in S : Cardinality({t \in S : t <= s}) = i
  <2>1. Ordered(S) = [i \in 1 .. n |-> At(i)]
    BY <1>3, Zenon DEF Ordered
  <2> HIDE DEF At
  <2> QED
    BY <2>1, Zenon
<1> QED
  BY <1>3, <1>5, <1>6

\* Sets of positions are finite.
LEMMA Positions ==
    ASSUME NEW n \in Nat, NEW S \in SUBSET (1 .. n)
    PROVE  IsFiniteSet(S) /\ S \in SUBSET Nat /\ Cardinality(S) \in Nat
<1>1. IsFiniteSet(1 .. n)
  BY FS_Interval
<1>2. IsFiniteSet(S) /\ Cardinality(S) \in Nat
  BY <1>1, FS_Subset, FS_CardinalityType
<1>3. ASSUME NEW x \in S PROVE x \in Nat
  OBVIOUS
<1> QED
  BY <1>2, <1>3

\* A selection has one element for each position.
LEMMA SelectedProperty ==
    ASSUME NEW n \in Nat, NEW S \in SUBSET (1 .. n), NEW seq
    PROVE  /\ IsFiniteSet(S) /\ S \in SUBSET Nat /\ Cardinality(S) \in Nat
           /\ Selected(seq, S) = [k \in 1 .. Cardinality(S) |-> seq[Ordered(S)[k]]]
           /\ \A k \in 1 .. Cardinality(S) : Ordered(S)[k] \in S
<1>1. IsFiniteSet(S) /\ S \in SUBSET Nat
  BY Positions
<1>2. Cardinality(S) \in Nat /\ Ordered(S) \in [1 .. Cardinality(S) -> S]
  BY <1>1, OrderedProperty
<1>3. DOMAIN Ordered(S) = 1 .. Cardinality(S)
  BY <1>2
<1> QED
  BY <1>1, <1>2, <1>3 DEF Selected

\* The positions up to n are enumerated first.
LEMMA OrderedPrefix ==
    ASSUME NEW m \in Nat, NEW T \in SUBSET (1 .. m), NEW n \in Nat,
           NEW S \in SUBSET T, \A t \in T : t \in S <=> t <= n
    PROVE  /\ Cardinality(S) \in Nat /\ Cardinality(T) \in Nat
           /\ Cardinality(S) <= Cardinality(T)
           /\ \A k \in 1 .. Cardinality(S) : Ordered(T)[k] = Ordered(S)[k]
           /\ \A k \in 1 .. Cardinality(T) :
                 k > Cardinality(S) => Ordered(T)[k] > n
<1>1. /\ IsFiniteSet(T) /\ T \in SUBSET Nat /\ IsFiniteSet(S) /\ S \in SUBSET Nat
      /\ S \subseteq T
  <2>1. S \subseteq T /\ S \in SUBSET (1 .. m)
    OBVIOUS
  <2> QED
    BY <2>1, Positions
<1>2. Cardinality(S) \in Nat /\ Cardinality(T) \in Nat /\ Cardinality(S) <= Cardinality(T)
  BY <1>1, FS_Subset, FS_CardinalityType
<1>3. ASSUME NEW k \in 1 .. Cardinality(S) PROVE Ordered(T)[k] = Ordered(S)[k]
  <2> DEFINE x == Ordered(S)[k]
             y == Ordered(T)[k]
  <2>1. x \in S /\ Cardinality(Upto(S, x)) = k
    BY <1>1, OrderedProperty
  <2>2. k \in 1 .. Cardinality(T)
    BY <1>2
  <2>3. y \in T /\ Cardinality(Upto(T, y)) = k
    BY <1>1, <2>2, OrderedProperty
  <2>4. Upto(T, x) = Upto(S, x)
    <3>1. x \in Nat /\ x <= n
      <4>1. \A z \in S : z \in Nat /\ z <= n
        BY <1>1
      <4> QED
        BY <2>1, <4>1
    <3>2. \A t \in T : t <= x => t <= n
      BY <1>1, <3>1
    <3> QED
      BY <3>2 DEF Upto
  <2>5. x \in T
    BY <1>1, <2>1
  <2> HIDE DEF x, y
  <2>6. x = y
    BY <1>1, <2>1, <2>3, <2>4, <2>5, OrderedProperty
  <2> QED
    BY <2>6 DEF x, y
<1>4. ASSUME NEW k \in 1 .. Cardinality(T), k > Cardinality(S)
      PROVE  Ordered(T)[k] > n
  <2> DEFINE y == Ordered(T)[k]
  <2>1. y \in T /\ y \in Nat
    BY <1>1, OrderedProperty
  <2>2. ASSUME y <= n PROVE FALSE
    <3>1. y \in S
      BY <2>1, <2>2
    <3>2. PICK j \in 1 .. Cardinality(S) : Ordered(S)[j] = y
      BY <1>1, <3>1, OrderedProperty
    <3>3. j \in 1 .. Cardinality(T) /\ j < k /\ Ordered(T)[j] = y
      BY <1>2, <1>3, <1>4, <3>2
    <3>4. Ordered(T)[j] < Ordered(T)[k]
      BY <1>1, <3>3, OrderedProperty
    <3> QED
      BY <2>1, <3>3, <3>4
  <2> HIDE DEF y
  <2>3. y > n
    BY <2>1, <2>2
  <2> QED
    BY <2>3 DEF y
<1> QED
  BY <1>2, <1>3, <1>4

------------------------------------------------------------------------------
(* What is computed of the beginning of a timeline. *)

Numbered(es) == IsSeq(es) /\ \A i \in DOMAIN es : es[i].seq = i - 1

\* What IsSeq says of a sequence.
LEMMA Lengths ==
    ASSUME NEW f, IsSeq(f)
    PROVE  Len(f) \in Nat /\ DOMAIN f = 1 .. Len(f)
BY DEF IsSeq

\* A prefix has the elements of what it begins.
LEMMA PrefixProperty ==
    ASSUME NEW es, NEW fs, IsSeq(es), IsSeq(fs), IsPrefix(es, fs)
    PROVE  /\ Len(es) <= Len(fs)
           /\ \A i \in 1 .. Len(es) : i \in DOMAIN fs /\ fs[i] = es[i]
<1>1. /\ Len(es) \in Nat /\ Len(fs) \in Nat /\ DOMAIN fs = 1 .. Len(fs)
      /\ Len(es) <= Len(fs)
      /\ SubSeq(es, 1, Len(es)) = SubSeq(fs, 1, Len(es))
  BY Lengths DEF IsPrefix
<1>2. ASSUME NEW i \in 1 .. Len(es) PROVE i \in DOMAIN fs /\ fs[i] = es[i]
  <2>1. SubSeq(es, 1, Len(es))[i] = es[i]
    BY <1>1 DEF IsSeq
  <2>2. SubSeq(fs, 1, Len(es))[i] = fs[i]
    BY <1>1 DEF IsSeq
  <2> QED
    BY <1>1, <2>1, <2>2
<1> QED
  BY <1>1, <1>2

SnapshotsAt(es) == {i \in DOMAIN es : es[i].kind = "snapshot" /\ es[i].content # None}

\* The event a row of the timelines is made of.
EventOf(es, r) == Ordered(SnapshotsAt(es))[r]

\* Every snapshot with a content gives a row, in their order.
LEMMA RowShape ==
    ASSUME NEW es, Numbered(es), NEW cwd, NEW blobs
    PROVE  LET R == Materialize(cwd, blobs, es)
               c == Cardinality(SnapshotsAt(es))
           IN  /\ c \in Nat /\ DOMAIN R = 1 .. c
               /\ \A r \in 1 .. c :
                     /\ EventOf(es, r) \in SnapshotsAt(es)
                     /\ EventOf(es, r) \in Nat /\ EventOf(es, r) \in DOMAIN es
                     /\ R[r].file = NormalizePath(es[EventOf(es, r)].path, cwd)
                     /\ R[r].event_seq = EventOf(es, r) - 1
                     /\ R[r].content = Resolve(blobs, es[EventOf(es, r)].content).content
                     /\ R[r].trigger = TriggerOf(es, cwd, es[EventOf(es, r)])
               /\ \A r, q \in 1 .. c : r < q => R[r].event_seq < R[q].event_seq
<1> DEFINE P == SnapshotsAt(es)
           R == Materialize(cwd, blobs, es)
           c == Cardinality(P)
           snaps == Selected(es, P)
<1>1. Len(es) \in Nat /\ DOMAIN es = 1 .. Len(es)
  BY Lengths DEF Numbered
<1>2. P \in SUBSET (1 .. Len(es))
  BY <1>1 DEF SnapshotsAt
<1>3. /\ IsFiniteSet(P) /\ P \in SUBSET Nat /\ c \in Nat
      /\ snaps = [k \in 1 .. c |-> es[Ordered(P)[k]]]
      /\ \A k \in 1 .. c : Ordered(P)[k] \in P
  <2> HIDE DEF P
  <2> QED
    BY <1>1, <1>2, SelectedProperty
<1>4. Snapshots(es) = snaps
  BY DEF Snapshots, SnapshotsAt
<1>5. DOMAIN snaps = 1 .. c
  BY <1>3
<1>6. R = [r \in 1 .. c |->
            [file |-> NormalizePath(snaps[r].path, cwd),
             seq |-> Cardinality({q \in 1..(r - 1) :
                                     NormalizePath(snaps[q].path, cwd)
                                       = NormalizePath(snaps[r].path, cwd)}),
             event_seq |-> snaps[r].seq,
             content |-> Resolve(blobs, snaps[r].content).content,
             source_kind |-> Resolve(blobs, snaps[r].content).source_kind,
             trigger |-> TriggerOf(es, cwd, snaps[r])]]
  <2> HIDE DEF snaps, c
  <2> QED
    BY <1>4, <1>5 DEF Materialize
<1>7. ASSUME NEW r \in 1 .. c
      PROVE  /\ EventOf(es, r) \in P
             /\ EventOf(es, r) \in Nat /\ EventOf(es, r) \in DOMAIN es
             /\ R[r].file = NormalizePath(es[EventOf(es, r)].path, cwd)
             /\ R[r].event_seq = EventOf(es, r) - 1
             /\ R[r].content = Resolve(blobs, es[EventOf(es, r)].content).content
             /\ R[r].trigger = TriggerOf(es, cwd, es[EventOf(es, r)])
  <2>1. EventOf(es, r) \in P
    BY <1>3 DEF EventOf
  <2>2. EventOf(es, r) \in Nat /\ EventOf(es, r) \in DOMAIN es
    BY <1>1, <1>2, <1>3, <2>1
  <2>3. snaps[r] = es[EventOf(es, r)]
    BY <1>3 DEF EventOf
  <2>4. snaps[r].seq = EventOf(es, r) - 1
    BY <2>2, <2>3 DEF Numbered
  <2> HIDE DEF snaps, c, P
  <2>5. /\ R[r].file = NormalizePath(snaps[r].path, cwd)
        /\ R[r].event_seq = snaps[r].seq
        /\ R[r].content = Resolve(blobs, snaps[r].content).content
        /\ R[r].trigger = TriggerOf(es, cwd, snaps[r])
    BY <1>6
  <2> HIDE DEF R
  <2> QED
    BY <2>1, <2>2, <2>3, <2>4, <2>5
<1>8. ASSUME NEW r \in 1 .. c, NEW q \in 1 .. c, r < q
      PROVE  R[r].event_seq < R[q].event_seq
  <2>1. EventOf(es, r) < EventOf(es, q)
    BY <1>3, <1>8, OrderedProperty DEF EventOf
  <2> QED
    BY <1>7, <2>1
<1>9. DOMAIN R = 1 .. c
  <2> HIDE DEF snaps, c, P
  <2> QED
    BY <1>6
<1> QED
  BY <1>3, <1>7, <1>8, <1>9

\* The rows made of the beginning of a timeline are the first ones.
LEMMA RowsPrefix ==
    ASSUME NEW es, NEW fs, Numbered(es), Numbered(fs), IsPrefix(es, fs),
           NEW cwd, NEW blobs
    PROVE  LET R == Materialize(cwd, blobs, es)
               Q == Materialize(cwd, blobs, fs)
           IN  /\ \A r \in DOMAIN R :
                     /\ r \in DOMAIN Q
                     /\ Q[r].file = R[r].file /\ Q[r].event_seq = R[r].event_seq
                     /\ Q[r].content = R[r].content
               /\ \A r \in DOMAIN Q : Q[r].event_seq < Len(es) => r \in DOMAIN R
<1> DEFINE R == Materialize(cwd, blobs, es)
           Q == Materialize(cwd, blobs, fs)
           S == SnapshotsAt(es)
           T == SnapshotsAt(fs)
<1>1. /\ Len(es) \in Nat /\ DOMAIN es = 1 .. Len(es)
      /\ Len(fs) \in Nat /\ DOMAIN fs = 1 .. Len(fs)
      /\ \A i \in 1 .. Len(es) : i \in DOMAIN fs /\ fs[i] = es[i]
  BY Lengths, PrefixProperty DEF Numbered
<1>2. /\ T \in SUBSET (1 .. Len(fs)) /\ S \in SUBSET T
      /\ \A i \in T : i \in S <=> i <= Len(es)
  BY <1>1 DEF SnapshotsAt
<1>3. /\ Cardinality(S) \in Nat /\ Cardinality(T) \in Nat
      /\ Cardinality(S) <= Cardinality(T)
      /\ \A k \in 1 .. Cardinality(S) : Ordered(T)[k] = Ordered(S)[k]
      /\ \A k \in 1 .. Cardinality(T) :
            k > Cardinality(S) => Ordered(T)[k] > Len(es)
  <2> HIDE DEF S, T
  <2>0. Len(es) \in Nat /\ Len(fs) \in Nat
    BY <1>1
  <2>1. /\ Cardinality(S) \in Nat /\ Cardinality(T) \in Nat
        /\ Cardinality(S) <= Cardinality(T)
    BY <1>2, <2>0, OrderedPrefix
  <2>2. \A k \in 1 .. Cardinality(S) : Ordered(T)[k] = Ordered(S)[k]
    BY <1>2, <2>0, OrderedPrefix
  <2>3. \A k \in 1 .. Cardinality(T) :
            k > Cardinality(S) => Ordered(T)[k] > Len(es)
    BY <1>2, <2>0, OrderedPrefix
  <2> QED
    BY <2>1, <2>2, <2>3
<1>4. DOMAIN R = 1 .. Cardinality(S) /\ DOMAIN Q = 1 .. Cardinality(T)
  BY RowShape
<1>5. ASSUME NEW r \in DOMAIN R
      PROVE  /\ r \in DOMAIN Q
             /\ Q[r].file = R[r].file /\ Q[r].event_seq = R[r].event_seq
             /\ Q[r].content = R[r].content
  <2>1. r \in 1 .. Cardinality(S) /\ r \in 1 .. Cardinality(T)
    BY <1>3, <1>4
  <2>2. EventOf(fs, r) = EventOf(es, r) /\ EventOf(es, r) \in DOMAIN es
    BY <1>3, <2>1, RowShape DEF EventOf
  <2>3. fs[EventOf(fs, r)] = es[EventOf(es, r)]
    BY <1>1, <2>2
  <2>4. /\ R[r].file = NormalizePath(es[EventOf(es, r)].path, cwd)
        /\ R[r].event_seq = EventOf(es, r) - 1
        /\ R[r].content = Resolve(blobs, es[EventOf(es, r)].content).content
    BY <2>1, RowShape
  <2>5. /\ Q[r].file = NormalizePath(fs[EventOf(fs, r)].path, cwd)
        /\ Q[r].event_seq = EventOf(fs, r) - 1
        /\ Q[r].content = Resolve(blobs, fs[EventOf(fs, r)].content).content
    BY <2>1, RowShape
  <2> HIDE DEF R, Q
  <2> QED
    BY <1>4, <2>1, <2>2, <2>3, <2>4, <2>5
<1>6. ASSUME NEW r \in DOMAIN Q, Q[r].event_seq < Len(es) PROVE r \in DOMAIN R
  <2>1. r \in 1 .. Cardinality(T)
    BY <1>4
  <2>2. Q[r].event_seq = EventOf(fs, r) - 1 /\ EventOf(fs, r) \in Nat
    BY <2>1, RowShape
  <2>3. ~(EventOf(fs, r) > Len(es))
    BY <1>1, <1>6, <2>2
  <2>4. ~(r > Cardinality(S))
    BY <1>3, <2>1, <2>3 DEF EventOf
  <2> QED
    BY <1>3, <1>4, <2>1, <2>4
<1> QED
  BY <1>5, <1>6

\* A selection depends on the selected positions alone.
LEMMA SelectedSame ==
    ASSUME NEW n \in Nat, NEW S \in SUBSET (1 .. n), NEW es, NEW fs,
           \A i \in S : fs[i] = es[i]
    PROVE  Selected(fs, S) = Selected(es, S)
<1>1. /\ Selected(es, S) = [k \in 1 .. Cardinality(S) |-> es[Ordered(S)[k]]]
      /\ Selected(fs, S) = [k \in 1 .. Cardinality(S) |-> fs[Ordered(S)[k]]]
      /\ \A k \in 1 .. Cardinality(S) : Ordered(S)[k] \in S
  BY SelectedProperty
<1>2. \A k \in 1 .. Cardinality(S) : fs[Ordered(S)[k]] = es[Ordered(S)[k]]
  BY <1>1
<1> QED
  BY <1>1, <1>2

\* The content before an event, by the rows made of the beginning of a timeline.
LEMMA BeforePrefix ==
    ASSUME NEW es, NEW fs, Numbered(es), Numbered(fs), IsPrefix(es, fs),
           NEW cwd, NEW blobs, NEW file, NEW seq \in Nat, seq < Len(es)
    PROVE  BeforeState(Materialize(cwd, blobs, fs), file, seq)
             = BeforeState(Materialize(cwd, blobs, es), file, seq)
<1> DEFINE R == Materialize(cwd, blobs, es)
           Q == Materialize(cwd, blobs, fs)
           c == Cardinality(SnapshotsAt(es))
           At(rr) == {r \in RowsOf(rr, file) : rr[r].event_seq < seq}
<1>1. /\ \A r \in DOMAIN R :
            /\ r \in DOMAIN Q
            /\ Q[r].file = R[r].file /\ Q[r].event_seq = R[r].event_seq
            /\ Q[r].content = R[r].content
      /\ \A r \in DOMAIN Q : Q[r].event_seq < Len(es) => r \in DOMAIN R
  BY RowsPrefix
<1>2. c \in Nat /\ DOMAIN R = 1 .. c
  BY RowShape
<1>3. \A r \in DOMAIN Q : Q[r].event_seq \in Int
  <2>1. DOMAIN Q = 1 .. Cardinality(SnapshotsAt(fs))
    BY RowShape
  <2>2. \A r \in 1 .. Cardinality(SnapshotsAt(fs)) :
           Q[r].event_seq = EventOf(fs, r) - 1 /\ EventOf(fs, r) \in Nat
    BY RowShape
  <2> HIDE DEF Q
  <2> QED
    BY <2>1, <2>2
<1>4. Len(es) \in Nat
  BY Lengths DEF Numbered
<1>5. At(Q) = At(R)
  <2> HIDE DEF Q, R
  <2>1. ASSUME NEW r \in DOMAIN Q, Q[r].event_seq < seq PROVE r \in DOMAIN R
    BY <1>1, <1>3, <1>4, <2>1
  <2> QED
    BY <1>1, <2>1 DEF RowsOf
<1>6. At(R) \in SUBSET (1 .. c)
  <2> HIDE DEF Q, R, c
  <2> QED
    BY <1>2 DEF RowsOf
<1>7. At(R) # {} => Q[Max(At(R))].content = R[Max(At(R))].content
  <2> SUFFICES ASSUME At(R) # {} PROVE Q[Max(At(R))].content = R[Max(At(R))].content
    OBVIOUS
  <2> HIDE DEF Q, R, c, At
  <2>1. Max(At(R)) \in At(R)
    BY <1>2, <1>6, MaxProperty
  <2>2. Max(At(R)) \in DOMAIN R
    BY <1>2, <1>6, <2>1
  <2> QED
    BY <1>1, <2>2
<1>8. /\ BeforeState(R, file, seq) = IF At(R) = {} THEN None ELSE R[Max(At(R))].content
      /\ BeforeState(Q, file, seq) = IF At(Q) = {} THEN None ELSE Q[Max(At(Q))].content
  <2> HIDE DEF Q, R
  <2> QED
    BY DEF BeforeState
<1> HIDE DEF Q, R, At
<1> QED
  BY <1>5, <1>7, <1>8 DEF Q, R

\* The context of an event of the beginning of a timeline.
LEMMA ContextPrefix ==
    ASSUME NEW es, NEW fs, Numbered(es), Numbered(fs), IsPrefix(es, fs),
           NEW cwd, NEW blobs, NEW file, NEW seq \in Nat, seq < Len(es)
    PROVE  ContextOf(file, seq, Materialize(cwd, blobs, fs), fs)
             = ContextOf(file, seq, Materialize(cwd, blobs, es), es)
<1> DEFINE R == Materialize(cwd, blobs, es)
           Q == Materialize(cwd, blobs, fs)
           At(g) == {i \in DOMAIN g : g[i].seq < seq /\ g[i].kind # "snapshot"}
           Context(before, prior) ==
               LET from == IF Len(prior) > ContextLimit
                           THEN Len(prior) - ContextLimit + 1 ELSE 1
               IN  IF file = None \/ before = None THEN None
                   ELSE [prior |-> [i \in 1..(Len(prior) - from + 1) |->
                                       PriorLine(prior[from + i - 1])],
                         before |-> before]
<1>1. /\ Len(es) \in Nat /\ DOMAIN es = 1 .. Len(es)
      /\ Len(fs) \in Nat /\ DOMAIN fs = 1 .. Len(fs)
      /\ \A i \in DOMAIN fs : fs[i].seq = i - 1
      /\ \A i \in 1 .. Len(es) : i \in DOMAIN fs /\ fs[i] = es[i]
  BY Lengths, PrefixProperty DEF Numbered
<1>2. At(es) = At(fs)
  <2>1. ASSUME NEW i \in DOMAIN fs, fs[i].seq < seq PROVE i \in DOMAIN es
    <3>1. i \in Nat /\ i >= 1 /\ i - 1 < seq
      BY <1>1, <2>1
    <3> QED
      BY <1>1, <3>1
  <2> QED
    BY <1>1, <2>1
<1>3. Selected(fs, At(es)) = Selected(es, At(es))
  <2>1. At(es) \in SUBSET (1 .. Len(es)) /\ \A i \in At(es) : fs[i] = es[i]
    BY <1>1
  <2> HIDE DEF At
  <2> QED
    BY <1>1, <2>1, SelectedSame
<1>4. BeforeState(Q, file, seq) = BeforeState(R, file, seq)
  BY BeforePrefix
<1>5. /\ ContextOf(file, seq, R, es)
           = Context(BeforeState(R, file, seq), Selected(es, At(es)))
      /\ ContextOf(file, seq, Q, fs)
           = Context(BeforeState(Q, file, seq), Selected(fs, At(fs)))
  <2> HIDE DEF Q, R
  <2> QED
    BY DEF ContextOf
<1> HIDE DEF Q, R, At, Context
<1> QED
  BY <1>2, <1>3, <1>4, <1>5 DEF Q, R

ModificationsAt(es) == {i \in DOMAIN es : IsModification(es[i])}

\* The event a proposal is made of.
ProposalOf(es, g) == Ordered(ModificationsAt(es))[g]

ExampleOf(cwd, es, rr, v, g, e) ==
    [generation |-> g - 1, seq |-> e.seq, ref |-> e.ref,
     file |-> FileOf(e, cwd), tool |-> e.tool, content |-> e.content,
     context |-> ContextOf(FileOf(e, cwd), e.seq, rr, es),
     label |-> IF e.ref \in DeniedRefs(es)
               THEN Label("rejected", HighConfidence, "permission_denial")
               ELSE Classify(e.tool, FileOf(e, cwd), e.ref, e.seq, rr, es),
     version |-> v]

\* Every modification gives an example, in their order.
LEMMA ExampleShape ==
    ASSUME NEW es, Numbered(es), NEW cwd, NEW rr, NEW v
    PROVE  LET X == CompileExamples(cwd, es, rr, v)
               c == Cardinality(ModificationsAt(es))
           IN  /\ c \in Nat /\ DOMAIN X = 1 .. c
               /\ Modifications(es) = [g \in 1 .. c |-> es[ProposalOf(es, g)]]
               /\ \A g \in 1 .. c :
                     /\ ProposalOf(es, g) \in ModificationsAt(es)
                     /\ ProposalOf(es, g) \in DOMAIN es /\ ProposalOf(es, g) \in Nat
                     /\ X[g] = ExampleOf(cwd, es, rr, v, g, es[ProposalOf(es, g)])
<1> DEFINE P == ModificationsAt(es)
           c == Cardinality(P)
           props == Selected(es, P)
<1>1. Len(es) \in Nat /\ DOMAIN es = 1 .. Len(es)
  BY Lengths DEF Numbered
<1>2. P \in SUBSET (1 .. Len(es))
  BY <1>1 DEF ModificationsAt
<1>3. /\ IsFiniteSet(P) /\ P \in SUBSET Nat /\ c \in Nat
      /\ props = [k \in 1 .. c |-> es[Ordered(P)[k]]]
      /\ \A k \in 1 .. c : Ordered(P)[k] \in P
  <2> HIDE DEF P
  <2> QED
    BY <1>1, <1>2, SelectedProperty
<1>4. Modifications(es) = props
  BY DEF Modifications, ModificationsAt
<1>5. DOMAIN props = 1 .. c /\ \A g \in 1 .. c : props[g] = es[ProposalOf(es, g)]
  BY <1>3 DEF ProposalOf
<1>6. ASSUME NEW g \in 1 .. c
      PROVE  /\ ProposalOf(es, g) \in P
             /\ ProposalOf(es, g) \in DOMAIN es /\ ProposalOf(es, g) \in Nat
  BY <1>1, <1>2, <1>3 DEF ProposalOf
<1>7. CompileExamples(cwd, es, rr, v) =
        [g \in 1 .. c |-> ExampleOf(cwd, es, rr, v, g, props[g])]
  <2> HIDE DEF c, props
  <2> QED
    BY <1>4, <1>5 DEF CompileExamples, ExampleOf
<1>8. Modifications(es) = [g \in 1 .. c |-> es[ProposalOf(es, g)]]
  BY <1>3, <1>4 DEF ProposalOf
<1> HIDE DEF c, props, P
<1>9. DOMAIN CompileExamples(cwd, es, rr, v) = 1 .. c
  BY <1>7
<1> QED
  BY <1>3, <1>5, <1>6, <1>7, <1>8, <1>9 DEF c, P

\* The examples of the beginning of a timeline are the first ones, with the same
\* contexts.
LEMMA ExamplesPrefix ==
    ASSUME NEW es, NEW fs, Numbered(es), Numbered(fs), IsPrefix(es, fs),
           NEW cwd, NEW blobs, NEW v, NEW w
    PROVE  LET X == CompileExamples(cwd, es, Materialize(cwd, blobs, es), v)
               Y == CompileExamples(cwd, fs, Materialize(cwd, blobs, fs), w)
           IN  \A i \in DOMAIN X :
                  /\ Y[i].generation = X[i].generation /\ Y[i].seq = X[i].seq
                  /\ Y[i].ref = X[i].ref /\ Y[i].context = X[i].context
<1> DEFINE R == Materialize(cwd, blobs, es)
           Q == Materialize(cwd, blobs, fs)
           X == CompileExamples(cwd, es, R, v)
           Y == CompileExamples(cwd, fs, Q, w)
           S == ModificationsAt(es)
           T == ModificationsAt(fs)
<1>1. /\ Len(es) \in Nat /\ DOMAIN es = 1 .. Len(es)
      /\ Len(fs) \in Nat /\ DOMAIN fs = 1 .. Len(fs)
      /\ \A i \in DOMAIN es : es[i].seq = i - 1
      /\ \A i \in 1 .. Len(es) : i \in DOMAIN fs /\ fs[i] = es[i]
  BY Lengths, PrefixProperty DEF Numbered
<1>2. /\ T \in SUBSET (1 .. Len(fs)) /\ S \in SUBSET T
      /\ \A i \in T : i \in S <=> i <= Len(es)
  BY <1>1 DEF ModificationsAt
<1>3. /\ Cardinality(S) \in Nat /\ Cardinality(T) \in Nat
      /\ Cardinality(S) <= Cardinality(T)
      /\ \A k \in 1 .. Cardinality(S) : Ordered(T)[k] = Ordered(S)[k]
  <2> HIDE DEF S, T
  <2>0. Len(es) \in Nat /\ Len(fs) \in Nat
    BY <1>1
  <2>1. /\ Cardinality(S) \in Nat /\ Cardinality(T) \in Nat
        /\ Cardinality(S) <= Cardinality(T)
    BY <1>2, <2>0, OrderedPrefix
  <2>2. \A k \in 1 .. Cardinality(S) : Ordered(T)[k] = Ordered(S)[k]
    BY <1>2, <2>0, OrderedPrefix
  <2> QED
    BY <2>1, <2>2
<1>4. ASSUME NEW i \in DOMAIN X
      PROVE  /\ Y[i].generation = X[i].generation /\ Y[i].seq = X[i].seq
             /\ Y[i].ref = X[i].ref /\ Y[i].context = X[i].context
  <2> DEFINE p == ProposalOf(es, i)
             e == es[p]
  <2>1. i \in 1 .. Cardinality(S) /\ i \in 1 .. Cardinality(T)
    <3>1. DOMAIN X = 1 .. Cardinality(S)
      BY ExampleShape
    <3> QED
      BY <1>3, <3>1
  <2>2. p \in DOMAIN es /\ ProposalOf(fs, i) = p
    <3>1. p \in DOMAIN es
      BY <2>1, ExampleShape
    <3> QED
      BY <1>3, <2>1, <3>1 DEF ProposalOf
  <2>3. fs[p] = e /\ e.seq = p - 1 /\ p \in Nat /\ p <= Len(es) /\ e.seq \in Nat
    BY <1>1, <2>2
  <2>4. /\ X[i].generation = i - 1 /\ X[i].seq = e.seq /\ X[i].ref = e.ref
        /\ X[i].context = ContextOf(FileOf(e, cwd), e.seq, R, es)
    <3>1. X[i] = ExampleOf(cwd, es, R, v, i, e)
      BY <2>1, ExampleShape
    <3> HIDE DEF R, X, e
    <3> QED
      BY <3>1 DEF ExampleOf
  <2>5. /\ Y[i].generation = i - 1 /\ Y[i].seq = e.seq /\ Y[i].ref = e.ref
        /\ Y[i].context = ContextOf(FileOf(e, cwd), e.seq, Q, fs)
    <3> DEFINE f == fs[ProposalOf(fs, i)]
    <3>1. f = e
      BY <2>2, <2>3
    <3>3. Y[i] = ExampleOf(cwd, fs, Q, w, i, f)
      BY <2>1, ExampleShape
    <3> HIDE DEF Q, Y, f
    <3>2. /\ Y[i].generation = i - 1 /\ Y[i].seq = f.seq /\ Y[i].ref = f.ref
          /\ Y[i].context = ContextOf(FileOf(f, cwd), f.seq, Q, fs)
      BY <3>3 DEF ExampleOf
    <3> HIDE DEF e
    <3> QED
      BY <3>1, <3>2
  <2>6. ContextOf(FileOf(e, cwd), e.seq, Q, fs) = ContextOf(FileOf(e, cwd), e.seq, R, es)
    <3>1. e.seq \in Nat /\ e.seq < Len(es)
      BY <1>1, <2>3
    <3> HIDE DEF e
    <3> QED
      BY <3>1, ContextPrefix
  <2> HIDE DEF X, Y, R, Q, e
  <2> QED
    BY <2>4, <2>5, <2>6
<1> QED
  BY <1>4

------------------------------------------------------------------------------
(* Concatenation. *)

\* F holds the concatenations of the first sequences of s.
Flattens(F, s, n) ==
    F = [i \in 1 .. n |-> IF i = 1 THEN s[i] ELSE F[i - 1] \o s[i]]

\* The function that FlattenSeq defines by recursion exists.
LEMMA FlattensExists ==
    ASSUME NEW s, NEW n \in Nat
    PROVE  \E F : Flattens(F, s, n)
<1> DEFINE Bad == {m \in Nat : ~\E F : Flattens(F, s, m)}
<1> SUFFICES ASSUME Bad # {} PROVE FALSE
  OBVIOUS
<1>1. PICK m \in Bad : \A k \in Bad : m <= k
  <2>1. Bad \in SUBSET Nat
    OBVIOUS
  <2> HIDE DEF Bad
  <2> QED
    BY <2>1, LeastNatural
<1>2. m # 0
  <2>1. Flattens([i \in 1 .. 0 |-> s[i]], s, 0)
    BY DEF Flattens
  <2> QED
    BY <2>1
<1>3. m - 1 \in Nat /\ m - 1 \notin Bad
  BY <1>1, <1>2
<1>4. PICK F : Flattens(F, s, m - 1)
  BY <1>3
<1> DEFINE G == [i \in 1 .. m |-> IF i = m THEN IF m = 1 THEN s[m] ELSE F[m - 1] \o s[m]
                                  ELSE F[i]]
<1>5. DOMAIN F = 1 .. m - 1
  BY <1>4 DEF Flattens
<1>6. ASSUME NEW i \in 1 .. m
      PROVE  G[i] = IF i = 1 THEN s[i] ELSE G[i - 1] \o s[i]
  <2>1. CASE i = m
    <3>1. i # 1 => i - 1 \in 1 .. m /\ i - 1 # m /\ G[i - 1] = F[i - 1]
      BY <1>3, <2>1
    <3> QED
      BY <2>1, <3>1
  <2>2. CASE i # m
    <3>1. i \in 1 .. m - 1 /\ G[i] = F[i]
      BY <1>3, <2>2
    <3>2. i # 1 => i - 1 \in 1 .. m /\ i - 1 # m /\ G[i - 1] = F[i - 1]
      BY <1>3, <3>1
    <3>3. F[i] = IF i = 1 THEN s[i] ELSE F[i - 1] \o s[i]
      BY <1>4, <3>1 DEF Flattens
    <3> HIDE DEF G
    <3> QED
      BY <3>1, <3>2, <3>3
  <2> QED
    BY <2>1, <2>2
<1>7. Flattens(G, s, m)
  <2>1. G = [i \in 1 .. m |-> G[i]]
    OBVIOUS
  <2> HIDE DEF G
  <2> QED
    BY <1>6, <2>1 DEF Flattens
<1>8. m \notin Bad
  BY <1>7
<1> QED
  BY <1>1, <1>8

\* FlattenSeq is the last of them.
LEMMA FlattenIs ==
    ASSUME NEW s, Len(s) \in Nat, Len(s) # 0
    PROVE  \E F : Flattens(F, s, Len(s)) /\ FlattenSeq(s) = F[Len(s)]
<1> DEFINE F == CHOOSE G : Flattens(G, s, Len(s))
           H == CHOOSE G : G = [i \in 1 .. Len(s) |->
                                  IF i = 1 THEN s[i] ELSE G[i - 1] \o s[i]]
<1>1. Flattens(F, s, Len(s))
  BY FlattensExists
<1>2. FlattenSeq(s) = H[Len(s)]
  BY DEF FlattenSeq
<1>3. H = F
  BY DEF Flattens
<1> QED
  BY <1>1, <1>2, <1>3

\* Where each sequence of s begins in the concatenation f.
Offsets(s, f, off) ==
    /\ off \in [1 .. Len(s) + 1 -> Nat]
    /\ \A i \in 1 .. Len(s) : off[i + 1] = off[i] + Len(s[i])
    /\ off[Len(s) + 1] = Len(f)
    /\ \A i \in 1 .. Len(s) : \A j \in 1 .. Len(s[i]) :
          off[i] + j \in 1 .. Len(f) /\ f[off[i] + j] = s[i][j]
    /\ \A k \in 1 .. Len(f) :
          \E i \in 1 .. Len(s) : \E j \in 1 .. Len(s[i]) : k = off[i] + j

\* The first n sequences are in their places.
FirstInPlace(X, s, F, off, n) ==
    /\ F[n] \in Seq(X)
    /\ \A i \in 1 .. n : \A j \in 1 .. Len(s[i]) :
          off[i] + j \in 1 .. Len(F[n]) /\ F[n][off[i] + j] = s[i][j]
    /\ \A k \in 1 .. Len(F[n]) :
          \E i \in 1 .. n : \E j \in 1 .. Len(s[i]) : k = off[i] + j

\* The first part is in its place.
LEMMA OneInPlace ==
    ASSUME NEW X, NEW s \in Seq(Seq(X)), Len(s) # 0,
           NEW F, Flattens(F, s, Len(s)),
           NEW off, off = [i \in 1 .. Len(s) + 1 |-> IF i = 1 THEN 0 ELSE Len(F[i - 1])]
    PROVE  FirstInPlace(X, s, F, off, 1)
<1>1. 1 \in 1 .. Len(s) /\ 1 \in 1 .. Len(s) + 1 /\ Len(s) \in Nat
  OBVIOUS
<1>2. F[1] = s[1] /\ off[1] = 0 /\ s[1] \in Seq(X)
  BY <1>1 DEF Flattens
<1>3. Len(s[1]) \in Nat
  BY <1>2
<1> QED
  BY <1>2, <1>3 DEF FirstInPlace

\* A part is in its place when the one before it is.
LEMMA NextInPlace ==
    ASSUME NEW X, NEW s \in Seq(Seq(X)),
           NEW F, Flattens(F, s, Len(s)),
           NEW off, off = [i \in 1 .. Len(s) + 1 |-> IF i = 1 THEN 0 ELSE Len(F[i - 1])],
           NEW n \in 1 .. Len(s), n + 1 \in 1 .. Len(s), FirstInPlace(X, s, F, off, n)
    PROVE  /\ FirstInPlace(X, s, F, off, n + 1)
           /\ off[n + 2] = off[n + 1] + Len(s[n + 1])
<1> DEFINE a == F[n]
           b == s[n + 1]
<1>1. /\ n \in Nat /\ n + 1 # 1 /\ n + 2 # 1 /\ n + 1 - 1 = n /\ n + 2 - 1 = n + 1
      /\ n + 1 \in 1 .. Len(s) + 1 /\ n + 2 \in 1 .. Len(s) + 1
  OBVIOUS
<1>2. F[n + 1] = a \o b
  <2>1. \A i \in 1 .. Len(s) : F[i] = IF i = 1 THEN s[i] ELSE F[i - 1] \o s[i]
    BY DEF Flattens
  <2>2. F[n + 1] = F[n] \o s[n + 1]
    <3> DEFINE m == n + 1
    <3>1. m \in 1 .. Len(s) /\ m # 1 /\ m - 1 = n
      BY <1>1
    <3> HIDE DEF m
    <3>2. F[m] = F[m - 1] \o s[m]
      BY <2>1, <3>1
    <3> QED
      BY <3>1, <3>2 DEF m
  <2> QED
    BY <1>1, <2>2
<1>3. a \in Seq(X) /\ b \in Seq(X)
  BY DEF FirstInPlace
<1>4. off[n + 1] = Len(a) /\ off[n + 2] = Len(F[n + 1])
  BY <1>1
<1> DEFINE c == F[n + 1]
<1> HIDE DEF a, b, c
<1>5. /\ Len(a) \in Nat /\ Len(b) \in Nat
      /\ c \in Seq(X) /\ Len(c) = Len(a) + Len(b)
      /\ \A k \in 1 .. Len(a) : c[k] = a[k]
      /\ \A k \in 1 .. Len(b) : c[Len(a) + k] = b[k]
  BY <1>2, <1>3, ConcatProperties DEF c
<1>6. off[n + 1] = Len(a) /\ off[n + 2] = Len(c)
  BY <1>4 DEF a, c
<1>7. ASSUME NEW i \in 1 .. n + 1, NEW j \in 1 .. Len(s[i])
      PROVE  off[i] + j \in 1 .. Len(c) /\ c[off[i] + j] = s[i][j]
  <2>1. CASE i \in 1 .. n
    <3>1. off[i] + j \in 1 .. Len(a) /\ a[off[i] + j] = s[i][j]
      BY <2>1 DEF FirstInPlace, a
    <3> DEFINE k == off[i] + j
    <3> HIDE DEF k
    <3>2. k \in 1 .. Len(a) /\ a[k] = s[i][j]
      BY <3>1 DEF k
    <3>3. k \in 1 .. Len(c) /\ c[k] = a[k]
      BY <1>5, <3>2
    <3> QED
      BY <3>2, <3>3 DEF k
  <2>2. CASE i = n + 1
    <3>1. off[i] = Len(a) /\ s[i] = b
      BY <1>6, <2>2 DEF b
    <3>2. j \in 1 .. Len(b)
      BY <3>1
    <3>3. c[Len(a) + j] = b[j]
      BY <1>5, <3>2
    <3>4. Len(a) + j \in 1 .. Len(c)
      BY <1>5, <3>2
    <3> QED
      BY <3>1, <3>3, <3>4
  <2> QED
    BY <1>1, <2>1, <2>2
<1>8. ASSUME NEW k \in 1 .. Len(c)
      PROVE  \E i \in 1 .. n + 1 : \E j \in 1 .. Len(s[i]) : k = off[i] + j
  <2>1. CASE k <= Len(a)
    <3>1. k \in 1 .. Len(a)
      BY <1>5, <2>1
    <3>2. PICK i \in 1 .. n : \E j \in 1 .. Len(s[i]) : k = off[i] + j
      BY <3>1 DEF FirstInPlace, a
    <3>3. i \in 1 .. n + 1
      BY <1>1
    <3> QED
      BY <3>2, <3>3
  <2>2. CASE ~(k <= Len(a))
    <3> DEFINE j == k - Len(a)
    <3>1. j \in 1 .. Len(b) /\ k = Len(a) + j
      BY <1>5, <2>2
    <3>2. n + 1 \in 1 .. n + 1
      BY <1>1
    <3> HIDE DEF j
    <3>3. j \in 1 .. Len(s[n + 1]) /\ k = off[n + 1] + j
      BY <1>6, <3>1 DEF b
    <3> QED
      BY <3>2, <3>3
  <2> QED
    BY <2>1, <2>2
<1>9. off[n + 2] = off[n + 1] + Len(s[n + 1])
  BY <1>5, <1>6 DEF b
<1> QED
  BY <1>5, <1>7, <1>8, <1>9 DEF FirstInPlace, c

\* FlattenSeq puts the sequences one after the other.
LEMMA FlattenProperty ==
    ASSUME NEW X, NEW s \in Seq(Seq(X))
    PROVE  FlattenSeq(s) \in Seq(X) /\ \E off : Offsets(s, FlattenSeq(s), off)
<1>0. Len(s) \in Nat
  OBVIOUS
<1>1. CASE Len(s) = 0
  <2> DEFINE off == [i \in 1 .. 1 |-> 0]
  <2>1. FlattenSeq(s) = s /\ s \in Seq(X)
    BY <1>1 DEF FlattenSeq
  <2>2. Offsets(s, s, off)
    <3>1. off \in [1 .. Len(s) + 1 -> Nat] /\ off[Len(s) + 1] = Len(s)
      BY <1>1
    <3>2. 1 .. Len(s) = {}
      BY <1>1
    <3> HIDE DEF off
    <3> QED
      BY <3>1, <3>2 DEF Offsets
  <2> QED
    BY <2>1, <2>2
<1>2. CASE Len(s) # 0
  <2>1. PICK F : Flattens(F, s, Len(s)) /\ FlattenSeq(s) = F[Len(s)]
    BY <1>0, <1>2, FlattenIs
  <2> DEFINE N == Len(s)
             off == [i \in 1 .. Len(s) + 1 |-> IF i = 1 THEN 0 ELSE Len(F[i - 1])]
             Bad == {n \in 1 .. N : ~FirstInPlace(X, s, F, off, n)}
  <2>2. FirstInPlace(X, s, F, off, 1)
    BY <1>2, <2>1, OneInPlace
  <2>3. ASSUME NEW n \in 1 .. N, n + 1 \in 1 .. N, FirstInPlace(X, s, F, off, n)
        PROVE  /\ FirstInPlace(X, s, F, off, n + 1)
               /\ off[n + 2] = off[n + 1] + Len(s[n + 1])
    <3> DEFINE o == off
    <3>1. o = [i \in 1 .. Len(s) + 1 |-> IF i = 1 THEN 0 ELSE Len(F[i - 1])]
      OBVIOUS
    <3> HIDE DEF o
    <3>2. FirstInPlace(X, s, F, o, n)
      BY <2>3 DEF o
    <3>3. FirstInPlace(X, s, F, o, n + 1) /\ o[n + 2] = o[n + 1] + Len(s[n + 1])
      BY <2>1, <2>3, <3>1, <3>2, NextInPlace
    <3> QED
      BY <3>3 DEF o
  <2>4. Bad = {}
    <3> SUFFICES ASSUME Bad # {} PROVE FALSE
      OBVIOUS
    <3>1. PICK m \in Bad : \A k \in Bad : m <= k
      <4>1. Bad \in SUBSET Nat
        OBVIOUS
      <4> HIDE DEF Bad
      <4> QED
        BY <4>1, LeastNatural
    <3>2. m \in 1 .. N /\ m # 1
      BY <2>2, <3>1
    <3>3. m - 1 \in 1 .. N /\ m - 1 + 1 = m
      BY <1>0, <3>2
    <3>4. m - 1 \notin Bad
      <4> HIDE DEF Bad
      <4>1. m - 1 \in Bad => m <= m - 1
        BY <3>1
      <4> QED
        BY <3>2, <4>1
    <3>5. FirstInPlace(X, s, F, off, m - 1)
      BY <3>3, <3>4
    <3> HIDE DEF off
    <3>6. FirstInPlace(X, s, F, off, m)
      BY <2>3, <3>2, <3>3, <3>5
    <3> QED
      BY <3>1, <3>6
  <2>5. \A n \in 1 .. N : FirstInPlace(X, s, F, off, n)
    BY <2>4
  <2>6. N \in 1 .. N /\ 1 \in 1 .. N
    BY <1>0, <1>2
  <2>7. FirstInPlace(X, s, F, off, N)
    <3> HIDE DEF off
    <3> QED
      BY <2>5, <2>6
  <2>8. \A n \in 1 .. N : F[n] \in Seq(X)
    <3> HIDE DEF off
    <3> QED
      BY <2>5 DEF FirstInPlace
  <2>9. off \in [1 .. N + 1 -> Nat]
    <3>1. ASSUME NEW i \in 1 .. N + 1 PROVE off[i] \in Nat
      <4>1. CASE i = 1
        BY <4>1
      <4>2. CASE i # 1
        <5>1. i - 1 \in 1 .. N
          BY <1>0, <4>2
        <5>2. Len(F[i - 1]) \in Nat
          BY <2>8, <5>1
        <5> QED
          BY <4>2, <5>2
      <4> QED
        BY <4>1, <4>2
    <3> QED
      BY <3>1
  <2>10. off[N + 1] = Len(F[N])
    BY <1>0, <1>2
  <2>11. ASSUME NEW i \in 1 .. N PROVE off[i + 1] = off[i] + Len(s[i])
    <3>1. CASE i = 1
      <4>1. F[1] = s[1] /\ s[1] \in Seq(X) /\ Len(s[1]) \in Nat
        BY <2>1, <2>6 DEF Flattens
      <4>2. off[1] = 0 /\ off[2] = Len(F[1])
        BY <1>0, <2>6
      <4> HIDE DEF off
      <4> QED
        BY <3>1, <4>1, <4>2
    <3>2. CASE i # 1
      <4>1. i - 1 \in 1 .. N /\ i - 1 + 1 = i /\ i - 1 + 2 = i + 1
        BY <1>0, <3>2
      <4> HIDE DEF off
      <4>2. FirstInPlace(X, s, F, off, i - 1)
        BY <2>5, <4>1
      <4>3. off[i - 1 + 2] = off[i - 1 + 1] + Len(s[i - 1 + 1])
        BY <2>3, <4>1, <4>2
      <4> QED
        BY <4>1, <4>3
    <3> QED
      BY <3>1, <3>2
  <2> HIDE DEF off
  <2>12. Offsets(s, F[N], off)
    BY <2>7, <2>9, <2>10, <2>11 DEF Offsets, FirstInPlace
  <2> QED
    BY <2>1, <2>6, <2>8, <2>12
<1> QED
  BY <1>1, <1>2

\* The sequences come in their order.
LEMMA OffsetsOrdered ==
    ASSUME NEW s, Len(s) \in Nat, \A i \in 1 .. Len(s) : Len(s[i]) \in Nat,
           NEW f, NEW off, Offsets(s, f, off),
           NEW i \in 1 .. Len(s), NEW n \in 1 .. Len(s), i < n
    PROVE  off[i] + Len(s[i]) <= off[n]
<1> DEFINE Bad == {k \in 1 .. Len(s) : i < k /\ ~(off[i] + Len(s[i]) <= off[k])}
<1>0. /\ off \in [1 .. Len(s) + 1 -> Nat]
      /\ \A k \in 1 .. Len(s) : off[k + 1] = off[k] + Len(s[k])
  BY DEF Offsets
<1> SUFFICES ASSUME Bad # {} PROVE FALSE
  OBVIOUS
<1>1. PICK m \in Bad : \A k \in Bad : m <= k
  <2>1. Bad \in SUBSET Nat
    OBVIOUS
  <2> HIDE DEF Bad
  <2> QED
    BY <2>1, LeastNatural
<1>2. /\ m \in 1 .. Len(s) /\ i < m /\ ~(off[i] + Len(s[i]) <= off[m])
      /\ m - 1 \in 1 .. Len(s) /\ m - 1 + 1 = m
  BY <1>1
<1>3. m - 1 \notin Bad
  <2> HIDE DEF Bad
  <2>1. m - 1 \in Bad => m <= m - 1
    BY <1>1
  <2> QED
    BY <1>2, <2>1
<1>4. off[m] = off[m - 1] + Len(s[m - 1])
  BY <1>0, <1>2
<1>5. /\ off[m - 1] \in Nat /\ off[i] \in Nat /\ off[m] \in Nat
      /\ Len(s[i]) \in Nat /\ Len(s[m - 1]) \in Nat
  <2>1. \A k \in 1 .. Len(s) : k \in 1 .. Len(s) + 1
    OBVIOUS
  <2>2. \A k \in 1 .. Len(s) : off[k] \in Nat
    BY <1>0, <2>1
  <2> HIDE DEF Bad
  <2> QED
    BY <1>2, <2>2
<1>6. CASE i = m - 1
  BY <1>2, <1>4, <1>5, <1>6
<1>7. CASE i # m - 1
  <2>1. i < m - 1
    BY <1>2, <1>7
  <2>2. off[i] + Len(s[i]) <= off[m - 1]
    BY <1>2, <1>3, <2>1
  <2> HIDE DEF Bad
  <2> QED
    BY <1>2, <1>4, <1>5, <2>2
<1> QED
  BY <1>6, <1>7

------------------------------------------------------------------------------
(* Events. *)

IsEvent(e) ==
    e = Event(e.kind, e.seq, e.stream, e.ts, e.path, e.content, e.ref, e.tool)

Renumber(e, n) == [e EXCEPT !.seq = n]

\* A renumbered event keeps everything but its number.
LEMMA Renumbered ==
    ASSUME NEW e, IsEvent(e), NEW n
    PROVE  /\ Renumber(e, n).seq = n /\ Renumber(e, n).kind = e.kind
           /\ Renumber(e, n).stream = e.stream /\ Renumber(e, n).ts = e.ts
           /\ Renumber(e, n).path = e.path /\ Renumber(e, n).content = e.content
           /\ Renumber(e, n).ref = e.ref /\ Renumber(e, n).tool = e.tool
           /\ IsEvent(Renumber(e, n))
           /\ \A m : Renumber(Renumber(e, n), m) = Renumber(e, m)
<1> DEFINE r == Event(e.kind, e.seq, e.stream, e.ts, e.path, e.content, e.ref, e.tool)
           f == [r EXCEPT !.seq = n]
<1>1. e = r
  BY DEF IsEvent
<1>2. f = Event(r.kind, n, r.stream, r.ts, r.path, r.content, r.ref, r.tool)
  BY DEF Event
<1>3. /\ f.seq = n /\ f.kind = r.kind /\ f.stream = r.stream /\ f.ts = r.ts
      /\ f.path = r.path /\ f.content = r.content /\ f.ref = r.ref
      /\ f.tool = r.tool
  BY DEF Event
<1>4. IsEvent(f)
  BY <1>2, <1>3 DEF IsEvent
<1>5. \A m : [f EXCEPT !.seq = m] = [r EXCEPT !.seq = m]
  BY DEF Event
<1>6. Renumber(r, n) = f
  BY DEF Renumber
<1>7. \A m : Renumber(f, m) = Renumber(r, m)
  <2> HIDE DEF f, r
  <2> QED
    BY <1>5 DEF Renumber
<1> HIDE DEF r, f
<1> QED
  BY <1>1, <1>3, <1>4, <1>6, <1>7

\* The event of a block of a line.
BlockEvent(n, s, line, b) ==
    CASE line.type = "file-history-snapshot" -> SnapshotEvent(n, s, line, b)
      [] line.type = "assistant" -> ProposalEvent(n, s, line, b)
      [] line.type = "user" -> ResultEvent(n, s, line, b)

BlockEvents(n, s, line) == {BlockEvent(n, s, line, b) : b \in ToSet(line.blocks)}

\* The events a transcript of a session can stand for.
StreamEvents(s) ==
    UNION {BlockEvents(p[1], s, p[2]) : p \in Nat \X LinesOfTranscripts(s)}

AllEvents == UNION {StreamEvents(s) : s \in Sessions}

\* What every event of a stream has.
LEMMA StreamEventShape ==
    ASSUME NEW s \in Sessions, NEW e \in StreamEvents(s)
    PROVE  /\ IsEvent(e) /\ e.stream = s /\ e.ts \in Nat /\ e.seq \in Nat
           /\ e.kind = "proposal" =>
                 \E u \in ToolUses(s) : e.ref = u.ref /\ e.tool = u.tool
<1>1. PICK n \in Nat, line \in LinesOfTranscripts(s) : e \in BlockEvents(n, s, line)
  BY DEF StreamEvents
<1>2. PICK b \in ToSet(line.blocks) : e = BlockEvent(n, s, line, b)
  BY <1>1 DEF BlockEvents
<1>3. /\ line.ts \in Nat /\ line.type \in ParsedTypes
      /\ line.type = "file-history-snapshot" => b.ts \in Nat
  <2>1. /\ line.ts \in Nat /\ IsSeq(line.blocks)
        /\ line.blocks # <<>> => line.type \in ParsedTypes
        /\ line.type = "file-history-snapshot" =>
              \A c \in ToSet(line.blocks) : c.ts \in Nat
    BY TranscriptAssumption
  <2>2. line.blocks # <<>>
    BY DEF ToSet
  <2> QED
    BY <2>1, <2>2
<1>4. CASE line.type = "file-history-snapshot"
  <2>1. e = SnapshotEvent(n, s, line, b)
    BY <1>2, <1>4 DEF BlockEvent
  <2>2. /\ e.kind = "snapshot" /\ e.seq = n /\ e.stream = s
        /\ e.ts = IF b.ts # 0 THEN b.ts ELSE line.ts
    BY <2>1 DEF SnapshotEvent, Event
  <2>3. IsEvent(e)
    BY <2>1 DEF IsEvent, SnapshotEvent, Event
  <2> QED
    BY <1>3, <1>4, <2>2, <2>3
<1>5. CASE line.type = "assistant"
  <2>1. e = ProposalEvent(n, s, line, b)
    BY <1>2, <1>5 DEF BlockEvent
  <2>2. /\ e.seq = n /\ e.stream = s /\ e.ts = line.ts /\ e.ref = b.ref
        /\ e.tool = b.tool
    BY <2>1 DEF ProposalEvent, Event
  <2>3. IsEvent(e)
    BY <2>1 DEF IsEvent, ProposalEvent, Event
  <2>4. b \in ToolUses(s)
    BY <1>2, <1>5 DEF ToolUses
  <2> QED
    BY <1>3, <2>2, <2>3, <2>4
<1>6. CASE line.type = "user"
  <2>1. e = ResultEvent(n, s, line, b)
    BY <1>2, <1>6 DEF BlockEvent
  <2>2. /\ e.kind # "proposal" /\ e.seq = n /\ e.stream = s /\ e.ts = line.ts
    BY <2>1 DEF ResultEvent, Event
  <2>3. IsEvent(e)
    BY <2>1 DEF IsEvent, ResultEvent, Event
  <2> QED
    BY <1>3, <2>2, <2>3
<1> QED
  BY <1>3, <1>4, <1>5, <1>6 DEF ParsedTypes

------------------------------------------------------------------------------
(* Streams and their merge. *)

\* A parsed transcript: the events of its lines, in the order of the lines.
LEMMA ParseStreamShape ==
    ASSUME NEW s \in Sessions, NEW lines \in Seq(LinesOfTranscripts(s))
    PROVE  LET es == ParseStream(s, lines)
           IN  /\ es \in Seq(StreamEvents(s))
               /\ \A k, n \in DOMAIN es : k < n => es[k].seq <= es[n].seq
<1> DEFINE parts == [i \in DOMAIN lines |-> ParseLine(i - 1, s, lines[i])]
           es == FlattenSeq(parts)
<1>1. Len(lines) \in Nat /\ DOMAIN lines = 1 .. Len(lines)
  OBVIOUS
<1>2. ASSUME NEW i \in 1 .. Len(lines)
      PROVE  /\ parts[i] \in Seq(StreamEvents(s))
             /\ \A j \in DOMAIN parts[i] : parts[i][j].seq = i - 1
  <2> DEFINE line == lines[i]
             part == ParseLine(i - 1, s, line)
  <2>1. line \in LinesOfTranscripts(s) /\ i - 1 \in Nat
    BY <1>1
  <2> HIDE DEF line
  <2>2. IsSeq(line.blocks) /\ line.blocks # <<>> => line.type \in ParsedTypes
    BY <2>1, TranscriptAssumption
  <2>3. Len(line.blocks) \in Nat /\ DOMAIN line.blocks = 1 .. Len(line.blocks)
    BY <2>1, Lengths, TranscriptAssumption
  <2>4. part = [j \in 1 .. Len(line.blocks) |-> BlockEvent(i - 1, s, line, line.blocks[j])]
    BY <2>3 DEF ParseLine, BlockEvent
  <2>5. ASSUME NEW j \in 1 .. Len(line.blocks)
        PROVE  /\ BlockEvent(i - 1, s, line, line.blocks[j]) \in StreamEvents(s)
               /\ BlockEvent(i - 1, s, line, line.blocks[j]).seq = i - 1
    <3> DEFINE b == line.blocks[j]
               e == BlockEvent(i - 1, s, line, b)
    <3>1. b \in ToSet(line.blocks)
      BY <2>3 DEF ToSet
    <3>2. e \in BlockEvents(i - 1, s, line)
      BY <3>1 DEF BlockEvents
    <3>3. <<i - 1, line>> \in Nat \X LinesOfTranscripts(s)
      BY <2>1
    <3>4. e \in StreamEvents(s)
      <4> HIDE DEF e
      <4> QED
        BY <3>2, <3>3 DEF StreamEvents
    <3>5. line.type \in ParsedTypes
      <4>1. line.blocks # <<>>
        BY <3>1 DEF ToSet
      <4> QED
        BY <2>1, <4>1, TranscriptAssumption
    <3>6. e.seq = i - 1
      BY <3>5 DEF ParsedTypes, BlockEvent, SnapshotEvent, ProposalEvent,
                  ResultEvent, Event
    <3> QED
      BY <3>4, <3>6
  <2>6. part \in Seq(StreamEvents(s)) /\ \A j \in DOMAIN part : part[j].seq = i - 1
    BY <2>3, <2>4, <2>5
  <2>7. parts[i] = part
    BY <1>1 DEF line
  <2> QED
    BY <2>6, <2>7
<1>3. parts = [i \in 1 .. Len(lines) |-> parts[i]]
  BY <1>1
<1>4. parts \in Seq(Seq(StreamEvents(s))) /\ Len(parts) = Len(lines)
  <2> HIDE DEF parts
  <2> QED
    BY <1>1, <1>2, <1>3
<1>5. ParseStream(s, lines) = es
  BY DEF ParseStream
<1> HIDE DEF parts
<1>6. es \in Seq(StreamEvents(s)) /\ \E off : Offsets(parts, es, off)
  BY <1>4, FlattenProperty
<1>7. PICK off : Offsets(parts, es, off)
  BY <1>6
<1> HIDE DEF es
<1>8. ASSUME NEW k \in DOMAIN es, NEW n \in DOMAIN es, k < n
      PROVE  es[k].seq <= es[n].seq
  <2>1. k \in 1 .. Len(es) /\ n \in 1 .. Len(es)
    BY <1>6
  <2>2. PICK i \in 1 .. Len(parts) : \E j \in 1 .. Len(parts[i]) : k = off[i] + j
    BY <1>7, <2>1 DEF Offsets
  <2>3. PICK j \in 1 .. Len(parts[i]) : k = off[i] + j
    BY <2>2
  <2>4. PICK p \in 1 .. Len(parts) : \E q \in 1 .. Len(parts[p]) : n = off[p] + q
    BY <1>7, <2>1 DEF Offsets
  <2>5. PICK q \in 1 .. Len(parts[p]) : n = off[p] + q
    BY <2>4
  <2>6. es[k] = parts[i][j] /\ es[n] = parts[p][q]
    BY <1>7, <2>2, <2>3, <2>4, <2>5 DEF Offsets
  <2>7. /\ \A m \in 1 .. Len(parts) : Len(parts[m]) \in Nat /\ off[m] \in Nat
        /\ Len(parts) \in Nat
    <3>1. off \in [1 .. Len(parts) + 1 -> Nat]
      BY <1>7 DEF Offsets
    <3>2. \A m \in 1 .. Len(parts) : m \in 1 .. Len(parts) + 1
      BY <1>1, <1>4
    <3>3. \A m \in 1 .. Len(parts) : Len(parts[m]) \in Nat
      BY <1>4
    <3>4. \A m \in 1 .. Len(parts) : off[m] \in Nat
      BY <3>1, <3>2
    <3> QED
      BY <1>1, <1>4, <3>3, <3>4
  <2>8. es[k].seq = i - 1 /\ es[n].seq = p - 1
    <3>1. j \in DOMAIN parts[i] /\ q \in DOMAIN parts[p]
      BY <1>4, <2>2, <2>3, <2>4, <2>5
    <3> QED
      BY <1>2, <1>4, <2>2, <2>4, <2>6, <3>1
  <2>9. ~(p < i)
    <3> SUFFICES ASSUME p < i PROVE FALSE
      OBVIOUS
    <3>1. off[p] + Len(parts[p]) <= off[i]
      BY <1>7, <2>2, <2>4, <2>7, OffsetsOrdered
    <3>2. /\ off[p] \in Nat /\ off[i] \in Nat /\ Len(parts[p]) \in Nat
          /\ Len(parts[i]) \in Nat
      BY <2>2, <2>4, <2>7
    <3> QED
      BY <1>8, <2>3, <2>5, <3>1, <3>2
  <2> QED
    BY <2>2, <2>4, <2>8, <2>9
<1> QED
  BY <1>5, <1>6, <1>8 DEF es

EarlierPairs(es) == {p \in (DOMAIN es) \X (DOMAIN es) : Earlier(es, p[1], p[2])}

LEMMA InEarlierPairs ==
    ASSUME NEW es, NEW i \in DOMAIN es, NEW j \in DOMAIN es
    PROVE  <<i, j>> \in EarlierPairs(es) <=> Earlier(es, i, j)
<1> DEFINE p == <<i, j>>
<1>1. p \in (DOMAIN es) \X (DOMAIN es) /\ p[1] = i /\ p[2] = j
  OBVIOUS
<1> HIDE DEF p
<1>2. p \in EarlierPairs(es) <=> Earlier(es, p[1], p[2])
  BY <1>1 DEF EarlierPairs
<1> QED
  BY <1>1, <1>2 DEF p

\* merge_streams sorts by a total order.
LEMMA EarlierIsTotal ==
    ASSUME NEW es, DOMAIN es \in SUBSET Nat,
           \A i \in DOMAIN es : es[i].ts \in Nat /\ es[i].seq \in Nat
    PROVE  TotalOrder(DOMAIN es, EarlierPairs(es))
<1> DEFINE D == DOMAIN es
           R == EarlierPairs(es)
<1>1. \A i, j \in D : <<i, j>> \in R <=> Earlier(es, i, j)
  BY InEarlierPairs
<1>2. \A i \in D : i \in Nat
  OBVIOUS
<1>3. \A i \in D : ~Earlier(es, i, i)
  BY <1>2 DEF Earlier
<1>4. \A i, j \in D : i = j \/ Earlier(es, i, j) \/ Earlier(es, j, i)
  BY <1>2 DEF Earlier
<1>5. \A i, j, k \in D : Earlier(es, i, j) /\ Earlier(es, j, k) => Earlier(es, i, k)
  BY <1>2 DEF Earlier
<1>6. \A i \in D : <<i, i>> \notin R
  BY <1>1, <1>3
<1>7. \A i, j \in D : i = j \/ <<i, j>> \in R \/ <<j, i>> \in R
  BY <1>1, <1>4
<1>8. \A i, j, k \in D : <<i, j>> \in R /\ <<j, k>> \in R => <<i, k>> \in R
  BY <1>1, <1>5
<1> QED
  BY <1>6, <1>7, <1>8 DEF TotalOrder

\* place tells where the events of the merge come from.
Sorts(es, merged, place) ==
    /\ place \in [DOMAIN es -> DOMAIN es]
    /\ \A i \in DOMAIN es : \E r \in DOMAIN es : place[r] = i
    /\ \A r, q \in DOMAIN es : Earlier(es, place[r], place[q]) => r < q
    /\ \A r, q \in DOMAIN es : place[r] = place[q] => r = q
    /\ merged = [r \in DOMAIN es |-> [es[place[r]] EXCEPT !.seq = r - 1]]

\* The merge puts every event in one place, in the order of Earlier.
LEMMA MergeStreamsShape ==
    ASSUME NEW streams, NEW es, es = FlattenSeq(streams), NEW n \in Nat,
           DOMAIN es = 1 .. n,
           \A i \in DOMAIN es : es[i].ts \in Nat /\ es[i].seq \in Nat
    PROVE  \E place : Sorts(es, MergeStreams(streams), place)
<1> DEFINE D == DOMAIN es
           R == EarlierPairs(es)
           rank(i) == Cardinality(Below(D, R, i))
           at(r) == CHOOSE i \in D : rank(i) = r
           place == [r \in D |-> at(r - 1)]
<1>1. D \in SUBSET Nat /\ IsFiniteSet(D) /\ Cardinality(D) = n
  BY FS_Interval
<1>2. TotalOrder(D, R)
  BY <1>1, EarlierIsTotal
<1>3. /\ \A i \in D : rank(i) \in 0 .. n - 1
      /\ \A i, j \in D : rank(i) = rank(j) => i = j
      /\ \A r \in 0 .. n - 1 : {i \in D : rank(i) = r} # {}
  <2> HIDE DEF D, R
  <2>1. \A i \in D : Cardinality(Below(D, R, i)) \in 0 .. Cardinality(D) - 1
    BY <1>1, <1>2, Ranks
  <2>2. \A i, j \in D : Cardinality(Below(D, R, i)) = Cardinality(Below(D, R, j)) => i = j
    BY <1>1, <1>2, Ranks
  <2>3. \A r \in 0 .. Cardinality(D) - 1 : {i \in D : Cardinality(Below(D, R, i)) = r} # {}
    BY <1>1, <1>2, Ranks
  <2> QED
    BY <1>1, <2>1, <2>2, <2>3
<1>4. ASSUME NEW i \in D PROVE Cardinality({j \in D : Earlier(es, j, i)}) = rank(i)
  <2>1. {j \in D : Earlier(es, j, i)} = Below(D, R, i)
    <3>1. \A j \in D : <<j, i>> \in R <=> Earlier(es, j, i)
      BY InEarlierPairs
    <3> HIDE DEF D, R
    <3> QED
      BY <3>1 DEF Below
  <2> QED
    BY <2>1
<1>5. MergeStreams(streams) = [r \in D |-> [es[place[r]] EXCEPT !.seq = r - 1]]
  <2> DEFINE At(r) == CHOOSE i \in D : Cardinality({j \in D : Earlier(es, j, i)}) = r
  <2>1. MergeStreams(streams) = [r \in D |-> [es[At(r - 1)] EXCEPT !.seq = r - 1]]
    BY DEF MergeStreams
  <2>2. \A r : At(r) = at(r)
    <3> HIDE DEF rank
    <3> QED
      BY <1>4
  <2>3. \A r \in D : place[r] = At(r - 1)
    BY <2>2
  <2> HIDE DEF At, place
  <2> QED
    BY <2>1, <2>3
<1>6. ASSUME NEW r \in D PROVE place[r] \in D /\ rank(place[r]) = r - 1
  <2>1. r - 1 \in 0 .. n - 1
    OBVIOUS
  <2>2. place[r] = at(r - 1)
    OBVIOUS
  <2> HIDE DEF D, place, rank
  <2>3. \E i \in D : rank(i) = r - 1
    BY <1>3, <2>1
  <2> QED
    BY <2>2, <2>3
<1> HIDE DEF at
<1>7. place \in [D -> D]
  BY <1>6
<1>8. ASSUME NEW i \in D PROVE \E r \in D : place[r] = i
  <2>1. rank(i) \in 0 .. n - 1
    BY <1>3
  <2> DEFINE k == rank(i)
             r == k + 1
  <2>2. k \in 0 .. n - 1
    BY <2>1
  <2> HIDE DEF k
  <2>3. r \in D /\ r - 1 = k
    BY <2>2
  <2> HIDE DEF D, place, rank, r
  <2>4. place[r] = i
    BY <1>3, <1>6, <2>3 DEF k
  <2> QED
    BY <2>3, <2>4
<1>9. ASSUME NEW i \in D, NEW j \in D, Earlier(es, i, j) PROVE rank(i) < rank(j)
  <2>1. /\ i \in Below(D, R, j) /\ i \notin Below(D, R, i)
        /\ Below(D, R, i) \subseteq Below(D, R, j)
    <3>1. <<i, j>> \in R /\ <<i, i>> \notin R
      BY <1>2, <1>9, InEarlierPairs DEF TotalOrder
    <3>2. \A k \in D : <<k, i>> \in R => <<k, j>> \in R
      BY <1>2, <3>1 DEF TotalOrder
    <3> HIDE DEF D, R
    <3> QED
      BY <3>1, <3>2 DEF Below
  <2>2. IsFiniteSet(Below(D, R, j)) /\ IsFiniteSet(Below(D, R, i))
    <3>1. Below(D, R, j) \subseteq D /\ Below(D, R, i) \subseteq D
      BY DEF Below
    <3> QED
      BY <1>1, <3>1, FS_Subset
  <2>3. /\ Cardinality(Below(D, R, i) \cup {i}) = rank(i) + 1
        /\ Cardinality(Below(D, R, i) \cup {i}) <= rank(j)
    <3>1. Below(D, R, i) \cup {i} \in SUBSET Below(D, R, j)
      BY <2>1
    <3> HIDE DEF D, R
    <3> QED
      BY <2>1, <2>2, <3>1, FS_AddElement, FS_Subset
  <2>4. rank(i) \in Int /\ rank(j) \in Int
    BY <1>3
  <2> HIDE DEF rank
  <2> QED
    BY <2>3, <2>4
<1>10. ASSUME NEW r \in D, NEW q \in D, Earlier(es, place[r], place[q]) PROVE r < q
  <2> HIDE DEF place, rank
  <2>1. rank(place[r]) < rank(place[q])
    BY <1>6, <1>9, <1>10
  <2>2. r - 1 < q - 1
    BY <1>6, <2>1
  <2>3. r \in Int /\ q \in Int
    BY <1>1
  <2> QED
    BY <2>2, <2>3
<1>11. ASSUME NEW r \in D, NEW q \in D, place[r] = place[q] PROVE r = q
  <2> HIDE DEF place, rank
  <2>1. r - 1 = q - 1
    BY <1>6, <1>11
  <2>2. r \in Int /\ q \in Int
    BY <1>1
  <2> QED
    BY <2>1, <2>2
<1> HIDE DEF place
<1>12. Sorts(es, MergeStreams(streams), place)
  BY <1>5, <1>7, <1>8, <1>10, <1>11 DEF Sorts
<1> QED
  BY <1>12

------------------------------------------------------------------------------
(* The merged events of a session. *)

JournalType ==
    /\ journal = [s \in Sessions |-> journal[s]]
    /\ \A s \in Sessions : journal[s] \in Seq(Seq(LinesOfTranscripts(s)))

\* The lines of a session are lines of its transcripts.
LEMMA LinesOfType ==
    ASSUME JournalType, NEW s \in Sessions
    PROVE  LinesOf(s) \in Seq(LinesOfTranscripts(s))
<1>1. journal[s] \in Seq(Seq(LinesOfTranscripts(s)))
  BY DEF JournalType
<1> DEFINE X == LinesOfTranscripts(s)
<1> HIDE DEF X
<1>2. FlattenSeq(journal[s]) \in Seq(X)
  BY <1>1, FlattenProperty DEF X
<1> QED
  BY <1>2 DEF LinesOf, X

\* The children of a session are read once each.
LEMMA ChildrenOrdered ==
    ASSUME NEW s \in Sessions
    PROVE  LET c == Cardinality(Children(s))
           IN  /\ c \in Nat /\ Ordered(Children(s)) \in [1 .. c -> Children(s)]
               /\ \A i, j \in 1 .. c :
                     Ordered(Children(s))[i] = Ordered(Children(s))[j] => i = j
               /\ \A t \in Children(s) : \E i \in 1 .. c : Ordered(Children(s))[i] = t
               /\ Children(s) \subseteq Sessions /\ s \notin Children(s)
<1>1. Children(s) \in SUBSET Sessions /\ s \notin Children(s)
  <2>1. ParentOf[s] # s
    <3> SUFFICES ASSUME ParentOf[s] = s PROVE FALSE
      OBVIOUS
    <3>1. ParentOf[s] # None /\ ParentOf[ParentOf[s]] = s
      BY TasteAssumption
    <3> QED
      BY <3>1, TasteAssumption
  <2> QED
    BY <2>1 DEF Children
<1> DEFINE S == Children(s)
           c == Cardinality(S)
<1>2. S \in SUBSET Nat /\ IsFiniteSet(S)
  BY <1>1, TasteAssumption, FS_Subset
<1>3. /\ c \in Nat /\ Ordered(S) \in [1 .. c -> S]
      /\ \A i, j \in 1 .. c : i < j => Ordered(S)[i] < Ordered(S)[j]
      /\ \A t \in S : \E i \in 1 .. c : Ordered(S)[i] = t
  <2> HIDE DEF S
  <2>1. c \in Nat /\ Ordered(S) \in [1 .. c -> S]
    BY <1>2, OrderedProperty
  <2>2. \A i, j \in 1 .. c : i < j => Ordered(S)[i] < Ordered(S)[j]
    BY <1>2, OrderedProperty
  <2>3. \A t \in S : \E i \in 1 .. c : Ordered(S)[i] = t
    BY <1>2, OrderedProperty
  <2> QED
    BY <2>1, <2>2, <2>3
<1>4. ASSUME NEW i \in 1 .. c, NEW j \in 1 .. c, Ordered(S)[i] = Ordered(S)[j]
      PROVE  i = j
  <2>1. Ordered(S)[i] \in Nat
    BY <1>2, <1>3
  <2>2. ~(i < j) /\ ~(j < i)
    <3> HIDE DEF S
    <3>1. i < j => Ordered(S)[i] < Ordered(S)[j]
      BY <1>3
    <3>2. j < i => Ordered(S)[j] < Ordered(S)[i]
      BY <1>3
    <3> QED
      BY <1>4, <2>1, <3>1, <3>2
  <2>3. i \in Int /\ j \in Int
    OBVIOUS
  <2> QED
    BY <2>2, <2>3
<1> QED
  BY <1>1, <1>3, <1>4

\* The sessions of a tree are read once each, the parent first.
LEMMA MembersShape ==
    ASSUME NEW s \in Sessions
    PROVE  /\ Members(s) \in Seq(Tree(s)) /\ Tree(s) \subseteq Sessions
           /\ Len(Members(s)) \in Nat /\ DOMAIN Members(s) = 1 .. Len(Members(s))
           /\ \A i, j \in DOMAIN Members(s) : Members(s)[i] = Members(s)[j] => i = j
           /\ \A t \in Tree(s) : \E i \in DOMAIN Members(s) : Members(s)[i] = t
<1> DEFINE S == Children(s)
           c == Cardinality(S)
           o == Ordered(S)
           m == Members(s)
<1>1. /\ c \in Nat /\ o \in [1 .. c -> S]
      /\ \A i, j \in 1 .. c : o[i] = o[j] => i = j
      /\ \A t \in S : \E i \in 1 .. c : o[i] = t
      /\ S \subseteq Sessions /\ s \notin S
  BY ChildrenOrdered
<1>2. Tree(s) = {s} \cup S
  BY DEF Tree
<1>3. o \in Seq(Tree(s)) /\ Len(o) = c
  <2>1. o \in Seq(S) /\ Len(o) = c
    <3> HIDE DEF S, c, o
    <3> QED
      BY <1>1
  <2> QED
    BY <1>2, <2>1
<1>4. <<s>> \in Seq(Tree(s)) /\ Len(<<s>>) = 1 /\ <<s>>[1] = s
  BY <1>2
<1> HIDE DEF S, c, o
<1>5. m = <<s>> \o o
  BY DEF Members, S, o
<1> HIDE DEF m
<1>6. /\ m \in Seq(Tree(s)) /\ Len(m) = 1 + c /\ DOMAIN m = 1 .. 1 + c
      /\ m[1] = s /\ \A i \in 1 .. c : m[1 + i] = o[i]
  <2>1. /\ m \in Seq(Tree(s)) /\ Len(m) = 1 + c
        /\ \A i \in 1 .. 1 + c : m[i] = IF i <= 1 THEN s ELSE o[i - 1]
    BY <1>1, <1>3, <1>4, <1>5
  <2>2. \A i \in 1 .. c : 1 + i \in 1 .. 1 + c /\ ~(1 + i <= 1) /\ 1 + i - 1 = i
    BY <1>1
  <2>3. \A i \in 1 .. c : m[1 + i] = o[i]
    BY <2>1, <2>2
  <2>4. m[1] = s
    BY <1>1, <2>1
  <2> QED
    BY <2>1, <2>3, <2>4
<1>7. ASSUME NEW i \in 1 .. 1 + c, i # 1
      PROVE  i - 1 \in 1 .. c /\ m[i] = o[i - 1]
  <2>1. i - 1 \in 1 .. c /\ 1 + (i - 1) = i
    BY <1>1, <1>7
  <2> QED
    BY <1>6, <2>1
<1>8. ASSUME NEW i \in DOMAIN m, NEW j \in DOMAIN m, m[i] = m[j] PROVE i = j
  <2>1. i \in 1 .. 1 + c /\ j \in 1 .. 1 + c
    BY <1>6
  <2>2. CASE i = 1 \/ j = 1
    BY <1>1, <1>6, <1>7, <1>8, <2>1, <2>2
  <2>3. CASE i # 1 /\ j # 1
    <3>1. i - 1 = j - 1
      BY <1>1, <1>7, <1>8, <2>1, <2>3
    <3> QED
      BY <2>1, <3>1
  <2> QED
    BY <2>2, <2>3
<1>9. ASSUME NEW t \in Tree(s) PROVE \E i \in DOMAIN m : m[i] = t
  <2>1. CASE t = s
    <3>1. 1 \in 1 .. 1 + c
      BY <1>1
    <3> QED
      BY <1>6, <2>1, <3>1
  <2>2. CASE t # s
    <3>1. PICK i \in 1 .. c : o[i] = t
      BY <1>1, <1>2, <2>2
    <3>2. 1 + i \in DOMAIN m /\ m[1 + i] = t
      BY <1>1, <1>6, <3>1
    <3> QED
      BY <3>2
  <2> QED
    BY <2>1, <2>2
<1>10. Tree(s) \subseteq Sessions
  BY <1>1, <1>2
<1> QED
  BY <1>1, <1>6, <1>8, <1>9, <1>10 DEF m

\* The streams are those of the members.
LEMMA StreamsShape ==
    ASSUME JournalType, NEW s \in Sessions
    PROVE  /\ StreamsOf(s) \in Seq(Seq(AllEvents))
           /\ Len(StreamsOf(s)) = Len(Members(s))
           /\ \A i \in DOMAIN Members(s) :
                 /\ Members(s)[i] \in Sessions
                 /\ StreamsOf(s)[i] = ParseStream(Members(s)[i], LinesOf(Members(s)[i]))
                 /\ StreamsOf(s)[i] \in Seq(StreamEvents(Members(s)[i]))
<1>1. /\ Members(s) \in Seq(Sessions)
      /\ Len(Members(s)) \in Nat /\ DOMAIN Members(s) = 1 .. Len(Members(s))
  BY MembersShape
<1>2. ASSUME NEW i \in DOMAIN Members(s)
      PROVE  /\ Members(s)[i] \in Sessions
             /\ StreamsOf(s)[i] = ParseStream(Members(s)[i], LinesOf(Members(s)[i]))
             /\ StreamsOf(s)[i] \in Seq(StreamEvents(Members(s)[i]))
             /\ StreamsOf(s)[i] \in Seq(AllEvents)
  <2> DEFINE t == Members(s)[i]
  <2>1. t \in Sessions
    BY <1>1
  <2>2. StreamsOf(s)[i] = ParseStream(t, LinesOf(t))
    BY DEF StreamsOf
  <2> HIDE DEF t
  <2>3. ParseStream(t, LinesOf(t)) \in Seq(StreamEvents(t))
    BY <2>1, LinesOfType, ParseStreamShape
  <2>4. StreamEvents(t) \subseteq AllEvents
    BY <2>1 DEF AllEvents
  <2>5. ParseStream(t, LinesOf(t)) \in Seq(AllEvents)
    BY <2>3, <2>4
  <2> QED
    BY <2>1, <2>2, <2>3, <2>5 DEF t
<1>3. StreamsOf(s) = [i \in 1 .. Len(Members(s)) |-> StreamsOf(s)[i]]
  BY <1>1 DEF StreamsOf
<1>4. StreamsOf(s) \in Seq(Seq(AllEvents)) /\ Len(StreamsOf(s)) = Len(Members(s))
  BY <1>1, <1>2, <1>3
<1> QED
  BY <1>2, <1>4

\* What is known of an event of a session, whatever its place.
EventFrom(e, S) ==
    /\ IsEvent(e) /\ e.stream \in S
    /\ e.kind = "proposal" =>
          \E u \in ToolUses(e.stream) : e.ref = u.ref /\ e.tool = u.tool

\* The merged events are those of the streams, numbered in their new order.
LEMMA MergedShape ==
    ASSUME JournalType, NEW s \in Sessions
    PROVE  LET es == FlattenSeq(StreamsOf(s))
           IN  /\ es \in Seq(AllEvents) /\ Len(es) \in Nat /\ DOMAIN es = 1 .. Len(es)
               /\ \E off : Offsets(StreamsOf(s), es, off)
               /\ \E place : Sorts(es, MergedEvents(s), place)
               /\ \A i \in DOMAIN es :
                     /\ EventFrom(es[i], Tree(s))
                     /\ es[i].ts \in Nat /\ es[i].seq \in Nat
<1> DEFINE es == FlattenSeq(StreamsOf(s))
<1>1. StreamsOf(s) \in Seq(Seq(AllEvents))
  BY StreamsShape
<1>2. es \in Seq(AllEvents) /\ \E off : Offsets(StreamsOf(s), es, off)
  <2> DEFINE X == AllEvents
             m == StreamsOf(s)
  <2>1. m \in Seq(Seq(X))
    BY <1>1
  <2> HIDE DEF X, m
  <2>2. FlattenSeq(m) \in Seq(X) /\ \E off : Offsets(m, FlattenSeq(m), off)
    BY <2>1, FlattenProperty
  <2> QED
    BY <2>2 DEF X, m
<1> HIDE DEF es
<1>3. Len(es) \in Nat /\ DOMAIN es = 1 .. Len(es)
  BY <1>2
<1>4. ASSUME NEW i \in DOMAIN es
      PROVE  EventFrom(es[i], Tree(s)) /\ es[i].ts \in Nat /\ es[i].seq \in Nat
  <2>1. PICK off : Offsets(StreamsOf(s), es, off)
    BY <1>2
  <2>2. PICK k \in 1 .. Len(StreamsOf(s)) :
           \E j \in 1 .. Len(StreamsOf(s)[k]) : i = off[k] + j
    BY <1>3, <2>1 DEF Offsets
  <2>3. PICK j \in 1 .. Len(StreamsOf(s)[k]) : i = off[k] + j
    BY <2>2
  <2>4. es[i] = StreamsOf(s)[k][j]
    BY <2>1, <2>2, <2>3 DEF Offsets
  <2> DEFINE t == Members(s)[k]
             e == es[i]
  <2>5. k \in DOMAIN Members(s) /\ t \in Tree(s) /\ t \in Sessions
    BY <2>2, StreamsShape, MembersShape
  <2>6. StreamsOf(s)[k] \in Seq(StreamEvents(t))
    BY <2>5, StreamsShape
  <2>7. e \in StreamEvents(t)
    BY <2>3, <2>4, <2>6
  <2> HIDE DEF t, e
  <2>8. /\ IsEvent(e) /\ e.stream = t /\ e.ts \in Nat /\ e.seq \in Nat
        /\ e.kind = "proposal" =>
              \E u \in ToolUses(t) : e.ref = u.ref /\ e.tool = u.tool
    BY <2>5, <2>7, StreamEventShape
  <2>9. EventFrom(e, Tree(s))
    BY <2>5, <2>8 DEF EventFrom
  <2> QED
    BY <2>8, <2>9 DEF e
<1>5. \E place : Sorts(es, MergedEvents(s), place)
  BY <1>3, <1>4, MergeStreamsShape DEF MergedEvents, es
<1> QED
  BY <1>2, <1>3, <1>4, <1>5 DEF es

\* Merged events are numbered from zero.
LEMMA MergedNumbered ==
    ASSUME JournalType, NEW s \in Sessions
    PROVE  /\ Numbered(MergedEvents(s))
           /\ \A i \in DOMAIN MergedEvents(s) : EventFrom(MergedEvents(s)[i], Tree(s))
<1> DEFINE es == FlattenSeq(StreamsOf(s))
           ms == MergedEvents(s)
           n == Len(es)
<1>1. /\ n \in Nat /\ DOMAIN es = 1 .. n
      /\ \E place : Sorts(es, ms, place)
      /\ \A i \in DOMAIN es : EventFrom(es[i], Tree(s))
  BY MergedShape
<1> HIDE DEF es, ms, n
<1>2. PICK place : Sorts(es, ms, place)
  BY <1>1
<1>3. /\ ms = [r \in 1 .. n |-> [es[place[r]] EXCEPT !.seq = r - 1]]
      /\ \A r \in 1 .. n : place[r] \in DOMAIN es
  BY <1>1, <1>2 DEF Sorts
<1>4. DOMAIN ms = 1 .. n
  BY <1>3
<1>5. ASSUME NEW r \in 1 .. n
      PROVE  ms[r].seq = r - 1 /\ EventFrom(ms[r], Tree(s))
  <2> DEFINE e == es[place[r]]
             m == r - 1
             f == Renumber(e, m)
  <2>1. ms[r] = f
    BY <1>3 DEF Renumber
  <2>2. EventFrom(e, Tree(s))
    BY <1>1, <1>3
  <2> HIDE DEF e, m
  <2>3. IsEvent(e)
    BY <2>2 DEF EventFrom
  <2>4. /\ f.seq = m /\ f.kind = e.kind /\ f.stream = e.stream
        /\ f.ref = e.ref /\ f.tool = e.tool /\ IsEvent(f)
    BY <2>3, Renumbered
  <2> HIDE DEF f
  <2>5. EventFrom(f, Tree(s))
    BY <2>2, <2>4 DEF EventFrom
  <2> QED
    BY <2>1, <2>4, <2>5 DEF m
<1>6. IsSeq(ms)
  <2>1. \A r \in 1 .. n : ms[r] \in ToSet(ms)
    BY <1>4 DEF ToSet
  <2>2. ms = [r \in 1 .. n |-> ms[r]]
    BY <1>3
  <2> QED
    BY <1>1, <2>1, <2>2 DEF IsSeq
<1>7. Numbered(ms)
  BY <1>4, <1>5, <1>6 DEF Numbered
<1> QED
  BY <1>4, <1>5, <1>7 DEF ms

\* The events of a transcript whose times do not go back keep their order among
\* themselves, wherever the others are merged in.
LEMMA StreamKept ==
    ASSUME JournalType, NEW s \in Sessions, NEW t \in Tree(s), InOrder(t)
    PROVE  LET es == ParseStream(t, LinesOf(t))
               ms == MergedEvents(s)
               S == {i \in DOMAIN ms : ms[i].stream = t}
           IN  /\ DOMAIN es = DOMAIN Selected(ms, S)
               /\ \A i \in DOMAIN es : Renumber(Selected(ms, S)[i], 0) = Renumber(es[i], 0)
<1> DEFINE part == ParseStream(t, LinesOf(t))
           streams == StreamsOf(s)
           es == FlattenSeq(streams)
           ms == MergedEvents(s)
           S == {i \in DOMAIN ms : ms[i].stream = t}
           n == Len(part)
           N == Len(es)
<1>1. /\ N \in Nat /\ DOMAIN es = 1 .. N
      /\ \E off : Offsets(streams, es, off)
      /\ \E place : Sorts(es, ms, place)
      /\ \A i \in DOMAIN es :
            EventFrom(es[i], Tree(s)) /\ es[i].ts \in Nat /\ es[i].seq \in Nat
  BY MergedShape
<1>2. t \in Sessions
  BY MembersShape
<1>3. /\ part \in Seq(StreamEvents(t))
      /\ \A k, m \in DOMAIN part : k < m => part[k].seq <= part[m].seq
  BY <1>2, LinesOfType, ParseStreamShape
<1>4. n \in Nat /\ DOMAIN part = 1 .. n
  BY <1>3
<1>5. \A k, m \in DOMAIN part : k < m => part[k].ts <= part[m].ts
  BY DEF InOrder
<1>6. PICK b \in DOMAIN Members(s) : Members(s)[b] = t
  BY MembersShape
<1>7. streams[b] = part /\ b \in 1 .. Len(streams)
  BY <1>6, StreamsShape, MembersShape
<1> HIDE DEF part, streams, es, ms, n, N
<1>8. PICK off : Offsets(streams, es, off)
  BY <1>1
<1>9. PICK place : Sorts(es, ms, place)
  BY <1>1
<1>10. ASSUME NEW j \in 1 .. n
       PROVE  /\ off[b] + j \in 1 .. N /\ es[off[b] + j] = part[j]
              /\ part[j].stream = t /\ IsEvent(part[j])
  <2>1. j \in 1 .. Len(streams[b])
    BY <1>7 DEF n
  <2>2. off[b] + j \in 1 .. N /\ es[off[b] + j] = streams[b][j]
    BY <1>7, <1>8, <2>1 DEF Offsets, N
  <2>3. part[j] \in StreamEvents(t)
    BY <1>3, <1>4
  <2> QED
    BY <1>2, <1>7, <2>2, <2>3, StreamEventShape
<1>11. off[b] \in Nat
  <2>1. off \in [1 .. Len(streams) + 1 -> Nat] /\ Len(streams) \in Nat
    BY <1>8, StreamsShape, MembersShape DEF Offsets, streams
  <2>2. b \in 1 .. Len(streams) + 1
    BY <1>7, <2>1
  <2> QED
    BY <2>1, <2>2
<1>12. /\ place \in [1 .. N -> 1 .. N]
       /\ \A i \in 1 .. N : \E r \in 1 .. N : place[r] = i
       /\ \A r, q \in 1 .. N : Earlier(es, place[r], place[q]) => r < q
       /\ \A r, q \in 1 .. N : place[r] = place[q] => r = q
       /\ ms = [r \in 1 .. N |-> Renumber(es[place[r]], r - 1)]
  BY <1>1, <1>9 DEF Sorts, Renumber
<1>13. DOMAIN ms = 1 .. N /\ \A r \in 1 .. N : ms[r] = Renumber(es[place[r]], r - 1)
  BY <1>12
<1>14. \A r \in 1 .. N : IsEvent(es[place[r]]) /\ ms[r].stream = es[place[r]].stream
  <2> SUFFICES ASSUME NEW r \in 1 .. N
               PROVE  IsEvent(es[place[r]]) /\ ms[r].stream = es[place[r]].stream
    OBVIOUS
  <2>1. place[r] \in 1 .. N
    BY <1>12
  <2>2. IsEvent(es[place[r]])
    BY <1>1, <2>1 DEF EventFrom
  <2> QED
    BY <1>13, <2>2, Renumbered
<1> DEFINE f == [j \in 1 .. n |-> CHOOSE r \in 1 .. N : place[r] = off[b] + j]
<1>15. ASSUME NEW j \in 1 .. n
       PROVE  f[j] \in 1 .. N /\ place[f[j]] = off[b] + j
  BY <1>10, <1>12
<1> HIDE DEF f
<1>16. ASSUME NEW j \in 1 .. n PROVE f[j] \in S
  BY <1>10, <1>13, <1>14, <1>15
<1>17. f \in [1 .. n -> S]
  BY <1>16 DEF f
<1>18. ASSUME NEW j \in 1 .. n, NEW k \in 1 .. n, j < k PROVE f[j] < f[k]
  <2>1. part[j].ts <= part[k].ts /\ part[j].seq <= part[k].seq
    BY <1>3, <1>4, <1>5, <1>18
  <2>2. /\ es[off[b] + j] = part[j] /\ es[off[b] + k] = part[k]
        /\ off[b] + j \in 1 .. N /\ off[b] + k \in 1 .. N
        /\ off[b] + j < off[b] + k
    BY <1>10, <1>11, <1>18
  <2>3. /\ part[j].ts \in Nat /\ part[k].ts \in Nat
        /\ part[j].seq \in Nat /\ part[k].seq \in Nat
    BY <1>1, <2>2
  <2>4. Earlier(es, off[b] + j, off[b] + k)
    BY <2>1, <2>2, <2>3 DEF Earlier
  <2>5. /\ f[j] \in 1 .. N /\ f[k] \in 1 .. N
        /\ place[f[j]] = off[b] + j /\ place[f[k]] = off[b] + k
    BY <1>15
  <2>6. Earlier(es, place[f[j]], place[f[k]])
    BY <2>4, <2>5
  <2> QED
    BY <1>12, <2>5, <2>6
<1>19. ASSUME NEW r \in S PROVE \E j \in 1 .. n : f[j] = r
  <2>1. r \in 1 .. N /\ ms[r].stream = t /\ place[r] \in 1 .. N
    BY <1>12, <1>13
  <2>2. PICK i \in 1 .. Len(streams) :
           \E j \in 1 .. Len(streams[i]) : place[r] = off[i] + j
    BY <1>8, <2>1 DEF Offsets, N
  <2>3. PICK j \in 1 .. Len(streams[i]) : place[r] = off[i] + j
    BY <2>2
  <2>4. es[place[r]] = streams[i][j]
    BY <1>8, <2>2, <2>3 DEF Offsets
  <2>5. i \in DOMAIN Members(s) /\ Members(s)[i] \in Sessions
    BY <2>2, StreamsShape, MembersShape DEF streams
  <2>6. streams[i] \in Seq(StreamEvents(Members(s)[i]))
    BY <2>5, StreamsShape DEF streams
  <2>7. streams[i][j] \in StreamEvents(Members(s)[i])
    BY <2>3, <2>6
  <2>8. streams[i][j].stream = Members(s)[i]
    BY <2>5, <2>7, StreamEventShape
  <2>9. Members(s)[i] = t
    BY <1>14, <2>1, <2>4, <2>8
  <2>10. i = b
    BY <1>6, <2>5, <2>9, MembersShape
  <2>11. j \in 1 .. n /\ place[f[j]] = place[r] /\ f[j] \in 1 .. N
    BY <1>7, <1>15, <2>3, <2>10 DEF n
  <2> QED
    BY <1>12, <2>1, <2>11
<1>20. S \in SUBSET Nat /\ S \in SUBSET (1 .. N)
  BY <1>13
<1>21. Cardinality(S) = n /\ Ordered(S) = f
  <2> HIDE DEF S
  <2> QED
    BY <1>4, <1>17, <1>18, <1>19, <1>20, OrderedIs
<1>22. Selected(ms, S) = [k \in 1 .. n |-> ms[f[k]]]
  <2> HIDE DEF S
  <2>1. N \in Nat
    BY <1>1
  <2>2. Selected(ms, S) = [k \in 1 .. Cardinality(S) |-> ms[Ordered(S)[k]]]
    BY <1>20, <2>1, SelectedProperty
  <2> QED
    BY <1>21, <2>2
<1>23. ASSUME NEW i \in 1 .. n
       PROVE  Renumber(Selected(ms, S)[i], 0) = Renumber(part[i], 0)
  <2>1. Selected(ms, S)[i] = ms[f[i]]
    BY <1>22
  <2>2. ms[f[i]] = Renumber(part[i], f[i] - 1)
    BY <1>10, <1>13, <1>15
  <2>3. IsEvent(part[i])
    BY <1>10
  <2> QED
    BY <2>1, <2>2, <2>3, Renumbered
<1>24. DOMAIN Selected(ms, S) = 1 .. n
  BY <1>22
<1> HIDE DEF S
<1> QED
  BY <1>4, <1>23, <1>24 DEF part, ms, S

\* InOrder of one stream is all that MergeKeepsStreams asks for.
LEMMA StreamsKept ==
    ASSUME JournalType
    PROVE  MergeKeepsStreams
<1> SUFFICES ASSUME NEW s \in ParentSessions, NEW t \in Tree(s), InOrder(t)
             PROVE  [i \in DOMAIN ParseStream(t, LinesOf(t)) |->
                        [ParseStream(t, LinesOf(t))[i] EXCEPT !.seq = 0]]
                    = LET es == MergedEvents(s)
                          mine == Selected(es, {i \in DOMAIN es : es[i].stream = t})
                      IN  [i \in DOMAIN mine |-> [mine[i] EXCEPT !.seq = 0]]
  BY DEF MergeKeepsStreams
<1> DEFINE part == ParseStream(t, LinesOf(t))
           ms == MergedEvents(s)
           mine == Selected(ms, {i \in DOMAIN ms : ms[i].stream = t})
<1>1. s \in Sessions
  BY DEF ParentSessions
<1>2. /\ DOMAIN part = DOMAIN mine
      /\ \A i \in DOMAIN part : Renumber(mine[i], 0) = Renumber(part[i], 0)
  BY <1>1, StreamKept
<1> HIDE DEF part, mine
<1>3. [i \in DOMAIN part |-> Renumber(part[i], 0)]
        = [i \in DOMAIN mine |-> Renumber(mine[i], 0)]
  BY <1>2
<1>4. [i \in DOMAIN part |-> [part[i] EXCEPT !.seq = 0]]
        = [i \in DOMAIN mine |-> [mine[i] EXCEPT !.seq = 0]]
  BY <1>3 DEF Renumber
<1> QED
  BY <1>4 DEF part, mine

------------------------------------------------------------------------------
(* The inductive invariant. *)

\* The sessions a run has left have lines and no linked parent.
TodoType ==
    /\ todo \in Seq(Sessions)
    /\ \A s \in ToSet(todo) : s \in ParentSessions

TablesType ==
    /\ meta = [s \in Sessions |-> meta[s]]
    /\ rows = [s \in Sessions |-> rows[s]]
    /\ examples = [s \in Sessions |-> examples[s]]
    /\ basis = [s \in Sessions |-> basis[s]]

\* A session that was never extracted.
Unread(s) == basis[s] = None /\ rows[s] = <<>> /\ examples[s] = <<>>

\* The rows of a session are what the extraction computes of its basis.
ReadFrom(s, es, blobs) ==
    /\ Known(s)
    /\ Numbered(es)
    /\ \A i \in DOMAIN es : EventFrom(es[i], Tree(s))
    /\ ~KeysClash(Modifications(es))
    /\ rows[s] = Materialize(CwdOf[s], blobs, es)
    /\ \E v \in {Version, OldVersion} :
          examples[s] = CompileExamples(CwdOf[s], es, rows[s], v)

Read(s) == basis[s].linked = FALSE /\ ReadFrom(s, basis[s].events, basis[s].blobs)

\* The count of a row of this version is at most that of the journal, and
\* where they are equal nothing was added.
Counted(s) ==
    /\ Known(s)
    /\ /\ meta[s].version = Version
       /\ \A t \in Tree(s) : ~Rewritten(t)
       => /\ meta[s].count \in Nat /\ meta[s].count <= MergedCount(s)
          /\ meta[s].count = MergedCount(s) => basis[s].events = MergedEvents(s)

TasteInv ==
    /\ JournalType
    /\ TodoType
    /\ TablesType
    /\ \A s \in Sessions : Unread(s) \/ Read(s)
    /\ \A s \in Sessions : meta[s] = None \/ Counted(s)

\* What is read of a session that is known.
LEMMA KnownLines ==
    ASSUME JournalType, NEW s \in Sessions, Known(s)
    PROVE  LET X == LinesOfTranscripts(s)
           IN  /\ Len(journal[s]) \in Nat \ {0}
               /\ Last(journal[s]) \in Seq(X) /\ EventCount(s) \in Nat
               /\ Front(journal[s]) \in Seq(Seq(X))
               /\ Len(Front(journal[s])) = Len(journal[s]) - 1
<1> DEFINE X == LinesOfTranscripts(s)
           gs == journal[s]
           n == Len(gs)
<1>1. gs \in Seq(Seq(X)) /\ gs # <<>>
  BY DEF JournalType, Known
<1> HIDE DEF X, gs
<1>2. n \in Nat \ {0}
  BY <1>1, EmptySeq
<1>3. \A i \in 1 .. n : gs[i] \in Seq(X)
  BY <1>1, ElementOfSeq
<1>4. Last(gs) \in Seq(X)
  BY <1>2, <1>3 DEF Last
<1>5. Len(Last(gs)) \in Nat
  BY <1>4
<1>6. \A i \in 1 .. n - 1 : gs[i] \in Seq(X)
  BY <1>2, <1>3
<1>7. SubSeq(gs, 1, n - 1) \in Seq(Seq(X)) /\ Len(SubSeq(gs, 1, n - 1)) = n - 1
  <2> DEFINE m == n - 1
  <2>1. m \in Int /\ \A i \in 1 .. m : gs[i] \in Seq(X)
    BY <1>2, <1>6
  <2>2. m \in Nat
    BY <1>2
  <2> HIDE DEF m
  <2>3. /\ SubSeq(gs, 1, m) \in Seq(Seq(X))
        /\ Len(SubSeq(gs, 1, m)) = IF 1 <= m THEN m - 1 + 1 ELSE 0
    BY <2>1, SubSeqProperties
  <2>4. Len(SubSeq(gs, 1, m)) = m
    BY <2>2, <2>3
  <2> QED
    BY <2>3, <2>4 DEF m
<1>8. Front(gs) \in Seq(Seq(X)) /\ Len(Front(gs)) = n - 1
  BY <1>7 DEF Front
<1> QED
  BY <1>2, <1>4, <1>5, <1>8 DEF X, gs, EventCount

\* A transcript of which only the beginning was read has a next line.
LEMMA NextLine ==
    ASSUME NEW X, NEW read \in Seq(X), NEW t \in Seq(X), IsStrictPrefix(read, t)
    PROVE  /\ Len(read) \in Nat
           /\ SubSeq(t, 1, Len(read) + 1) \in Seq(X)
           /\ Len(SubSeq(t, 1, Len(read) + 1)) = Len(read) + 1
<1> DEFINE n == Len(read)
<1>1. /\ n \in Nat /\ Len(t) \in Nat /\ n <= Len(t) /\ read # t
      /\ SubSeq(read, 1, n) = SubSeq(t, 1, n)
  BY LenProperties DEF IsStrictPrefix, IsPrefix
<1>2. n # Len(t)
  <2> SUFFICES ASSUME n = Len(t)
               PROVE  FALSE
    OBVIOUS
  <2>1. SubSeq(read, 1, Len(read)) = read /\ SubSeq(t, 1, Len(t)) = t
    BY SubSeqFull
  <2> QED
    BY <1>1, <2>1
<1>3. \A i \in 1 .. n + 1 : t[i] \in X
  <2>1. \A i \in 1 .. n + 1 : i \in 1 .. Len(t)
    BY <1>1, <1>2
  <2> QED
    BY <2>1, ElementOfSeq
<1> DEFINE m == n + 1
<1>4. m \in Nat /\ m \in Int /\ 1 <= m /\ \A i \in 1 .. m : t[i] \in X
  BY <1>1, <1>3
<1> HIDE DEF m
<1>5. /\ SubSeq(t, 1, m) \in Seq(X)
      /\ Len(SubSeq(t, 1, m)) = IF 1 <= m THEN m - 1 + 1 ELSE 0
  BY <1>4, SubSeqProperties
<1>6. Len(SubSeq(t, 1, m)) = m
  BY <1>4, <1>5
<1> QED
  BY <1>1, <1>5, <1>6 DEF m

LEMMA TranscriptLines ==
    ASSUME NEW s \in Sessions, NEW t \in Transcripts[s]
    PROVE  t \in Seq(LinesOfTranscripts(s))
<1>1. t \in Seq(ToSet(t))
  BY TranscriptAssumption DEF IsSeq
<1>2. ToSet(t) \subseteq LinesOfTranscripts(s)
  BY DEF LinesOfTranscripts
<1> QED
  BY <1>1, <1>2, SeqMonotonic

\* One more line of a transcript is one more event of its session.
LEMMA AppendStep ==
    ASSUME JournalType, NEW s \in Sessions, IngestAppend(s)
    PROVE  /\ journal'[s] \in Seq(Seq(LinesOfTranscripts(s))) /\ journal'[s] # <<>>
           /\ journal' = [t \in Sessions |->
                             IF t = s THEN journal'[s] ELSE journal[t]]
           /\ EventCount(s) \in Nat \/ ~Known(s)
           /\ EventCount(s)' = IF Known(s) THEN EventCount(s) + 1 ELSE 1
           /\ Rewritten(s) => Rewritten(s)'
<1> DEFINE X == LinesOfTranscripts(s)
           read == IF Known(s) THEN Last(journal[s]) ELSE <<>>
           older == IF Known(s) THEN Front(journal[s]) ELSE <<>>
           Next1(t) == SubSeq(t, 1, Len(read) + 1)
           n == Len(read)
           k == Len(older)
<1>1. PICK t \in Transcripts[s] :
         /\ IsStrictPrefix(read, t)
         /\ journal' = [journal EXCEPT ![s] = Append(older, Next1(t))]
  BY DEF IngestAppend
<1> DEFINE line == Next1(t)
           g == Append(older, line)
<1>2. read \in Seq(X) /\ older \in Seq(Seq(X))
  BY KnownLines
<1>3. t \in Seq(X)
  BY TranscriptLines
<1>4. n \in Nat /\ line \in Seq(X) /\ Len(line) = n + 1
  <2> HIDE DEF X, read
  <2> QED
    BY <1>1, <1>2, <1>3, NextLine
<1>5. journal = [u \in Sessions |-> journal[u]]
  BY DEF JournalType
<1>6. journal' = [journal EXCEPT ![s] = g]
  BY <1>1
<1>7. n = IF Known(s) THEN EventCount(s) ELSE 0
  BY DEF EventCount
<1>8. k = IF Known(s) THEN Len(journal[s]) - 1 ELSE 0
  BY KnownLines
<1> HIDE DEF X, read, older, line, g, n, k
<1>9. k \in Nat
  BY <1>2 DEF k
<1>10. g \in Seq(Seq(X)) /\ Len(g) = k + 1 /\ g[k + 1] = line
  BY <1>2, <1>4, AppendProperties DEF g, k
<1>11. g # <<>>
  BY <1>2, <1>4, AppendProperties DEF g
<1>12. journal'[s] = g
       /\ journal' = [u \in Sessions |-> IF u = s THEN g ELSE journal[u]]
  BY <1>5, <1>6
<1>13. Len(Last(g)) = n + 1
  BY <1>4, <1>10 DEF Last
<1>14. EventCount(s)' = n + 1
  BY <1>12, <1>13 DEF EventCount
<1>15. Known(s)'
  BY <1>11, <1>12 DEF Known
<1>16. Rewrites(s)' = k
  BY <1>9, <1>10, <1>12, <1>15 DEF Rewrites
<1>17. Rewrites(s) = k
  BY <1>8 DEF Rewrites
<1>18. Rewritten(s) => Rewritten(s)'
  BY <1>16, <1>17 DEF Rewritten
<1>19. EventCount(s) \in Nat \/ ~Known(s)
  BY KnownLines
<1>20. EventCount(s)' = IF Known(s) THEN EventCount(s) + 1 ELSE 1
  BY <1>7, <1>14
<1> QED
  BY <1>10, <1>11, <1>12, <1>18, <1>19, <1>20 DEF X

\* A rewritten transcript is a generation more.
LEMMA RewriteStep ==
    ASSUME JournalType, NEW s \in Sessions, IngestRewrite(s)
    PROVE  /\ journal'[s] \in Seq(Seq(LinesOfTranscripts(s))) /\ journal'[s] # <<>>
           /\ journal' = [t \in Sessions |->
                             IF t = s THEN journal'[s] ELSE journal[t]]
           /\ Known(s) /\ Rewritten(s)'
<1> DEFINE X == LinesOfTranscripts(s)
           gs == journal[s]
<1>1. PICK t \in Transcripts[s] : journal' = [journal EXCEPT ![s] = Append(gs, t)]
  BY DEF IngestRewrite
<1>2. t \in Seq(X) /\ gs \in Seq(Seq(X))
  BY TranscriptLines DEF JournalType
<1>3. Known(s)
  BY DEF IngestRewrite
<1>4. Len(gs) \in Nat \ {0}
  BY <1>3, KnownLines
<1>5. journal = [u \in Sessions |-> journal[u]]
  BY DEF JournalType
<1> DEFINE g == Append(gs, t)
<1>6. journal' = [journal EXCEPT ![s] = g]
  BY <1>1
<1> HIDE DEF X, gs, g
<1>7. g \in Seq(Seq(X)) /\ Len(g) = Len(gs) + 1 /\ g # <<>>
  BY <1>2, AppendProperties DEF g
<1>8. journal'[s] = g
      /\ journal' = [u \in Sessions |-> IF u = s THEN g ELSE journal[u]]
  BY <1>5, <1>6
<1>9. Rewrites(s)' = Len(gs)
  <2>1. Known(s)'
    BY <1>7, <1>8 DEF Known
  <2> QED
    BY <1>4, <1>7, <1>8, <2>1 DEF Rewrites
<1>10. Rewritten(s)'
  BY <1>4, <1>9 DEF Rewritten
<1> QED
  BY <1>3, <1>7, <1>8, <1>10 DEF X

\* Tree of a session by the lines of it and its children alone.
LEMMA OtherTree ==
    ASSUME NEW x \in Sessions, NEW s \in Sessions,
           journal' = [t \in Sessions |-> IF t = x THEN journal'[x] ELSE journal[t]],
           journal'[x] # <<>>
    PROVE  /\ Tree(s) \subseteq Tree(s)'
           /\ \A t \in Sessions : Known(t) => Known(t)'
           /\ \A t \in Sessions : t # x =>
                 /\ Known(t)' = Known(t) /\ EventCount(t)' = EventCount(t)
                 /\ LinesOf(t)' = LinesOf(t) /\ Rewritten(t)' = Rewritten(t)
           /\ Tree(s)' \ {x} = Tree(s) \ {x}
           /\ x \in Tree(s)' => x = s \/ ParentOf[x] = s
           /\ Known(x) => Tree(s)' = Tree(s)
<1>1. \A t \in Sessions : t # x => journal'[t] = journal[t]
  OBVIOUS
<1>2. \A t \in Sessions : t # x =>
         /\ Known(t)' = Known(t) /\ EventCount(t)' = EventCount(t)
         /\ LinesOf(t)' = LinesOf(t) /\ Rewritten(t)' = Rewritten(t)
  BY <1>1 DEF Known, EventCount, LinesOf, Rewritten, Rewrites
<1>3. Known(x)'
  BY DEF Known
<1>4. \A t \in Sessions : Known(t) => Known(t)'
  BY <1>2, <1>3
<1>5. Children(s)' = {c \in Sessions : Known(c)' /\ ParentOf[c] = s}
  BY DEF Children
<1>6. Children(s) = {c \in Sessions : Known(c) /\ ParentOf[c] = s}
  BY DEF Children
<1>7. Tree(s)' = {s} \cup Children(s)' /\ Tree(s) = {s} \cup Children(s)
  BY DEF Tree
<1>8. Children(s) \subseteq Children(s)' /\ Children(s)' \ {x} = Children(s) \ {x}
  BY <1>2, <1>4, <1>5, <1>6
<1>9. Known(x) => Children(s)' = Children(s)
  BY <1>2, <1>3, <1>5, <1>6
<1>10. x \in Children(s)' => ParentOf[x] = s
  BY <1>5
<1> QED
  BY <1>2, <1>4, <1>7, <1>8, <1>9, <1>10

\* What is read of a session depends on the lines of its tree alone.
LEMMA UntouchedTree ==
    ASSUME NEW x \in Sessions, NEW s \in Sessions,
           journal' = [t \in Sessions |-> IF t = x THEN journal'[x] ELSE journal[t]],
           journal'[x] # <<>>, x \notin Tree(s)'
    PROVE  /\ Tree(s)' = Tree(s)
           /\ MergedEvents(s)' = MergedEvents(s)
           /\ MergedCount(s)' = MergedCount(s)
           /\ \A t \in Tree(s) : Rewritten(t)' = Rewritten(t)
<1>1. /\ Tree(s) \subseteq Tree(s)' /\ Tree(s)' \ {x} = Tree(s) \ {x}
      /\ \A t \in Sessions : t # x =>
            /\ Known(t)' = Known(t) /\ EventCount(t)' = EventCount(t)
            /\ LinesOf(t)' = LinesOf(t) /\ Rewritten(t)' = Rewritten(t)
  BY OtherTree
<1>2. Tree(s)' = Tree(s) /\ x \notin Tree(s)
  BY <1>1
<1>3. \A t \in Sessions : t # x => Known(t)' = Known(t)
  BY <1>1
<1>4. Children(s)' = Children(s)
  <2>1. ~(Known(x)' /\ ParentOf[x] = s) /\ ~(Known(x) /\ ParentOf[x] = s)
    BY <1>2 DEF Tree, Children
  <2>2. \A t \in Sessions :
           (Known(t)' /\ ParentOf[t] = s) <=> (Known(t) /\ ParentOf[t] = s)
    BY <1>3, <2>1
  <2> QED
    BY <2>2 DEF Children
<1>5. Members(s)' = Members(s)
  BY <1>4 DEF Members
<1>6. \A i \in DOMAIN Members(s) : Members(s)[i] \in Tree(s)
  BY MembersShape
<1>7. Tree(s) \subseteq Sessions
  BY MembersShape
<1>8. \A i \in DOMAIN Members(s) : LinesOf(Members(s)[i])' = LinesOf(Members(s)[i])
  <2> SUFFICES ASSUME NEW i \in DOMAIN Members(s)
               PROVE  LinesOf(Members(s)[i])' = LinesOf(Members(s)[i])
    OBVIOUS
  <2>1. Members(s)[i] \in Sessions /\ Members(s)[i] # x
    BY <1>2, <1>6, <1>7
  <2>2. journal'[Members(s)[i]] = journal[Members(s)[i]]
    BY <2>1
  <2> QED
    BY <1>5, <2>2 DEF LinesOf
<1>9. StreamsOf(s)' = StreamsOf(s)
  BY <1>5, <1>8 DEF StreamsOf
<1>10. MergedEvents(s)' = MergedEvents(s)
  BY <1>9 DEF MergedEvents
<1>11. \A t \in Tree(s) : EventCount(t)' = EventCount(t) /\ Rewritten(t)' = Rewritten(t)
  BY <1>1, <1>2, <1>7
<1>12. {{t} \X (1..EventCount(t)') : t \in Tree(s)'}
         = {{t} \X (1..EventCount(t)) : t \in Tree(s)}
  BY <1>2, <1>11
<1>13. MergedCount(s)' = MergedCount(s)
  BY <1>12 DEF MergedCount
<1> QED
  BY <1>2, <1>10, <1>11, <1>13

\* The events of a tree, by their sessions and numbers.
Pairs(s) == UNION {{t} \X (1..EventCount(t)) : t \in Tree(s)}

LEMMA PairsFinite ==
    ASSUME JournalType, NEW s \in Sessions, Known(s)
    PROVE  IsFiniteSet(Pairs(s)) /\ Cardinality(Pairs(s)) \in Nat
<1> DEFINE Of == [t \in Tree(s) |-> {t} \X (1..EventCount(t))]
           Sets == {{t} \X (1..EventCount(t)) : t \in Tree(s)}
<1>1. IsFiniteSet(Tree(s))
  <2>1. Tree(s) \in SUBSET Sessions
    BY MembersShape
  <2> QED
    BY <2>1, TasteAssumption, FS_Subset
<1>2. Of \in Surjection(Tree(s), Sets)
  BY DEF Surjection
<1>3. IsFiniteSet(Sets)
  <2> HIDE DEF Of, Sets
  <2> QED
    BY <1>1, <1>2, FS_Surjection
<1>4. \A t \in Tree(s) : EventCount(t) \in Nat
  <2> SUFFICES ASSUME NEW t \in Tree(s)
               PROVE  EventCount(t) \in Nat
    OBVIOUS
  <2>1. t \in Sessions /\ Known(t)
    BY MembersShape DEF Tree, Children
  <2> QED
    BY <2>1, KnownLines
<1>5. \A t \in Tree(s) : IsFiniteSet({t} \X (1..EventCount(t)))
  <2> SUFFICES ASSUME NEW t \in Tree(s)
               PROVE  IsFiniteSet({t} \X (1..EventCount(t)))
    OBVIOUS
  <2> DEFINE n == EventCount(t)
  <2>1. n \in Int /\ 1 \in Int
    BY <1>4
  <2> HIDE DEF n
  <2>2. IsFiniteSet(1..n)
    BY <2>1, FS_Interval
  <2>3. IsFiniteSet({t})
    BY FS_Singleton
  <2>4. IsFiniteSet({t} \X (1..n))
    BY <2>2, <2>3, FS_Product
  <2> QED
    BY <2>4 DEF n
<1>6. \A T \in Sets : IsFiniteSet(T)
  BY <1>5
<1> HIDE DEF Sets
<1>7. IsFiniteSet(UNION Sets)
  BY <1>3, <1>6, FS_UNION
<1>8. IsFiniteSet(Pairs(s))
  BY <1>7 DEF Pairs, Sets
<1> QED
  BY <1>8, FS_CardinalityType

\* A line appended to a transcript of the tree raises the count by one.
LEMMA CountGrows ==
    ASSUME JournalType, NEW x \in Sessions, IngestAppend(x),
           NEW s \in Sessions, Known(s), x \in Tree(s)'
    PROVE  MergedCount(s) \in Nat /\ MergedCount(s)' = MergedCount(s) + 1
<1> DEFINE n == EventCount(x)'
<1>1. /\ journal' = [t \in Sessions |-> IF t = x THEN journal'[x] ELSE journal[t]]
      /\ journal'[x] # <<>>
      /\ EventCount(x) \in Nat \/ ~Known(x)
      /\ n = IF Known(x) THEN EventCount(x) + 1 ELSE 1
  BY AppendStep
<1> HIDE DEF n
<1>2. /\ Tree(s) \subseteq Tree(s)' /\ Tree(s)' \ {x} = Tree(s) \ {x}
      /\ \A t \in Sessions : t # x => EventCount(t)' = EventCount(t)
      /\ Known(x) => Tree(s)' = Tree(s)
  BY <1>1, OtherTree
<1>3. Tree(s)' = Tree(s) \cup {x}
  BY <1>2
<1>4. \A t \in Tree(s) : t \in Sessions /\ Known(t)
  BY MembersShape DEF Tree, Children
<1>5. Known(x) <=> x \in Tree(s)
  BY <1>2, <1>4
<1>6. x \in Tree(s) => EventCount(x) \in Nat /\ n = EventCount(x) + 1
  BY <1>1, <1>5
<1>7. x \notin Tree(s) => n = 1
  BY <1>1, <1>5
<1>8. \A t \in Tree(s) : t # x => EventCount(t)' = EventCount(t)
  BY <1>2, <1>4
<1>9. ASSUME NEW p
      PROVE  p \in Pairs(s)' <=> p \in Pairs(s) \cup {<<x, n>>}
  <2>1. p \in Pairs(s)' <=> \E t \in Tree(s) \cup {x} : p \in {t} \X (1..EventCount(t)')
    BY <1>3 DEF Pairs
  <2>2. p \in Pairs(s) <=> \E t \in Tree(s) : p \in {t} \X (1..EventCount(t))
    BY DEF Pairs
  <2>3. p \in {x} \X (1..EventCount(x)') <=>
           p = <<x, n>> \/ (x \in Tree(s) /\ p \in {x} \X (1..EventCount(x)))
    <3>1. CASE x \in Tree(s)
      <4>1. 1..n = (1..EventCount(x)) \cup {n}
        BY <1>6, <3>1
      <4> QED
        BY <3>1, <4>1 DEF n
    <3>2. CASE x \notin Tree(s)
      <4>1. 1..n = {n}
        BY <1>7, <3>2
      <4> QED
        BY <3>2, <4>1 DEF n
    <3> QED
      BY <3>1, <3>2
  <2> QED
    BY <1>8, <2>1, <2>2, <2>3
<1>10. Pairs(s)' = Pairs(s) \cup {<<x, n>>}
  BY <1>9
<1>11. <<x, n>> \notin Pairs(s)
  <2> SUFFICES ASSUME <<x, n>> \in Pairs(s)
               PROVE  FALSE
    OBVIOUS
  <2>1. PICK t \in Tree(s) : <<x, n>> \in {t} \X (1..EventCount(t))
    BY DEF Pairs
  <2>2. t = x /\ n \in 1..EventCount(x)
    BY <2>1
  <2> QED
    BY <1>6, <2>1, <2>2
<1>12. IsFiniteSet(Pairs(s)) /\ Cardinality(Pairs(s)) \in Nat
  BY PairsFinite
<1>13. Cardinality(Pairs(s) \cup {<<x, n>>}) = Cardinality(Pairs(s)) + 1
  BY <1>11, <1>12, FS_AddElement
<1>14. Cardinality(Pairs(s)') = Cardinality(Pairs(s)) + 1
  BY <1>10, <1>13
<1> QED
  BY <1>12, <1>14 DEF MergedCount, Pairs

------------------------------------------------------------------------------
(* The invariant holds at the start. *)

\* One session was read before.
ReadBefore(s, t, v) ==
    /\ ParentOf[s] = None
    /\ journal = [NoRows EXCEPT ![s] = <<t>>]
    /\ ~ExtractFails(s)
    /\ rows = [NoRows EXCEPT ![s] = Timelines(s)]
    /\ examples = [NoRows EXCEPT ![s] = Labelled(s, v)]
    /\ basis = [NoMeta EXCEPT ![s] = Source(s)]
    /\ \/ meta = NoMeta
       \/ /\ v = OldVersion
          /\ meta = [NoMeta EXCEPT ![s] =
                       [version |-> v, count |-> MergedCount(s)]]

LEMMA InitTypes ==
    ASSUME Init
    PROVE  JournalType /\ TodoType /\ TablesType
<1>1. TodoType
  BY EmptySeq DEF Init, TodoType, ToSet
<1>2. CASE FreshInit
  <2>1. \A s \in Sessions : journal[s] = <<>>
    BY <1>2 DEF FreshInit, NoRows
  <2>2. JournalType
    BY <1>2, <2>1, EmptySeq DEF FreshInit, NoRows, JournalType
  <2>3. TablesType
    BY <1>2 DEF FreshInit, NoRows, NoMeta, TablesType
  <2> QED
    BY <1>1, <2>2, <2>3
<1>3. CASE OldInit
  <2>0. PICK s \in Sessions :
           \E t \in Transcripts[s], v \in {OldVersion, Version} : ReadBefore(s, t, v)
    BY <1>3 DEF OldInit, ReadBefore
  <2>1. PICK t \in Transcripts[s], v \in {OldVersion, Version} : ReadBefore(s, t, v)
    BY <2>0
  <2>2. <<t>> \in Seq(Seq(LinesOfTranscripts(s)))
    <3> DEFINE X == Seq(LinesOfTranscripts(s))
    <3>1. t \in X
      BY TranscriptLines
    <3> HIDE DEF X
    <3>2. <<t>> \in Seq(X)
      BY <3>1
    <3> QED
      BY <3>2 DEF X
  <2>3. journal = [u \in Sessions |-> IF u = s THEN <<t>> ELSE <<>>]
    BY <2>1 DEF ReadBefore, NoRows
  <2>4. journal = [u \in Sessions |-> journal[u]]
    BY <2>3
  <2>5. \A u \in Sessions : journal[u] \in Seq(Seq(LinesOfTranscripts(u)))
    BY <2>2, <2>3, EmptySeq
  <2>6. TablesType
    BY <2>1 DEF ReadBefore, NoRows, NoMeta, TablesType
  <2> QED
    BY <1>1, <2>4, <2>5, <2>6 DEF JournalType
<1> QED
  BY <1>2, <1>3 DEF Init

\* What an extraction writes is what it read.
LEMMA ExtractedIsRead ==
    ASSUME JournalType, NEW s \in Sessions, Known(s), ~ExtractFails(s)
    PROVE  /\ Numbered(MergedEvents(s))
           /\ \A i \in DOMAIN MergedEvents(s) : EventFrom(MergedEvents(s)[i], Tree(s))
           /\ ~KeysClash(Modifications(MergedEvents(s)))
<1>1. ~KeysClash(Modifications(MergedEvents(s)))
  BY DEF ExtractFails
<1> QED
  BY <1>1, MergedNumbered

LEMMA InitInv ==
    ASSUME Init
    PROVE  TasteInv
<1>1. JournalType /\ TodoType /\ TablesType
  BY InitTypes
<1>2. CASE FreshInit
  <2>1. \A s \in Sessions : Unread(s) /\ meta[s] = None
    BY <1>2 DEF FreshInit, NoRows, NoMeta, Unread
  <2> QED
    BY <1>1, <2>1 DEF TasteInv
<1>3. CASE OldInit
  <2>0. PICK s \in Sessions :
           \E t \in Transcripts[s], v \in {OldVersion, Version} : ReadBefore(s, t, v)
    BY <1>3 DEF OldInit, ReadBefore
  <2>1. PICK t \in Transcripts[s], v \in {OldVersion, Version} : ReadBefore(s, t, v)
    BY <2>0
  <2>2. Known(s) /\ Linked(s) = FALSE
    BY <2>1 DEF ReadBefore, NoRows, Known, Linked
  <2>3. /\ rows[s] = Timelines(s) /\ examples[s] = Labelled(s, v)
        /\ basis[s] = Source(s)
    BY <2>1 DEF ReadBefore, NoRows, NoMeta
  <2>4. \A u \in Sessions : u # s => Unread(u) /\ meta[u] = None
    BY <2>1 DEF ReadBefore, NoRows, NoMeta, Unread
  <2>5. Read(s)
    <3>1. /\ basis[s].linked = FALSE /\ basis[s].events = MergedEvents(s)
          /\ basis[s].blobs = Blobs
      BY <2>2, <2>3 DEF Source
    <3>2. /\ rows[s] = Materialize(CwdOf[s], Blobs, MergedEvents(s))
          /\ examples[s] = CompileExamples(CwdOf[s], MergedEvents(s), rows[s], v)
      BY <2>3 DEF Timelines, Labelled
    <3>3. /\ Numbered(MergedEvents(s))
          /\ \A i \in DOMAIN MergedEvents(s) : EventFrom(MergedEvents(s)[i], Tree(s))
          /\ ~KeysClash(Modifications(MergedEvents(s)))
      BY <1>1, <2>1, <2>2, ExtractedIsRead DEF ReadBefore
    <3> QED
      BY <2>2, <3>1, <3>2, <3>3 DEF Read, ReadFrom
  <2>6. meta[s] = None \/ Counted(s)
    <3>1. CASE meta = NoMeta
      BY <3>1 DEF NoMeta
    <3>2. CASE /\ v = OldVersion
               /\ meta = [NoMeta EXCEPT ![s] =
                            [version |-> v, count |-> MergedCount(s)]]
      <4>1. meta[s].version = OldVersion
        BY <3>2 DEF NoMeta
      <4> QED
        BY <2>2, <4>1, TasteBoundAssumption DEF Counted
    <3> QED
      BY <2>1, <3>1, <3>2 DEF ReadBefore
  <2> QED
    BY <1>1, <2>4, <2>5, <2>6 DEF TasteInv
<1> QED
  BY <1>2, <1>3 DEF Init

------------------------------------------------------------------------------
(* Every step keeps it. *)

\* A run over all sessions lists parents.
LEMMA ParentsOrdered ==
    Ordered(ParentSessions) \in Seq(ParentSessions)
<1> DEFINE S == ParentSessions
           n == Cardinality(S)
<1>1. S \in SUBSET Sessions
  BY DEF ParentSessions
<1>2. S \in SUBSET Nat /\ IsFiniteSet(S)
  BY <1>1, TasteAssumption, FS_Subset
<1> HIDE DEF S
<1>3. n \in Nat
  BY <1>2, FS_CardinalityType
<1>4. Ordered(S) \in [1 .. n -> S]
  BY <1>2, OrderedProperty
<1> HIDE DEF n
<1>5. Ordered(S) \in Seq(S)
  BY <1>3, <1>4
<1> QED
  BY <1>5 DEF S

\* The next session of a run, and those after it.
LEMMA TodoHead ==
    ASSUME TodoType, ~Idle
    PROVE  /\ Head(todo) \in Sessions /\ Head(todo) \in ParentSessions
           /\ Tail(todo) \in Seq(Sessions) /\ ToSet(Tail(todo)) \subseteq ToSet(todo)
<1>1. todo \in Seq(Sessions) /\ todo # <<>>
  BY DEF TodoType, Idle
<1>2. Len(todo) \in Nat \ {0} /\ DOMAIN todo = 1 .. Len(todo)
  BY <1>1, EmptySeq, LenProperties
<1>3. Head(todo) \in Sessions /\ Tail(todo) \in Seq(Sessions)
  BY <1>1, HeadTailProperties
<1>4. Head(todo) = todo[1] /\ 1 \in DOMAIN todo
  BY <1>1, <1>2
<1>5. Head(todo) \in ToSet(todo)
  BY <1>4 DEF ToSet
<1>6. Head(todo) \in ParentSessions
  BY <1>5 DEF TodoType
<1>7. ASSUME NEW x \in ToSet(Tail(todo))
      PROVE  x \in ToSet(todo)
  <2>1. Len(Tail(todo)) = Len(todo) - 1 /\ DOMAIN Tail(todo) = 1 .. Len(Tail(todo))
    BY <1>1, <1>3, HeadTailProperties, LenProperties
  <2>2. PICK i \in DOMAIN Tail(todo) : x = Tail(todo)[i]
    BY <1>7 DEF ToSet
  <2>3. x = todo[i + 1]
    BY <1>1, <2>1, <2>2, HeadTailProperties
  <2>4. i + 1 \in DOMAIN todo
    BY <1>2, <2>1, <2>2
  <2> QED
    BY <2>3, <2>4 DEF ToSet
<1> QED
  BY <1>3, <1>6, <1>7

\* Every step keeps the types.
LEMMA NextTypes ==
    ASSUME JournalType, TodoType, TablesType, [Next]_vars
    PROVE  JournalType' /\ TodoType' /\ TablesType'
<1>1. CASE UNCHANGED vars
  BY <1>1 DEF JournalType, TodoType, TablesType, vars, tables, ParentSessions, Known, Linked
<1>2. ASSUME NEW s \in Sessions, IngestAppend(s) \/ IngestRewrite(s)
      PROVE  JournalType' /\ TodoType' /\ TablesType'
  <2>1. /\ journal'[s] \in Seq(Seq(LinesOfTranscripts(s)))
        /\ journal' = [t \in Sessions |-> IF t = s THEN journal'[s] ELSE journal[t]]
    BY <1>2, AppendStep, RewriteStep
  <2>2. JournalType'
    BY <2>1 DEF JournalType
  <2>3. todo' = <<>> /\ UNCHANGED tables /\ UNCHANGED basis
    BY <1>2 DEF IngestAppend, IngestRewrite, Idle
  <2>4. TodoType'
    BY <2>3, EmptySeq DEF TodoType, ToSet
  <2>5. TablesType'
    BY <2>3 DEF TablesType, tables
  <2> QED
    BY <2>2, <2>4, <2>5
<1>3. ASSUME UNCHANGED journal
      PROVE  JournalType' /\ ParentSessions' = ParentSessions
  BY <1>3 DEF JournalType, ParentSessions, Known, Linked
<1>4. ASSUME NEW b \in Sidecars, SidecarChanges(b)
      PROVE  JournalType' /\ TodoType' /\ TablesType'
  <2>1. UNCHANGED <<journal, tables, todo, basis>>
    BY <1>4 DEF SidecarChanges
  <2>2. JournalType' /\ ParentSessions' = ParentSessions
    BY <1>3, <2>1
  <2> QED
    BY <2>1, <2>2 DEF TodoType, TablesType, tables
<1>5. ASSUME NEW f \in BOOLEAN, ExtractBegin(f)
      PROVE  JournalType' /\ TodoType' /\ TablesType'
  <2>1. UNCHANGED <<journal, tables, basis>>
    BY <1>5 DEF ExtractBegin
  <2>2. JournalType' /\ ParentSessions' = ParentSessions
    BY <1>3, <2>1
  <2>3. todo' \in Seq(ParentSessions)
    <3>1. CASE todo' = Ordered(ParentSessions)
      BY <3>1, ParentsOrdered
    <3>2. CASE \E s \in ParentSessions : todo' = <<s>>
      <4> DEFINE S == ParentSessions
      <4>1. PICK s \in S : todo' = <<s>>
        BY <3>2
      <4> HIDE DEF S
      <4>2. <<s>> \in Seq(S)
        OBVIOUS
      <4> QED
        BY <4>1, <4>2 DEF S
    <3> QED
      BY <1>5, <3>1, <3>2 DEF ExtractBegin
  <2>4. todo' \in Seq(Sessions)
    BY <2>3, SeqMonotonic DEF ParentSessions
  <2>5. \A s \in ToSet(todo') : s \in ParentSessions
    BY <2>3, ElementOfSeq, LenProperties DEF ToSet
  <2> QED
    BY <2>1, <2>2, <2>4, <2>5 DEF TodoType, TablesType, tables
<1>6. CASE Skip
  <2>1. UNCHANGED <<journal, tables, basis>> /\ ~Idle /\ todo' = Tail(todo)
    BY <1>6 DEF Skip
  <2>2. JournalType' /\ ParentSessions' = ParentSessions
    BY <1>3, <2>1
  <2>3. Tail(todo) \in Seq(Sessions) /\ ToSet(Tail(todo)) \subseteq ToSet(todo)
    BY <2>1, TodoHead
  <2> QED
    BY <2>1, <2>2, <2>3 DEF TodoType, TablesType, tables
<1>7. CASE Extract
  <2>1. UNCHANGED <<journal>> /\ ~Idle /\ todo' = Tail(todo)
    BY <1>7 DEF Extract
  <2>2. JournalType' /\ ParentSessions' = ParentSessions
    BY <1>3, <2>1
  <2>3. Tail(todo) \in Seq(Sessions) /\ ToSet(Tail(todo)) \subseteq ToSet(todo)
    BY <2>1, TodoHead
  <2>4. TablesType'
    BY <1>7 DEF Extract, TablesType
  <2> QED
    BY <2>1, <2>2, <2>3, <2>4 DEF TodoType
<1>8. CASE ExtractError \/ ExtractKilled
  <2>1. UNCHANGED <<journal, tables, basis>> /\ todo' = <<>>
    BY <1>8 DEF ExtractError, ExtractKilled, Failed
  <2>2. JournalType'
    BY <1>3, <2>1
  <2>3. TodoType'
    BY <2>1, EmptySeq DEF TodoType, ToSet
  <2> QED
    BY <2>1, <2>2, <2>3 DEF TablesType, tables
<1> QED
  BY <1>1, <1>2, <1>4, <1>5, <1>6, <1>7, <1>8 DEF Next

\* What is read of the sessions depends on the journal alone.
LEMMA SameJournal ==
    ASSUME UNCHANGED journal
    PROVE  \A s : /\ Known(s)' = Known(s) /\ Tree(s)' = Tree(s)
                  /\ MergedEvents(s)' = MergedEvents(s)
                  /\ MergedCount(s)' = MergedCount(s)
                  /\ Rewritten(s)' = Rewritten(s)
<1> SUFFICES ASSUME NEW s
             PROVE  /\ Known(s)' = Known(s) /\ Tree(s)' = Tree(s)
                    /\ MergedEvents(s)' = MergedEvents(s)
                    /\ MergedCount(s)' = MergedCount(s)
                    /\ Rewritten(s)' = Rewritten(s)
  OBVIOUS
<1>1. Known(s)' = Known(s) /\ Rewritten(s)' = Rewritten(s)
  BY DEF Known, Rewritten, Rewrites
<1>2. Children(s)' = Children(s)
  BY DEF Children, Known
<1>3. Tree(s)' = Tree(s) /\ Members(s)' = Members(s)
  BY <1>2 DEF Tree, Members
<1>4. StreamsOf(s)' = StreamsOf(s)
  BY <1>3 DEF StreamsOf, LinesOf
<1>5. MergedEvents(s)' = MergedEvents(s)
  BY <1>4 DEF MergedEvents
<1>6. MergedCount(s)' = MergedCount(s)
  BY <1>3 DEF MergedCount, EventCount
<1> QED
  BY <1>1, <1>3, <1>5, <1>6

\* The rows of a session stay what they are when its tree grows.
LEMMA RowsKept ==
    ASSUME NEW s, Unread(s) \/ Read(s),
           rows'[s] = rows[s], examples'[s] = examples[s], basis'[s] = basis[s],
           Known(s) => Known(s)', Tree(s) \subseteq Tree(s)'
    PROVE  Unread(s)' \/ Read(s)'
<1>1. CASE Unread(s)
  BY <1>1 DEF Unread
<1>2. CASE Read(s)
  <2> DEFINE es == basis[s].events
             blobs == basis[s].blobs
  <2>1. basis[s].linked = FALSE /\ ReadFrom(s, es, blobs)
    BY <1>2 DEF Read
  <2> HIDE DEF es, blobs
  <2>2. \A i \in DOMAIN es : EventFrom(es[i], Tree(s)')
    BY <2>1 DEF ReadFrom, EventFrom
  <2>3. ReadFrom(s, es, blobs)'
    <3>1. rows[s] = Materialize(CwdOf[s], blobs, es)
      BY <2>1 DEF ReadFrom
    <3>2. PICK v \in {Version, OldVersion} :
             examples[s] = CompileExamples(CwdOf[s], es, rows[s], v)
      BY <2>1 DEF ReadFrom
    <3>3. examples'[s] = CompileExamples(CwdOf[s], es, rows'[s], v)
      BY <3>2
    <3>4. rows'[s] = Materialize(CwdOf[s], blobs, es)
      BY <3>1
    <3>5. Known(s)' /\ Numbered(es) /\ ~KeysClash(Modifications(es))
      BY <2>1 DEF ReadFrom
    <3>6. es' = es /\ blobs' = blobs
      BY DEF es, blobs
    <3> QED
      BY <2>2, <3>2, <3>3, <3>4, <3>5, <3>6 DEF ReadFrom
  <2>4. es' = es /\ blobs' = blobs
    BY DEF es, blobs
  <2> QED
    BY <2>1, <2>3, <2>4 DEF Read, es, blobs
<1> QED
  BY <1>1, <1>2

\* An ingest run leaves the rows, and counts what it adds.
LEMMA IngestInv ==
    ASSUME TasteInv, NEW x \in Sessions, IngestAppend(x) \/ IngestRewrite(x),
           NEW s \in Sessions
    PROVE  /\ Unread(s)' \/ Read(s)'
           /\ meta'[s] = None \/ Counted(s)'
<1>1. JournalType /\ (Unread(s) \/ Read(s)) /\ (meta[s] = None \/ Counted(s))
  BY DEF TasteInv
<1>2. /\ journal' = [t \in Sessions |-> IF t = x THEN journal'[x] ELSE journal[t]]
      /\ journal'[x] # <<>>
      /\ Rewritten(x) => Rewritten(x)'
  BY <1>1, AppendStep, RewriteStep
<1>3. UNCHANGED <<meta, rows, examples, basis>>
  BY DEF IngestAppend, IngestRewrite, tables
<1>4. /\ Tree(s) \subseteq Tree(s)'
      /\ \A t \in Sessions : Known(t) => Known(t)'
      /\ \A t \in Sessions : t # x => Rewritten(t)' = Rewritten(t)
  BY <1>2, OtherTree
<1>5. Unread(s)' \/ Read(s)'
  BY <1>1, <1>3, <1>4, RowsKept
<1>6. ASSUME Counted(s)
      PROVE  Counted(s)'
  <2>1. Known(s) /\ Known(s)'
    BY <1>4, <1>6 DEF Counted
  <2> SUFFICES ASSUME meta[s].version = Version,
                      \A t \in Tree(s)' : ~Rewritten(t)'
               PROVE  /\ meta[s].count \in Nat /\ meta[s].count <= MergedCount(s)'
                      /\ meta[s].count = MergedCount(s)' =>
                            basis[s].events = MergedEvents(s)'
    BY <1>3, <2>1 DEF Counted
  <2>2. \A t \in Tree(s) : ~Rewritten(t)
    BY <1>2, <1>4, MembersShape
  <2>3. /\ meta[s].count \in Nat /\ meta[s].count <= MergedCount(s)
        /\ meta[s].count = MergedCount(s) => basis[s].events = MergedEvents(s)
    BY <1>6, <2>2 DEF Counted
  <2>4. CASE x \notin Tree(s)'
    <3>1. MergedEvents(s)' = MergedEvents(s) /\ MergedCount(s)' = MergedCount(s)
      BY <1>2, <2>4, UntouchedTree
    <3> QED
      BY <2>3, <3>1
  <2>5. CASE x \in Tree(s)' /\ IngestAppend(x)
    <3>1. MergedCount(s) \in Nat /\ MergedCount(s)' = MergedCount(s) + 1
      BY <1>1, <2>1, <2>5, CountGrows
    <3> QED
      BY <2>3, <3>1
  <2>6. CASE x \in Tree(s)' /\ IngestRewrite(x)
    BY <1>1, <2>6, RewriteStep
  <2> QED
    BY <2>4, <2>5, <2>6
<1> QED
  BY <1>1, <1>3, <1>5, <1>6

\* A step that leaves the journal keeps the sessions whose rows it leaves.
LEMMA OthersInv ==
    ASSUME TasteInv, UNCHANGED journal, NEW s \in Sessions,
           meta'[s] = meta[s], rows'[s] = rows[s],
           examples'[s] = examples[s], basis'[s] = basis[s]
    PROVE  /\ Unread(s)' \/ Read(s)'
           /\ meta'[s] = None \/ Counted(s)'
<1>1. (Unread(s) \/ Read(s)) /\ (meta[s] = None \/ Counted(s))
  BY DEF TasteInv
<1>2. /\ \A t : Known(t)' = Known(t) /\ Rewritten(t)' = Rewritten(t)
      /\ Tree(s)' = Tree(s) /\ MergedEvents(s)' = MergedEvents(s)
      /\ MergedCount(s)' = MergedCount(s)
  BY SameJournal
<1>3. Unread(s)' \/ Read(s)'
  BY <1>1, <1>2, RowsKept
<1>4. Counted(s) => Counted(s)'
  BY <1>2 DEF Counted
<1> QED
  BY <1>1, <1>3, <1>4

\* The session a transaction replaces has the rows of its events.
LEMMA ExtractInv ==
    ASSUME TasteInv, Extract, NEW s \in Sessions
    PROVE  /\ Unread(s)' \/ Read(s)'
           /\ meta'[s] = None \/ Counted(s)'
           /\ basis'[s] # basis[s] => Read(s)'
<1> DEFINE h == Head(todo)
<1>1. h \in Sessions /\ h \in ParentSessions
  BY TodoHead DEF TasteInv, Extract
<1>2. JournalType /\ TablesType
  BY DEF TasteInv
<1>3. /\ UNCHANGED journal /\ ~ExtractFails(h)
      /\ rows' = [rows EXCEPT ![h] = Timelines(h)]
      /\ examples' = [examples EXCEPT ![h] = Labelled(h, Version)]
      /\ basis' = [basis EXCEPT ![h] = Source(h)]
      /\ meta' = [meta EXCEPT ![h] = [version |-> Version, count |-> MergedCount(h)]]
  BY DEF Extract
<1> HIDE DEF h
<1>4. CASE s # h
  <2>1. /\ meta'[s] = meta[s] /\ rows'[s] = rows[s]
        /\ examples'[s] = examples[s] /\ basis'[s] = basis[s]
    BY <1>2, <1>3, <1>4 DEF TablesType
  <2>2. (Unread(s)' \/ Read(s)') /\ (meta'[s] = None \/ Counted(s)')
    BY <1>3, <2>1, OthersInv
  <2> QED
    BY <2>1, <2>2
<1>5. CASE s = h
  <2>1. /\ rows'[s] = Timelines(s) /\ examples'[s] = Labelled(s, Version)
        /\ basis'[s] = Source(s)
        /\ meta'[s] = [version |-> Version, count |-> MergedCount(s)]
    BY <1>2, <1>3, <1>5 DEF TablesType
  <2>2. Known(s) /\ Linked(s) = FALSE
    BY <1>1, <1>5 DEF ParentSessions, Linked
  <2>3. /\ Known(s)' /\ Tree(s)' = Tree(s)
        /\ MergedEvents(s)' = MergedEvents(s) /\ MergedCount(s)' = MergedCount(s)
    BY <1>3, <2>2, SameJournal
  <2> DEFINE es == MergedEvents(s)
             blobs == Blobs
  <2>4. /\ basis'[s].linked = FALSE /\ basis'[s].events = es
        /\ basis'[s].blobs = blobs
    BY <2>1, <2>2 DEF Source
  <2>5. /\ rows'[s] = Materialize(CwdOf[s], blobs, es)
        /\ examples'[s] = CompileExamples(CwdOf[s], es, rows'[s], Version)
    BY <2>1 DEF Timelines, Labelled
  <2>6. /\ Numbered(es)
        /\ \A i \in DOMAIN es : EventFrom(es[i], Tree(s))
        /\ ~KeysClash(Modifications(es))
    BY <1>2, <1>3, <1>5, <2>2, ExtractedIsRead
  <2>7. Counted(s)'
    <3>1. MergedCount(s) \in Nat
      BY <1>2, <2>2, PairsFinite DEF MergedCount, Pairs
    <3>2. /\ meta'[s].count = MergedCount(s)' /\ MergedCount(s)' \in Nat
          /\ basis'[s].events = MergedEvents(s)'
      BY <2>1, <2>3, <2>4, <3>1
    <3> QED
      BY <2>3, <3>2 DEF Counted
  <2> HIDE DEF es, blobs
  <2>8. \A i \in DOMAIN es : EventFrom(es[i], Tree(s)')
    BY <2>3, <2>6
  <2>9. Read(s)'
    BY <2>3, <2>4, <2>5, <2>6, <2>8 DEF Read, ReadFrom
  <2> QED
    BY <2>7, <2>9
<1> QED
  BY <1>4, <1>5

LEMMA NextInv ==
    ASSUME TasteInv, [Next]_vars
    PROVE  TasteInv'
<1>1. JournalType' /\ TodoType' /\ TablesType'
  BY NextTypes DEF TasteInv
<1> SUFFICES ASSUME NEW s \in Sessions
             PROVE  /\ Unread(s)' \/ Read(s)'
                    /\ meta'[s] = None \/ Counted(s)'
  BY <1>1 DEF TasteInv
<1>2. ASSUME NEW x \in Sessions, IngestAppend(x) \/ IngestRewrite(x)
      PROVE  /\ Unread(s)' \/ Read(s)'
             /\ meta'[s] = None \/ Counted(s)'
  BY <1>2, IngestInv
<1>3. ASSUME UNCHANGED <<journal, meta, rows, examples, basis>>
      PROVE  /\ Unread(s)' \/ Read(s)'
             /\ meta'[s] = None \/ Counted(s)'
  BY <1>3, OthersInv
<1>4. CASE Extract
  BY <1>4, ExtractInv
<1>5. CASE UNCHANGED vars
  BY <1>3, <1>5 DEF vars, tables
<1>6. ASSUME NEW b \in Sidecars, SidecarChanges(b)
      PROVE  UNCHANGED <<journal, meta, rows, examples, basis>>
  BY <1>6 DEF SidecarChanges, tables
<1>7. ASSUME NEW f \in BOOLEAN, ExtractBegin(f)
      PROVE  UNCHANGED <<journal, meta, rows, examples, basis>>
  BY <1>7 DEF ExtractBegin, tables
<1>8. Skip \/ ExtractError \/ ExtractKilled =>
         UNCHANGED <<journal, meta, rows, examples, basis>>
  BY DEF Skip, ExtractError, ExtractKilled, Failed, tables
<1> QED
  BY <1>2, <1>3, <1>4, <1>5, <1>6, <1>7, <1>8 DEF Next

\* Whatever ingest runs, kills and vanishing sidecars come between, the rows of
\* a session are empty or what the extraction computes of a merge of its
\* transcripts, and its count does not exceed the events there are.
THEOREM RowsAreComputed == Spec => []TasteInv
<1>1. Init => TasteInv
  BY InitInv
<1>2. TasteInv /\ [Next]_vars => TasteInv'
  BY NextInv
<1> QED
  BY <1>1, <1>2, PTL DEF Spec

\* The merge of the transcripts of a session and its subagents keeps the order
\* of each whose times do not go back, whatever times the others have.
THEOREM OrderIsKept == Spec => []MergeKeepsStreams
<1>1. TasteInv => MergeKeepsStreams
  BY StreamsKept DEF TasteInv
<1> QED
  BY <1>1, RowsAreComputed, PTL

\* A session extract skips has the rows of all its events, unless a transcript
\* was rewritten or an older program made them.
THEOREM SkipsLoseNothing == Spec => []SkipIsSafe
<1>1. TasteInv => SkipIsSafe
  <2> SUFFICES ASSUME TasteInv, NEW s \in ParentSessions,
                      meta[s] # None, ~NeedsExtract(s),
                      \A t \in Tree(s) : ~Rewritten(t)
               PROVE  basis[s].events = MergedEvents(s)
    BY DEF SkipIsSafe
  <2>1. Counted(s)
    BY DEF TasteInv, ParentSessions
  <2>2. meta[s].version = Version /\ meta[s].count = MergedCount(s)
    BY DEF NeedsExtract
  <2> QED
    BY <2>1, <2>2 DEF Counted
<1> QED
  BY <1>1, RowsAreComputed, PTL

\* What was compiled of a proposal before its session went on is compiled of it
\* afterwards: its place, its name and its context.
THEOREM ContextsStay == Spec => ContextIsStable
<1>1. ASSUME TasteInv, [Next]_vars, NEW s \in Sessions,
             basis[s] # None, basis'[s] # basis[s],
             basis'[s].blobs = basis[s].blobs,
             IsPrefix(basis[s].events, basis'[s].events),
             NEW i \in DOMAIN examples[s]
      PROVE  /\ examples'[s][i].generation = examples[s][i].generation
             /\ examples'[s][i].seq = examples[s][i].seq
             /\ examples'[s][i].ref = examples[s][i].ref
             /\ examples'[s][i].context = examples[s][i].context
  <2>1. Extract
    BY <1>1 DEF Next, vars, tables, IngestAppend, IngestRewrite, SidecarChanges,
                ExtractBegin, Skip, ExtractError, ExtractKilled
  <2>2. Read(s)
    BY <1>1 DEF TasteInv, Unread
  <2>3. Read(s)'
    BY <1>1, <2>1, ExtractInv
  <2> DEFINE es == basis[s].events
             fs == basis'[s].events
             blobs == basis[s].blobs
             cwd == CwdOf[s]
  <2>4. Numbered(es) /\ rows[s] = Materialize(cwd, blobs, es)
    BY <2>2 DEF Read, ReadFrom
  <2>5. PICK v \in {Version, OldVersion} :
           examples[s] = CompileExamples(cwd, es, rows[s], v)
    BY <2>2 DEF Read, ReadFrom
  <2>6. ReadFrom(s, basis[s].events, basis[s].blobs)'
    BY <2>3 DEF Read
  <2>7. Numbered(fs) /\ rows'[s] = Materialize(cwd, basis'[s].blobs, fs)
    BY <2>6 DEF ReadFrom
  <2>8. PICK w \in {Version, OldVersion} :
           examples'[s] = CompileExamples(cwd, fs, rows'[s], w)
    BY <2>6 DEF ReadFrom
  <2>9. IsPrefix(es, fs) /\ basis'[s].blobs = blobs
    BY <1>1
  <2> HIDE DEF es, fs, blobs, cwd
  <2>10. examples[s] = CompileExamples(cwd, es, Materialize(cwd, blobs, es), v)
    BY <2>4, <2>5
  <2>11. examples'[s] = CompileExamples(cwd, fs, Materialize(cwd, blobs, fs), w)
    BY <2>7, <2>8, <2>9
  <2> DEFINE X == CompileExamples(cwd, es, Materialize(cwd, blobs, es), v)
             Y == CompileExamples(cwd, fs, Materialize(cwd, blobs, fs), w)
  <2>12. \A k \in DOMAIN X :
            /\ Y[k].generation = X[k].generation /\ Y[k].seq = X[k].seq
            /\ Y[k].ref = X[k].ref /\ Y[k].context = X[k].context
    BY <2>4, <2>7, <2>9, ExamplesPrefix
  <2>13. examples[s] = X /\ examples'[s] = Y
    BY <2>10, <2>11
  <2> HIDE DEF X, Y
  <2> QED
    BY <1>1, <2>12, <2>13
<1> DEFINE A == \A s \in Sessions :
                   /\ basis[s] # None /\ basis'[s] # basis[s]
                   /\ basis'[s].blobs = basis[s].blobs
                   /\ IsPrefix(basis[s].events, basis'[s].events)
                   => \A i \in DOMAIN examples[s] :
                         LET was == examples[s][i]
                             is == examples'[s][i]
                         IN  <<is.generation, is.seq, is.ref, is.context>>
                               = <<was.generation, was.seq, was.ref, was.context>>
<1>2. TasteInv /\ [Next]_vars => A
  BY <1>1
<1>3. [][A]_vars <=> ContextIsStable
  BY PTL DEF ContextIsStable
<1> HIDE DEF A
<1> QED
  BY <1>2, <1>3, RowsAreComputed, PTL DEF Spec

------------------------------------------------------------------------------
(* What was read is labelled and exported once. *)

\* A modification of a timeline has its own name.
LEMMA ModificationUnique ==
    ASSUME NEW es, Numbered(es), ~KeysClash(Modifications(es)),
           NEW p \in ModificationsAt(es), NEW q \in ModificationsAt(es),
           es[p].ref = es[q].ref
    PROVE  p = q
<1> DEFINE S == ModificationsAt(es)
           n == Cardinality(S)
<1>1. Len(es) \in Nat /\ DOMAIN es = 1 .. Len(es)
  BY Lengths DEF Numbered
<1>2. S \in SUBSET (1 .. Len(es))
  BY <1>1 DEF ModificationsAt
<1>3. S \in SUBSET Nat /\ IsFiniteSet(S)
  BY <1>1, <1>2, Positions
<1>4. Modifications(es) = [g \in 1 .. n |-> es[ProposalOf(es, g)]]
  BY ExampleShape
<1> HIDE DEF S
<1>5. \A k \in S : \E g \in 1 .. n : Ordered(S)[g] = k
  BY <1>3, OrderedProperty
<1>6. PICK g \in 1 .. n : ProposalOf(es, g) = p
  BY <1>5 DEF S, ProposalOf
<1>7. PICK h \in 1 .. n : ProposalOf(es, h) = q
  BY <1>5 DEF S, ProposalOf
<1> HIDE DEF n
<1>8. Modifications(es)[g].ref = Modifications(es)[h].ref
  BY <1>4, <1>6, <1>7
<1>9. DOMAIN Modifications(es) = 1 .. n
  BY <1>4
<1>10. g = h
  BY <1>8, <1>9 DEF KeysClash
<1> QED
  BY <1>6, <1>7, <1>10

\* Every example is that of a modification among the events it was made of.
LEMMA ReadExample ==
    ASSUME TasteInv, NEW s \in Sessions, NEW i \in DOMAIN examples[s]
    PROVE  LET es == basis[s].events
               p == ProposalOf(es, i)
           IN  /\ Read(s) /\ examples[s] # <<>>
               /\ i \in 1 .. Cardinality(ModificationsAt(es))
               /\ p \in ModificationsAt(es) /\ p \in DOMAIN es /\ p \in Nat
               /\ \E v : examples[s][i] = ExampleOf(CwdOf[s], es, rows[s], v, i, es[p])
<1> DEFINE es == basis[s].events
           c == Cardinality(ModificationsAt(es))
<1>1. examples[s] # <<>>
  OBVIOUS
<1>2. Read(s)
  BY <1>1 DEF TasteInv, Unread
<1>3. Numbered(es)
  BY <1>2 DEF Read, ReadFrom
<1>4. PICK v \in {Version, OldVersion} :
         examples[s] = CompileExamples(CwdOf[s], es, rows[s], v)
  BY <1>2 DEF Read, ReadFrom
<1> DEFINE X == CompileExamples(CwdOf[s], es, rows[s], v)
<1>5. /\ DOMAIN X = 1 .. c
      /\ \A g \in 1 .. c :
            /\ ProposalOf(es, g) \in ModificationsAt(es)
            /\ ProposalOf(es, g) \in DOMAIN es /\ ProposalOf(es, g) \in Nat
            /\ X[g] = ExampleOf(CwdOf[s], es, rows[s], v, g, es[ProposalOf(es, g)])
  BY <1>3, ExampleShape
<1>6. examples[s] = X
  BY <1>4
<1> HIDE DEF X, c
<1>7. i \in 1 .. c
  BY <1>5, <1>6
<1>8. examples[s][i] = ExampleOf(CwdOf[s], es, rows[s], v, i, es[ProposalOf(es, i)])
  BY <1>5, <1>6, <1>7
<1> HIDE DEF es
<1> QED
  BY <1>1, <1>2, <1>5, <1>7, <1>8 DEF es, c

\* Claude's tool use behind a proposal.
LEMMA ProposalFrom ==
    ASSUME NEW s \in Sessions, Read(s),
           NEW p \in DOMAIN basis[s].events, basis[s].events[p].kind = "proposal"
    PROVE  LET e == basis[s].events[p]
           IN  \E t \in Tree(s) : \E u \in ToolUses(t) : e.ref = u.ref /\ e.tool = u.tool
<1> DEFINE e == basis[s].events[p]
<1>1. EventFrom(e, Tree(s)) /\ e.kind = "proposal"
  BY DEF Read, ReadFrom
<1> HIDE DEF e
<1>2. e.stream \in Tree(s) /\ \E u \in ToolUses(e.stream) : e.ref = u.ref /\ e.tool = u.tool
  BY <1>1 DEF EventFrom
<1> QED
  BY <1>2 DEF e

\* A proposal of a transcript is exported once, whether its session or that of
\* its parent was read, as long as no session read on its own became a child
\* later.
THEOREM ExportedOnce == Spec => []EachProposalOnce
<1>1. TasteInv => EachProposalOnce
  <2> SUFFICES ASSUME TasteInv,
                      \A s \in Sessions :
                         Linked(s) /\ examples[s] # <<>> => basis[s].linked,
                      NEW s \in Sessions, NEW t \in Sessions,
                      NEW i \in DOMAIN examples[s], NEW j \in DOMAIN examples[t],
                      basis[s].events[examples[s][i].seq + 1].stream
                        = basis[t].events[examples[t][j].seq + 1].stream,
                      examples[s][i].ref = examples[t][j].ref
               PROVE  s = t /\ i = j
    BY DEF EachProposalOnce, ExportRecord
  <2> DEFINE es == basis[s].events
             fs == basis[t].events
             p == ProposalOf(es, i)
             q == ProposalOf(fs, j)
  <2>1. /\ Read(s) /\ examples[s] # <<>>
        /\ i \in 1 .. Cardinality(ModificationsAt(es))
        /\ p \in ModificationsAt(es) /\ p \in DOMAIN es
        /\ \E v : examples[s][i] = ExampleOf(CwdOf[s], es, rows[s], v, i, es[p])
    BY ReadExample
  <2>2. /\ Read(t) /\ examples[t] # <<>>
        /\ j \in 1 .. Cardinality(ModificationsAt(fs))
        /\ q \in ModificationsAt(fs) /\ q \in DOMAIN fs
        /\ \E v : examples[t][j] = ExampleOf(CwdOf[t], fs, rows[t], v, j, fs[q])
    BY ReadExample
  <2>3. examples[s][i].ref = es[p].ref
    BY <2>1 DEF ExampleOf
  <2>4. examples[t][j].ref = fs[q].ref
    BY <2>2 DEF ExampleOf
  <2>5. examples[s][i].seq = es[p].seq /\ examples[t][j].seq = fs[q].seq
    BY <2>1, <2>2 DEF ExampleOf
  <2>6. /\ Numbered(es) /\ \A k \in DOMAIN es : EventFrom(es[k], Tree(s))
        /\ Numbered(fs) /\ \A k \in DOMAIN fs : EventFrom(fs[k], Tree(t))
    BY <2>1, <2>2 DEF Read, ReadFrom
  <2>7. es[p].seq + 1 = p /\ fs[q].seq + 1 = q
    <3>1. DOMAIN es = 1 .. Len(es) /\ Len(es) \in Nat /\ es[p].seq = p - 1
      BY <2>1, <2>6, Lengths DEF Numbered
    <3>2. DOMAIN fs = 1 .. Len(fs) /\ Len(fs) \in Nat /\ fs[q].seq = q - 1
      BY <2>2, <2>6, Lengths DEF Numbered
    <3> HIDE DEF es, fs, p, q
    <3>3. p \in Nat /\ q \in Nat
      BY <2>1, <2>2, <3>1, <3>2
    <3> QED
      BY <3>1, <3>2, <3>3
  <2> DEFINE a == es[p].stream
  <2>8. a = fs[q].stream
    BY <2>5, <2>7
  <2>9. a \in Tree(s) /\ a \in Tree(t)
    BY <2>1, <2>2, <2>6, <2>8 DEF EventFrom
  <2>10. ~Linked(s) /\ ~Linked(t)
    BY <2>1, <2>2 DEF Read
  <2>11. Known(s) /\ Known(t)
    BY <2>1, <2>2 DEF Read, ReadFrom
  <2>12. (a = s \/ ParentOf[a] = s) /\ (a = t \/ ParentOf[a] = t)
    BY <2>9 DEF Tree, Children
  <2>13. s # None /\ t # None
    BY TasteAssumption
  <2>14. s = t
    BY <2>10, <2>11, <2>12, <2>13 DEF Linked
  <2>15. Numbered(es) /\ ~KeysClash(Modifications(es))
    BY <2>1 DEF Read, ReadFrom
  <2>16. p = q
    BY <2>1, <2>2, <2>3, <2>4, <2>14, <2>15, ModificationUnique
  <2>17. i = j
    <3> DEFINE S == ModificationsAt(es)
               n == Cardinality(S)
    <3>1. Modifications(es) = [g \in 1 .. n |-> es[ProposalOf(es, g)]]
      BY <2>15, ExampleShape
    <3>2. i \in 1 .. n /\ j \in 1 .. n
      BY <2>1, <2>2, <2>14
    <3>3. ProposalOf(es, i) = ProposalOf(es, j)
      BY <2>14, <2>16
    <3> HIDE DEF n, es
    <3>4. Modifications(es)[i].ref = Modifications(es)[j].ref
      BY <3>1, <3>2, <3>3
    <3>5. DOMAIN Modifications(es) = 1 .. n
      BY <3>1
    <3> QED
      BY <2>15, <3>2, <3>4, <3>5 DEF KeysClash
  <2> QED
    BY <2>14, <2>17
<1> QED
  BY <1>1, RowsAreComputed, PTL

\* The proposals before the n-th event that name the file.
Named(es, cwd, file, n) ==
    {i \in DOMAIN es : /\ es[i].kind = "proposal" /\ es[i].seq < n
                       /\ es[i].path # None /\ es[i].ref # None
                       /\ NormalizePath(es[i].path, cwd) = file}

\* A snapshot is triggered by the last proposal before it that names its file.
LEMMA Triggered ==
    ASSUME NEW es, Numbered(es), NEW cwd, NEW x, NEW p \in DOMAIN es,
           es[p].kind = "proposal", es[p].ref # None,
           \A k \in DOMAIN es :
              es[k].kind = "proposal" /\ es[k].ref = es[p].ref => k = p
    PROVE  LET file == NormalizePath(x.path, cwd)
           IN  TriggerOf(es, cwd, x) = es[p].ref <=>
                  p \in Named(es, cwd, file, x.seq)
                  /\ \A k \in Named(es, cwd, file, x.seq) : k <= p
<1> DEFINE file == NormalizePath(x.path, cwd)
           N == Named(es, cwd, file, x.seq)
<1>1. Len(es) \in Nat /\ DOMAIN es = 1 .. Len(es)
  BY Lengths DEF Numbered
<1>2. N \in SUBSET (1 .. Len(es))
  BY <1>1 DEF Named
<1>3. TriggerOf(es, cwd, x) = IF N = {} THEN None ELSE es[Max(N)].ref
  BY DEF TriggerOf, Named
<1>4. \A k \in N : es[k].kind = "proposal" /\ k \in DOMAIN es
  BY DEF Named
<1> HIDE DEF N
<1>5. N # {} => Max(N) \in N /\ \A m \in N : m <= Max(N)
  BY <1>1, <1>2, MaxProperty
<1>6. ASSUME TriggerOf(es, cwd, x) = es[p].ref
      PROVE  p \in N /\ \A k \in N : k <= p
  <2>1. N # {} /\ es[Max(N)].ref = es[p].ref
    BY <1>3, <1>6
  <2>2. Max(N) = p
    BY <1>4, <1>5, <2>1
  <2> QED
    BY <1>5, <2>1, <2>2
<1>7. ASSUME p \in N, \A k \in N : k <= p
      PROVE  TriggerOf(es, cwd, x) = es[p].ref
  <2>1. Max(N) \in N /\ p <= Max(N) /\ Max(N) <= p
    BY <1>5, <1>7
  <2>2. Max(N) \in 1 .. Len(es) /\ p \in 1 .. Len(es)
    BY <1>2, <1>7, <2>1
  <2>3. Max(N) = p
    BY <1>1, <2>1, <2>2
  <2> QED
    BY <1>3, <1>7, <2>3
<1> QED
  BY <1>6, <1>7 DEF N

FirstIsTriggered(es, cwd, rr, file, p) ==
    LET own == RowsOf(rr, file)
        after == {r \in own : rr[r].event_seq > es[p].seq}
        mine == {r \in own : rr[r].trigger = es[p].ref}
        before == Named(es, cwd, file, rr[Min(after)].event_seq)
    IN  /\ mine # {} <=> after # {} /\ p \in before /\ \A k \in before : k <= p
        /\ mine # {} => Min(mine) = Min(after)

\* The first row that a proposal triggered is the first row of the file after
\* it, and is that row exactly when no other proposal came between.
LEMMA FirstTriggered ==
    ASSUME NEW es, Numbered(es), NEW cwd, NEW blobs, NEW file,
           NEW p \in DOMAIN es,
           es[p].kind = "proposal", es[p].ref # None,
           \A k \in DOMAIN es :
              es[k].kind = "proposal" /\ es[k].ref = es[p].ref => k = p
    PROVE  FirstIsTriggered(es, cwd, Materialize(cwd, blobs, es), file, p)
<1> DEFINE rr == Materialize(cwd, blobs, es)
           own == RowsOf(rr, file)
           after == {r \in own : rr[r].event_seq > es[p].seq}
           mine == {r \in own : rr[r].trigger = es[p].ref}
           Before(r) == Named(es, cwd, file, rr[r].event_seq)
           c == Cardinality(SnapshotsAt(es))
<1>1. Len(es) \in Nat /\ DOMAIN es = 1 .. Len(es) /\ \A i \in DOMAIN es : es[i].seq = i - 1
  BY Lengths DEF Numbered
<1>2. c \in Nat /\ DOMAIN rr = 1 .. c
  BY RowShape
<1>3. ASSUME NEW r \in 1 .. c
      PROVE  /\ EventOf(es, r) \in Nat /\ EventOf(es, r) \in DOMAIN es
             /\ rr[r].file = NormalizePath(es[EventOf(es, r)].path, cwd)
             /\ rr[r].event_seq = EventOf(es, r) - 1
             /\ rr[r].trigger = TriggerOf(es, cwd, es[EventOf(es, r)])
  BY RowShape
<1>4. \A r, q \in 1 .. c : r < q => rr[r].event_seq < rr[q].event_seq
  BY RowShape
<1> HIDE DEF rr, c
<1>5. own \in SUBSET (1 .. c) /\ own \in SUBSET Nat
  BY <1>2 DEF RowsOf
<1>6. ASSUME NEW r \in own
      PROVE  /\ rr[r].event_seq \in Nat
             /\ r \in mine <=> p \in Before(r) /\ \A k \in Before(r) : k <= p
  <2>1. r \in 1 .. c /\ rr[r].file = file
    BY <1>5 DEF RowsOf
  <2> DEFINE x == es[EventOf(es, r)]
  <2>2. x.seq = rr[r].event_seq /\ rr[r].event_seq \in Nat
    BY <1>1, <1>3, <2>1
  <2>3. NormalizePath(x.path, cwd) = file /\ rr[r].trigger = TriggerOf(es, cwd, x)
    BY <1>3, <2>1
  <2> HIDE DEF x
  <2>4. TriggerOf(es, cwd, x) = es[p].ref <=>
           p \in Named(es, cwd, file, x.seq)
           /\ \A k \in Named(es, cwd, file, x.seq) : k <= p
    BY <2>3, Triggered
  <2> QED
    BY <2>2, <2>3, <2>4
<1>7. es[p].seq \in Nat
  BY <1>1
<1>8. \A r \in own : p \in Before(r) => rr[r].event_seq > es[p].seq
  BY <1>6, <1>7 DEF Named
<1> HIDE DEF own
<1>9. mine \subseteq after
  BY <1>6, <1>8
<1>10. ASSUME NEW r \in own, NEW q \in own, r <= q
       PROVE  Before(r) \subseteq Before(q)
  <2>1. rr[r].event_seq <= rr[q].event_seq
    <3>1. r \in Nat /\ q \in Nat /\ r \in 1 .. c /\ q \in 1 .. c
      BY <1>5
    <3>2. rr[r].event_seq \in Nat /\ rr[q].event_seq \in Nat
      BY <1>6
    <3>3. CASE r = q
      BY <3>2, <3>3
    <3>4. CASE r < q
      BY <1>4, <3>1, <3>2, <3>4
    <3> QED
      BY <1>10, <3>1, <3>3, <3>4
  <2>2. rr[r].event_seq \in Nat /\ rr[q].event_seq \in Nat
    BY <1>6
  <2>3. \A k \in DOMAIN es : es[k].seq \in Nat
    BY <1>1
  <2>4. \A k \in DOMAIN es : es[k].seq < rr[r].event_seq => es[k].seq < rr[q].event_seq
    BY <2>1, <2>2, <2>3
  <2> QED
    BY <2>4 DEF Named
<1>11. \A q \in mine, r \in after : r <= q => r \in mine
  <2> SUFFICES ASSUME NEW q \in mine, NEW r \in after, r <= q
               PROVE  r \in mine
    OBVIOUS
  <2>1. q \in own /\ r \in own /\ rr[r].event_seq > es[p].seq
    OBVIOUS
  <2>2. p \in Before(q) /\ \A k \in Before(q) : k <= p
    BY <1>6, <2>1
  <2>3. Before(r) \subseteq Before(q)
    BY <1>10, <2>1
  <2>4. p \in Before(r)
    BY <1>6, <1>7, <2>1, <2>2 DEF Named
  <2> QED
    BY <1>6, <2>1, <2>2, <2>3, <2>4
<1>12. after \in SUBSET Nat /\ mine \in SUBSET Nat /\ after \subseteq own
  BY <1>5
<1>13. ASSUME mine # {}
       PROVE  after # {} /\ Min(mine) = Min(after) /\ Min(after) \in mine
  <2> HIDE DEF mine, after
  <2>1. Min(mine) \in mine /\ \A m \in mine : Min(mine) <= m
    BY <1>12, <1>13, MinProperty
  <2>2. after # {}
    BY <1>9, <1>13
  <2>3. Min(after) \in after /\ \A m \in after : Min(after) <= m
    BY <1>12, <2>2, MinProperty
  <2>4. Min(after) <= Min(mine)
    BY <1>9, <2>1, <2>3
  <2>5. Min(after) \in mine
    BY <1>11, <2>1, <2>3, <2>4
  <2>6. Min(mine) <= Min(after)
    BY <2>1, <2>5
  <2>7. Min(mine) \in Nat /\ Min(after) \in Nat
    BY <1>12, <2>1, <2>3
  <2> QED
    BY <2>2, <2>4, <2>5, <2>6, <2>7
<1>14. after # {} => Min(after) \in after
  BY <1>12, MinProperty
<1>15. mine # {} <=> after # {} /\ p \in Before(Min(after))
                                /\ \A k \in Before(Min(after)) : k <= p
  <2>1. ASSUME mine # {}
        PROVE  p \in Before(Min(after)) /\ \A k \in Before(Min(after)) : k <= p
    <3>1. Min(after) \in own /\ Min(after) \in mine
      BY <1>13, <2>1
    <3> HIDE DEF mine, after
    <3> QED
      BY <1>6, <3>1
  <2>2. ASSUME after # {}, p \in Before(Min(after)),
               \A k \in Before(Min(after)) : k <= p
        PROVE  mine # {}
    <3>1. Min(after) \in own
      BY <1>12, <1>14, <2>2
    <3> HIDE DEF mine, after
    <3> QED
      BY <1>6, <2>2, <3>1
  <2> QED
    BY <1>13, <2>1, <2>2
<1> QED
  BY <1>13, <1>15 DEF FirstIsTriggered, own, rr

\* What a label says of the rows its proposal triggered.
SaysOfRows(l, file, ref, seq, rr) ==
    LET own == RowsOf(rr, file)
        mine == {r \in own : rr[r].trigger = ref}
        final == rr[Max(own)].content
        before == BeforeState(rr, file, seq)
        was == IF before = None THEN {} ELSE before
        post == rr[Min(mine)].content
    IN  /\ file # None /\ own # {} /\ final # None
        /\ l.outcome = "accepted" =>
              mine # {} /\ post # None /\ EffectPresent(was, post, final)
        /\ l.outcome = "rejected" =>
              mine = {} \/ post = None \/ ~EffectPresent(was, post, final)

\* A label of high confidence is that of a tool that names its file, from the
\* rows of this file.
LEMMA HighLabels ==
    ASSUME NEW tool, NEW file, NEW ref, NEW seq, NEW rr, NEW es,
           Classify(tool, file, ref, seq, rr, es).confidence = HighConfidence
    PROVE  SaysOfRows(Classify(tool, file, ref, seq, rr, es), file, ref, seq, rr)
<1> DEFINE l == Classify(tool, file, ref, seq, rr, es)
           own == RowsOf(rr, file)
           mine == {r \in own : rr[r].trigger = ref}
           final == rr[Max(own)].content
           before == BeforeState(rr, file, seq)
           was == IF before = None THEN {} ELSE before
           post == PostApply(tool, file, ref, seq, rr)
<1>1. \A o, n, v : /\ Label(o, n, v).outcome = o /\ Label(o, n, v).confidence = n
  BY DEF Label
<1>2. HighConfidence = 10 /\ BaseConfidence(tool) \in {6, 10}
      /\ (BaseConfidence(tool) = 10 => tool \notin Correlated)
  BY DEF HighConfidence, BaseConfidence
<1>3. BaseConfidence(tool) \div 2 # 10
  <2>1. 6 \div 2 = 3 /\ 10 \div 2 = 5
    OBVIOUS
  <2> QED
    BY <1>2, <2>1
<1>4. l = IF file = None THEN Label("rejected", 2, "missing_final_state")
          ELSE IF own = {} THEN UnseenLabel(tool, ref, es)
          ELSE EffectLabel(tool, before, post, final)
  BY DEF Classify
<1> HIDE DEF l, own, final, before, post
<1>5. l.confidence = 10
  BY <1>2 DEF l
<1>6. file # None
  BY <1>1, <1>4, <1>5
<1>7. UnseenLabel(tool, ref, es).confidence \in {3, 4}
  BY <1>1 DEF UnseenLabel
<1>8. own # {}
  BY <1>4, <1>5, <1>6, <1>7
<1>9. l = EffectLabel(tool, before, post, final)
  BY <1>4, <1>6, <1>8
<1>10. final # None
  BY <1>1, <1>5, <1>9 DEF EffectLabel
<1> DEFINE base == BaseConfidence(tool)
           ev == EvidenceOf(tool)
<1> HIDE DEF was
<1>11. l = IF post = None THEN Label("rejected", base, ev)
           ELSE IF EffectPresent(was, post, final) THEN Label("accepted", base, ev)
           ELSE IF PartialEffect(was, post, final) THEN Label("edited", base \div 2, ev)
           ELSE Label("rejected", base, ev)
  BY <1>9, <1>10 DEF EffectLabel, was
<1> HIDE DEF base, ev
<1>12. base = 10
  BY <1>1, <1>3, <1>5, <1>11 DEF base
<1>13. tool \notin Correlated
  BY <1>2, <1>12 DEF base
<1>14. l.outcome = "accepted" => post # None /\ EffectPresent(was, post, final)
  BY <1>1, <1>11
<1>15. l.outcome = "rejected" => post = None \/ ~EffectPresent(was, post, final)
  BY <1>1, <1>11
<1>16. post = IF mine # {} THEN rr[Min(mine)].content ELSE None
  BY <1>13 DEF PostApply, post, own
<1> QED
  BY <1>6, <1>8, <1>10, <1>14, <1>15, <1>16 DEF SaysOfRows, l, own, final, before, was

\* The rows of a session are numbered, and so are the events they are made of.
LEMMA LabelRows ==
    ASSUME TasteInv, NEW s \in Sessions, NEW i \in DOMAIN examples[s], NEW file
    PROVE  /\ RowsOf(rows[s], file) \in SUBSET Nat
           /\ \A r \in RowsOf(rows[s], file) : rows[s][r].event_seq \in Nat
<1> DEFINE es == basis[s].events
           blobs == basis[s].blobs
           cwd == CwdOf[s]
           c == Cardinality(SnapshotsAt(es))
           rr == Materialize(cwd, blobs, es)
<1>1. Numbered(es) /\ rows[s] = rr
  BY ReadExample DEF Read, ReadFrom
<1>2. c \in Nat /\ DOMAIN rr = 1 .. c
  BY <1>1, RowShape
<1>3. \A r \in 1 .. c : EventOf(es, r) \in DOMAIN es /\ rr[r].event_seq = EventOf(es, r) - 1
  BY <1>1, RowShape
<1>4. DOMAIN es = 1 .. Len(es) /\ Len(es) \in Nat
  BY <1>1, Lengths DEF Numbered
<1> HIDE DEF rr, c, es
<1>5. \A r \in 1 .. c : rr[r].event_seq \in Nat
  BY <1>3, <1>4
<1> QED
  BY <1>1, <1>2, <1>5 DEF RowsOf

\* The sessions that are read together are a session and its subagents.
LEMMA OneRoot ==
    ASSUME NEW s \in Sessions, NEW a \in Tree(s), NEW b \in Tree(s)
    PROVE  (IF ParentOf[a] = None THEN a ELSE ParentOf[a])
             = (IF ParentOf[b] = None THEN b ELSE ParentOf[b])
<1>1. \A t \in Tree(s) : t \in Sessions /\ (t = s \/ ParentOf[t] = s)
  BY MembersShape DEF Tree, Children
<1>2. s # None
  BY TasteAssumption
<1>3. ParentOf[s] # None => a = s /\ b = s
  BY <1>1, <1>2, TasteAssumption
<1> QED
  BY <1>1, <1>2, <1>3

\* Every use of a tool name among the events of a session is the same proposal.
LEMMA ProposalUnique ==
    ASSUME TasteInv, NEW s \in Sessions, Read(s),
           NEW p \in ModificationsAt(basis[s].events),
           NEW k \in DOMAIN basis[s].events,
           basis[s].events[k].kind = "proposal",
           basis[s].events[k].ref = basis[s].events[p].ref
    PROVE  k = p
<1> DEFINE es == basis[s].events
<1>1. /\ p \in DOMAIN es /\ es[p].kind = "proposal"
      /\ es[p].tool \in FileTools /\ es[p].ref # None
  BY DEF ModificationsAt, IsModification
<1>2. PICK a \in Tree(s) : \E u \in ToolUses(a) : es[p].ref = u.ref /\ es[p].tool = u.tool
  BY <1>1, ProposalFrom
<1>3. PICK b \in Tree(s) : \E u \in ToolUses(b) : es[k].ref = u.ref /\ es[k].tool = u.tool
  BY ProposalFrom
<1>4. PICK u \in ToolUses(a) : es[p].ref = u.ref /\ es[p].tool = u.tool
  BY <1>2
<1>5. PICK w \in ToolUses(b) : es[k].ref = w.ref /\ es[k].tool = w.tool
  BY <1>3
<1>6. a \in Sessions /\ b \in Sessions
  BY <1>2, <1>3, MembersShape
<1>7. w.ref = u.ref /\ w.ref # None
  BY <1>1, <1>4, <1>5
<1>8. u.tool = w.tool
  <2> DEFINE Root(t) == IF ParentOf[t] = None THEN t ELSE ParentOf[t]
  <2>1. Root(a) = Root(b)
    BY <1>2, <1>3, OneRoot
  <2> QED
    BY <1>6, <1>7, <2>1, ToolUseAssumption
<1>9. k \in ModificationsAt(es)
  BY <1>1, <1>4, <1>5, <1>8 DEF ModificationsAt, IsModification
<1>10. Numbered(es) /\ ~KeysClash(Modifications(es))
  BY DEF Read, ReadFrom
<1> QED
  BY <1>9, <1>10, ModificationUnique

\* One example against the rows of its file.
LEMMA LabelMatches ==
    ASSUME TasteInv, NEW s \in Sessions, NEW i \in DOMAIN examples[s],
           examples[s][i].label.confidence = HighConfidence,
           examples[s][i].label.evidence # "permission_denial"
    PROVE  LET ex == examples[s][i]
               rr == rows[s]
               es == basis[s].events
               cwd == CwdOf[s]
               own == RowsOf(rr, ex.file)
               after == {r \in own : rr[r].event_seq > ex.seq}
               first == rr[Min(after)]
               final == rr[Max(own)].content
               before == BeforeState(rr, ex.file, ex.seq)
               was == IF before = None THEN {} ELSE before
               named == Named(es, cwd, ex.file, first.event_seq)
               p == ProposalOf(es, i)
           IN  /\ Numbered(es) /\ p \in DOMAIN es /\ ex.seq = es[p].seq
               /\ ex.file # None /\ ex.file = FileOf(es[p], cwd)
               /\ es[p].kind = "proposal" /\ es[p].ref # None
               /\ own # {} /\ final # None
               /\ ex.label.outcome = "accepted" =>
                     /\ after # {} /\ \A k \in named : k <= p
                     /\ first.content # None /\ EffectPresent(was, first.content, final)
               /\ ex.label.outcome = "rejected" =>
                     \/ after = {} \/ p \notin named \/ \E k \in named : ~(k <= p)
                     \/ first.content = None
                     \/ ~EffectPresent(was, first.content, final)
<1> DEFINE ex == examples[s][i]
           rr == rows[s]
           es == basis[s].events
           blobs == basis[s].blobs
           cwd == CwdOf[s]
           own == RowsOf(rr, ex.file)
           after == {r \in own : rr[r].event_seq > ex.seq}
           mine == {r \in own : rr[r].trigger = ex.ref}
           final == rr[Max(own)].content
           before == BeforeState(rr, ex.file, ex.seq)
           was == IF before = None THEN {} ELSE before
           named == Named(es, cwd, ex.file, rr[Min(after)].event_seq)
           p == ProposalOf(es, i)
<1>1. /\ Read(s) /\ p \in ModificationsAt(es) /\ p \in DOMAIN es
      /\ \E v : ex = ExampleOf(cwd, es, rr, v, i, es[p])
  BY ReadExample
<1>2. Numbered(es) /\ rr = Materialize(cwd, blobs, es)
  BY <1>1 DEF Read, ReadFrom
<1>3. es[p].kind = "proposal" /\ es[p].ref # None
  BY <1>1 DEF ModificationsAt, IsModification
<1>4. \A k \in DOMAIN es :
         es[k].kind = "proposal" /\ es[k].ref = es[p].ref => k = p
  BY <1>1, ProposalUnique
<1>5. PICK v : ex = ExampleOf(cwd, es, rr, v, i, es[p])
  BY <1>1
<1> HIDE DEF ex, rr, es, blobs, cwd, p
<1>6. /\ ex.file = FileOf(es[p], cwd) /\ ex.seq = es[p].seq /\ ex.ref = es[p].ref
      /\ ex.tool = es[p].tool
      /\ ex.label = IF es[p].ref \in DeniedRefs(es)
                    THEN Label("rejected", HighConfidence, "permission_denial")
                    ELSE Classify(ex.tool, ex.file, ex.ref, ex.seq, rr, es)
  BY <1>5 DEF ExampleOf
<1>7. ex.label.confidence = HighConfidence /\ ex.label.evidence # "permission_denial"
  BY DEF ex
<1>8. ex.label = Classify(ex.tool, ex.file, ex.ref, ex.seq, rr, es)
  BY <1>6, <1>7 DEF Label
<1> DEFINE l == Classify(ex.tool, ex.file, ex.ref, ex.seq, rr, es)
           post == rr[Min(mine)].content
<1>9. /\ ex.file # None /\ own # {} /\ final # None
      /\ l.outcome = "accepted" =>
            mine # {} /\ post # None /\ EffectPresent(was, post, final)
      /\ l.outcome = "rejected" =>
            mine = {} \/ post = None \/ ~EffectPresent(was, post, final)
  <2>1. l.confidence = HighConfidence
    BY <1>7, <1>8
  <2>2. SaysOfRows(l, ex.file, ex.ref, ex.seq, rr)
    BY <2>1, HighLabels
  <2> HIDE DEF l
  <2> QED
    BY <2>2 DEF SaysOfRows
<1>10. /\ mine # {} <=> after # {} /\ p \in named /\ \A k \in named : k <= p
       /\ mine # {} => Min(mine) = Min(after)
  <2>1. p \in DOMAIN es
    BY <1>1 DEF es, p
  <2>2. FirstIsTriggered(es, cwd, rr, ex.file, p)
    BY <1>2, <1>3, <1>4, <2>1, FirstTriggered
  <2> QED
    BY <1>6, <2>2 DEF FirstIsTriggered
<1>11. /\ ex.label.outcome = "accepted" =>
             /\ after # {} /\ \A k \in named : k <= p
             /\ rr[Min(after)].content # None
             /\ EffectPresent(was, rr[Min(after)].content, final)
       /\ ex.label.outcome = "rejected" =>
             \/ after = {} \/ p \notin named \/ \E k \in named : ~(k <= p)
             \/ rr[Min(after)].content = None
             \/ ~EffectPresent(was, rr[Min(after)].content, final)
  <2> HIDE DEF l, after, mine, named, was, final
  <2>1. ex.label = l
    BY <1>8 DEF l
  <2> QED
    BY <1>9, <1>10, <2>1
<1>12. p \in DOMAIN es
  BY <1>1 DEF es, p
<1> HIDE DEF own, after, final, before, was, named
<1> QED
  BY <1>2, <1>3, <1>6, <1>9, <1>11, <1>12
     DEF ex, rr, es, cwd, p, own, after, final, before, was, named

\* What a label of full confidence says of a proposal is true of the rows: the last
\* one is known, an accepted proposal's effect is present in it and a rejected
\* one's is not.  A rejection says nothing where the first row after the proposal
\* does not tell: there is none, it may show the work of another proposal, or its
\* sidecar was missing (compiler.rs:393 rejects at full confidence all the same).
THEOREM LabelsAreTrue == Spec => []LabelsMatchTheFiles
<1>1. TasteInv => LabelsMatchTheFiles
  <2> SUFFICES ASSUME TasteInv, NEW s \in Sessions, NEW i \in DOMAIN examples[s],
                      examples[s][i].label.confidence = HighConfidence,
                      examples[s][i].label.evidence # "permission_denial"
               PROVE  LET ex == examples[s][i]
                          own == RowsOf(rows[s], ex.file)
                          after == {r \in own : rows[s][r].event_seq > ex.seq}
                          first == rows[s][Min(after)]
                          final == rows[s][Max(own)].content
                          others == {e \in ToSet(basis[s].events) :
                                       e.kind = "proposal" /\ e.ref # None}
                          between == {e \in others :
                             /\ e.seq > ex.seq /\ e.seq < first.event_seq
                             /\ NormalizePath(e.path, CwdOf[s]) = ex.file}
                          before == BeforeState(rows[s], ex.file, ex.seq)
                          was == IF before = None THEN {} ELSE before
                          missing == first.content = None
                      IN  /\ own # {} /\ final # None
                          /\ ex.label.outcome = "accepted" =>
                                /\ after # {} /\ between = {} /\ ~missing
                                /\ EffectPresent(was, first.content, final)
                          /\ /\ ex.label.outcome = "rejected"
                             /\ \E e \in others : e.seq = ex.seq /\ e.path # None
                             => \/ after = {} \/ between # {} \/ missing
                                \/ ~EffectPresent(was, first.content, final)
    BY DEF LabelsMatchTheFiles
  <2> DEFINE ex == examples[s][i]
             rr == rows[s]
             es == basis[s].events
             cwd == CwdOf[s]
             own == RowsOf(rr, ex.file)
             after == {r \in own : rr[r].event_seq > ex.seq}
             first == rr[Min(after)]
             final == rr[Max(own)].content
             others == {e \in ToSet(es) : e.kind = "proposal" /\ e.ref # None}
             between == {e \in others :
                           /\ e.seq > ex.seq /\ e.seq < first.event_seq
                           /\ NormalizePath(e.path, cwd) = ex.file}
             before == BeforeState(rr, ex.file, ex.seq)
             was == IF before = None THEN {} ELSE before
             named == Named(es, cwd, ex.file, first.event_seq)
             p == ProposalOf(es, i)
  <2>1. /\ Numbered(es) /\ p \in DOMAIN es /\ ex.seq = es[p].seq
        /\ ex.file # None /\ ex.file = FileOf(es[p], cwd)
        /\ es[p].kind = "proposal" /\ es[p].ref # None
        /\ own # {} /\ final # None
    BY LabelMatches
  <2>2. ex.label.outcome = "accepted" =>
           /\ after # {} /\ \A k \in named : k <= p
           /\ first.content # None /\ EffectPresent(was, first.content, final)
    BY LabelMatches
  <2>3. ex.label.outcome = "rejected" =>
           \/ after = {} \/ p \notin named \/ \E k \in named : ~(k <= p)
           \/ first.content = None
           \/ ~EffectPresent(was, first.content, final)
    BY LabelMatches
  <2> HIDE DEF ex, rr, es, cwd, p, own, first, final, was
  <2>4. Len(es) \in Nat /\ DOMAIN es = 1 .. Len(es) /\ \A k \in DOMAIN es : es[k].seq = k - 1
    BY <2>1, Lengths DEF Numbered
  <2>5. \A e \in others : \E k \in DOMAIN es : e = es[k]
    BY DEF ToSet
  <2>6. (\A k \in named : k <= p) => between = {}
    <3> SUFFICES ASSUME \A k \in named : k <= p, NEW e \in between
                 PROVE  FALSE
      OBVIOUS
    <3>1. PICK k \in DOMAIN es : e = es[k]
      BY <2>5
    <3>2. es[k].path # None
      BY <2>1, <3>1 DEF NormalizePath
    <3>3. k \in named
      BY <3>1, <3>2 DEF Named
    <3> QED
      BY <2>1, <2>4, <3>1, <3>3
  <2>7. (\E k \in named : ~(k <= p)) => between # {}
    <3> SUFFICES ASSUME NEW k \in named, ~(k <= p)
                 PROVE  es[k] \in between
      OBVIOUS
    <3>1. /\ k \in DOMAIN es /\ es[k].kind = "proposal" /\ es[k].ref # None
          /\ es[k].seq < first.event_seq /\ NormalizePath(es[k].path, cwd) = ex.file
      BY DEF Named
    <3>2. es[k].seq > ex.seq
      BY <2>1, <2>4, <3>1
    <3>3. es[k] \in others
      BY <3>1 DEF ToSet
    <3> QED
      BY <3>1, <3>2, <3>3
  <2>8. ASSUME \E e \in others : e.seq = ex.seq /\ e.path # None,
               after # {}
        PROVE  p \in named
    <3>1. es[p].path # None
      <4>1. PICK e \in others : e.seq = ex.seq /\ e.path # None
        BY <2>8
      <4>2. PICK k \in DOMAIN es : e = es[k]
        BY <2>5, <4>1
      <4>3. k = p
        BY <2>1, <2>4, <4>1, <4>2
      <4> QED
        BY <4>1, <4>2, <4>3
    <3>2. NormalizePath(es[p].path, cwd) = ex.file
      BY <2>1, <3>1 DEF FileOf
    <3>3. Min(after) \in after
      <4>1. own \in SUBSET Nat
        BY LabelRows DEF own, rr, ex
      <4>2. after \in SUBSET Nat
        BY <4>1
      <4> HIDE DEF after
      <4> QED
        BY <2>8, <4>2, MinProperty
    <3>4. first.event_seq > ex.seq
      BY <3>3 DEF first
    <3>5. es[p].seq < first.event_seq
      <4>1. first.event_seq \in Nat
        BY <3>3, LabelRows DEF first, own, rr, ex
      <4> QED
        BY <2>1, <2>4, <3>4, <4>1
    <3> QED
      BY <2>1, <3>1, <3>2, <3>5 DEF Named
  <2>9. ex.label.outcome = "accepted" =>
           /\ after # {} /\ between = {} /\ first.content # None
           /\ EffectPresent(was, first.content, final)
    BY <2>2, <2>6
  <2>10. ex.label.outcome = "rejected"
         /\ (\E e \in others : e.seq = ex.seq /\ e.path # None)
         => \/ after = {} \/ between # {} \/ first.content = None
            \/ ~EffectPresent(was, first.content, final)
    BY <2>3, <2>7, <2>8
  <2> HIDE DEF after, others, between, before
  <2> QED
    BY <2>1, <2>9, <2>10
       DEF ex, rr, es, cwd, own, after, first, final, others, between, before, was
<1> QED
  BY <1>1, RowsAreComputed, PTL

==============================================================================
