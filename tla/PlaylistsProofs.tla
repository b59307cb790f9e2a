--------------------------- MODULE PlaylistsProofs ---------------------------
(***************************************************************************)
(* Proofs about Playlists for any playlists, videos, devices and quotas,   *)
(* keys of any alphabet and length, and any chain of recovery copies.      *)
(*                                                                         *)
(* From below: sorted lists without repetitions; the order keys, which are *)
(* strictly between their bounds and rise; the order that an edit is meant *)
(* to make, and that the keys make that order, issued between neighbours   *)
(* or afresh for the whole playlist; each handler; the invariant; and what *)
(* the clients compute on the list alone.                                  *)
(***************************************************************************)
EXTENDS Playlists, FiniteSetTheorems, SequenceTheorems, TLAPS

\* A set of naturals has a least one.
LEMMA LeastExists ==
  ASSUME NEW S, S \subseteq Nat, S # {}
  PROVE  \E n \in S : \A m \in S : n <= m
<1>1. PICK n \in S : \A m \in S : ~(<<m, n>> \in OpToRel(<, Nat))
  BY NatLessThanWellFounded, WFMin
<1>2. \A m \in S : ~(m < n)
  BY <1>1 DEF OpToRel
<1> QED
  BY <1>2, SMT

-----------------------------------------------------------------------------
(* The elements of a finite set in the order of a relation. *)

TotalOrder(S, R) ==
  /\ \A u \in S : <<u, u>> \notin R
  /\ \A u, v, w \in S : <<u, v>> \in R /\ <<v, w>> \in R => <<u, w>> \in R
  /\ \A u, v \in S : u # v => <<u, v>> \in R \/ <<v, u>> \in R

Below(S, R, v) == {w \in S : <<w, v>> \in R}

\* A list that goes through a set in the order of the relation.
Ascending(list, S, R) ==
  /\ list \in Seq(S)
  /\ Range(list) = S
  /\ \A i, j \in DOMAIN list : i < j => <<list[i], list[j]>> \in R

\* An element of a finite totally ordered set has fewer elements below it than any that comes after it.
LEMMA BelowCounts ==
  ASSUME NEW S, NEW R, IsFiniteSet(S), TotalOrder(S, R)
  PROVE  /\ Cardinality(S) \in Nat
         /\ \A v \in S : Cardinality(Below(S, R, v)) \in 0 .. Cardinality(S) - 1
         /\ \A u, v \in S : <<u, v>> \in R <=> Cardinality(Below(S, R, u)) < Cardinality(Below(S, R, v))
<1>1. \A v \in S : IsFiniteSet(Below(S, R, v)) /\ Cardinality(Below(S, R, v)) \in Nat
  <2> TAKE v \in S
  <2>1. Below(S, R, v) \in SUBSET S
    BY DEF Below
  <2> QED
    BY <2>1, FS_Subset, FS_CardinalityType
<1>2. Cardinality(S) \in Nat
  BY FS_CardinalityType
<1>3. ASSUME NEW v \in S
      PROVE  Cardinality(Below(S, R, v)) < Cardinality(S)
  <2>1. Below(S, R, v) \in SUBSET S /\ v \notin Below(S, R, v)
    BY DEF Below, TotalOrder
  <2>2. Below(S, R, v) # S
    BY <2>1
  <2>3. Cardinality(Below(S, R, v)) <= Cardinality(S) /\ Cardinality(S) # Cardinality(Below(S, R, v))
    BY <2>1, <2>2, FS_Subset
  <2> QED
    BY <1>1, <1>2, <2>3
<1>4. ASSUME NEW u \in S, NEW v \in S, <<u, v>> \in R
      PROVE  Cardinality(Below(S, R, u)) < Cardinality(Below(S, R, v))
  <2>1. Below(S, R, u) \in SUBSET Below(S, R, v)
    BY <1>4 DEF Below, TotalOrder
  <2>2. u \in Below(S, R, v) /\ u \notin Below(S, R, u)
    BY <1>4 DEF Below, TotalOrder
  <2>3. Below(S, R, u) # Below(S, R, v)
    BY <2>2
  <2>4. IsFiniteSet(Below(S, R, v))
    BY <1>1
  <2>5. Cardinality(Below(S, R, u)) <= Cardinality(Below(S, R, v))
        /\ Cardinality(Below(S, R, v)) # Cardinality(Below(S, R, u))
    BY <2>1, <2>3, <2>4, FS_Subset
  <2> QED
    BY <1>1, <2>5
<1>5. ASSUME NEW u \in S, NEW v \in S, Cardinality(Below(S, R, u)) < Cardinality(Below(S, R, v))
      PROVE  <<u, v>> \in R
  <2>1. u # v
    BY <1>1, <1>5
  <2>2. CASE <<v, u>> \in R
    <3>1. Cardinality(Below(S, R, v)) < Cardinality(Below(S, R, u))
      BY <2>2, <1>4
    <3> QED
      BY <1>1, <1>5, <3>1
  <2> QED
    BY <2>1, <2>2 DEF TotalOrder
<1> QED
  BY <1>1, <1>2, <1>3, <1>4, <1>5

\* Sorted lists all elements of a finite set in the order of the relation.
LEMMA SortedAscends ==
  ASSUME NEW S, NEW R, IsFiniteSet(S), TotalOrder(S, R)
  PROVE  /\ Ascending(Sorted(S, R), S, R)
         /\ Len(Sorted(S, R)) = Cardinality(S)
<1> DEFINE n == Cardinality(S)
           count(v) == Cardinality(Below(S, R, v))
           f == [v \in S |-> count(v) + 1]
           list == Sorted(S, R)
<1>1. n \in Nat /\ (\A v \in S : count(v) \in 0 .. n - 1)
      /\ \A u, v \in S : <<u, v>> \in R <=> count(u) < count(v)
  BY BelowCounts
<1>2. f \in Injection(S, 1 .. n)
  <2>1. f \in [S -> 1 .. n]
    BY <1>1
  <2>2. ASSUME NEW u \in S, NEW v \in S, f[u] = f[v] PROVE u = v
    <3>1. count(u) = count(v)
      BY <1>1, <2>2
    <3>2. <<u, v>> \notin R /\ <<v, u>> \notin R
      BY <1>1, <3>1
    <3> QED
      BY <3>2 DEF TotalOrder
  <2> QED
    BY <2>1, <2>2 DEF Injection, IsInjective
<1>3. IsFiniteSet(1 .. n) /\ Cardinality(1 .. n) = n
  BY <1>1, FS_Interval
<1>4. f \in Surjection(S, 1 .. n)
  BY <1>2, <1>3, FS_Injection
<1>5. \A i \in 1 .. n : \E v \in S : count(v) = i - 1
  <2> TAKE i \in 1 .. n
  <2>1. PICK v \in S : f[v] = i
    BY <1>4 DEF Surjection
  <2> QED
    BY <1>1, <2>1
<1>6. list = [i \in 1 .. n |-> CHOOSE v \in S : count(v) = i - 1]
  BY DEF Sorted, Below
<1> HIDE DEF list, n, f
<1>7. \A i \in 1 .. n : list[i] \in S /\ count(list[i]) = i - 1
  <2> TAKE i \in 1 .. n
  <2>1. list[i] = CHOOSE v \in S : count(v) = i - 1
    BY <1>6
  <2> QED
    BY <1>5, <2>1
<1>8. DOMAIN list = 1 .. n /\ list = [i \in 1 .. n |-> list[i]]
  BY <1>6
<1>9. list \in Seq(S) /\ Len(list) = n
  BY <1>1, <1>7, <1>8
<1>10. \A v \in S : \E i \in 1 .. n : list[i] = v
  <2> TAKE v \in S
  <2>1. PICK i \in 1 .. n : i = count(v) + 1
    BY <1>1
  <2>2. list[i] \in S /\ count(list[i]) = count(v)
    BY <1>1, <1>7, <2>1
  <2>3. <<list[i], v>> \notin R /\ <<v, list[i]>> \notin R
    BY <1>1, <2>2
  <2> QED
    BY <2>2, <2>3 DEF TotalOrder
<1>11. Range(list) = S
  BY <1>7, <1>8, <1>10 DEF Range
<1>12. \A i, j \in DOMAIN list : i < j => <<list[i], list[j]>> \in R
  <2> TAKE i, j \in DOMAIN list
  <2> HAVE i < j
  <2>1. i \in 1 .. n /\ j \in 1 .. n
    BY <1>8
  <2>2. count(list[i]) < count(list[j])
    BY <1>1, <1>7, <2>1
  <2> QED
    BY <1>1, <1>7, <2>1, <2>2
<1> QED
  BY <1>9, <1>11, <1>12 DEF Ascending, list, n

\* There is only one such list.
LEMMA AscendingIsUnique ==
  ASSUME NEW S, NEW R, TotalOrder(S, R), NEW f, NEW g, Ascending(f, S, R), Ascending(g, S, R)
  PROVE  f = g
<1> DEFINE Differs == {i \in Nat : i \in DOMAIN f /\ i \in DOMAIN g /\ f[i] # g[i]}
<1>1. /\ f \in Seq(S) /\ g \in Seq(S) /\ Len(f) \in Nat /\ Len(g) \in Nat
      /\ DOMAIN f = 1 .. Len(f) /\ DOMAIN g = 1 .. Len(g)
  BY LenProperties DEF Ascending
<1>2. \A i \in DOMAIN f : f[i] \in S /\ \E j \in DOMAIN g : g[j] = f[i]
  BY <1>1 DEF Ascending, Range
<1>3. \A i \in DOMAIN g : g[i] \in S /\ \E j \in DOMAIN f : f[j] = g[i]
  BY <1>1 DEF Ascending, Range
<1>4. /\ \A i, j \in DOMAIN f : f[i] = f[j] => i = j
      /\ \A i, j \in DOMAIN g : g[i] = g[j] => i = j
  <2>1. ASSUME NEW i \in DOMAIN f, NEW j \in DOMAIN f, f[i] = f[j] PROVE i = j
    <3>1. ~(i < j) /\ ~(j < i)
      BY <1>2, <2>1 DEF Ascending, TotalOrder
    <3> QED
      BY <1>1, <3>1
  <2>2. ASSUME NEW i \in DOMAIN g, NEW j \in DOMAIN g, g[i] = g[j] PROVE i = j
    <3>1. ~(i < j) /\ ~(j < i)
      BY <1>3, <2>2 DEF Ascending, TotalOrder
    <3> QED
      BY <1>1, <3>1
  <2> QED
    BY <2>1, <2>2
<1>5. Differs = {}
  <2>1. SUFFICES ASSUME Differs # {} PROVE FALSE
    OBVIOUS
  <2>2. PICK i \in Differs : \A m \in Differs : i <= m
    <3>1. Differs \subseteq Nat
      OBVIOUS
    <3> HIDE DEF Differs
    <3> QED
      BY <2>1, <3>1, LeastExists
  <2>3. i \in Nat /\ i \in DOMAIN f /\ i \in DOMAIN g /\ f[i] # g[i]
    OBVIOUS
  <2>4. \A m \in DOMAIN f : m \in DOMAIN g /\ m < i => f[m] = g[m]
    BY <1>1, <2>2, <2>3
  <2>5. PICK j \in DOMAIN g : g[j] = f[i]
    BY <1>2, <2>3
  <2>6. PICK k \in DOMAIN f : f[k] = g[i]
    BY <1>3, <2>3
  <2>7. j > i
    <3>1. j # i
      BY <2>3, <2>5
    <3>2. CASE j < i
      <4>1. j \in DOMAIN f
        BY <1>1, <2>3, <2>5, <3>2
      <4>2. f[j] = g[j]
        BY <4>1, <2>4, <2>5, <3>2
      <4> QED
        BY <4>1, <4>2, <1>4, <2>3, <2>5, <3>1
    <3> QED
      BY <1>1, <2>3, <3>1, <3>2
  <2>8. k > i
    <3>1. k # i
      BY <2>3, <2>6
    <3>2. CASE k < i
      <4>1. k \in DOMAIN g
        BY <1>1, <2>3, <2>6, <3>2
      <4>2. f[k] = g[k]
        BY <4>1, <2>4, <2>6, <3>2
      <4> QED
        BY <4>1, <4>2, <1>4, <2>3, <2>6, <3>1
    <3> QED
      BY <1>1, <2>3, <3>1, <3>2
  <2>9. <<g[i], g[j]>> \in R /\ <<f[i], f[k]>> \in R
    BY <2>3, <2>5, <2>6, <2>7, <2>8, <1>1 DEF Ascending
  <2>10. <<g[i], f[i]>> \in R /\ <<f[i], g[i]>> \in R
    BY <2>5, <2>6, <2>9
  <2> QED
    BY <2>10, <2>3, <1>2, <1>3 DEF TotalOrder
<1>6. \A i \in DOMAIN f : i \in DOMAIN g => f[i] = g[i]
  BY <1>1, <1>5
<1>7. DOMAIN f = DOMAIN g
  <2>1. ASSUME NEW i \in DOMAIN f, i \notin DOMAIN g PROVE FALSE
    <3>1. PICK j \in DOMAIN g : g[j] = f[i]
      BY <1>2
    <3>2. j \in DOMAIN f /\ j < i
      BY <1>1, <2>1, <3>1
    <3>3. f[j] = f[i]
      BY <1>6, <3>1, <3>2
    <3> QED
      BY <1>1, <1>4, <3>2, <3>3
  <2>2. ASSUME NEW i \in DOMAIN g, i \notin DOMAIN f PROVE FALSE
    <3>1. PICK j \in DOMAIN f : f[j] = g[i]
      BY <1>3
    <3>2. j \in DOMAIN g /\ j < i
      BY <1>1, <2>2, <3>1
    <3>3. g[j] = g[i]
      BY <1>6, <3>1, <3>2
    <3> QED
      BY <1>1, <1>4, <3>2, <3>3
  <2> QED
    BY <2>1, <2>2
<1>8. Len(f) = Len(g)
  <2>1. ~(Len(f) < Len(g))
    <3>1. Len(f) < Len(g) => Len(g) \in 1 .. Len(g) /\ Len(g) \notin 1 .. Len(f)
      BY <1>1
    <3> QED
      BY <1>1, <1>7, <3>1
  <2>2. ~(Len(g) < Len(f))
    <3>1. Len(g) < Len(f) => Len(f) \in 1 .. Len(f) /\ Len(f) \notin 1 .. Len(g)
      BY <1>1
    <3> QED
      BY <1>1, <1>7, <3>1
  <2>3. Len(f) \in Nat /\ Len(g) \in Nat
    BY <1>1
  <2> QED
    BY <2>1, <2>2, <2>3
<1> QED
  BY <1>1, <1>6, <1>7, <1>8, SeqEqual


-----------------------------------------------------------------------------
(* Lists without repetitions. *)

\* A list of elements of S, each once.
Listing(list, S) == list \in Seq(S) /\ IsInjective(list)

\* A list without repetitions: every element has one place, and the list is as long as its set.
LEMMA ListingFacts ==
  ASSUME NEW S, NEW list, Listing(list, S)
  PROVE  /\ Len(list) \in Nat /\ DOMAIN list = 1 .. Len(list)
         /\ \A i \in DOMAIN list : list[i] \in S /\ list[i] \in Range(list)
         /\ Range(list) \subseteq S
         /\ IsFiniteSet(Range(list)) /\ Cardinality(Range(list)) = Len(list)
         /\ \A i \in DOMAIN list : Place(list, list[i]) = i
         /\ \A v \in Range(list) : Place(list, v) \in DOMAIN list /\ list[Place(list, v)] = v
         /\ \A v : Place(list, v) \in 0 .. Len(list) /\ (v \notin Range(list) => Place(list, v) = 0)
<1>1. Len(list) \in Nat /\ DOMAIN list = 1 .. Len(list) /\ list \in [1 .. Len(list) -> S]
  BY LenProperties DEF Listing
<1>2. \A i \in DOMAIN list : list[i] \in S /\ list[i] \in Range(list)
  BY <1>1 DEF Range
<1>3. Range(list) \subseteq S
  BY <1>2 DEF Range
<1>4. IsFiniteSet(Range(list)) /\ Cardinality(Range(list)) = Len(list)
  <2>1. list \in [1 .. Len(list) -> Range(list)]
    BY <1>1 DEF Range
  <2>2. list \in Bijection(1 .. Len(list), Range(list))
    BY <1>1, <2>1 DEF Bijection, Injection, Surjection, Range, Listing, IsInjective
  <2>3. ExistsBijection(1 .. Len(list), Range(list))
    BY <2>2 DEF ExistsBijection
  <2> QED
    BY <1>1, <2>3, FS_CountingElements, FS_NatBijection
<1>5. \A v \in Range(list) : \E i \in DOMAIN list : list[i] = v
  BY DEF Range
<1>6. \A v \in Range(list) : Place(list, v) \in DOMAIN list /\ list[Place(list, v)] = v
  BY <1>5 DEF Place
<1>7. \A i \in DOMAIN list : Place(list, list[i]) = i
  <2> TAKE i \in DOMAIN list
  <2>1. Place(list, list[i]) \in DOMAIN list /\ list[Place(list, list[i])] = list[i]
    BY <1>2, <1>6
  <2> QED
    BY <2>1 DEF Listing, IsInjective
<1>8. \A v : Place(list, v) \in 0 .. Len(list) /\ (v \notin Range(list) => Place(list, v) = 0)
  <2> TAKE v
  <2>1. CASE v \in Range(list)
    BY <1>1, <1>6, <2>1
  <2>2. CASE v \notin Range(list)
    BY <1>1, <2>2 DEF Place
  <2> QED
    BY <2>1, <2>2
<1> QED
  BY <1>1, <1>2, <1>3, <1>4, <1>6, <1>7, <1>8

\* A list in the order of a relation has no repetitions, and its places are in that order.
LEMMA AscendingFacts ==
  ASSUME NEW S, NEW R, TotalOrder(S, R), NEW list, Ascending(list, S, R)
  PROVE  /\ Listing(list, S)
         /\ \A u, v \in S : <<u, v>> \in R <=> Place(list, u) < Place(list, v)
<1>1. /\ list \in Seq(S) /\ Len(list) \in Nat /\ DOMAIN list = 1 .. Len(list) /\ Range(list) = S
      /\ \A i \in DOMAIN list : list[i] \in S
  BY LenProperties DEF Ascending, Range
<1>2. ASSUME NEW i \in DOMAIN list, NEW j \in DOMAIN list, list[i] = list[j] PROVE i = j
  <2>1. ~(i < j) /\ ~(j < i)
    BY <1>1, <1>2 DEF Ascending, TotalOrder
  <2> QED
    BY <1>1, <2>1
<1>3. Listing(list, S)
  BY <1>1, <1>2 DEF Listing, IsInjective
<1>4. ASSUME NEW u \in S, NEW v \in S PROVE <<u, v>> \in R <=> Place(list, u) < Place(list, v)
  <2>1. PICK i \in DOMAIN list : i = Place(list, u) /\ list[i] = u
    BY <1>1, <1>3, ListingFacts
  <2>2. PICK j \in DOMAIN list : j = Place(list, v) /\ list[j] = v
    BY <1>1, <1>3, ListingFacts
  <2>3. i \in Nat /\ j \in Nat
    BY <1>1
  <2>4. CASE i < j
    BY <2>1, <2>2, <2>4 DEF Ascending
  <2>5. CASE j < i
    <3>1. <<v, u>> \in R
      BY <2>1, <2>2, <2>5 DEF Ascending
    <3>2. <<u, v>> \notin R
      BY <3>1 DEF TotalOrder
    <3> QED
      BY <2>1, <2>2, <2>3, <2>5, <3>2
  <2>6. CASE i = j
    <3>1. u = v
      BY <2>1, <2>2, <2>6
    <3> QED
      BY <2>1, <2>2, <2>3, <2>6, <3>1 DEF TotalOrder
  <2> QED
    BY <2>3, <2>4, <2>5, <2>6
<1> QED
  BY <1>3, <1>4

Before(list, S) == {x \in S \X S : Place(list, x[1]) < Place(list, x[2])}

\* The places in a list order any part of it.
LEMMA BeforeOrders ==
  ASSUME NEW S, NEW T, NEW list, Listing(list, S)
  PROVE  TotalOrder(Range(list) \cap T, Before(list, T)) /\ IsFiniteSet(Range(list) \cap T)
<1>1. \A v \in Range(list) : Place(list, v) \in Nat /\ list[Place(list, v)] = v
  BY ListingFacts
<1>2. \A u, v \in Range(list) : u # v => Place(list, u) # Place(list, v)
  BY <1>1
<1>3. \A u, v \in Range(list) \cap T : <<u, v>> \in Before(list, T) <=> Place(list, u) < Place(list, v)
  BY DEF Before
<1>4. IsFiniteSet(Range(list) \cap T)
  BY ListingFacts, FS_Intersection
<1>5. \A u \in Range(list) \cap T : <<u, u>> \notin Before(list, T)
  BY <1>1, <1>3
<1>6. \A u, v, w \in Range(list) \cap T :
        <<u, v>> \in Before(list, T) /\ <<v, w>> \in Before(list, T) => <<u, w>> \in Before(list, T)
  BY <1>1, <1>3
<1>7. \A u, v \in Range(list) \cap T : u # v => <<u, v>> \in Before(list, T) \/ <<v, u>> \in Before(list, T)
  BY <1>1, <1>2, <1>3
<1> QED
  BY <1>4, <1>5, <1>6, <1>7 DEF TotalOrder

\* Among: a part of the list, in its order.
LEMMA AmongFacts ==
  ASSUME NEW S, NEW T, NEW list, Listing(list, S)
  PROVE  /\ Listing(Among(list, T), S) /\ Range(Among(list, T)) = Range(list) \cap T
         /\ \A u, v \in Range(list) \cap T :
              Place(Among(list, T), u) < Place(Among(list, T), v) <=> Place(list, u) < Place(list, v)
<1> DEFINE part == Among(list, T)
<1>1. part = Sorted(Range(list) \cap T, Before(list, T))
  BY DEF Among, Before
<1>2. TotalOrder(Range(list) \cap T, Before(list, T)) /\ IsFiniteSet(Range(list) \cap T)
  BY BeforeOrders
<1> HIDE DEF part
<1>3. Ascending(part, Range(list) \cap T, Before(list, T))
  BY <1>1, <1>2, SortedAscends
<1>4. /\ Listing(part, Range(list) \cap T)
      /\ \A u, v \in Range(list) \cap T : <<u, v>> \in Before(list, T) <=> Place(part, u) < Place(part, v)
  BY <1>2, <1>3, AscendingFacts
<1>5. Range(list) \cap T \subseteq S
  BY ListingFacts
<1>6. Listing(part, S)
  BY <1>4, <1>5, SeqMonotonic DEF Listing
<1>7. \A u, v \in Range(list) \cap T : <<u, v>> \in Before(list, T) <=> Place(list, u) < Place(list, v)
  BY DEF Before
<1> QED
  BY <1>3, <1>4, <1>6, <1>7 DEF part, Ascending

\* And the only list like that.
LEMMA AmongIs ==
  ASSUME NEW S, NEW T, NEW list, Listing(list, S),
         NEW part \in Seq(S), Range(part) = Range(list) \cap T,
         \A i, j \in DOMAIN part : i < j => Place(list, part[i]) < Place(list, part[j])
  PROVE  part = Among(list, T)
<1>1. Among(list, T) = Sorted(Range(list) \cap T, Before(list, T))
  BY DEF Among, Before
<1>2. TotalOrder(Range(list) \cap T, Before(list, T)) /\ IsFiniteSet(Range(list) \cap T)
  BY BeforeOrders
<1>3. Ascending(Among(list, T), Range(list) \cap T, Before(list, T))
  BY <1>1, <1>2, SortedAscends
<1>4. part \in Seq(Range(list) \cap T)
  BY SeqOfRange
<1>5. \A i, j \in DOMAIN part : i < j => <<part[i], part[j]>> \in Before(list, T)
  <2> TAKE i, j \in DOMAIN part
  <2> HAVE i < j
  <2>1. part[i] \in T /\ part[j] \in T
    BY DEF Range
  <2>2. Place(list, part[i]) < Place(list, part[j])
    OBVIOUS
  <2> QED
    BY <2>1, <2>2 DEF Before
<1>6. Ascending(part, Range(list) \cap T, Before(list, T))
  BY <1>4, <1>5 DEF Ascending
<1> QED
  BY <1>2, <1>3, <1>6, AscendingIsUnique

\* Two lists of the same elements in the same order are one.
LEMMA SameListing ==
  ASSUME NEW S, NEW f, NEW g, Listing(f, S), Listing(g, S), Range(f) = Range(g),
         \A u, v \in Range(f) : Place(f, u) < Place(f, v) => Place(g, u) < Place(g, v)
  PROVE  f = g
<1>1. Range(g) \cap Range(g) = Range(g)
  OBVIOUS
<1>2. \A i, j \in DOMAIN f : i < j => Place(g, f[i]) < Place(g, f[j])
  BY ListingFacts
<1>3. f = Among(g, Range(g))
  BY <1>1, <1>2, AmongIs DEF Listing
<1>4. \A i, j \in DOMAIN g : i < j => Place(g, g[i]) < Place(g, g[j])
  BY ListingFacts
<1>5. g = Among(g, Range(g))
  BY <1>1, <1>4, AmongIs DEF Listing
<1> QED
  BY <1>3, <1>5

\* Of those in one set, those in another.
LEMMA AmongAmong ==
  ASSUME NEW S, NEW list, Listing(list, S), NEW T, NEW U
  PROVE  Among(Among(list, T), U) = Among(list, T \cap U)
<1> DEFINE part == Among(list, T)
           twice == Among(part, U)
           once == Among(list, T \cap U)
<1>1. /\ Listing(part, S) /\ Range(part) = Range(list) \cap T
      /\ \A u, v \in Range(list) \cap T : Place(part, u) < Place(part, v) <=> Place(list, u) < Place(list, v)
  BY AmongFacts
<1>2. /\ Listing(once, S) /\ Range(once) = Range(list) \cap (T \cap U)
      /\ \A u, v \in Range(list) \cap (T \cap U) : Place(once, u) < Place(once, v) <=> Place(list, u) < Place(list, v)
  BY AmongFacts
<1> HIDE DEF part, once
<1>3. /\ Listing(twice, S) /\ Range(twice) = Range(part) \cap U
      /\ \A u, v \in Range(part) \cap U : Place(twice, u) < Place(twice, v) <=> Place(part, u) < Place(part, v)
  BY <1>1, AmongFacts
<1> HIDE DEF twice
<1>4. Range(twice) = Range(once)
  BY <1>1, <1>2, <1>3
<1>5. \A u, v \in Range(twice) : Place(twice, u) < Place(twice, v) => Place(once, u) < Place(once, v)
  BY <1>1, <1>2, <1>3
<1>6. twice = once
  BY <1>2, <1>3, <1>4, <1>5, SameListing
<1> QED
  BY <1>6 DEF twice, part, once

\* All elements of a list, taken out in their order, are the list.
LEMMA AmongAll ==
  ASSUME NEW S, NEW list, Listing(list, S), NEW T, Range(list) \subseteq T
  PROVE  Among(list, T) = list
<1>1. Range(list) = Range(list) \cap T
  OBVIOUS
<1>2. \A i, j \in DOMAIN list : i < j => Place(list, list[i]) < Place(list, list[j])
  BY ListingFacts
<1> QED
  BY <1>1, <1>2, AmongIs DEF Listing


-----------------------------------------------------------------------------
(* Order keys. *)

\* Where two fractions part.
Parts(f, g, i) ==
  /\ i \in DOMAIN g
  /\ \A j \in 1 .. i - 1 : j \in DOMAIN f /\ f[j] = g[j]
  /\ i \in DOMAIN f => f[i] < g[i]

\* Digits are naturals, also those with which a fraction goes on.
LEMMA DigitFacts ==
  ASSUME NEW f \in Seq(Digit)
  PROVE  /\ Len(f) \in Nat /\ DOMAIN f = 1 .. Len(f)
         /\ \A i \in DOMAIN f : f[i] \in Digit /\ f[i] \in Nat
         /\ \A i : DigitAt(f, i) \in Digit
<1>1. Base \in Nat /\ Base >= 2
  BY KeyAssumption
<1>2. Digit \subseteq Nat /\ 0 \in Digit
  BY <1>1 DEF Digit
<1>3. Len(f) \in Nat /\ DOMAIN f = 1 .. Len(f) /\ f \in [1 .. Len(f) -> Digit]
  BY LenProperties
<1> QED
  BY <1>2, <1>3 DEF DigitAt

\* The ordinal comparison of fractions is a strict total order.
LEMMA FracOrder ==
  /\ \A f \in Seq(Digit) : ~FracLess(f, f)
  /\ \A f, g, h \in Seq(Digit) : FracLess(f, g) /\ FracLess(g, h) => FracLess(f, h)
  /\ \A f, g \in Seq(Digit) : f # g => FracLess(f, g) \/ FracLess(g, f)
<1>1. \A f, g : FracLess(f, g) <=> \E i : Parts(f, g, i)
  BY DEF FracLess, Parts
<1>2. ASSUME NEW f \in Seq(Digit), FracLess(f, f) PROVE FALSE
  BY <1>1, <1>2, DigitFacts DEF Parts
<1>3. ASSUME NEW f \in Seq(Digit), NEW g \in Seq(Digit), NEW h \in Seq(Digit), FracLess(f, g), FracLess(g, h)
      PROVE  FracLess(f, h)
  <2>1. PICK i : Parts(f, g, i)
    BY <1>1, <1>3
  <2>2. PICK k : Parts(g, h, k)
    BY <1>1, <1>3
  <2>3. /\ i \in Nat \ {0} /\ k \in Nat \ {0}
        /\ i \in DOMAIN g /\ i <= Len(g) /\ k \in DOMAIN h /\ k <= Len(h)
    BY <2>1, <2>2, DigitFacts DEF Parts
  <2>4. CASE i <= k
    <3>1. i \in DOMAIN h
      BY <2>3, <2>4, DigitFacts
    <3>2. \A j \in 1 .. i - 1 : j \in 1 .. k - 1
      BY <2>3, <2>4
    <3>3. \A j \in 1 .. i - 1 : j \in DOMAIN f /\ f[j] = h[j]
      BY <3>2, <2>1, <2>2 DEF Parts
    <3>4. ASSUME i \in DOMAIN f PROVE f[i] < h[i]
      <4>1. f[i] < g[i]
        BY <2>1, <3>4 DEF Parts
      <4>2. g[i] <= h[i]
        <5>1. CASE i = k
          BY <2>2, <2>3, <5>1, DigitFacts DEF Parts
        <5>2. CASE i < k
          <6>1. i \in 1 .. k - 1
            BY <2>3, <5>2
          <6>2. g[i] = h[i]
            BY <2>2, <6>1 DEF Parts
          <6> QED
            BY <2>3, <6>2, DigitFacts
        <5> QED
          BY <2>3, <2>4, <5>1, <5>2
      <4>3. f[i] \in Nat /\ g[i] \in Nat /\ h[i] \in Nat
        BY <2>3, <3>1, <3>4, DigitFacts
      <4> QED
        BY <4>1, <4>2, <4>3
    <3>5. Parts(f, h, i)
      BY <3>1, <3>3, <3>4 DEF Parts
    <3> QED
      BY <1>1, <3>5
  <2>5. CASE k < i
    <3>1. k \in 1 .. i - 1 /\ \A j \in 1 .. k - 1 : j \in 1 .. i - 1
      BY <2>3, <2>5
    <3>2. k \in DOMAIN f /\ f[k] = g[k] /\ k \in DOMAIN g
      BY <2>1, <2>3, <2>5, <3>1, DigitFacts DEF Parts
    <3>3. f[k] < h[k]
      BY <2>2, <3>2 DEF Parts
    <3>4. \A j \in 1 .. k - 1 : j \in DOMAIN f /\ f[j] = h[j]
      BY <2>1, <2>2, <3>1 DEF Parts
    <3>5. Parts(f, h, k)
      BY <2>3, <3>3, <3>4 DEF Parts
    <3> QED
      BY <1>1, <3>5
  <2> QED
    BY <2>3, <2>4, <2>5
<1>4. ASSUME NEW f \in Seq(Digit), NEW g \in Seq(Digit), f # g
      PROVE  FracLess(f, g) \/ FracLess(g, f)
  <2> DEFINE Differs == {i \in Nat : (i \in DOMAIN f \/ i \in DOMAIN g) /\ ~(i \in DOMAIN f /\ i \in DOMAIN g /\ f[i] = g[i])}
  <2>1. Differs # {}
    <3>1. SUFFICES ASSUME Differs = {} PROVE f = g
      BY <1>4
    <3>2. \A i \in DOMAIN f : i \in DOMAIN g /\ f[i] = g[i]
      BY <3>1, DigitFacts
    <3>3. \A i \in DOMAIN g : i \in DOMAIN f
      BY <3>1, DigitFacts
    <3>4. DOMAIN f = DOMAIN g
      BY <3>2, <3>3
    <3>5. f = [i \in DOMAIN f |-> f[i]] /\ g = [i \in DOMAIN g |-> g[i]]
      BY DigitFacts, LenProperties
    <3> QED
      BY <3>2, <3>4, <3>5
  <2>2. PICK i \in Differs : \A m \in Differs : i <= m
    <3>1. Differs \subseteq Nat
      OBVIOUS
    <3> HIDE DEF Differs
    <3> QED
      BY <2>1, <3>1, LeastExists
  <2>3. i \in Nat /\ (i \in DOMAIN f \/ i \in DOMAIN g) /\ ~(i \in DOMAIN f /\ i \in DOMAIN g /\ f[i] = g[i])
    OBVIOUS
  <2>4. ASSUME NEW j \in 1 .. i - 1 PROVE j \in DOMAIN f /\ j \in DOMAIN g /\ f[j] = g[j]
    <3>1. j \in Nat /\ ~(i <= j) /\ j \notin Differs
      BY <2>2, <2>3
    <3>2. j \in DOMAIN f \/ j \in DOMAIN g
      BY <2>3, <2>4, DigitFacts
    <3> QED
      BY <3>1, <3>2
  <2> HIDE DEF Differs
  <2>5. CASE i \in DOMAIN f /\ i \in DOMAIN g
    <3>1. f[i] # g[i] /\ f[i] \in Nat /\ g[i] \in Nat
      BY <2>3, <2>5, DigitFacts
    <3>2. f[i] < g[i] \/ g[i] < f[i]
      BY <3>1
    <3>3. Parts(f, g, i) \/ Parts(g, f, i)
      BY <2>4, <2>5, <3>2 DEF Parts
    <3> QED
      BY <1>1, <3>3
  <2>6. CASE i \notin DOMAIN f
    <3>1. Parts(f, g, i)
      BY <2>3, <2>4, <2>6 DEF Parts
    <3> QED
      BY <1>1, <3>1
  <2>7. CASE i \notin DOMAIN g
    <3>1. Parts(g, f, i)
      BY <2>3, <2>4, <2>7 DEF Parts
    <3> QED
      BY <1>1, <3>1
  <2> QED
    BY <2>5, <2>6, <2>7
<1> QED
  BY <1>2, <1>3, <1>4

\* A key is its integer and its fraction.
LEMMA KeyFacts ==
  ASSUME NEW k \in Key
  PROVE  /\ k.int \in Int /\ k.int >= Smallest /\ k.int <= -Smallest
         /\ k.frac \in Fraction /\ k.frac \in Seq(Digit)
         /\ k = [int |-> k.int, frac |-> k.frac]
<1>1. Smallest \in Int
  BY KeyAssumption
<1>2. k.int \in Smallest .. -Smallest /\ k.frac \in Fraction /\ k = [int |-> k.int, frac |-> k.frac]
  BY DEF Key
<1>3. k.frac \in Seq(Digit)
  BY <1>2, EmptySeq DEF Fraction
<1> QED
  BY <1>1, <1>2, <1>3

\* The ordinal comparison of keys is a strict total order.
LEMMA KeyOrder ==
  /\ \A a \in Key : ~KeyLess(a, a)
  /\ \A a, b, c \in Key : KeyLess(a, b) /\ KeyLess(b, c) => KeyLess(a, c)
  /\ \A a, b \in Key : a # b => KeyLess(a, b) \/ KeyLess(b, a)
<1>1. ASSUME NEW a \in Key PROVE ~KeyLess(a, a)
  BY KeyFacts, FracOrder DEF KeyLess
<1>2. ASSUME NEW a \in Key, NEW b \in Key, NEW c \in Key, KeyLess(a, b), KeyLess(b, c) PROVE KeyLess(a, c)
  <2>1. CASE a.int = b.int /\ b.int = c.int
    <3>1. FracLess(a.frac, b.frac) /\ FracLess(b.frac, c.frac)
      BY <1>2, <2>1, KeyFacts DEF KeyLess
    <3> QED
      BY <2>1, <3>1, KeyFacts, FracOrder DEF KeyLess
  <2>2. CASE ~(a.int = b.int /\ b.int = c.int)
    BY <1>2, <2>2, KeyFacts DEF KeyLess
  <2> QED
    BY <2>1, <2>2
<1>3. ASSUME NEW a \in Key, NEW b \in Key, a # b PROVE KeyLess(a, b) \/ KeyLess(b, a)
  <2>1. CASE a.int = b.int
    <3>1. a.frac # b.frac
      BY <1>3, <2>1, KeyFacts
    <3> QED
      BY <2>1, <3>1, KeyFacts, FracOrder DEF KeyLess
  <2>2. CASE a.int # b.int
    BY <2>2, KeyFacts DEF KeyLess
  <2> QED
    BY <2>1, <2>2
<1> QED
  BY <1>1, <1>2, <1>3


\* A fraction that is not empty.
Proper(f) == f \in Seq(Digit) /\ f # <<>> /\ f[Len(f)] # 0

\* Between two digits that are not consecutive there is their rounded mean.
LEMMA MeanFacts ==
  ASSUME NEW x \in Nat, NEW y \in Nat, y - x > 1
  PROVE  Mean(x, y) \in Nat /\ x < Mean(x, y) /\ Mean(x, y) < y
  BY DEF Mean

\* Digits before a place, and one there.
LEMMA PrefixFacts ==
  ASSUME NEW f \in Seq(Digit), NEW n \in Nat, n >= 1, n - 1 <= Len(f), NEW d \in Digit
  PROVE  LET r == Append(SubSeq(f, 1, n - 1), d)
         IN  /\ r \in Seq(Digit) /\ Len(r) = n /\ r[n] = d
             /\ \A j \in 1 .. n - 1 : r[j] = f[j]
<1> DEFINE p == SubSeq(f, 1, n - 1)
<1>1. \A i \in 1 .. n - 1 : f[i] \in Digit
  BY DigitFacts
<1>2. /\ p \in Seq(Digit) /\ Len(p) = (IF 1 <= n - 1 THEN n - 1 - 1 + 1 ELSE 0)
      /\ \A i \in 1 .. n - 1 - 1 + 1 : p[i] = f[1 + i - 1]
  BY <1>1, SubSeqProperties
<1> HIDE DEF p
<1>3. Len(p) = n - 1 /\ \A i \in 1 .. n - 1 : p[i] = f[i]
  BY <1>2
<1>4. /\ Append(p, d) \in Seq(Digit) /\ Len(Append(p, d)) = Len(p) + 1
      /\ \A i \in 1 .. Len(p) : Append(p, d)[i] = p[i]
      /\ Append(p, d)[Len(p) + 1] = d
  BY <1>2, AppendProperties
<1>5. Len(p) + 1 = n
  BY <1>3
<1>6. /\ Append(p, d) \in Seq(Digit) /\ Len(Append(p, d)) = n /\ Append(p, d)[n] = d
      /\ \A i \in 1 .. n - 1 : Append(p, d)[i] = f[i]
  BY <1>3, <1>4, <1>5
<1> QED
  BY <1>6 DEF p

\* A list that goes on as another one does up to a place, and is greater there.
LEMMA GreaterAt ==
  ASSUME NEW f \in Seq(Digit), NEW r \in Seq(Digit), NEW n \in DOMAIN r,
         \A j \in 1 .. n - 1 : DigitAt(f, j) = r[j], DigitAt(f, n) < r[n] \/ n > Len(f)
  PROVE  FracLess(f, r)
<1>1. /\ Len(f) \in Nat /\ DOMAIN f = 1 .. Len(f) /\ Len(r) \in Nat /\ DOMAIN r = 1 .. Len(r) /\ n \in Nat /\ n >= 1
  BY DigitFacts
<1>2. CASE n <= Len(f)
  <2>1. n \in DOMAIN f /\ DigitAt(f, n) = f[n] /\ f[n] < r[n]
    BY <1>1, <1>2 DEF DigitAt
  <2>2. \A j \in 1 .. n - 1 : j \in DOMAIN f /\ f[j] = r[j]
    BY <1>1, <1>2 DEF DigitAt
  <2> QED
    BY <2>1, <2>2 DEF FracLess
<1>3. CASE n > Len(f)
  <2>1. PICK i : i = Len(f) + 1
    OBVIOUS
  <2>2. i \in DOMAIN r /\ i \notin DOMAIN f /\ \A j \in 1 .. i - 1 : j \in DOMAIN f /\ j \in 1 .. n - 1
    BY <1>1, <1>3, <2>1
  <2>3. \A j \in 1 .. i - 1 : j \in DOMAIN f /\ f[j] = r[j]
    BY <2>2 DEF DigitAt
  <2> QED
    BY <2>2, <2>3 DEF FracLess
<1> QED
  BY <1>1, <1>2, <1>3

\* Half way to the end lies a proper fraction above the one given.
LEMMA MidpointAboveFacts ==
  ASSUME NEW f \in Seq(Digit)
  PROVE  /\ Proper(MidpointAbove(f)) /\ Len(MidpointAbove(f)) \in Nat
         /\ FracLess(f, MidpointAbove(f))
<1> DEFINE Largest(i) == DigitAt(f, i) # Base - 1
           Stop(i) == Largest(i) /\ \A j \in 1 .. i - 1 : f[j] = Base - 1
           Stops == {i \in Nat : i \in 1 .. Len(f) + 1 /\ Largest(i)}
<1>1. Base \in Nat /\ Base >= 2
  BY KeyAssumption
<1>2. Len(f) \in Nat /\ DOMAIN f = 1 .. Len(f) /\ \A i : DigitAt(f, i) \in Digit
  BY DigitFacts
<1>3. Len(f) + 1 \in Stops
  BY <1>1, <1>2 DEF DigitAt
<1>4. PICK m \in Stops : \A i \in Stops : m <= i
  <2>1. Stops \subseteq Nat /\ Stops # {}
    BY <1>3
  <2> HIDE DEF Stops
  <2> QED
    BY <2>1, LeastExists
<1>5. m \in 1 .. Len(f) + 1 /\ Stop(m)
  <2>1. m \in Nat /\ m \in 1 .. Len(f) + 1 /\ Largest(m)
    OBVIOUS
  <2>2. ASSUME NEW j \in 1 .. m - 1 PROVE f[j] = Base - 1
    <3>1. j \in Nat /\ j \in 1 .. Len(f) + 1 /\ ~(m <= j) /\ j \in DOMAIN f
      BY <1>2, <2>1
    <3>2. j \notin Stops
      BY <1>4, <3>1
    <3>3. DigitAt(f, j) = Base - 1
      BY <3>1, <3>2
    <3> QED
      BY <3>1, <3>3 DEF DigitAt
  <2> QED
    BY <2>1, <2>2
<1>6. PICK n : n = CHOOSE i \in 1 .. Len(f) + 1 : Stop(i)
  OBVIOUS
<1>7. n \in 1 .. Len(f) + 1 /\ Stop(n)
  BY <1>5, <1>6
<1>8. PICK d : d = DigitAt(f, n)
  OBVIOUS
<1>9. d \in Nat /\ Base - d > 1 /\ d \in Digit
  BY <1>1, <1>2, <1>7, <1>8 DEF Digit
<1>10. Mean(d, Base) \in Digit /\ Mean(d, Base) > d /\ Mean(d, Base) \in Nat
  BY <1>1, <1>9, MeanFacts DEF Digit
<1>11. PICK r : r = Append(SubSeq(f, 1, n - 1), Mean(d, Base))
  OBVIOUS
<1>12. MidpointAbove(f) = r
  BY <1>6, <1>8, <1>11 DEF MidpointAbove
<1>13. n \in Nat /\ n >= 1 /\ n - 1 <= Len(f)
  BY <1>2, <1>7
<1>14. /\ r \in Seq(Digit) /\ Len(r) = n /\ r[n] = Mean(d, Base)
       /\ \A j \in 1 .. n - 1 : r[j] = f[j]
  BY <1>10, <1>11, <1>13, PrefixFacts
<1>15. r # <<>> /\ r[Len(r)] # 0
  BY <1>9, <1>10, <1>13, <1>14, EmptySeq
<1>16. n \in DOMAIN r /\ DigitAt(f, n) < r[n]
  BY <1>8, <1>10, <1>13, <1>14, DigitFacts
<1>17. \A j \in 1 .. n - 1 : DigitAt(f, j) = r[j]
  BY <1>2, <1>13, <1>14 DEF DigitAt
<1>18. FracLess(f, r)
  BY <1>14, <1>16, <1>17, GreaterAt
<1> QED
  BY <1>12, <1>13, <1>14, <1>15, <1>18 DEF Proper

\* Without an upper bound, midpoint goes half way to the end.
LEMMA MidpointOpen ==
  ASSUME NEW f \in Seq(Digit)
  PROVE  Midpoint(f, Open) = MidpointAbove(f)
  BY DEF Midpoint

\* Where a fraction and a greater one part, what follows a short one counting as zeros.
LEMMA FirstDifference ==
  ASSUME NEW a \in Seq(Digit), NEW b, Proper(b), FracLess(a, b)
  PROVE  \E n \in DOMAIN b : /\ DigitAt(a, n) # b[n] /\ \A j \in 1 .. n - 1 : DigitAt(a, j) = b[j]
<1> DEFINE Differs == {i \in Nat : i \in DOMAIN b /\ DigitAt(a, i) # b[i]}
<1>1. PICK i \in DOMAIN b : /\ \A j \in 1 .. i - 1 : j \in DOMAIN a /\ a[j] = b[j]
                            /\ i \in DOMAIN a => a[i] < b[i]
  BY DEF FracLess
<1>2. /\ b \in Seq(Digit) /\ Len(b) \in Nat /\ DOMAIN b = 1 .. Len(b) /\ \A j \in DOMAIN b : b[j] \in Nat
      /\ Len(a) \in Nat /\ DOMAIN a = 1 .. Len(a) /\ \A j \in DOMAIN a : a[j] \in Nat
  BY DigitFacts DEF Proper
<1>3. Differs # {}
  <2>1. CASE i \in DOMAIN a
    <3>1. i \in Differs
      BY <1>1, <1>2, <2>1 DEF DigitAt
    <3> QED
      BY <3>1
  <2>2. CASE i \notin DOMAIN a
    <3>1. Len(b) \in DOMAIN b /\ Len(b) >= i /\ b[Len(b)] # 0
      BY <1>2 DEF Proper
    <3>2. Len(b) \notin DOMAIN a
      BY <1>2, <2>2, <3>1
    <3>3. Len(b) \in Differs
      BY <1>2, <3>1, <3>2 DEF DigitAt
    <3> QED
      BY <3>3
  <2> QED
    BY <2>1, <2>2
<1>4. PICK n \in Differs : \A m \in Differs : n <= m
  <2>1. Differs \subseteq Nat
    OBVIOUS
  <2> HIDE DEF Differs
  <2> QED
    BY <1>3, <2>1, LeastExists
<1>5. n \in Nat /\ n \in DOMAIN b /\ DigitAt(a, n) # b[n]
  OBVIOUS
<1>6. ASSUME NEW j \in 1 .. n - 1 PROVE DigitAt(a, j) = b[j]
  <2>1. j \in Nat /\ j \in DOMAIN b /\ ~(n <= j)
    BY <1>2, <1>5
  <2>2. j \notin Differs
    BY <1>4, <2>1
  <2> QED
    BY <2>1, <2>2
<1> QED
  BY <1>5, <1>6

\* midpoint issues a proper fraction strictly between its two bounds.
LEMMA MidpointFacts ==
  ASSUME NEW a \in Seq(Digit), NEW b, Proper(b), FracLess(a, b)
  PROVE  Proper(Midpoint(a, b)) /\ FracLess(a, Midpoint(a, b)) /\ FracLess(Midpoint(a, b), b)
<1>1. /\ b \in Seq(Digit) /\ Len(b) \in Nat /\ DOMAIN b = 1 .. Len(b) /\ \A j \in DOMAIN b : b[j] \in Nat /\ b[j] \in Digit
      /\ Len(a) \in Nat /\ DOMAIN a = 1 .. Len(a) /\ \A j \in DOMAIN a : a[j] \in Nat /\ a[j] \in Digit
      /\ \A j : DigitAt(a, j) \in Digit /\ DigitAt(a, j) \in Nat
  BY DigitFacts, KeyAssumption DEF Proper, Digit
<1>2. b # Open
  <2>1. b \in Fraction
    BY DEF Proper, Fraction
  <2> QED
    BY <2>1, OpenAssumption
<1>3. PICK n : n = CHOOSE i \in DOMAIN b : DigitAt(a, i) # b[i] /\ \A j \in 1 .. i - 1 : DigitAt(a, j) = b[j]
  OBVIOUS
<1>4. n \in DOMAIN b /\ DigitAt(a, n) # b[n] /\ \A j \in 1 .. n - 1 : DigitAt(a, j) = b[j]
  BY <1>3, FirstDifference
<1>5. n \in Nat /\ n >= 1 /\ n <= Len(b) /\ n - 1 <= Len(b)
  BY <1>1, <1>4
<1>6. PICK x : x = DigitAt(a, n)
  OBVIOUS
<1>7. x \in Nat /\ x \in Digit
  BY <1>1, <1>6
<1>8. x < b[n]
  <2>1. PICK i \in DOMAIN b : /\ \A j \in 1 .. i - 1 : j \in DOMAIN a /\ a[j] = b[j]
                              /\ i \in DOMAIN a => a[i] < b[i]
    BY DEF FracLess
  <2>2. i \in Nat /\ i >= 1
    BY <1>1, <2>1
  <2>3. n >= i
    <3>1. SUFFICES ASSUME n < i PROVE FALSE
      BY <1>5, <2>2
    <3>2. n \in 1 .. i - 1
      BY <1>5, <2>2, <3>1
    <3> QED
      BY <1>4, <2>1, <3>2 DEF DigitAt
  <2>4. CASE i \in DOMAIN a
    <3>1. ~(i < n)
      <4>1. SUFFICES ASSUME i < n PROVE FALSE
        OBVIOUS
      <4>2. i \in 1 .. n - 1
        BY <1>5, <2>2, <4>1
      <4>3. a[i] = b[i] /\ a[i] < b[i]
        BY <1>4, <2>1, <2>4, <4>2 DEF DigitAt
      <4> QED
        BY <1>1, <2>1, <4>3
    <3>2. i = n
      BY <1>5, <2>2, <2>3, <3>1
    <3> QED
      BY <1>6, <2>1, <2>4, <3>2 DEF DigitAt
  <2>5. CASE i \notin DOMAIN a
    <3>1. n \notin DOMAIN a
      BY <1>1, <1>5, <2>2, <2>3, <2>5
    <3>2. x = 0
      BY <1>6, <3>1 DEF DigitAt
    <3> QED
      BY <1>1, <1>4, <1>6, <3>2
  <2> QED
    BY <2>4, <2>5
<1>9. CASE b[n] - x > 1
  <2>1. PICK r : r = Append(SubSeq(b, 1, n - 1), Mean(x, b[n]))
    OBVIOUS
  <2>2. Midpoint(a, b) = r
    BY <1>2, <1>3, <1>6, <1>9, <2>1 DEF Midpoint
  <2>3. Mean(x, b[n]) \in Nat /\ x < Mean(x, b[n]) /\ Mean(x, b[n]) < b[n]
    BY <1>1, <1>4, <1>7, <1>9, MeanFacts
  <2>4. Mean(x, b[n]) \in Digit
    BY <1>1, <1>4, <2>3, KeyAssumption DEF Digit
  <2>5. /\ r \in Seq(Digit) /\ Len(r) = n /\ r[n] = Mean(x, b[n])
        /\ \A j \in 1 .. n - 1 : r[j] = b[j]
    BY <1>1, <1>5, <2>1, <2>4, PrefixFacts
  <2>6. Proper(r)
    BY <1>5, <1>7, <2>3, <2>5, EmptySeq DEF Proper
  <2>7. n \in DOMAIN r /\ DOMAIN r = 1 .. n
    BY <1>5, <2>5, DigitFacts
  <2>8. FracLess(a, r)
    BY <1>4, <1>6, <2>3, <2>5, <2>7, GreaterAt
  <2>9. \A j \in 1 .. n - 1 : j \in DOMAIN r
    BY <1>5, <2>7
  <2>10. FracLess(r, b)
    BY <1>4, <2>3, <2>5, <2>7, <2>9 DEF FracLess
  <2> QED
    BY <2>2, <2>6, <2>8, <2>10
<1>10. CASE ~(b[n] - x > 1) /\ Len(b) > n
  <2>1. PICK r : r = SubSeq(b, 1, n)
    OBVIOUS
  <2>2. Midpoint(a, b) = r
    BY <1>2, <1>3, <1>6, <1>10, <2>1 DEF Midpoint
  <2>3. r \in Seq(Digit) /\ Len(r) = n /\ \A j \in 1 .. n : r[j] = b[j]
    <3>1. \A i \in 1 .. n : b[i] \in Digit
      BY <1>1, <1>5
    <3>2. /\ r \in Seq(Digit) /\ Len(r) = (IF 1 <= n THEN n - 1 + 1 ELSE 0)
          /\ \A i \in 1 .. n - 1 + 1 : r[i] = b[1 + i - 1]
      BY <1>5, <2>1, <3>1, SubSeqProperties
    <3> QED
      BY <1>5, <3>2
  <2>4. n \in DOMAIN r /\ DOMAIN r = 1 .. n /\ r[n] = b[n]
    BY <1>5, <2>3, DigitFacts
  <2>5. Proper(r)
    BY <1>1, <1>4, <1>5, <1>7, <1>8, <2>3, <2>4, EmptySeq DEF Proper
  <2>6. \A j \in 1 .. n - 1 : DigitAt(a, j) = r[j]
    BY <1>4, <1>5, <2>3
  <2>7. FracLess(a, r)
    BY <1>6, <1>8, <2>3, <2>4, <2>6, GreaterAt
  <2>8. PICK i : i = n + 1
    OBVIOUS
  <2>9. i \in DOMAIN b /\ i \notin DOMAIN r /\ \A j \in 1 .. i - 1 : j \in DOMAIN r /\ r[j] = b[j]
    BY <1>1, <1>5, <1>10, <2>3, <2>4, <2>8
  <2>10. FracLess(r, b)
    BY <2>9 DEF FracLess
  <2> QED
    BY <2>2, <2>5, <2>7, <2>10
<1>11. CASE ~(b[n] - x > 1) /\ ~(Len(b) > n)
  <2>1. PICK p : p = Append(SubSeq(b, 1, n - 1), x)
    OBVIOUS
  <2>2. PICK t : t = SubSeq(a, n + 1, Len(a))
    OBVIOUS
  <2>3. PICK u : u = MidpointAbove(t)
    OBVIOUS
  <2>4. PICK r : r = p \o u
    OBVIOUS
  <2>5. Midpoint(a, b) = r
    BY <1>2, <1>3, <1>6, <1>11, <2>1, <2>2, <2>3, <2>4 DEF Midpoint
  <2>6. /\ p \in Seq(Digit) /\ Len(p) = n /\ p[n] = x
        /\ \A j \in 1 .. n - 1 : p[j] = b[j]
    BY <1>1, <1>5, <1>7, <2>1, PrefixFacts
  <2>7. /\ t \in Seq(Digit) /\ Len(t) = (IF n + 1 <= Len(a) THEN Len(a) - n ELSE 0)
        /\ \A i \in 1 .. Len(a) - n : t[i] = a[n + i]
    <3>1. \A i \in n + 1 .. Len(a) : a[i] \in Digit
      BY <1>1, <1>5
    <3>2. /\ t \in Seq(Digit) /\ Len(t) = (IF n + 1 <= Len(a) THEN Len(a) - (n + 1) + 1 ELSE 0)
          /\ \A i \in 1 .. Len(a) - (n + 1) + 1 : t[i] = a[n + 1 + i - 1]
      BY <1>1, <1>5, <2>2, <3>1, SubSeqProperties
    <3>3. n + 1 <= Len(a) => Len(a) - (n + 1) + 1 = Len(a) - n
      BY <1>1, <1>5
    <3>4. ASSUME NEW i \in 1 .. Len(a) - n PROVE t[i] = a[n + i]
      <4>1. i \in 1 .. Len(a) - (n + 1) + 1 /\ n + 1 + i - 1 = n + i
        BY <1>1, <1>5, <3>4
      <4> QED
        BY <3>2, <4>1
    <3> QED
      BY <3>2, <3>3, <3>4
  <2>8. Proper(u) /\ Len(u) \in Nat /\ FracLess(t, u)
    BY <2>3, <2>7, MidpointAboveFacts
  <2>9. u \in Seq(Digit) /\ Len(u) >= 1 /\ u[Len(u)] # 0
    BY <2>8, EmptySeq DEF Proper
  <2>10. /\ r \in Seq(Digit) /\ Len(r) = n + Len(u)
         /\ \A i \in 1 .. n + Len(u) : r[i] = IF i <= n THEN p[i] ELSE u[i - n]
    BY <2>4, <2>6, <2>9, ConcatProperties
  <2>11. DOMAIN r = 1 .. n + Len(u) /\ n + Len(u) \in Nat
    BY <1>5, <2>8, <2>10, DigitFacts
  <2>12. Proper(r)
    <3>1. PICK m : m = n + Len(u)
      OBVIOUS
    <3>2. m \in 1 .. n + Len(u) /\ ~(m <= n) /\ m - n = Len(u)
      BY <1>5, <2>8, <2>9, <3>1
    <3>5. r[m] = u[m - n]
      BY <2>10, <3>2
    <3>3. r # <<>>
      BY <1>5, <2>8, <2>9, <2>10, EmptySeq
    <3>4. r[Len(r)] = u[Len(u)]
      BY <2>10, <3>1, <3>2, <3>5
    <3> QED
      BY <2>9, <2>10, <3>3, <3>4 DEF Proper
  <2>13. \A j \in 1 .. n : r[j] = DigitAt(a, j)
    <3> TAKE j \in 1 .. n
    <3>1. j \in 1 .. n + Len(u) /\ j <= n /\ (j = n \/ j \in 1 .. n - 1)
      BY <1>5, <2>8
    <3>2. r[j] = p[j]
      BY <2>10, <3>1
    <3> QED
      BY <1>4, <1>6, <2>6, <3>1, <3>2
  <2>14. FracLess(r, b)
    <3>1. n \in DOMAIN r /\ r[n] = x
      BY <1>5, <1>6, <2>8, <2>11, <2>13
    <3>2. \A j \in 1 .. n - 1 : j \in DOMAIN r /\ r[j] = b[j]
      BY <1>4, <1>5, <2>8, <2>11, <2>13
    <3> QED
      BY <1>4, <1>8, <3>1, <3>2 DEF FracLess
  <2>15. FracLess(a, r)
    <3>1. CASE Len(a) < n
      <4>1. n \in DOMAIN r /\ n > Len(a) /\ \A j \in 1 .. n - 1 : DigitAt(a, j) = r[j]
        BY <1>1, <1>5, <2>8, <2>11, <2>13, <3>1
      <4> QED
        BY <2>10, <4>1, GreaterAt
    <3>2. CASE Len(a) >= n
      <4>1. PICK i \in DOMAIN u : /\ \A j \in 1 .. i - 1 : j \in DOMAIN t /\ t[j] = u[j]
                                  /\ i \in DOMAIN t => t[i] < u[i]
        BY <2>8 DEF FracLess
      <4>2. Len(t) = Len(a) - n /\ DOMAIN t = 1 .. Len(a) - n /\ DOMAIN u = 1 .. Len(u) /\ i \in Nat /\ i >= 1 /\ i <= Len(u)
        <5>1. Len(t) = Len(a) - n
          <6>1. CASE n + 1 <= Len(a)
            BY <2>7, <6>1
          <6>2. CASE ~(n + 1 <= Len(a))
            <7>1. Len(a) - n = 0
              <8>1. Len(a) \in Nat /\ n \in Nat
                BY <1>1, <1>5
              <8> QED
                BY <3>2, <6>2, <8>1
            <7> QED
              BY <2>7, <6>2, <7>1
          <6> QED
            BY <6>1, <6>2
        <5>2. DOMAIN t = 1 .. Len(t) /\ DOMAIN u = 1 .. Len(u)
          BY <2>7, <2>9, DigitFacts
        <5> QED
          BY <2>8, <4>1, <5>1, <5>2
      <4>3. n + i \in DOMAIN r /\ r[n + i] = u[i]
        <5>1. PICK m : m = n + i
          OBVIOUS
        <5>2. m \in 1 .. n + Len(u) /\ ~(m <= n) /\ m - n = i
          BY <1>5, <2>8, <4>2, <5>1
        <5>3. r[m] = u[m - n]
          BY <2>10, <5>2
        <5> QED
          BY <2>11, <5>1, <5>2, <5>3
      <4>6. PICK m : m = n + i
        OBVIOUS
      <4>4. ASSUME NEW j \in 1 .. m - 1 PROVE j \in DOMAIN a /\ a[j] = r[j]
        <5>1. CASE j <= n
          <6>1. j \in 1 .. n /\ j \in DOMAIN a
            BY <1>1, <1>5, <3>2, <5>1
          <6> QED
            BY <2>13, <6>1 DEF DigitAt
        <5>2. CASE j > n
          <6>1. j - n \in 1 .. i - 1 /\ j - n \in Nat /\ n + (j - n) = j
            BY <1>5, <4>2, <4>6, <5>2
          <6>2. j - n \in DOMAIN t /\ t[j - n] = u[j - n]
            BY <4>1, <6>1
          <6>3. t[j - n] = a[n + (j - n)]
            BY <2>7, <4>2, <6>2
          <6>6. j \in DOMAIN a
            BY <1>1, <1>5, <4>2, <5>2, <6>1, <6>2
          <6>4. j \in 1 .. n + Len(u) /\ ~(j <= n)
            BY <1>5, <2>8, <4>2, <4>6, <5>2
          <6>5. r[j] = u[j - n]
            BY <2>10, <6>4
          <6> QED
            BY <6>1, <6>2, <6>3, <6>5, <6>6
        <5> QED
          BY <1>5, <4>2, <4>6, <5>1, <5>2
      <4>5. ASSUME n + i \in DOMAIN a PROVE a[n + i] < r[n + i]
        <5>1. i \in 1 .. Len(a) - n
          BY <1>1, <1>5, <4>2, <4>5
        <5>2. t[i] = a[n + i] /\ t[i] < u[i]
          BY <2>7, <4>1, <4>2, <5>1
        <5> QED
          BY <4>3, <5>2
      <4>8. m \in DOMAIN r
        BY <4>3, <4>6
      <4>9. m \in DOMAIN a => a[m] < r[m]
        BY <4>5, <4>6
      <4>10. \A j \in 1 .. m - 1 : j \in DOMAIN a /\ a[j] = r[j]
        BY <4>4
      <4>7. /\ m \in DOMAIN r /\ \A j \in 1 .. m - 1 : j \in DOMAIN a /\ a[j] = r[j]
            /\ m \in DOMAIN a => a[m] < r[m]
        BY <4>8, <4>9, <4>10
      <4> QED
        BY <4>7 DEF FracLess
    <3> QED
      BY <1>1, <1>5, <3>1, <3>2
  <2> QED
    BY <2>5, <2>12, <2>14, <2>15
<1> QED
  BY <1>9, <1>10, <1>11


\* A fraction is empty or proper, and the empty one is the least.
LEMMA FractionFacts ==
  /\ <<>> \in Fraction /\ \A f : f \in Fraction <=> f = <<>> \/ Proper(f)
  /\ \A f : Proper(f) => FracLess(<<>>, f)
<1>1. <<>> \in Fraction /\ \A f : f \in Fraction <=> f = <<>> \/ Proper(f)
  BY DEF Fraction, Proper
<1>2. ASSUME NEW f, Proper(f) PROVE FracLess(<<>>, f)
  <2>1. 1 \in DOMAIN f
    BY <1>2, DigitFacts, EmptySeq DEF Proper
  <2>2. 1 \notin DOMAIN <<>>
    OBVIOUS
  <2> QED
    BY <2>1, <2>2 DEF FracLess
<1> QED
  BY <1>1, <1>2

\* An integer of the range alone is a key.
LEMMA WholeFacts ==
  ASSUME NEW i \in Int, i >= Smallest, i <= -Smallest
  PROVE  Whole(i) \in Key /\ Whole(i).int = i /\ Whole(i).frac = <<>>
<1>1. i \in Smallest .. -Smallest
  BY KeyAssumption
<1> QED
  BY <1>1, FractionFacts DEF Whole, Key

\* An integer of the range with a proper fraction is a valid key.
LEMMA MadeKey ==
  ASSUME NEW i \in Int, i >= Smallest, i <= -Smallest, NEW f, Proper(f)
  PROVE  [int |-> i, frac |-> f] \in Key /\ [int |-> i, frac |-> f] # Whole(Smallest)
<1>1. i \in Smallest .. -Smallest
  BY KeyAssumption
<1>2. [int |-> i, frac |-> f] \in Key
  BY <1>1, FractionFacts DEF Key
<1>3. f # <<>>
  BY DEF Proper
<1> QED
  BY <1>2, <1>3 DEF Whole

\* keyBetween before a key issues a lesser one.  It may be the smallest integer alone, which is no bound again.
LEMMA BelowFacts ==
  ASSUME NEW b \in Key, Valid(b)
  PROVE  KeyBelow(b) \in Key /\ KeyLess(KeyBelow(b), b)
<1>1. /\ b.int \in Int /\ b.int >= Smallest /\ b.int <= -Smallest /\ b.frac \in Fraction /\ b.frac \in Seq(Digit)
      /\ b = [int |-> b.int, frac |-> b.frac] /\ Smallest \in Int /\ Smallest < 0
  BY KeyFacts, KeyAssumption
<1>2. b.frac = <<>> \/ Proper(b.frac)
  BY <1>1, FractionFacts
<1>3. CASE b.int = Smallest
  <2>1. b.frac # <<>>
    BY <1>1, <1>3 DEF Valid, Whole
  <2>2. Proper(b.frac) /\ FracLess(<<>>, b.frac)
    BY <1>2, <2>1, FractionFacts
  <2>3. <<>> \in Seq(Digit)
    BY EmptySeq
  <2>4. Proper(Midpoint(<<>>, b.frac)) /\ FracLess(Midpoint(<<>>, b.frac), b.frac)
    BY <2>2, <2>3, MidpointFacts
  <2>5. KeyBelow(b) = [int |-> b.int, frac |-> Midpoint(<<>>, b.frac)]
    BY <1>3 DEF KeyBelow
  <2>6. KeyBelow(b) \in Key
    BY <1>1, <2>4, <2>5, MadeKey
  <2> QED
    BY <2>4, <2>5, <2>6 DEF KeyLess
<1>4. CASE b.int # Smallest /\ b.frac # <<>>
  <2>1. KeyBelow(b) = Whole(b.int)
    BY <1>4 DEF KeyBelow
  <2>2. FracLess(<<>>, b.frac)
    BY <1>2, <1>4, FractionFacts
  <2>3. Whole(b.int) \in Key /\ Whole(b.int).int = b.int /\ Whole(b.int).frac = <<>>
    BY <1>1, WholeFacts
  <2> QED
    BY <2>1, <2>2, <2>3 DEF KeyLess
<1>5. CASE b.int # Smallest /\ b.frac = <<>>
  <2>1. KeyBelow(b) = Whole(b.int - 1)
    BY <1>5 DEF KeyBelow, DecrementInteger
  <2>2. b.int - 1 \in Int /\ b.int - 1 >= Smallest /\ b.int - 1 <= -Smallest
    BY <1>1, <1>5
  <2>3. Whole(b.int - 1) \in Key /\ Whole(b.int - 1).int = b.int - 1
    BY <2>2, WholeFacts
  <2>4. Whole(b.int - 1).int < b.int
    BY <1>1, <2>3
  <2> QED
    BY <2>1, <2>3, <2>4 DEF KeyLess
<1> QED
  BY <1>3, <1>4, <1>5

\* keyBetween behind a key issues a greater valid one, also where the integers end.
LEMMA AboveFacts ==
  ASSUME NEW a \in Key
  PROVE  KeyAbove(a) \in Key /\ KeyLess(a, KeyAbove(a)) /\ Valid(KeyAbove(a))
<1>1. /\ a.int \in Int /\ a.int >= Smallest /\ a.int <= -Smallest /\ a.frac \in Seq(Digit)
      /\ Smallest \in Int /\ Smallest < 0
  BY KeyFacts, KeyAssumption
<1>2. CASE IncrementInteger(a.int) = Open
  <2>1. Proper(MidpointAbove(a.frac)) /\ FracLess(a.frac, MidpointAbove(a.frac))
    BY <1>1, MidpointAboveFacts
  <2>2. KeyAbove(a) = [int |-> a.int, frac |-> MidpointAbove(a.frac)]
    BY <1>1, <1>2, MidpointOpen DEF KeyAbove
  <2>3. KeyAbove(a) \in Key /\ KeyAbove(a) # Whole(Smallest)
    BY <1>1, <2>1, <2>2, MadeKey
  <2> QED
    BY <2>1, <2>2, <2>3 DEF KeyLess, Valid
<1>3. CASE IncrementInteger(a.int) # Open
  <2>1. IncrementInteger(a.int) = a.int + 1 /\ a.int # -Smallest
    BY <1>3 DEF IncrementInteger
  <2>2. a.int + 1 \in Int /\ a.int + 1 > Smallest /\ a.int + 1 >= Smallest /\ a.int + 1 <= -Smallest
    BY <1>1, <2>1
  <2>3. Whole(a.int + 1) \in Key /\ Whole(a.int + 1).int = a.int + 1
    BY <2>2, WholeFacts
  <2>4. a.int < Whole(a.int + 1).int
    BY <1>1, <2>3
  <2>5. KeyAbove(a) = Whole(a.int + 1)
    BY <1>3, <2>1 DEF KeyAbove
  <2>6. Whole(Smallest).int = Smallest
    BY <1>1, WholeFacts
  <2>7. Whole(a.int + 1) # Whole(Smallest)
    BY <1>1, <2>2, <2>3, <2>6
  <2> QED
    BY <2>3, <2>4, <2>5, <2>7 DEF KeyLess, Valid
<1> QED
  BY <1>2, <1>3

\* keyBetween of two keys issues one strictly between them.
LEMMA InsideFacts ==
  ASSUME NEW a \in Key, NEW b \in Key, KeyLess(a, b)
  PROVE  KeyInside(a, b) \in Key /\ KeyLess(a, KeyInside(a, b)) /\ KeyLess(KeyInside(a, b), b)
<1>1. /\ a.int \in Int /\ a.int >= Smallest /\ a.int <= -Smallest /\ a.frac \in Seq(Digit)
      /\ b.int \in Int /\ b.int >= Smallest /\ b.int <= -Smallest /\ b.frac \in Seq(Digit) /\ b.frac \in Fraction
      /\ Smallest \in Int /\ Smallest < 0
  BY KeyFacts, KeyAssumption
<1>2. CASE a.int = b.int
  <2>1. FracLess(a.frac, b.frac)
    BY <1>1, <1>2 DEF KeyLess
  <2>2. b.frac # <<>>
    BY <2>1 DEF FracLess
  <2>3. Proper(b.frac)
    BY <1>1, <2>2, FractionFacts
  <2>4. /\ Proper(Midpoint(a.frac, b.frac)) /\ FracLess(a.frac, Midpoint(a.frac, b.frac))
        /\ FracLess(Midpoint(a.frac, b.frac), b.frac)
    BY <1>1, <2>1, <2>3, MidpointFacts
  <2>5. KeyInside(a, b) = [int |-> a.int, frac |-> Midpoint(a.frac, b.frac)]
    BY <1>2 DEF KeyInside
  <2>6. KeyInside(a, b) \in Key
    BY <1>1, <2>4, <2>5, MadeKey
  <2> QED
    BY <1>2, <2>4, <2>5, <2>6 DEF KeyLess
<1>3. CASE a.int # b.int
  <2>1. a.int < b.int
    BY <1>3 DEF KeyLess
  <2>2. a.int # -Smallest
    BY <1>1, <2>1
  <2>3. IncrementInteger(a.int) = a.int + 1
    BY <2>2 DEF IncrementInteger
  <2>4. CASE KeyLess(Whole(a.int + 1), b)
    <3>1. KeyInside(a, b) = Whole(a.int + 1)
      BY <1>3, <2>3, <2>4 DEF KeyInside
    <3>2. a.int + 1 \in Int /\ a.int + 1 >= Smallest /\ a.int + 1 <= -Smallest
      BY <1>1, <2>2
    <3>3. Whole(a.int + 1) \in Key /\ Whole(a.int + 1).int = a.int + 1
      BY <3>2, WholeFacts
    <3>4. a.int < Whole(a.int + 1).int
      BY <1>1, <3>3
    <3>5. KeyLess(a, Whole(a.int + 1))
      BY <3>4 DEF KeyLess
    <3> QED
      BY <2>4, <3>1, <3>3, <3>5
  <2>5. CASE ~KeyLess(Whole(a.int + 1), b)
    <3>1. KeyInside(a, b) = [int |-> a.int, frac |-> MidpointAbove(a.frac)]
      BY <1>1, <1>3, <2>3, <2>5, MidpointOpen DEF KeyInside
    <3>2. Proper(MidpointAbove(a.frac)) /\ FracLess(a.frac, MidpointAbove(a.frac))
      BY <1>1, MidpointAboveFacts
    <3>3. KeyInside(a, b) \in Key
      BY <1>1, <3>1, <3>2, MadeKey
    <3> QED
      BY <2>1, <3>1, <3>2, <3>3 DEF KeyLess
  <2> QED
    BY <2>4, <2>5
<1> QED
  BY <1>2, <1>3

\* A key issued between two bounds.
LEMMA KeyBetweenFacts ==
  ASSUME NEW a \in Bound, NEW b \in Bound, Usable(a, b)
  PROVE  /\ KeyBetween(a, b) \in Key
         /\ a # Open => KeyLess(a, KeyBetween(a, b))
         /\ b # Open => KeyLess(KeyBetween(a, b), b)
         /\ b = Open => Valid(KeyBetween(a, b))
<1>1. (a # Open => a \in Key) /\ (b # Open => b \in Key) /\ Valid(a) /\ Valid(b)
  BY DEF Bound, Usable
<1>2. CASE a = Open /\ b = Open
  <2>1. KeyBetween(a, b) = Whole(0)
    BY <1>2 DEF KeyBetween
  <2>2. Smallest \in Int /\ Smallest < 0
    BY KeyAssumption
  <2>3. Whole(0) \in Key /\ Whole(0).int = 0 /\ Whole(Smallest).int = Smallest
    BY <2>2, WholeFacts
  <2> QED
    BY <1>2, <2>1, <2>2, <2>3 DEF Valid
<1>3. CASE a = Open /\ b # Open
  <2>1. KeyBetween(a, b) = KeyBelow(b)
    BY <1>3 DEF KeyBetween
  <2> QED
    BY <1>1, <1>3, <2>1, BelowFacts
<1>4. CASE a # Open /\ b = Open
  <2>1. KeyBetween(a, b) = KeyAbove(a)
    BY <1>4 DEF KeyBetween
  <2> QED
    BY <1>1, <1>4, <2>1, AboveFacts
<1>5. CASE a # Open /\ b # Open
  <2>1. KeyBetween(a, b) = KeyInside(a, b)
    BY <1>5 DEF KeyBetween
  <2>2. KeyLess(a, b)
    BY <1>5 DEF Usable
  <2> QED
    BY <1>1, <1>5, <2>1, <2>2, InsideFacts
<1> QED
  BY <1>2, <1>3, <1>4, <1>5


\* The keys of a length depend on those of lesser lengths only.
LEMMA StepAgrees ==
  ASSUME NEW f, NEW g, NEW m \in Nat, \A i \in 0 .. m - 1 : f[i] = g[i]
  PROVE  Spread(f, m) = Spread(g, m)
<1>1. CASE m = 0
  <2>1. Spread(f, m) = [e \in Bound \X Bound |-> <<>>]
    BY <1>1 DEF Spread
  <2>2. Spread(g, m) = [e \in Bound \X Bound |-> <<>>]
    BY <1>1 DEF Spread
  <2> QED
    BY <2>1, <2>2
<1>2. CASE m # 0
  <2>1. m - 1 \in 0 .. m - 1 /\ m \div 2 \in 0 .. m - 1 /\ m - m \div 2 - 1 \in 0 .. m - 1
    BY <1>2
  <2>2. f[m - 1] = g[m - 1] /\ f[m \div 2] = g[m \div 2] /\ f[m - m \div 2 - 1] = g[m - m \div 2 - 1]
    BY <2>1
  <2>3. ASSUME NEW x, NEW y, NEW k PROVE Around(f, m, x, y, k) = Around(g, m, x, y, k)
    BY <2>2 DEF Around
  <2> QED
    BY <2>3 DEF Spread
<1> QED
  BY <1>1, <1>2

\* The recursive function of KeysBetween: lists of every length up to n follow from the shorter ones by Spread.
LEMMA KeysUnfold ==
  ASSUME NEW n \in Nat
  PROVE  \E keys : /\ \A m \in 0 .. n : keys[m] = Spread(keys, m)
                   /\ \A a, b : KeysBetween(a, b, n) = keys[n][<<a, b>>]
<1> DEFINE Is(f) == f = [m \in 0 .. n |-> Spread(f, m)]
           Upto(f, k) == \A m \in 0 .. n : m <= k => f[m] = Spread(f, m)
           Bad == {k \in Nat : ~\E f : Upto(f, k)}
<1>1. \A k \in Nat : \E f : Upto(f, k)
  <2>1. SUFFICES ASSUME Bad # {} PROVE FALSE
    OBVIOUS
  <2>2. PICK k \in Bad : \A m \in Bad : k <= m
    <3>1. Bad \subseteq Nat
      OBVIOUS
    <3> HIDE DEF Bad
    <3> QED
      BY <2>1, <3>1, LeastExists
  <2>3. k \in Nat /\ ~\E f : Upto(f, k)
    OBVIOUS
  <2>4. PICK f : k # 0 => Upto(f, k - 1)
    <3>1. CASE k = 0
      BY <3>1
    <3>2. CASE k # 0
      <4>1. k - 1 \in Nat /\ ~(k <= k - 1)
        BY <2>3, <3>2
      <4>2. k - 1 \notin Bad
        <5> HIDE DEF Bad
        <5> QED
          BY <2>2, <4>1
      <4> QED
        BY <4>1, <4>2
    <3> QED
      BY <3>1, <3>2
  <2>5. PICK g : g = [m \in 0 .. n |-> Spread(f, m)]
    OBVIOUS
  <2>6. ASSUME NEW m \in 0 .. n, m <= k PROVE g[m] = Spread(g, m)
    <3>1. ASSUME NEW i \in 0 .. m - 1 PROVE f[i] = g[i]
      <4>1. i \in 0 .. n /\ i <= k - 1 /\ k # 0
        BY <2>3, <2>6
      <4> QED
        BY <2>4, <2>5, <4>1
    <3>2. m \in Nat
      OBVIOUS
    <3>3. Spread(f, m) = Spread(g, m)
      BY <3>1, <3>2, StepAgrees
    <3> QED
      BY <2>5, <3>3
  <2> QED
    BY <2>3, <2>6
<1>2. \E f : Is(f)
  <2>1. PICK f : Upto(f, n)
    BY <1>1
  <2>2. PICK g : g = [m \in 0 .. n |-> f[m]]
    OBVIOUS
  <2>3. ASSUME NEW m \in 0 .. n PROVE g[m] = Spread(g, m)
    <3>1. m \in Nat /\ m <= n /\ \A i \in 0 .. m - 1 : i \in 0 .. n
      OBVIOUS
    <3>2. \A i \in 0 .. m - 1 : f[i] = g[i]
      BY <2>2, <3>1
    <3>3. Spread(f, m) = Spread(g, m)
      BY <3>1, <3>2, StepAgrees
    <3>4. f[m] = Spread(f, m)
      BY <2>1, <3>1
    <3> QED
      BY <2>2, <3>3, <3>4
  <2>4. g = [m \in 0 .. n |-> Spread(g, m)]
    <3>1. [m \in 0 .. n |-> Spread(g, m)] = [m \in 0 .. n |-> g[m]]
      BY <2>3
    <3> QED
      BY <2>2, <3>1
  <2> QED
    BY <2>4
<1>3. PICK keys : keys = CHOOSE f : Is(f)
  OBVIOUS
<1>4. Is(keys)
  BY <1>2, <1>3
<1>5. \A a, b : KeysBetween(a, b, n) = keys[n][<<a, b>>]
  BY <1>3 DEF KeysBetween
<1>6. \A m \in 0 .. n : keys[m] = Spread(keys, m)
  BY <1>4
<1> QED
  BY <1>5, <1>6

\* Keys that rise between two bounds.
Rises(keys, x, y, m) ==
  /\ keys \in Seq(Key) /\ Len(keys) = m
  /\ \A i, j \in 1 .. m : i < j => KeyLess(keys[i], keys[j])
  /\ \A i \in 1 .. m : (x # Open => KeyLess(x, keys[i])) /\ (y # Open => KeyLess(keys[i], y))

\* No keys lie between any bounds.
LEMMA RisesNone == ASSUME NEW x, NEW y PROVE Rises(<<>>, x, y, 0)
  BY EmptySeq DEF Rises

\* Keys up to one in the middle, that one, and keys from there on.
LEMMA RisesJoin ==
  ASSUME NEW x \in Bound, NEW y \in Bound, NEW k \in Key,
         x # Open => KeyLess(x, k), y # Open => KeyLess(k, y),
         NEW m \in Nat, NEW n \in Nat, NEW f, NEW g, Rises(f, x, k, m), Rises(g, k, y, n)
  PROVE  Rises((f \o <<k>>) \o g, x, y, m + 1 + n)
<1> DEFINE h == f \o <<k>>
           r == h \o g
<1>1. f \in Seq(Key) /\ Len(f) = m /\ g \in Seq(Key) /\ Len(g) = n /\ <<k>> \in Seq(Key) /\ Len(<<k>>) = 1 /\ <<k>>[1] = k
  BY DEF Rises
<1>2. k # Open /\ (x # Open => x \in Key) /\ (y # Open => y \in Key)
  BY OpenAssumption DEF Bound
<1>3. h \in Seq(Key) /\ Len(h) = m + 1 /\ \A i \in 1 .. m + 1 : h[i] = IF i <= m THEN f[i] ELSE <<k>>[i - m]
  BY <1>1, ConcatProperties
<1> HIDE DEF h
<1>4. /\ r \in Seq(Key) /\ Len(r) = m + 1 + n
      /\ \A i \in 1 .. m + 1 + n : r[i] = IF i <= m + 1 THEN h[i] ELSE g[i - (m + 1)]
  <2>1. /\ r \in Seq(Key) /\ Len(r) = Len(h) + Len(g)
        /\ \A i \in 1 .. Len(h) + Len(g) : r[i] = IF i <= Len(h) THEN h[i] ELSE g[i - Len(h)]
    <3>1. h \in Seq(Key) /\ g \in Seq(Key)
      BY <1>1, <1>3
    <3> QED
      BY <3>1, ConcatProperties
  <2> HIDE DEF r
  <2> QED
    BY <1>1, <1>3, <2>1
<1> HIDE DEF r
<1>5. \A i \in 1 .. m + 1 + n :
        \/ i \in 1 .. m /\ r[i] = f[i]
        \/ i = m + 1 /\ r[i] = k
        \/ \E j \in 1 .. n : i = m + 1 + j /\ r[i] = g[j]
  <2> TAKE i \in 1 .. m + 1 + n
  <2>1. CASE i <= m
    <3>1. i \in 1 .. m /\ i \in 1 .. m + 1
      BY <2>1
    <3> QED
      BY <1>3, <1>4, <2>1, <3>1
  <2>2. CASE i = m + 1
    <3>1. i \in 1 .. m + 1 /\ ~(i <= m) /\ i - m = 1
      BY <2>2
    <3> QED
      BY <1>1, <1>3, <1>4, <2>2, <3>1
  <2>3. CASE i > m + 1
    <3>1. PICK j : j = i - (m + 1)
      OBVIOUS
    <3>2. j \in 1 .. n /\ i = m + 1 + j /\ ~(i <= m + 1)
      BY <2>3, <3>1
    <3>3. r[i] = g[j]
      BY <1>4, <3>1, <3>2
    <3> QED
      BY <3>2, <3>3
  <2> QED
    BY <2>1, <2>2, <2>3
<1>6. /\ \A i \in 1 .. m : f[i] \in Key /\ KeyLess(f[i], k) /\ (x # Open => KeyLess(x, f[i]))
      /\ \A i \in 1 .. n : g[i] \in Key /\ KeyLess(k, g[i]) /\ (y # Open => KeyLess(g[i], y))
      /\ \A i, j \in 1 .. m : i < j => KeyLess(f[i], f[j])
      /\ \A i, j \in 1 .. n : i < j => KeyLess(g[i], g[j])
  BY <1>1, <1>2, ElementOfSeq DEF Rises
<1>7. ASSUME NEW i \in 1 .. m + 1 + n
      PROVE  (x # Open => KeyLess(x, r[i])) /\ (y # Open => KeyLess(r[i], y))
  <2>1. CASE i \in 1 .. m /\ r[i] = f[i]
    BY <1>2, <1>6, <2>1, KeyOrder
  <2>2. CASE i = m + 1 /\ r[i] = k
    BY <2>2
  <2>3. CASE \E j \in 1 .. n : i = m + 1 + j /\ r[i] = g[j]
    BY <1>2, <1>6, <2>3, KeyOrder
  <2> QED
    BY <1>5, <2>1, <2>2, <2>3
<1>8. ASSUME NEW i \in 1 .. m + 1 + n, NEW j \in 1 .. m + 1 + n, i < j
      PROVE  KeyLess(r[i], r[j])
  <2>1. CASE i \in 1 .. m /\ r[i] = f[i]
    <3>1. CASE j \in 1 .. m /\ r[j] = f[j]
      BY <1>6, <1>8, <2>1, <3>1
    <3>2. CASE j = m + 1 /\ r[j] = k
      BY <1>6, <2>1, <3>2
    <3>3. CASE \E l \in 1 .. n : j = m + 1 + l /\ r[j] = g[l]
      BY <1>6, <2>1, <3>3, KeyOrder
    <3> QED
      BY <1>5, <3>1, <3>2, <3>3
  <2>2. CASE i = m + 1 /\ r[i] = k
    <3>1. CASE j \in 1 .. m /\ r[j] = f[j]
      BY <1>8, <2>2, <3>1
    <3>2. CASE j = m + 1 /\ r[j] = k
      BY <1>8, <2>2, <3>2
    <3>3. CASE \E l \in 1 .. n : j = m + 1 + l /\ r[j] = g[l]
      BY <1>6, <2>2, <3>3
    <3> QED
      BY <1>5, <3>1, <3>2, <3>3
  <2>3. CASE \E l \in 1 .. n : i = m + 1 + l /\ r[i] = g[l]
    <3>1. CASE j \in 1 .. m /\ r[j] = f[j]
      BY <1>8, <2>3, <3>1
    <3>2. CASE j = m + 1 /\ r[j] = k
      BY <1>8, <2>3, <3>2
    <3>3. CASE \E l \in 1 .. n : j = m + 1 + l /\ r[j] = g[l]
      <4>1. PICK p \in 1 .. n : i = m + 1 + p /\ r[i] = g[p]
        BY <2>3
      <4>2. PICK q \in 1 .. n : j = m + 1 + q /\ r[j] = g[q]
        BY <3>3
      <4>3. p < q
        BY <1>8, <4>1, <4>2
      <4> QED
        BY <1>6, <4>1, <4>2, <4>3
    <3> QED
      BY <1>5, <3>1, <3>2, <3>3
  <2> QED
    BY <1>5, <2>1, <2>2, <2>3
<1>9. Rises(r, x, y, m + 1 + n)
  BY <1>4, <1>7, <1>8 DEF Rises
<1> QED
  BY <1>9 DEF r, h


\* The keys between any two bounds are what they should be, if none of them is Open.
Spreads(keys, m) ==
  \A x, y \in Bound :
    /\ keys[m][<<x, y>>] \in Seq(Bound)
    /\ Open \notin Range(keys[m][<<x, y>>]) => Rises(keys[m][<<x, y>>], x, y, m)
    /\ y = Open /\ Valid(x) => Open \notin Range(keys[m][<<x, y>>])

\* If the shorter lists are right, the next one is: as many rising keys as asked for, strictly between the
\* bounds, or Open.
LEMMA SpreadStep ==
  ASSUME NEW keys, NEW m \in Nat, keys[m] = Spread(keys, m), \A i \in 0 .. m - 1 : Spreads(keys, i)
  PROVE  Spreads(keys, m)
<1> SUFFICES ASSUME NEW x \in Bound, NEW y \in Bound
             PROVE  /\ keys[m][<<x, y>>] \in Seq(Bound)
                    /\ Open \notin Range(keys[m][<<x, y>>]) => Rises(keys[m][<<x, y>>], x, y, m)
                    /\ y = Open /\ Valid(x) => Open \notin Range(keys[m][<<x, y>>])
  BY DEF Spreads
<1>1. PICK k : k = KeyBetween(x, y)
  OBVIOUS
<1>2. PICK r : r = keys[m][<<x, y>>]
  OBVIOUS
<1>3. r = IF m = 0 THEN <<>>
          ELSE IF ~Usable(x, y) THEN <<Open>>
          ELSE IF y = Open THEN <<k>> \o keys[m - 1][<<k, Open>>]
          ELSE IF x = Open THEN Append(keys[m - 1][<<Open, k>>], k)
          ELSE keys[m \div 2][<<x, k>>] \o <<k>> \o keys[m - m \div 2 - 1][<<k, y>>]
  <2>1. r = IF m = 0 THEN <<>> ELSE IF ~Usable(x, y) THEN <<Open>> ELSE Around(keys, m, x, y, k)
    BY <1>1, <1>2 DEF Spread
  <2> QED
    BY <2>1 DEF Around
<1>12. PICK one : one = <<k>>
  OBVIOUS
<1>4. Open \in Bound /\ Open \notin Key /\ Key \subseteq Bound
  BY OpenAssumption DEF Bound
<1>5. SUFFICES /\ r \in Seq(Bound)
               /\ Open \notin Range(r) => Rises(r, x, y, m)
               /\ y = Open /\ Valid(x) => Open \notin Range(r)
  BY <1>2
<1>6. CASE m = 0
  <2>1. r = <<>>
    BY <1>3, <1>6
  <2>2. Range(r) = {}
    BY <2>1 DEF Range
  <2> QED
    BY <1>6, <2>1, <2>2, EmptySeq, RisesNone
<1>7. CASE m > 0 /\ ~Usable(x, y)
  <2>1. r = <<Open>>
    BY <1>3, <1>7
  <2>2. Open \in Range(r) /\ r \in Seq(Bound)
    BY <1>4, <2>1 DEF Range
  <2>3. ~(y = Open /\ Valid(x))
    <3>1. Smallest \in Int /\ Smallest >= Smallest /\ Smallest <= -Smallest
      BY KeyAssumption
    <3>2. Open # Whole(Smallest)
      BY <1>4, <3>1, WholeFacts
    <3> QED
      BY <1>7, <3>2 DEF Usable, Valid
  <2> QED
    BY <2>2, <2>3
<1>8. ASSUME m > 0, Usable(x, y)
      PROVE  /\ k \in Key /\ k \in Bound /\ one \in Seq(Bound) /\ Range(one) = {k} /\ k # Open
             /\ x # Open => KeyLess(x, k)
             /\ y # Open => KeyLess(k, y)
             /\ y = Open => Valid(k)
  <2>1. /\ k \in Key
        /\ x # Open => KeyLess(x, k)
        /\ y # Open => KeyLess(k, y)
        /\ y = Open => Valid(k)
    BY <1>1, <1>8, KeyBetweenFacts
  <2>2. k \in Bound /\ k # Open /\ one \in Seq(Bound) /\ Range(one) = {k}
    BY <1>4, <1>12, <2>1 DEF Range
  <2> QED
    BY <2>1, <2>2
<1>9. CASE m > 0 /\ Usable(x, y) /\ y = Open
  <2>20. k \in Key /\ k \in Bound /\ one \in Seq(Bound) /\ Range(one) = {k} /\ k # Open
    BY <1>8, <1>9
  <2>1. PICK g : g = keys[m - 1][<<k, Open>>]
    OBVIOUS
  <2>2. r = one \o g
    BY <1>3, <1>12, <1>9, <2>1
  <2>3. m - 1 \in 0 .. m - 1 /\ m - 1 \in Nat
    BY <1>9
  <2>4. /\ g \in Seq(Bound)
        /\ Open \notin Range(g) => Rises(g, k, Open, m - 1)
        /\ Valid(k) => Open \notin Range(g)
    BY <1>4, <1>8, <1>9, <2>1, <2>3 DEF Spreads
  <2>5. Range(r) = {k} \cup Range(g) /\ r \in Seq(Bound)
    BY <2>20, <2>2, <2>4, RangeConcatenation, ConcatProperties
  <2>6. ASSUME Open \notin Range(r) PROVE Rises(r, x, y, m)
    <3>1. Rises(g, k, y, m - 1)
      BY <1>9, <2>4, <2>5, <2>6
    <3>2. <<>> \o one = one
      BY <2>20, ConcatEmptySeq
    <3>3. Rises(<<>>, x, k, 0)
      BY RisesNone
    <3>4. Rises((<<>> \o one) \o g, x, y, 0 + 1 + (m - 1))
      BY <1>12, <1>8, <1>9, <2>3, <3>1, <3>3, RisesJoin
    <3>5. 0 + 1 + (m - 1) = m
      BY <1>9
    <3> QED
      BY <2>2, <3>2, <3>4, <3>5
  <2> QED
    BY <1>8, <1>9, <2>4, <2>5, <2>6
<1>10. CASE m > 0 /\ Usable(x, y) /\ y # Open /\ x = Open
  <2>20. k \in Key /\ k \in Bound /\ one \in Seq(Bound) /\ Range(one) = {k} /\ k # Open
    BY <1>8, <1>10
  <2>1. PICK f : f = keys[m - 1][<<Open, k>>]
    OBVIOUS
  <2>2. r = Append(f, k)
    BY <1>3, <1>10, <2>1
  <2>3. m - 1 \in 0 .. m - 1 /\ m - 1 \in Nat
    BY <1>10
  <2>4. /\ f \in Seq(Bound)
        /\ Open \notin Range(f) => Rises(f, Open, k, m - 1)
    BY <1>4, <1>8, <1>10, <2>1, <2>3 DEF Spreads
  <2>5. r = f \o one
    BY <1>12, <2>20, <2>2, <2>4, AppendIsConcat
  <2>6. Range(r) = Range(f) \cup {k} /\ r \in Seq(Bound)
    BY <2>20, <2>4, <2>5, RangeConcatenation, ConcatProperties
  <2>7. ASSUME Open \notin Range(r) PROVE Rises(r, x, y, m)
    <3>1. Rises(f, x, k, m - 1)
      BY <1>10, <2>4, <2>6, <2>7
    <3>2. r \o <<>> = r
      BY <2>6, ConcatEmptySeq
    <3>3. Rises(<<>>, k, y, 0)
      BY RisesNone
    <3>4. Rises((f \o one) \o <<>>, x, y, (m - 1) + 1 + 0)
      BY <1>12, <1>8, <1>10, <2>3, <3>1, <3>3, RisesJoin
    <3>5. (m - 1) + 1 + 0 = m
      BY <1>10
    <3> QED
      BY <2>5, <3>2, <3>4, <3>5
  <2> QED
    BY <1>10, <2>6, <2>7
<1>11. CASE m > 0 /\ Usable(x, y) /\ y # Open /\ x # Open
  <2>20. k \in Key /\ k \in Bound /\ one \in Seq(Bound) /\ Range(one) = {k} /\ k # Open
    BY <1>8, <1>11
  <2>1. PICK f : f = keys[m \div 2][<<x, k>>]
    OBVIOUS
  <2>2. PICK g : g = keys[m - m \div 2 - 1][<<k, y>>]
    OBVIOUS
  <2>3. PICK h : h = f \o one
    OBVIOUS
  <2>4. r = h \o g
    <3>1. m # 0 /\ Usable(x, y) /\ y # Open /\ x # Open
      BY <1>11
    <3> QED
      BY <1>3, <1>12, <2>1, <2>2, <2>3, <3>1, Zenon
  <2>5. /\ m \div 2 \in 0 .. m - 1 /\ m - m \div 2 - 1 \in 0 .. m - 1
        /\ m \div 2 \in Nat /\ m - m \div 2 - 1 \in Nat /\ m \div 2 + 1 + (m - m \div 2 - 1) = m
    BY <1>11
  <2>6. /\ f \in Seq(Bound)
        /\ Open \notin Range(f) => Rises(f, x, k, m \div 2)
    BY <1>8, <1>11, <2>1, <2>5 DEF Spreads
  <2>7. /\ g \in Seq(Bound)
        /\ Open \notin Range(g) => Rises(g, k, y, m - m \div 2 - 1)
    BY <1>8, <1>11, <2>2, <2>5 DEF Spreads
  <2>8. Range(h) = Range(f) \cup {k} /\ h \in Seq(Bound)
    BY <2>20, <2>3, <2>6, RangeConcatenation, ConcatProperties
  <2>9. Range(r) = Range(h) \cup Range(g) /\ r \in Seq(Bound)
    BY <2>4, <2>7, <2>8, RangeConcatenation, ConcatProperties
  <2>10. ASSUME Open \notin Range(r) PROVE Rises(r, x, y, m)
    <3>1. Rises(f, x, k, m \div 2) /\ Rises(g, k, y, m - m \div 2 - 1)
      BY <2>6, <2>7, <2>8, <2>9, <2>10
    <3>2. PICK p, q : p = m \div 2 /\ q = m - m \div 2 - 1
      OBVIOUS
    <3>3. p \in Nat /\ q \in Nat /\ p + 1 + q = m
      BY <2>5, <3>2
    <3>4. Rises((f \o one) \o g, x, y, p + 1 + q)
      BY <1>12, <1>8, <1>11, <3>1, <3>2, <3>3, RisesJoin
    <3> QED
      BY <2>3, <2>4, <3>3, <3>4
  <2> QED
    BY <1>11, <2>9, <2>10
<1> QED
  BY <1>6, <1>7, <1>9, <1>10, <1>11

\* keysBetween: as many as asked for, in order, between the bounds.
LEMMA KeysBetweenFacts ==
  ASSUME NEW n \in Nat, NEW a \in Bound, NEW b \in Bound
  PROVE  /\ KeysBetween(a, b, n) \in Seq(Bound)
         /\ Open \notin Range(KeysBetween(a, b, n)) => Rises(KeysBetween(a, b, n), a, b, n)
         /\ b = Open /\ Valid(a) => Open \notin Range(KeysBetween(a, b, n))
<1>1. PICK keys : /\ \A m \in 0 .. n : keys[m] = Spread(keys, m)
                  /\ \A x, y : KeysBetween(x, y, n) = keys[n][<<x, y>>]
  BY KeysUnfold
<1> DEFINE Bad == {m \in Nat : m \in 0 .. n /\ ~Spreads(keys, m)}
<1>2. Bad = {}
  <2>1. SUFFICES ASSUME Bad # {} PROVE FALSE
    OBVIOUS
  <2>2. PICK m \in Bad : \A i \in Bad : m <= i
    <3>1. Bad \subseteq Nat
      OBVIOUS
    <3> HIDE DEF Bad
    <3> QED
      BY <2>1, <3>1, LeastExists
  <2>3. m \in Nat /\ m \in 0 .. n /\ ~Spreads(keys, m)
    OBVIOUS
  <2>4. ASSUME NEW i \in 0 .. m - 1 PROVE Spreads(keys, i)
    <3>1. i \in Nat /\ i \in 0 .. n /\ ~(m <= i)
      BY <2>3
    <3>2. i \notin Bad
      <4> HIDE DEF Bad
      <4> QED
        BY <2>2, <3>1
    <3> QED
      BY <3>1, <3>2
  <2>5. keys[m] = Spread(keys, m)
    BY <1>1, <2>3
  <2> HIDE DEF Bad
  <2>6. Spreads(keys, m)
    BY <2>3, <2>4, <2>5, SpreadStep
  <2> QED
    BY <2>3, <2>6
<1>3. Spreads(keys, n)
  BY <1>2
<1> QED
  BY <1>1, <1>3 DEF Spreads


-----------------------------------------------------------------------------
(* Rows and their order. *)

Rows == [Videos -> ItemRecord \cup {NoItem}]

\* What the type of item rows says.
LEMMA RowFacts ==
  ASSUME NEW rows \in Rows
  PROVE  /\ \A v \in Videos : rows[v] \in ItemRecord \/ rows[v] = NoItem
         /\ \A v \in Videos : rows[v].row \in BOOLEAN /\ rows[v].present \in BOOLEAN
         /\ \A v \in Videos : rows[v].row <=> rows[v] \in ItemRecord
         /\ \A v \in Videos : rows[v].row =>
              /\ rows[v].key \in Key
              /\ rows[v].mem \in Register /\ rows[v].pos \in Register
              /\ rows[v].mem.seq \in Nat /\ rows[v].pos.seq \in Nat
              /\ rows[v].mem.at \in Nat /\ rows[v].pos.at \in Nat
         /\ \A v \in Videos : ~rows[v].row => rows[v] = NoItem /\ ~rows[v].present
         /\ Present(rows) \subseteq Videos /\ IsFiniteSet(Present(rows))
         /\ \A v \in Present(rows) : v \in Videos /\ v \in Nat /\ rows[v].row /\ rows[v].key \in Key
<1>1. \A v \in Videos : rows[v] \in ItemRecord \/ rows[v] = NoItem
  BY DEF Rows
<1>2. \A v \in Videos : rows[v] \in ItemRecord =>
              /\ rows[v].row = TRUE /\ rows[v].present \in BOOLEAN
              /\ rows[v].key \in Key
              /\ rows[v].mem \in Register /\ rows[v].pos \in Register
              /\ rows[v].mem.seq \in Nat /\ rows[v].pos.seq \in Nat
              /\ rows[v].mem.at \in Nat /\ rows[v].pos.at \in Nat
  BY DEF ItemRecord, Register
<1>3. NoItem.row = FALSE /\ NoItem.present = FALSE
  BY DEF NoItem
<1>4. Present(rows) \subseteq Videos
  BY DEF Present
<1>5. IsFiniteSet(Present(rows)) /\ Videos \subseteq Nat
  BY <1>4, VideoAssumption, FS_Subset
<1>6. \A v \in Present(rows) : rows[v].present
  BY DEF Present
<1>7. \A v \in Videos : rows[v].row <=> rows[v] \in ItemRecord
  BY <1>1, <1>2, <1>3
<1>8. \A v \in Videos : ~rows[v].row => rows[v] = NoItem /\ ~rows[v].present
  BY <1>1, <1>2, <1>3
<1>9. \A v \in Videos : rows[v].row \in BOOLEAN /\ rows[v].present \in BOOLEAN
  BY <1>1, <1>2, <1>3
<1>10. \A v \in Present(rows) : v \in Videos /\ v \in Nat /\ rows[v].row /\ rows[v].key \in Key
  <2> TAKE v \in Present(rows)
  <2>1. v \in Videos /\ v \in Nat /\ rows[v].present
    BY <1>4, <1>5, <1>6
  <2>2. rows[v].row
    BY <1>8, <2>1
  <2> QED
    BY <1>2, <1>7, <2>1, <2>2
<1> QED
  BY <1>1, <1>2, <1>4, <1>5, <1>7, <1>8, <1>9, <1>10

ByItem(rows) == {x \in Present(rows) \X Present(rows) : ItemBefore(rows, x[1], x[2])}

\* The items of a playlist are in one order, also if two had one key.
LEMMA ItemsOrdered ==
  ASSUME NEW rows \in Rows
  PROVE  TotalOrder(Present(rows), ByItem(rows))
<1>1. \A v \in Present(rows) : v \in Nat /\ rows[v].key \in Key
  BY RowFacts
<1>2. \A u, v \in Present(rows) : <<u, v>> \in ByItem(rows) <=> ItemBefore(rows, u, v)
  BY DEF ByItem
<1>3. \A u \in Present(rows) : ~ItemBefore(rows, u, u)
  BY <1>1, KeyOrder DEF ItemBefore
<1>4. ASSUME NEW u \in Present(rows), NEW v \in Present(rows), NEW w \in Present(rows),
             ItemBefore(rows, u, v), ItemBefore(rows, v, w)
      PROVE  ItemBefore(rows, u, w)
  <2>1. KeyLess(rows[u].key, rows[v].key) \/ (rows[u].key = rows[v].key /\ u < v)
    BY <1>4 DEF ItemBefore
  <2>2. KeyLess(rows[v].key, rows[w].key) \/ (rows[v].key = rows[w].key /\ v < w)
    BY <1>4 DEF ItemBefore
  <2>3. KeyLess(rows[u].key, rows[w].key) \/ (rows[u].key = rows[w].key /\ u < w)
    <3>1. CASE KeyLess(rows[u].key, rows[v].key) /\ KeyLess(rows[v].key, rows[w].key)
      BY <1>1, <3>1, KeyOrder
    <3>2. CASE rows[u].key = rows[v].key /\ KeyLess(rows[v].key, rows[w].key)
      BY <3>2
    <3>3. CASE rows[v].key = rows[w].key /\ KeyLess(rows[u].key, rows[v].key)
      BY <3>3
    <3>4. CASE rows[u].key = rows[v].key /\ u < v /\ rows[v].key = rows[w].key /\ v < w
      <4>1. u < w
        BY <1>1, <3>4
      <4> QED
        BY <3>4, <4>1
    <3> QED
      BY <2>1, <2>2, <3>1, <3>2, <3>3, <3>4
  <2> QED
    BY <2>3 DEF ItemBefore
<1>5. ASSUME NEW u \in Present(rows), NEW v \in Present(rows), u # v
      PROVE  ItemBefore(rows, u, v) \/ ItemBefore(rows, v, u)
  <2>1. CASE rows[u].key = rows[v].key
    <3>1. u < v \/ v < u
      BY <1>1, <1>5
    <3> QED
      BY <2>1, <3>1 DEF ItemBefore
  <2>2. CASE rows[u].key # rows[v].key
    BY <1>1, <2>2, KeyOrder DEF ItemBefore
  <2> QED
    BY <2>1, <2>2
<1> QED
  BY <1>2, <1>3, <1>4, <1>5 DEF TotalOrder

\* presentItems lists each present item once, by key and then by video.
LEMMA OrderFacts ==
  ASSUME NEW rows \in Rows
  PROVE  /\ Listing(Order(rows), Videos) /\ Range(Order(rows)) = Present(rows)
         /\ Len(Order(rows)) = Cardinality(Present(rows))
         /\ \A u, v \in Present(rows) : Place(Order(rows), u) < Place(Order(rows), v) <=> ItemBefore(rows, u, v)
<1>1. Order(rows) = Sorted(Present(rows), ByItem(rows))
  BY DEF Order, ByItem
<1>2. TotalOrder(Present(rows), ByItem(rows)) /\ IsFiniteSet(Present(rows)) /\ Present(rows) \subseteq Videos
  BY ItemsOrdered, RowFacts
<1>3. Ascending(Order(rows), Present(rows), ByItem(rows)) /\ Len(Order(rows)) = Cardinality(Present(rows))
  BY <1>1, <1>2, SortedAscends
<1>4. /\ Listing(Order(rows), Present(rows))
      /\ \A u, v \in Present(rows) : <<u, v>> \in ByItem(rows) <=> Place(Order(rows), u) < Place(Order(rows), v)
  BY <1>2, <1>3, AscendingFacts
<1>5. Listing(Order(rows), Videos)
  BY <1>2, <1>4, SeqMonotonic DEF Listing
<1>6. \A u, v \in Present(rows) : <<u, v>> \in ByItem(rows) <=> ItemBefore(rows, u, v)
  BY DEF ByItem
<1> QED
  BY <1>3, <1>4, <1>5, <1>6 DEF Ascending

\* A list of the present items in which each comes before the next is the order.
LEMMA OrderIs ==
  ASSUME NEW rows \in Rows, NEW list \in Seq(Videos), Range(list) = Present(rows),
         \A i, j \in DOMAIN list : i < j => ItemBefore(rows, list[i], list[j])
  PROVE  list = Order(rows)
<1>1. Order(rows) = Sorted(Present(rows), ByItem(rows))
  BY DEF Order, ByItem
<1>2. TotalOrder(Present(rows), ByItem(rows)) /\ IsFiniteSet(Present(rows))
  BY ItemsOrdered, RowFacts
<1>3. Ascending(Order(rows), Present(rows), ByItem(rows))
  BY <1>1, <1>2, SortedAscends
<1>4. list \in Seq(Present(rows))
  BY SeqOfRange
<1>5. \A i, j \in DOMAIN list : i < j => <<list[i], list[j]>> \in ByItem(rows)
  BY DEF ByItem, Range
<1>6. Ascending(list, Present(rows), ByItem(rows))
  BY <1>4, <1>5 DEF Ascending
<1> QED
  BY <1>2, <1>3, <1>6, AscendingIsUnique

-----------------------------------------------------------------------------
(* The order that an edit makes. *)

\* The runs of an edit: lists of ids that have no repetitions, each behind an item that stays or at the start, and
\* before what comes next.
RunsFit(stays, runs) ==
  /\ DOMAIN runs \subseteq Range(stays) \cup {Open}
  /\ \A l \in DOMAIN runs :
       /\ Listing(runs[l].ids, Videos)
       /\ runs[l].upper = At(stays, Place(stays, l) + 1)
  /\ \A l, m \in DOMAIN runs : l # m => Range(runs[l].ids) \cap Range(runs[m].ids) = {}

ByRank(stays, runs) ==
  LET all == Range(stays) \cup Placed(runs)
  IN {x \in all \X all : RankLess(Rank(stays, runs, x[1]), Rank(stays, runs, x[2]))}

\* Every placed item is of one run.
LEMMA PlacedFacts ==
  ASSUME NEW stays, Listing(stays, Videos), NEW runs, RunsFit(stays, runs)
  PROVE  /\ Placed(runs) \subseteq Videos
         /\ \A v \in Placed(runs) : RunOf(runs, v) \in DOMAIN runs /\ v \in Range(runs[RunOf(runs, v)].ids)
         /\ \A l \in DOMAIN runs : \A v \in Range(runs[l].ids) : v \in Placed(runs) /\ RunOf(runs, v) = l
<1>1. \A l \in DOMAIN runs : Range(runs[l].ids) \subseteq Videos
  BY ListingFacts DEF RunsFit
<1>2. \A v \in Placed(runs) : \E l \in DOMAIN runs : v \in Range(runs[l].ids)
  BY DEF Placed
<1>3. \A v \in Placed(runs) : RunOf(runs, v) \in DOMAIN runs /\ v \in Range(runs[RunOf(runs, v)].ids)
  BY <1>2 DEF RunOf
<1>4. \A l \in DOMAIN runs : \A v \in Range(runs[l].ids) : v \in Placed(runs)
  BY DEF Placed
<1>5. \A l \in DOMAIN runs : \A v \in Range(runs[l].ids) : RunOf(runs, v) = l
  BY <1>3, <1>4 DEF RunsFit
<1> QED
  BY <1>1, <1>2, <1>3, <1>4, <1>5

\* No two items of the final order have the same rank.
LEMMA RankFacts ==
  ASSUME NEW stays, Listing(stays, Videos), NEW runs, RunsFit(stays, runs), Range(stays) \cap Placed(runs) = {}
  PROVE  /\ \A v \in Range(stays) \cup Placed(runs) : Rank(stays, runs, v) \in Nat \X Nat
         /\ \A u, v \in Range(stays) \cup Placed(runs) : Rank(stays, runs, u) = Rank(stays, runs, v) => u = v
         /\ \A v \in Range(stays) : Rank(stays, runs, v) = <<Place(stays, v), 0>>
         /\ \A l \in DOMAIN runs : \A v \in Range(runs[l].ids) :
              Rank(stays, runs, v) = <<Place(stays, l), Place(runs[l].ids, v)>>
<1>1. \A v \in Range(stays) : Rank(stays, runs, v) = <<Place(stays, v), 0>>
  BY DEF Rank
<1>2. \A l \in DOMAIN runs : \A v \in Range(runs[l].ids) :
        Rank(stays, runs, v) = <<Place(stays, l), Place(runs[l].ids, v)>>
  BY PlacedFacts DEF Rank
<1>3. /\ Len(stays) \in Nat /\ DOMAIN stays = 1 .. Len(stays)
      /\ \A v \in Range(stays) : Place(stays, v) \in DOMAIN stays /\ stays[Place(stays, v)] = v
      /\ \A v : Place(stays, v) \in 0 .. Len(stays) /\ (v \notin Range(stays) => Place(stays, v) = 0)
  BY ListingFacts
<1>4. \A v : Place(stays, v) \in Nat
  BY <1>3
<1>5. \A l \in DOMAIN runs : \A v \in Range(runs[l].ids) :
        Place(runs[l].ids, v) \in Nat /\ Place(runs[l].ids, v) >= 1 /\ runs[l].ids[Place(runs[l].ids, v)] = v
  <2> TAKE l \in DOMAIN runs
  <2> TAKE v \in Range(runs[l].ids)
  <2>1. PICK f : f = runs[l].ids
    OBVIOUS
  <2>2. Listing(f, Videos) /\ v \in Range(f)
    BY <2>1 DEF RunsFit
  <2>3. Len(f) \in Nat /\ DOMAIN f = 1 .. Len(f) /\ Place(f, v) \in DOMAIN f /\ f[Place(f, v)] = v
    BY <2>2, ListingFacts
  <2>4. Place(f, v) \in Nat /\ Place(f, v) >= 1
    BY <2>3
  <2> QED
    BY <2>1, <2>3, <2>4
<1>6. \A v \in Placed(runs) : \E l \in DOMAIN runs : v \in Range(runs[l].ids)
  BY DEF Placed
<1>7. \A l, m \in DOMAIN runs : Place(stays, l) = Place(stays, m) => l = m
  <2> TAKE l, m \in DOMAIN runs
  <2>1. Open \notin Range(stays)
    BY VideoAssumption, ListingFacts
  <2>2. (l \in Range(stays) \/ l = Open) /\ (m \in Range(stays) \/ m = Open)
    BY DEF RunsFit
  <2>3. \A v \in Range(stays) : Place(stays, v) # 0
    BY <1>3
  <2> QED
    BY <1>3, <2>1, <2>2, <2>3
<1>8. ASSUME NEW v \in Range(stays) \cup Placed(runs) PROVE Rank(stays, runs, v) \in Nat \X Nat
  <2>1. CASE v \in Range(stays)
    BY <1>1, <1>4, <2>1
  <2>2. CASE v \in Placed(runs)
    BY <1>2, <1>4, <1>5, <1>6, <2>2
  <2> QED
    BY <2>1, <2>2
<1>9. ASSUME NEW u \in Range(stays) \cup Placed(runs), NEW v \in Range(stays) \cup Placed(runs),
             Rank(stays, runs, u) = Rank(stays, runs, v)
      PROVE  u = v
  <2>1. CASE u \in Range(stays) /\ v \in Range(stays)
    <3>1. Place(stays, u) = Place(stays, v)
      BY <1>1, <1>9, <2>1
    <3> QED
      BY <1>3, <2>1, <3>1
  <2>2. CASE u \in Range(stays) /\ v \in Placed(runs)
    <3>1. PICK l \in DOMAIN runs : v \in Range(runs[l].ids)
      BY <1>6, <2>2
    <3>2. Place(runs[l].ids, v) = 0
      BY <1>1, <1>2, <1>9, <2>2, <3>1
    <3> QED
      BY <1>5, <3>1, <3>2
  <2>3. CASE u \in Placed(runs) /\ v \in Range(stays)
    <3>1. PICK l \in DOMAIN runs : u \in Range(runs[l].ids)
      BY <1>6, <2>3
    <3>2. Place(runs[l].ids, u) = 0
      BY <1>1, <1>2, <1>9, <2>3, <3>1
    <3> QED
      BY <1>5, <3>1, <3>2
  <2>4. CASE u \in Placed(runs) /\ v \in Placed(runs)
    <3>1. PICK l \in DOMAIN runs : u \in Range(runs[l].ids)
      BY <1>6, <2>4
    <3>2. PICK m \in DOMAIN runs : v \in Range(runs[m].ids)
      BY <1>6, <2>4
    <3>3. Place(stays, l) = Place(stays, m) /\ Place(runs[l].ids, u) = Place(runs[m].ids, v)
      BY <1>2, <1>9, <3>1, <3>2
    <3>4. l = m
      BY <1>7, <3>3
    <3> QED
      BY <1>5, <3>1, <3>2, <3>3, <3>4
  <2> QED
    BY <2>1, <2>2, <2>3, <2>4
<1> QED
  BY <1>1, <1>2, <1>8, <1>9

\* The ranks order what stays and what is placed.
LEMMA RankOrders ==
  ASSUME NEW stays, Listing(stays, Videos), NEW runs, RunsFit(stays, runs), Range(stays) \cap Placed(runs) = {}
  PROVE  /\ TotalOrder(Range(stays) \cup Placed(runs), ByRank(stays, runs))
         /\ IsFiniteSet(Range(stays) \cup Placed(runs)) /\ Range(stays) \cup Placed(runs) \subseteq Videos
<1> DEFINE all == Range(stays) \cup Placed(runs)
           R(v) == Rank(stays, runs, v)
<1>1. \A v \in all : R(v) \in Nat \X Nat
  BY RankFacts
<1>2. \A u, v \in all : R(u) = R(v) => u = v
  BY RankFacts
<1>3. \A u, v \in all : <<u, v>> \in ByRank(stays, runs) <=> RankLess(R(u), R(v))
  BY DEF ByRank
<1>4. all \subseteq Videos
  BY PlacedFacts, ListingFacts
<1>5. IsFiniteSet(all)
  BY <1>4, VideoAssumption, FS_Subset
<1> HIDE DEF all, R
<1>6. \A a \in Nat \X Nat : ~RankLess(a, a)
  BY DEF RankLess
<1>7. \A a, b, c \in Nat \X Nat : RankLess(a, b) /\ RankLess(b, c) => RankLess(a, c)
  BY DEF RankLess
<1>8. \A a, b \in Nat \X Nat : a # b => RankLess(a, b) \/ RankLess(b, a)
  BY DEF RankLess
<1>9. TotalOrder(all, ByRank(stays, runs))
  <2>1. \A u \in all : <<u, u>> \notin ByRank(stays, runs)
    BY <1>1, <1>3, <1>6
  <2>2. \A u, v, w \in all : <<u, v>> \in ByRank(stays, runs) /\ <<v, w>> \in ByRank(stays, runs) => <<u, w>> \in ByRank(stays, runs)
    BY <1>1, <1>3, <1>7
  <2>3. \A u, v \in all : u # v => <<u, v>> \in ByRank(stays, runs) \/ <<v, u>> \in ByRank(stays, runs)
    BY <1>1, <1>2, <1>3, <1>8
  <2> QED
    BY <2>1, <2>2, <2>3 DEF TotalOrder
<1> QED
  BY <1>4, <1>5, <1>9 DEF all

\* finalOrder, of what stays and the runs.
LEMMA FinalOrderFacts ==
  ASSUME NEW list, NEW plan, NEW runs, NEW stays, stays = Stays(list, plan, runs),
         Listing(stays, Videos), RunsFit(stays, runs), Range(stays) \cap Placed(runs) = {}
  PROVE  /\ Listing(FinalOrder(list, plan, runs), Videos)
         /\ Range(FinalOrder(list, plan, runs)) = Range(stays) \cup Placed(runs)
         /\ \A u, v \in Range(stays) \cup Placed(runs) :
              Place(FinalOrder(list, plan, runs), u) < Place(FinalOrder(list, plan, runs), v)
                <=> RankLess(Rank(stays, runs, u), Rank(stays, runs, v))
<1> DEFINE all == Range(stays) \cup Placed(runs)
           order == FinalOrder(list, plan, runs)
<1>1. order = Sorted(all, ByRank(stays, runs))
  BY DEF FinalOrder, ByRank
<1>2. TotalOrder(all, ByRank(stays, runs)) /\ IsFiniteSet(all) /\ all \subseteq Videos
  BY RankOrders
<1>3. \A u, v \in all : <<u, v>> \in ByRank(stays, runs) <=> RankLess(Rank(stays, runs, u), Rank(stays, runs, v))
  BY DEF ByRank
<1> HIDE DEF all, order
<1>4. Ascending(order, all, ByRank(stays, runs))
  BY <1>1, <1>2, SortedAscends
<1>5. /\ Listing(order, all)
      /\ \A u, v \in all : <<u, v>> \in ByRank(stays, runs) <=> Place(order, u) < Place(order, v)
  BY <1>2, <1>4, AscendingFacts
<1>6. Listing(order, Videos)
  BY <1>2, <1>5, SeqMonotonic DEF Listing
<1> QED
  BY <1>3, <1>4, <1>5, <1>6 DEF Ascending, all, order


-----------------------------------------------------------------------------
(* What a transaction writes. *)

Statuses == {"none", "applied", "redirected", "superseded", "rejected", "deferred"}

\* A transaction: what it has written so far.
Tx ==
  [seq : Nat, lists : [Lists -> PlaylistRecord \cup {NoList}], items : [Lists -> Rows], status : Statuses, target : Lists]

\* No register is beyond a seq.
Written(rows, n) == \A v \in Videos : rows[v].row => rows[v].mem.seq <= n /\ rows[v].pos.seq <= n

\* PlannedItem.
Planned == [present : BOOLEAN, mem : BOOLEAN, pos : BOOLEAN, at : Nat]

\* A planned row carries the op's seq in one of its registers, whichever of them the op writes or whether only
\* the key moves.
LEMMA PlannedRowFacts ==
  ASSUME NEW old, old \in ItemRecord \/ old = NoItem, NEW i \in Planned, NEW key \in Key, NEW d \in Devices, NEW n \in Nat,
         old.row => old.mem.seq < n /\ old.pos.seq < n,
         i.mem \/ i.pos \/ (old.row /\ key # old.key)
  PROVE  LET r == PlannedRow(old, i, key, d, n)
         IN  /\ r \in ItemRecord /\ r.row /\ r.present = i.present /\ r.key = key
             /\ RowSeq(r) = n /\ r.mem.seq <= n /\ r.pos.seq <= n
<1> DEFINE written == [seq |-> n, at |-> i.at, dev |-> d]
           mem == IF i.mem \/ ~old.row THEN written ELSE old.mem
           pos == IF i.pos \/ ~old.row THEN written
                  ELSE IF key # old.key THEN [old.pos EXCEPT !.seq = n] ELSE old.pos
           r == [row |-> TRUE, present |-> i.present, key |-> key, mem |-> mem, pos |-> pos]
<1>1. PlannedRow(old, i, key, d, n) = r
  BY DEF PlannedRow
<1>2. written \in Register /\ written.seq = n
  BY DEF Register, Planned
<1>3. (old.row => old \in ItemRecord /\ old.mem \in Register /\ old.pos \in Register) /\ old.row \in BOOLEAN
  <2>1. CASE old \in ItemRecord
    BY <2>1 DEF ItemRecord
  <2>2. CASE old = NoItem
    <3>1. old.row = FALSE
      BY <2>2 DEF NoItem
    <3> QED
      BY <3>1
  <2> QED
    BY <2>1, <2>2
<1>4. old.row => old.mem.seq \in Nat /\ old.pos.seq \in Nat
  BY <1>3 DEF Register
<1>5. old.row \in BOOLEAN /\ i.mem \in BOOLEAN /\ i.pos \in BOOLEAN /\ i.present \in BOOLEAN
  BY <1>3 DEF Planned
<1> HIDE DEF written
<1>6. mem \in Register /\ mem.seq \in Nat /\ mem.seq <= n /\ (i.mem \/ ~old.row => mem.seq = n)
  <2>1. CASE i.mem \/ ~old.row
    BY <1>2, <2>1
  <2>2. CASE ~(i.mem \/ ~old.row)
    BY <1>3, <1>4, <2>2
  <2> QED
    BY <2>1, <2>2
<1>7. pos \in Register /\ pos.seq \in Nat /\ pos.seq <= n /\ (i.pos \/ ~old.row \/ key # old.key => pos.seq = n)
  <2>1. CASE i.pos \/ ~old.row
    BY <1>2, <2>1
  <2>2. CASE ~(i.pos \/ ~old.row) /\ key # old.key
    <3>1. pos = [old.pos EXCEPT !.seq = n]
      BY <2>2
    <3>2. pos \in Register /\ pos.seq = n
      BY <1>3, <2>2, <3>1 DEF Register
    <3> QED
      BY <3>2
  <2>3. CASE ~(i.pos \/ ~old.row) /\ key = old.key
    BY <1>3, <1>4, <2>3
  <2> QED
    BY <2>1, <2>2, <2>3
<1>8. mem.seq = n \/ pos.seq = n
  BY <1>6, <1>7
<1> HIDE DEF mem, pos
<1>9. r \in ItemRecord /\ r.row = TRUE /\ r.present = i.present /\ r.key = key /\ r.mem = mem /\ r.pos = pos
  BY <1>5, <1>6, <1>7 DEF ItemRecord
<1> HIDE DEF r
<1>10. RowSeq(r) = n
  BY <1>6, <1>7, <1>8, <1>9 DEF RowSeq
<1> QED
  BY <1>1, <1>6, <1>7, <1>9, <1>10

\* What a transaction has written so far, field by field.
LEMMA TxFacts ==
  ASSUME NEW s \in Tx
  PROVE  /\ s.seq \in Nat /\ s.lists \in [Lists -> PlaylistRecord \cup {NoList}] /\ s.items \in [Lists -> Rows]
         /\ s.status \in Statuses /\ s.target \in Lists
         /\ s = [seq |-> s.seq, lists |-> s.lists, items |-> s.items, status |-> s.status, target |-> s.target]
  BY DEF Tx

\* The rows that a write leaves: those written have the key and the presence they were given and a seq of their own.
WroteRows(s, t, p, w, plan, key) ==
  /\ t \in Tx /\ t.lists = s.lists /\ t.status = s.status /\ t.target = s.target
  /\ t.seq = s.seq + Len(w)
  /\ \A q \in Lists : q # p => t.items[q] = s.items[q]
  /\ \A v \in Videos : v \notin Range(w) => t.items[p][v] = s.items[p][v]
  /\ \A v \in Range(w) :
       /\ t.items[p][v].row /\ t.items[p][v].key = key[v]
       /\ t.items[p][v].present = IF v \in DOMAIN plan THEN plan[v].present ELSE s.items[p][v].present
       /\ RowSeq(t.items[p][v]) = s.seq + Place(w, v)
  /\ Written(t.items[p], t.seq)

\* Rows that are written in an order take one seq each, beyond the head, and no others change.
LEMMA WriteRowsFacts ==
  ASSUME NEW s \in Tx, NEW p \in Lists, NEW d \in Devices, NEW w, Listing(w, Videos), NEW plan, NEW key,
         \A v \in DOMAIN plan : plan[v] \in Planned /\ (plan[v].mem \/ plan[v].pos),
         \A v \in Range(w) : key[v] \in Key,
         \A v \in Range(w) : v \notin DOMAIN plan => s.items[p][v].row /\ key[v] # s.items[p][v].key,
         Written(s.items[p], s.seq)
  PROVE  WroteRows(s, WriteRows(s, p, d, w, plan, key), p, w, plan, key)
<1> DEFINE old == s.items[p]
           item(v) == IF v \in DOMAIN plan THEN plan[v] ELSE Unchanged(old[v])
           row(v) == PlannedRow(old[v], item(v), key[v], d, s.seq + Place(w, v))
           new == [v \in Videos |-> IF v \in Range(w) THEN row(v) ELSE old[v]]
           t == WriteRows(s, p, d, w, plan, key)
<1>1. s.seq \in Nat /\ s.items \in [Lists -> Rows] /\ old \in Rows
  BY TxFacts
<1>2. Len(w) \in Nat /\ Range(w) \subseteq Videos /\ \A v \in Range(w) : Place(w, v) \in 1 .. Len(w)
  BY ListingFacts
<1>3. t = [s EXCEPT !.seq = @ + Len(w), !.items[p] = new]
  BY DEF WriteRows
<1>4. ASSUME NEW v \in Range(w)
      PROVE  /\ row(v) \in ItemRecord /\ row(v).row /\ row(v).present = item(v).present /\ row(v).key = key[v]
             /\ RowSeq(row(v)) = s.seq + Place(w, v)
             /\ row(v).mem.seq <= s.seq + Len(w) /\ row(v).pos.seq <= s.seq + Len(w)
             /\ row(v).mem.seq \in Nat /\ row(v).pos.seq \in Nat
    <2>1. PICK n : n = s.seq + Place(w, v)
      OBVIOUS
    <2>2. n \in Nat /\ n > s.seq /\ n <= s.seq + Len(w)
      BY <1>1, <1>2, <2>1
    <2>3. PICK o : o = old[v]
      OBVIOUS
    <2>4. v \in Videos /\ (o \in ItemRecord \/ o = NoItem) /\ o.row \in BOOLEAN /\ o.present \in BOOLEAN
      BY <1>1, <1>2, <2>3, RowFacts
    <2>5. o.row => o.mem.seq < n /\ o.pos.seq < n
      <3>1. o.row => o.mem.seq \in Nat /\ o.pos.seq \in Nat
        BY <1>1, <2>3, <2>4, RowFacts
      <3>2. o.row => o.mem.seq <= s.seq /\ o.pos.seq <= s.seq
        BY <2>3, <2>4 DEF Written
      <3> QED
        BY <1>1, <2>2, <3>1, <3>2
    <2>6. PICK i : i = item(v)
      OBVIOUS
    <2>7. i \in Planned /\ (i.mem \/ i.pos \/ (o.row /\ key[v] # o.key))
      <3>1. CASE v \in DOMAIN plan
        BY <2>6, <3>1
      <3>2. CASE v \notin DOMAIN plan
        <4>1. i = Unchanged(o)
          BY <2>3, <2>6, <3>2
        <4>2. i \in Planned
          BY <2>4, <4>1 DEF Unchanged, Planned
        <4>3. o.row /\ key[v] # o.key
          BY <2>3, <3>2
        <4> QED
          BY <4>2, <4>3
      <3> QED
        BY <3>1, <3>2
    <2>8. key[v] \in Key
      OBVIOUS
    <2>9. PICK r : r = PlannedRow(o, i, key[v], d, n)
      OBVIOUS
    <2>10. /\ r \in ItemRecord /\ r.row /\ r.present = i.present /\ r.key = key[v]
           /\ RowSeq(r) = n /\ r.mem.seq <= n /\ r.pos.seq <= n
      BY <2>2, <2>4, <2>5, <2>7, <2>8, <2>9, PlannedRowFacts
    <2>11. r = row(v)
      BY <2>1, <2>3, <2>6, <2>9
    <2>12. r.mem.seq \in Nat /\ r.pos.seq \in Nat
      BY <2>10 DEF ItemRecord, Register
    <2>13. r.mem.seq <= s.seq + Len(w) /\ r.pos.seq <= s.seq + Len(w)
      BY <1>1, <1>2, <2>2, <2>10, <2>12
    <2> HIDE DEF row, item
    <2> QED
      BY <2>1, <2>6, <2>10, <2>11, <2>12, <2>13
<1> HIDE DEF row, item
<1>5. new \in Rows
  <2>1. \A v \in Videos : new[v] \in ItemRecord \cup {NoItem}
    BY <1>1, <1>4, RowFacts
  <2> QED
    BY <2>1 DEF Rows
<1>6. t \in Tx /\ t.lists = s.lists /\ t.status = s.status /\ t.target = s.target /\ t.seq = s.seq + Len(w)
      /\ t.items = [s.items EXCEPT ![p] = new]
  <2>1. s.seq + Len(w) \in Nat
    BY <1>1, <1>2
  <2>2. [s.items EXCEPT ![p] = new] \in [Lists -> Rows]
    BY <1>1, <1>5
  <2> HIDE DEF new, t
  <2> QED
    BY <1>3, <2>1, <2>2, TxFacts DEF Tx
<1>7. t.items[p] = new /\ \A q \in Lists : q # p => t.items[q] = s.items[q]
  BY <1>1, <1>6
<1>8. \A v \in Range(w) : new[v] = row(v) /\ item(v).present = IF v \in DOMAIN plan THEN plan[v].present ELSE old[v].present
  BY <1>2 DEF item, Unchanged
<1>9. \A v \in Videos : v \notin Range(w) => new[v] = old[v]
  OBVIOUS
<1> HIDE DEF new, t
<1>10. Written(new, s.seq + Len(w))
  <2> SUFFICES ASSUME NEW v \in Videos, new[v].row
               PROVE  new[v].mem.seq <= s.seq + Len(w) /\ new[v].pos.seq <= s.seq + Len(w)
    BY DEF Written
  <2>1. CASE v \in Range(w)
    BY <1>4, <1>8, <2>1
  <2>2. CASE v \notin Range(w)
    <3>1. old[v].row /\ new[v] = old[v]
      BY <1>9, <2>2
    <3>2. old[v].mem.seq \in Nat /\ old[v].pos.seq \in Nat
      BY <1>1, <3>1, RowFacts
    <3>3. old[v].mem.seq <= s.seq /\ old[v].pos.seq <= s.seq
      BY <3>1 DEF Written
    <3> QED
      BY <1>1, <1>2, <3>1, <3>2, <3>3
  <2> QED
    BY <2>1, <2>2
<1>11. WroteRows(s, t, p, w, plan, key)
  BY <1>4, <1>6, <1>7, <1>8, <1>9, <1>10 DEF WroteRows
<1> QED
  BY <1>11 DEF t


-----------------------------------------------------------------------------
(* commitItems. *)

Distinct(rows) == \A v, w \in Present(rows) : v # w => rows[v].key # rows[w].key

\* An edit of the items ids: those that are not placed are present ones that go, the placed ones are present after it.
EditFits(old, ids, plan, runs) ==
  /\ Listing(ids, Videos)
  /\ DOMAIN plan = Range(ids)
  /\ \A v \in Range(ids) :
       /\ plan[v] \in Planned /\ (plan[v].mem \/ plan[v].pos)
       /\ plan[v].present <=> v \in Placed(runs)
       /\ ~plan[v].present => v \in Present(old)
  /\ Placed(runs) \subseteq Range(ids)
  /\ RunsFit(Stays(Order(old), plan, runs), runs)

\* What stays is what is present and not planned, in its order.
LEMMA StaysFacts ==
  ASSUME NEW old \in Rows, NEW ids, NEW plan, NEW runs,
         DOMAIN plan = Range(ids), Placed(runs) \subseteq Range(ids),
         \A v \in Range(ids) : plan[v].present <=> v \in Placed(runs)
  PROVE  LET stays == Stays(Order(old), plan, runs)
         IN  /\ stays = Among(Order(old), Range(Order(old)) \ Range(ids))
             /\ Listing(stays, Videos) /\ Range(stays) = Present(old) \ Range(ids)
             /\ Range(stays) \cap Placed(runs) = {}
             /\ \A u, v \in Range(stays) : Place(stays, u) < Place(stays, v) <=> ItemBefore(old, u, v)
<1> DEFINE list == Order(old)
           stays == Stays(list, plan, runs)
<1>1. /\ Listing(list, Videos) /\ Range(list) = Present(old)
      /\ \A u, v \in Present(old) : Place(list, u) < Place(list, v) <=> ItemBefore(old, u, v)
  BY OrderFacts
<1>2. Placed(runs) \cup {v \in DOMAIN plan : ~plan[v].present} = Range(ids)
  OBVIOUS
<1> HIDE DEF list
<1>3. stays = Among(list, Range(list) \ Range(ids))
  BY <1>2 DEF Stays
<1> HIDE DEF stays
<1>4. /\ Listing(stays, Videos) /\ Range(stays) = Range(list) \cap (Range(list) \ Range(ids))
      /\ \A u, v \in Range(list) \cap (Range(list) \ Range(ids)) :
           Place(stays, u) < Place(stays, v) <=> Place(list, u) < Place(list, v)
  BY <1>1, <1>3, AmongFacts
<1>5. Range(stays) = Present(old) \ Range(ids)
  BY <1>1, <1>4
<1>6. Range(stays) \cap Placed(runs) = {}
  BY <1>5
<1>7. \A u, v \in Range(stays) : Place(stays, u) < Place(stays, v) <=> ItemBefore(old, u, v)
  BY <1>1, <1>4
<1> QED
  BY <1>3, <1>4, <1>5, <1>6, <1>7 DEF stays, list

\* Keys that rise with the rank give the rows the final order.
LEMMA KeysGiveOrder ==
  ASSUME NEW old \in Rows, NEW ids, NEW plan, NEW runs, EditFits(old, ids, plan, runs), NEW new \in Rows,
         NEW stays, stays = Stays(Order(old), plan, runs),
         Present(new) = Range(stays) \cup Placed(runs),
         \A u, v \in Range(stays) \cup Placed(runs) :
           RankLess(Rank(stays, runs, u), Rank(stays, runs, v)) => KeyLess(new[u].key, new[v].key)
  PROVE  Order(new) = FinalOrder(Order(old), plan, runs) /\ Distinct(new)
<1> DEFINE order == FinalOrder(Order(old), plan, runs)
<1>1. Listing(stays, Videos) /\ Range(stays) \cap Placed(runs) = {} /\ RunsFit(stays, runs)
  BY StaysFacts DEF EditFits
<1>2. /\ Listing(order, Videos) /\ Range(order) = Present(new)
      /\ \A u, v \in Present(new) :
           Place(order, u) < Place(order, v) <=> RankLess(Rank(stays, runs, u), Rank(stays, runs, v))
  BY <1>1, FinalOrderFacts
<1> HIDE DEF order
<1>3. \A u, v \in Present(new) : Place(order, u) < Place(order, v) => KeyLess(new[u].key, new[v].key)
  BY <1>2
<1>4. \A i, j \in DOMAIN order : i < j => ItemBefore(new, order[i], order[j])
  <2> TAKE i, j \in DOMAIN order
  <2> HAVE i < j
  <2>1. order[i] \in Present(new) /\ order[j] \in Present(new) /\ Place(order, order[i]) = i /\ Place(order, order[j]) = j
    BY <1>2, ListingFacts
  <2> QED
    BY <1>3, <2>1 DEF ItemBefore
<1>5. order = Order(new)
  BY <1>2, <1>4, OrderIs DEF Listing
<1>6. ASSUME NEW v \in Present(new), NEW w \in Present(new), v # w PROVE new[v].key # new[w].key
  <2>1. /\ Place(order, v) \in Nat /\ Place(order, w) \in Nat
        /\ order[Place(order, v)] = v /\ order[Place(order, w)] = w
    BY <1>2, ListingFacts
  <2>2. Place(order, v) < Place(order, w) \/ Place(order, w) < Place(order, v)
    BY <1>6, <2>1
  <2>3. KeyLess(new[v].key, new[w].key) \/ KeyLess(new[w].key, new[v].key)
    BY <1>3, <2>2
  <2> QED
    BY <2>3, KeyOrder, RowFacts
<1> QED
  BY <1>5, <1>6 DEF order, Distinct

\* The keys of the placed items, issued between their neighbours, rise with the rank.
LEMMA IssuedRise ==
  ASSUME NEW old \in Rows, Distinct(old), NEW stays, Listing(stays, Videos), Range(stays) \subseteq Present(old),
         \A u, v \in Range(stays) : Place(stays, u) < Place(stays, v) <=> ItemBefore(old, u, v),
         NEW runs, RunsFit(stays, runs), Range(stays) \cap Placed(runs) = {}, NEW issued,
         \A l \in DOMAIN runs :
           Rises(issued[l], IF l = Open THEN Open ELSE old[l].key,
                 IF runs[l].upper = Open THEN Open ELSE old[runs[l].upper].key, Len(runs[l].ids)),
         NEW key,
         \A v \in Range(stays) : key[v] = old[v].key,
         \A v \in Placed(runs) : key[v] = issued[RunOf(runs, v)][Place(runs[RunOf(runs, v)].ids, v)]
  PROVE  /\ \A v \in Placed(runs) : key[v] \in Key
         /\ \A u, v \in Range(stays) \cup Placed(runs) :
              RankLess(Rank(stays, runs, u), Rank(stays, runs, v)) => KeyLess(key[u], key[v])
<1> DEFINE all == Range(stays) \cup Placed(runs)
           n == Len(stays)
           R(v) == Rank(stays, runs, v)
<1>1. /\ n \in Nat /\ DOMAIN stays = 1 .. n
      /\ \A i \in 1 .. n : stays[i] \in Range(stays) /\ stays[i] \in Videos /\ Place(stays, stays[i]) = i
      /\ \A v \in Range(stays) : Place(stays, v) \in 1 .. n /\ stays[Place(stays, v)] = v
      /\ \A v : Place(stays, v) \in 0 .. n /\ (v \notin Range(stays) => Place(stays, v) = 0)
  BY ListingFacts
<1>2. \A v \in Range(stays) : key[v] = old[v].key /\ key[v] \in Key /\ v \in Videos /\ v # Open
  BY RowFacts, VideoAssumption
<1>3. \A i, j \in 1 .. n : i < j => KeyLess(key[stays[i]], key[stays[j]])
  <2> TAKE i, j \in 1 .. n
  <2> HAVE i < j
  <2>1. PICK u, v : u = stays[i] /\ v = stays[j]
    OBVIOUS
  <2>2. u \in Range(stays) /\ v \in Range(stays) /\ Place(stays, u) = i /\ Place(stays, v) = j
    BY <1>1, <2>1
  <2>3. ItemBefore(old, u, v) /\ u # v
    BY <2>2
  <2>4. u \in Present(old) /\ v \in Present(old)
    BY <2>2
  <2>5. old[u].key # old[v].key
    BY <2>3, <2>4 DEF Distinct
  <2>6. KeyLess(old[u].key, old[v].key)
    BY <2>3, <2>5 DEF ItemBefore
  <2> QED
    BY <1>2, <2>1, <2>2, <2>6
<1>4. ASSUME NEW l \in DOMAIN runs, NEW v \in Range(runs[l].ids)
      PROVE  /\ key[v] = issued[l][Place(runs[l].ids, v)] /\ key[v] \in Key
             /\ Place(runs[l].ids, v) \in 1 .. Len(runs[l].ids)
             /\ R(v) = <<Place(stays, l), Place(runs[l].ids, v)>>
             /\ Place(stays, l) >= 1 => KeyLess(key[stays[Place(stays, l)]], key[v])
             /\ Place(stays, l) + 1 <= n => KeyLess(key[v], key[stays[Place(stays, l) + 1]])
  <2>1. RunOf(runs, v) = l /\ v \in Placed(runs)
    BY PlacedFacts
  <2>2. PICK f : f = runs[l].ids
    OBVIOUS
  <2>3. Listing(f, Videos) /\ v \in Range(f)
    BY <2>2 DEF RunsFit
  <2>4. Len(f) \in Nat /\ Place(f, v) \in 1 .. Len(f)
    BY <2>3, ListingFacts
  <2>5. PICK g : g = issued[l]
    OBVIOUS
  <2>6. PICK i : i = Place(f, v)
    OBVIOUS
  <2>7. key[v] = g[i]
    BY <2>1, <2>2, <2>5, <2>6
  <2>8. PICK lo, hi : lo = (IF l = Open THEN Open ELSE old[l].key)
                      /\ hi = (IF runs[l].upper = Open THEN Open ELSE old[runs[l].upper].key)
    OBVIOUS
  <2>9. Rises(g, lo, hi, Len(f))
    BY <2>2, <2>5, <2>8
  <2>10. g[i] \in Key /\ (lo # Open => KeyLess(lo, g[i])) /\ (hi # Open => KeyLess(g[i], hi))
    <3>1. g \in Seq(Key) /\ Len(g) = Len(f) /\ i \in 1 .. Len(f)
      BY <2>4, <2>6, <2>9 DEF Rises
    <3>2. g[i] \in Key
      BY <3>1, ElementOfSeq
    <3> QED
      BY <2>9, <3>1, <3>2 DEF Rises
  <2>11. R(v) = <<Place(stays, l), Place(runs[l].ids, v)>>
    BY RankFacts
  <2>12. Open \notin Key
    BY OpenAssumption
  <2>13. ASSUME Place(stays, l) >= 1 PROVE KeyLess(key[stays[Place(stays, l)]], key[v])
    <3>1. l \in Range(stays)
      BY <1>1, <2>13
    <3>2. stays[Place(stays, l)] = l /\ l # Open /\ key[l] = old[l].key /\ key[l] \in Key
      BY <1>1, <1>2, <3>1
    <3>3. lo = key[l] /\ lo # Open
      BY <2>8, <2>12, <3>2
    <3> QED
      BY <2>7, <2>10, <3>2, <3>3
  <2>14. ASSUME Place(stays, l) + 1 <= n PROVE KeyLess(key[v], key[stays[Place(stays, l) + 1]])
    <3>1. PICK k : k = Place(stays, l) + 1
      OBVIOUS
    <3>2. k \in 1 .. n /\ k \in DOMAIN stays
      BY <1>1, <2>14, <3>1
    <3>3. runs[l].upper = At(stays, k)
      BY <3>1 DEF RunsFit
    <3>4. runs[l].upper = stays[k]
      BY <3>2, <3>3 DEF At
    <3>5. stays[k] \in Range(stays)
      BY <1>1, <3>2
    <3>6. stays[k] # Open /\ key[stays[k]] = old[stays[k]].key /\ key[stays[k]] \in Key
      BY <1>2, <3>5
    <3>7. hi = key[stays[k]] /\ hi # Open
      BY <2>8, <2>12, <3>4, <3>6
    <3> QED
      BY <2>7, <2>10, <3>1, <3>7
  <2> QED
    BY <2>2, <2>4, <2>5, <2>6, <2>7, <2>10, <2>11, <2>13, <2>14
<1>5. \A v \in Placed(runs) : key[v] \in Key
  BY <1>4, PlacedFacts
<1> DEFINE Lies(v, a) ==
      /\ a \in 0 .. n /\ key[v] \in Key
      /\ v \in Range(stays) => a >= 1 /\ v = stays[a] /\ R(v) = <<a, 0>>
      /\ v \notin Range(stays) /\ a >= 1 => KeyLess(key[stays[a]], key[v])
      /\ a + 1 <= n => KeyLess(key[v], key[stays[a + 1]])
<1>6. \A v \in all : \E a, i \in Nat : R(v) = <<a, i>> /\ Lies(v, a)
  <2> TAKE v \in all
  <2>1. CASE v \in Range(stays)
    <3>1. PICK a : a = Place(stays, v)
      OBVIOUS
    <3>2. a \in 1 .. n /\ v = stays[a] /\ R(v) = <<a, 0>>
      BY <1>1, <2>1, <3>1, RankFacts
    <3>3. a + 1 <= n => KeyLess(key[v], key[stays[a + 1]])
      <4>1. a + 1 <= n => a + 1 \in 1 .. n /\ a < a + 1
        BY <1>1, <3>2
      <4> QED
        BY <1>3, <3>2, <4>1
    <3>4. key[v] \in Key
      BY <1>2, <2>1
    <3>5. Lies(v, a)
      BY <1>1, <2>1, <3>2, <3>3, <3>4
    <3> HIDE DEF Lies
    <3> QED
      BY <3>2, <3>5
  <2>2. CASE v \notin Range(stays)
    <3>1. PICK l \in DOMAIN runs : v \in Range(runs[l].ids)
      BY <2>2, PlacedFacts
    <3>2. PICK a, i : a = Place(stays, l) /\ i = Place(runs[l].ids, v)
      OBVIOUS
    <3>3. a \in 0 .. n /\ i \in Nat
      <4>1. a \in 0 .. n
        BY <1>1, <3>2
      <4>2. PICK f : f = runs[l].ids
        OBVIOUS
      <4>3. Listing(f, Videos)
        BY <3>1, <4>2 DEF RunsFit
      <4>4. Place(f, v) \in 0 .. Len(f) /\ Len(f) \in Nat
        BY <4>3, ListingFacts
      <4> QED
        BY <3>2, <4>1, <4>2, <4>4
    <3>4. /\ key[v] \in Key /\ R(v) = <<a, i>>
          /\ a >= 1 => KeyLess(key[stays[a]], key[v])
          /\ a + 1 <= n => KeyLess(key[v], key[stays[a + 1]])
      BY <1>4, <3>1, <3>2
    <3>5. Lies(v, a)
      BY <2>2, <3>3, <3>4
    <3> HIDE DEF Lies
    <3> QED
      BY <3>3, <3>4, <3>5
  <2> QED
    BY <2>1, <2>2
<1>7. ASSUME NEW u \in all, NEW v \in all, RankLess(R(u), R(v)) PROVE KeyLess(key[u], key[v])
  <2>1. PICK a, i \in Nat : R(u) = <<a, i>> /\ Lies(u, a)
    BY <1>6
  <2>2. PICK b, j \in Nat : R(v) = <<b, j>> /\ Lies(v, b)
    BY <1>6
  <2>3. a < b \/ (a = b /\ i < j)
    BY <1>7, <2>1, <2>2 DEF RankLess
  <2>4. a \in 0 .. n /\ b \in 0 .. n /\ key[u] \in Key /\ key[v] \in Key
    BY <2>1, <2>2
  <2>5. CASE a < b
    <3>1. a + 1 <= n /\ a + 1 \in 1 .. n /\ b \in 1 .. n /\ (a + 1 = b \/ a + 1 < b)
      BY <1>1, <2>4, <2>5
    <3>2. KeyLess(key[u], key[stays[a + 1]])
      BY <2>1, <3>1
    <3>3. key[stays[a + 1]] \in Key /\ key[stays[b]] \in Key
      BY <1>1, <1>2, <3>1
    <3>4. KeyLess(key[u], key[stays[b]])
      <4>1. CASE a + 1 = b
        BY <3>2, <4>1
      <4>2. CASE a + 1 < b
        <5>1. KeyLess(key[stays[a + 1]], key[stays[b]])
          BY <1>3, <3>1, <4>2
        <5> QED
          BY <2>4, <3>2, <3>3, <5>1, KeyOrder
      <4> QED
        BY <3>1, <4>1, <4>2
    <3>5. CASE v \in Range(stays)
      <4>1. v = stays[b]
        BY <2>2, <3>5
      <4> QED
        BY <3>4, <4>1
    <3>6. CASE v \notin Range(stays)
      <4>1. b >= 1
        BY <3>1
      <4>2. KeyLess(key[stays[b]], key[v])
        BY <2>2, <3>6, <4>1
      <4> QED
        BY <2>4, <3>3, <3>4, <4>2, KeyOrder
    <3> QED
      BY <3>5, <3>6
  <2>6. CASE a = b /\ i < j
    <3>1. v \notin Range(stays)
      <4>1. j # 0
        BY <2>6
      <4> QED
        BY <2>2, <4>1
    <3>2. CASE u \in Range(stays)
      <4>1. u = stays[b] /\ b >= 1
        BY <2>1, <2>6, <3>2
      <4> QED
        BY <2>2, <3>1, <4>1
    <3>3. CASE u \notin Range(stays)
      <4>1. PICK l \in DOMAIN runs : u \in Range(runs[l].ids)
        BY <3>3, PlacedFacts
      <4>2. PICK m \in DOMAIN runs : v \in Range(runs[m].ids)
        BY <3>1, PlacedFacts
      <4>3. R(u) = <<Place(stays, l), Place(runs[l].ids, u)>> /\ R(v) = <<Place(stays, m), Place(runs[m].ids, v)>>
        BY <1>4, <4>1, <4>2
      <4>4. Place(stays, l) = a /\ Place(stays, m) = b /\ Place(runs[l].ids, u) = i /\ Place(runs[m].ids, v) = j
        BY <2>1, <2>2, <4>3
      <4>5. l = m
        <5>1. Open \notin Range(stays)
          BY <1>2
        <5>2. (l \in Range(stays) \/ l = Open) /\ (m \in Range(stays) \/ m = Open)
          BY DEF RunsFit
        <5>3. \A x \in Range(stays) : Place(stays, x) # 0
          BY <1>1
        <5> QED
          BY <1>1, <2>6, <4>4, <5>1, <5>2, <5>3
      <4>6. /\ key[u] = issued[l][i] /\ key[v] = issued[l][j]
            /\ i \in 1 .. Len(runs[l].ids) /\ j \in 1 .. Len(runs[l].ids)
        BY <1>4, <4>1, <4>2, <4>4, <4>5
      <4> QED
        BY <2>6, <4>6 DEF Rises
    <3> QED
      BY <3>2, <3>3
  <2> QED
    BY <2>3, <2>5, <2>6
<1> QED
  BY <1>5, <1>7


\* What commitItems leaves: the items ids come where the runs say or go, all others are as present as before, the
\* keys are distinct, and the rows that changed have a seq of their own beyond the head.
Committed(s, t, p, ids, plan, runs) ==
  /\ t \in Tx /\ t.lists = s.lists /\ t.status = s.status /\ t.target = s.target
  /\ t.seq >= s.seq
  /\ \A q \in Lists : q # p => t.items[q] = s.items[q]
  /\ Present(t.items[p]) = (Present(s.items[p]) \ Range(ids)) \cup Placed(runs)
  /\ Order(t.items[p]) = FinalOrder(Order(s.items[p]), plan, runs)
  /\ Distinct(t.items[p])
  /\ Written(t.items[p], t.seq)
  /\ \A v \in Videos : t.items[p][v] = s.items[p][v] \/ (t.items[p][v].row /\ RowSeq(t.items[p][v]) > s.seq)
  /\ \A u, v \in Videos :
       u # v /\ t.items[p][u] # s.items[p][u] /\ t.items[p][v] # s.items[p][v] =>
         RowSeq(t.items[p][u]) # RowSeq(t.items[p][v])

\* Rows that were written with keys in the order of their ranks are in the final order of the edit.
LEMMA WroteCommits ==
  ASSUME NEW s \in Tx, NEW p \in Lists, NEW ids, NEW plan, NEW runs, EditFits(s.items[p], ids, plan, runs),
         NEW w, Listing(w, Videos), Range(ids) \subseteq Range(w), Range(w) \ Range(ids) \subseteq Present(s.items[p]),
         NEW key, NEW t, WroteRows(s, t, p, w, plan, key),
         NEW stays, stays = Stays(Order(s.items[p]), plan, runs),
         \A u, v \in Range(stays) \cup Placed(runs) :
           RankLess(Rank(stays, runs, u), Rank(stays, runs, v)) => KeyLess(t.items[p][u].key, t.items[p][v].key)
  PROVE  Committed(s, t, p, ids, plan, runs)
<1>1. PICK old, new : old = s.items[p] /\ new = t.items[p]
  OBVIOUS
<1>2. t \in Tx /\ old \in Rows /\ new \in Rows /\ s.seq \in Nat
  <2>1. t \in Tx
    BY DEF WroteRows
  <2> QED
    BY <1>1, <2>1, TxFacts
<1>3. /\ Len(w) \in Nat /\ t.seq = s.seq + Len(w)
      /\ \A v \in Range(w) : Place(w, v) \in 1 .. Len(w) /\ w[Place(w, v)] = v
      /\ Range(w) \subseteq Videos
  BY ListingFacts DEF WroteRows
<1>4. /\ DOMAIN plan = Range(ids) /\ Placed(runs) \subseteq Range(ids)
      /\ \A v \in Range(ids) : plan[v].present <=> v \in Placed(runs)
  BY DEF EditFits
<1>5. Range(stays) = Present(old) \ Range(ids)
  BY <1>1, <1>2, <1>4, StaysFacts
<1>6. \A v \in Videos : v \notin Range(w) => new[v] = old[v]
  BY <1>1 DEF WroteRows
<1>7. \A v \in Range(w) :
        /\ new[v].row /\ RowSeq(new[v]) = s.seq + Place(w, v)
        /\ new[v].present = IF v \in DOMAIN plan THEN plan[v].present ELSE old[v].present
  BY <1>1 DEF WroteRows
<1>8. \A v \in Videos : new[v].present \in BOOLEAN /\ old[v].present \in BOOLEAN
  BY <1>2, RowFacts
<1>9. \A v \in Videos : v \in Present(new) <=> v \in Range(stays) \cup Placed(runs)
  <2> TAKE v \in Videos
  <2>1. (v \in Present(new) <=> new[v].present) /\ (v \in Present(old) <=> old[v].present)
    BY DEF Present
  <2>2. CASE v \notin Range(w)
    <3>1. v \notin Range(ids) /\ new[v] = old[v]
      BY <1>6, <2>2
    <3> QED
      BY <1>4, <1>5, <2>1, <3>1
  <2>3. CASE v \in Range(ids)
    <3>1. new[v].present = plan[v].present
      BY <1>4, <1>7, <2>3
    <3> QED
      BY <1>4, <1>5, <2>1, <2>3, <3>1
  <2>4. CASE v \in Range(w) \ Range(ids)
    <3>1. new[v].present = old[v].present /\ v \in Present(old)
      BY <1>1, <1>4, <1>7, <2>4
    <3> QED
      BY <1>4, <1>5, <2>1, <2>4, <3>1
  <2> QED
    BY <2>2, <2>3, <2>4
<1>10. Present(new) = Range(stays) \cup Placed(runs)
  <2>1. Present(new) \subseteq Videos /\ Present(old) \subseteq Videos
    BY <1>2, RowFacts
  <2>2. Range(stays) \cup Placed(runs) \subseteq Videos
    BY <1>3, <1>4, <1>5, <2>1
  <2> QED
    BY <1>9, <2>1, <2>2
<1>11. Order(new) = FinalOrder(Order(old), plan, runs) /\ Distinct(new)
  BY <1>1, <1>2, <1>10, KeysGiveOrder
<1>12. \A v \in Videos : new[v] = old[v] \/ (v \in Range(w) /\ new[v].row /\ RowSeq(new[v]) = s.seq + Place(w, v))
  BY <1>6, <1>7
<1>13. \A v \in Videos : new[v] = old[v] \/ (new[v].row /\ RowSeq(new[v]) > s.seq)
  <2> TAKE v \in Videos
  <2>1. CASE new[v] # old[v]
    <3>1. v \in Range(w) /\ new[v].row /\ RowSeq(new[v]) = s.seq + Place(w, v)
      BY <1>12, <2>1
    <3>2. PICK i : i = Place(w, v)
      OBVIOUS
    <3>3. i \in 1 .. Len(w)
      BY <1>3, <3>1, <3>2
    <3> QED
      BY <1>2, <1>3, <3>1, <3>2, <3>3
  <2> QED
    BY <2>1
<1>14. ASSUME NEW u \in Videos, NEW v \in Videos, u # v, new[u] # old[u], new[v] # old[v]
       PROVE  RowSeq(new[u]) # RowSeq(new[v])
  <2>1. u \in Range(w) /\ RowSeq(new[u]) = s.seq + Place(w, u) /\ v \in Range(w) /\ RowSeq(new[v]) = s.seq + Place(w, v)
    BY <1>12, <1>14
  <2>2. PICK i, j : i = Place(w, u) /\ j = Place(w, v)
    OBVIOUS
  <2>3. i \in 1 .. Len(w) /\ j \in 1 .. Len(w) /\ i # j
    BY <1>3, <1>14, <2>1, <2>2
  <2> QED
    BY <1>2, <1>3, <2>1, <2>2, <2>3
<1>15. t.seq >= s.seq
  BY <1>2, <1>3
<1> QED
  BY <1>1, <1>2, <1>5, <1>10, <1>11, <1>13, <1>14, <1>15 DEF Committed, WroteRows

\* Keys issued between the neighbours of each run put the items into the final order.
LEMMA IssuedCommits ==
  ASSUME NEW s \in Tx, NEW p \in Lists, NEW d \in Devices, NEW ids, NEW plan, NEW runs,
         EditFits(s.items[p], ids, plan, runs), Distinct(s.items[p]), Written(s.items[p], s.seq),
         NEW issued,
         \A l \in DOMAIN runs :
           Rises(issued[l], KeyOf(s, p, l), KeyOf(s, p, runs[l].upper), Len(runs[l].ids))
  PROVE  Committed(s, WriteRows(s, p, d, ids, plan, IssuedKeys(s, p, ids, runs, issued)), p, ids, plan, runs)
<1>1. PICK old : old = s.items[p]
  OBVIOUS
<1>2. PICK key : key = IssuedKeys(s, p, ids, runs, issued)
  OBVIOUS
<1>3. old \in Rows
  BY <1>1, TxFacts
<1>4. /\ Listing(ids, Videos) /\ DOMAIN plan = Range(ids) /\ Placed(runs) \subseteq Range(ids)
      /\ \A v \in Range(ids) : plan[v] \in Planned /\ (plan[v].mem \/ plan[v].pos)
      /\ \A v \in Range(ids) : plan[v].present <=> v \in Placed(runs)
      /\ \A v \in Range(ids) : ~plan[v].present => v \in Present(old)
      /\ RunsFit(Stays(Order(old), plan, runs), runs)
  BY <1>1 DEF EditFits
<1>5. PICK stays : stays = Stays(Order(old), plan, runs)
  OBVIOUS
<1>6. /\ Listing(stays, Videos) /\ Range(stays) = Present(old) \ Range(ids)
      /\ Range(stays) \cap Placed(runs) = {}
      /\ \A u, v \in Range(stays) : Place(stays, u) < Place(stays, v) <=> ItemBefore(old, u, v)
  BY <1>3, <1>4, <1>5, StaysFacts
<1>7. \A v \in Range(ids) :
        key[v] = IF v \in Placed(runs) THEN issued[RunOf(runs, v)][Place(runs[RunOf(runs, v)].ids, v)] ELSE old[v].key
  BY <1>1, <1>2 DEF IssuedKeys
<1> DEFINE all == Range(stays) \cup Placed(runs)
           made == [v \in all |-> IF v \in Placed(runs) THEN key[v] ELSE old[v].key]
<1>8. \A l \in DOMAIN runs :
        Rises(issued[l], IF l = Open THEN Open ELSE old[l].key,
              IF runs[l].upper = Open THEN Open ELSE old[runs[l].upper].key, Len(runs[l].ids))
  BY <1>1 DEF KeyOf
<1>9. /\ \A v \in Range(stays) : made[v] = old[v].key
      /\ \A v \in Placed(runs) : made[v] = key[v] /\ key[v] = issued[RunOf(runs, v)][Place(runs[RunOf(runs, v)].ids, v)]
  BY <1>4, <1>6, <1>7
<1>10. /\ \A v \in Placed(runs) : made[v] \in Key
       /\ \A u, v \in all : RankLess(Rank(stays, runs, u), Rank(stays, runs, v)) => KeyLess(made[u], made[v])
  <2>1. PICK m : m = made
    OBVIOUS
  <2>2. /\ \A v \in Range(stays) : m[v] = old[v].key
        /\ \A v \in Placed(runs) : m[v] = issued[RunOf(runs, v)][Place(runs[RunOf(runs, v)].ids, v)]
    BY <1>9, <2>1
  <2>3. RunsFit(stays, runs) /\ Range(stays) \subseteq Present(old) /\ Distinct(old)
    BY <1>1, <1>4, <1>5, <1>6
  <2>4. /\ \A v \in Placed(runs) : m[v] \in Key
        /\ \A u, v \in Range(stays) \cup Placed(runs) :
             RankLess(Rank(stays, runs, u), Rank(stays, runs, v)) => KeyLess(m[u], m[v])
    BY <1>3, <1>6, <1>8, <2>2, <2>3, IssuedRise
  <2> QED
    BY <2>1, <2>4
<1>11. \A v \in Range(ids) : key[v] \in Key
  <2> TAKE v \in Range(ids)
  <2>1. CASE v \in Placed(runs)
    BY <1>9, <1>10, <2>1
  <2>2. CASE v \notin Placed(runs)
    <3>1. v \in Present(old) /\ key[v] = old[v].key
      BY <1>4, <1>7, <2>2
    <3> QED
      BY <1>3, <3>1, RowFacts
  <2> QED
    BY <2>1, <2>2
<1>12. PICK t : t = WriteRows(s, p, d, ids, plan, key)
  OBVIOUS
<1>13. WroteRows(s, t, p, ids, plan, key)
  <2>1. /\ \A v \in DOMAIN plan : plan[v] \in Planned /\ (plan[v].mem \/ plan[v].pos)
        /\ \A v \in Range(ids) : v \notin DOMAIN plan => s.items[p][v].row /\ key[v] # s.items[p][v].key
    BY <1>4
  <2> QED
    BY <1>4, <1>11, <1>12, <2>1, WriteRowsFacts
<1>14. \A v \in all : t.items[p][v].key = made[v]
  <2> TAKE v \in all
  <2>1. CASE v \in Placed(runs)
    <3>1. t.items[p][v].key = key[v]
      BY <1>4, <1>13, <2>1 DEF WroteRows
    <3> QED
      BY <1>9, <2>1, <3>1
  <2>2. CASE v \notin Placed(runs)
    <3>1. v \in Range(stays) /\ v \notin Range(ids) /\ v \in Videos
      BY <1>6, <2>2, ListingFacts
    <3>2. t.items[p][v] = old[v]
      BY <1>1, <1>13, <3>1 DEF WroteRows
    <3> QED
      BY <1>9, <3>1, <3>2
  <2> QED
    BY <2>1, <2>2
<1>15. \A u, v \in Range(stays) \cup Placed(runs) :
         RankLess(Rank(stays, runs, u), Rank(stays, runs, v)) => KeyLess(t.items[p][u].key, t.items[p][v].key)
  <2> HIDE DEF made
  <2> QED
    BY <1>10, <1>14
<1>16. Range(ids) \ Range(ids) \subseteq Present(s.items[p]) /\ Range(ids) \subseteq Range(ids)
  OBVIOUS
<1>17. stays = Stays(Order(s.items[p]), plan, runs)
  BY <1>1, <1>5
<1>18. Committed(s, t, p, ids, plan, runs)
  BY <1>4, <1>13, <1>15, <1>16, <1>17, WroteCommits
<1> QED
  BY <1>2, <1>12, <1>18


\* Two lists that share nothing, one after the other.
LEMMA JoinedListings ==
  ASSUME NEW S, NEW f, NEW g, Listing(f, S), Listing(g, S), Range(f) \cap Range(g) = {}
  PROVE  /\ Listing(f \o g, S) /\ Range(f \o g) = Range(f) \cup Range(g) /\ Len(f \o g) = Len(f) + Len(g)
         /\ \A v \in Range(f) : Place(f \o g, v) = Place(f, v)
         /\ \A v \in Range(g) : Place(f \o g, v) = Len(f) + Place(g, v)
<1>1. f \in Seq(S) /\ g \in Seq(S)
  BY DEF Listing
<1>2. PICK h : h = f \o g
  OBVIOUS
<1>3. PICK m, n : m = Len(f) /\ n = Len(g)
  OBVIOUS
<1>4. /\ m \in Nat /\ DOMAIN f = 1 .. m
      /\ \A i \in 1 .. m : f[i] \in S /\ f[i] \in Range(f) /\ Place(f, f[i]) = i
      /\ \A v \in Range(f) : Place(f, v) \in 1 .. m /\ f[Place(f, v)] = v
  BY <1>3, ListingFacts
<1>5. /\ n \in Nat /\ DOMAIN g = 1 .. n
      /\ \A i \in 1 .. n : g[i] \in S /\ g[i] \in Range(g) /\ Place(g, g[i]) = i
      /\ \A v \in Range(g) : Place(g, v) \in 1 .. n /\ g[Place(g, v)] = v
  BY <1>3, ListingFacts
<1>6. /\ h \in Seq(S) /\ Len(h) = m + n /\ DOMAIN h = 1 .. m + n
      /\ \A i \in 1 .. m + n : h[i] = IF i <= m THEN f[i] ELSE g[i - m]
  BY <1>1, <1>2, <1>3, ConcatProperties, LenProperties
<1>7. \A i \in 1 .. m + n : IF i <= m THEN i \in 1 .. m ELSE i - m \in 1 .. n
  BY <1>4, <1>5
<1>8. \A i \in 1 .. m + n : IF i <= m THEN h[i] = f[i] /\ h[i] \in Range(f) /\ Place(f, h[i]) = i
                            ELSE h[i] = g[i - m] /\ h[i] \in Range(g) /\ Place(g, h[i]) = i - m
  BY <1>4, <1>5, <1>6, <1>7
<1>9. \A i, j \in 1 .. m + n : h[i] = h[j] => i = j
  <2> TAKE i, j \in 1 .. m + n
  <2> HAVE h[i] = h[j]
  <2>1. CASE i <= m /\ j <= m
    BY <1>8, <2>1
  <2>2. CASE ~(i <= m) /\ ~(j <= m)
    <3>1. i - m = j - m
      BY <1>8, <2>2
    <3> QED
      BY <1>4, <3>1
  <2>3. CASE i <= m /\ ~(j <= m)
    BY <1>8, <2>3
  <2>4. CASE ~(i <= m) /\ j <= m
    BY <1>8, <2>4
  <2> QED
    BY <2>1, <2>2, <2>3, <2>4
<1>10. Listing(h, S)
  BY <1>6, <1>9 DEF Listing, IsInjective
<1>11. \A i \in 1 .. m + n : h[i] \in Range(h) /\ Place(h, h[i]) = i
  BY <1>6, <1>10, ListingFacts
<1>12. ASSUME NEW v \in Range(f) PROVE v \in Range(h) /\ Place(h, v) = Place(f, v)
  <2>1. PICK i \in 1 .. m : i = Place(f, v) /\ f[i] = v
    BY <1>4
  <2>2. i \in 1 .. m + n /\ i <= m
    BY <1>4, <1>5
  <2> QED
    BY <1>6, <1>11, <2>1, <2>2
<1>13. ASSUME NEW v \in Range(g) PROVE v \in Range(h) /\ Place(h, v) = m + Place(g, v)
  <2>1. PICK i \in 1 .. n : i = Place(g, v) /\ g[i] = v
    BY <1>5
  <2>2. PICK j : j = m + i
    OBVIOUS
  <2>3. j \in 1 .. m + n /\ ~(j <= m) /\ j - m = i
    BY <1>4, <1>5, <2>2
  <2>4. h[j] = v
    BY <1>6, <2>1, <2>3
  <2> QED
    BY <1>11, <2>1, <2>2, <2>3, <2>4
<1>14. Range(h) \subseteq Range(f) \cup Range(g)
  <2> SUFFICES ASSUME NEW v \in Range(h) PROVE v \in Range(f) \cup Range(g)
    OBVIOUS
  <2>1. PICK i \in 1 .. m + n : v = h[i]
    BY <1>6 DEF Range
  <2> QED
    BY <1>8, <2>1
<1> QED
  BY <1>2, <1>3, <1>6, <1>10, <1>12, <1>13, <1>14

\* Fresh keys for the whole playlist put the items into the same final order.
LEMMA RebalanceCommits ==
  ASSUME NEW s \in Tx, NEW p \in Lists, NEW d \in Devices, NEW ids, NEW plan, NEW runs,
         EditFits(s.items[p], ids, plan, runs), Written(s.items[p], s.seq)
  PROVE  Committed(s, Rebalance(s, p, d, ids, plan, FinalOrder(Order(s.items[p]), plan, runs)), p, ids, plan, runs)
<1>1. PICK old : old = s.items[p]
  OBVIOUS
<1>2. old \in Rows
  BY <1>1, TxFacts
<1>3. PICK order : order = FinalOrder(Order(old), plan, runs)
  OBVIOUS
<1>4. /\ Listing(ids, Videos) /\ DOMAIN plan = Range(ids) /\ Placed(runs) \subseteq Range(ids)
      /\ \A v \in Range(ids) : plan[v] \in Planned /\ (plan[v].mem \/ plan[v].pos)
      /\ \A v \in Range(ids) : plan[v].present <=> v \in Placed(runs)
      /\ \A v \in Range(ids) : ~plan[v].present => v \in Present(old)
      /\ RunsFit(Stays(Order(old), plan, runs), runs)
  BY <1>1 DEF EditFits
<1>5. PICK stays : stays = Stays(Order(old), plan, runs)
  OBVIOUS
<1>6. /\ Listing(stays, Videos) /\ Range(stays) = Present(old) \ Range(ids)
      /\ Range(stays) \cap Placed(runs) = {}
  BY <1>2, <1>4, <1>5, StaysFacts
<1>7. /\ Listing(order, Videos) /\ Range(order) = Range(stays) \cup Placed(runs)
      /\ \A u, v \in Range(stays) \cup Placed(runs) :
           Place(order, u) < Place(order, v) <=> RankLess(Rank(stays, runs, u), Rank(stays, runs, v))
  BY <1>3, <1>4, <1>5, <1>6, FinalOrderFacts
<1>8. PICK n : n = Len(order)
  OBVIOUS
<1>9. n \in Nat /\ DOMAIN order = 1 .. n /\ \A v \in Range(order) : Place(order, v) \in 1 .. n /\ order[Place(order, v)] = v
  BY <1>7, <1>8, ListingFacts
<1>10. PICK fresh : fresh = KeysBetween(Open, Open, n)
  OBVIOUS
<1>11. Rises(fresh, Open, Open, n)
  <2>1. Open \in Bound
    BY DEF Bound
  <2>2. Whole(Smallest) \in Key
    BY KeyAssumption DEF Key, Whole, Fraction
  <2>3. Valid(Open)
    BY <2>2, OpenAssumption DEF Valid
  <2> QED
    BY <1>9, <1>10, <2>1, <2>3, KeysBetweenFacts
<1>12. PICK key : key = FreshKeys(s, p, ids, order, fresh)
  OBVIOUS
<1>13. /\ \A v \in Range(order) : key[v] = fresh[Place(order, v)]
       /\ \A v \in Range(ids) : v \notin Range(order) => key[v] = old[v].key
  BY <1>1, <1>12 DEF FreshKeys
<1>14. \A v \in Range(order) : key[v] \in Key
  <2> TAKE v \in Range(order)
  <2>1. PICK i : i = Place(order, v)
    OBVIOUS
  <2>2. fresh \in Seq(Key) /\ Len(fresh) = n /\ i \in 1 .. n
    BY <1>9, <1>11, <2>1 DEF Rises
  <2> QED
    BY <1>13, <2>1, <2>2, ElementOfSeq
<1>15. \A u, v \in Range(order) : Place(order, u) < Place(order, v) => KeyLess(key[u], key[v])
  BY <1>9, <1>11, <1>13 DEF Rises
<1> DEFINE T == {v \in Range(order) : v \in DOMAIN plan \/ key[v] # s.items[p][v].key}
           U == Range(ids) \ Range(order)
<1>16. PICK f, g : f = Among(order, T) /\ g = Among(ids, U)
  OBVIOUS
<1>17. PICK w : w = f \o g
  OBVIOUS
<1>18. Listing(f, Videos) /\ Range(f) = T /\ Listing(g, Videos) /\ Range(g) = U
  <2>1. Listing(f, Videos) /\ Range(f) = Range(order) \cap T
    BY <1>7, <1>16, AmongFacts
  <2>2. Listing(g, Videos) /\ Range(g) = Range(ids) \cap U
    BY <1>4, <1>16, AmongFacts
  <2> QED
    BY <2>1, <2>2
<1>19. Listing(w, Videos) /\ Range(w) = T \cup U
  <2>1. T \cap U = {}
    OBVIOUS
  <2> HIDE DEF T, U
  <2>2. Range(f) \cap Range(g) = {} /\ Listing(f, Videos) /\ Listing(g, Videos)
    BY <1>18, <2>1
  <2>3. Listing(f \o g, Videos)
    BY <2>2, JoinedListings
  <2>4. Range(f \o g) = Range(f) \cup Range(g)
    BY <2>2, <2>3, JoinedListings
  <2> QED
    BY <1>17, <1>18, <2>3, <2>4
<1>20. Range(ids) \subseteq Range(w)
  BY <1>4, <1>19
<1>21. Range(w) \ Range(ids) \subseteq Present(old)
  BY <1>4, <1>6, <1>7, <1>19
<1>22. \A v \in Range(w) : key[v] \in Key
  <2> TAKE v \in Range(w)
  <2>1. CASE v \in Range(order)
    BY <1>14, <2>1
  <2>2. CASE v \notin Range(order)
    <3>1. v \in Range(ids) /\ v \notin Placed(runs)
      BY <1>7, <1>19, <2>2
    <3>2. v \in Present(old) /\ key[v] = old[v].key
      BY <1>4, <1>13, <2>2, <3>1
    <3> QED
      BY <1>2, <3>2, RowFacts
  <2> QED
    BY <2>1, <2>2
<1>23. \A v \in Range(w) : v \notin DOMAIN plan => s.items[p][v].row /\ key[v] # s.items[p][v].key
  <2> TAKE v \in Range(w)
  <2> HAVE v \notin DOMAIN plan
  <2>1. v \in T /\ v \in Present(old)
    BY <1>4, <1>19, <1>21
  <2> QED
    BY <1>1, <1>2, <2>1, RowFacts
<1>24. PICK t : t = WriteRows(s, p, d, w, plan, key)
  OBVIOUS
<1>25. t = Rebalance(s, p, d, ids, plan, FinalOrder(Order(s.items[p]), plan, runs))
  BY <1>1, <1>3, <1>8, <1>10, <1>12, <1>16, <1>17, <1>24 DEF Rebalance, Rekeyed
<1>26. WroteRows(s, t, p, w, plan, key)
  <2>1. \A v \in DOMAIN plan : plan[v] \in Planned /\ (plan[v].mem \/ plan[v].pos)
    BY <1>4
  <2> HIDE DEF T, U
  <2> QED
    BY <1>19, <1>22, <1>23, <1>24, <2>1, WriteRowsFacts
<1>27. \A v \in Range(order) : t.items[p][v].key = key[v]
  <2> TAKE v \in Range(order)
  <2>1. CASE v \in Range(w)
    BY <1>26, <2>1 DEF WroteRows
  <2>2. CASE v \notin Range(w)
    <3>1. key[v] = old[v].key
      BY <1>1, <1>19, <2>2
    <3>2. v \in Videos
      BY <1>7, ListingFacts
    <3>3. t.items[p][v] = old[v]
      BY <1>1, <1>26, <2>2, <3>2 DEF WroteRows
    <3> QED
      BY <3>1, <3>3
  <2> QED
    BY <2>1, <2>2
<1>28. \A u, v \in Range(stays) \cup Placed(runs) :
         RankLess(Rank(stays, runs, u), Rank(stays, runs, v)) => KeyLess(t.items[p][u].key, t.items[p][v].key)
  BY <1>7, <1>15, <1>27
<1>29. Committed(s, t, p, ids, plan, runs)
  <2>1. stays = Stays(Order(s.items[p]), plan, runs) /\ Range(w) \ Range(ids) \subseteq Present(s.items[p])
    BY <1>1, <1>5, <1>21
  <2> QED
    BY <1>19, <1>20, <1>26, <1>28, <2>1, WroteCommits
<1> QED
  BY <1>25, <1>29

\* commitItems.
LEMMA CommitFacts ==
  ASSUME NEW s \in Tx, NEW p \in Lists, NEW d \in Devices, NEW ids, NEW plan, NEW runs,
         EditFits(s.items[p], ids, plan, runs), Distinct(s.items[p]), Written(s.items[p], s.seq)
  PROVE  Committed(s, CommitItems(s, p, d, ids, plan, runs), p, ids, plan, runs)
<1> DEFINE issued == [l \in DOMAIN runs |-> TryKeysBetween(KeyOf(s, p, l), KeyOf(s, p, runs[l].upper), Len(runs[l].ids))]
<1>1. CommitItems(s, p, d, ids, plan, runs) = WriteItems(s, p, d, ids, plan, runs, issued)
  BY DEF CommitItems
<1>2. CASE Open \in Range(issued)
  <2>1. WriteItems(s, p, d, ids, plan, runs, issued) = Rebalance(s, p, d, ids, plan, FinalOrder(Order(s.items[p]), plan, runs))
    BY <1>2 DEF WriteItems
  <2> HIDE DEF issued
  <2> QED
    BY <1>1, <2>1, RebalanceCommits
<1>3. CASE Open \notin Range(issued)
  <2>1. WriteItems(s, p, d, ids, plan, runs, issued) = WriteRows(s, p, d, ids, plan, IssuedKeys(s, p, ids, runs, issued))
    BY <1>3 DEF WriteItems
  <2>2. ASSUME NEW l \in DOMAIN runs
        PROVE  Rises(issued[l], KeyOf(s, p, l), KeyOf(s, p, runs[l].upper), Len(runs[l].ids))
    <3>1. PICK a, b, n : a = KeyOf(s, p, l) /\ b = KeyOf(s, p, runs[l].upper) /\ n = Len(runs[l].ids)
      OBVIOUS
    <3>2. PICK stays : stays = Stays(Order(s.items[p]), plan, runs)
      OBVIOUS
    <3>3. s.items[p] \in Rows
      BY TxFacts
    <3>4. DOMAIN plan = Range(ids) /\ Placed(runs) \subseteq Range(ids)
          /\ \A v \in Range(ids) : plan[v].present <=> v \in Placed(runs)
      BY DEF EditFits
    <3>5. Listing(stays, Videos) /\ Range(stays) \subseteq Present(s.items[p])
      <4>1. PICK old : old = s.items[p]
        OBVIOUS
      <4>2. Listing(stays, Videos) /\ Range(stays) = Present(old) \ Range(ids)
        BY <3>2, <3>3, <3>4, <4>1, StaysFacts
      <4> QED
        BY <4>1, <4>2
    <3>6. RunsFit(stays, runs)
      BY <3>2 DEF EditFits
    <3>7. \A v \in Range(stays) : s.items[p][v].key \in Key
      BY <3>3, <3>5, RowFacts
    <3>8. a \in Bound
      <4>1. l \in Range(stays) \/ l = Open
        BY <3>6 DEF RunsFit
      <4> QED
        BY <3>1, <3>7, <4>1 DEF KeyOf, Bound
    <3>9. b \in Bound
      <4>1. runs[l].upper = At(stays, Place(stays, l) + 1)
        BY <3>6 DEF RunsFit
      <4>2. PICK i : i = Place(stays, l) + 1
        OBVIOUS
      <4>3. runs[l].upper \in Range(stays) \/ runs[l].upper = Open
        BY <3>5, <4>1, <4>2, ListingFacts DEF At
      <4> QED
        BY <3>1, <3>7, <4>3 DEF KeyOf, Bound
    <3>10. n \in Nat
      <4>1. PICK f : f = runs[l].ids
        OBVIOUS
      <4>2. Listing(f, Videos)
        BY <3>6, <4>1 DEF RunsFit
      <4> QED
        BY <3>1, <4>1, <4>2, ListingFacts
    <3>11. PICK keys : keys = KeysBetween(a, b, n)
      OBVIOUS
    <3>12. issued[l] = ShortKeys(keys)
      BY <3>1, <3>11 DEF TryKeysBetween
    <3>13. ShortKeys(keys) # Open
      <4>1. issued[l] \in Range(issued)
        BY DEF Range
      <4> HIDE DEF issued
      <4> QED
        BY <1>3, <3>12, <4>1
    <3>14. Fit(keys) /\ issued[l] = keys
      BY <3>12, <3>13 DEF ShortKeys
    <3>15. Open \notin Range(keys)
      BY <3>14 DEF Fit, Range
    <3>16. Rises(keys, a, b, n)
      BY <3>8, <3>9, <3>10, <3>11, <3>15, KeysBetweenFacts
    <3> HIDE DEF issued
    <3> QED
      BY <3>1, <3>14, <3>16
  <2>3. Committed(s, WriteRows(s, p, d, ids, plan, IssuedKeys(s, p, ids, runs, issued)), p, ids, plan, runs)
    <3> HIDE DEF issued
    <3> QED
      BY <2>2, IssuedCommits
  <2> HIDE DEF issued
  <2> QED
    BY <1>1, <2>1, <2>3
<1> QED
  BY <1>2, <1>3


-----------------------------------------------------------------------------
(* What every transaction keeps, and what it tells. *)

NoRows == [v \in Videos |-> NoItem]

\* item_count is what is present; what is not live has no rows; a copy exists only of what is deleted.
CountRight(k, rows) == k.row => k.count = Cardinality(Present(rows))
NothingLeft(k, rows) == ~k.row \/ k.deleted => rows = NoRows
CopyOfDead(s, p) == \A q \in Range(Chain[p]) : s.lists[q].row => Dead(s.lists, p)

Sound(s) ==
  /\ s \in Tx
  /\ \A p \in Lists :
       /\ Written(s.items[p], s.seq)
       /\ Distinct(s.items[p])
       /\ CountRight(s.lists[p], s.items[p])
       /\ NothingLeft(s.lists[p], s.items[p])
       /\ CopyOfDead(s, p)

\* Only the rows of one playlist change: each one has a seq of its own beyond the head, or it goes and its playlist tells.
Tells(s, t, p) ==
  /\ \A q \in Lists : q # p => t.items[q] = s.items[q]
  /\ \A v \in Videos : t.items[p][v] # s.items[p][v] =>
       /\ t.items[p][v].row => RowSeq(t.items[p][v]) > s.seq
       /\ ~t.items[p][v].row => t.lists[p].header.seq > s.seq
       /\ \A u \in Videos : u # v /\ t.items[p][u] # s.items[p][u] /\ t.items[p][v].row =>
            RowSeq(t.items[p][v]) # RowSeq(t.items[p][u])
Steps(s, t) == Sound(t) /\ t.seq >= s.seq /\ \E p \in Lists : Tells(s, t, p)

SameTx(t, u) == t \in Tx /\ u \in Tx /\ u.seq = t.seq /\ u.lists = t.lists /\ u.items = t.items

\* Status and target of a transaction are no part of what it keeps and tells.
LEMMA SameSteps ==
  ASSUME NEW s, NEW t, NEW u, SameTx(t, u), Steps(s, t)
  PROVE  Steps(s, u)
<1>1. u \in Tx /\ u.seq = t.seq /\ u.lists = t.lists /\ u.items = t.items
  BY DEF SameTx
<1>2. Sound(u)
  BY <1>1 DEF Steps, Sound, CopyOfDead
<1>3. \E p \in Lists : Tells(s, u, p)
  BY <1>1 DEF Steps, Tells
<1>4. u.seq >= s.seq
  BY <1>1 DEF Steps
<1> QED
  BY <1>2, <1>3, <1>4 DEF Steps

\* A status changes nothing else.
LEMMA ResultFacts ==
  ASSUME NEW t \in Tx, NEW status \in Statuses
  PROVE  /\ SameTx(t, Result(t, status)) /\ Result(t, status).status = status /\ Result(t, status).target = t.target
<1>1. PICK u : u = Result(t, status)
  OBVIOUS
<1>2. u = [seq |-> t.seq, lists |-> t.lists, items |-> t.items, status |-> status, target |-> t.target]
  BY <1>1, TxFacts DEF Result
<1>3. u \in Tx
  BY <1>2, TxFacts DEF Tx
<1> QED
  BY <1>1, <1>2, <1>3 DEF SameTx

\* An op that writes nothing keeps everything.
LEMMA NothingSteps ==
  ASSUME NEW s, Sound(s)
  PROVE  Steps(s, s)
<1>1. s.target \in Lists
  BY TxFacts DEF Sound
<1>2. Tells(s, s, s.target)
  BY DEF Tells
<1>3. s.seq >= s.seq
  BY TxFacts DEF Sound
<1> QED
  BY <1>1, <1>2, <1>3 DEF Steps

\* What the type of a playlist row says.
LEMMA ListFacts ==
  ASSUME NEW s \in Tx, NEW p \in Lists
  PROVE  /\ s.lists[p] \in PlaylistRecord \/ s.lists[p] = NoList
         /\ s.lists[p].row \in BOOLEAN
         /\ s.lists[p].row <=> s.lists[p] \in PlaylistRecord
         /\ s.items[p] \in Rows
         /\ Dead(s.lists, p) <=> s.lists[p].row /\ s.lists[p].deleted
         /\ Live(s.lists, p) <=> s.lists[p].row /\ ~s.lists[p].deleted
<1>1. s.lists \in [Lists -> PlaylistRecord \cup {NoList}] /\ s.items \in [Lists -> Rows]
  BY TxFacts
<1>2. PICK k : k = s.lists[p]
  OBVIOUS
<1>3. k \in PlaylistRecord \/ k = NoList
  BY <1>1, <1>2
<1>4. k \in PlaylistRecord => k.row = TRUE
  BY DEF PlaylistRecord
<1>5. NoList.row = FALSE
  BY DEF NoList
<1>6. DOMAIN s.lists = Lists
  BY <1>1
<1>7. s.items[p] \in Rows
  BY <1>1
<1>8. Dead(s.lists, p) <=> s.lists[p].row /\ s.lists[p].deleted
  BY <1>6 DEF Dead
<1>9. Live(s.lists, p) <=> s.lists[p].row /\ ~s.lists[p].deleted
  BY <1>6 DEF Live
<1> QED
  BY <1>2, <1>3, <1>4, <1>5, <1>7, <1>8, <1>9

\* An id is in no chain twice, and not in its own.
LEMMA ChainFacts ==
  ASSUME NEW p \in Lists
  PROVE  /\ Chain[p] \in Seq(Lists) /\ Range(Chain[p]) \subseteq Lists
         /\ p \notin Range(Chain[p])
         /\ \A i, j \in DOMAIN Chain[p] : Chain[p][i] = Chain[p][j] => i = j
         /\ \A i, j \in DOMAIN Chain[p] : i < j => Chain[p][j] \in Range(Chain[Chain[p][i]])
         /\ \A i \in DOMAIN Chain[p] : \A q \in Range(Chain[Chain[p][i]]) : \E j \in DOMAIN Chain[p] : i < j /\ q = Chain[p][j]
<1>1. PICK c : c = Chain[p]
  OBVIOUS
<1>2. c \in Seq(Lists) /\ \A i \in DOMAIN c : Chain[c[i]] = SubSeq(c, i + 1, Len(c))
  BY <1>1, ChainAssumption
<1>3. /\ Len(c) \in Nat /\ DOMAIN c = 1 .. Len(c) /\ \A i \in DOMAIN c : c[i] \in Lists
  BY <1>2, LenProperties
<1>4. Range(c) \subseteq Lists
  BY <1>3 DEF Range
<1>5. ASSUME NEW i \in DOMAIN c
      PROVE  /\ Len(Chain[c[i]]) = Len(c) - i /\ DOMAIN Chain[c[i]] = 1 .. Len(c) - i
             /\ \A k \in 1 .. Len(c) - i : Chain[c[i]][k] = c[i + k]
  <2>1. PICK k : k = i + 1
    OBVIOUS
  <2>2. k \in 1 .. Len(c) + 1 /\ Chain[c[i]] = SubSeq(c, k, Len(c))
    BY <1>2, <1>3, <2>1
  <2>3. /\ Len(SubSeq(c, k, Len(c))) = Len(c) - k + 1
        /\ \A m \in 1 .. (Len(c) - k + 1) : SubSeq(c, k, Len(c))[m] = c[k + m - 1]
        /\ SubSeq(c, k, Len(c)) \in Seq(Lists)
    <3>1. \A m \in k .. Len(c) : c[m] \in Lists
      BY <1>3, <2>2
    <3>2. k \in Int /\ Len(c) \in Int
      BY <1>3, <2>2
    <3>3. k <= Len(c) + 1
      BY <1>3, <2>2
    <3>4. SubSeq(c, k, Len(c)) \in Seq(Lists) /\ Len(SubSeq(c, k, Len(c))) = IF k <= Len(c) THEN Len(c) - k + 1 ELSE 0
      BY <1>2, <1>3, <2>2, <3>1, SubSeqProperties
    <3>5. \A m \in 1 .. (Len(c) - k + 1) : SubSeq(c, k, Len(c))[m] = c[k + m - 1]
      BY <1>2, <1>3, <2>2, <3>1, SubSeqProperties
    <3> QED
      BY <1>3, <2>2, <3>3, <3>4, <3>5
  <2>4. Len(c) - k + 1 = Len(c) - i
    BY <1>3, <2>1
  <2>5. \A m \in 1 .. Len(c) - i : k + m - 1 = i + m
    BY <1>3, <2>1
  <2>6. DOMAIN SubSeq(c, k, Len(c)) = 1 .. Len(c) - i
    BY <2>3, <2>4, LenProperties
  <2> QED
    BY <2>2, <2>3, <2>4, <2>5, <2>6
<1>6. p \notin Range(c)
  <2> SUFFICES ASSUME NEW i \in DOMAIN c, p = c[i] PROVE FALSE
    BY DEF Range
  <2>1. Len(c) = Len(c) - i
    BY <1>1, <1>5
  <2> QED
    BY <1>3, <2>1
<1>7. \A i, j \in DOMAIN c : c[i] = c[j] => i = j
  <2> TAKE i, j \in DOMAIN c
  <2> HAVE c[i] = c[j]
  <2>1. Len(c) - i = Len(c) - j
    BY <1>5
  <2> QED
    BY <1>3, <2>1
<1>8. \A i, j \in DOMAIN c : i < j => c[j] \in Range(Chain[c[i]])
  <2> TAKE i, j \in DOMAIN c
  <2> HAVE i < j
  <2>1. PICK k : k = j - i
    OBVIOUS
  <2>2. k \in 1 .. Len(c) - i /\ i + k = j
    BY <1>3, <2>1
  <2>3. k \in DOMAIN Chain[c[i]] /\ Chain[c[i]][k] = c[j]
    BY <1>5, <2>2
  <2> QED
    BY <2>3 DEF Range
<1>9. \A i \in DOMAIN c : \A q \in Range(Chain[c[i]]) : \E j \in DOMAIN c : i < j /\ q = c[j]
  <2> TAKE i \in DOMAIN c
  <2> TAKE q \in Range(Chain[c[i]])
  <2>1. PICK k \in 1 .. Len(c) - i : q = Chain[c[i]][k]
    BY <1>5 DEF Range
  <2>2. PICK j : j = i + k
    OBVIOUS
  <2>3. j \in DOMAIN c /\ i < j /\ q = c[j]
    BY <1>3, <1>5, <2>1, <2>2
  <2> QED
    BY <2>3
<1> QED
  BY <1>1, <1>2, <1>4, <1>6, <1>7, <1>8, <1>9


-----------------------------------------------------------------------------
(* An edit of one run: a block of ids at one place. *)

\* A slice of a list without repetitions.
LEMMA SliceFacts ==
  ASSUME NEW S, NEW list, Listing(list, S), NEW a \in Nat, NEW b \in Nat, a >= 1, b <= Len(list), a <= b + 1
  PROVE  LET f == SubSeq(list, a, b)
         IN  /\ Listing(f, S) /\ Len(f) = b - a + 1
             /\ Range(f) = {v \in Range(list) : a <= Place(list, v) /\ Place(list, v) <= b}
             /\ \A v \in Range(f) : Place(f, v) = Place(list, v) - a + 1
<1>1. PICK f : f = SubSeq(list, a, b)
  OBVIOUS
<1>2. PICK n : n = Len(list)
  OBVIOUS
<1>3. /\ n \in Nat /\ DOMAIN list = 1 .. n
      /\ \A i \in 1 .. n : list[i] \in S /\ list[i] \in Range(list) /\ Place(list, list[i]) = i
      /\ \A v \in Range(list) : Place(list, v) \in 1 .. n /\ list[Place(list, v)] = v
  BY <1>2, ListingFacts
<1>4. PICK m : m = b - a + 1
  OBVIOUS
<1>5. m \in Nat
  BY <1>4
<1>6. f \in Seq(S) /\ Len(f) = m /\ \A i \in 1 .. m : f[i] = list[a + i - 1]
  <2>1. \A i \in a .. b : list[i] \in S
    BY <1>2, <1>3
  <2>2. a \in Int /\ b \in Int
    OBVIOUS
  <2>3. f \in Seq(S) /\ Len(f) = IF a <= b THEN b - a + 1 ELSE 0
    BY <1>1, <2>1, <2>2, SubSeqProperties
  <2>4. \A i \in 1 .. b - a + 1 : f[i] = list[a + i - 1]
    BY <1>1, <2>1, <2>2, SubSeqProperties
  <2> QED
    BY <1>4, <2>3, <2>4
<1>7. DOMAIN f = 1 .. m
  BY <1>6, LenProperties
<1>8. \A i \in 1 .. m : a + i - 1 \in 1 .. n /\ a <= a + i - 1 /\ a + i - 1 <= b
  BY <1>2, <1>3, <1>4
<1>9. \A i \in 1 .. m : f[i] \in Range(list) /\ Place(list, f[i]) = a + i - 1
  BY <1>3, <1>6, <1>8
<1>10. \A i, j \in 1 .. m : f[i] = f[j] => i = j
  <2> TAKE i, j \in 1 .. m
  <2> HAVE f[i] = f[j]
  <2>1. a + i - 1 = a + j - 1
    BY <1>9
  <2> QED
    BY <2>1
<1>11. Listing(f, S)
  BY <1>6, <1>7, <1>10 DEF Listing, IsInjective
<1>12. ASSUME NEW v \in Range(f)
       PROVE  v \in Range(list) /\ a <= Place(list, v) /\ Place(list, v) <= b /\ Place(f, v) = Place(list, v) - a + 1
  <2>1. PICK i \in 1 .. m : v = f[i]
    BY <1>7 DEF Range
  <2>2. Place(f, v) = i
    BY <1>7, <1>11, <2>1, ListingFacts
  <2>3. v \in Range(list) /\ Place(list, v) = a + i - 1
    BY <1>9, <2>1
  <2>4. a + i - 1 - a + 1 = i
    OBVIOUS
  <2> QED
    BY <1>8, <2>2, <2>3, <2>4
<1>13. ASSUME NEW v \in Range(list), a <= Place(list, v), Place(list, v) <= b PROVE v \in Range(f)
  <2>1. PICK k : k = Place(list, v)
    OBVIOUS
  <2>2. PICK i : i = k - a + 1
    OBVIOUS
  <2>3. k \in 1 .. n /\ list[k] = v /\ a <= k /\ k <= b
    BY <1>3, <1>13, <2>1
  <2>4. i \in 1 .. m /\ a + i - 1 = k
    BY <1>4, <2>2, <2>3
  <2>5. f[i] = v
    BY <1>6, <2>3, <2>4
  <2> QED
    BY <1>7, <2>4, <2>5 DEF Range
<1> QED
  BY <1>1, <1>4, <1>6, <1>11, <1>12, <1>13

\* A list with a block of ids behind its first i elements.
Block(list, ids, i) == SubSeq(list, 1, i) \o ids \o SubSeq(list, i + 1, Len(list))

\* A block of new ids in a list: places before it stand, those after it move by its length.
LEMMA BlockFacts ==
  ASSUME NEW S, NEW list, Listing(list, S), NEW ids, Listing(ids, S), Range(ids) \cap Range(list) = {},
         NEW i \in 0 .. Len(list)
  PROVE  LET b == Block(list, ids, i)
         IN  /\ Listing(b, S) /\ Range(b) = Range(list) \cup Range(ids)
             /\ \A v \in Range(ids) : Place(b, v) = i + Place(ids, v)
             /\ \A v \in Range(list) : Place(b, v) = IF Place(list, v) <= i THEN Place(list, v)
                                                     ELSE Place(list, v) + Len(ids)
<1>1. PICK f, g : f = SubSeq(list, 1, i) /\ g = SubSeq(list, i + 1, Len(list))
  OBVIOUS
<1>2. PICK h, b : h = f \o ids /\ b = h \o g
  OBVIOUS
<1>3. PICK n, m : n = Len(list) /\ m = Len(ids)
  OBVIOUS
<1>4. /\ n \in Nat /\ m \in Nat /\ i \in Nat /\ i <= n
      /\ \A v \in Range(list) : Place(list, v) \in 1 .. n
      /\ \A v \in Range(ids) : Place(ids, v) \in 1 .. m
  BY <1>3, ListingFacts
<1>5. /\ Listing(f, S) /\ Len(f) = i
      /\ Range(f) = {v \in Range(list) : Place(list, v) <= i}
      /\ \A v \in Range(f) : Place(f, v) = Place(list, v)
  <2>1. /\ Listing(f, S) /\ Len(f) = i - 1 + 1
        /\ Range(f) = {v \in Range(list) : 1 <= Place(list, v) /\ Place(list, v) <= i}
        /\ \A v \in Range(f) : Place(f, v) = Place(list, v) - 1 + 1
    BY <1>1, <1>3, <1>4, SliceFacts
  <2>2. Range(f) = {v \in Range(list) : Place(list, v) <= i}
    BY <1>4, <2>1
  <2>3. \A v \in Range(f) : Place(f, v) = Place(list, v)
    BY <1>4, <2>1, <2>2
  <2> QED
    BY <1>4, <2>1, <2>2, <2>3
<1>6. /\ Listing(g, S)
      /\ Range(g) = {v \in Range(list) : ~(Place(list, v) <= i)}
      /\ \A v \in Range(g) : Place(g, v) = Place(list, v) - i
  <2>1. PICK a : a = i + 1
    OBVIOUS
  <2>2. a \in Nat /\ a >= 1 /\ a <= n + 1
    BY <1>4, <2>1
  <2>3. /\ Listing(g, S)
        /\ Range(g) = {v \in Range(list) : a <= Place(list, v) /\ Place(list, v) <= n}
        /\ \A v \in Range(g) : Place(g, v) = Place(list, v) - a + 1
    BY <1>1, <1>3, <1>4, <2>1, <2>2, SliceFacts
  <2>4. Range(g) = {v \in Range(list) : ~(Place(list, v) <= i)}
    BY <1>4, <2>1, <2>3
  <2>5. \A v \in Range(g) : Place(g, v) = Place(list, v) - i
    BY <1>4, <2>1, <2>3, <2>4
  <2> QED
    BY <2>3, <2>4, <2>5
<1>7. /\ Listing(h, S) /\ Range(h) = Range(f) \cup Range(ids) /\ Len(h) = i + m
      /\ \A v \in Range(f) : Place(h, v) = Place(list, v)
      /\ \A v \in Range(ids) : Place(h, v) = i + Place(ids, v)
  <2>1. Range(f) \cap Range(ids) = {}
    BY <1>5
  <2>2. Listing(f, S) /\ Listing(ids, S)
    BY <1>5
  <2>3. /\ Listing(h, S) /\ Range(h) = Range(f) \cup Range(ids) /\ Len(h) = Len(f) + Len(ids)
        /\ \A v \in Range(f) : Place(h, v) = Place(f, v)
        /\ \A v \in Range(ids) : Place(h, v) = Len(f) + Place(ids, v)
    <3>1. Listing(f \o ids, S)
      BY <2>1, <2>2, JoinedListings
    <3> QED
      BY <1>2, <2>1, <2>2, <3>1, JoinedListings
  <2> QED
    BY <1>3, <1>5, <2>3
<1>8. /\ Listing(b, S) /\ Range(b) = Range(h) \cup Range(g)
      /\ \A v \in Range(h) : Place(b, v) = Place(h, v)
      /\ \A v \in Range(g) : Place(b, v) = i + m + Place(g, v)
  <2>1. Range(h) \cap Range(g) = {}
    BY <1>5, <1>6, <1>7
  <2>2. Listing(h, S) /\ Listing(g, S)
    BY <1>6, <1>7
  <2>4. Len(h) = i + m
    BY <1>7
  <2>3. /\ Listing(b, S) /\ Range(b) = Range(h) \cup Range(g)
        /\ \A v \in Range(h) : Place(b, v) = Place(h, v)
        /\ \A v \in Range(g) : Place(b, v) = Len(h) + Place(g, v)
    <3>1. Listing(h \o g, S)
      BY <2>1, <2>2, JoinedListings
    <3>2. Range(h \o g) = Range(h) \cup Range(g)
      BY <2>1, <2>2, <3>1, JoinedListings
    <3>3. \A v \in Range(h) : Place(h \o g, v) = Place(h, v)
      BY <2>1, <2>2, <3>1, JoinedListings
    <3>4. \A v \in Range(g) : Place(h \o g, v) = Len(h) + Place(g, v)
      BY <2>1, <2>2, <3>1, JoinedListings
    <3> QED
      BY <1>2, <3>1, <3>2, <3>3, <3>4
  <2> QED
    BY <2>3, <2>4
<1>9. Range(b) = Range(list) \cup Range(ids)
  BY <1>5, <1>6, <1>7, <1>8
<1>10. \A v \in Range(ids) : Place(b, v) = i + Place(ids, v)
  BY <1>7, <1>8
<1>11. \A v \in Range(list) : Place(b, v) = IF Place(list, v) <= i THEN Place(list, v) ELSE Place(list, v) + m
  <2> TAKE v \in Range(list)
  <2>1. CASE Place(list, v) <= i
    BY <1>5, <1>7, <1>8, <2>1
  <2>2. CASE ~(Place(list, v) <= i)
    <3>1. v \in Range(g) /\ Place(g, v) = Place(list, v) - i
      BY <1>6, <2>2
    <3>2. Place(b, v) = i + m + Place(g, v)
      BY <1>8, <3>1
    <3>3. PICK k : k = Place(list, v)
      OBVIOUS
    <3>4. k \in Nat
      BY <1>4, <3>3
    <3>5. i + m + (k - i) = k + m
      BY <1>4, <3>4
    <3> QED
      BY <2>2, <3>1, <3>2, <3>3, <3>5
  <2> QED
    BY <2>1, <2>2
<1>12. b = Block(list, ids, i)
  BY <1>1, <1>2 DEF Block
<1> QED
  BY <1>3, <1>8, <1>9, <1>10, <1>11, <1>12

\* A slot: behind an item or at the start, before what comes next.
SlotFits(list, slot) ==
  (slot.lower \in Range(list) \/ slot.lower = Open) /\ slot.upper = At(list, Place(list, slot.lower) + 1)

\* The slot of an anchor lies between two neighbours of the list.
LEMMA SlotFacts ==
  ASSUME NEW list, Listing(list, Videos), NEW after \in Videos \cup {Open}, NEW before \in Videos \cup {Open}
  PROVE  SlotFits(list, AnchorSlot(list, after, before))
<1>1. PICK n : n = Len(list)
  OBVIOUS
<1>2. /\ n \in Nat /\ DOMAIN list = 1 .. n
      /\ \A i \in 1 .. n : list[i] \in Range(list) /\ Place(list, list[i]) = i
      /\ \A v \in Range(list) : Place(list, v) \in 1 .. n /\ list[Place(list, v)] = v
      /\ \A v : v \notin Range(list) => Place(list, v) = 0
  BY <1>1, ListingFacts
<1>3. Place(list, Open) = 0
  <2>1. Open \notin Range(list)
    BY VideoAssumption, ListingFacts
  <2> QED
    BY <1>2, <2>1
<1>4. PICK slot : slot = AnchorSlot(list, after, before)
  OBVIOUS
<1>5. CASE Place(list, after) # 0
  <2>1. slot.lower = after /\ slot.upper = At(list, Place(list, after) + 1)
    BY <1>4, <1>5 DEF AnchorSlot
  <2>2. after \in Range(list)
    BY <1>2, <1>5
  <2> QED
    BY <1>4, <2>1, <2>2 DEF SlotFits
<1>6. CASE Place(list, after) = 0 /\ Place(list, before) # 0
  <2>1. slot.lower = At(list, Place(list, before) - 1) /\ slot.upper = before
    BY <1>4, <1>6 DEF AnchorSlot
  <2>2. PICK k : k = Place(list, before)
    OBVIOUS
  <2>3. k \in 1 .. n /\ list[k] = before
    BY <1>2, <1>6, <2>2
  <2>4. At(list, k) = before
    BY <1>2, <2>3 DEF At
  <2>5. CASE k = 1
    <3>1. slot.lower = Open
      BY <1>2, <2>1, <2>2, <2>5 DEF At
    <3> QED
      BY <1>3, <1>4, <2>1, <2>4, <2>5, <3>1 DEF SlotFits
  <2>6. CASE k # 1
    <3>1. PICK j : j = k - 1
      OBVIOUS
    <3>2. j \in 1 .. n /\ j + 1 = k
      BY <1>2, <2>3, <2>6, <3>1
    <3>3. slot.lower = list[j] /\ list[j] \in Range(list) /\ Place(list, list[j]) = j
      BY <1>2, <2>1, <2>2, <3>1, <3>2 DEF At
    <3> QED
      BY <1>4, <2>1, <2>4, <3>2, <3>3 DEF SlotFits
  <2> QED
    BY <2>5, <2>6
<1>7. CASE Place(list, after) = 0 /\ Place(list, before) = 0
  <2>1. slot.lower = At(list, n) /\ slot.upper = Open
    BY <1>1, <1>4, <1>7 DEF AnchorSlot
  <2>2. At(list, n + 1) = Open
    BY <1>2 DEF At
  <2>3. CASE n = 0
    <3>1. slot.lower = Open
      BY <1>2, <2>1, <2>3 DEF At
    <3> QED
      BY <1>3, <1>4, <2>1, <2>2, <2>3, <3>1 DEF SlotFits
  <2>4. CASE n # 0
    <3>1. n \in 1 .. n
      BY <1>2, <2>4
    <3>2. slot.lower = list[n] /\ list[n] \in Range(list) /\ Place(list, list[n]) = n
      BY <1>2, <2>1, <3>1 DEF At
    <3> QED
      BY <1>4, <2>1, <2>2, <3>2 DEF SlotFits
  <2> QED
    BY <2>3, <2>4
<1> QED
  BY <1>5, <1>6, <1>7

\* One run at a slot places its ids.
LEMMA RunAtFacts ==
  ASSUME NEW stays, Listing(stays, Videos), NEW slot, SlotFits(stays, slot), NEW ids, Listing(ids, Videos)
  PROVE  /\ Placed(RunAt(slot, ids)) = Range(ids)
         /\ RunsFit(stays, RunAt(slot, ids))
<1>1. PICK runs : runs = RunAt(slot, ids)
  OBVIOUS
<1>2. PICK l : l = slot.lower
  OBVIOUS
<1>3. DOMAIN runs = {l} /\ runs[l].ids = ids /\ runs[l].upper = slot.upper
  BY <1>1, <1>2 DEF RunAt
<1>4. Placed(runs) = Range(ids)
  BY <1>3 DEF Placed
<1>5. RunsFit(stays, runs)
  BY <1>2, <1>3 DEF RunsFit, SlotFits
<1> QED
  BY <1>1, <1>4, <1>5

\* The final order of an edit of one run is the list that stays with the run as a block in it.
LEMMA InsertedOrder ==
  ASSUME NEW list, NEW plan, NEW slot, NEW ids, Listing(ids, Videos), NEW stays,
         stays = Stays(list, plan, RunAt(slot, ids)), Listing(stays, Videos), SlotFits(stays, slot),
         Range(stays) \cap Range(ids) = {}
  PROVE  FinalOrder(list, plan, RunAt(slot, ids)) = Block(stays, ids, Place(stays, slot.lower))
<1>1. PICK runs, l, a : runs = RunAt(slot, ids) /\ l = slot.lower /\ a = Place(stays, slot.lower)
  OBVIOUS
<1>2. RunsFit(stays, runs) /\ Placed(runs) = Range(ids)
  BY <1>1, RunAtFacts
<1>3. l \in DOMAIN runs /\ runs[l].ids = ids
  BY <1>1 DEF RunAt
<1>4. PICK order : order = FinalOrder(list, plan, runs)
  OBVIOUS
<1>5. /\ Listing(order, Videos) /\ Range(order) = Range(stays) \cup Range(ids)
      /\ \A u, v \in Range(stays) \cup Range(ids) :
           Place(order, u) < Place(order, v) <=> RankLess(Rank(stays, runs, u), Rank(stays, runs, v))
  BY <1>1, <1>2, <1>4, FinalOrderFacts
<1>6. /\ \A v \in Range(stays) : Rank(stays, runs, v) = <<Place(stays, v), 0>>
      /\ \A v \in Range(ids) : Rank(stays, runs, v) = <<a, Place(ids, v)>>
  BY <1>1, <1>2, <1>3, RankFacts
<1>7. a \in 0 .. Len(stays)
  BY <1>1, ListingFacts
<1>8. PICK b : b = Block(stays, ids, a)
  OBVIOUS
<1>9. PICK n, m : n = Len(stays) /\ m = Len(ids)
  OBVIOUS
<1>10. /\ Listing(b, Videos) /\ Range(b) = Range(stays) \cup Range(ids)
       /\ \A v \in Range(ids) : Place(b, v) = a + Place(ids, v)
       /\ \A v \in Range(stays) : Place(b, v) = IF Place(stays, v) <= a THEN Place(stays, v) ELSE Place(stays, v) + m
  BY <1>7, <1>8, <1>9, BlockFacts
<1>11. /\ n \in Nat /\ m \in Nat /\ a \in 0 .. n
       /\ \A v \in Range(stays) : Place(stays, v) \in 1 .. n
       /\ \A v \in Range(ids) : Place(ids, v) \in 1 .. m
  BY <1>7, <1>9, ListingFacts
<1>12. ASSUME NEW u \in Range(order), NEW v \in Range(order), Place(order, u) < Place(order, v)
       PROVE  Place(b, u) < Place(b, v)
  <2>1. RankLess(Rank(stays, runs, u), Rank(stays, runs, v))
    BY <1>5, <1>12
  <2>2. CASE u \in Range(stays) /\ v \in Range(stays)
    <3>1. Place(stays, u) < Place(stays, v)
      BY <1>6, <2>1, <2>2 DEF RankLess
    <3> QED
      BY <1>10, <1>11, <2>2, <3>1
  <2>3. CASE u \in Range(stays) /\ v \in Range(ids)
    <3>1. Place(stays, u) < a \/ (Place(stays, u) = a /\ 0 < Place(ids, v))
      BY <1>6, <2>1, <2>3 DEF RankLess
    <3> QED
      BY <1>10, <1>11, <2>3, <3>1
  <2>4. CASE u \in Range(ids) /\ v \in Range(stays)
    <3>1. a < Place(stays, v) \/ (a = Place(stays, v) /\ Place(ids, u) < 0)
      BY <1>6, <2>1, <2>4 DEF RankLess
    <3>2. ~(Place(stays, v) <= a)
      BY <1>11, <2>4, <3>1
    <3> QED
      BY <1>10, <1>11, <2>4, <3>2
  <2>5. CASE u \in Range(ids) /\ v \in Range(ids)
    <3>1. Place(ids, u) < Place(ids, v)
      BY <1>6, <1>11, <2>1, <2>5 DEF RankLess
    <3> QED
      BY <1>10, <1>11, <2>5, <3>1
  <2> QED
    BY <1>5, <2>2, <2>3, <2>4, <2>5
<1>13. order = b
  BY <1>5, <1>10, <1>12, SameListing
<1> QED
  BY <1>1, <1>4, <1>8, <1>13


-----------------------------------------------------------------------------
(* The handlers. *)

Writer == [base : Nat, at : Nat, dev : Devices]

\* What is not beyond a head is not beyond a later one.
LEMMA WrittenLater ==
  ASSUME NEW rows \in Rows, NEW m \in Nat, NEW n \in Nat, m <= n, Written(rows, m)
  PROVE  Written(rows, n)
<1> SUFFICES ASSUME NEW v \in Videos, rows[v].row
             PROVE  rows[v].mem.seq <= n /\ rows[v].pos.seq <= n
  BY DEF Written
<1>1. rows[v].mem.seq \in Nat /\ rows[v].pos.seq \in Nat
  BY RowFacts
<1>2. rows[v].mem.seq <= m /\ rows[v].pos.seq <= m
  BY DEF Written
<1> QED
  BY <1>1, <1>2

\* An edit of a live playlist, with its items counted.
LEMMA EditSteps ==
  ASSUME NEW s, Sound(s), NEW p \in Lists, s.lists[p].row, ~s.lists[p].deleted,
         NEW ids, NEW plan, NEW runs, NEW c, Committed(s, c, p, ids, plan, runs),
         NEW u \in Tx, u.seq = c.seq, u.items = c.items,
         \A q \in Lists : q # p => u.lists[q] = s.lists[q],
         u.lists[p].row, ~u.lists[p].deleted, u.lists[p].count = Cardinality(Present(c.items[p]))
  PROVE  Steps(s, u)
<1>1. s \in Tx /\ c \in Tx /\ s.seq \in Nat /\ u.seq \in Nat /\ u.seq >= s.seq
  <2>1. s \in Tx /\ c \in Tx /\ c.seq >= s.seq
    BY DEF Sound, Committed
  <2> QED
    BY <2>1, TxFacts
<1>2. \A q \in Lists : q # p => u.items[q] = s.items[q] /\ u.lists[q] = s.lists[q]
  BY DEF Committed
<1>3. \A q \in Lists : u.lists[q].row = s.lists[q].row
  <2>1. u.lists[p].row = s.lists[p].row
    BY <1>1, ListFacts
  <2> QED
    BY <1>2, <2>1
<1>4. \A q \in Lists : Dead(u.lists, q) <=> Dead(s.lists, q)
  <2> TAKE q \in Lists
  <2>1. (Dead(u.lists, q) <=> u.lists[q].row /\ u.lists[q].deleted) /\ (Dead(s.lists, q) <=> s.lists[q].row /\ s.lists[q].deleted)
    BY <1>1, ListFacts
  <2> QED
    BY <1>2, <2>1
<1>5. ASSUME NEW q \in Lists
      PROVE  /\ Written(u.items[q], u.seq) /\ Distinct(u.items[q])
             /\ CountRight(u.lists[q], u.items[q]) /\ NothingLeft(u.lists[q], u.items[q])
             /\ CopyOfDead(u, q)
  <2>1. CopyOfDead(u, q)
    <3>1. CopyOfDead(s, q)
      BY DEF Sound
    <3>2. Range(Chain[q]) \subseteq Lists
      BY ChainFacts
    <3> QED
      BY <1>3, <1>4, <3>1, <3>2 DEF CopyOfDead
  <2>2. CASE q = p
    <3>1. Written(u.items[p], u.seq) /\ Distinct(u.items[p])
      BY DEF Committed
    <3>2. CountRight(u.lists[p], u.items[p]) /\ NothingLeft(u.lists[p], u.items[p])
      BY DEF CountRight, NothingLeft
    <3> QED
      BY <2>1, <2>2, <3>1, <3>2
  <2>3. CASE q # p
    <3>1. /\ Written(s.items[q], s.seq) /\ Distinct(s.items[q])
          /\ CountRight(s.lists[q], s.items[q]) /\ NothingLeft(s.lists[q], s.items[q])
      BY DEF Sound
    <3>2. s.items[q] \in Rows
      BY <1>1, ListFacts
    <3>3. Written(s.items[q], u.seq)
      BY <1>1, <3>1, <3>2, WrittenLater
    <3> QED
      BY <1>2, <2>1, <2>3, <3>1, <3>3
  <2> QED
    BY <2>2, <2>3
<1>6. Sound(u)
  BY <1>5 DEF Sound
<1>7. Tells(s, u, p)
  BY <1>2 DEF Committed, Tells
<1> QED
  BY <1>1, <1>6, <1>7 DEF Steps

\* setItemCount changes one count.
LEMMA SetCountFacts ==
  ASSUME NEW c \in Tx, NEW p \in Lists, c.lists[p].row, NEW delta \in Int, c.lists[p].count + delta \in Nat
  PROVE  LET u == SetItemCount(c, p, delta)
         IN  /\ u \in Tx /\ u.seq = c.seq /\ u.items = c.items /\ u.status = c.status /\ u.target = c.target
             /\ \A q \in Lists : q # p => u.lists[q] = c.lists[q]
             /\ u.lists[p].row /\ u.lists[p].deleted = c.lists[p].deleted
             /\ u.lists[p].count = c.lists[p].count + delta
<1>1. PICK k : k = c.lists[p]
  OBVIOUS
<1>2. k \in PlaylistRecord
  BY <1>1, ListFacts
<1>3. PICK n : n = k.count + delta
  OBVIOUS
<1>4. PICK r : r = [k EXCEPT !.count = n]
  OBVIOUS
<1>5. r \in PlaylistRecord /\ r.row /\ r.deleted = k.deleted /\ r.count = n
  <2>1. n \in Nat
    BY <1>1, <1>3
  <2> QED
    BY <1>2, <1>4, <2>1 DEF PlaylistRecord
<1>6. PICK u : u = SetItemCount(c, p, delta)
  OBVIOUS
<1>7. u = [c EXCEPT !.lists = [c.lists EXCEPT ![p] = r]]
  BY <1>1, <1>3, <1>4, <1>6, TxFacts DEF SetItemCount
<1>8. [c.lists EXCEPT ![p] = r] \in [Lists -> PlaylistRecord \cup {NoList}]
  BY <1>5, TxFacts
<1>9. u = [seq |-> c.seq, lists |-> [c.lists EXCEPT ![p] = r], items |-> c.items, status |-> c.status, target |-> c.target]
  BY <1>7, TxFacts
<1>10. u \in Tx
  BY <1>8, <1>9, TxFacts DEF Tx
<1>11. u.lists[p] = r /\ \A q \in Lists : q # p => u.lists[q] = c.lists[q]
  BY <1>9, TxFacts
<1> QED
  BY <1>1, <1>3, <1>5, <1>6, <1>9, <1>10, <1>11

\* insertPlaylist adds one live playlist and takes one seq.
LEMMA InsertFacts ==
  ASSUME NEW s \in Tx, NEW p \in Lists, NEW d \in Devices, NEW name \in Names, NEW browse \in Browses \cup {Open},
         NEW n \in Nat, NEW at \in Nat
  PROVE  LET u == InsertPlaylist(s, p, d, name, browse, n, at)
         IN  /\ u \in Tx /\ u.seq = s.seq + 1 /\ u.items = s.items /\ u.status = s.status /\ u.target = s.target
             /\ \A q \in Lists : q # p => u.lists[q] = s.lists[q]
             /\ u.lists[p].row /\ ~u.lists[p].deleted /\ u.lists[p].count = n
<1>1. PICK header : header = [seq |-> s.seq + 1, at |-> at, dev |-> d]
  OBVIOUS
<1>2. header \in Register
  BY <1>1, TxFacts DEF Register
<1>3. PICK r : r = [row |-> TRUE, name |-> name, browse |-> browse, deleted |-> FALSE,
                    deletedSeq |-> 0, count |-> n, header |-> header]
  OBVIOUS
<1>4. r \in PlaylistRecord /\ r.row /\ ~r.deleted /\ r.count = n
  BY <1>2, <1>3 DEF PlaylistRecord
<1>5. PICK u : u = InsertPlaylist(s, p, d, name, browse, n, at)
  OBVIOUS
<1>6. u = [s EXCEPT !.seq = @ + 1, !.lists[p] = r]
  BY <1>1, <1>3, <1>5 DEF InsertPlaylist
<1>7. [s.lists EXCEPT ![p] = r] \in [Lists -> PlaylistRecord \cup {NoList}]
  BY <1>4, TxFacts
<1>8. u = [seq |-> s.seq + 1, lists |-> [s.lists EXCEPT ![p] = r], items |-> s.items, status |-> s.status, target |-> s.target]
  <2>1. PICK l, m : l = [s.lists EXCEPT ![p] = r] /\ m = s.seq + 1
    OBVIOUS
  <2>2. u = [s EXCEPT !.seq = m, !.lists = l]
    BY <1>6, <2>1
  <2>3. u = [seq |-> m, lists |-> l, items |-> s.items, status |-> s.status, target |-> s.target]
    <3>1. s = [seq |-> s.seq, lists |-> s.lists, items |-> s.items, status |-> s.status, target |-> s.target]
      BY TxFacts
    <3> QED
      BY <2>2, <3>1
  <2> QED
    BY <2>1, <2>3
<1>9. u \in Tx
  BY <1>7, <1>8, TxFacts DEF Tx
<1>10. u.lists[p] = r /\ \A q \in Lists : q # p => u.lists[q] = s.lists[q]
  BY <1>8, TxFacts
<1> QED
  BY <1>4, <1>5, <1>8, <1>9, <1>10

\* An id may be used for a new playlist: it is no copy, or a copy of what is deleted.
Free(s, p) == \A q \in Lists : p \in Range(Chain[q]) => Dead(s.lists, q)

\* A new playlist and its items.
LEMMA CreateSteps ==
  ASSUME NEW s, Sound(s), NEW p \in Lists, ~s.lists[p].row, Free(s, p), NEW d \in Devices, NEW name \in Names,
         NEW browse \in Browses \cup {Open}, NEW ids, Listing(ids, Videos), NEW at \in Nat, NEW status \in Statuses
  PROVE  LET t == CreatePlaylistWithItems(s, p, d, name, browse, ids, at, status)
         IN  /\ Steps(s, t)
             /\ \/ t.status = "deferred" /\ t.items = s.items /\ t.target = s.target
                \/ t.status = status /\ t.target = p /\ Order(t.items[p]) = ids
<1>1. PICK t : t = CreatePlaylistWithItems(s, p, d, name, browse, ids, at, status)
  OBVIOUS
<1>2. s \in Tx /\ s.seq \in Nat
  BY TxFacts DEF Sound
<1>3. CASE t = Result(s, "deferred")
  <2>1. SameTx(s, t) /\ t.status = "deferred" /\ t.target = s.target
    <3>1. "deferred" \in Statuses
      BY DEF Statuses
    <3>2. SameTx(s, Result(s, "deferred")) /\ Result(s, "deferred").status = "deferred" /\ Result(s, "deferred").target = s.target
      BY <1>2, <3>1, ResultFacts
    <3> QED
      BY <1>3, <3>2
  <2>2. Steps(s, t)
    BY <2>1, NothingSteps, SameSteps
  <2> QED
    BY <1>1, <2>1, <2>2 DEF SameTx
<1>4. CASE t # Result(s, "deferred")
  <2>1. PICK n, i, plan, slot, runs, c :
          /\ n = Len(ids) /\ i = InsertPlaylist(s, p, d, name, browse, n, at)
          /\ plan = [v \in Range(ids) |-> Joins(at)]
          /\ slot = [lower |-> Open, upper |-> Open] /\ runs = RunAt(slot, ids)
          /\ c = CommitItems(i, p, d, ids, plan, runs)
    OBVIOUS
  <2>2. t = [c EXCEPT !.status = status, !.target = p]
    BY <1>1, <1>4, <2>1 DEF CreatePlaylistWithItems
  <2>3. n \in Nat /\ IsFiniteSet(Range(ids)) /\ Cardinality(Range(ids)) = n
    BY <2>1, ListingFacts
  <2>4. /\ i \in Tx /\ i.seq = s.seq + 1 /\ i.items = s.items
        /\ \A q \in Lists : q # p => i.lists[q] = s.lists[q]
        /\ i.lists[p].row /\ ~i.lists[p].deleted /\ i.lists[p].count = n
    <3>1. i = InsertPlaylist(s, p, d, name, browse, n, at)
      BY <2>1
    <3> QED
      BY <1>2, <2>3, <3>1, InsertFacts
  <2>5. s.items[p] = NoRows
    BY DEF Sound, NothingLeft
  <2>6. PICK old : old = i.items[p]
    OBVIOUS
  <2>7. old \in Rows /\ Present(old) = {} /\ \A v \in Videos : old[v] = NoItem
    <3>1. old \in Rows
      BY <2>4, <2>6, ListFacts
    <3>2. \A v \in Videos : old[v] = NoItem
      BY <2>4, <2>5, <2>6 DEF NoRows
    <3>3. Present(old) = {}
      BY <3>2 DEF Present, NoItem
    <3> QED
      BY <3>1, <3>2, <3>3
  <2>8. PICK stays : stays = Stays(Order(old), plan, runs)
    OBVIOUS
  <2>9. DOMAIN plan = Range(ids) /\ Placed(runs) = Range(ids) /\ \A v \in Range(ids) : plan[v] = Joins(at)
    BY <2>1 DEF RunAt, Placed
  <2>10. \A v \in Range(ids) : plan[v] \in Planned /\ plan[v].mem /\ plan[v].present
    <3>1. PICK j : j = Joins(at)
      OBVIOUS
    <3>2. j \in Planned /\ j.mem /\ j.present
      BY <3>1 DEF Joins, Planned
    <3> QED
      BY <2>9, <3>1, <3>2
  <2>11. Listing(stays, Videos) /\ Range(stays) = {}
    <3>1. (\A v \in Range(ids) : plan[v].present <=> v \in Placed(runs)) /\ Placed(runs) \subseteq Range(ids)
      BY <2>9, <2>10
    <3>2. Listing(stays, Videos) /\ Range(stays) = Present(old) \ Range(ids)
      BY <2>7, <2>8, <2>9, <3>1, StaysFacts
    <3> QED
      BY <2>7, <3>2
  <2>12. SlotFits(stays, slot) /\ Place(stays, Open) = 0 /\ Len(stays) = 0
    <3>1. Len(stays) \in Nat /\ DOMAIN stays = 1 .. Len(stays) /\ \A j \in DOMAIN stays : stays[j] \in Range(stays)
      BY <2>11, ListingFacts
    <3>2. Len(stays) = 0
      <4>1. Cardinality(Range(stays)) = Len(stays)
        BY <2>11, ListingFacts
      <4> QED
        BY <2>11, <4>1, FS_EmptySet
    <3>3. Place(stays, Open) = 0
      BY <2>11, ListingFacts
    <3>4. At(stays, 0 + 1) = Open
      BY <3>1, <3>2 DEF At
    <3> QED
      BY <2>1, <3>2, <3>3, <3>4 DEF SlotFits
  <2>13. RunsFit(stays, runs)
    BY <2>1, <2>11, <2>12, RunAtFacts
  <2>14. EditFits(i.items[p], ids, plan, runs)
    BY <2>6, <2>8, <2>9, <2>10, <2>13 DEF EditFits
  <2>15. Distinct(i.items[p])
    BY <2>6, <2>7 DEF Distinct
  <2>16. Written(i.items[p], i.seq)
    BY <2>6, <2>7 DEF Written, NoItem
  <2>17. Committed(i, c, p, ids, plan, runs)
    BY <2>1, <2>4, <2>14, <2>15, <2>16, CommitFacts
  <2>18. c \in Tx /\ c.lists = i.lists /\ c.seq >= i.seq
    BY <2>17 DEF Committed
  <2>19. Present(c.items[p]) = Range(ids)
    BY <2>6, <2>7, <2>9, <2>17 DEF Committed
  <2>20. t = [seq |-> c.seq, lists |-> c.lists, items |-> c.items, status |-> status, target |-> p]
    <3>1. c = [seq |-> c.seq, lists |-> c.lists, items |-> c.items, status |-> c.status, target |-> c.target]
      BY <2>18, TxFacts
    <3> QED
      BY <2>2, <3>1
  <2>21. t \in Tx /\ t.seq = c.seq /\ t.lists = c.lists /\ t.items = c.items /\ t.status = status /\ t.target = p
    BY <2>18, <2>20, TxFacts DEF Tx
  <2>22. t.seq \in Nat /\ t.seq > s.seq /\ i.seq \in Nat /\ t.seq >= i.seq
    BY <1>2, <2>4, <2>18, <2>21, TxFacts
  <2>23. \A q \in Lists : q # p => t.items[q] = s.items[q] /\ t.lists[q] = s.lists[q]
    BY <2>4, <2>17, <2>18, <2>21 DEF Committed
  <2>24. t.lists[p].row /\ ~t.lists[p].deleted /\ t.lists[p].count = n
    BY <2>4, <2>18, <2>21
  <2>25. ASSUME NEW q \in Lists
         PROVE  /\ Written(t.items[q], t.seq) /\ Distinct(t.items[q])
                /\ CountRight(t.lists[q], t.items[q]) /\ NothingLeft(t.lists[q], t.items[q])
    <3>1. CASE q = p
      <4>1. Written(t.items[p], t.seq) /\ Distinct(t.items[p])
        BY <2>17, <2>21 DEF Committed
      <4>2. CountRight(t.lists[p], t.items[p]) /\ NothingLeft(t.lists[p], t.items[p])
        BY <2>3, <2>19, <2>21, <2>24 DEF CountRight, NothingLeft
      <4> QED
        BY <3>1, <4>1, <4>2
    <3>2. CASE q # p
      <4>1. /\ Written(s.items[q], s.seq) /\ Distinct(s.items[q])
            /\ CountRight(s.lists[q], s.items[q]) /\ NothingLeft(s.lists[q], s.items[q])
        BY DEF Sound
      <4>2. s.items[q] \in Rows
        BY <1>2, ListFacts
      <4>3. s.seq <= t.seq
        BY <1>2, <2>22
      <4>4. Written(s.items[q], t.seq)
        BY <1>2, <2>22, <4>1, <4>2, <4>3, WrittenLater
      <4> QED
        BY <2>23, <3>2, <4>1, <4>4
    <3> QED
      BY <3>1, <3>2
  <2>26. ASSUME NEW q \in Lists PROVE CopyOfDead(t, q)
    <3> SUFFICES ASSUME NEW r \in Range(Chain[q]), t.lists[r].row PROVE Dead(t.lists, q)
      BY DEF CopyOfDead
    <3>1. r \in Lists /\ r # q
      BY ChainFacts
    <3>2. CASE q = p
      <4>1. s.lists[r].row
        BY <2>23, <3>1, <3>2
      <4>2. Dead(s.lists, p)
        BY <3>2, <4>1 DEF Sound, CopyOfDead
      <4> QED
        BY <1>2, <4>2, ListFacts
    <3>3. CASE q # p
      <4>1. Dead(s.lists, q)
        <5>1. CASE r = p
          BY <5>1 DEF Free
        <5>2. CASE r # p
          BY <2>23, <3>1, <5>2 DEF Sound, CopyOfDead
        <5> QED
          BY <5>1, <5>2
      <4>2. s.lists[q].row /\ s.lists[q].deleted
        BY <1>2, <4>1, ListFacts
      <4>3. t.lists[q].row /\ t.lists[q].deleted
        BY <2>23, <3>3, <4>2
      <4> QED
        BY <2>21, <4>3, ListFacts
    <3> QED
      BY <3>2, <3>3
  <2>27. Sound(t)
    BY <2>21, <2>25, <2>26 DEF Sound
  <2>28. Tells(s, t, p)
    <3>1. \A v \in Videos : t.items[p][v] # s.items[p][v] => t.items[p][v].row /\ RowSeq(t.items[p][v]) > i.seq
      BY <2>4, <2>17, <2>21 DEF Committed
    <3>2. \A v \in Videos : t.items[p][v] # s.items[p][v] => RowSeq(t.items[p][v]) > s.seq
      <4> TAKE v \in Videos
      <4> HAVE t.items[p][v] # s.items[p][v]
      <4>1. PICK k, row : row = t.items[p][v] /\ k = RowSeq(row)
        OBVIOUS
      <4>2. row.row /\ k > i.seq
        BY <3>1, <4>1
      <4>3. k \in Nat
        <5>1. t.items[p] \in Rows
          BY <2>21, ListFacts
        <5>2. row.mem.seq \in Nat /\ row.pos.seq \in Nat
          BY <4>1, <4>2, <5>1, RowFacts
        <5> QED
          BY <4>1, <5>2 DEF RowSeq
      <4> QED
        BY <1>2, <2>4, <4>1, <4>2, <4>3
    <3>3. \A u, v \in Videos : u # v /\ t.items[p][u] # s.items[p][u] /\ t.items[p][v] # s.items[p][v] =>
            RowSeq(t.items[p][u]) # RowSeq(t.items[p][v])
      BY <2>4, <2>17, <2>21 DEF Committed
    <3> QED
      BY <2>23, <3>1, <3>2, <3>3 DEF Tells
  <2>29. Order(t.items[p]) = ids
    <3>1. Order(c.items[p]) = FinalOrder(Order(old), plan, runs)
      BY <2>6, <2>17 DEF Committed
    <3>2. FinalOrder(Order(old), plan, runs) = Block(stays, ids, 0)
      <4>1. Range(stays) \cap Range(ids) = {} /\ slot.lower = Open
        BY <2>1, <2>11
      <4>2. FinalOrder(Order(old), plan, RunAt(slot, ids)) = Block(stays, ids, Place(stays, slot.lower))
        BY <2>1, <2>8, <2>11, <2>12, <4>1, InsertedOrder
      <4> QED
        BY <2>1, <2>12, <4>1, <4>2
    <3>3. Block(stays, ids, 0) = ids
      <4>1. PICK b : b = Block(stays, ids, 0)
        OBVIOUS
      <4>2. 0 \in 0 .. Len(stays) /\ Range(ids) \cap Range(stays) = {}
        BY <2>11, <2>12
      <4>3. /\ Listing(b, Videos) /\ Range(b) = Range(stays) \cup Range(ids)
            /\ \A v \in Range(ids) : Place(b, v) = 0 + Place(ids, v)
        <5>1. PICK z : z = 0
          OBVIOUS
        <5>2. b = Block(stays, ids, z) /\ z \in 0 .. Len(stays)
          BY <4>1, <4>2, <5>1
        <5>4. Listing(b, Videos)
          BY <2>11, <4>2, <5>2, BlockFacts
        <5>3. /\ Listing(b, Videos) /\ Range(b) = Range(stays) \cup Range(ids)
              /\ \A v \in Range(ids) : Place(b, v) = z + Place(ids, v)
          <6>1. Listing(stays, Videos)
            BY <2>11
          <6>2. \A v \in Range(ids) : Place(Block(stays, ids, z), v) = z + Place(ids, v)
            BY <4>2, <5>2, <5>4, <6>1, BlockFacts
          <6>3. Range(Block(stays, ids, z)) = Range(stays) \cup Range(ids)
            BY <4>2, <5>2, <5>4, <6>1, BlockFacts
          <6> QED
            BY <5>2, <5>4, <6>2, <6>3
        <5> QED
          BY <5>1, <5>3
      <4>4. \A v \in Range(ids) : Place(ids, v) \in Nat
        BY ListingFacts
      <4>5. Range(b) = Range(ids) /\ \A u, v \in Range(b) : Place(b, u) < Place(b, v) => Place(ids, u) < Place(ids, v)
        BY <2>11, <4>3, <4>4
      <4> QED
        BY <4>1, <4>3, <4>5, SameListing
    <3> QED
      BY <2>21, <3>1, <3>2, <3>3
  <2>30. t.seq >= s.seq
    BY <1>2, <2>22
  <2> QED
    BY <1>1, <2>21, <2>27, <2>28, <2>29, <2>30 DEF Steps
<1> QED
  BY <1>3, <1>4


\* What an edit of a live playlist comes to.
Edited(s, t, p, ids, plan, runs) ==
  /\ Steps(s, t) /\ t.status = "applied" /\ t.target = s.target
  /\ \A q \in Lists : q # p => t.items[q] = s.items[q]
  /\ Present(t.items[p]) = (Present(s.items[p]) \ Range(ids)) \cup Placed(runs)
  /\ Order(t.items[p]) = FinalOrder(Order(s.items[p]), plan, runs)

\* An edit of a live playlist whose count is moved by as many items as it gains keeps everything and tells its
\* rows.
LEMMA CountedEdit ==
  ASSUME NEW s, Sound(s), NEW p \in Lists, s.lists[p].row, ~s.lists[p].deleted, NEW d \in Devices,
         NEW ids, NEW plan, NEW runs, EditFits(s.items[p], ids, plan, runs), NEW delta \in Int,
         Cardinality((Present(s.items[p]) \ Range(ids)) \cup Placed(runs)) = Cardinality(Present(s.items[p])) + delta
  PROVE  Edited(s, Result(SetItemCount(CommitItems(s, p, d, ids, plan, runs), p, delta), "applied"), p, ids, plan, runs)
<1>1. PICK c, u, t : /\ c = CommitItems(s, p, d, ids, plan, runs) /\ u = SetItemCount(c, p, delta)
                     /\ t = Result(u, "applied")
  OBVIOUS
<1>2. /\ s \in Tx /\ Distinct(s.items[p]) /\ Written(s.items[p], s.seq) /\ CountRight(s.lists[p], s.items[p])
  BY DEF Sound
<1>3. Committed(s, c, p, ids, plan, runs)
  BY <1>1, <1>2, CommitFacts
<1>4. c \in Tx /\ c.lists = s.lists /\ c.status = s.status /\ c.target = s.target
  BY <1>3 DEF Committed
<1>5. Present(c.items[p]) = (Present(s.items[p]) \ Range(ids)) \cup Placed(runs)
  BY <1>3 DEF Committed
<1>6. c.lists[p].row /\ ~c.lists[p].deleted /\ c.lists[p].count = Cardinality(Present(s.items[p]))
  BY <1>2, <1>4 DEF CountRight
<1>7. Cardinality(Present(c.items[p])) \in Nat
  <2>1. c.items[p] \in Rows
    BY <1>4, ListFacts
  <2> QED
    BY <2>1, RowFacts, FS_CardinalityType
<1>8. c.lists[p].count + delta = Cardinality(Present(c.items[p]))
  BY <1>5, <1>6
<1>9. /\ u \in Tx /\ u.seq = c.seq /\ u.items = c.items /\ u.status = c.status /\ u.target = c.target
      /\ \A q \in Lists : q # p => u.lists[q] = c.lists[q]
      /\ u.lists[p].row /\ u.lists[p].deleted = c.lists[p].deleted
      /\ u.lists[p].count = c.lists[p].count + delta
  <2>1. u = SetItemCount(c, p, delta) /\ c.lists[p].count + delta \in Nat
    BY <1>1, <1>7, <1>8
  <2> QED
    BY <1>4, <1>6, <2>1, SetCountFacts
<1>10. Steps(s, u)
  <2>1. /\ \A q \in Lists : q # p => u.lists[q] = s.lists[q]
        /\ ~u.lists[p].deleted /\ u.lists[p].count = Cardinality(Present(c.items[p]))
    BY <1>4, <1>6, <1>8, <1>9
  <2>2. u \in Tx /\ u.seq = c.seq /\ u.items = c.items /\ u.lists[p].row
    BY <1>9
  <2> QED
    BY <1>3, <2>1, <2>2, EditSteps
<1>11. SameTx(u, t) /\ t.status = "applied" /\ t.target = u.target
  <2>1. "applied" \in Statuses
    BY DEF Statuses
  <2>2. u \in Tx
    BY <1>9
  <2> QED
    BY <1>1, <2>1, <2>2, ResultFacts
<1>12. Steps(s, t)
  BY <1>10, <1>11, SameSteps
<1>13. t.items = c.items /\ t.target = s.target
  BY <1>4, <1>9, <1>11 DEF SameTx
<1> QED
  BY <1>1, <1>3, <1>11, <1>12, <1>13 DEF Committed, Edited

\* An edit that leaves the number of items alone and does not count them.
LEMMA PlainEdit ==
  ASSUME NEW s, Sound(s), NEW p \in Lists, s.lists[p].row, ~s.lists[p].deleted, NEW d \in Devices,
         NEW ids, NEW plan, NEW runs, EditFits(s.items[p], ids, plan, runs),
         (Present(s.items[p]) \ Range(ids)) \cup Placed(runs) = Present(s.items[p])
  PROVE  Edited(s, Result(CommitItems(s, p, d, ids, plan, runs), "applied"), p, ids, plan, runs)
<1>1. PICK c, t : c = CommitItems(s, p, d, ids, plan, runs) /\ t = Result(c, "applied")
  OBVIOUS
<1>2. /\ s \in Tx /\ Distinct(s.items[p]) /\ Written(s.items[p], s.seq) /\ CountRight(s.lists[p], s.items[p])
  BY DEF Sound
<1>3. Committed(s, c, p, ids, plan, runs)
  BY <1>1, <1>2, CommitFacts
<1>4. c \in Tx /\ c.lists = s.lists /\ c.status = s.status /\ c.target = s.target
  BY <1>3 DEF Committed
<1>5. Present(c.items[p]) = Present(s.items[p])
  BY <1>3 DEF Committed
<1>6. Steps(s, c)
  <2>1. /\ \A q \in Lists : q # p => c.lists[q] = s.lists[q]
        /\ c.lists[p].row /\ ~c.lists[p].deleted /\ c.lists[p].count = Cardinality(Present(c.items[p]))
    BY <1>2, <1>4, <1>5 DEF CountRight
  <2> QED
    BY <1>3, <1>4, <2>1, EditSteps
<1>7. SameTx(c, t) /\ t.status = "applied" /\ t.target = c.target
  <2>1. "applied" \in Statuses
    BY DEF Statuses
  <2> QED
    BY <1>1, <1>4, <2>1, ResultFacts
<1>8. Steps(s, t)
  BY <1>6, <1>7, SameSteps
<1>9. t.items = c.items /\ t.target = s.target
  BY <1>4, <1>7 DEF SameTx
<1> QED
  BY <1>1, <1>3, <1>7, <1>8, <1>9 DEF Committed, Edited

\* An answer that writes nothing.
LEMMA AnswerSteps ==
  ASSUME NEW s, Sound(s), NEW status \in Statuses
  PROVE  LET t == Result(s, status)
         IN Steps(s, t) /\ t.items = s.items /\ t.lists = s.lists /\ t.status = status /\ t.target = s.target
<1>1. PICK t : t = Result(s, status)
  OBVIOUS
<1>2. s \in Tx
  BY DEF Sound
<1>3. SameTx(s, t) /\ t.status = status /\ t.target = s.target
  BY <1>1, <1>2, ResultFacts
<1>4. Steps(s, t)
  BY <1>3, NothingSteps, SameSteps
<1> QED
  BY <1>1, <1>3, <1>4 DEF SameTx

Winners(rows, ids, w) == {v \in Range(ids) \ Present(rows) : rows[v].row => Wins(rows[v].mem, w)}

\* The ids that win are in the order of the op.
LEMMA WinningFacts ==
  ASSUME NEW rows, NEW ids, Listing(ids, Videos), NEW w
  PROVE  /\ Listing(Winning(rows, ids, w), Videos)
         /\ Range(Winning(rows, ids, w)) = Winners(rows, ids, w)
         /\ \A u, v \in Range(Winning(rows, ids, w)) :
              Place(Winning(rows, ids, w), u) < Place(Winning(rows, ids, w), v) <=> Place(ids, u) < Place(ids, v)
<1>1. PICK T : T = Winners(rows, ids, w)
  OBVIOUS
<1>2. PICK f : f = Among(ids, T)
  OBVIOUS
<1>3. f = Winning(rows, ids, w)
  BY <1>1, <1>2 DEF Winning, Winners
<1>4. /\ Listing(f, Videos) /\ Range(f) = Range(ids) \cap T
      /\ \A u, v \in Range(ids) \cap T : Place(f, u) < Place(f, v) <=> Place(ids, u) < Place(ids, v)
  BY <1>2, AmongFacts
<1>5. Range(f) = T
  <2>1. T \subseteq Range(ids)
    BY <1>1 DEF Winners
  <2> QED
    BY <1>4, <2>1
<1> QED
  BY <1>1, <1>3, <1>4, <1>5

\* The items that an insertion at a slot of the order puts there.
LEMMA JoinEdit ==
  ASSUME NEW s, Sound(s), NEW p \in Lists, s.lists[p].row, ~s.lists[p].deleted, NEW d \in Devices, NEW at \in Nat,
         NEW joins, Listing(joins, Videos), Range(joins) \cap Present(s.items[p]) = {},
         NEW slot, SlotFits(Order(s.items[p]), slot)
  PROVE  LET t == Result(Joined(s, p, d, joins, slot, at), "applied")
         IN  /\ Steps(s, t) /\ t.status = "applied" /\ t.target = s.target
             /\ \A q \in Lists : q # p => t.items[q] = s.items[q]
             /\ Present(t.items[p]) = Present(s.items[p]) \cup Range(joins)
             /\ Order(t.items[p]) = Block(Order(s.items[p]), joins, Place(Order(s.items[p]), slot.lower))
<1>1. PICK plan, runs, old : /\ plan = [v \in Range(joins) |-> Joins(at)] /\ runs = RunAt(slot, joins)
                             /\ old = s.items[p]
  OBVIOUS
<1>2. PICK t : t = Result(Joined(s, p, d, joins, slot, at), "applied")
  OBVIOUS
<1>3. t = Result(SetItemCount(CommitItems(s, p, d, joins, plan, runs), p, Len(joins)), "applied")
  BY <1>1, <1>2 DEF Joined
<1>4. s \in Tx
  BY DEF Sound
<1>5. old \in Rows
  BY <1>1, <1>4, ListFacts
<1>6. DOMAIN plan = Range(joins) /\ \A v \in Range(joins) : plan[v] = Joins(at)
  BY <1>1
<1>7. \A v \in Range(joins) : plan[v] \in Planned /\ plan[v].mem /\ plan[v].present
  <2>1. PICK j : j = Joins(at)
    OBVIOUS
  <2>2. j \in Planned /\ j.mem /\ j.present
    BY <2>1 DEF Joins, Planned
  <2> QED
    BY <1>6, <2>1, <2>2
<1>8. Placed(runs) = Range(joins)
  BY <1>1 DEF RunAt, Placed
<1>9. PICK list, stays : list = Order(old) /\ stays = Stays(Order(old), plan, runs)
  OBVIOUS
<1>10. Listing(list, Videos) /\ Range(list) = Present(old)
  BY <1>5, <1>9, OrderFacts
<1>11. stays = list
  <2>1. Placed(runs) \subseteq Range(joins) /\ \A v \in Range(joins) : plan[v].present <=> v \in Placed(runs)
    BY <1>7, <1>8
  <2>2. stays = Among(Order(old), Range(Order(old)) \ Range(joins))
    BY <1>5, <1>6, <1>9, <2>1, StaysFacts
  <2>3. Range(list) \subseteq Range(list) \ Range(joins)
    BY <1>1, <1>10
  <2> QED
    BY <1>9, <1>10, <2>2, <2>3, AmongAll
<1>12. SlotFits(stays, slot) /\ Listing(stays, Videos)
  BY <1>1, <1>9, <1>10, <1>11
<1>13. RunsFit(stays, runs)
  BY <1>1, <1>12, RunAtFacts
<1>14. EditFits(s.items[p], joins, plan, runs)
  BY <1>1, <1>6, <1>7, <1>8, <1>9, <1>13 DEF EditFits
<1>15. (Present(s.items[p]) \ Range(joins)) \cup Placed(runs) = Present(s.items[p]) \cup Range(joins)
  BY <1>8
<1>16. Cardinality((Present(s.items[p]) \ Range(joins)) \cup Placed(runs)) = Cardinality(Present(s.items[p])) + Len(joins)
       /\ Len(joins) \in Int
  <2>1. PICK A, B : A = Present(s.items[p]) /\ B = Range(joins)
    OBVIOUS
  <2>2. IsFiniteSet(A) /\ IsFiniteSet(B) /\ Cardinality(B) = Len(joins) /\ Len(joins) \in Nat /\ A \cap B = {}
    BY <1>1, <1>5, <2>1, RowFacts, ListingFacts
  <2>3. Cardinality(A \cup B) = Cardinality(A) + Cardinality(B) - Cardinality(A \cap B)
    BY <2>2, FS_Union
  <2>4. Cardinality(A \cap B) = 0
    BY <2>2, FS_EmptySet
  <2>5. Cardinality(A) \in Nat
    BY <2>2, FS_CardinalityType
  <2>6. Cardinality(A \cup B) = Cardinality(A) + Len(joins)
    BY <2>2, <2>3, <2>4, <2>5
  <2>7. PICK C : C = (Present(s.items[p]) \ Range(joins)) \cup Placed(runs)
    OBVIOUS
  <2>8. C = A \cup B
    BY <1>15, <2>1, <2>7
  <2>9. Cardinality(C) = Cardinality(A) + Len(joins)
    BY <2>6, <2>8
  <2>10. Len(joins) \in Int
    BY <2>2
  <2> QED
    BY <2>1, <2>7, <2>9, <2>10
<1>17. Edited(s, t, p, joins, plan, runs)
  BY <1>3, <1>14, <1>16, CountedEdit
<1>18. FinalOrder(Order(old), plan, runs) = Block(stays, joins, Place(stays, slot.lower))
  <2>1. Range(stays) \cap Range(joins) = {}
    BY <1>1, <1>10, <1>11
  <2>2. stays = Stays(Order(old), plan, RunAt(slot, joins))
    BY <1>1, <1>9
  <2>3. FinalOrder(Order(old), plan, RunAt(slot, joins)) = Block(stays, joins, Place(stays, slot.lower))
    BY <1>12, <2>1, <2>2, InsertedOrder
  <2> QED
    BY <1>1, <2>3
<1> QED
  BY <1>1, <1>2, <1>9, <1>11, <1>15, <1>17, <1>18 DEF Edited

\* addItems: the ids that are absent and win become present at the anchor, all of them or none.
LEMMA AddItemsSteps ==
  ASSUME NEW s, Sound(s), NEW p \in Lists, s.lists[p].row, ~s.lists[p].deleted,
         NEW o, Listing(o.ids, Videos), o.after \in Videos \cup {Open}, o.before \in Videos \cup {Open},
         NEW w \in Writer, NEW at \in Nat
  PROVE  LET t == AddItems(s, p, o, w, at)
             joins == Winning(s.items[p], o.ids, w)
             list == Order(s.items[p])
         IN  /\ Steps(s, t) /\ t.target = s.target
             /\ \A q \in Lists : q # p => t.items[q] = s.items[q]
             /\ \/ t.items = s.items /\ (t.status = "deferred" \/ (joins = <<>> /\ t.status \in {"applied", "superseded"}))
                \/ /\ t.status = "applied"
                   /\ Present(t.items[p]) = Present(s.items[p]) \cup Range(joins)
                   /\ Order(t.items[p]) = Block(list, joins, Place(list, AnchorSlot(list, o.after, o.before).lower))
<1>1. PICK t, joins, list, slot :
        /\ t = AddItems(s, p, o, w, at) /\ joins = Winning(s.items[p], o.ids, w) /\ list = Order(s.items[p])
        /\ slot = AnchorSlot(list, o.after, o.before)
  OBVIOUS
<1>2. t = JoinItems(s, p, o, w, at, joins)
  BY <1>1 DEF AddItems
<1>3. s.items[p] \in Rows
  BY ListFacts DEF Sound
<1>4. CASE joins = <<>>
  <2>1. PICK status : status = IF Absent(s.items[p], o.ids) = <<>> THEN "applied" ELSE "superseded"
    OBVIOUS
  <2>2. t = Result(s, status)
    BY <1>2, <1>4, <2>1 DEF JoinItems
  <2>3. status \in Statuses /\ status \in {"applied", "superseded"}
    BY <2>1 DEF Statuses
  <2>4. Steps(s, t) /\ t.items = s.items /\ t.status = status /\ t.target = s.target
    BY <2>2, <2>3, AnswerSteps
  <2> QED
    BY <1>1, <1>4, <2>3, <2>4
<1>5. CASE joins # <<>> /\ ~ItemQuotaAllows(s, s.lists[p].count, Len(joins), NewRows(s.items[p], joins))
  <2>1. t = Result(s, "deferred")
    BY <1>2, <1>5 DEF JoinItems
  <2>2. "deferred" \in Statuses
    BY DEF Statuses
  <2>3. Steps(s, t) /\ t.items = s.items /\ t.status = "deferred" /\ t.target = s.target
    BY <2>1, <2>2, AnswerSteps
  <2> QED
    BY <1>1, <2>3
<1>6. CASE joins # <<>> /\ ItemQuotaAllows(s, s.lists[p].count, Len(joins), NewRows(s.items[p], joins))
  <2>1. t = Result(Joined(s, p, w.dev, joins, slot, at), "applied")
    BY <1>1, <1>2, <1>6 DEF JoinItems
  <2>2. Listing(list, Videos)
    BY <1>1, <1>3, OrderFacts
  <2>3. SlotFits(list, slot)
    BY <1>1, <2>2, SlotFacts
  <2>4. Listing(joins, Videos) /\ Range(joins) \cap Present(s.items[p]) = {}
    <3>1. Listing(joins, Videos) /\ Range(joins) = Winners(s.items[p], o.ids, w)
      <4>1. PICK rows, ids : rows = s.items[p] /\ ids = o.ids
        OBVIOUS
      <4>2. joins = Winning(rows, ids, w) /\ Listing(ids, Videos)
        BY <1>1, <4>1
      <4>3. Listing(joins, Videos) /\ Range(joins) = Winners(rows, ids, w)
        BY <4>2, WinningFacts
      <4> QED
        BY <4>1, <4>3
    <3> QED
      BY <3>1 DEF Winners
  <2>5. w.dev \in Devices
    BY DEF Writer
  <2>6. /\ Steps(s, t) /\ t.status = "applied" /\ t.target = s.target
        /\ \A q \in Lists : q # p => t.items[q] = s.items[q]
        /\ Present(t.items[p]) = Present(s.items[p]) \cup Range(joins)
        /\ Order(t.items[p]) = Block(Order(s.items[p]), joins, Place(Order(s.items[p]), slot.lower))
    <3>1. SlotFits(Order(s.items[p]), slot)
      BY <1>1, <2>3
    <3> QED
      BY <2>1, <2>4, <2>5, <3>1, JoinEdit
  <2> QED
    BY <1>1, <2>6
<1> QED
  BY <1>4, <1>5, <1>6


\* A list of one.
LEMMA OneListing ==
  ASSUME NEW v \in Videos
  PROVE  Listing(<<v>>, Videos) /\ Range(<<v>>) = {v} /\ Len(<<v>>) = 1 /\ Place(<<v>>, v) = 1
<1>1. PICK f : f = <<v>>
  OBVIOUS
<1>2. f \in Seq(Videos) /\ Len(f) = 1 /\ DOMAIN f = 1 .. 1 /\ f[1] = v
  BY <1>1
<1>3. DOMAIN f = {1}
  BY <1>2
<1>4. Listing(f, Videos)
  BY <1>2, <1>3 DEF Listing, IsInjective
<1>5. Range(f) = {v}
  BY <1>2, <1>3 DEF Range
<1>6. Place(f, v) = 1
  BY <1>2, <1>3, <1>4, ListingFacts
<1> QED
  BY <1>1, <1>2, <1>4, <1>5, <1>6

\* A list without one of its items.
LEMMA WithoutFacts ==
  ASSUME NEW list, Listing(list, Videos), NEW v
  PROVE  /\ Listing(Without(list, v), Videos) /\ Range(Without(list, v)) = Range(list) \ {v}
         /\ \A x, y \in Range(list) \ {v} :
              Place(Without(list, v), x) < Place(Without(list, v), y) <=> Place(list, x) < Place(list, y)
         /\ v \notin Range(list) => Without(list, v) = list
<1>1. PICK T : T = Range(list) \ {v}
  OBVIOUS
<1>2. Without(list, v) = Among(list, T)
  BY <1>1 DEF Without
<1>3. Range(list) \cap T = T
  BY <1>1
<1>4. /\ Listing(Among(list, T), Videos) /\ Range(Among(list, T)) = T
      /\ \A x, y \in T : Place(Among(list, T), x) < Place(Among(list, T), y) <=> Place(list, x) < Place(list, y)
  BY <1>3, AmongFacts
<1>5. v \notin Range(list) => Among(list, T) = list
  <2>1. v \notin Range(list) => Range(list) \subseteq T
    BY <1>1
  <2> QED
    BY <2>1, AmongAll
<1> QED
  BY <1>1, <1>2, <1>4, <1>5

\* An edit that places nothing leaves what stays.
LEMMA NothingPlaced ==
  ASSUME NEW list, NEW plan, NEW runs, NEW stays, stays = Stays(list, plan, runs), Listing(stays, Videos),
         RunsFit(stays, runs), Placed(runs) = {}
  PROVE  FinalOrder(list, plan, runs) = stays
<1>1. PICK order : order = FinalOrder(list, plan, runs)
  OBVIOUS
<1>2. Range(stays) \cap Placed(runs) = {} /\ Range(stays) \cup Placed(runs) = Range(stays)
  OBVIOUS
<1>3. /\ Listing(order, Videos) /\ Range(order) = Range(stays)
      /\ \A u, v \in Range(stays) : Place(order, u) < Place(order, v) <=> RankLess(Rank(stays, runs, u), Rank(stays, runs, v))
  BY <1>1, <1>2, FinalOrderFacts
<1>4. \A v \in Range(stays) : Rank(stays, runs, v) = <<Place(stays, v), 0>>
  BY <1>2, RankFacts
<1>5. \A u, v \in Range(order) : Place(order, u) < Place(order, v) => Place(stays, u) < Place(stays, v)
  BY <1>3, <1>4 DEF RankLess
<1> QED
  BY <1>1, <1>3, <1>5, SameListing

\* playlist.item.remove: the list loses the item, or nothing changes.
LEMMA RemoveSteps ==
  ASSUME NEW s, Sound(s), NEW o, NEW p \in Lists, p = o.list, NEW v \in Videos, v = o.ids[1], NEW w \in Writer
  PROVE  LET t == RemoveItem(s, o, w)
         IN  /\ Steps(s, t) /\ t.target = s.target
             /\ \/ t.items = s.items /\ (t.status \in {"deferred", "superseded"} \/ v \notin Present(s.items[p]))
                \/ Order(t.items[p]) = Without(Order(s.items[p]), v)
<1>1. PICK t, old, row : t = RemoveItem(s, o, w) /\ old = s.items[p] /\ row = old[v]
  OBVIOUS
<1>2. s \in Tx /\ old \in Rows
  BY <1>1, ListFacts DEF Sound
<1>3. v \in Present(old) <=> row.present
  BY <1>1 DEF Present
<1>4. "deferred" \in Statuses /\ "applied" \in Statuses /\ "superseded" \in Statuses
  BY DEF Statuses
<1>5. CASE ~s.lists[p].row
  <2>1. t = Result(s, "deferred")
    BY <1>1, <1>5 DEF RemoveItem
  <2>2. Steps(s, t) /\ t.items = s.items /\ t.status = "deferred" /\ t.target = s.target
    BY <1>4, <2>1, AnswerSteps
  <2> QED
    BY <1>1, <2>2
<1>6. CASE s.lists[p].row /\ (s.lists[p].deleted \/ ~row.present)
  <2>1. t = Result(s, "applied")
    BY <1>1, <1>6 DEF RemoveItem
  <2>2. Steps(s, t) /\ t.items = s.items /\ t.target = s.target
    BY <1>4, <2>1, AnswerSteps
  <2>3. v \notin Present(old)
    <3>1. CASE s.lists[p].deleted
      <4>1. old = NoRows
        BY <1>1, <3>1 DEF Sound, NothingLeft
      <4> QED
        BY <4>1 DEF Present, NoRows, NoItem
    <3>2. CASE ~row.present
      BY <1>3, <3>2
    <3> QED
      BY <1>6, <3>1, <3>2
  <2> QED
    BY <1>1, <2>2, <2>3
<1>7. CASE s.lists[p].row /\ ~s.lists[p].deleted /\ row.present /\ ~Wins(row.mem, w)
  <2>1. t = Result(s, "superseded")
    BY <1>1, <1>7 DEF RemoveItem
  <2>2. Steps(s, t) /\ t.items = s.items /\ t.status = "superseded" /\ t.target = s.target
    BY <1>4, <2>1, AnswerSteps
  <2> QED
    BY <1>1, <2>2
<1>8. CASE s.lists[p].row /\ ~s.lists[p].deleted /\ row.present /\ Wins(row.mem, w)
  <2>1. PICK ids, plan, runs : ids = <<v>> /\ plan = [x \in {v} |-> Removes(row, w.at)] /\ runs = <<>>
    OBVIOUS
  <2>2. t = Result(SetItemCount(CommitItems(s, p, w.dev, ids, plan, runs), p, -1), "applied")
    BY <1>1, <1>8, <2>1 DEF RemoveItem
  <2>3. Listing(ids, Videos) /\ Range(ids) = {v}
    BY <2>1, OneListing
  <2>4. DOMAIN plan = Range(ids) /\ plan[v] = Removes(row, w.at)
    BY <2>1, <2>3
  <2>5. plan[v] \in Planned /\ plan[v].mem /\ ~plan[v].present
    <3>1. w.at \in Nat
      BY DEF Writer
    <3>2. PICK r : r = Removes(row, w.at)
      OBVIOUS
    <3>3. r = [present |-> FALSE, mem |-> TRUE, pos |-> FALSE, at |-> w.at]
      BY <3>2 DEF Removes, Unchanged
    <3>4. r \in Planned /\ r.mem /\ ~r.present
      BY <3>1, <3>3 DEF Planned
    <3> QED
      BY <2>4, <3>2, <3>4
  <2>6. DOMAIN runs = {} /\ Placed(runs) = {}
    <3>1. DOMAIN runs = {}
      BY <2>1
    <3> QED
      BY <3>1 DEF Placed
  <2>7. PICK list, stays : list = Order(old) /\ stays = Stays(Order(old), plan, runs)
    OBVIOUS
  <2>8. Listing(list, Videos) /\ Range(list) = Present(old)
    BY <1>2, <2>7, OrderFacts
  <2>9. Placed(runs) \subseteq Range(ids) /\ \A x \in Range(ids) : plan[x].present <=> x \in Placed(runs)
    BY <2>3, <2>5, <2>6
  <2>10. stays = Among(list, Range(list) \ Range(ids)) /\ Listing(stays, Videos)
    BY <1>2, <2>4, <2>7, <2>9, StaysFacts
  <2>11. stays = Without(list, v)
    BY <2>3, <2>10 DEF Without
  <2>12. RunsFit(stays, runs)
    BY <2>6 DEF RunsFit
  <2>13. EditFits(s.items[p], ids, plan, runs)
    BY <1>1, <1>3, <1>8, <2>3, <2>4, <2>5, <2>7, <2>9, <2>12 DEF EditFits
  <2>14. Cardinality((Present(s.items[p]) \ Range(ids)) \cup Placed(runs)) = Cardinality(Present(s.items[p])) + (-1)
    <3>1. PICK A : A = Present(s.items[p])
      OBVIOUS
    <3>2. IsFiniteSet(A) /\ v \in A
      BY <1>1, <1>2, <1>3, <1>8, <3>1, RowFacts
    <3>3. IsFiniteSet(A \ {v}) /\ Cardinality(A \ {v}) = Cardinality(A) - 1 /\ Cardinality(A) \in Nat
      BY <3>2, FS_RemoveElement, FS_CardinalityType
    <3>4. PICK B : B = (Present(s.items[p]) \ Range(ids)) \cup Placed(runs)
      OBVIOUS
    <3>5. B = A \ {v}
      BY <2>3, <2>6, <3>1, <3>4
    <3>6. Cardinality(B) = Cardinality(A) + (-1)
      BY <3>3, <3>5
    <3> QED
      BY <3>1, <3>4, <3>6
  <2>15. Edited(s, t, p, ids, plan, runs)
    <3>1. w.dev \in Devices /\ -1 \in Int
      BY DEF Writer
    <3> QED
      BY <1>8, <2>2, <2>13, <2>14, <3>1, CountedEdit
  <2>16. FinalOrder(list, plan, runs) = stays
    <3>1. stays = Stays(list, plan, runs)
      BY <2>7
    <3> QED
      BY <2>6, <2>10, <2>12, <3>1, NothingPlaced
  <2>17. Order(t.items[p]) = Without(Order(s.items[p]), v)
    BY <1>1, <2>7, <2>11, <2>15, <2>16 DEF Edited
  <2> QED
    BY <1>1, <2>15, <2>17 DEF Edited
<1> QED
  BY <1>5, <1>6, <1>7, <1>8

\* What a move comes to.
MovedTo(s, t, p, v, list, slot) ==
  /\ Steps(s, t) /\ t.target = s.target
  /\ \/ t.items = s.items /\ (t.status = "superseded" \/ slot.lower = At(list, Place(list, v) - 1))
     \/ Order(t.items[p]) = Block(Without(list, v), <<v>>, Place(Without(list, v), slot.lower))

\* A move puts the item at its slot, unless it is there already or a later edit holds its place.
LEMMA MoveToSteps ==
  ASSUME NEW s, Sound(s), NEW p \in Lists, s.lists[p].row, ~s.lists[p].deleted, NEW v \in Present(s.items[p]),
         NEW w \in Writer, NEW list, list = Order(s.items[p]), NEW slot, SlotFits(Without(list, v), slot)
  PROVE  MovedTo(s, MoveTo(s, p, v, w, list, slot), p, v, list, slot)
<1>1. PICK t, old, row : t = MoveTo(s, p, v, w, list, slot) /\ old = s.items[p] /\ row = old[v]
  OBVIOUS
<1>2. s \in Tx /\ old \in Rows
  BY <1>1, ListFacts DEF Sound
<1>3. v \in Videos /\ row.present = TRUE
  <2>1. v \in Videos /\ row.present /\ row.present \in BOOLEAN
    BY <1>1, <1>2, RowFacts DEF Present
  <2> QED
    BY <2>1
<1>4. "applied" \in Statuses /\ "superseded" \in Statuses
  BY DEF Statuses
<1>5. CASE slot.lower = At(list, Place(list, v) - 1)
  <2>1. t = Result(s, "applied")
    BY <1>1, <1>5 DEF MoveTo
  <2>2. Steps(s, t) /\ t.items = s.items /\ t.target = s.target
    BY <1>4, <2>1, AnswerSteps
  <2> QED
    BY <1>1, <1>5, <2>2 DEF MovedTo
<1>6. CASE slot.lower # At(list, Place(list, v) - 1) /\ ~Wins(row.pos, w)
  <2>1. t = Result(s, "superseded")
    BY <1>1, <1>6 DEF MoveTo
  <2>2. Steps(s, t) /\ t.items = s.items /\ t.status = "superseded" /\ t.target = s.target
    BY <1>4, <2>1, AnswerSteps
  <2> QED
    BY <1>1, <2>2 DEF MovedTo
<1>7. CASE slot.lower # At(list, Place(list, v) - 1) /\ Wins(row.pos, w)
  <2>1. PICK ids, plan, runs : ids = <<v>> /\ plan = [x \in {v} |-> Moved(row, w.at)] /\ runs = RunAt(slot, <<v>>)
    OBVIOUS
  <2>2. t = Result(CommitItems(s, p, w.dev, ids, plan, runs), "applied")
    BY <1>1, <1>7, <2>1 DEF MoveTo
  <2>3. Listing(ids, Videos) /\ Range(ids) = {v}
    BY <1>3, <2>1, OneListing
  <2>4. DOMAIN plan = Range(ids) /\ plan[v] = Moved(row, w.at)
    BY <2>1, <2>3
  <2>5. plan[v] \in Planned /\ plan[v].pos /\ plan[v].present
    <3>1. w.at \in Nat
      BY DEF Writer
    <3>2. PICK r : r = Moved(row, w.at)
      OBVIOUS
    <3>3. r = [present |-> TRUE, mem |-> FALSE, pos |-> TRUE, at |-> w.at]
      BY <1>3, <3>2 DEF Moved, Unchanged
    <3>4. r \in Planned /\ r.pos /\ r.present
      BY <3>1, <3>3 DEF Planned
    <3> QED
      BY <2>4, <3>2, <3>4
  <2>6. Placed(runs) = {v}
    BY <2>1, <2>3 DEF RunAt, Placed
  <2>7. PICK stays : stays = Stays(list, plan, runs)
    OBVIOUS
  <2>8. Placed(runs) \subseteq Range(ids) /\ \A x \in Range(ids) : plan[x].present <=> x \in Placed(runs)
    BY <2>3, <2>5, <2>6
  <2>9. stays = Among(list, Range(list) \ Range(ids)) /\ Listing(stays, Videos)
    <3>1. stays = Stays(Order(old), plan, runs)
      BY <1>1, <2>7
    <3>2. stays = Among(Order(old), Range(Order(old)) \ Range(ids)) /\ Listing(stays, Videos)
      BY <1>2, <2>4, <2>8, <3>1, StaysFacts
    <3> QED
      BY <1>1, <3>2
  <2>10. stays = Without(list, v)
    BY <2>3, <2>9 DEF Without
  <2>11. SlotFits(stays, slot)
    BY <2>10
  <2>12. RunsFit(stays, runs)
    BY <2>1, <2>3, <2>9, <2>11, RunAtFacts
  <2>13. EditFits(s.items[p], ids, plan, runs)
    <3>1. RunsFit(Stays(Order(s.items[p]), plan, runs), runs)
      BY <2>7, <2>12
    <3>2. \A x \in Range(ids) : /\ plan[x] \in Planned /\ (plan[x].mem \/ plan[x].pos)
                                /\ plan[x].present <=> x \in Placed(runs)
                                /\ ~plan[x].present => x \in Present(s.items[p])
      BY <2>3, <2>5, <2>6
    <3> QED
      BY <2>3, <2>4, <2>8, <3>1, <3>2 DEF EditFits
  <2>14. (Present(s.items[p]) \ Range(ids)) \cup Placed(runs) = Present(s.items[p])
    BY <2>3, <2>6
  <2>15. Edited(s, t, p, ids, plan, runs)
    <3>1. w.dev \in Devices
      BY DEF Writer
    <3> QED
      BY <2>2, <2>13, <2>14, <3>1, PlainEdit
  <2>16. FinalOrder(list, plan, runs) = Block(stays, ids, Place(stays, slot.lower))
    <3>1. runs = RunAt(slot, ids)
      BY <2>1
    <3>2. Range(stays) \cap Range(ids) = {}
      <4>1. Range(Without(list, v)) = Range(list) \ {v}
        <5>1. Listing(list, Videos)
          BY <1>1, <1>2, OrderFacts
        <5> QED
          BY <5>1, WithoutFacts
      <4> QED
        BY <2>3, <2>10, <4>1
    <3>3. stays = Stays(list, plan, RunAt(slot, ids))
      BY <2>7, <3>1
    <3>4. FinalOrder(list, plan, RunAt(slot, ids)) = Block(stays, ids, Place(stays, slot.lower))
      BY <2>3, <2>9, <2>11, <3>2, <3>3, InsertedOrder
    <3> QED
      BY <3>1, <3>4
  <2>17. Order(t.items[p]) = Block(Without(list, v), <<v>>, Place(Without(list, v), slot.lower))
    BY <2>1, <2>10, <2>15, <2>16 DEF Edited
  <2> QED
    BY <1>1, <2>15, <2>17 DEF Edited, MovedTo
<1> QED
  BY <1>5, <1>6, <1>7

\* playlist.item.move, with the slot of its anchors in the list without the item.
LEMMA MoveSteps ==
  ASSUME NEW s, Sound(s), NEW o, NEW p \in Lists, p = o.list, NEW v \in Videos, v = o.ids[1], NEW w \in Writer,
         o.after \in Videos \cup {Open}, o.before \in Videos \cup {Open}
  PROVE  LET t == Move(s, o, w)
             list == Order(s.items[p])
             lower == AnchorSlot(Without(list, v), o.after, o.before).lower
         IN  /\ Steps(s, t) /\ t.target = s.target
             /\ \/ t.items = s.items /\ \/ t.status \in {"deferred", "superseded"}
                                        \/ v \notin Present(s.items[p])
                                        \/ v \in Present(s.items[p]) /\ lower = At(list, Place(list, v) - 1)
                \/ /\ v \in Present(s.items[p])
                   /\ Order(t.items[p]) = Block(Without(list, v), <<v>>, Place(Without(list, v), lower))
<1>1. PICK t, old, list, slot : /\ t = Move(s, o, w) /\ old = s.items[p] /\ list = Order(s.items[p])
                                /\ slot = AnchorSlot(Without(list, v), o.after, o.before)
  OBVIOUS
<1>2. s \in Tx /\ old \in Rows
  BY <1>1, ListFacts DEF Sound
<1>3. v \in Present(old) <=> old[v].present
  BY DEF Present
<1>4. "deferred" \in Statuses /\ "applied" \in Statuses
  BY DEF Statuses
<1>5. CASE ~s.lists[p].row
  <2>1. t = Result(s, "deferred")
    BY <1>1, <1>5 DEF Move
  <2>2. Steps(s, t) /\ t.items = s.items /\ t.status = "deferred" /\ t.target = s.target
    BY <1>4, <2>1, AnswerSteps
  <2> QED
    BY <1>1, <2>2
<1>6. CASE s.lists[p].row /\ (s.lists[p].deleted \/ ~old[v].present)
  <2>1. t = Result(s, "applied")
    BY <1>1, <1>6 DEF Move
  <2>2. Steps(s, t) /\ t.items = s.items /\ t.target = s.target
    BY <1>4, <2>1, AnswerSteps
  <2>3. v \notin Present(old)
    <3>1. CASE s.lists[p].deleted
      <4>1. old = NoRows
        BY <1>1, <3>1 DEF Sound, NothingLeft
      <4> QED
        BY <4>1 DEF Present, NoRows, NoItem
    <3>2. CASE ~old[v].present
      BY <1>3, <3>2
    <3> QED
      BY <1>6, <3>1, <3>2
  <2> QED
    BY <1>1, <2>2, <2>3
<1>7. CASE s.lists[p].row /\ ~s.lists[p].deleted /\ old[v].present
  <2>1. t = MoveTo(s, p, v, w, list, slot)
    BY <1>1, <1>7 DEF Move
  <2>2. v \in Present(s.items[p])
    BY <1>1, <1>3, <1>7
  <2>3. SlotFits(Without(list, v), slot)
    <3>1. Listing(list, Videos)
      BY <1>1, <1>2, OrderFacts
    <3>2. Listing(Without(list, v), Videos)
      BY <3>1, WithoutFacts
    <3> QED
      BY <1>1, <3>2, SlotFacts
  <2>4. MovedTo(s, t, p, v, list, slot)
    <3>1. list = Order(s.items[p]) /\ s.lists[p].row /\ ~s.lists[p].deleted
      BY <1>1, <1>7
    <3> QED
      BY <3>1, <2>1, <2>2, <2>3, MoveToSteps
  <2>5. /\ Steps(s, t) /\ t.target = s.target
        /\ \/ t.items = s.items /\ (t.status = "superseded" \/ slot.lower = At(list, Place(list, v) - 1))
           \/ Order(t.items[p]) = Block(Without(list, v), <<v>>, Place(Without(list, v), slot.lower))
    BY <2>4 DEF MovedTo
  <2>6. CASE t.items = s.items /\ (t.status = "superseded" \/ slot.lower = At(list, Place(list, v) - 1))
    <3>1. t.status = "superseded" \/ AnchorSlot(Without(list, v), o.after, o.before).lower = At(list, Place(list, v) - 1)
      BY <1>1, <2>6
    <3> QED
      BY <1>1, <2>2, <2>5, <2>6, <3>1
  <2>7. CASE Order(t.items[p]) = Block(Without(list, v), <<v>>, Place(Without(list, v), slot.lower))
    <3>1. Order(t.items[p]) = Block(Without(list, v), <<v>>,
                                    Place(Without(list, v), AnchorSlot(Without(list, v), o.after, o.before).lower))
      BY <1>1, <2>7
    <3> QED
      BY <1>1, <2>2, <2>5, <3>1
  <2> QED
    BY <2>5, <2>6, <2>7
<1> QED
  BY <1>5, <1>6, <1>7


-----------------------------------------------------------------------------
(* The mirror. *)

\* The items on the LIS are of the ids and rise in the list.
LEMMA LongestFacts ==
  ASSUME NEW list, NEW kept, Listing(kept, Videos)
  PROVE  /\ LongestIncreasing(list, kept) \subseteq Range(kept)
         /\ Rising(list, kept, LongestIncreasing(list, kept))
<1>1. PICK K, sets : K = Range(kept) /\ sets = {set \in SUBSET Range(kept) : Rising(list, kept, set)}
  OBVIOUS
<1>2. IsFiniteSet(K) /\ Cardinality(K) \in Nat
  BY <1>1, ListingFacts, FS_CardinalityType
<1>3. \A set \in sets : set \in SUBSET K /\ Rising(list, kept, set)
  BY <1>1
<1>4. {} \in sets
  BY <1>1 DEF Rising
<1>5. \A set \in sets : Cardinality(set) \in Nat /\ Cardinality(set) <= Cardinality(K)
  BY <1>2, <1>3, FS_Subset, FS_CardinalityType
<1>6. PICK n : n = Cardinality(K)
  OBVIOUS
<1>7. PICK S : S = {n - Cardinality(set) : set \in sets}
  OBVIOUS
<1>8. S \subseteq Nat /\ S # {}
  BY <1>2, <1>4, <1>5, <1>6, <1>7
<1>9. PICK m \in S : \A k \in S : m <= k
  BY <1>8, LeastExists
<1>10. PICK best \in sets : m = n - Cardinality(best)
  BY <1>7, <1>9
<1>11. \A other \in sets : Cardinality(other) <= Cardinality(best)
  <2> TAKE other \in sets
  <2>1. PICK a, b : a = Cardinality(other) /\ b = Cardinality(best)
    OBVIOUS
  <2>2. a \in Nat /\ b \in Nat /\ n \in Nat
    BY <1>2, <1>5, <1>6, <2>1
  <2>3. n - a \in S
    BY <1>7, <2>1
  <2>4. n - b <= n - a
    BY <1>9, <1>10, <2>1, <2>3
  <2> QED
    BY <2>1, <2>2, <2>4
<1>12. Longest(sets) \in sets
  BY <1>11 DEF Longest
<1> QED
  BY <1>1, <1>3, <1>12 DEF LongestIncreasing

\* The LIS item that an id comes behind is the last one before it.
LEMMA LowerFacts ==
  ASSUME NEW ids, Listing(ids, Videos), NEW onLis, onLis \subseteq Range(ids), NEW v
  PROVE  /\ LowerOf(ids, onLis, v) \in onLis \cup {Open}
         /\ LowerOf(ids, onLis, v) = Open => \A u \in onLis : ~(Place(ids, u) < Place(ids, v))
         /\ LowerOf(ids, onLis, v) # Open =>
              /\ LowerOf(ids, onLis, v) \in onLis /\ Place(ids, LowerOf(ids, onLis, v)) < Place(ids, v)
              /\ \A u \in onLis : Place(ids, u) < Place(ids, v) => Place(ids, u) <= Place(ids, LowerOf(ids, onLis, v))
<1>1. PICK before : before = {u \in onLis : Place(ids, u) < Place(ids, v)}
  OBVIOUS
<1>2. PICK n : n = Len(ids)
  OBVIOUS
<1>3. n \in Nat /\ \A u \in Range(ids) : Place(ids, u) \in 1 .. n /\ u \in Videos
  BY <1>2, ListingFacts
<1>4. \A u \in onLis : Place(ids, u) \in 1 .. n /\ u # Open
  BY <1>3, VideoAssumption
<1>5. CASE before = {}
  <2>1. LowerOf(ids, onLis, v) = Open
    BY <1>1, <1>5 DEF LowerOf
  <2> QED
    BY <1>1, <1>5, <2>1
<1>6. CASE before # {}
  <2>1. LowerOf(ids, onLis, v) = CHOOSE u \in before : \A x \in before : Place(ids, x) <= Place(ids, u)
    BY <1>1, <1>6 DEF LowerOf
  <2>2. PICK S : S = {n - Place(ids, u) : u \in before}
    OBVIOUS
  <2>3. \A u \in before : u \in onLis /\ Place(ids, u) < Place(ids, v)
    BY <1>1
  <2>4. S \subseteq Nat /\ S # {}
    BY <1>3, <1>4, <1>6, <2>2, <2>3
  <2>5. PICK m \in S : \A k \in S : m <= k
    BY <2>4, LeastExists
  <2>6. PICK best \in before : m = n - Place(ids, best)
    BY <2>2, <2>5
  <2>7. \A x \in before : Place(ids, x) <= Place(ids, best)
    <3> TAKE x \in before
    <3>1. PICK a, b : a = Place(ids, x) /\ b = Place(ids, best)
      OBVIOUS
    <3>2. a \in Nat /\ b \in Nat
      BY <1>4, <2>3, <3>1
    <3>3. n - b <= n - a
      BY <2>2, <2>5, <2>6, <3>1
    <3> QED
      BY <1>3, <3>1, <3>2, <3>3
  <2>8. PICK l : l = LowerOf(ids, onLis, v)
    OBVIOUS
  <2>9. l \in before /\ \A x \in before : Place(ids, x) <= Place(ids, l)
    BY <2>1, <2>7, <2>8
  <2>10. l \in onLis /\ Place(ids, l) < Place(ids, v) /\ l # Open
    BY <1>4, <2>3, <2>9
  <2>11. \A u \in onLis : Place(ids, u) < Place(ids, v) => Place(ids, u) <= Place(ids, l)
    BY <1>1, <2>9
  <2> QED
    BY <2>8, <2>10, <2>11
<1> QED
  BY <1>5, <1>6

\* The runs of a mirror hold what is placed, each item behind the one of onLis before it, in the order of the ids.
RunsMirror(ids, list, onLis, placed, moving, fixed, runs) ==
  /\ RunsFit(fixed, runs) /\ Placed(runs) = placed
  /\ \A v \in placed : /\ LowerOf(ids, onLis, v) \in DOMAIN runs
                       /\ v \in Range(runs[LowerOf(ids, onLis, v)].ids)
  /\ \A l \in DOMAIN runs : \A u, v \in Range(runs[l].ids) :
       Place(runs[l].ids, u) < Place(runs[l].ids, v) <=> Place(ids, u) < Place(ids, v)

\* The placements of a mirror put every id that is not on the LIS behind the LIS item before it.
LEMMA PlacementsFacts ==
  ASSUME NEW ids, Listing(ids, Videos), NEW list, Listing(list, Videos),
         NEW onLis, onLis \subseteq Range(ids) \cap Range(list), NEW placed, placed \subseteq Range(ids),
         NEW moving, onLis \cap moving = {},
         NEW fixed, fixed = Among(list, Range(list) \ moving),
         NEW runs, runs = Placements(ids, list, onLis, placed, moving)
  PROVE  RunsMirror(ids, list, onLis, placed, moving, fixed, runs)
<1> DEFINE Mine(l) == {v \in placed : LowerOf(ids, onLis, v) = l}
           Batch(l) == Among(ids, Mine(l))
<1>1. /\ DOMAIN runs = {k \in onLis \cup {Open} : Batch(k) # <<>>}
      /\ \A l \in DOMAIN runs : runs[l] = [upper |-> At(fixed, Place(fixed, l) + 1), ids |-> Batch(l)]
  BY DEF Placements
<1>2. \A l : Mine(l) \subseteq placed
  OBVIOUS
<1>3. \A l : \A v \in placed : v \in Mine(l) <=> LowerOf(ids, onLis, v) = l
  OBVIOUS
<1> HIDE DEF Mine
<1>4. ASSUME NEW l
      PROVE  /\ Listing(Batch(l), Videos) /\ Range(Batch(l)) = Mine(l)
             /\ \A u, v \in Mine(l) : Place(Batch(l), u) < Place(Batch(l), v) <=> Place(ids, u) < Place(ids, v)
  <2>1. PICK M : M = Mine(l)
    OBVIOUS
  <2>2. Range(ids) \cap M = M
    BY <1>2, <2>1
  <2>3. /\ Listing(Among(ids, M), Videos) /\ Range(Among(ids, M)) = Range(ids) \cap M
        /\ \A u, v \in Range(ids) \cap M : Place(Among(ids, M), u) < Place(Among(ids, M), v) <=> Place(ids, u) < Place(ids, v)
    BY AmongFacts
  <2> QED
    BY <2>1, <2>2, <2>3
<1>5. Range(fixed) = Range(list) \ moving
  <2>1. PICK T : T = Range(list) \ moving
    OBVIOUS
  <2>2. Range(fixed) = Range(list) \cap T
    BY <2>1, AmongFacts
  <2> QED
    BY <2>1, <2>2
<1> HIDE DEF Batch
<1>6. \A v \in placed : LowerOf(ids, onLis, v) \in onLis \cup {Open}
  BY LowerFacts
<1>7. \A v \in placed : LowerOf(ids, onLis, v) \in DOMAIN runs /\ v \in Range(Batch(LowerOf(ids, onLis, v)))
  <2> TAKE v \in placed
  <2>1. PICK l : l = LowerOf(ids, onLis, v)
    OBVIOUS
  <2>2. v \in Range(Batch(l))
    BY <1>3, <1>4, <2>1
  <2>3. Batch(l) # <<>>
    <3>1. Range(<<>>) = {}
      BY DEF Range
    <3> QED
      BY <2>2, <3>1
  <2> QED
    BY <1>1, <1>6, <2>1, <2>2, <2>3
<1>8. \A l \in DOMAIN runs : runs[l].ids = Batch(l) /\ runs[l].upper = At(fixed, Place(fixed, l) + 1)
  <2> TAKE l \in DOMAIN runs
  <2>1. runs[l] = [upper |-> At(fixed, Place(fixed, l) + 1), ids |-> Batch(l)]
    BY <1>1
  <2> QED
    BY <2>1
<1>9. DOMAIN runs \subseteq Range(fixed) \cup {Open}
  <2>1. \A k \in DOMAIN runs : k \in onLis \/ k = Open
    BY <1>1
  <2>2. \A k \in onLis : k \in Range(fixed)
    BY <1>5
  <2> QED
    BY <2>1, <2>2
<1>10. \A l, m \in DOMAIN runs : l # m => Range(Batch(l)) \cap Range(Batch(m)) = {}
  <2> TAKE l, m \in DOMAIN runs
  <2> HAVE l # m
  <2>1. Range(Batch(l)) = Mine(l) /\ Range(Batch(m)) = Mine(m)
    BY <1>4
  <2>2. \A v \in placed : ~(v \in Mine(l) /\ v \in Mine(m))
    BY <1>3
  <2>3. ASSUME NEW v, v \in Range(Batch(l)), v \in Range(Batch(m)) PROVE FALSE
    <3>1. v \in Mine(l) /\ v \in Mine(m)
      BY <2>1, <2>3
    <3>2. v \in placed
      BY <1>2, <3>1
    <3> QED
      BY <2>2, <3>1, <3>2
  <2> QED
    BY <2>3
<1>11. \A l \in DOMAIN runs : Listing(runs[l].ids, Videos)
  BY <1>4, <1>8
<1>12. RunsFit(fixed, runs)
  <2>1. \A l \in DOMAIN runs : runs[l].upper = At(fixed, Place(fixed, l) + 1)
    BY <1>8
  <2>2. \A l, m \in DOMAIN runs : l # m => Range(runs[l].ids) \cap Range(runs[m].ids) = {}
    BY <1>8, <1>10
  <2> QED
    BY <1>9, <1>11, <2>1, <2>2 DEF RunsFit
<1>13. Placed(runs) = placed
  <2>1. \A l \in DOMAIN runs : Range(runs[l].ids) \subseteq placed
    BY <1>2, <1>4, <1>8
  <2>2. \A v \in placed : \E l \in DOMAIN runs : v \in Range(runs[l].ids)
    BY <1>7, <1>8
  <2> QED
    BY <2>1, <2>2 DEF Placed
<1>14. \A v \in placed : LowerOf(ids, onLis, v) \in DOMAIN runs /\ v \in Range(runs[LowerOf(ids, onLis, v)].ids)
  BY <1>7, <1>8
<1>15. \A l \in DOMAIN runs : \A u, v \in Range(runs[l].ids) :
         Place(runs[l].ids, u) < Place(runs[l].ids, v) <=> Place(ids, u) < Place(ids, v)
  BY <1>4, <1>8
<1> QED
  BY <1>12, <1>13, <1>14, <1>15 DEF RunsMirror

\* Where the mirror puts everything when all of its edits win.
LEMMA MirrorOrder ==
  ASSUME NEW ids, Listing(ids, Videos), NEW list, Listing(list, Videos),
         NEW onLis, onLis \subseteq Range(ids) \cap Range(list),
         \A u, v \in onLis : Place(ids, u) < Place(ids, v) => Place(list, u) < Place(list, v),
         NEW placed, placed = Range(ids) \ onLis, NEW moving, moving = (Range(list) \cup Range(ids)) \ onLis,
         NEW runs, runs = Placements(ids, list, onLis, placed, moving),
         NEW plan, Stays(list, plan, runs) = Among(list, Range(list) \ moving)
  PROVE  FinalOrder(list, plan, runs) = ids
<1>1. PICK fixed : fixed = Among(list, Range(list) \ moving)
  OBVIOUS
<1>2. Listing(fixed, Videos) /\ Range(fixed) = onLis
      /\ \A u, v \in onLis : Place(fixed, u) < Place(fixed, v) <=> Place(list, u) < Place(list, v)
  <2>1. PICK T : T = Range(list) \ moving
    OBVIOUS
  <2>2. T = onLis /\ Range(list) \cap T = onLis
    BY <2>1
  <2>3. /\ Listing(fixed, Videos) /\ Range(fixed) = Range(list) \cap T
        /\ \A u, v \in Range(list) \cap T : Place(fixed, u) < Place(fixed, v) <=> Place(list, u) < Place(list, v)
    BY <1>1, <2>1, AmongFacts
  <2> QED
    BY <2>2, <2>3
<1>3. /\ RunsFit(fixed, runs) /\ Placed(runs) = placed
      /\ \A v \in placed : /\ LowerOf(ids, onLis, v) \in DOMAIN runs
                           /\ v \in Range(runs[LowerOf(ids, onLis, v)].ids)
      /\ \A l \in DOMAIN runs : \A u, v \in Range(runs[l].ids) :
           Place(runs[l].ids, u) < Place(runs[l].ids, v) <=> Place(ids, u) < Place(ids, v)
  <2>1. placed \subseteq Range(ids) /\ onLis \cap moving = {}
    OBVIOUS
  <2>2. RunsMirror(ids, list, onLis, placed, moving, fixed, runs)
    BY <1>1, <2>1, PlacementsFacts
  <2> QED
    BY <2>2 DEF RunsMirror
<1>4. Range(fixed) \cap Placed(runs) = {} /\ Range(fixed) \cup Placed(runs) = Range(ids)
  BY <1>2, <1>3
<1>5. PICK order : order = FinalOrder(list, plan, runs)
  OBVIOUS
<1>6. /\ Listing(order, Videos) /\ Range(order) = Range(ids)
      /\ \A u, v \in Range(ids) : Place(order, u) < Place(order, v) <=> RankLess(Rank(fixed, runs, u), Rank(fixed, runs, v))
  <2>1. fixed = Stays(list, plan, runs)
    BY <1>1
  <2>2. /\ Listing(order, Videos) /\ Range(order) = Range(fixed) \cup Placed(runs)
        /\ \A u, v \in Range(fixed) \cup Placed(runs) :
             Place(order, u) < Place(order, v) <=> RankLess(Rank(fixed, runs, u), Rank(fixed, runs, v))
    <3>1. Listing(fixed, Videos) /\ RunsFit(fixed, runs) /\ Range(fixed) \cap Placed(runs) = {}
      BY <1>2, <1>3, <1>4
    <3> QED
      BY <1>5, <2>1, <3>1, FinalOrderFacts
  <2> QED
    BY <1>4, <2>2
<1>7. /\ \A v \in onLis : Rank(fixed, runs, v) = <<Place(fixed, v), 0>>
      /\ \A v \in placed : Rank(fixed, runs, v) =
           <<Place(fixed, LowerOf(ids, onLis, v)), Place(runs[LowerOf(ids, onLis, v)].ids, v)>>
  <2>1. /\ \A v \in Range(fixed) : Rank(fixed, runs, v) = <<Place(fixed, v), 0>>
        /\ \A l \in DOMAIN runs : \A v \in Range(runs[l].ids) :
             Rank(fixed, runs, v) = <<Place(fixed, l), Place(runs[l].ids, v)>>
    <3>1. Listing(fixed, Videos) /\ RunsFit(fixed, runs) /\ Range(fixed) \cap Placed(runs) = {}
      BY <1>2, <1>3, <1>4
    <3>2. \A v \in Range(fixed) : Rank(fixed, runs, v) = <<Place(fixed, v), 0>>
      BY ONLY <3>1, RankFacts
    <3>3. \A l \in DOMAIN runs : \A v \in Range(runs[l].ids) :
            Rank(fixed, runs, v) = <<Place(fixed, l), Place(runs[l].ids, v)>>
      BY ONLY <3>1, RankFacts
    <3> QED
      BY <3>2, <3>3
  <2>2. \A v \in onLis : Rank(fixed, runs, v) = <<Place(fixed, v), 0>>
    BY <1>2, <2>1
  <2>3. ASSUME NEW v \in placed
        PROVE  Rank(fixed, runs, v) =
                 <<Place(fixed, LowerOf(ids, onLis, v)), Place(runs[LowerOf(ids, onLis, v)].ids, v)>>
    <3>1. PICK l : l = LowerOf(ids, onLis, v)
      OBVIOUS
    <3>2. l \in DOMAIN runs /\ v \in Range(runs[l].ids)
      BY <1>3, <3>1
    <3> QED
      BY <2>1, <3>1, <3>2
  <2> QED
    BY <2>2, <2>3
<1>8. PICK n : n = Len(ids)
  OBVIOUS
<1>9. n \in Nat /\ \A v \in Range(ids) : Place(ids, v) \in 1 .. n /\ ids[Place(ids, v)] = v
  BY <1>8, ListingFacts
<1>10. PICK k : k = Len(fixed)
  OBVIOUS
<1>11. /\ k \in Nat /\ Place(fixed, Open) = 0
       /\ \A v \in onLis : Place(fixed, v) \in 1 .. k
  <2>1. Open \notin onLis
    BY <1>2, ListingFacts, VideoAssumption
  <2> QED
    BY <1>2, <1>10, <2>1, ListingFacts
<1>12. \A u, v \in onLis : Place(ids, u) < Place(ids, v) => Place(fixed, u) < Place(fixed, v)
  BY <1>2
<1>13. \A u, v \in onLis : Place(ids, u) <= Place(ids, v) => Place(fixed, u) <= Place(fixed, v)
  <2> TAKE u, v \in onLis
  <2> HAVE Place(ids, u) <= Place(ids, v)
  <2>1. CASE Place(ids, u) = Place(ids, v)
    <3>1. u = v
      BY <1>9, <2>1
    <3> QED
      BY <1>11, <3>1
  <2>2. CASE Place(ids, u) < Place(ids, v)
    BY <1>11, <1>12, <2>2
  <2> QED
    BY <1>9, <2>1, <2>2
<1>14. \A v \in placed : /\ LowerOf(ids, onLis, v) \in onLis \cup {Open}
                         /\ LowerOf(ids, onLis, v) = Open => \A u \in onLis : ~(Place(ids, u) < Place(ids, v))
                         /\ LowerOf(ids, onLis, v) # Open =>
                              /\ LowerOf(ids, onLis, v) \in onLis /\ Place(ids, LowerOf(ids, onLis, v)) < Place(ids, v)
                              /\ \A u \in onLis : Place(ids, u) < Place(ids, v) =>
                                   Place(ids, u) <= Place(ids, LowerOf(ids, onLis, v))
  <2>1. onLis \subseteq Range(ids)
    OBVIOUS
  <2> QED
    BY <2>1, LowerFacts
<1>15. \A l \in DOMAIN runs : \A v \in Range(runs[l].ids) : Place(runs[l].ids, v) \in Nat /\ Place(runs[l].ids, v) >= 1
  <2> TAKE l \in DOMAIN runs
  <2> TAKE v \in Range(runs[l].ids)
  <2>1. PICK f : f = runs[l].ids
    OBVIOUS
  <2>2. Listing(f, Videos)
    BY <1>3, <2>1 DEF RunsFit
  <2>3. Len(f) \in Nat /\ Place(f, v) \in 1 .. Len(f)
    BY <2>1, <2>2, ListingFacts
  <2>4. PICK i : i = Place(f, v)
    OBVIOUS
  <2>5. i \in Nat /\ i >= 1
    BY <2>3, <2>4
  <2> QED
    BY <2>1, <2>4, <2>5
<1>16. ASSUME NEW u \in Range(ids), NEW v \in Range(ids), Place(ids, u) < Place(ids, v)
       PROVE  RankLess(Rank(fixed, runs, u), Rank(fixed, runs, v))
  <2>1. CASE u \in onLis /\ v \in onLis
    <3>1. Place(fixed, u) < Place(fixed, v)
      BY <1>12, <1>16, <2>1
    <3>2. Rank(fixed, runs, u) = <<Place(fixed, u), 0>> /\ Rank(fixed, runs, v) = <<Place(fixed, v), 0>>
      BY <1>7, <2>1
    <3> QED
      BY <3>1, <3>2 DEF RankLess
  <2>2. CASE u \in onLis /\ v \in placed
    <3>1. PICK l : l = LowerOf(ids, onLis, v)
      OBVIOUS
    <3>2. l \in onLis /\ Place(ids, u) <= Place(ids, l)
      BY <1>14, <1>16, <2>2, <3>1
    <3>3. Place(fixed, u) <= Place(fixed, l)
      BY <1>13, <2>2, <3>2
    <3>4. Place(runs[l].ids, v) \in Nat /\ Place(runs[l].ids, v) >= 1
      BY <1>3, <1>15, <2>2, <3>1
    <3>5. Rank(fixed, runs, u) = <<Place(fixed, u), 0>> /\ Rank(fixed, runs, v) = <<Place(fixed, l), Place(runs[l].ids, v)>>
      BY <1>7, <2>2, <3>1
    <3>6. PICK a, b, c : a = Place(fixed, u) /\ b = Place(fixed, l) /\ c = Place(runs[l].ids, v)
      OBVIOUS
    <3>7. a \in Nat /\ b \in Nat /\ (a < b \/ (a = b /\ 0 < c))
      BY <1>11, <2>2, <3>2, <3>3, <3>4, <3>6
    <3> QED
      BY <3>5, <3>6, <3>7 DEF RankLess
  <2>3. CASE u \in placed /\ v \in onLis
    <3>1. PICK l : l = LowerOf(ids, onLis, u)
      OBVIOUS
    <3>2. Place(fixed, l) < Place(fixed, v)
      <4>1. CASE l = Open
        BY <1>11, <2>3, <4>1
      <4>2. CASE l # Open
        <5>1. l \in onLis /\ Place(ids, l) < Place(ids, u)
          BY <1>14, <2>3, <3>1, <4>2
        <5>2. Place(ids, l) < Place(ids, v)
          BY <1>9, <1>16, <5>1
        <5> QED
          BY <1>12, <2>3, <5>1, <5>2
      <4> QED
        BY <4>1, <4>2
    <3>3. Rank(fixed, runs, u) = <<Place(fixed, l), Place(runs[l].ids, u)>> /\ Rank(fixed, runs, v) = <<Place(fixed, v), 0>>
      BY <1>7, <2>3, <3>1
    <3> QED
      BY <3>2, <3>3 DEF RankLess
  <2>4. CASE u \in placed /\ v \in placed
    <3>1. PICK l, m : l = LowerOf(ids, onLis, u) /\ m = LowerOf(ids, onLis, v)
      OBVIOUS
    <3>2. Rank(fixed, runs, u) = <<Place(fixed, l), Place(runs[l].ids, u)>> /\ Rank(fixed, runs, v) = <<Place(fixed, m), Place(runs[m].ids, v)>>
      BY <1>7, <2>4, <3>1
    <3>3. /\ l \in DOMAIN runs /\ u \in Range(runs[l].ids) /\ m \in DOMAIN runs /\ v \in Range(runs[m].ids)
      BY <1>3, <2>4, <3>1
    <3>4. CASE l = m
      <4>1. Place(runs[l].ids, u) < Place(runs[l].ids, v)
        BY <1>3, <1>16, <3>3, <3>4
      <4> QED
        BY <3>2, <3>4, <4>1 DEF RankLess
    <3>5. CASE l # m
      <4>1. CASE l = Open
        <5>1. m \in onLis
          BY <1>14, <2>4, <3>1, <3>5, <4>1
        <5>2. Place(fixed, l) < Place(fixed, m)
          BY <1>11, <4>1, <5>1
        <5> QED
          BY <3>2, <5>2 DEF RankLess
      <4>2. CASE l # Open
        <5>1. l \in onLis /\ Place(ids, l) < Place(ids, u)
          BY <1>14, <2>4, <3>1, <4>2
        <5>2. Place(ids, l) < Place(ids, v)
          BY <1>9, <1>16, <5>1
        <5>3. m # Open
          BY <1>14, <2>4, <3>1, <5>1, <5>2
        <5>4. m \in onLis /\ Place(ids, l) <= Place(ids, m)
          BY <1>14, <2>4, <3>1, <5>1, <5>2, <5>3
        <5>5. Place(ids, l) # Place(ids, m)
          BY <1>9, <3>5, <5>1, <5>4
        <5>6. Place(ids, l) < Place(ids, m)
          BY <1>9, <5>1, <5>4, <5>5
        <5>7. Place(fixed, l) < Place(fixed, m)
          BY <1>12, <5>1, <5>4, <5>6
        <5> QED
          BY <3>2, <5>7 DEF RankLess
      <4> QED
        BY <4>1, <4>2
    <3> QED
      BY <3>4, <3>5
  <2> QED
    BY <2>1, <2>2, <2>3, <2>4
<1>17. \A u, v \in Range(ids) : Place(ids, u) < Place(ids, v) => Place(order, u) < Place(order, v)
  BY <1>6, <1>16
<1>18. ids = order
  BY <1>6, <1>17, SameListing
<1> QED
  BY <1>5, <1>18


\* The edits of a mirror make what they say, or nothing.
MirrorSteps(s, t, p, ids, list, onLis, removed, moved, added) ==
  LET moving == (Range(removed) \cup Range(moved)) \cup Range(added)
      runs == Placements(ids, list, onLis, Range(moved) \cup Range(added), moving)
  IN  /\ Steps(s, t) /\ t.target = s.target
      /\ \/ t.items = s.items /\ (t.status \in {"deferred", "superseded"} \/ moving = {})
         \/ \E plan : /\ Stays(list, plan, runs) = Among(list, Range(list) \ moving)
                      /\ Order(t.items[p]) = FinalOrder(list, plan, runs)

\* The edit of a mirror: what it removes, moves and adds of what wins.
LEMMA MirroredSteps ==
  ASSUME NEW s, Sound(s), NEW p \in Lists, s.lists[p].row, ~s.lists[p].deleted,
         NEW ids, Listing(ids, Videos), NEW w \in Writer, NEW list, list = Order(s.items[p]),
         NEW onLis, onLis \subseteq Range(ids) \cap Range(list),
         NEW removed, Listing(removed, Videos), Range(removed) \subseteq Range(list) \ Range(ids),
         NEW moved, Listing(moved, Videos), Range(moved) \subseteq (Range(list) \cap Range(ids)) \ onLis,
         NEW added, Listing(added, Videos), Range(added) \subseteq Range(ids) \ Range(list),
         NEW lost
  PROVE  MirrorSteps(s, Mirrored(s, p, ids, w, list, onLis, removed, moved, added, lost), p, ids, list, onLis,
                     removed, moved, added)
<1>1. PICK t, old : t = Mirrored(s, p, ids, w, list, onLis, removed, moved, added, lost) /\ old = s.items[p]
  OBVIOUS
<1>2. PICK R, M, A : R = Range(removed) /\ M = Range(moved) /\ A = Range(added)
  OBVIOUS
<1>3. PICK moving, placed : moving = (R \cup M) \cup A /\ placed = M \cup A
  OBVIOUS
<1>4. s \in Tx /\ old \in Rows
  BY <1>1, ListFacts DEF Sound
<1>5. Listing(list, Videos) /\ Range(list) = Present(old)
  BY <1>1, <1>4, OrderFacts
<1>6. R \subseteq Present(old) \ Range(ids) /\ M \subseteq (Present(old) \cap Range(ids)) \ onLis /\ A \subseteq Range(ids) \ Present(old)
  BY <1>2, <1>5
<1>7. PICK front, planned : front = removed \o moved /\ planned = front \o added
  OBVIOUS
<1>8. Listing(planned, Videos) /\ Range(planned) = moving
  <2>1. R \cap M = {} /\ (R \cup M) \cap A = {}
    BY <1>6
  <2>2. Listing(front, Videos) /\ Range(front) = R \cup M
    <3>1. Listing(removed, Videos) /\ Listing(moved, Videos) /\ Range(removed) \cap Range(moved) = {}
      BY <1>2, <2>1
    <3>2. Listing(removed \o moved, Videos)
      BY <3>1, JoinedListings
    <3>3. Range(removed \o moved) = Range(removed) \cup Range(moved)
      BY <3>1, <3>2, JoinedListings
    <3> QED
      BY <1>2, <1>7, <3>2, <3>3
  <2>3. Range(front) \cap Range(added) = {}
    BY <1>2, <2>1, <2>2
  <2>4. Listing(planned, Videos) /\ Range(planned) = Range(front) \cup Range(added)
    <3>1. PICK f : f = front
      OBVIOUS
    <3>2. Listing(f, Videos) /\ Range(f) \cap Range(added) = {} /\ planned = f \o added
      BY <1>7, <2>2, <2>3, <3>1
    <3>3. Listing(f \o added, Videos)
      BY <3>2, JoinedListings
    <3>4. Range(f \o added) = Range(f) \cup Range(added)
      BY <3>2, <3>3, JoinedListings
    <3> QED
      BY <3>1, <3>2, <3>3, <3>4
  <2> QED
    BY <1>2, <1>3, <2>2, <2>4
<1>9. PICK delta : delta = Len(added) - Len(removed)
  OBVIOUS
<1>10. PICK plan : plan = [v \in Range(planned) |-> IF v \in R THEN Removes(old[v], w.at)
                                                    ELSE IF v \in M THEN Moved(old[v], w.at) ELSE Joins(w.at)]
  OBVIOUS
<1>11. PICK runs : runs = Placements(ids, list, onLis, placed, moving)
  OBVIOUS
<1>12. "deferred" \in Statuses /\ "applied" \in Statuses /\ "superseded" \in Statuses
  BY DEF Statuses
<1>13. CASE planned = <<>>
  <2>1. PICK status : status = IF lost > 0 THEN "superseded" ELSE "applied"
    OBVIOUS
  <2>2. t = Result(s, status)
    BY <1>1, <1>7, <1>13, <2>1 DEF Mirrored
  <2>3. status \in Statuses
    BY <1>12, <2>1
  <2>4. Steps(s, t) /\ t.items = s.items /\ t.target = s.target
    BY <2>2, <2>3, AnswerSteps
  <2>5. moving = {}
    <3>1. Range(<<>>) = {}
      BY DEF Range
    <3> QED
      BY <1>8, <1>13, <3>1
  <2> QED
    BY <1>1, <1>2, <1>3, <2>4, <2>5 DEF MirrorSteps
<1>14. CASE planned # <<>> /\ ~ItemQuotaAllows(s, s.lists[p].count, delta, NewRows(old, added))
  <2>1. t = Result(s, "deferred")
    BY <1>1, <1>7, <1>9, <1>14 DEF Mirrored
  <2>2. Steps(s, t) /\ t.items = s.items /\ t.target = s.target /\ t.status = "deferred"
    BY <1>12, <2>1, AnswerSteps
  <2> QED
    BY <1>1, <2>2 DEF MirrorSteps
<1>15. CASE planned # <<>> /\ ItemQuotaAllows(s, s.lists[p].count, delta, NewRows(old, added))
  <2>1. t = Result(SetItemCount(CommitItems(s, p, w.dev, planned, plan, runs), p, delta), "applied")
    BY <1>1, <1>2, <1>3, <1>7, <1>8, <1>9, <1>10, <1>11, <1>15 DEF Mirrored
  <2>2. w.dev \in Devices /\ w.at \in Nat
    BY DEF Writer
  <2>3. DOMAIN plan = Range(planned)
    BY <1>10
  <2>4. \A v \in Present(old) : old[v].present = TRUE
    <3>1. \A v \in Present(old) : old[v].present /\ v \in Videos
      BY DEF Present
    <3> QED
      BY <1>4, <3>1, RowFacts
  <2>5. ASSUME NEW v \in Range(planned)
        PROVE  /\ plan[v] \in Planned /\ (plan[v].mem \/ plan[v].pos)
               /\ plan[v].present <=> v \in placed
               /\ ~plan[v].present => v \in Present(old)
    <3>1. PICK r : r = plan[v]
      OBVIOUS
    <3>2. v \in R \/ v \in M \/ v \in A
      BY <1>3, <1>8
    <3>3. CASE v \in R
      <4>1. r = [present |-> FALSE, mem |-> TRUE, pos |-> FALSE, at |-> w.at]
        BY <1>10, <3>1, <3>3 DEF Removes, Unchanged
      <4>2. r \in Planned /\ r.mem /\ ~r.present
        BY <2>2, <4>1 DEF Planned
      <4>3. v \notin placed /\ v \in Present(old)
        BY <1>3, <1>6, <3>3
      <4> QED
        BY <3>1, <4>2, <4>3
    <3>4. CASE v \in M
      <4>1. v \notin R /\ v \in Present(old)
        BY <1>6, <3>4
      <4>2. r = Moved(old[v], w.at)
        BY <1>10, <3>1, <3>4, <4>1
      <4>3. r = [present |-> TRUE, mem |-> FALSE, pos |-> TRUE, at |-> w.at]
        BY <2>4, <4>1, <4>2 DEF Moved, Unchanged
      <4>4. r \in Planned /\ r.pos /\ r.present
        BY <2>2, <4>3 DEF Planned
      <4> QED
        BY <1>3, <3>1, <3>4, <4>4
    <3>5. CASE v \in A
      <4>1. v \notin R /\ v \notin M
        BY <1>6, <3>5
      <4>2. r = [present |-> TRUE, mem |-> TRUE, pos |-> TRUE, at |-> w.at]
        BY <1>10, <3>1, <4>1 DEF Joins
      <4>3. r \in Planned /\ r.pos /\ r.present
        BY <2>2, <4>2 DEF Planned
      <4> QED
        BY <1>3, <3>1, <3>5, <4>3
    <3> QED
      BY <3>2, <3>3, <3>4, <3>5
  <2>6. PICK fixed : fixed = Among(list, Range(list) \ moving)
    OBVIOUS
  <2>7. RunsFit(fixed, runs) /\ Placed(runs) = placed
    <3>1. placed \subseteq Range(ids)
      BY <1>3, <1>6
    <3>3. onLis \subseteq Range(ids) /\ onLis \subseteq Present(old)
      BY <1>5
    <3>4. onLis \cap moving = {}
      BY <1>3, <1>6, <3>3
    <3>2. RunsMirror(ids, list, onLis, placed, moving, fixed, runs)
      BY <1>5, <1>11, <2>6, <3>1, <3>4, PlacementsFacts
    <3> QED
      BY <3>2 DEF RunsMirror
  <2>8. Placed(runs) \subseteq Range(planned)
    BY <1>3, <1>8, <2>7
  <2>9. PICK stays : stays = Stays(list, plan, runs)
    OBVIOUS
  <2>10. stays = fixed
    <3>1. \A v \in Range(planned) : plan[v].present <=> v \in Placed(runs)
      BY <2>5, <2>7
    <3>2. stays = Stays(Order(old), plan, runs)
      BY <1>1, <2>9
    <3>3. stays = Among(Order(old), Range(Order(old)) \ Range(planned))
      BY <1>4, <2>3, <2>8, <3>1, <3>2, StaysFacts
    <3> QED
      BY <1>1, <1>8, <2>6, <3>3
  <2>11. EditFits(s.items[p], planned, plan, runs)
    <3>1. RunsFit(Stays(Order(s.items[p]), plan, runs), runs)
      BY <2>7, <2>9, <2>10
    <3>2. \A v \in Range(planned) : /\ plan[v] \in Planned /\ (plan[v].mem \/ plan[v].pos)
                                    /\ plan[v].present <=> v \in Placed(runs)
                                    /\ ~plan[v].present => v \in Present(s.items[p])
      BY <1>1, <2>5, <2>7
    <3> QED
      BY <1>8, <2>3, <2>8, <3>1, <3>2 DEF EditFits
  <2>12. /\ delta \in Int
         /\ Cardinality((Present(s.items[p]) \ Range(planned)) \cup Placed(runs)) = Cardinality(Present(s.items[p])) + delta
    <3>1. PICK P, C : P = Present(s.items[p]) /\ C = (Present(s.items[p]) \ Range(planned)) \cup Placed(runs)
      OBVIOUS
    <3>2. IsFiniteSet(P) /\ Cardinality(P) \in Nat
      BY <1>1, <1>4, <3>1, RowFacts, FS_CardinalityType
    <3>3. /\ IsFiniteSet(R) /\ Cardinality(R) = Len(removed) /\ Len(removed) \in Nat
          /\ IsFiniteSet(A) /\ Cardinality(A) = Len(added) /\ Len(added) \in Nat
      BY <1>2, ListingFacts
    <3>4. C = (P \ R) \cup A /\ P \cap R = R /\ (P \ R) \cap A = {}
      BY <1>1, <1>3, <1>6, <1>8, <2>7, <3>1
    <3>5. IsFiniteSet(P \ R) /\ Cardinality(P \ R) = Cardinality(P) - Cardinality(R)
      BY <3>2, <3>4, FS_Difference
    <3>6. Cardinality((P \ R) \cup A) = Cardinality(P \ R) + Cardinality(A) - Cardinality((P \ R) \cap A)
      BY <3>3, <3>5, FS_Union
    <3>7. Cardinality((P \ R) \cap A) = 0
      BY <3>4, FS_EmptySet
    <3>8. Cardinality(C) = Cardinality(P) + delta /\ delta \in Int
      BY <1>9, <3>2, <3>3, <3>4, <3>5, <3>6, <3>7
    <3> QED
      BY <3>1, <3>8
  <2>13. Edited(s, t, p, planned, plan, runs)
    BY <2>1, <2>2, <2>11, <2>12, CountedEdit
  <2>14. Order(t.items[p]) = FinalOrder(list, plan, runs) /\ Steps(s, t) /\ t.target = s.target
    BY <2>13 DEF Edited
  <2>15. Stays(list, plan, runs) = Among(list, Range(list) \ moving)
    BY <2>6, <2>9, <2>10
  <2> QED
    BY <1>1, <1>2, <1>3, <1>11, <2>14, <2>15 DEF MirrorSteps
<1> QED
  BY <1>13, <1>14, <1>15

\* playlist.items.replace; when its author had seen every row, it leaves the list it names.
LEMMA ReplaceSteps ==
  ASSUME NEW s, Sound(s), NEW o, NEW p \in Lists, p = o.list, Listing(o.ids, Videos), NEW w \in Writer
  PROVE  LET t == Replace(s, o, w)
         IN  /\ Steps(s, t) /\ t.target = s.target
             /\ t.status \in {"applied", "redirected"} /\ (\A v \in Videos : s.items[p][v].row => RowSeq(s.items[p][v]) <= w.base) =>
                  Order(t.items[p]) = o.ids
<1>1. PICK t, old, list, ids, kept :
        /\ t = Replace(s, o, w) /\ old = s.items[p] /\ list = Order(s.items[p]) /\ ids = o.ids
        /\ kept = Among(ids, Present(old))
  OBVIOUS
<1>2. s \in Tx /\ old \in Rows
  BY <1>1, ListFacts DEF Sound
<1>3. "deferred" \in Statuses /\ "rejected" \in Statuses
  BY DEF Statuses
<1>4. CASE ~s.lists[p].row
  <2>1. t = Result(s, "deferred")
    BY <1>1, <1>4 DEF Replace
  <2>2. Steps(s, t) /\ t.target = s.target /\ t.status = "deferred"
    BY <1>3, <2>1, AnswerSteps
  <2> QED
    BY <1>1, <2>2
<1>5. CASE s.lists[p].row /\ s.lists[p].deleted
  <2>1. t = Result(s, "rejected")
    BY <1>1, <1>5 DEF Replace
  <2>2. Steps(s, t) /\ t.target = s.target /\ t.status = "rejected"
    BY <1>3, <2>1, AnswerSteps
  <2> QED
    BY <1>1, <2>2
<1>6. CASE s.lists[p].row /\ ~s.lists[p].deleted
  <2>1. PICK extra, onLis : extra = Among(list, Range(list) \ Range(ids)) /\ onLis = LongestIncreasing(list, kept)
    OBVIOUS
  <2>2. t = MirrorAll(s, p, ids, w, list, extra, kept, onLis)
    BY <1>1, <1>6, <2>1 DEF Replace, Mirror
  <2> DEFINE off == Among(kept, Range(kept) \ onLis)
             removed == Among(extra, {v \in Range(extra) : Wins(old[v].mem, w)})
             moved == Among(off, {v \in Range(off) : Wins(old[v].pos, w)})
             added == Winning(old, ids, w)
             lost == Len(extra) + Len(off) + Len(Absent(old, ids)) - Len(removed \o moved \o added)
  <2>3. t = Mirrored(s, p, ids, w, list, onLis, removed, moved, added, lost)
    BY <1>1, <2>2 DEF MirrorAll
  <2>4. Listing(list, Videos) /\ Range(list) = Present(old) /\ Listing(ids, Videos)
    BY <1>1, <1>2, OrderFacts
  <2>5. /\ Listing(kept, Videos) /\ Range(kept) = Range(ids) \cap Range(list)
        /\ \A u, v \in Range(kept) : Place(kept, u) < Place(kept, v) <=> Place(ids, u) < Place(ids, v)
    BY <1>1, <2>4, AmongFacts
  <2>6. onLis \subseteq Range(kept) /\ Rising(list, kept, onLis)
    BY <2>1, <2>5, LongestFacts
  <2>7. Listing(extra, Videos) /\ Range(extra) = Range(list) \ Range(ids)
    <3>1. PICK T : T = Range(list) \ Range(ids)
      OBVIOUS
    <3>2. Listing(extra, Videos) /\ Range(extra) = Range(list) \cap T
      BY <2>1, <2>4, <3>1, AmongFacts
    <3> QED
      BY <3>1, <3>2
  <2>8. Listing(off, Videos) /\ Range(off) = Range(kept) \ onLis
    <3>1. PICK T : T = Range(kept) \ onLis
      OBVIOUS
    <3>2. Listing(off, Videos) /\ Range(off) = Range(kept) \cap T
      BY <2>5, <3>1, AmongFacts
    <3> QED
      BY <3>1, <3>2
  <2> HIDE DEF off
  <2>9. PICK T, U : T = {v \in Range(extra) : Wins(old[v].mem, w)} /\ U = {v \in Range(off) : Wins(old[v].pos, w)}
    OBVIOUS
  <2>10. removed = Among(extra, T) /\ moved = Among(off, U)
    BY <2>9
  <2> HIDE DEF removed, moved, lost, added
  <2>11. Listing(removed, Videos) /\ Range(removed) = T
    <3>1. Listing(removed, Videos) /\ Range(removed) = Range(extra) \cap T
      BY <2>7, <2>10, AmongFacts
    <3> QED
      BY <2>9, <3>1
  <2>12. Listing(moved, Videos) /\ Range(moved) = U
    <3>1. Listing(moved, Videos) /\ Range(moved) = Range(off) \cap U
      BY <2>8, <2>10, AmongFacts
    <3> QED
      BY <2>9, <3>1
  <2>13. Listing(added, Videos) /\ Range(added) = Winners(old, ids, w)
    BY <2>4, WinningFacts DEF added
  <2>14. /\ T \subseteq Range(list) \ Range(ids)
         /\ U \subseteq (Range(list) \cap Range(ids)) \ onLis
         /\ Winners(old, ids, w) \subseteq Range(ids) \ Range(list)
    BY <2>4, <2>5, <2>7, <2>8, <2>9 DEF Winners
  <2>15. PICK moving, placed, runs :
           /\ moving = (Range(removed) \cup Range(moved)) \cup Range(added)
           /\ placed = Range(moved) \cup Range(added)
           /\ runs = Placements(ids, list, onLis, placed, moving)
    OBVIOUS
  <2>16. /\ Steps(s, t) /\ t.target = s.target
         /\ \/ t.items = s.items /\ (t.status \in {"deferred", "superseded"} \/ moving = {})
            \/ \E plan : /\ Stays(list, plan, runs) = Among(list, Range(list) \ moving)
                         /\ Order(t.items[p]) = FinalOrder(list, plan, runs)
    <3>1. /\ onLis \subseteq Range(ids) \cap Range(list)
          /\ Range(removed) \subseteq Range(list) \ Range(ids)
          /\ Range(moved) \subseteq (Range(list) \cap Range(ids)) \ onLis
          /\ Range(added) \subseteq Range(ids) \ Range(list)
      BY <2>5, <2>6, <2>11, <2>12, <2>13, <2>14
    <3>2. Listing(ids, Videos) /\ Listing(removed, Videos) /\ Listing(moved, Videos) /\ Listing(added, Videos)
      BY <2>4, <2>11, <2>12, <2>13
    <3>3. list = Order(s.items[p])
      BY <1>1
    <3>4. PICK rem, mov, add, los : rem = removed /\ mov = moved /\ add = added /\ los = lost
      OBVIOUS
    <3>5. /\ onLis \subseteq Range(ids) \cap Range(list)
      BY <3>1
    <3>6. Range(rem) \subseteq Range(list) \ Range(ids)
      BY <3>1, <3>4
    <3>7. Range(mov) \subseteq (Range(list) \cap Range(ids)) \ onLis
      BY <3>1, <3>4
    <3>8. Range(add) \subseteq Range(ids) \ Range(list)
      BY <3>1, <3>4
    <3>9. Listing(rem, Videos) /\ Listing(mov, Videos) /\ Listing(add, Videos)
      BY <3>2, <3>4
    <3>10. s.lists[p].row /\ ~s.lists[p].deleted
      BY <1>6
    <3>11. MirrorSteps(s, Mirrored(s, p, ids, w, list, onLis, rem, mov, add, los), p, ids, list, onLis, rem, mov, add)
      BY <3>2, <3>3, <3>5, <3>6, <3>7, <3>8, <3>9, <3>10, MirroredSteps
    <3>12. MirrorSteps(s, t, p, ids, list, onLis, rem, mov, add)
      BY <2>3, <3>4, <3>11
    <3> QED
      BY <2>15, <3>4, <3>12 DEF MirrorSteps
  <2>17. ASSUME t.status \in {"applied", "redirected"}, \A v \in Videos : old[v].row => RowSeq(old[v]) <= w.base
         PROVE  Order(t.items[p]) = ids
    <3>1. \A v \in Videos : old[v].row => Wins(old[v].mem, w) /\ Wins(old[v].pos, w)
      <4> TAKE v \in Videos
      <4> HAVE old[v].row
      <4>1. PICK row : row = old[v]
        OBVIOUS
      <4>2. row.mem.seq \in Nat /\ row.pos.seq \in Nat /\ w.base \in Nat
        BY <1>2, <4>1, RowFacts DEF Writer
      <4>3. RowSeq(row) <= w.base /\ row.row
        BY <2>17, <4>1
      <4>4. row.mem.seq <= w.base /\ row.pos.seq <= w.base
        BY <4>2, <4>3 DEF RowSeq
      <4> QED
        BY <4>1, <4>4 DEF Wins
    <3>2. \A v \in Range(list) : v \in Videos /\ old[v].row
      BY <1>2, <2>4, RowFacts
    <3>3. T = Range(list) \ Range(ids)
      BY <2>7, <2>9, <3>1, <3>2
    <3>4. U = (Range(list) \cap Range(ids)) \ onLis
      BY <2>5, <2>8, <2>9, <3>1, <3>2
    <3>5. Winners(old, ids, w) = Range(ids) \ Range(list)
      <4>1. Range(ids) \subseteq Videos
        BY <2>4, ListingFacts
      <4> QED
        BY <2>4, <3>1, <4>1 DEF Winners
    <3>6. moving = (Range(list) \cup Range(ids)) \ onLis /\ placed = Range(ids) \ onLis
      BY <2>5, <2>6, <2>11, <2>12, <2>13, <2>15, <3>3, <3>4, <3>5
    <3>7. \A u, v \in onLis : Place(ids, u) < Place(ids, v) => Place(list, u) < Place(list, v)
      <4> TAKE u, v \in onLis
      <4> HAVE Place(ids, u) < Place(ids, v)
      <4>1. u \in Range(kept) /\ v \in Range(kept)
        BY <2>6
      <4>2. Place(kept, u) < Place(kept, v)
        BY <2>5, <4>1
      <4> QED
        BY <2>6, <4>2 DEF Rising
    <3>8. onLis \subseteq Range(ids) \cap Range(list)
      BY <2>5, <2>6
    <3>9. CASE t.items = s.items /\ moving = {}
      <4>1. Range(ids) = onLis /\ Range(list) = onLis
        BY <3>6, <3>8, <3>9
      <4>2. ids = list
        BY <2>4, <3>7, <4>1, SameListing
      <4> QED
        BY <1>1, <3>9, <4>2
    <3>10. CASE \E plan : /\ Stays(list, plan, runs) = Among(list, Range(list) \ moving)
                          /\ Order(t.items[p]) = FinalOrder(list, plan, runs)
      <4>1. PICK plan : /\ Stays(list, plan, runs) = Among(list, Range(list) \ moving)
                        /\ Order(t.items[p]) = FinalOrder(list, plan, runs)
        BY <3>10
      <4>2. FinalOrder(list, plan, runs) = ids
        BY <2>4, <2>15, <3>6, <3>7, <3>8, <4>1, MirrorOrder
      <4> QED
        BY <4>1, <4>2
    <3> QED
      BY <2>16, <2>17, <3>9, <3>10
  <2> QED
    BY <1>1, <2>16, <2>17
<1> QED
  BY <1>4, <1>5, <1>6


\* playlist.update writes a header, the items stay.
LEMMA HeaderFacts ==
  ASSUME NEW s \in Tx, NEW p \in Lists, s.lists[p].row, NEW name \in Names, NEW w \in Writer
  PROVE  LET u == UpdateHeader(s, p, name, w)
         IN  /\ u \in Tx /\ u.seq = s.seq + 1 /\ u.items = s.items /\ u.status = s.status /\ u.target = s.target
             /\ \A q \in Lists : q # p => u.lists[q] = s.lists[q]
             /\ u.lists[p].row /\ u.lists[p].deleted = s.lists[p].deleted /\ u.lists[p].count = s.lists[p].count
<1>1. PICK k, header, n : k = s.lists[p] /\ n = s.seq + 1 /\ header = [seq |-> n, at |-> w.at, dev |-> w.dev]
  OBVIOUS
<1>2. k \in PlaylistRecord /\ n \in Nat
  BY <1>1, ListFacts, TxFacts
<1>3. header \in Register
  BY <1>1, <1>2 DEF Register, Writer
<1>4. k = [row |-> k.row, name |-> k.name, browse |-> k.browse, deleted |-> k.deleted, deletedSeq |-> k.deletedSeq,
           count |-> k.count, header |-> k.header]
  BY <1>2 DEF PlaylistRecord
<1>5. PICK r : r = [k EXCEPT !.name = name, !.header = header]
  OBVIOUS
<1>6. r = [row |-> k.row, name |-> name, browse |-> k.browse, deleted |-> k.deleted, deletedSeq |-> k.deletedSeq,
           count |-> k.count, header |-> header]
  BY <1>4, <1>5
<1>7. r \in PlaylistRecord /\ r.row /\ r.deleted = k.deleted /\ r.count = k.count
  BY <1>2, <1>3, <1>6 DEF PlaylistRecord
<1>8. PICK u, l : u = UpdateHeader(s, p, name, w) /\ l = [s.lists EXCEPT ![p] = r]
  OBVIOUS
<1>9. l \in [Lists -> PlaylistRecord \cup {NoList}] /\ l[p] = r /\ \A q \in Lists : q # p => l[q] = s.lists[q]
  BY <1>7, <1>8, TxFacts
<1>10. u = [seq |-> n, lists |-> l, items |-> s.items, status |-> s.status, target |-> s.target]
  <2>1. s = [seq |-> s.seq, lists |-> s.lists, items |-> s.items, status |-> s.status, target |-> s.target]
    BY TxFacts
  <2>2. PICK ln : ln = [s.lists EXCEPT ![p].name = name]
    OBVIOUS
  <2>3. ln[p] = [k EXCEPT !.name = name] /\ DOMAIN ln = Lists /\ \A q \in Lists : q # p => ln[q] = s.lists[q]
    BY <1>1, <2>2, TxFacts
  <2>4. PICK lh : lh = [ln EXCEPT ![p].header = header]
    OBVIOUS
  <2>5. lh = l
    <3>1. DOMAIN lh = Lists /\ lh = [q \in Lists |-> lh[q]] /\ \A q \in Lists : q # p => lh[q] = s.lists[q]
      BY <2>3, <2>4
    <3>2. lh[p] = [[k EXCEPT !.name = name] EXCEPT !.header = header]
      BY <2>3, <2>4
    <3>3. lh[p] = r
      BY <1>5, <3>2
    <3>4. l = [q \in Lists |-> l[q]]
      BY <1>9
    <3> QED
      BY <1>9, <3>1, <3>3, <3>4
  <2>6. u = [s EXCEPT !.seq = n, !.lists = lh]
    BY <1>1, <1>8, <2>2, <2>4 DEF UpdateHeader
  <2> QED
    BY <2>1, <2>5, <2>6
<1>11. u \in Tx
  BY <1>2, <1>9, <1>10, TxFacts DEF Tx
<1> QED
  BY <1>1, <1>7, <1>8, <1>9, <1>10, <1>11

\* playlist.update writes the header only.
LEMMA UpdateSteps ==
  ASSUME NEW s, Sound(s), NEW o \in Op, NEW w \in Writer
  PROVE  LET t == Update(s, o, w)
         IN Steps(s, t) /\ t.target = s.target /\ t.items = s.items
<1>1. PICK t, p, k : t = Update(s, o, w) /\ p = o.list /\ k = s.lists[p]
  OBVIOUS
<1>2. s \in Tx /\ p \in Lists /\ o.name \in Names
  BY <1>1 DEF Sound, Op
<1>3. \A status \in {"deferred", "rejected", "applied", "superseded"} :
         t = Result(s, status) => Steps(s, t) /\ t.target = s.target /\ t.items = s.items
  <2> TAKE status \in {"deferred", "rejected", "applied", "superseded"}
  <2>1. status \in Statuses
    BY DEF Statuses
  <2> QED
    BY <2>1, AnswerSteps
<1>4. CASE k.row /\ ~k.deleted /\ k.name # o.name /\ Wins(k.header, w)
  <2>1. PICK u : u = UpdateHeader(s, p, o.name, w)
    OBVIOUS
  <2>2. t = Result(u, "applied")
    BY <1>1, <1>4, <2>1 DEF Update
  <2>3. /\ u \in Tx /\ u.seq = s.seq + 1 /\ u.items = s.items /\ u.target = s.target
        /\ \A q \in Lists : q # p => u.lists[q] = s.lists[q]
        /\ u.lists[p].row /\ u.lists[p].deleted = k.deleted /\ u.lists[p].count = k.count
    BY <1>1, <1>2, <1>4, <2>1, HeaderFacts
  <2>4. s.seq \in Nat /\ u.seq \in Nat /\ u.seq >= s.seq
    BY <1>2, <2>3, TxFacts
  <2>5. \A q \in Lists : u.lists[q].row = s.lists[q].row /\ (s.lists[q].row => u.lists[q].deleted = s.lists[q].deleted /\ u.lists[q].count = s.lists[q].count)
    <3>1. u.lists[p].row = s.lists[p].row
      BY <1>1, <1>2, <1>4, <2>3, ListFacts
    <3> QED
      BY <1>1, <2>3, <3>1
  <2>6. \A q \in Lists : Dead(u.lists, q) <=> Dead(s.lists, q)
    <3> TAKE q \in Lists
    <3>1. (Dead(u.lists, q) <=> u.lists[q].row /\ u.lists[q].deleted) /\ (Dead(s.lists, q) <=> s.lists[q].row /\ s.lists[q].deleted)
      BY <1>2, <2>3, ListFacts
    <3> QED
      BY <2>5, <3>1
  <2>7. ASSUME NEW q \in Lists
        PROVE  /\ Written(u.items[q], u.seq) /\ Distinct(u.items[q])
               /\ CountRight(u.lists[q], u.items[q]) /\ NothingLeft(u.lists[q], u.items[q])
               /\ CopyOfDead(u, q)
    <3>1. /\ Written(s.items[q], s.seq) /\ Distinct(s.items[q]) /\ CopyOfDead(s, q)
          /\ CountRight(s.lists[q], s.items[q]) /\ NothingLeft(s.lists[q], s.items[q])
      BY DEF Sound
    <3>2. s.items[q] \in Rows
      BY <1>2, ListFacts
    <3>3. Written(s.items[q], u.seq)
      BY <2>4, <3>1, <3>2, WrittenLater
    <3>4. Range(Chain[q]) \subseteq Lists
      BY ChainFacts
    <3>5. CopyOfDead(u, q)
      BY <2>5, <2>6, <3>1, <3>4 DEF CopyOfDead
    <3>6. CountRight(u.lists[q], u.items[q])
      BY <2>3, <2>5, <3>1 DEF CountRight
    <3>7. NothingLeft(u.lists[q], u.items[q])
      BY <1>1, <1>4, <2>3, <2>5, <3>1 DEF NothingLeft
    <3> QED
      BY <2>3, <3>1, <3>3, <3>5, <3>6, <3>7
  <2>8. Sound(u)
    BY <2>3, <2>7 DEF Sound
  <2>9. Tells(s, u, p)
    BY <2>3 DEF Tells
  <2>10. Steps(s, u)
    BY <1>2, <2>4, <2>8, <2>9 DEF Steps
  <2>11. SameTx(u, t) /\ t.target = u.target
    <3>1. "applied" \in Statuses
      BY DEF Statuses
    <3> QED
      BY <2>2, <2>3, <3>1, ResultFacts
  <2>12. Steps(s, t)
    BY <2>10, <2>11, SameSteps
  <2> QED
    BY <1>1, <2>3, <2>11, <2>12 DEF SameTx
<1>5. CASE ~(k.row /\ ~k.deleted /\ k.name # o.name /\ Wins(k.header, w))
  <2>1. \E status \in {"deferred", "rejected", "applied", "superseded"} : t = Result(s, status)
    BY <1>1, <1>5 DEF Update
  <2> QED
    BY <1>1, <1>3, <2>1
<1> QED
  BY <1>4, <1>5

\* A playlist without rows.
LEMMA NoRowsFacts ==
  /\ NoRows \in Rows /\ Present(NoRows) = {} /\ Order(NoRows) = <<>>
  /\ Distinct(NoRows) /\ \A n \in Nat : Written(NoRows, n)
<1>1. \A v \in Videos : NoRows[v] = NoItem
  BY DEF NoRows
<1>2. ~NoItem.row /\ ~NoItem.present
  BY DEF NoItem
<1>3. Present(NoRows) = {}
  BY <1>1, <1>2 DEF Present
<1>4. NoRows \in Rows
  BY DEF NoRows, Rows
<1>5. Listing(Order(NoRows), Videos) /\ Range(Order(NoRows)) = {}
  BY <1>3, <1>4, OrderFacts
<1>6. Order(NoRows) = <<>>
  <2>1. PICK list : list = Order(NoRows)
    OBVIOUS
  <2>2. list \in Seq(Videos) /\ DOMAIN list = {}
    BY <1>5, <2>1 DEF Listing, Range
  <2>3. Len(list) \in Nat /\ DOMAIN list = 1 .. Len(list)
    BY <2>2, LenProperties
  <2>4. Len(list) = 0
    BY <2>2, <2>3
  <2> QED
    BY <2>1, <2>2, <2>4, EmptySeq
<1>7. Distinct(NoRows)
  BY <1>3 DEF Distinct
<1>8. \A n \in Nat : Written(NoRows, n)
  BY <1>1, <1>2 DEF Written
<1> QED
  BY <1>3, <1>4, <1>6, <1>7, <1>8

\* deletePlaylist marks the row, empties the playlist and takes one seq.
LEMMA DeleteFacts ==
  ASSUME NEW s \in Tx, NEW p \in Lists, s.lists[p].row
  PROVE  LET u == DeletePlaylist(s, p)
         IN  /\ u \in Tx /\ u.seq = s.seq + 1 /\ u.status = s.status /\ u.target = s.target
             /\ \A q \in Lists : q # p => u.lists[q] = s.lists[q] /\ u.items[q] = s.items[q]
             /\ u.lists[p].row /\ u.lists[p].deleted /\ u.lists[p].count = 0 /\ u.lists[p].header.seq = s.seq + 1
             /\ u.items[p] = NoRows
<1>1. PICK k, n : k = s.lists[p] /\ n = s.seq + 1
  OBVIOUS
<1>2. k \in PlaylistRecord /\ n \in Nat
  BY <1>1, ListFacts, TxFacts
<1>3. PICK z : z = 0
  OBVIOUS
<1>4. PICK header : header = [k.header EXCEPT !.seq = n]
  OBVIOUS
<1>5. header = [seq |-> n, at |-> k.header.at, dev |-> k.header.dev] /\ header \in Register /\ header.seq = n
  <2>1. k.header \in Register
    BY <1>2 DEF PlaylistRecord
  <2> QED
    BY <1>2, <1>4, <2>1 DEF Register
<1>6. k = [row |-> k.row, name |-> k.name, browse |-> k.browse, deleted |-> k.deleted, deletedSeq |-> k.deletedSeq,
           count |-> k.count, header |-> k.header]
  BY <1>2 DEF PlaylistRecord
<1>7. PICK r : r = [row |-> k.row, name |-> k.name, browse |-> k.browse, deleted |-> TRUE, deletedSeq |-> n,
                    count |-> z, header |-> header]
  OBVIOUS
<1>8. r \in PlaylistRecord /\ r.row /\ r.deleted /\ r.count = 0 /\ r.header.seq = n
  BY <1>2, <1>3, <1>5, <1>7 DEF PlaylistRecord
<1>9. PICK u, l, i : /\ u = DeletePlaylist(s, p) /\ l = [s.lists EXCEPT ![p] = r]
                     /\ i = [s.items EXCEPT ![p] = NoRows]
  OBVIOUS
<1>10. l \in [Lists -> PlaylistRecord \cup {NoList}] /\ l[p] = r /\ \A q \in Lists : q # p => l[q] = s.lists[q]
  BY <1>8, <1>9, TxFacts
<1>11. i \in [Lists -> Rows] /\ i[p] = NoRows /\ \A q \in Lists : q # p => i[q] = s.items[q]
  BY <1>9, TxFacts, NoRowsFacts
<1>12. u = [seq |-> n, lists |-> l, items |-> i, status |-> s.status, target |-> s.target]
  <2>1. s = [seq |-> s.seq, lists |-> s.lists, items |-> s.items, status |-> s.status, target |-> s.target]
    BY TxFacts
  <2>2. PICK a : a = [s.lists EXCEPT ![p].deleted = TRUE]
    OBVIOUS
  <2>3. a[p] = [k EXCEPT !.deleted = TRUE] /\ DOMAIN a = Lists /\ \A q \in Lists : q # p => a[q] = s.lists[q]
    BY <1>1, <2>2, TxFacts
  <2>4. PICK b : b = [a EXCEPT ![p].deletedSeq = n]
    OBVIOUS
  <2>5. b[p] = [a[p] EXCEPT !.deletedSeq = n] /\ DOMAIN b = Lists /\ \A q \in Lists : q # p => b[q] = s.lists[q]
    BY <2>3, <2>4
  <2>6. PICK c : c = [b EXCEPT ![p].count = z]
    OBVIOUS
  <2>7. c[p] = [b[p] EXCEPT !.count = z] /\ DOMAIN c = Lists /\ \A q \in Lists : q # p => c[q] = s.lists[q]
    BY <2>5, <2>6
  <2>8. PICK e : e = [c EXCEPT ![p].header.seq = n]
    OBVIOUS
  <2>9. e[p] = [c[p] EXCEPT !.header.seq = n] /\ DOMAIN e = Lists /\ e = [q \in Lists |-> e[q]]
        /\ \A q \in Lists : q # p => e[q] = s.lists[q]
    BY <2>7, <2>8
  <2>10. PICK kc : kc = c[p]
    OBVIOUS
  <2>11. e[p] = r
    <3>1. PICK ka, kb : ka = a[p] /\ kb = b[p]
      OBVIOUS
    <3>2. ka = [row |-> k.row, name |-> k.name, browse |-> k.browse, deleted |-> TRUE, deletedSeq |-> k.deletedSeq,
                count |-> k.count, header |-> k.header]
      <4>1. ka = [k EXCEPT !.deleted = TRUE]
        BY <2>3, <3>1
      <4> QED
        BY <1>6, <4>1
    <3>3. kb = [row |-> k.row, name |-> k.name, browse |-> k.browse, deleted |-> TRUE, deletedSeq |-> n,
                count |-> k.count, header |-> k.header]
      <4>1. kb = [ka EXCEPT !.deletedSeq = n]
        BY <2>5, <3>1
      <4> QED
        BY <3>2, <4>1
    <3>4. kc = [row |-> k.row, name |-> k.name, browse |-> k.browse, deleted |-> TRUE, deletedSeq |-> n,
                count |-> z, header |-> k.header]
      <4>1. kc = [kb EXCEPT !.count = z]
        BY <2>7, <2>10, <3>1
      <4> QED
        BY <3>3, <4>1
    <3>5. PICK ke : ke = e[p]
      OBVIOUS
    <3>6. ke = [kc EXCEPT !.header = [k.header EXCEPT !.seq = n]]
      <4>1. ke = [kc EXCEPT !.header.seq = n]
        BY <2>9, <2>10, <3>5
      <4>2. kc.header = k.header
        BY <3>4
      <4> QED
        BY <4>1, <4>2
    <3>7. ke = [kc EXCEPT !.header = header]
      BY <1>4, <3>6
    <3> QED
      BY <1>7, <3>4, <3>5, <3>7
  <2>12. e = l
    <3>1. l = [q \in Lists |-> l[q]]
      BY <1>10
    <3> QED
      BY <1>10, <2>9, <2>11, <3>1
  <2>13. u = [seq |-> n, lists |-> e, items |-> i, status |-> s.status, target |-> s.target]
    <3>1. PICK x : x = [v \in Videos |-> NoItem]
      OBVIOUS
    <3>2. x = NoRows
      BY <3>1 DEF NoRows
    <3>3. u = [s EXCEPT !.seq = n, !.lists[p].deleted = TRUE, !.lists[p].deletedSeq = n, !.lists[p].count = z,
                        !.lists[p].header.seq = n, !.items[p] = x]
      BY <1>1, <1>3, <1>9, <3>1 DEF DeletePlaylist
    <3>4. PICK s1 : s1 = [s EXCEPT !.seq = n]
      OBVIOUS
    <3>5. s1.lists = s.lists /\ s1.items = s.items /\ s1 = [seq |-> n, lists |-> s.lists, items |-> s.items, status |-> s.status, target |-> s.target]
      BY <2>1, <3>4
    <3>6. u = [s1 EXCEPT !.lists[p].deleted = TRUE, !.lists[p].deletedSeq = n, !.lists[p].count = z,
                         !.lists[p].header.seq = n, !.items[p] = x]
      BY <3>3, <3>4
    <3>7. PICK s2 : s2 = [s1 EXCEPT !.lists[p].deleted = TRUE]
      OBVIOUS
    <3>8. s2 = [seq |-> n, lists |-> a, items |-> s.items, status |-> s.status, target |-> s.target]
      BY <2>2, <3>5, <3>7
    <3>9. PICK s3 : s3 = [s2 EXCEPT !.lists[p].deletedSeq = n]
      OBVIOUS
    <3>10. s3 = [seq |-> n, lists |-> b, items |-> s.items, status |-> s.status, target |-> s.target]
      BY <2>4, <3>8, <3>9
    <3>11. PICK s4 : s4 = [s3 EXCEPT !.lists[p].count = z]
      OBVIOUS
    <3>12. s4 = [seq |-> n, lists |-> c, items |-> s.items, status |-> s.status, target |-> s.target]
      BY <2>6, <3>10, <3>11
    <3>13. PICK s5 : s5 = [s4 EXCEPT !.lists[p].header.seq = n]
      OBVIOUS
    <3>14. s5 = [seq |-> n, lists |-> e, items |-> s.items, status |-> s.status, target |-> s.target]
      BY <2>8, <3>12, <3>13
    <3>15. u = [s5 EXCEPT !.items[p] = x]
      BY <3>6, <3>7, <3>9, <3>11, <3>13
    <3>16. u = [seq |-> n, lists |-> e, items |-> i, status |-> s.status, target |-> s.target]
      BY <1>9, <3>2, <3>14, <3>15
    <3> QED
      BY <3>16
  <2> QED
    BY <2>1, <2>12, <2>13
<1>13. u \in Tx
  BY <1>2, <1>10, <1>11, <1>12, TxFacts DEF Tx
<1> QED
  BY <1>1, <1>8, <1>9, <1>10, <1>11, <1>12, <1>13

\* playlist.delete: the rows go, their playlist tells.
LEMMA DeleteSteps ==
  ASSUME NEW s, Sound(s), NEW o, NEW p \in Lists, p = o.list, NEW w
  PROVE  LET t == Delete(s, o, w)
         IN Steps(s, t) /\ t.target = s.target /\ Order(t.items[p]) = <<>>
<1>1. PICK t : t = Delete(s, o, w)
  OBVIOUS
<1>2. s \in Tx /\ s.items[p] \in Rows /\ NothingLeft(s.lists[p], s.items[p])
  BY ListFacts DEF Sound
<1>3. "applied" \in Statuses
  BY DEF Statuses
<1>4. CASE ~s.lists[p].row \/ s.lists[p].deleted
  <2>1. t = Result(s, "applied")
    BY <1>1, <1>4 DEF Delete
  <2>2. Steps(s, t) /\ t.items = s.items /\ t.target = s.target
    BY <1>3, <2>1, AnswerSteps
  <2>3. t.items[p] = NoRows
    BY <1>2, <1>4, <2>2 DEF NothingLeft
  <2> QED
    BY <1>1, <2>2, <2>3, NoRowsFacts
<1>5. CASE s.lists[p].row /\ ~s.lists[p].deleted
  <2>1. PICK u : u = DeletePlaylist(s, p)
    OBVIOUS
  <2>2. t = Result(u, "applied")
    BY <1>1, <1>5, <2>1 DEF Delete
  <2>3. /\ u \in Tx /\ u.seq = s.seq + 1 /\ u.target = s.target
        /\ \A q \in Lists : q # p => u.lists[q] = s.lists[q] /\ u.items[q] = s.items[q]
        /\ u.lists[p].row /\ u.lists[p].deleted /\ u.lists[p].count = 0 /\ u.lists[p].header.seq = s.seq + 1
        /\ u.items[p] = NoRows
    BY <1>2, <1>5, <2>1, DeleteFacts
  <2>4. s.seq \in Nat /\ u.seq \in Nat /\ u.seq >= s.seq /\ u.seq > s.seq
    BY <1>2, <2>3, TxFacts
  <2>5. \A q \in Lists : u.lists[q].row = s.lists[q].row
    <3>1. u.lists[p].row = s.lists[p].row
      BY <1>2, <1>5, <2>3, ListFacts
    <3> QED
      BY <2>3, <3>1
  <2>6. \A q \in Lists : Dead(s.lists, q) => Dead(u.lists, q)
    <3> TAKE q \in Lists
    <3>1. (Dead(u.lists, q) <=> u.lists[q].row /\ u.lists[q].deleted) /\ (Dead(s.lists, q) <=> s.lists[q].row /\ s.lists[q].deleted)
      BY <1>2, <2>3, ListFacts
    <3> QED
      BY <2>3, <3>1
  <2>7. ASSUME NEW q \in Lists
        PROVE  /\ Written(u.items[q], u.seq) /\ Distinct(u.items[q])
               /\ CountRight(u.lists[q], u.items[q]) /\ NothingLeft(u.lists[q], u.items[q])
               /\ CopyOfDead(u, q)
    <3>1. /\ Written(s.items[q], s.seq) /\ Distinct(s.items[q]) /\ CopyOfDead(s, q)
          /\ CountRight(s.lists[q], s.items[q]) /\ NothingLeft(s.lists[q], s.items[q])
      BY DEF Sound
    <3>2. CopyOfDead(u, q)
      <4>1. Range(Chain[q]) \subseteq Lists
        BY ChainFacts
      <4> QED
        BY <2>5, <2>6, <3>1, <4>1 DEF CopyOfDead
    <3>3. CASE q = p
      <4>1. CountRight(u.lists[p], u.items[p])
        <5>1. Cardinality(Present(NoRows)) = 0
          BY NoRowsFacts, FS_EmptySet
        <5> QED
          BY <2>3, <5>1 DEF CountRight
      <4>2. NothingLeft(u.lists[p], u.items[p])
        BY <2>3 DEF NothingLeft
      <4>3. Written(NoRows, u.seq) /\ Distinct(NoRows)
        BY <2>4, NoRowsFacts
      <4> QED
        BY <2>3, <3>2, <3>3, <4>1, <4>2, <4>3
    <3>4. CASE q # p
      <4>1. s.items[q] \in Rows
        BY <1>2, ListFacts
      <4>2. Written(s.items[q], u.seq)
        BY <2>4, <3>1, <4>1, WrittenLater
      <4> QED
        BY <2>3, <3>1, <3>2, <3>4, <4>2
    <3> QED
      BY <3>3, <3>4
  <2>8. Sound(u)
    BY <2>3, <2>7 DEF Sound
  <2>9. Tells(s, u, p)
    <3>1. \A v \in Videos : ~u.items[p][v].row
      <4>1. \A v \in Videos : NoRows[v] = NoItem
        BY DEF NoRows
      <4>2. ~NoItem.row
        BY DEF NoItem
      <4> QED
        BY <2>3, <4>1, <4>2
    <3>2. u.lists[p].header.seq > s.seq
      BY <2>3, <2>4
    <3> QED
      BY <2>3, <3>1, <3>2 DEF Tells
  <2>10. Steps(s, u)
    BY <2>4, <2>8, <2>9 DEF Steps
  <2>11. SameTx(u, t) /\ t.target = u.target
    BY <1>3, <2>2, <2>3, ResultFacts
  <2>12. Steps(s, t)
    BY <2>10, <2>11, SameSteps
  <2>13. t.items[p] = NoRows
    BY <2>3, <2>11 DEF SameTx
  <2> QED
    BY <1>1, <2>3, <2>11, <2>12, <2>13, NoRowsFacts
<1> QED
  BY <1>4, <1>5


-----------------------------------------------------------------------------
(* Adds, also those that are redirected to a recovery copy, creations and imports. *)

\* The recovery copy is the first of the chain that is not deleted; if it is new, all before it are.
LEMMA RecoveryFacts ==
  ASSUME NEW s, Sound(s), NEW p \in Lists, Dead(s.lists, p), \E q \in Range(Chain[p]) : ~Dead(s.lists, q)
  PROVE  LET r == FindRecoveryTarget(s, p)
         IN  /\ r \in Range(Chain[p]) /\ r \in Lists /\ r # p /\ ~Dead(s.lists, r)
             /\ ~s.lists[r].row => Free(s, r)
<1>1. PICK c : c = Chain[p]
  OBVIOUS
<1>2. /\ c \in Seq(Lists) /\ Range(c) \subseteq Lists /\ p \notin Range(c)
      /\ \A i, j \in DOMAIN c : c[i] = c[j] => i = j
      /\ \A i \in DOMAIN c : \A q \in Range(Chain[c[i]]) : \E j \in DOMAIN c : i < j /\ q = c[j]
  <2>1. Chain[p] \in Seq(Lists) /\ Range(Chain[p]) \subseteq Lists /\ p \notin Range(Chain[p])
    BY ChainFacts
  <2>2. \A i, j \in DOMAIN Chain[p] : Chain[p][i] = Chain[p][j] => i = j
    BY ChainFacts
  <2>3. \A i \in DOMAIN Chain[p] : \A q \in Range(Chain[Chain[p][i]]) : \E j \in DOMAIN Chain[p] : i < j /\ q = Chain[p][j]
    BY ChainFacts
  <2> QED
    BY <1>1, <2>1, <2>2, <2>3
<1>3. PICK S : S = {i \in DOMAIN c : ~Dead(s.lists, c[i])}
  OBVIOUS
<1>4. S \subseteq Nat /\ S # {}
  <2>1. DOMAIN c = 1 .. Len(c) /\ Len(c) \in Nat
    BY <1>2, LenProperties
  <2>2. \E i \in DOMAIN c : ~Dead(s.lists, c[i])
    BY <1>1 DEF Range
  <2> QED
    BY <1>3, <2>1, <2>2
<1>5. PICK n : n = Min(S)
  OBVIOUS
<1>6. n \in S /\ \A m \in S : n <= m
  <2>1. \E i \in S : \A m \in S : i <= m
    BY <1>4, LeastExists
  <2> QED
    BY <1>5, <2>1 DEF Min
<1>7. PICK r : r = c[n]
  OBVIOUS
<1>8. r = FindRecoveryTarget(s, p)
  BY <1>1, <1>3, <1>5, <1>7 DEF FindRecoveryTarget
<1>9. n \in DOMAIN c /\ n \in Nat /\ ~Dead(s.lists, r)
  BY <1>3, <1>4, <1>6, <1>7
<1>10. r \in Range(c)
  BY <1>7, <1>9 DEF Range
<1>11. ASSUME NEW q \in Lists, r \in Range(Chain[q])
       PROVE  Dead(s.lists, q)
  <2>1. Range(Chain[p]) \cap Range(Chain[q]) # {}
    BY <1>1, <1>10, <1>11
  <2>2. p = q \/ p \in Range(Chain[q]) \/ q \in Range(Chain[p])
    BY <2>1, ChainAssumption
  <2>3. CASE p \in Range(Chain[q])
    <3>1. CopyOfDead(s, q)
      BY DEF Sound
    <3>2. s.lists[p].row
      BY ListFacts DEF Sound
    <3> QED
      BY <2>3, <3>1, <3>2 DEF CopyOfDead
  <2>4. CASE q \in Range(c)
    <3>1. PICK j \in DOMAIN c : q = c[j]
      BY <2>4 DEF Range
    <3>2. PICK i \in DOMAIN c : j < i /\ r = c[i]
      BY <1>2, <1>11, <3>1
    <3>3. i = n
      BY <1>2, <1>7, <1>9, <3>2
    <3>4. j \in Nat
      <4>1. DOMAIN c = 1 .. Len(c) /\ Len(c) \in Nat
        BY <1>2, LenProperties
      <4> QED
        BY <4>1
    <3>5. j \notin S
      BY <1>6, <1>9, <3>2, <3>3, <3>4
    <3> QED
      BY <1>3, <3>1, <3>5
  <2> QED
    BY <1>1, <2>2, <2>3, <2>4
<1> QED
  BY <1>1, <1>2, <1>8, <1>9, <1>10, <1>11 DEF Free

\* What became of a list of ids: those that win are there as one block, or the list is a new one, or nothing came.
Added(s, t, p, ids, after, before, w) ==
  LET list == Order(s.items[p])
      joins == Winning(s.items[p], ids, w)
  IN  \/ t.items[p] = s.items[p] /\ joins = <<>>
      \/ /\ Present(t.items[p]) = Present(s.items[p]) \cup Range(joins)
         /\ Order(t.items[p]) = Block(list, joins, Place(list, AnchorSlot(list, after, before).lower))
      \/ ~s.lists[p].row /\ Order(t.items[p]) = ids

\* A step of a transaction that answers "applied" or "redirected" did so.
AddedSteps(s, t, ids, after, before, w) ==
  /\ Steps(s, t)
  /\ t.status \in {"applied", "redirected"} => t.target \in Lists /\ Added(s, t, t.target, ids, after, before, w)

\* Ids that join a live playlist come as one block at the slot of the anchors, those of them that win.
LEMMA JoinSteps ==
  ASSUME NEW s, Sound(s), s.target \in Lists, NEW p \in Lists, p = s.target, s.lists[p].row, ~s.lists[p].deleted,
         NEW o, Listing(o.ids, Videos), o.after \in Videos \cup {Open}, o.before \in Videos \cup {Open},
         NEW w \in Writer, NEW at \in Nat
  PROVE  AddedSteps(s, AddItems(s, p, o, w, at), o.ids, o.after, o.before, w)
<1>1. PICK t, joins, list : t = AddItems(s, p, o, w, at) /\ joins = Winning(s.items[p], o.ids, w) /\ list = Order(s.items[p])
  OBVIOUS
<1>2. /\ Steps(s, t) /\ t.target = s.target
      /\ \/ t.items = s.items /\ (t.status = "deferred" \/ (joins = <<>> /\ t.status \in {"applied", "superseded"}))
         \/ /\ t.status = "applied"
            /\ Present(t.items[p]) = Present(s.items[p]) \cup Range(joins)
            /\ Order(t.items[p]) = Block(list, joins, Place(list, AnchorSlot(list, o.after, o.before).lower))
  BY <1>1, AddItemsSteps
<1> QED
  BY <1>1, <1>2 DEF AddedSteps, Added

\* An op on a deleted playlist goes to the first id of the chain that is live or unused.
LEMMA RedirectSteps ==
  ASSUME NEW s, Sound(s), NEW o, NEW p \in Lists, p = o.list, Dead(s.lists, p),
         \E q \in Range(Chain[p]) : ~Dead(s.lists, q),
         Listing(o.ids, Videos), o.after \in Videos \cup {Open}, o.before \in Videos \cup {Open}, NEW w \in Writer
  PROVE  AddedSteps(s, Redirect(s, o, w), o.ids, o.after, o.before, w)
<1>1. PICK t, r : t = Redirect(s, o, w) /\ r = FindRecoveryTarget(s, p)
  OBVIOUS
<1>2. r \in Lists /\ ~Dead(s.lists, r) /\ (~s.lists[r].row => Free(s, r))
  BY <1>1, RecoveryFacts
<1>3. s \in Tx /\ w.at \in Nat /\ w.dev \in Devices
  BY DEF Sound, Writer
<1>4. "redirected" \in Statuses
  BY DEF Statuses
<1>5. CASE s.lists[r].row
  <2>1. ~s.lists[r].deleted
    BY <1>2, <1>3, <1>5, ListFacts
  <2>2. PICK u, joins, list, at :
          /\ u = AddItems(s, r, o, w, at) /\ joins = Winning(s.items[r], o.ids, w) /\ list = Order(s.items[r]) /\ at = w.at
    OBVIOUS
  <2>3. /\ Steps(s, u) /\ u.target = s.target
        /\ \/ u.items = s.items /\ (u.status = "deferred" \/ (joins = <<>> /\ u.status \in {"applied", "superseded"}))
           \/ /\ u.status = "applied"
              /\ Present(u.items[r]) = Present(s.items[r]) \cup Range(joins)
              /\ Order(u.items[r]) = Block(list, joins, Place(list, AnchorSlot(list, o.after, o.before).lower))
    <3>1. r \in Lists /\ s.lists[r].row /\ ~s.lists[r].deleted /\ at \in Nat
      BY <1>2, <1>3, <1>5, <2>1, <2>2
    <3>2. Listing(o.ids, Videos) /\ o.after \in Videos \cup {Open} /\ o.before \in Videos \cup {Open}
      OBVIOUS
    <3> QED
      BY <2>2, <3>1, <3>2, AddItemsSteps
  <2>4. t = Redirected(u, r)
    BY <1>1, <1>5, <2>2 DEF Redirect
  <2>5. CASE u.status = "applied"
    <3>1. t = [u EXCEPT !.status = "redirected", !.target = r]
      BY <2>4, <2>5 DEF Redirected
    <3>2. u \in Tx
      BY <2>3 DEF Steps, Sound
    <3>3. t = [seq |-> u.seq, lists |-> u.lists, items |-> u.items, status |-> "redirected", target |-> r]
      <4>1. u = [seq |-> u.seq, lists |-> u.lists, items |-> u.items, status |-> u.status, target |-> u.target]
        BY <3>2, TxFacts
      <4>2. PICK status : status = "redirected"
        OBVIOUS
      <4>3. t = [u EXCEPT !.status = status, !.target = r]
        BY <3>1, <4>2
      <4>4. t = [seq |-> u.seq, lists |-> u.lists, items |-> u.items, status |-> status, target |-> r]
        BY <4>1, <4>3
      <4> QED
        BY <4>2, <4>4
    <3>4. t \in Tx
      BY <1>2, <1>4, <3>2, <3>3, TxFacts DEF Tx
    <3>5. SameTx(u, t)
      BY <3>2, <3>3, <3>4 DEF SameTx
    <3>6. Steps(s, t)
      BY <2>3, <3>5, SameSteps
    <3>7. t.target = r /\ t.items = u.items
      BY <3>3
    <3>8. Added(s, t, r, o.ids, o.after, o.before, w)
      BY <2>2, <2>3, <2>5, <3>7 DEF Added
    <3> QED
      BY <1>1, <1>2, <3>6, <3>7, <3>8 DEF AddedSteps
  <2>6. CASE u.status # "applied"
    <3>1. t = u
      BY <2>4, <2>6 DEF Redirected
    <3>2. t.status \in {"deferred", "superseded"}
      BY <2>3, <2>6, <3>1
    <3> QED
      BY <1>1, <2>3, <3>1, <3>2 DEF AddedSteps
  <2> QED
    BY <2>5, <2>6
<1>6. CASE ~s.lists[r].row
  <2>1. PICK name, at : name = RecoveryName[s.lists[p].name] /\ at = w.at
    OBVIOUS
  <2>2. name \in Names
    <3>1. s.lists[p] \in PlaylistRecord
      BY <1>3, ListFacts
    <3>2. s.lists[p].name \in Names
      BY <3>1 DEF PlaylistRecord
    <3> QED
      BY <2>1, <3>2, NameAssumption
  <2>3. t = CreatePlaylistWithItems(s, r, w.dev, name, Open, o.ids, at, "redirected")
    BY <1>1, <1>6, <2>1 DEF Redirect
  <2>4. PICK dev, open : dev = w.dev /\ open = Open
    OBVIOUS
  <2>5. dev \in Devices /\ open \in Browses \cup {Open} /\ at \in Nat
    BY <1>3, <2>1, <2>4
  <2>6. PICK ids : ids = o.ids
    OBVIOUS
  <2>7. Listing(ids, Videos)
    BY <2>6
  <2>8. Free(s, r)
    BY <1>2, <1>6
  <2>9. t = CreatePlaylistWithItems(s, r, dev, name, open, ids, at, "redirected")
    BY <2>3, <2>4, <2>6
  <2>10. /\ Steps(s, t)
         /\ \/ t.status = "deferred" /\ t.items = s.items /\ t.target = s.target
            \/ t.status = "redirected" /\ t.target = r /\ Order(t.items[r]) = ids
    BY <1>2, <1>4, <1>6, <2>2, <2>5, <2>7, <2>8, <2>9, CreateSteps
  <2> QED
    BY <1>1, <1>2, <1>6, <2>6, <2>10 DEF AddedSteps, Added
<1> QED
  BY <1>5, <1>6

\* An op that Sent lets in: its playlist is nobody's copy if it is to be created, and its chain is not used up.
Fits(s, o) ==
  /\ o.kind \in {"create", "import"} /\ ~s.lists[o.list].row => Free(s, o.list)
  /\ Dead(s.lists, o.list) => \E q \in Range(Chain[o.list]) : ~Dead(s.lists, q)

\* What the type of an op says.
LEMMA OpFacts ==
  ASSUME NEW o \in Ops
  PROVE  /\ o \in Op /\ o.kind \in Kinds /\ o.list \in Lists /\ o.name \in Names /\ o.browse \in Browses \cup {Open}
         /\ Listing(o.ids, Videos) /\ o.after \in Videos \cup {Open} /\ o.before \in Videos \cup {Open}
         /\ o.kind \in {"remove", "move"} => o.ids[1] \in Videos
<1>1. /\ o \in Op /\ IsInjective(o.ids) /\ (o.kind \in {"remove", "move"} => Len(o.ids) = 1)
  BY OpsAssumption
<1>2. /\ o.kind \in Kinds /\ o.list \in Lists /\ o.name \in Names /\ o.browse \in Browses \cup {Open}
      /\ o.ids \in Seq(Videos) /\ o.after \in Videos \cup {Open} /\ o.before \in Videos \cup {Open}
  BY <1>1 DEF Op
<1>3. Listing(o.ids, Videos)
  BY <1>1, <1>2 DEF Listing, IsInjective
<1>4. o.kind \in {"remove", "move"} => o.ids[1] \in Videos
  <2> HAVE o.kind \in {"remove", "move"}
  <2>1. Len(o.ids) = 1
    BY <1>1
  <2>2. 1 \in DOMAIN o.ids
    BY <1>2, <2>1, LenProperties
  <2> QED
    BY <1>2, <2>2, ElementOfSeq
<1> QED
  BY <1>1, <1>2, <1>3, <1>4

\* playlist.items.add, into the playlist or its recovery copy.
LEMMA AddSteps ==
  ASSUME NEW s, Sound(s), NEW o \in Ops, s.target = o.list, Fits(s, o), NEW w \in Writer
  PROVE  AddedSteps(s, Add(s, o, w), o.ids, o.after, o.before, w)
<1>1. PICK t, p, k, at : t = Add(s, o, w) /\ p = o.list /\ k = s.lists[p] /\ at = w.at
  OBVIOUS
<1>2. s \in Tx /\ p \in Lists /\ at \in Nat
  BY <1>1, OpFacts DEF Sound, Writer
<1>3. \A status \in {"deferred", "rejected"} :
         t = Result(s, status) => AddedSteps(s, t, o.ids, o.after, o.before, w)
  <2> TAKE status \in {"deferred", "rejected"}
  <2> HAVE t = Result(s, status)
  <2>1. status \in Statuses
    BY DEF Statuses
  <2>2. Steps(s, t) /\ t.status = status
    BY <2>1, AnswerSteps
  <2> QED
    BY <2>2 DEF AddedSteps
<1>4. CASE ~k.row
  BY <1>1, <1>3, <1>4 DEF Add
<1>5. CASE k.row /\ ~k.deleted
  <2>1. t = AddItems(s, p, o, w, at)
    BY <1>1, <1>5 DEF Add
  <2>2. AddedSteps(s, AddItems(s, p, o, w, at), o.ids, o.after, o.before, w)
    BY <1>1, <1>2, <1>5, OpFacts, JoinSteps
  <2> QED
    BY <1>1, <2>1, <2>2
<1>6. CASE k.row /\ k.deleted /\ w.base >= k.deletedSeq
  BY <1>1, <1>3, <1>6 DEF Add
<1>7. CASE k.row /\ k.deleted /\ ~(w.base >= k.deletedSeq)
  <2>1. t = Redirect(s, o, w)
    BY <1>1, <1>7 DEF Add
  <2>2. Dead(s.lists, p)
    BY <1>1, <1>2, <1>7, ListFacts
  <2>3. \E q \in Range(Chain[p]) : ~Dead(s.lists, q)
    BY <1>1, <2>2 DEF Fits
  <2>4. Listing(o.ids, Videos) /\ o.after \in Videos \cup {Open} /\ o.before \in Videos \cup {Open}
    BY OpFacts
  <2> QED
    BY <1>1, <1>2, <2>1, <2>2, <2>3, <2>4, RedirectSteps
<1> QED
  BY <1>1, <1>4, <1>5, <1>6, <1>7

\* A playlist that its op creates is what the op names.
LEMMA NewSteps ==
  ASSUME NEW s, Sound(s), NEW o \in Ops, ~s.lists[o.list].row, Free(s, o.list), NEW w \in Writer
  PROVE  LET t == CreatePlaylistWithItems(s, o.list, w.dev, o.name, o.browse, o.ids, w.at, "applied")
         IN  /\ Steps(s, t)
             /\ \/ t.status = "deferred" /\ t.items = s.items /\ t.target = s.target
                \/ t.status = "applied" /\ t.target = o.list /\ Order(t.items[o.list]) = o.ids
<1>1. PICK p, dev, name, browse, ids, at :
        p = o.list /\ dev = w.dev /\ name = o.name /\ browse = o.browse /\ ids = o.ids /\ at = w.at
  OBVIOUS
<1>2. p \in Lists /\ name \in Names /\ browse \in Browses \cup {Open} /\ Listing(ids, Videos)
  BY <1>1, OpFacts
<1>3. dev \in Devices /\ at \in Nat
  BY <1>1 DEF Writer
<1>4. ~s.lists[p].row /\ Free(s, p)
  BY <1>1
<1>5. "applied" \in Statuses
  BY DEF Statuses
<1>6. PICK t : t = CreatePlaylistWithItems(s, p, dev, name, browse, ids, at, "applied")
  OBVIOUS
<1>7. /\ Steps(s, t)
      /\ \/ t.status = "deferred" /\ t.items = s.items /\ t.target = s.target
         \/ t.status = "applied" /\ t.target = p /\ Order(t.items[p]) = ids
  BY <1>2, <1>3, <1>4, <1>5, <1>6, CreateSteps
<1> QED
  BY <1>1, <1>6, <1>7

\* playlist.import, which creates the playlist, appends to it or to its recovery copy.
LEMMA ImportSteps ==
  ASSUME NEW s, Sound(s), NEW o \in Ops, s.target = o.list, o.kind = "import", Fits(s, o), NEW w \in Writer
  PROVE  \E x \in Writer : AddedSteps(s, Import(s, o, w), o.ids, Open, Open, x)
<1>1. PICK t, p, k, y : t = Import(s, o, w) /\ p = o.list /\ k = s.lists[p] /\ y = [w EXCEPT !.at = 0]
  OBVIOUS
<1>2. s \in Tx /\ p \in Lists /\ o \in Op /\ Listing(o.ids, Videos)
  BY <1>1, OpFacts DEF Sound
<1>3. y \in Writer
  BY <1>1 DEF Writer
<1>4. PICK e : e = [o EXCEPT !.after = Open, !.before = Open]
  OBVIOUS
<1>5. e.list = o.list /\ e.ids = o.ids /\ e.after = Open /\ e.before = Open
  BY <1>2, <1>4 DEF Op
<1>6. e.after \in Videos \cup {Open} /\ e.before \in Videos \cup {Open} /\ Listing(e.ids, Videos) /\ p = e.list
  BY <1>1, <1>2, <1>5
<1>7. CASE ~k.row
  <2>1. t = CreatePlaylistWithItems(s, o.list, w.dev, o.name, o.browse, o.ids, w.at, "applied")
    BY <1>1, <1>7 DEF Import
  <2>2. Free(s, o.list) /\ ~s.lists[o.list].row
    BY <1>1, <1>7 DEF Fits
  <2>3. /\ Steps(s, t)
        /\ \/ t.status = "deferred" /\ t.items = s.items /\ t.target = s.target
           \/ t.status = "applied" /\ t.target = o.list /\ Order(t.items[o.list]) = o.ids
    BY <2>1, <2>2, NewSteps
  <2>4. AddedSteps(s, t, o.ids, Open, Open, y)
    BY <1>1, <1>2, <2>2, <2>3 DEF AddedSteps, Added
  <2> QED
    BY <1>1, <1>3, <2>4
<1>8. CASE k.row /\ k.deleted
  <2>1. t = Redirect(s, e, w)
    BY <1>1, <1>4, <1>8 DEF Import
  <2>2. Dead(s.lists, p)
    BY <1>1, <1>2, <1>8, ListFacts
  <2>3. \E q \in Range(Chain[p]) : ~Dead(s.lists, q)
    BY <1>1, <2>2 DEF Fits
  <2>4. AddedSteps(s, Redirect(s, e, w), e.ids, e.after, e.before, w)
    BY <1>2, <1>6, <2>2, <2>3, RedirectSteps
  <2> QED
    BY <1>1, <1>5, <2>1, <2>4
<1>9. CASE k.row /\ ~k.deleted
  <2>1. PICK z : z = 0
    OBVIOUS
  <2>2. t = AddItems(s, p, e, y, z)
    <3>1. t = AppendMissing(s, p, o, y, 0)
      BY <1>1, <1>9 DEF Import
    <3> QED
      BY <1>4, <2>1, <3>1 DEF AppendMissing
  <2>3. z \in Nat
    BY <2>1
  <2>4. AddedSteps(s, AddItems(s, p, e, y, z), e.ids, e.after, e.before, y)
    BY <1>1, <1>2, <1>3, <1>6, <1>9, <2>3, JoinSteps
  <2> QED
    BY <1>1, <1>3, <1>5, <2>2, <2>4
<1> QED
  BY <1>7, <1>8, <1>9


-----------------------------------------------------------------------------
(* Every op, and the invariant. *)

\* Every op keeps everything and tells what it changed.
LEMMA ApplySteps ==
  ASSUME NEW s, Sound(s), NEW o \in Ops, s.target = o.list, Fits(s, o), NEW w \in Writer
  PROVE  Steps(s, Apply(s, o, w))
<1>1. PICK p : p = o.list
  OBVIOUS
<1>2. p \in Lists /\ o \in Op /\ o.kind \in Kinds /\ Listing(o.ids, Videos)
  BY <1>1, OpFacts
<1>3. o.after \in Videos \cup {Open} /\ o.before \in Videos \cup {Open}
  BY OpFacts
<1>4. CASE o.kind = "create"
  <2>1. Apply(s, o, w) = Create(s, o, w)
    BY <1>4 DEF Apply
  <2>2. CASE s.lists[p].row
    <3>1. PICK status : status = IF s.lists[p].deleted THEN "rejected" ELSE "applied"
      OBVIOUS
    <3>2. status \in Statuses
      BY <3>1 DEF Statuses
    <3>3. Create(s, o, w) = Result(s, status)
      BY <1>1, <2>2, <3>1 DEF Create
    <3> QED
      BY <2>1, <3>2, <3>3, AnswerSteps
  <2>3. CASE ~s.lists[p].row
    <3>1. Free(s, o.list) /\ ~s.lists[o.list].row
      BY <1>1, <1>4, <2>3 DEF Fits
    <3>2. Create(s, o, w) = CreatePlaylistWithItems(s, o.list, w.dev, o.name, o.browse, o.ids, w.at, "applied")
      BY <3>1 DEF Create
    <3> QED
      BY <2>1, <3>1, <3>2, NewSteps
  <2> QED
    BY <2>2, <2>3
<1>5. CASE o.kind = "update"
  <2>1. Apply(s, o, w) = Update(s, o, w)
    BY <1>5 DEF Apply
  <2> QED
    BY <1>2, <2>1, UpdateSteps
<1>6. CASE o.kind = "delete"
  <2>1. Apply(s, o, w) = Delete(s, o, w)
    BY <1>6 DEF Apply
  <2> QED
    BY <1>1, <1>2, <2>1, DeleteSteps
<1>7. CASE o.kind = "add"
  <2>1. Apply(s, o, w) = Add(s, o, w)
    BY <1>7 DEF Apply
  <2> QED
    BY <2>1, AddSteps DEF AddedSteps
<1>8. CASE o.kind = "remove"
  <2>1. Apply(s, o, w) = RemoveItem(s, o, w)
    BY <1>8 DEF Apply
  <2>2. PICK v : v = o.ids[1]
    OBVIOUS
  <2>3. v \in Videos
    BY <1>8, <2>2, OpFacts
  <2> QED
    BY <1>1, <1>2, <2>1, <2>2, <2>3, RemoveSteps
<1>9. CASE o.kind = "move"
  <2>1. Apply(s, o, w) = Move(s, o, w)
    BY <1>9 DEF Apply
  <2>2. PICK v : v = o.ids[1]
    OBVIOUS
  <2>3. v \in Videos
    BY <1>9, <2>2, OpFacts
  <2> QED
    BY <1>1, <1>2, <1>3, <2>1, <2>2, <2>3, MoveSteps
<1>10. CASE o.kind = "replace"
  <2>1. Apply(s, o, w) = Replace(s, o, w)
    BY <1>10 DEF Apply
  <2> QED
    BY <1>1, <1>2, <2>1, ReplaceSteps
<1>11. CASE o.kind = "import"
  <2>1. Apply(s, o, w) = Import(s, o, w)
    BY <1>11 DEF Apply
  <2> QED
    BY <1>11, <2>1, ImportSteps DEF AddedSteps
<1> QED
  BY <1>2, <1>4, <1>5, <1>6, <1>7, <1>8, <1>9, <1>10, <1>11 DEF Kinds

\* What a transaction begins with.
Opening(p) == [seq |-> seq, lists |-> lists, items |-> items, status |-> "none", target |-> p]

\* Every playlist is sound, as the transaction of an op on it finds it.
IInv == TypeOK /\ \A p \in Lists : Sound(Opening(p))

\* The transaction of an op begins with what is stored.
LEMMA OpeningFacts ==
  ASSUME TypeOK, NEW p \in Lists
  PROVE  /\ Opening(p) \in Tx
         /\ Opening(p).seq = seq /\ Opening(p).lists = lists /\ Opening(p).items = items /\ Opening(p).target = p
<1>1. "none" \in Statuses
  BY DEF Statuses
<1>2. seq \in Nat /\ lists \in [Lists -> PlaylistRecord \cup {NoList}] /\ items \in [Lists -> Rows]
  BY DEF TypeOK, Rows
<1>3. PICK status : status = "none"
  OBVIOUS
<1>4. PICK s : s = [seq |-> seq, lists |-> lists, items |-> items, status |-> status, target |-> p]
  OBVIOUS
<1>5. s \in Tx
  BY <1>1, <1>2, <1>3, <1>4 DEF Tx
<1>6. s.seq = seq /\ s.lists = lists /\ s.items = items /\ s.target = p
  BY <1>4
<1>7. Opening(p) = s
  BY <1>3, <1>4 DEF Opening
<1> QED
  BY <1>5, <1>6, <1>7

\* An op of a device is one step from what its playlist is.
LEMMA OutcomeSteps ==
  ASSUME IInv, NEW d \in Devices, NEW o \in Ops, Sent(o), NEW at \in Times
  PROVE  /\ Sound(Opening(o.list)) /\ Fits(Opening(o.list), o) /\ o.list \in Lists
         /\ [base |-> known[d], at |-> at, dev |-> d] \in Writer
         /\ Outcome(d, o, at) = Apply(Opening(o.list), o, [base |-> known[d], at |-> at, dev |-> d])
         /\ Steps(Opening(o.list), Outcome(d, o, at))
<1>1. PICK p, s, w : p = o.list /\ s = Opening(o.list) /\ w = [base |-> known[d], at |-> at, dev |-> d]
  OBVIOUS
<1>2. p \in Lists
  BY <1>1, OpFacts
<1>3. Sound(s) /\ s.lists = lists /\ s.target = o.list
  BY <1>1, <1>2, OpeningFacts DEF IInv
<1>4. w \in Writer
  <2>1. known[d] \in 0 .. seq /\ seq \in Nat
    BY DEF IInv, TypeOK
  <2>2. known[d] \in Nat /\ at \in Nat
    BY <2>1, DeviceAssumption
  <2> QED
    BY <1>1, <2>2 DEF Writer
<1>5. Fits(s, o)
  <2>1. o.kind \in {"create", "import"} /\ ~s.lists[p].row => Free(s, p)
    <3> HAVE o.kind \in {"create", "import"} /\ ~s.lists[p].row
    <3>1. \A q \in Lists : p \notin Range(Chain[q])
      BY <1>1, <1>3 DEF Sent
    <3> QED
      BY <3>1 DEF Free
  <2>2. Dead(s.lists, p) => \E q \in Range(Chain[p]) : ~Dead(s.lists, q)
    BY <1>1, <1>3 DEF Sent
  <2> QED
    BY <1>1, <2>1, <2>2 DEF Fits
<1>6. Outcome(d, o, at) = Apply(s, o, w)
  BY <1>1 DEF Outcome, Opening
<1>7. Steps(s, Apply(s, o, w))
  BY <1>3, <1>4, <1>5, ApplySteps
<1> QED
  BY <1>1, <1>2, <1>3, <1>4, <1>5, <1>6, <1>7

\* There is nothing at the beginning.
LEMMA InitSound == Init => IInv
<1> SUFFICES ASSUME Init PROVE IInv
  OBVIOUS
<1>1. \A p \in Lists : lists[p] = NoList /\ items[p] = NoRows
  BY DEF Init, NoRows
<1>2. NoRows \in Rows /\ Present(NoRows) = {} /\ Distinct(NoRows) /\ Written(NoRows, 0)
  BY NoRowsFacts
<1>3. TypeOK
  <2>1. items \in [Lists -> Rows]
    BY <1>2 DEF Init, NoRows
  <2>2. lists \in [Lists -> PlaylistRecord \cup {NoList}]
    BY DEF Init
  <2>3. seq \in Nat /\ known \in [Devices -> 0 .. seq]
    BY DEF Init
  <2> QED
    BY <2>1, <2>2, <2>3 DEF TypeOK, Rows
<1>4. ~NoList.row
  BY DEF NoList
<1>5. ASSUME NEW p \in Lists PROVE Sound(Opening(p))
  <2>1. PICK s : s = Opening(p)
    OBVIOUS
  <2>2. s \in Tx /\ s.lists = lists /\ s.items = items /\ s.seq = 0
    BY <1>3, <2>1, OpeningFacts DEF Init
  <2>3. ASSUME NEW q \in Lists
        PROVE  /\ Written(s.items[q], s.seq) /\ Distinct(s.items[q]) /\ CountRight(s.lists[q], s.items[q])
               /\ NothingLeft(s.lists[q], s.items[q]) /\ CopyOfDead(s, q)
    <3>1. CopyOfDead(s, q)
      <4>1. Range(Chain[q]) \subseteq Lists
        BY ChainFacts
      <4> QED
        BY <1>1, <1>4, <2>2, <4>1 DEF CopyOfDead
    <3> QED
      BY <1>1, <1>2, <1>4, <2>2, <3>1 DEF CountRight, NothingLeft
  <2> QED
    BY <2>1, <2>2, <2>3 DEF Sound
<1> QED
  BY <1>3, <1>5 DEF IInv

\* Ops and pulls keep the invariant.
LEMMA NextSound ==
  ASSUME IInv, [Next]_vars
  PROVE  IInv'
<1>1. CASE UNCHANGED vars
  BY <1>1 DEF IInv, TypeOK, Opening, Sound, vars
<1>2. ASSUME NEW d \in Devices, NEW o \in Ops, NEW at \in Times, Run(d, o, at) PROVE IInv'
  <2>1. PICK s, t : s = Opening(o.list) /\ t = Outcome(d, o, at)
    OBVIOUS
  <2>2. Sent(o) /\ seq' = t.seq /\ lists' = t.lists /\ items' = t.items /\ known' = known
    BY <1>2, <2>1 DEF Run, Commit
  <2>3. o.list \in Lists /\ Steps(s, t)
    BY <2>1, <2>2, OutcomeSteps
  <2>4. s.seq = seq
    BY <2>1, <2>3, OpeningFacts DEF IInv
  <2>5. Sound(t) /\ t \in Tx /\ t.seq >= seq /\ t.seq \in Nat /\ t.lists \in [Lists -> PlaylistRecord \cup {NoList}] /\ t.items \in [Lists -> Rows]
    BY <2>3, <2>4, TxFacts DEF Steps, Sound
  <2>6. TypeOK'
    <3>1. known' \in [Devices -> 0 .. seq']
      <4>1. known \in [Devices -> 0 .. seq] /\ seq \in Nat
        BY DEF IInv, TypeOK
      <4> QED
        BY <2>2, <2>5, <4>1
    <3> QED
      BY <2>2, <2>5, <3>1 DEF TypeOK, Rows
  <2>7. ASSUME NEW p \in Lists PROVE Sound(Opening(p))'
    <3>1. PICK u : u = Opening(p)'
      OBVIOUS
    <3>2. "none" \in Statuses
      BY DEF Statuses
    <3>3. PICK none : none = "none"
      OBVIOUS
    <3>4. u = [seq |-> t.seq, lists |-> t.lists, items |-> t.items, status |-> none, target |-> p]
      BY <2>2, <3>1, <3>3 DEF Opening
    <3>5. u \in Tx
      BY <2>5, <3>2, <3>3, <3>4 DEF Tx
    <3>6. u.seq = t.seq /\ u.lists = t.lists /\ u.items = t.items
      BY <3>4
    <3>7. Sound(u)
      BY <2>5, <3>5, <3>6 DEF Sound, CopyOfDead
    <3> QED
      BY <3>1, <3>7 DEF Sound, CopyOfDead
  <2> QED
    BY <2>6, <2>7 DEF IInv
<1>3. ASSUME NEW d \in Devices, Pulled(d) PROVE IInv'
  <2>1. UNCHANGED <<seq, lists, items>> /\ known' = [known EXCEPT ![d] = seq]
    BY <1>3 DEF Pulled
  <2>2. TypeOK'
    BY <2>1 DEF IInv, TypeOK
  <2> QED
    BY <2>1, <2>2 DEF IInv, Opening
<1> QED
  BY <1>1, <1>2, <1>3 DEF Next

\* The inductive invariant: what is stored is sound for whichever playlist the next op names.
THEOREM Invariance == Spec => []IInv
<1>1. Init => IInv
  BY InitSound
<1>2. IInv /\ [Next]_vars => IInv'
  BY NextSound
<1> QED
  BY <1>1, <1>2, PTL DEF Spec

\* The types.
THEOREM TypeCorrect == Spec => []TypeOK
<1>1. IInv => TypeOK
  BY DEF IInv
<1> QED
  BY <1>1, Invariance, PTL

\* Every row that changes is told: it has a seq of its own beyond the head, or its playlist has.
THEOREM ChangesAreTold == Spec => ChangesTold
<1> DEFINE Changed == {x \in Lists \X Videos : items'[x[1]][x[2]] # items[x[1]][x[2]]}
           Told == \A x \in Changed :
                     /\ items'[x[1]][x[2]].row => RowSeq(items'[x[1]][x[2]]) > seq
                     /\ ~items'[x[1]][x[2]].row => lists'[x[1]].header.seq > seq
                     /\ \A y \in Changed \ {x} :
                          items'[x[1]][x[2]].row => RowSeq(items'[x[1]][x[2]]) # RowSeq(items'[y[1]][y[2]])
<1>1. IInv /\ [Next]_vars => [Told]_vars
  <2> SUFFICES ASSUME IInv, Next, ~UNCHANGED vars PROVE Told
    OBVIOUS
  <2>1. CASE items' = items
    <3>1. Changed = {}
      BY <2>1
    <3> HIDE DEF Changed
    <3> QED
      BY <3>1
  <2>2. ASSUME NEW d \in Devices, NEW o \in Ops, NEW at \in Times, Run(d, o, at) PROVE Told
    <3>1. PICK s, t : s = Opening(o.list) /\ t = Outcome(d, o, at)
      OBVIOUS
    <3>2. Sent(o) /\ lists' = t.lists /\ items' = t.items
      BY <2>2, <3>1 DEF Run, Commit
    <3>3. o.list \in Lists /\ Steps(s, t)
      BY <3>1, <3>2, OutcomeSteps
    <3>4. s.seq = seq /\ s.items = items
      BY <3>1, <3>3, OpeningFacts DEF IInv
    <3>5. PICK p \in Lists : Tells(s, t, p)
      BY <3>3 DEF Steps
    <3>6. \A x \in Changed : x[1] = p /\ x[2] \in Videos /\ items'[p][x[2]] # items[p][x[2]] /\ x = <<p, x[2]>>
      BY <3>2, <3>4, <3>5 DEF Tells
    <3>7. \A v \in Videos : items'[p][v] # items[p][v] =>
            /\ items'[p][v].row => RowSeq(items'[p][v]) > seq
            /\ ~items'[p][v].row => lists'[p].header.seq > seq
            /\ \A u \in Videos : u # v /\ items'[p][u] # items[p][u] /\ items'[p][v].row =>
                 RowSeq(items'[p][v]) # RowSeq(items'[p][u])
      BY <3>2, <3>4, <3>5 DEF Tells
    <3> HIDE DEF Changed
    <3> QED
      BY <3>6, <3>7
  <2>3. ASSUME NEW d \in Devices, Pulled(d) PROVE items' = items
    BY <2>3 DEF Pulled
  <2> QED
    BY <2>1, <2>2, <2>3 DEF Next
<1>2. ChangesTold <=> [][Told]_vars
  BY PTL DEF ChangesTold
<1> HIDE DEF Told
<1> QED
  BY <1>1, <1>2, Invariance, PTL DEF Spec


-----------------------------------------------------------------------------
(* What the clients compute on the list alone. *)

\* A slot of Open is the start.
LEMMA InsertIs ==
  ASSUME NEW list, Listing(list, Videos), NEW ids, NEW after, NEW before
  PROVE  Insert(list, ids, after, before) = Block(list, ids, Place(list, AnchorSlot(list, after, before).lower))
<1>1. PICK lower : lower = AnchorSlot(list, after, before).lower
  OBVIOUS
<1>2. PICK i : i = IF lower = Open THEN 0 ELSE Place(list, lower)
  OBVIOUS
<1>3. Insert(list, ids, after, before) = SubSeq(list, 1, i) \o ids \o SubSeq(list, i + 1, Len(list))
  BY <1>1, <1>2 DEF Insert
<1>4. Open \notin Range(list)
  BY VideoAssumption, ListingFacts
<1>5. Place(list, Open) = 0
  BY <1>4, ListingFacts
<1>6. i = Place(list, lower)
  BY <1>2, <1>5
<1> QED
  BY <1>1, <1>3, <1>6 DEF Block

\* A list with another one in it behind its first i elements.
IsBlock(b, list, ids, i) ==
  /\ Listing(b, Videos) /\ Range(b) = Range(list) \cup Range(ids)
  /\ \A v \in Range(ids) : Place(b, v) = i + Place(ids, v)
  /\ \A v \in Range(list) : Place(b, v) = IF Place(list, v) <= i THEN Place(list, v) ELSE Place(list, v) + Len(ids)

\* A block by its places.
LEMMA BlockIs ==
  ASSUME NEW list, Listing(list, Videos), NEW ids, Listing(ids, Videos), Range(ids) \cap Range(list) = {},
         NEW i \in 0 .. Len(list), NEW b, b = Block(list, ids, i)
  PROVE  IsBlock(b, list, ids, i)
<1>1. Listing(Block(list, ids, i), Videos)
  BY BlockFacts
<1>2. Range(Block(list, ids, i)) = Range(list) \cup Range(ids)
  BY <1>1, BlockFacts
<1>3. \A v \in Range(ids) : Place(Block(list, ids, i), v) = i + Place(ids, v)
  BY <1>1, BlockFacts
<1>4. \A v \in Range(list) : Place(Block(list, ids, i), v) = IF Place(list, v) <= i THEN Place(list, v)
                                                            ELSE Place(list, v) + Len(ids)
  BY <1>1, BlockFacts
<1> QED
  BY <1>1, <1>2, <1>3, <1>4 DEF IsBlock

\* A block of no ids.
LEMMA EmptyBlock ==
  ASSUME NEW list, Listing(list, Videos), NEW ids, Listing(ids, Videos), Range(ids) = {}, NEW i \in 0 .. Len(list)
  PROVE  Block(list, ids, i) = list
<1>1. PICK b : b = Block(list, ids, i)
  OBVIOUS
<1>2. Len(ids) = 0
  <2>1. Cardinality(Range(ids)) = Len(ids)
    BY ListingFacts
  <2> QED
    BY <2>1, FS_EmptySet
<1>3. /\ Listing(b, Videos) /\ Range(b) = Range(list) \cup Range(ids)
      /\ \A v \in Range(list) : Place(b, v) = IF Place(list, v) <= i THEN Place(list, v) ELSE Place(list, v) + Len(ids)
  <2>1. Range(ids) \cap Range(list) = {}
    BY <1>1
  <2>2. IsBlock(b, list, ids, i)
    BY <1>1, <2>1, BlockIs
  <2> QED
    BY <2>2 DEF IsBlock
<1>4. \A v \in Range(list) : Place(list, v) \in Nat
  <2>1. Len(list) \in Nat /\ \A v : Place(list, v) \in 0 .. Len(list)
    BY ListingFacts
  <2> QED
    BY <2>1
<1>5. \A v \in Range(b) : Place(b, v) = Place(list, v)
  BY <1>2, <1>3, <1>4
<1>6. Range(b) = Range(list)
  BY <1>3
<1> QED
  BY <1>1, <1>3, <1>5, <1>6, SameListing

\* A block in an empty list.
LEMMA BlockOfNothing ==
  ASSUME NEW list, Listing(list, Videos), Range(list) = {}, NEW ids, Listing(ids, Videos), NEW lower
  PROVE  Block(list, ids, Place(list, lower)) = ids
<1>1. PICK b, i : b = Block(list, ids, i) /\ i = 0
  OBVIOUS
<1>2. Place(list, lower) = 0 /\ Len(list) \in Nat
  BY ListingFacts
<1>3. i \in 0 .. Len(list) /\ Range(ids) \cap Range(list) = {}
  BY <1>1, <1>2
<1>4. /\ Listing(b, Videos) /\ Range(b) = Range(list) \cup Range(ids)
      /\ \A v \in Range(ids) : Place(b, v) = i + Place(ids, v)
  <2>1. Range(ids) \cap Range(list) = {}
    BY <1>1, <1>3
  <2>2. IsBlock(b, list, ids, i)
    BY <1>1, <1>3, <2>1, BlockIs
  <2> QED
    BY <2>2 DEF IsBlock
<1>5. Range(b) = Range(ids)
  BY <1>4
<1>6. \A v \in Range(ids) : Place(ids, v) \in Nat
  <2>1. Len(ids) \in Nat /\ \A v : Place(ids, v) \in 0 .. Len(ids)
    BY ListingFacts
  <2> QED
    BY <2>1
<1>7. \A v \in Range(b) : Place(b, v) = Place(ids, v)
  BY <1>1, <1>4, <1>5, <1>6
<1>8. b = ids
  BY <1>4, <1>5, <1>7, SameListing
<1> QED
  BY <1>1, <1>2, <1>8

\* Those of the ids that are not in the list afterwards and have a row.
Lost(s, t, p, ids) == {v \in Range(ids) \ Range(Order(t.items[p])) : s.items[p][v].row}
AddShows(s, t, p, ids, after, before) ==
  Order(t.items[p]) = ApplyAdd(Order(s.items[p]), Among(ids, Range(ids) \ Lost(s, t, p, ids)), after, before)

\* What an add did to the list is what applyAdd does to it, without the ids that lost.
LEMMA BlockShown ==
  ASSUME NEW s, Sound(s), NEW t, Sound(t), NEW p \in Lists, NEW ids, Listing(ids, Videos),
         NEW after \in Videos \cup {Open}, NEW before \in Videos \cup {Open}, NEW w,
         Added(s, t, p, ids, after, before, w),
         NEW rows, rows = s.items[p], NEW list, list = Order(rows), NEW new, new = Order(t.items[p]),
         NEW lost, lost = Lost(s, t, p, ids)
  PROVE  new = ApplyAdd(list, Among(ids, Range(ids) \ lost), after, before)
<1>0. lost = {v \in Range(ids) \ Range(new) : rows[v].row}
  BY DEF Lost
<1>1. s \in Tx /\ t \in Tx /\ rows \in Rows /\ t.items[p] \in Rows
  BY ListFacts DEF Sound
<1>2. /\ Listing(list, Videos) /\ Range(list) = Present(rows)
      /\ Listing(new, Videos) /\ Range(new) = Present(t.items[p])
  BY <1>1, OrderFacts
<1>3. PICK joins, W : joins = Winning(rows, ids, w) /\ W = Winners(rows, ids, w)
  OBVIOUS
<1>4. Listing(joins, Videos) /\ Range(joins) = W /\ joins = Among(ids, W)
  <2>1. joins = Among(ids, W)
    BY <1>3 DEF Winning, Winners
  <2> QED
    BY <1>3, <2>1, WinningFacts
<1>5. PICK kept, T : kept = Among(ids, T) /\ T = Range(ids) \ lost
  OBVIOUS
<1>6. Listing(kept, Videos) /\ Range(kept) = T
  <2>1. Listing(Among(ids, T), Videos)
    BY AmongFacts
  <2>3. Range(Among(ids, T)) = Range(ids) \cap T
    BY AmongFacts
  <2> QED
    BY <1>5, <2>1, <2>3
<1>7. PICK X, mine, lower :
        /\ X = T \ Range(list) /\ mine = Among(kept, X)
        /\ lower = AnchorSlot(list, after, before).lower
  OBVIOUS
<1>8. ApplyAdd(list, kept, after, before) = Block(list, mine, Place(list, lower))
  BY <1>2, <1>6, <1>7, InsertIs DEF ApplyAdd
<1>9. mine = Among(ids, X)
  <2>1. T \cap X = X
    BY <1>7
  <2>2. Among(Among(ids, T), X) = Among(ids, T \cap X)
    BY AmongAmong
  <2> QED
    BY <1>5, <1>7, <2>1, <2>2
<1>10. Listing(mine, Videos) /\ Range(mine) = X
  <2>1. Listing(mine, Videos) /\ Range(mine) = Range(ids) \cap X
    BY <1>9, AmongFacts
  <2> QED
    BY <1>5, <1>7, <2>1
<1>11. Place(list, lower) \in 0 .. Len(list)
  BY <1>2, ListingFacts
<1>12. CASE t.items[p] = s.items[p] /\ joins = <<>>
  <2>1. W = {}
    <3>1. Range(<<>>) = {}
      BY DEF Range
    <3> QED
      BY <1>4, <1>12, <3>1
  <2>2. \A v \in Range(ids) \ Present(rows) : rows[v].row
    BY <1>3, <2>1 DEF Winners
  <2>3. Range(new) = Range(list) /\ new = list
    BY <1>2, <1>12
  <2>4. X = {}
    BY <1>2, <1>5, <1>7, <1>0, <2>2, <2>3
  <2>5. Block(list, mine, Place(list, lower)) = list
    BY <1>2, <1>10, <1>11, <2>4, EmptyBlock
  <2> QED
    BY <1>5, <1>8, <2>3, <2>5
<1>13. CASE /\ Present(t.items[p]) = Present(rows) \cup Range(joins)
            /\ new = Block(list, joins, Place(list, lower))
  <2>1. Range(new) = Range(list) \cup W
    BY <1>2, <1>4, <1>13
  <2>2. W \subseteq Range(ids) \ Range(list) /\ \A v \in (Range(ids) \ Range(list)) \ W : rows[v].row
    BY <1>2, <1>3 DEF Winners
  <2>3. X = W
    <3>1. W \cap lost = {}
      BY <1>0, <2>1
    <3>2. W \subseteq X
      BY <1>5, <1>7, <2>2, <3>1
    <3>3. \A v \in (Range(ids) \ Range(list)) \ W : v \in lost
      BY <1>0, <2>1, <2>2
    <3>4. X \subseteq W
      BY <1>5, <1>7, <3>3
    <3> QED
      BY <3>2, <3>4
  <2>4. mine = joins
    BY <1>4, <1>9, <2>3
  <2> QED
    BY <1>5, <1>8, <1>13, <2>4
<1>14. CASE ~s.lists[p].row /\ new = ids
  <2>1. rows = NoRows
    <3>1. NothingLeft(s.lists[p], s.items[p])
      BY DEF Sound
    <3> QED
      BY <1>14, <3>1 DEF NothingLeft
  <2>2. Range(list) = {}
    BY <1>2, <2>1, NoRowsFacts
  <2>3. X = Range(ids)
    BY <1>5, <1>7, <1>14, <1>0, <2>2
  <2>4. mine = ids
    BY <1>9, <2>3, AmongAll
  <2>5. Block(list, ids, Place(list, lower)) = ids
    BY <1>2, <2>2, BlockOfNothing
  <2> QED
    BY <1>5, <1>8, <1>14, <2>4, <2>5
<1>15. \/ t.items[p] = s.items[p] /\ joins = <<>>
       \/ Present(t.items[p]) = Present(rows) \cup Range(joins) /\ new = Block(list, joins, Place(list, lower))
       \/ ~s.lists[p].row /\ new = ids
  BY <1>3, <1>7 DEF Added
<1> QED
  BY <1>12, <1>13, <1>14, <1>15

\* An add, an import: those of its ids that did not lose come in as clients insert them.
LEMMA AddShown ==
  ASSUME NEW s, Sound(s), NEW t, Sound(t), NEW p \in Lists, NEW ids, Listing(ids, Videos),
         NEW after \in Videos \cup {Open}, NEW before \in Videos \cup {Open}, NEW w,
         Added(s, t, p, ids, after, before, w)
  PROVE  AddShows(s, t, p, ids, after, before)
<1>1. PICK rows, list, new, lost :
        rows = s.items[p] /\ list = Order(rows) /\ new = Order(t.items[p]) /\ lost = Lost(s, t, p, ids)
  OBVIOUS
<1>2. new = ApplyAdd(list, Among(ids, Range(ids) \ lost), after, before)
  BY <1>1, BlockShown
<1> QED
  BY <1>1, <1>2 DEF AddShows

\* A move to the place where the item is changes nothing.
LEMMA MoveInPlace ==
  ASSUME NEW list, Listing(list, Videos), NEW v \in Range(list), NEW lower, lower \in Range(Without(list, v)) \cup {Open},
         lower = At(list, Place(list, v) - 1)
  PROVE  Block(Without(list, v), <<v>>, Place(Without(list, v), lower)) = list
<1>1. PICK one, rest, n, m : one = <<v>> /\ rest = Without(list, v) /\ n = Len(list) /\ m = Place(list, v)
  OBVIOUS
<1>2. v \in Videos
  BY ListingFacts
<1>3. Listing(one, Videos) /\ Range(one) = {v} /\ Len(one) = 1 /\ Place(one, v) = 1
  BY <1>1, <1>2, OneListing
<1>4. /\ Listing(rest, Videos) /\ Range(rest) = Range(list) \ {v}
      /\ \A x, y \in Range(list) \ {v} : Place(rest, x) < Place(rest, y) <=> Place(list, x) < Place(list, y)
  BY <1>1, WithoutFacts
<1>5. /\ n \in Nat /\ DOMAIN list = 1 .. n /\ m \in 1 .. n
      /\ \A i \in 1 .. n : list[i] \in Range(list) /\ Place(list, list[i]) = i
      /\ \A x \in Range(list) : Place(list, x) \in 1 .. n /\ list[Place(list, x)] = x
  BY <1>1, ListingFacts
<1>6. /\ Len(rest) \in Nat
      /\ \A x \in Range(rest) : Place(rest, x) \in 1 .. Len(rest) /\ rest[Place(rest, x)] = x
  BY <1>4, ListingFacts
<1>7. PICK i : i = Place(rest, lower)
  OBVIOUS
<1>8. i \in 0 .. Len(rest)
  BY <1>4, <1>7, ListingFacts
<1>9. \A x \in Range(rest) : Place(rest, x) <= i <=> Place(list, x) < m
  <2>1. CASE m = 1
    <3>1. lower = Open
      BY <1>1, <1>5, <2>1 DEF At
    <3>2. Open \notin Range(rest)
      <4>1. Range(rest) \subseteq Videos
        BY <1>4, ListingFacts
      <4> QED
        BY <4>1, VideoAssumption
    <3>3. i = 0
      BY <1>4, <1>7, <3>1, <3>2, ListingFacts
    <3> QED
      BY <1>4, <1>5, <1>6, <2>1, <3>3
  <2>2. CASE m # 1
    <3>1. PICK k : k = m - 1
      OBVIOUS
    <3>2. k \in 1 .. n /\ k + 1 = m
      BY <1>5, <2>2, <3>1
    <3>3. lower = list[k]
      BY <1>1, <1>5, <3>1, <3>2 DEF At
    <3>4. Place(list, lower) = k /\ lower \in Range(list)
      BY <1>5, <3>2, <3>3
    <3>5. lower # v
      BY <1>1, <3>2, <3>4
    <3>6. lower \in Range(rest) /\ i \in 1 .. Len(rest)
      BY <1>4, <1>6, <1>7, <3>4, <3>5
    <3> TAKE x \in Range(rest)
    <3>7. x \in Range(list) \ {v} /\ Place(rest, x) \in 1 .. Len(rest) /\ Place(list, x) \in 1 .. n
      BY <1>4, <1>5, <1>6
    <3>8. Place(rest, x) < i <=> Place(list, x) < k
      BY <1>4, <1>7, <3>4, <3>6, <3>7
    <3>9. Place(rest, x) = i <=> x = lower
      BY <1>6, <1>7, <3>6, <3>7
    <3>10. Place(list, x) = k <=> x = lower
      BY <1>5, <3>3, <3>4, <3>7
    <3> QED
      BY <1>6, <3>2, <3>6, <3>7, <3>8, <3>9, <3>10
  <2> QED
    BY <2>1, <2>2
<1>10. PICK b : b = Block(rest, one, i)
  OBVIOUS
<1>11. Range(one) \cap Range(rest) = {}
  BY <1>3, <1>4
<1>12. /\ Listing(b, Videos) /\ Range(b) = Range(rest) \cup Range(one)
       /\ \A x \in Range(one) : Place(b, x) = i + Place(one, x)
       /\ \A x \in Range(rest) : Place(b, x) = IF Place(rest, x) <= i THEN Place(rest, x) ELSE Place(rest, x) + Len(one)
  <2>1. Listing(one, Videos) /\ Listing(rest, Videos)
    BY <1>3, <1>4
  <2>2. IsBlock(b, rest, one, i)
    BY <1>8, <1>10, <1>11, <2>1, BlockIs
  <2> QED
    BY <2>2 DEF IsBlock
<1>13. Range(b) = Range(list)
  BY <1>3, <1>4, <1>12
<1>14. Place(b, v) = i + 1
  BY <1>3, <1>12
<1>15. \A x \in Range(rest) : Place(b, x) = IF Place(rest, x) <= i THEN Place(rest, x) ELSE Place(rest, x) + 1
  BY <1>3, <1>12
<1>0. ASSUME NEW x \in Range(b), NEW y \in Range(b), Place(b, x) < Place(b, y)
       PROVE  Place(list, x) < Place(list, y)
  <2>1. \A z \in Range(b) : z = v \/ z \in Range(rest)
    BY <1>3, <1>12
  <2>2. CASE x = v
    <3>1. y \in Range(rest)
      BY <1>14, <1>0, <1>8, <2>1, <2>2
    <3>2. ~(Place(rest, y) <= i)
      BY <1>6, <1>8, <1>14, <1>15, <1>0, <2>2, <3>1
    <3>3. y # v /\ Place(list, y) # m
      BY <1>1, <1>4, <1>5, <3>1
    <3> QED
      BY <1>1, <1>4, <1>5, <1>9, <2>2, <3>1, <3>2, <3>3
  <2>3. CASE y = v /\ x \in Range(rest)
    <3>1. Place(rest, x) <= i
      BY <1>6, <1>8, <1>14, <1>15, <1>0, <2>3
    <3> QED
      BY <1>1, <1>9, <2>3, <3>1
  <2>4. CASE x \in Range(rest) /\ y \in Range(rest)
    <3>1. Place(rest, x) < Place(rest, y)
      BY <1>6, <1>8, <1>15, <1>0, <2>4
    <3> QED
      BY <1>4, <2>4, <3>1
  <2> QED
    BY <2>1, <2>2, <2>3, <2>4
<1>17. b = list
  BY <1>12, <1>13, <1>0, SameListing
<1> QED
  BY <1>1, <1>7, <1>10, <1>17


-----------------------------------------------------------------------------
(* The properties of the runs. *)

\* A playlist is in order, and of a chain of recovery copies at most one is live.
THEOREM TidyAlways == Spec => []Tidy
<1>1. IInv => Tidy
  <2> SUFFICES ASSUME IInv, NEW p \in Lists
               PROVE  /\ lists[p].row => lists[p].count = Len(Order(items[p]))
                      /\ (~lists[p].row \/ lists[p].deleted) => \A v \in Videos : ~items[p][v].row
                      /\ \A v, w \in Videos : v # w /\ items[p][v].present /\ items[p][w].present =>
                           items[p][v].key # items[p][w].key
                      /\ \A q, r \in {p} \cup Range(Chain[p]) : Live(lists, q) /\ Live(lists, r) => q = r
    BY DEF Tidy
  <2>1. PICK s, rows, k : s = Opening(p) /\ rows = items[p] /\ k = lists[p]
    OBVIOUS
  <2>2. Sound(s) /\ s.lists = lists /\ s.items = items /\ s \in Tx
    BY <2>1, OpeningFacts DEF IInv
  <2>3. rows \in Rows /\ Distinct(rows) /\ CountRight(k, rows) /\ NothingLeft(k, rows)
    BY <2>1, <2>2, ListFacts DEF Sound
  <2>4. k.row => k.count = Len(Order(rows))
    BY <2>3, OrderFacts DEF CountRight
  <2>5. ~k.row \/ k.deleted => \A v \in Videos : ~rows[v].row
    <3>1. \A v \in Videos : ~NoRows[v].row
      BY DEF NoRows, NoItem
    <3> QED
      BY <2>3, <3>1 DEF NothingLeft
  <2>6. \A v, w \in Videos : v # w /\ rows[v].present /\ rows[w].present => rows[v].key # rows[w].key
    BY <2>3 DEF Distinct, Present
  <2>7. ASSUME NEW q \in Lists, Live(lists, q), NEW r \in Range(Chain[q]), Live(lists, r) PROVE FALSE
    <3>1. r \in Lists
      BY ChainFacts
    <3>2. lists[r].row /\ ~Dead(lists, q)
      BY <2>2, <2>7, <3>1, ListFacts
    <3>3. CopyOfDead(s, q)
      BY <2>2 DEF Sound
    <3> QED
      BY <2>2, <3>2, <3>3 DEF CopyOfDead
  <2>8. \A q, r \in {p} \cup Range(Chain[p]) : Live(lists, q) /\ Live(lists, r) => q = r
    <3> TAKE q, r \in {p} \cup Range(Chain[p])
    <3> HAVE Live(lists, q) /\ Live(lists, r)
    <3> SUFFICES ASSUME q # r PROVE FALSE
      OBVIOUS
    <3>1. q \in Lists /\ r \in Lists
      BY ChainFacts
    <3>2. r \in Range(Chain[q]) \/ q \in Range(Chain[r])
      <4>1. CASE q = p \/ r = p
        BY <4>1
      <4>2. CASE q # p /\ r # p
        <5>1. PICK c : c = Chain[p]
          OBVIOUS
        <5>2. PICK i, j \in DOMAIN c : q = c[i] /\ r = c[j]
          BY <4>2, <5>1 DEF Range
        <5>3. i \in Nat /\ j \in Nat
          <6>1. c \in Seq(Lists)
            BY <5>1, ChainFacts
          <6>2. DOMAIN c = 1 .. Len(c) /\ Len(c) \in Nat
            BY <6>1, LenProperties
          <6> QED
            BY <5>2, <6>2
        <5>4. i < j \/ j < i
          BY <5>2, <5>3
        <5> QED
          BY <5>1, <5>2, <5>4, ChainFacts
      <4> QED
        BY <4>1, <4>2
    <3> QED
      BY <2>7, <3>1, <3>2
  <2> QED
    BY <2>1, <2>4, <2>5, <2>6, <2>8
<1> QED
  BY <1>1, Invariance, PTL

\* What does not win is present, or not, as before.
LEMMA JoinKeeps ==
  ASSUME NEW s, Sound(s), NEW p \in Lists, s.lists[p].row, ~s.lists[p].deleted,
         NEW o, Listing(o.ids, Videos), o.after \in Videos \cup {Open}, o.before \in Videos \cup {Open},
         NEW w \in Writer, NEW at \in Nat, NEW v, v \notin Winners(s.items[p], o.ids, w),
         NEW t, t = AddItems(s, p, o, w, at)
  PROVE  v \in Present(t.items[p]) <=> v \in Present(s.items[p])
<1>1. PICK joins, list : joins = Winning(s.items[p], o.ids, w) /\ list = Order(s.items[p])
  OBVIOUS
<1>2. /\ Steps(s, t) /\ t.target = s.target
      /\ \/ t.items = s.items /\ (t.status = "deferred" \/ (joins = <<>> /\ t.status \in {"applied", "superseded"}))
         \/ /\ t.status = "applied"
            /\ Present(t.items[p]) = Present(s.items[p]) \cup Range(joins)
            /\ Order(t.items[p]) = Block(list, joins, Place(list, AnchorSlot(list, o.after, o.before).lower))
  BY <1>1, AddItemsSteps
<1>3. v \notin Range(joins)
  BY <1>1, WinningFacts
<1> QED
  BY <1>2, <1>3

\* An import does not touch what others did after its device last looked.
THEOREM ImportsYield == Spec => []ImportYields
<1>1. IInv => ImportYields
  <2> SUFFICES ASSUME IInv, NEW o \in Ops, o.kind = "import", Sent(o), NEW d \in Devices, NEW at \in Times,
                      lists[o.list].row, NEW v \in Videos,
                      items[o.list][v].row, items[o.list][v].mem.seq > known[d], items[o.list][v].mem.at > 0
               PROVE  Outcome(d, o, at).items[o.list][v].present = items[o.list][v].present
    BY DEF ImportYields
  <2>1. PICK p, s, w, t : /\ p = o.list /\ s = Opening(o.list) /\ w = [base |-> known[d], at |-> at, dev |-> d]
                          /\ t = Outcome(d, o, at)
    OBVIOUS
  <2>2. Sound(s) /\ p \in Lists /\ w \in Writer /\ t = Apply(s, o, w)
    BY <2>1, OutcomeSteps
  <2>3. s \in Tx /\ s.lists = lists /\ s.items = items
    BY <2>1, <2>2, OpeningFacts DEF IInv
  <2>4. PICK rows : rows = items[p]
    OBVIOUS
  <2>5. rows \in Rows /\ NothingLeft(s.lists[p], rows)
    BY <2>2, <2>3, <2>4, ListFacts DEF Sound
  <2>6. ~s.lists[p].deleted /\ s.lists[p].row
    <3>1. \A u \in Videos : ~NoRows[u].row
      BY DEF NoRows, NoItem
    <3>2. rows[v].row
      BY <2>1, <2>4
    <3> QED
      BY <2>1, <2>3, <2>5, <3>1, <3>2 DEF NothingLeft
  <2>7. PICK z, y, e : z = 0 /\ y = [w EXCEPT !.at = z] /\ e = [o EXCEPT !.after = Open, !.before = Open]
    OBVIOUS
  <2>8. t = AddItems(s, p, e, y, z)
    <3>1. Apply(s, o, w) = Import(s, o, w)
      BY DEF Apply
    <3>2. Import(s, o, w) = AppendMissing(s, p, o, [w EXCEPT !.at = 0], 0)
      BY <2>1, <2>6 DEF Import
    <3> QED
      BY <2>2, <2>7, <3>1, <3>2 DEF AppendMissing
  <2>9. y \in Writer /\ z \in Nat /\ y.at = 0 /\ y.base = known[d]
    BY <2>1, <2>2, <2>7 DEF Writer
  <2>10. Listing(e.ids, Videos) /\ e.after \in Videos \cup {Open} /\ e.before \in Videos \cup {Open}
    <3>1. o \in Op /\ Listing(o.ids, Videos)
      BY OpFacts
    <3>2. e.ids = o.ids /\ e.after = Open /\ e.before = Open
      BY <2>7, <3>1 DEF Op
    <3> QED
      BY <3>1, <3>2
  <2>11. v \notin Winners(rows, e.ids, y)
    <3>1. PICK reg : reg = rows[v].mem
      OBVIOUS
    <3>2. reg.seq \in Nat /\ reg.at \in Nat
      BY <2>1, <2>4, <2>5, <3>1, RowFacts
    <3>3. known[d] \in Nat
      <4>1. known[d] \in 0 .. seq /\ seq \in Nat
        BY DEF IInv, TypeOK
      <4> QED
        BY <4>1
    <3>4. reg.seq > known[d] /\ reg.at > 0
      BY <2>1, <2>4, <3>1
    <3>5. ~Wins(reg, y)
      BY <2>9, <3>2, <3>3, <3>4 DEF Wins
    <3> QED
      BY <2>1, <2>4, <3>1, <3>5 DEF Winners
  <2>14. PICK new : new = t.items[p]
    OBVIOUS
  <2>15. new \in Rows
    <3>1. Sound(t)
      BY <2>1, OutcomeSteps DEF Steps
    <3> QED
      BY <2>2, <2>14, <3>1, ListFacts DEF Sound
  <2>16. v \in Present(new) <=> v \in Present(rows)
    <3>1. v \notin Winners(s.items[p], e.ids, y)
      BY <2>3, <2>4, <2>11
    <3>2. v \in Present(t.items[p]) <=> v \in Present(s.items[p])
      <4>1. Sound(s) /\ p \in Lists /\ s.lists[p].row /\ ~s.lists[p].deleted
        BY <2>2, <2>6
      <4>2. y \in Writer /\ z \in Nat
        BY <2>9
      <4> QED
        BY <4>1, <4>2, <2>8, <2>10, <3>1, JoinKeeps, SMTT(60)
    <3> QED
      BY <2>3, <2>4, <2>14, <3>2
  <2>17. new[v].present <=> rows[v].present
    BY <2>16 DEF Present
  <2>18. new[v].present \in BOOLEAN /\ rows[v].present \in BOOLEAN
    BY <2>5, <2>15, RowFacts
  <2>19. new[v].present = rows[v].present
    BY <2>17, <2>18
  <2> QED
    BY <2>1, <2>4, <2>14, <2>19
<1> QED
  BY <1>1, Invariance, PTL

\* What a move did to the list is what applyMove does to it.
LEMMA MoveShown ==
  ASSUME NEW s, Sound(s), NEW o \in Ops, o.kind = "move", NEW p \in Lists, p = o.list, NEW w \in Writer,
         NEW t, t = Move(s, o, w), t.status \in {"applied", "redirected"},
         NEW list, list = Order(s.items[p])
  PROVE  t.target = s.target /\ Order(t.items[p]) = ApplyMove(list, o.ids[1], o.after, o.before)
<1>1. PICK v, rest, lower : v = o.ids[1] /\ rest = Without(list, v) /\ lower = AnchorSlot(rest, o.after, o.before).lower
  OBVIOUS
<1>2. v \in Videos
  BY <1>1, OpFacts
<1>3. o.after \in Videos \cup {Open} /\ o.before \in Videos \cup {Open}
  BY OpFacts
<1>4. Listing(list, Videos) /\ Range(list) = Present(s.items[p])
  BY ListFacts, OrderFacts DEF Sound
<1>5. Listing(rest, Videos)
  BY <1>1, <1>4, WithoutFacts
<1>6. Insert(rest, <<v>>, o.after, o.before) = Block(rest, <<v>>, Place(rest, lower))
  BY <1>1, <1>5, InsertIs
<1>7. lower \in Range(rest) \cup {Open}
  <2>1. SlotFits(rest, AnchorSlot(rest, o.after, o.before))
    BY <1>3, <1>5, SlotFacts
  <2> QED
    BY <1>1, <2>1 DEF SlotFits
<1>8. /\ t.target = s.target
      /\ \/ t.items = s.items /\ (v \notin Range(list) \/ (v \in Range(list) /\ lower = At(list, Place(list, v) - 1)))
         \/ v \in Range(list) /\ Order(t.items[p]) = Block(rest, <<v>>, Place(rest, lower))
  <2>1. /\ Steps(s, t) /\ t.target = s.target
        /\ \/ t.items = s.items /\ \/ t.status \in {"deferred", "superseded"}
                                   \/ v \notin Present(s.items[p])
                                   \/ v \in Present(s.items[p]) /\ lower = At(list, Place(list, v) - 1)
           \/ /\ v \in Present(s.items[p])
              /\ Order(t.items[p]) = Block(rest, <<v>>, Place(rest, lower))
    BY <1>1, <1>2, <1>3, MoveSteps
  <2> QED
    BY <1>4, <2>1
<1>9. CASE v \notin Range(list)
  BY <1>1, <1>8, <1>9 DEF ApplyMove
<1>10. CASE v \in Range(list)
  <2>1. ApplyMove(list, v, o.after, o.before) = Block(rest, <<v>>, Place(rest, lower))
    BY <1>1, <1>6, <1>10 DEF ApplyMove
  <2>2. lower = At(list, Place(list, v) - 1) => Block(rest, <<v>>, Place(rest, lower)) = list
    BY <1>1, <1>4, <1>7, <1>10, MoveInPlace
  <2> QED
    BY <1>1, <1>8, <1>10, <2>1, <2>2
<1> QED
  BY <1>9, <1>10

\* What an op does to a list is what every client computes.
THEOREM PlacedAsShownAlways == Spec => []PlacedAsShown
<1>1. IInv => PlacedAsShown
  <2> SUFFICES ASSUME IInv, NEW d \in Devices, NEW o \in Ops, Sent(o), NEW at \in Times
               PROVE  ShownAs(d, o, Outcome(d, o, at))
    BY DEF PlacedAsShown
  <2>1. PICK s, w, t : /\ s = Opening(o.list) /\ w = [base |-> known[d], at |-> at, dev |-> d]
                       /\ t = Outcome(d, o, at)
    OBVIOUS
  <2>2. Sound(s) /\ Fits(s, o) /\ o.list \in Lists /\ w \in Writer /\ t = Apply(s, o, w) /\ Sound(t)
    BY <2>1, OutcomeSteps DEF Steps
  <2>3. s.lists = lists /\ s.items = items /\ s.target = o.list /\ s \in Tx
    BY <2>1, <2>2, OpeningFacts DEF IInv
  <2> SUFFICES ASSUME t.status \in {"applied", "redirected"}
               PROVE  /\ Shown(o, Order(items[t.target]), Order(t.items[t.target]), items[t.target])
                      /\ \/ o.kind = "create" /\ ~lists[t.target].row
                         \/ /\ o.kind = "replace"
                            /\ \A v \in Videos : items[t.target][v].row => RowSeq(items[t.target][v]) <= known[d]
                         => Order(t.items[t.target]) = o.ids
    BY <2>1 DEF ShownAs
  <2>4. PICK p, old, list, new : p = t.target /\ old = items[p] /\ list = Order(old) /\ new = Order(t.items[p])
    OBVIOUS
  <2>5. /\ o.kind \in Kinds /\ Listing(o.ids, Videos)
        /\ o.after \in Videos \cup {Open} /\ o.before \in Videos \cup {Open}
    BY OpFacts
  <2>6. CASE o.kind = "create"
    <3>1. t = Create(s, o, w)
      BY <2>2, <2>6 DEF Apply
    <3>2. CASE s.lists[o.list].row
      <4>1. PICK status : status = IF s.lists[o.list].deleted THEN "rejected" ELSE "applied"
        OBVIOUS
      <4>2. status \in Statuses
        BY <4>1 DEF Statuses
      <4>3. t = Result(s, status)
        BY <3>1, <3>2, <4>1 DEF Create
      <4>4. p = o.list
        BY <2>2, <2>3, <2>4, <4>2, <4>3, AnswerSteps
      <4> QED
        BY <2>3, <2>4, <2>6, <3>2, <4>4 DEF Shown
    <3>3. CASE ~s.lists[o.list].row
      <4>1. Free(s, o.list)
        BY <2>2, <2>6, <3>3 DEF Fits
      <4>2. t = CreatePlaylistWithItems(s, o.list, w.dev, o.name, o.browse, o.ids, w.at, "applied")
        BY <3>1, <3>3 DEF Create
      <4>3. \/ t.status = "deferred" /\ t.items = s.items /\ t.target = s.target
            \/ t.status = "applied" /\ t.target = o.list /\ Order(t.items[o.list]) = o.ids
        BY <2>2, <3>3, <4>1, <4>2, NewSteps
      <4> QED
        BY <2>6, <4>3 DEF Shown
    <3> QED
      BY <3>2, <3>3
  <2>7. CASE o.kind = "update"
    <3>1. t = Update(s, o, w)
      BY <2>2, <2>7 DEF Apply
    <3>2. t.items = s.items
      BY <2>2, <3>1, OpFacts, UpdateSteps
    <3>3. new = list
      BY <2>3, <2>4, <3>2
    <3> QED
      BY <2>4, <2>7, <3>3 DEF Shown
  <2>8. CASE o.kind = "delete"
    <3>1. t = Delete(s, o, w)
      BY <2>2, <2>8 DEF Apply
    <3>2. t.target = s.target /\ Order(t.items[o.list]) = <<>>
      BY <2>2, <3>1, DeleteSteps
    <3>3. new = <<>>
      BY <2>3, <2>4, <3>2
    <3> QED
      BY <2>4, <2>8, <3>3 DEF Shown
  <2>9. CASE o.kind = "remove"
    <3>1. t = RemoveItem(s, o, w)
      BY <2>2, <2>9 DEF Apply
    <3>2. PICK v : v = o.ids[1]
      OBVIOUS
    <3>3. v \in Videos
      BY <2>9, <3>2, OpFacts
    <3>4. /\ t.target = s.target
          /\ \/ t.items = s.items /\ (t.status \in {"deferred", "superseded"} \/ v \notin Present(s.items[o.list]))
             \/ Order(t.items[o.list]) = Without(Order(s.items[o.list]), v)
      BY <2>2, <3>1, <3>2, <3>3, RemoveSteps
    <3>5. Listing(list, Videos) /\ Range(list) = Present(old)
      BY <2>2, <2>3, <2>4, <3>4, ListFacts, OrderFacts
    <3>6. v \notin Range(list) => Without(list, v) = list
      BY <3>5, WithoutFacts
    <3>7. new = Without(list, v)
      BY <2>3, <2>4, <3>4, <3>5, <3>6
    <3> QED
      BY <2>4, <2>9, <3>2, <3>7 DEF Shown
  <2>10. CASE o.kind = "move"
    <3>1. t = Move(s, o, w)
      BY <2>2, <2>10 DEF Apply
    <3>2. PICK v : v = o.ids[1]
      OBVIOUS
    <3>3. v \in Videos
      BY <2>10, <3>2, OpFacts
    <3>4. t.target = s.target
      BY <2>2, <2>10, <3>1, MoveShown
    <3>5. p = o.list /\ list = Order(s.items[p])
      BY <2>3, <2>4, <3>4
    <3>6. Order(t.items[p]) = ApplyMove(list, o.ids[1], o.after, o.before)
      BY <2>2, <2>10, <3>1, <3>5, MoveShown
    <3> QED
      BY <2>4, <2>10, <3>6 DEF Shown
  <2>11. CASE o.kind = "replace"
    <3>1. t = Replace(s, o, w)
      BY <2>2, <2>11 DEF Apply
    <3>2. /\ t.target = s.target
          /\ (\A v \in Videos : s.items[o.list][v].row => RowSeq(s.items[o.list][v]) <= w.base) =>
               Order(t.items[o.list]) = o.ids
      BY <2>2, <2>5, <3>1, ReplaceSteps
    <3>4. p = o.list /\ w.base = known[d]
      BY <2>1, <2>3, <2>4, <3>2
    <3> QED
      BY <2>3, <2>4, <2>11, <3>2, <3>4 DEF Shown
  <2>12. CASE o.kind \in {"add", "import"}
    <3>1. PICK after, before : /\ after = IF o.kind = "add" THEN o.after ELSE Open
                               /\ before = IF o.kind = "add" THEN o.before ELSE Open
      OBVIOUS
    <3>2. \E x \in Writer : AddedSteps(s, t, o.ids, after, before, x)
      <4>1. CASE o.kind = "add"
        <5>1. t = Add(s, o, w)
          BY <2>2, <4>1 DEF Apply
        <5>2. AddedSteps(s, t, o.ids, o.after, o.before, w)
          BY <2>2, <2>3, <5>1, AddSteps
        <5> QED
          BY <2>2, <3>1, <4>1, <5>2
      <4>2. CASE o.kind = "import"
        <5>1. t = Import(s, o, w)
          BY <2>2, <4>2 DEF Apply
        <5>2. \E x \in Writer : AddedSteps(s, t, o.ids, Open, Open, x)
          BY <2>2, <2>3, <4>2, <5>1, ImportSteps
        <5> QED
          BY <3>1, <4>2, <5>2
      <4> QED
        BY <2>12, <4>1, <4>2
    <3>3. PICK x \in Writer : p \in Lists /\ Added(s, t, p, o.ids, after, before, x)
      BY <2>4, <3>2 DEF AddedSteps
    <3>4. after \in Videos \cup {Open} /\ before \in Videos \cup {Open}
      BY <2>5, <3>1
    <3>5. PICK lost : lost = {v \in Range(o.ids) \ Range(new) : old[v].row}
      OBVIOUS
    <3>6. PICK ids : ids = o.ids
      OBVIOUS
    <3>7. old = s.items[p]
      BY <2>3, <2>4
    <3>8. new = ApplyAdd(list, Among(ids, Range(ids) \ lost), after, before)
      <4>1. Listing(ids, Videos)
        BY <2>5, <3>6
      <4>2. Added(s, t, p, ids, after, before, x)
        BY <3>3, <3>6
      <4>3. AddShows(s, t, p, ids, after, before)
        BY <2>2, <3>3, <3>4, <4>1, <4>2, AddShown
      <4> QED
        BY <2>4, <3>5, <3>6, <3>7, <4>3 DEF AddShows, Lost
    <3>9. Shown(o, list, new, old)
      BY <2>12, <3>1, <3>5, <3>6, <3>8 DEF Shown
    <3> QED
      BY <2>4, <2>12, <3>9
  <2> QED
    BY <2>5, <2>6, <2>7, <2>8, <2>9, <2>10, <2>11, <2>12 DEF Kinds
<1> QED
  BY <1>1, Invariance, PTL
=============================================================================
