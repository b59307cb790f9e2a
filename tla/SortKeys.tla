------------------------------- MODULE SortKeys -------------------------------
(***************************************************************************)
(* Order keys of playlist items (src/modules/sync/playlists/sort-keys.ts): *)
(* an integer part, whose text grows with its distance from zero, and a    *)
(* fraction without trailing zeros, compared ordinally.  A key here is the *)
(* integer and the digits of the fraction; Base stands for 62.             *)
(***************************************************************************)
EXTENDS Integers, Sequences, SequencesExt

CONSTANTS
  Open,       \* null: no neighbour on that side
  Base,       \* digits of the alphabet
  MaxLength,  \* MAX_SORT_KEY_LENGTH
  Smallest    \* SMALLEST_INTEGER; the largest integer is its mirror

ASSUME KeyAssumption == Base \in Nat \ {0, 1} /\ MaxLength \in Nat \ {0, 1} /\ Smallest \in Int /\ Smallest < 0

Digit == 0 .. Base - 1
Fraction == {<<>>} \cup {f \in Seq(Digit) : f # <<>> /\ f[Len(f)] # 0}
Key == [int : Smallest .. -Smallest, frac : Fraction]
Bound == Key \cup {Open}

ASSUME OpenAssumption == Open \notin Key \cup Fraction \cup Seq(Bound)

\* The integers on one side of zero whose text has at most n characters, the head letter included.
Reach(n) == FoldLeft(LAMBDA acc, k : acc + Base ^ k, 0, [k \in 1 .. n - 1 |-> k])
\* Characters of the integer part.
IntegerLength(i) ==
  LET size == IF i < 0 THEN -1 - i ELSE i
  IN CHOOSE n \in 2 .. 2 - Smallest : size < Reach(n) /\ (n > 2 => size >= Reach(n - 1))
KeyLength(k) == IntegerLength(k.int) + Len(k.frac)

\* Ordinal comparison: the first digit that differs, a prefix before what extends it.
FracLess(f, g) ==
  \E i \in DOMAIN g :
    /\ \A j \in 1 .. i - 1 : j \in DOMAIN f /\ f[j] = g[j]
    /\ i \in DOMAIN f => f[i] < g[i]
KeyLess(a, b) == a.int < b.int \/ (a.int = b.int /\ FracLess(a.frac, b.frac))

\* The digit of a fraction, which goes on with zeros; Math.round of a mean.
DigitAt(f, i) == IF i \in DOMAIN f THEN f[i] ELSE 0
Mean(x, y) == (x + y + 1) \div 2

\* The fraction half way from f to the end: after the digits that are the largest.
MidpointAbove(f) ==
  LET n == CHOOSE i \in 1 .. Len(f) + 1 : DigitAt(f, i) # Base - 1 /\ \A j \in 1 .. i - 1 : f[j] = Base - 1
  IN Append(SubSeq(f, 1, n - 1), Mean(DigitAt(f, n), Base))

\* A fraction strictly between two others; b may be Open.  Their common prefix stays.
Midpoint(a, b) ==
  LET n == CHOOSE i \in DOMAIN b : DigitAt(a, i) # b[i] /\ \A j \in 1 .. i - 1 : DigitAt(a, j) = b[j]
      x == DigitAt(a, n)
  IN IF b = Open THEN MidpointAbove(a)
     ELSE IF b[n] - x > 1 THEN Append(SubSeq(b, 1, n - 1), Mean(x, b[n]))
     ELSE IF Len(b) > n THEN SubSeq(b, 1, n)
     ELSE Append(SubSeq(b, 1, n - 1), x) \o MidpointAbove(SubSeq(a, n + 1, Len(a)))

\* The next integer and the one before; Open where the keys end.
IncrementInteger(i) == IF i = -Smallest THEN Open ELSE i + 1
DecrementInteger(i) == IF i = Smallest THEN Open ELSE i - 1
Whole(i) == [int |-> i, frac |-> <<>>]

\* validateKey: the smallest integer alone is no key, although it may be issued as the last one at the front.
Valid(k) == k # Whole(Smallest)
\* Where keyBetween does not throw.
Usable(a, b) == Valid(a) /\ Valid(b) /\ (a = Open \/ b = Open \/ KeyLess(a, b))

KeyBelow(b) ==
  IF b.int = Smallest THEN [int |-> b.int, frac |-> Midpoint(<<>>, b.frac)]
  ELSE IF b.frac # <<>> THEN Whole(b.int)
  ELSE Whole(DecrementInteger(b.int))
KeyAbove(a) ==
  IF IncrementInteger(a.int) = Open THEN [int |-> a.int, frac |-> Midpoint(a.frac, Open)]
  ELSE Whole(IncrementInteger(a.int))
KeyInside(a, b) ==
  IF a.int = b.int THEN [int |-> a.int, frac |-> Midpoint(a.frac, b.frac)]
  ELSE IF KeyLess(Whole(IncrementInteger(a.int)), b) THEN Whole(IncrementInteger(a.int))
  ELSE [int |-> a.int, frac |-> Midpoint(a.frac, Open)]

\* A key between two bounds that are usable.
KeyBetween(a, b) ==
  CASE a = Open /\ b = Open -> Whole(0)
    [] a = Open /\ b # Open -> KeyBelow(b)
    [] a # Open /\ b = Open -> KeyAbove(a)
    [] OTHER -> KeyInside(a, b)

\* A key between two bounds with those on both sides of it, spread by bisection when both bounds are there.
Around(keys, m, a, b, k) ==
  IF b = Open THEN <<k>> \o keys[m - 1][<<k, Open>>]
  ELSE IF a = Open THEN Append(keys[m - 1][<<Open, k>>], k)
  ELSE keys[m \div 2][<<a, k>>] \o <<k>> \o keys[m - m \div 2 - 1][<<k, b>>]
\* Lists of m keys between any two bounds, from the shorter lists; Open where it throws.
Spread(keys, m) ==
  [e \in Bound \X Bound |->
    IF m = 0 THEN <<>>
    ELSE IF ~Usable(e[1], e[2]) THEN <<Open>>
    ELSE Around(keys, m, e[1], e[2], KeyBetween(e[1], e[2]))]
KeysBetween(a, b, n) ==
  LET keys[m \in 0 .. n] == Spread(keys, m)
  IN keys[n][<<a, b>>]

\* tryKeysBetween: Open for bounds that are no use, or for a key that would be too long.
Fit(keys) == \A i \in DOMAIN keys : keys[i] # Open /\ KeyLength(keys[i]) <= MaxLength
ShortKeys(keys) == IF Fit(keys) THEN keys ELSE Open
TryKeysBetween(a, b, n) == ShortKeys(KeysBetween(a, b, n))
=============================================================================
