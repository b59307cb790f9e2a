----------------------------- MODULE NewsProofs -----------------------------
(***************************************************************************)
(* Proofs about the news of a user's devices: the hub that tells them      *)
(* there is some (LiveHub), the lyrics they then load page by page         *)
(* (Lyrics), and the playback state whose event carries the news itself    *)
(* (Playback).                                                             *)
(*                                                                         *)
(* LiveHub, for every number of devices and every limit: the safety        *)
(* properties of the streams, the events and the recheck.  Lyrics, for     *)
(* every page size: a device that reads an answer to `after` 0 as all      *)
(* there is shows every version whose rev it has reached.  Playback, for   *)
(* every set of devices, every clock and every number of attempts: revs    *)
(* that only grow, takeovers, and what a device that watches shows.        *)
(***************************************************************************)
EXTENDS LiveHub, Lyrics, Playback, FiniteSetTheorems, TLAPS

(***************************************************************************)
(* Types.                                                                  *)
(***************************************************************************)

\* The bounds in the guards hold with what is still to be opened.
TypeInv ==
  /\ TypeOK
  /\ IsFiniteSet(admitted)
  /\ opened + Cardinality(admitted) <= MaxOpened
  /\ Changes <= MaxChanges

\* The removed devices are counted, and one more removal counts one more.
LEMMA RemovedCount ==
  ASSUME NEW rest \in SUBSET Device
  PROVE  /\ Cardinality(Device \ rest) \in Nat
         /\ \A d \in rest : Cardinality(Device \ (rest \ {d})) = Cardinality(Device \ rest) + 1
<1>1. IsFiniteSet(Device \ rest)
  BY BoundsAssumption, FS_Subset
<1>2. Cardinality(Device \ rest) \in Nat
  BY <1>1, FS_CardinalityType
<1>3. ASSUME NEW d \in rest
      PROVE  Cardinality(Device \ (rest \ {d})) = Cardinality(Device \ rest) + 1
  <2>1. Device \ (rest \ {d}) = (Device \ rest) \cup {d}
    OBVIOUS
  <2>. QED
    BY <1>1, <2>1, FS_AddElement
<1>. QED
  BY <1>2, <1>3

\* One request more makes the set of requests larger by at most one.
LEMMA OneMore ==
  ASSUME NEW S, IsFiniteSet(S), NEW x
  PROVE  IsFiniteSet(S \cup {x}) /\ Cardinality(S \cup {x}) <= Cardinality(S) + 1
<1>1. Cardinality(S) \in Nat
  BY FS_CardinalityType
<1>2. /\ IsFiniteSet(S \cup {x})
      /\ Cardinality(S \cup {x}) = IF x \in S THEN Cardinality(S) ELSE Cardinality(S) + 1
  BY FS_AddElement
<1>. QED
  BY <1>1, <1>2

LEMMA TypeInit == Init => TypeInv
<1>. SUFFICES ASSUME Init PROVE TypeInv
  OBVIOUS
<1>1. Cardinality({}) = 0 /\ IsFiniteSet({})
  BY FS_EmptySet
<1>2. TypeOK
  <2>1. /\ version \in Version /\ commits \in 0 .. MaxChanges /\ opened \in 0 .. MaxOpened
        /\ seen \in [Device -> 0 .. MaxChanges]
    BY BoundsAssumption DEF Init, Version
  <2>2. /\ present \subseteq Device /\ writing \subseteq Device /\ reading \subseteq Device
        /\ admitted \subseteq [dev : Device, version : Version]
        /\ streams = {}
        /\ authors \subseteq Device /\ effects \subseteq SUBSET Device
        /\ window \in BOOLEAN /\ timer \in BOOLEAN
        /\ recheck = Idle
    BY DEF Init
  <2>. QED
    BY <2>1, <2>2 DEF TypeOK
<1>3. Changes = 0
  <2>1. Device \ present = {}
    BY DEF Init
  <2>. QED
    BY <1>1, <2>1 DEF Init, Changes
<1>. QED
  BY <1>1, <1>2, <1>3, BoundsAssumption DEF Init, TypeInv

LEMMA TypeStep == TypeInv /\ [Next]_vars => TypeInv'
<1>. SUFFICES ASSUME TypeInv, [Next]_vars PROVE TypeInv'
  OBVIOUS
<1>. USE BoundsAssumption DEF TypeInv, TypeOK, Version
<1>0. Cardinality(admitted) \in Nat
  BY FS_CardinalityType
<1>r. Cardinality(Device \ present) \in Nat
  BY RemovedCount
<1>1. ASSUME NEW d \in Device, Admit(d) PROVE TypeInv'
  <2>1. [dev |-> d, version |-> version] \in [dev : Device, version : Version]
    OBVIOUS
  <2>2. /\ IsFiniteSet(admitted')
        /\ Cardinality(admitted') <= Cardinality(admitted) + 1
    BY <1>1, <1>0, OneMore DEF Admit
  <2>3. Cardinality(admitted') \in Nat
    BY <2>2, FS_CardinalityType
  <2>. QED
    BY <1>1, <1>0, <2>1, <2>2, <2>3 DEF Admit, rows, news, beats, Changes
<1>2. ASSUME NEW r \in admitted, Open(r) PROVE TypeInv'
  <2>1. /\ IsFiniteSet(admitted')
        /\ Cardinality(admitted') = Cardinality(admitted) - 1
    BY <1>2, FS_RemoveElement DEF Open
  <2>2. Cardinality(admitted') \in Nat
    BY <2>1, FS_CardinalityType
  <2>3. opened' \in 0 .. MaxOpened /\ opened' + Cardinality(admitted') <= MaxOpened
    BY <1>2, <1>0, <2>1, <2>2 DEF Open
  <2>4. [id |-> opened + 1, dev |-> r.dev, version |-> r.version] \in Stream
    BY <1>2, <2>3 DEF Open, Stream
  <2>5. streams' \subseteq streams \cup {[id |-> opened + 1, dev |-> r.dev, version |-> r.version]}
    BY <1>2 DEF Open
  <2>6. streams' \subseteq Stream
    BY <2>4, <2>5
  <2>7. \A s \in streams' : s.id <= opened' /\ \A n \in streams' : n.id = s.id => n = s
    <3>1. \A s \in streams : s.id \in Int /\ s.id <= opened
      BY DEF Stream
    <3>. QED
      BY <1>2, <2>5, <3>1 DEF Open
  <2>8. seen' \in [Device -> 0 .. MaxChanges]
    BY <1>2 DEF Open
  <2>. QED
    BY <1>2, <2>1, <2>3, <2>6, <2>7, <2>8 DEF Open, rows, Changes
<1>3. ASSUME NEW s \in streams, Leave(s) PROVE TypeInv'
  BY <1>3 DEF Leave, rows, news, beats, Changes
<1>4. ASSUME NEW d \in Device, Commit(d) PROVE TypeInv'
  BY <1>4, <1>r DEF Commit, rows, beats, Changes
<1>d. ASSUME NEW except, Deliver(except)
      PROVE  streams' \subseteq streams /\ seen' \in [Device -> 0 .. MaxChanges]
  BY <1>d DEF Deliver
<1>5. ASSUME NEW d \in Device, Publish(d) PROVE TypeInv'
  <2>1. streams' \subseteq streams /\ seen' \in [Device -> 0 .. MaxChanges]
    BY <1>5, <1>d DEF Publish
  <2>2. authors' \subseteq Device
    BY <1>5 DEF Publish, Merge
  <2>. QED
    BY <1>5, <2>1, <2>2 DEF Publish, rows, beats, Changes
<1>6. ASSUME NEW d \in Device, ReadPage(d) PROVE TypeInv'
  BY <1>6 DEF ReadPage, rows, beats, Changes
<1>7. ASSUME Flush PROVE TypeInv'
  <2>1. streams' \subseteq streams /\ seen' \in [Device -> 0 .. MaxChanges]
    BY <1>7, <1>d DEF Flush
  <2>. QED
    BY <1>7, <2>1 DEF Flush, rows, beats, Changes
<1>8. ASSUME NEW d \in Device, Remove(d) PROVE TypeInv'
  <2>1. Cardinality(Device \ present') = Cardinality(Device \ present) + 1
    BY <1>8, RemovedCount DEF Remove
  <2>. QED
    BY <1>8, <1>r, <2>1 DEF Remove, news, beats, Changes
<1>9. ASSUME ChangePassword PROVE TypeInv'
  BY <1>9, <1>r DEF ChangePassword, news, beats, Changes
<1>10. ASSUME NEW devices \in effects, Close(devices) PROVE TypeInv'
  BY <1>10 DEF Close, rows, news, beats, Changes
<1>11. ASSUME Beat PROVE TypeInv'
  BY <1>11 DEF Beat, Listed, rows, news, Changes
<1>12. ASSUME RecheckRead PROVE TypeInv'
  <2>1. recheck \in [phase : {"listed"}, streams : SUBSET Stream]
    BY <1>12 DEF RecheckRead, Idle
  <2>2. Gone \in SUBSET Device /\ Outdated \in SUBSET Stream
    BY <2>1 DEF Gone, Outdated, Stream
  <2>. QED
    BY <1>12, <2>2 DEF RecheckRead, rows, news, Changes
<1>13. ASSUME RecheckApply PROVE TypeInv'
  BY <1>13 DEF RecheckApply, rows, news, Changes
<1>14. ASSUME RecheckFails PROVE TypeInv'
  BY <1>14 DEF RecheckFails, rows, news, Changes
<1>15. ASSUME Restart PROVE TypeInv'
  <2>1. Cardinality({}) = 0 /\ IsFiniteSet({})
    BY FS_EmptySet
  <2>2. Changes' = Changes
    BY <1>15 DEF Restart, rows, Changes
  <2>3. TypeOK'
    BY <1>15 DEF Restart, rows
  <2>4. opened' + Cardinality(admitted') <= MaxOpened
    BY <1>0, <1>15, <2>1 DEF Restart
  <2>. QED
    BY <1>15, <2>1, <2>2, <2>3, <2>4 DEF Restart
<1>16. ASSUME UNCHANGED vars PROVE TypeInv'
  BY <1>16 DEF vars, Changes
<1>. QED
  BY <1>1, <1>2, <1>3, <1>4, <1>5, <1>6, <1>7, <1>8, <1>9, <1>10, <1>11, <1>12, <1>13, <1>14,
     <1>15, <1>16 DEF Next

LEMMA Types == Spec => []TypeInv
BY TypeInit, TypeStep, PTL DEF Spec

\* The hub, the window and the recheck keep their types.
THEOREM TypeCorrect == Spec => []TypeOK
<1>1. TypeInv => TypeOK
  BY DEF TypeInv
<1>. QED
  BY <1>1, Types, PTL

-----------------------------------------------------------------------------
(***************************************************************************)
(* Limits and eviction.                                                    *)
(***************************************************************************)

\* Streams are told apart by their ids, which grow in opening order.
Ordered(open) ==
  /\ IsFiniteSet(open)
  /\ \A s \in open : s.id \in Int
  /\ \A s, n \in open : s.id = n.id => s = n

\* An older stream has more newer ones.
LEMMA OlderHasMore ==
  ASSUME NEW open, Ordered(open), NEW old \in open, NEW new \in open, old.id < new.id
  PROVE  /\ Cardinality(NewerOf(open, new)) \in Nat
         /\ Cardinality(NewerOf(open, old)) \in Nat
         /\ Cardinality(NewerOf(open, new)) < Cardinality(NewerOf(open, old))
<1>1. NewerOf(open, old) \in SUBSET open /\ NewerOf(open, new) \in SUBSET open
  BY DEF NewerOf
<1>2. IsFiniteSet(NewerOf(open, old)) /\ IsFiniteSet(NewerOf(open, new))
  BY <1>1, FS_Subset DEF Ordered
<1>3. Cardinality(NewerOf(open, old)) \in Nat /\ Cardinality(NewerOf(open, new)) \in Nat
  BY <1>2, FS_CardinalityType
<1>4. NewerOf(open, new) \in SUBSET NewerOf(open, old)
  BY DEF NewerOf, Ordered
<1>5. new \in NewerOf(open, old) /\ new \notin NewerOf(open, new)
  BY DEF NewerOf, Ordered
<1>6. /\ Cardinality(NewerOf(open, new)) <= Cardinality(NewerOf(open, old))
      /\ Cardinality(NewerOf(open, old)) = Cardinality(NewerOf(open, new))
           => NewerOf(open, old) = NewerOf(open, new)
  BY <1>2, <1>4, FS_Subset
<1>. QED
  BY <1>3, <1>5, <1>6

\* Streams with fewer than n newer ones are at most n: they all have different numbers of them.
LEMMA FewAreKept ==
  ASSUME NEW open, Ordered(open), NEW n \in Nat, NEW kept \in SUBSET open,
         \A s \in kept : Cardinality(NewerOf(open, s)) < n
  PROVE  IsFiniteSet(kept) /\ Cardinality(kept) <= n
<1>1. IsFiniteSet(kept)
  BY FS_Subset DEF Ordered
<1>2. Cardinality(kept) \in Nat
  BY <1>1, FS_CardinalityType
<1>3. IsFiniteSet(0 .. n - 1) /\ Cardinality(0 .. n - 1) = n
  BY FS_Interval
<1>4. ASSUME n < Cardinality(kept) PROVE FALSE
  <2>. DEFINE rank == [s \in kept |-> Cardinality(NewerOf(open, s))]
  <2>1. \A s \in kept : Cardinality(NewerOf(open, s)) \in 0 .. n - 1
    <3>1. ASSUME NEW s \in kept PROVE Cardinality(NewerOf(open, s)) \in Nat
      <4>1. NewerOf(open, s) \in SUBSET open
        BY DEF NewerOf
      <4>. QED
        BY <4>1, FS_Subset, FS_CardinalityType DEF Ordered
    <3>. QED
      BY <3>1
  <2>2. rank \in [kept -> 0 .. n - 1]
    BY <2>1
  <2>3. PICK x, y \in kept : x # y /\ rank[x] = rank[y]
    <3>. HIDE DEF rank
    <3>. QED
      BY <1>1, <1>3, <1>4, <2>2, FS_PigeonHole
  <2>4. x.id < y.id \/ y.id < x.id
    BY <2>3 DEF Ordered
  <2>5. Cardinality(NewerOf(open, x)) = Cardinality(NewerOf(open, y))
    BY <2>3
  <2>. QED
    BY <2>4, <2>5, OlderHasMore
<1>. QED
  BY <1>1, <1>2, <1>4

\* The open streams are ordered, also with the one that is being opened.
LEMMA StreamsOrdered ==
  ASSUME TypeInv
  PROVE  /\ Ordered(streams)
         /\ \A dev, v : Ordered(streams \cup {[id |-> opened + 1, dev |-> dev, version |-> v]})
<1>. DEFINE number == [s \in streams |-> s.id]
<1>1. \A s \in streams : s.id \in 1 .. MaxOpened
  BY DEF TypeInv, TypeOK, Stream
<1>2. number \in Injection(streams, 1 .. MaxOpened)
  BY <1>1 DEF TypeInv, TypeOK, Injection, IsInjective
<1>3. IsFiniteSet(1 .. MaxOpened)
  BY BoundsAssumption, FS_Interval
<1>4. IsFiniteSet(streams)
  BY <1>2, <1>3, FS_Injection
<1>5. Ordered(streams)
  BY <1>1, <1>4, BoundsAssumption DEF TypeInv, TypeOK, Ordered
<1>6. ASSUME NEW dev, NEW v
      PROVE  Ordered(streams \cup {[id |-> opened + 1, dev |-> dev, version |-> v]})
  <2>. DEFINE new == [id |-> opened + 1, dev |-> dev, version |-> v]
  <2>1. new.id = opened + 1
    OBVIOUS
  <2>2. \A s \in streams : s.id \in Int /\ s.id < opened + 1
    BY <1>1, BoundsAssumption DEF TypeInv, TypeOK
  <2>. HIDE DEF new
  <2>3. IsFiniteSet(streams \cup {new})
    BY <1>4, FS_AddElement
  <2>4. \A s \in streams \cup {new} : s.id \in Int
    BY <2>1, <2>2 DEF TypeInv, TypeOK
  <2>5. \A s, n \in streams \cup {new} : s.id = n.id => s = n
    BY <1>5, <2>1, <2>2 DEF Ordered
  <2>6. Ordered(streams \cup {new})
    BY <2>3, <2>4, <2>5 DEF Ordered
  <2>. QED
    BY <2>6 DEF new
<1>. QED
  BY <1>5, <1>6

LEMMA PartOrdered ==
  ASSUME NEW open, Ordered(open), NEW part \in SUBSET open
  PROVE  Ordered(part)
BY FS_Subset DEF Ordered

\* Only an opening adds a stream or a number.
LEMMA OpenOrFewer ==
  ASSUME TypeInv, [Next]_vars
  PROVE  (\E r \in admitted : Open(r)) \/ (streams' \subseteq streams /\ opened' = opened)
BY DEF Next, vars, rows, news, beats, Admit, Leave, Commit, Deliver, Publish, ReadPage, Flush,
       Remove, ChangePassword, Close, Beat, RecheckRead, RecheckApply, RecheckFails, Restart

\* What register leaves open: nothing beyond a limit.
LEMMA WhatStays ==
  ASSUME NEW open, NEW dev
  PROVE  LET mine == Of(open, dev)
             rest == open \ Beyond(mine, MaxPerDevice)
             kept == open \ Evicted(open, dev)
         IN  /\ kept = rest \ Beyond(rest, MaxPerUser)
             /\ Of(kept, dev) \cap Beyond(mine, MaxPerDevice) = {}
             /\ Of(kept, dev) \subseteq mine
             /\ kept \subseteq rest
             /\ rest \subseteq open
             /\ mine \subseteq open
BY DEF Evicted, Of, Beyond

LEMMA LimitsInit == Init => WithinLimits
<1>1. ASSUME Init PROVE WithinLimits
  <2>1. Cardinality({}) = 0
    BY FS_EmptySet
  <2>2. \A d \in Device : Of(streams, d) = {}
    BY <1>1 DEF Init, Of
  <2>. QED
    BY <1>1, <2>1, <2>2, LimitsAssumption DEF Init, WithinLimits
<1>. QED
  BY <1>1

LEMMA LimitsStep == TypeInv /\ WithinLimits /\ [Next]_vars => WithinLimits'
<1>. SUFFICES ASSUME TypeInv, WithinLimits, [Next]_vars PROVE WithinLimits'
  OBVIOUS
<1>1. ASSUME NEW few, Ordered(few), NEW fewer \in SUBSET few
      PROVE  /\ Cardinality(fewer) \in Nat /\ Cardinality(few) \in Nat
             /\ Cardinality(fewer) <= Cardinality(few)
  BY <1>1, FS_Subset, FS_CardinalityType DEF Ordered
<1>2. Ordered(streams) /\ \A d : Ordered(Of(streams, d))
  BY StreamsOrdered, PartOrdered DEF Of
<1>3. CASE streams' \subseteq streams
  <2>1. Cardinality(streams') <= MaxPerUser
    BY <1>1, <1>2, <1>3, LimitsAssumption DEF WithinLimits
  <2>2. ASSUME NEW d \in Device PROVE Cardinality(Of(streams', d)) <= MaxPerDevice
    <3>1. Of(streams', d) \in SUBSET Of(streams, d)
      BY <1>3 DEF Of
    <3>. QED
      BY <1>1, <1>2, <3>1, LimitsAssumption DEF WithinLimits
  <2>. QED
    BY <2>1, <2>2 DEF WithinLimits, Of
<1>4. ASSUME NEW r \in admitted, Open(r) PROVE WithinLimits'
  <2>. DEFINE open == streams \cup {[id |-> opened + 1, dev |-> r.dev, version |-> r.version]}
              mine == Of(open, r.dev)
              rest == open \ Beyond(mine, MaxPerDevice)
  <2>1. Ordered(open)
    BY StreamsOrdered
  <2>2. streams' = open \ Evicted(open, r.dev)
    BY <1>4 DEF Open
  <2>3. \A d : d # r.dev => Of(streams', d) \subseteq Of(streams, d)
    BY <2>2 DEF Of
  <2>. HIDE DEF open
  <2>11. /\ mine \subseteq open /\ rest \subseteq open
        /\ streams' = rest \ Beyond(rest, MaxPerUser)
        /\ Of(streams', r.dev) \cap Beyond(mine, MaxPerDevice) = {}
        /\ Of(streams', r.dev) \subseteq mine
    BY <2>2, WhatStays
  <2>4. Ordered(mine) /\ Ordered(rest)
    BY <2>1, <2>11, PartOrdered
  <2>5. streams' \in SUBSET rest /\ \A s \in streams' : ~(Cardinality(NewerOf(rest, s)) >= MaxPerUser)
    BY <2>11 DEF Beyond
  <2>6. /\ Of(streams', r.dev) \in SUBSET mine
        /\ \A s \in Of(streams', r.dev) : ~(Cardinality(NewerOf(mine, s)) >= MaxPerDevice)
    BY <2>11 DEF Beyond
  <2>7. ASSUME NEW few, Ordered(few), NEW s PROVE Cardinality(NewerOf(few, s)) \in Nat
    <3>1. NewerOf(few, s) \in SUBSET few
      BY DEF NewerOf
    <3>. QED
      BY <1>1, <2>7, <3>1
  <2>. HIDE DEF mine, rest
  <2>8. Cardinality(streams') <= MaxPerUser
    <3>1. \A s \in streams' : Cardinality(NewerOf(rest, s)) < MaxPerUser
      BY <2>4, <2>5, <2>7, LimitsAssumption
    <3>. QED
      BY <2>4, <2>5, <3>1, FewAreKept, LimitsAssumption
  <2>9. Cardinality(Of(streams', r.dev)) <= MaxPerDevice
    <3>1. \A s \in Of(streams', r.dev) : Cardinality(NewerOf(mine, s)) < MaxPerDevice
      BY <2>4, <2>6, <2>7, LimitsAssumption
    <3>. QED
      BY <2>4, <2>6, <3>1, FewAreKept, LimitsAssumption
  <2>10. ASSUME NEW d \in Device, d # r.dev PROVE Cardinality(Of(streams', d)) <= MaxPerDevice
    <3>1. Of(streams', d) \in SUBSET Of(streams, d)
      BY <2>3, <2>10
    <3>. QED
      BY <1>1, <1>2, <3>1, LimitsAssumption DEF WithinLimits
  <2>. QED
    BY <2>8, <2>9, <2>10 DEF WithinLimits, Of
<1>. QED
  BY <1>3, <1>4, OpenOrFewer

\* Whatever opens, closes and evicts: no device and no user exceeds its limit of streams.
THEOREM LimitsHold == Spec => []WithinLimits
BY Types, LimitsInit, LimitsStep, PTL DEF Spec

LEMMA OpeningStep ==
  TypeInv /\ [Next]_vars =>
    (opened' # opened =>
       /\ \E s \in streams' : s.id = opened'
       /\ \A s \in streams \ streams', kept \in streams' : kept.dev = s.dev => kept.id > s.id)
<1>. SUFFICES ASSUME TypeInv, [Next]_vars, opened' # opened
              PROVE  /\ \E s \in streams' : s.id = opened'
                     /\ \A s \in streams \ streams', kept \in streams' :
                          kept.dev = s.dev => kept.id > s.id
  OBVIOUS
<1>. PICK r \in admitted : Open(r)
  BY OpenOrFewer
<1>. DEFINE new == [id |-> opened + 1, dev |-> r.dev, version |-> r.version]
            open == streams \cup {new}
            mine == Of(open, r.dev)
            rest == open \ Beyond(mine, MaxPerDevice)
<1>1. streams' = open \ Evicted(open, r.dev) /\ opened' = opened + 1
  BY DEF Open
<1>2. Ordered(open)
  BY StreamsOrdered
<1>3. new \in open /\ new.id = opened + 1 /\ new.dev = r.dev /\ streams \subseteq open
  OBVIOUS
<1>4. \A s \in open : s.id \in Int /\ s.id <= opened + 1
  BY BoundsAssumption DEF TypeInv, TypeOK, Stream
<1>. HIDE DEF new, open
<1>5. mine \subseteq open /\ rest \subseteq open
  BY WhatStays
<1>6. Ordered(mine) /\ Ordered(rest)
  BY <1>2, <1>5, PartOrdered
<1>7. streams' = rest \ Beyond(rest, MaxPerUser)
  BY <1>1, WhatStays
<1>8. new \in streams'
  <2>1. \A few \in SUBSET open : NewerOf(few, new) = {}
    BY <1>3, <1>4 DEF NewerOf
  <2>2. ~(Cardinality({}) >= MaxPerUser) /\ ~(Cardinality({}) >= MaxPerDevice)
    BY FS_EmptySet, LimitsAssumption
  <2>3. new \notin Beyond(mine, MaxPerDevice) /\ new \notin Beyond(rest, MaxPerUser)
    BY <1>5, <2>1, <2>2 DEF Beyond
  <2>. QED
    BY <1>3, <1>7, <2>3
<1>9. ASSUME NEW s \in streams \ streams', NEW kept \in streams', kept.dev = s.dev
      PROVE  kept.id > s.id
  <2>1. s \in open /\ kept \in open /\ s # kept /\ kept \in rest /\ kept \notin Beyond(mine, MaxPerDevice)
    BY <1>3, <1>5, <1>7
  <2>2. ASSUME kept.id < s.id, NEW few, Ordered(few), s \in few, kept \in few, NEW limit \in Nat,
               s \in Beyond(few, limit)
        PROVE  kept \in Beyond(few, limit)
    BY <2>2, OlderHasMore DEF Beyond
  <2>3. s \in Beyond(mine, MaxPerDevice) \/ (s \in rest /\ s \in Beyond(rest, MaxPerUser))
    BY <1>7, <2>1
  <2>4. ~(kept.id < s.id)
    <3>1. CASE s \in Beyond(mine, MaxPerDevice)
      <4>1. s \in mine /\ kept \in mine
        BY <1>9, <2>1, <3>1 DEF Beyond, Of
      <4>. QED
        BY <1>6, <2>1, <2>2, <3>1, <4>1, LimitsAssumption
    <3>2. CASE s \in rest /\ s \in Beyond(rest, MaxPerUser)
      BY <1>6, <1>7, <2>1, <2>2, <3>2, LimitsAssumption
    <3>. QED
      BY <2>3, <3>1, <3>2
  <2>. QED
    BY <1>2, <2>1, <2>4 DEF Ordered
<1>. QED
  BY <1>1, <1>3, <1>8, <1>9

\* A new stream stays, and of the streams of a device it is the older ones that go for it.
THEOREM OldestGo == Spec => OldestGoFirst
<1>. QED
  BY Types, OpeningStep, PTL DEF Spec, OldestGoFirst

-----------------------------------------------------------------------------
(***************************************************************************)
(* Events.                                                                 *)
(***************************************************************************)

\* Why a device with a stream may not know of a write yet: a write is not announced, its own
\* request is not answered, or another author waits in the window for the trailing event.
Told ==
  \A s \in streams :
    \/ seen[s.dev] = commits
    \/ writing # {}
    \/ s.dev \in reading
    \/ authors \ {s.dev} # {}

LEMMA ToldInit == Init => Told
BY DEF Init, Told

\* An event makes up for everything with those who get it.
LEMMA Delivered ==
  ASSUME TypeInv, NEW except, Deliver(except)
  PROVE  /\ streams' \subseteq streams
         /\ \A s \in streams' :
              seen'[s.dev] = IF s.dev \notin except THEN commits ELSE seen[s.dev]
<1>1. \A s \in streams : s.dev \in Device
  BY DEF TypeInv, TypeOK, Stream
<1>. QED
  BY <1>1 DEF Deliver

LEMMA ToldStep == TypeInv /\ Told /\ [Next]_vars => Told'
<1>. SUFFICES ASSUME TypeInv, Told, [Next]_vars PROVE Told'
  OBVIOUS
<1>. USE DEF Told
<1>1. ASSUME NEW d \in Device, Admit(d) PROVE Told'
  BY <1>1 DEF Admit, news
<1>2. ASSUME NEW r \in admitted, Open(r) PROVE Told'
  <2>1. r.dev \in Device /\ \A s \in streams : s.dev \in Device
    BY DEF TypeInv, TypeOK, Stream
  <2>2. \A s \in streams' : s \in streams \/ s.dev = r.dev
    BY <1>2 DEF Open
  <2>3. \A d \in Device : seen'[d] = IF d = r.dev THEN commits ELSE seen[d]
    BY <1>2, <2>1 DEF Open, TypeInv, TypeOK
  <2>4. UNCHANGED <<commits, writing, reading, authors>>
    BY <1>2 DEF Open
  <2>. QED
    BY <2>1, <2>2, <2>3, <2>4
<1>3. ASSUME NEW s \in streams, Leave(s) PROVE Told'
  BY <1>3 DEF Leave, news
<1>4. ASSUME NEW d \in Device, Commit(d) PROVE Told'
  BY <1>4 DEF Commit
<1>5. ASSUME NEW d \in Device, Publish(d) PROVE Told'
  <2>1. reading' = reading \cup {d} /\ commits' = commits
    BY <1>5 DEF Publish
  <2>2. CASE window
    <3>1. authors' = authors \cup {d} /\ streams' = streams /\ seen' = seen
      BY <1>5, <2>2 DEF Publish, Merge
    <3>. QED
      BY <2>1, <3>1
  <2>3. CASE ~window
    <3>1. Deliver({d})
      BY <1>5, <2>3 DEF Publish
    <3>. QED
      BY <2>1, <3>1, Delivered
  <2>. QED
    BY <2>2, <2>3
<1>6. ASSUME NEW d \in Device, ReadPage(d) PROVE Told'
  <2>1. \A e \in Device : seen'[e] = IF e = d THEN commits ELSE seen[e]
    BY <1>6 DEF ReadPage, TypeInv, TypeOK
  <2>2. \A s \in streams : s.dev \in Device
    BY DEF TypeInv, TypeOK, Stream
  <2>. QED
    BY <1>6, <2>1, <2>2 DEF ReadPage
<1>7. ASSUME Flush PROVE Told'
  <2>1. UNCHANGED <<commits, writing, reading>>
    BY <1>7 DEF Flush
  <2>2. CASE authors = {}
    BY <1>7, <2>1, <2>2 DEF Flush
  <2>3. CASE authors # {}
    <3>. DEFINE skipped == IF Cardinality(authors) = 1 THEN authors ELSE {}
    <3>1. Deliver(skipped)
      BY <1>7, <2>3 DEF Flush
    <3>2. \A d \in skipped : authors \ {d} = {}
      <4>1. IsFiniteSet(authors)
        BY BoundsAssumption, FS_Subset DEF TypeInv, TypeOK
      <4>2. Cardinality(authors) = 1 => \E x : authors = {x}
        BY <4>1, FS_Singleton
      <4>. QED
        BY <4>2
    <3>. HIDE DEF skipped
    <3>. QED
      BY <2>1, <3>1, <3>2, Delivered
  <2>. QED
    BY <2>2, <2>3
<1>8. ASSUME NEW d \in Device, Remove(d) PROVE Told'
  BY <1>8 DEF Remove, news
<1>9. ASSUME ChangePassword PROVE Told'
  BY <1>9 DEF ChangePassword, news
<1>10. ASSUME NEW devices \in effects, Close(devices) PROVE Told'
  BY <1>10 DEF Close, news
<1>11. ASSUME Beat \/ RecheckRead \/ RecheckFails PROVE Told'
  BY <1>11 DEF Beat, RecheckRead, RecheckFails, news
<1>12. ASSUME RecheckApply PROVE Told'
  BY <1>12 DEF RecheckApply, news
<1>13. ASSUME Restart PROVE Told'
  BY <1>13 DEF Restart
<1>14. ASSUME UNCHANGED vars PROVE Told'
  BY <1>14 DEF vars
<1>. QED
  BY <1>1, <1>2, <1>3, <1>4, <1>5, <1>6, <1>7, <1>8, <1>9, <1>10, <1>11, <1>12, <1>13, <1>14
     DEF Next

\* No device with a stream misses a write, however the writes of the others merge with its own.
THEOREM NewsArrives == Spec => []NobodyMissesNews
<1>1. Told => NobodyMissesNews
  BY DEF Told, NobodyMissesNews
<1>. QED
  BY <1>1, Types, ToldInit, ToldStep, PTL DEF Spec

-----------------------------------------------------------------------------
(***************************************************************************)
(* The heartbeat and its recheck.                                          *)
(***************************************************************************)

\* The loop goes on as long as there is a stream.
THEOREM LoopGoesOn == Spec => []HeartbeatRuns
<1>1. Init => HeartbeatRuns
  BY DEF Init, HeartbeatRuns
<1>2. TypeInv /\ HeartbeatRuns /\ [Next]_vars => HeartbeatRuns'
  <2>. SUFFICES ASSUME TypeInv, HeartbeatRuns, [Next]_vars PROVE HeartbeatRuns'
    OBVIOUS
  <2>1. CASE \E r \in admitted : Open(r)
    BY <2>1 DEF Open, HeartbeatRuns
  <2>2. CASE Beat
    BY <2>2 DEF Beat, HeartbeatRuns
  <2>3. CASE Restart
    BY <2>3 DEF Restart, HeartbeatRuns
  <2>4. CASE ~(\E r \in admitted : Open(r)) /\ ~Beat /\ ~Restart
    <3>1. streams' \subseteq streams
      BY <2>4, OpenOrFewer
    <3>2. timer' = timer
      BY <2>4 DEF Next, vars, beats, Admit, Leave, Commit, Publish, ReadPage, Flush, Remove,
                  ChangePassword, Close, RecheckRead, RecheckApply, RecheckFails
    <3>. QED
      BY <3>1, <3>2 DEF HeartbeatRuns
  <2>. QED
    BY <2>1, <2>2, <2>3, <2>4
<1>. QED
  BY <1>1, <1>2, Types, PTL DEF Spec

\* Nothing in sight was signed for a later version than the user's, and what a recheck found
\* stale stays so: a removed device does not come back, and the version only grows.
StaleForGood ==
  /\ \A s \in streams : s.version <= version
  /\ \A r \in admitted : r.version <= version
  /\ recheck.phase = "listed" => \A s \in recheck.streams : s.version <= version
  /\ recheck.phase = "planned" =>
       recheck.gone \cap present = {} /\ \A s \in recheck.outdated : s.version < version

LEMMA StaleStep == TypeInv /\ StaleForGood /\ [Next]_vars => StaleForGood'
<1>. SUFFICES ASSUME TypeInv, StaleForGood, [Next]_vars PROVE StaleForGood'
  OBVIOUS
<1>. USE DEF StaleForGood
<1>0. version \in Int
  BY BoundsAssumption DEF TypeInv, TypeOK, Version
<1>1. ASSUME NEW d \in Device, Admit(d) PROVE StaleForGood'
  BY <1>0, <1>1 DEF Admit, rows, beats
<1>2. ASSUME NEW r \in admitted, Open(r) PROVE StaleForGood'
  BY <1>2 DEF Open, rows
<1>3. ASSUME NEW s \in streams, Leave(s) PROVE StaleForGood'
  BY <1>3 DEF Leave, rows, beats
<1>4. ASSUME NEW d \in Device, Commit(d) \/ ReadPage(d) PROVE StaleForGood'
  BY <1>4 DEF Commit, ReadPage, rows, beats
<1>5. ASSUME NEW d \in Device, Publish(d) PROVE StaleForGood'
  BY <1>5, OpenOrFewer DEF Publish, Deliver, rows, beats
<1>6. ASSUME Flush PROVE StaleForGood'
  BY <1>6 DEF Flush, Deliver, rows, beats
<1>7. ASSUME NEW d \in Device, Remove(d) PROVE StaleForGood'
  BY <1>7 DEF Remove, beats
<1>8. ASSUME ChangePassword PROVE StaleForGood'
  <2>1. version' = version + 1 /\ UNCHANGED <<present, admitted, streams, recheck>>
    BY <1>8 DEF ChangePassword, beats
  <2>2. /\ \A s \in streams : s.version \in Int
        /\ \A r \in admitted : r.version \in Int
        /\ recheck.phase = "listed" => \A s \in recheck.streams : s.version \in Int
        /\ recheck.phase = "planned" => \A s \in recheck.outdated : s.version \in Int
    BY BoundsAssumption DEF TypeInv, TypeOK, Stream, Version, Idle
  <2>. QED
    BY <1>0, <2>1, <2>2
<1>9. ASSUME NEW devices \in effects, Close(devices) PROVE StaleForGood'
  BY <1>9 DEF Close, rows, beats
<1>10. ASSUME Beat PROVE StaleForGood'
  BY <1>10 DEF Beat, Listed, rows
<1>11. ASSUME RecheckRead PROVE StaleForGood'
  <2>1. recheck \in [phase : {"listed"}, streams : SUBSET Stream]
    BY <1>11 DEF RecheckRead, TypeInv, TypeOK, Idle
  <2>2. \A s \in recheck.streams : s.version \in Int
    BY <2>1, BoundsAssumption DEF Stream, Version
  <2>3. recheck.phase = "listed"
    BY <1>11 DEF RecheckRead
  <2>4. Gone \cap present = {} /\ \A s \in Outdated : s.version < version
    BY <1>0, <2>2, <2>3 DEF Gone, Outdated
  <2>. QED
    BY <1>11, <2>4 DEF RecheckRead, rows
<1>12. ASSUME RecheckApply PROVE StaleForGood'
  BY <1>12 DEF RecheckApply, Idle, rows
<1>13. ASSUME RecheckFails PROVE StaleForGood'
  BY <1>13 DEF RecheckFails, Idle, rows
<1>14. ASSUME Restart PROVE StaleForGood'
  BY <1>14 DEF Restart, Idle, rows
<1>15. ASSUME UNCHANGED vars PROVE StaleForGood'
  BY <1>15 DEF vars
<1>. QED
  BY <1>1, <1>2, <1>3, <1>4, <1>5, <1>6, <1>7, <1>8, <1>9, <1>10, <1>11, <1>12, <1>13, <1>14,
     <1>15 DEF Next

\* A recheck closes no stream that is good at that moment, although it acts on rows it read
\* before.
THEOREM GoodStreamsStay == Spec => RecheckSparesGood
<1>1. Init => StaleForGood
  BY DEF Init, StaleForGood, Idle
<1>2. TypeInv /\ StaleForGood /\ [Next]_vars =>
        (recheck.phase = "planned" /\ recheck'.phase = "idle" /\ streams' # {} =>
           \A s \in streams \ streams' : Stale(s))
  <2>. SUFFICES ASSUME TypeInv, StaleForGood, [Next]_vars,
                       recheck.phase = "planned", recheck'.phase = "idle", streams' # {},
                       NEW s \in streams \ streams'
                PROVE  Stale(s)
    OBVIOUS
  <2>1. recheck' # recheck
    OBVIOUS
  <2>2. RecheckApply
    BY <2>1 DEF Next, vars, beats, Admit, Open, Leave, Commit, Publish, ReadPage, Flush, Remove,
                ChangePassword, Close, Beat, Idle, RecheckRead, RecheckFails, Restart
  <2>3. s.dev \in recheck.gone \/ s \in recheck.outdated
    BY <2>2 DEF RecheckApply
  <2>4. version \in Int /\ s.version \in Int
    BY BoundsAssumption DEF TypeInv, TypeOK, Stream, Version
  <2>. QED
    BY <2>3, <2>4 DEF StaleForGood, Stale
<1>. QED
  BY <1>1, <1>2, StaleStep, Types, PTL DEF Spec, RecheckSparesGood

-----------------------------------------------------------------------------
(***************************************************************************)
(* The lyrics: the inductive invariant.                                    *)
(***************************************************************************)

\* The counter of the user, over the rows `rows`.
Top(table) ==
  LET revs == {table[v].rev : v \in Video}
  IN CHOOSE highest \in revs \cup {0} : \A rev \in revs : rev <= highest

\* A video without a version has no text, and no two versions have the same rev.
Numbered(table) ==
  /\ \A v \in Video : table[v].rev = 0 => table[v] = None
  /\ \A v, w \in Video : v # w /\ table[v].rev # 0 => table[v].rev # table[w].rev

\* A device that holds `view` shows every version up to `rev`.
Seen(table, shown, rev) ==
  \A v \in Video : table[v].rev # 0 /\ table[v].rev <= rev => shown[v].text = table[v].text

\* What a device holds once it has taken over an answer of changes, or of its own PUT.
Taken(held, from, got) ==
  [v \in Video |-> IF got[v].rev # 0 THEN got[v]
                   ELSE IF Replaces /\ from = 0 THEN None ELSE held[v]]
Kept(held, video, given) == [held EXCEPT ![video] = given]

Putting == {d \in Follower : req[d].phase = "put"}

\* Every write under way has its place below the bound.
Counted ==
  /\ IsFiniteSet(stray)
  /\ MaxUserRev + Cardinality(Putting) + Cardinality(stray) <= MaxRev

\* No device and no answer is ahead of the counter.
Behind ==
  \A d \in Follower :
    /\ after[d] <= MaxUserRev
    /\ req[d].phase = "changes" => req[d].rev <= MaxUserRev

\* Every device shows what it has reached, and still does once it takes over its answer.
AllShown ==
  \A d \in Follower :
    /\ Seen(lyrics, copy[d], after[d])
    /\ req[d].phase = "changes" => Seen(lyrics, Taken(copy[d], after[d], req[d].got), req[d].rev)
    /\ req[d].phase = "stored" => Seen(lyrics, Kept(copy[d], req[d].video, req[d].row), after[d])

Stable == LyricsTypeOK /\ Counted /\ Numbered(lyrics) /\ Behind

LyricsInv == Stable /\ (Replaces => AllShown)

-----------------------------------------------------------------------------
(***************************************************************************)
(* Least and greatest.                                                     *)
(***************************************************************************)

\* A set of numbers has a least one.
LEMMA LeastExists ==
  ASSUME NEW S, S \subseteq Nat, S # {}
  PROVE  \E n \in S : \A m \in S : n <= m
<1>1. \E n \in S : \A m \in S : ~(<<m, n>> \in OpToRel(<, Nat))
  BY NatLessThanWellFounded, WFMin
<1>2. PICK n \in S : \A m \in S : ~(<<m, n>> \in OpToRel(<, Nat))
  BY <1>1
<1>3. \A m \in S : ~(m < n)
  BY <1>2 DEF OpToRel
<1> QED
  BY <1>3, SMT

\* A bounded set of numbers has a greatest one.
LEMMA GreatestExists ==
  ASSUME NEW S, S \subseteq Nat, S # {}, NEW b \in Nat, \A s \in S : s <= b
  PROVE  \E s \in S : \A r \in S : r <= s
<1> DEFINE Bounds == {n \in Nat : \A s \in S : s <= n}
<1>1. Bounds \subseteq Nat /\ b \in Bounds
  OBVIOUS
<1>2. PICK n \in Bounds : \A m \in Bounds : n <= m
  BY <1>1, LeastExists
<1>3. n \in Nat /\ \A s \in S : s <= n
  BY <1>2
<1>4. n \in S
  <2>1. SUFFICES ASSUME n \notin S PROVE FALSE
    OBVIOUS
  <2>2. n > 0 /\ n - 1 \in Nat /\ \A s \in S : s <= n - 1
    <3>1. PICK s \in S : TRUE
      OBVIOUS
    <3>2. \A r \in S : r \in Nat /\ r < n
      BY <1>3, <2>1
    <3>3. n > 0 /\ n - 1 \in Nat
      BY <1>3, <3>1, <3>2
    <3> QED
      BY <1>3, <3>2, <3>3
  <2>3. n - 1 \in Bounds
    BY <2>2
  <2> QED
    BY <1>2, <1>3, <2>3
<1> QED
  BY <1>3, <1>4

\* A finite set whose elements have different numbers has a page of every size.
LEMMA PageExists ==
  ASSUME NEW S, IsFiniteSet(S), NEW f, \A v \in S : f[v] \in Nat,
         \A v, u \in S : v # u => f[v] # f[u],
         NEW n \in Nat, n <= Cardinality(S)
  PROVE  \E page \in SUBSET S :
           Cardinality(page) = n /\ \A v \in page, u \in S \ page : f[v] < f[u]
<1> DEFINE Is(page, k) == Cardinality(page) = k /\ \A v \in page, u \in S \ page : f[v] < f[u]
           Bad == {k \in Nat : k <= Cardinality(S) /\ ~\E page \in SUBSET S : Is(page, k)}
<1>1. SUFFICES ASSUME Bad # {} PROVE FALSE
  OBVIOUS
<1>2. PICK k \in Bad : \A m \in Bad : k <= m
  <2>1. Bad \subseteq Nat
    OBVIOUS
  <2> QED
    BY <1>1, <2>1, LeastExists
<1>3. Cardinality(S) \in Nat
  BY FS_CardinalityType
<1>4. k # 0
  <2>1. Is({}, 0)
    BY FS_EmptySet
  <2> QED
    BY <1>2, <2>1
<1>5. PICK page \in SUBSET S : Is(page, k - 1)
  <2>1. k - 1 \in Nat /\ k - 1 <= Cardinality(S) /\ k - 1 \notin Bad
    BY <1>2, <1>3, <1>4
  <2> QED
    BY <2>1
<1>6. IsFiniteSet(page) /\ S \ page # {}
  <2>1. IsFiniteSet(page)
    BY FS_Subset
  <2>2. page # S
    BY <1>2, <1>3, <1>5
  <2> QED
    BY <2>1, <2>2
<1>7. PICK w \in S \ page : \A u \in S \ page : f[w] <= f[u]
  <2> DEFINE Numbers == {f[u] : u \in S \ page}
  <2>1. Numbers \subseteq Nat /\ Numbers # {}
    BY <1>6
  <2>2. PICK m \in Numbers : \A x \in Numbers : m <= x
    BY <2>1, LeastExists
  <2> QED
    BY <2>2
<1>8. Is(page \cup {w}, k)
  <2>1. Cardinality(page \cup {w}) = k
    <3>1. Cardinality(page \cup {w}) = Cardinality(page) + 1
      BY <1>6, <1>7, FS_AddElement
    <3>2. Cardinality(page) = k - 1 /\ k \in Nat
      BY <1>2, <1>5
    <3> QED
      BY <3>1, <3>2
  <2>2. ASSUME NEW v \in page \cup {w}, NEW u \in S \ (page \cup {w}) PROVE f[v] < f[u]
    <3>1. CASE v \in page
      BY <1>5, <3>1
    <3>2. CASE v = w
      BY <1>7, <3>2
    <3> QED
      BY <3>1, <3>2
  <2> QED
    BY <2>1, <2>2
<1> QED
  BY <1>2, <1>8

-----------------------------------------------------------------------------
(***************************************************************************)
(* The counter and the pages.                                              *)
(***************************************************************************)

\* The counter is the largest rev there is, and 0 without versions.
LEMMA TopFacts ==
  ASSUME NEW table, \A v \in Video : table[v].rev \in Nat,
         NEW b \in Nat, \A v \in Video : table[v].rev <= b
  PROVE  /\ Top(table) \in Nat
         /\ Top(table) <= b
         /\ \A v \in Video : table[v].rev <= Top(table)
<1> DEFINE revs == {table[v].rev : v \in Video}
<1>1. revs \cup {0} \subseteq Nat /\ \A r \in revs \cup {0} : r <= b
  OBVIOUS
<1>2. \E highest \in revs \cup {0} : \A rev \in revs \cup {0} : rev <= highest
  <2> HIDE DEF revs
  <2>1. revs \cup {0} # {}
    OBVIOUS
  <2> QED
    BY <1>1, <2>1, GreatestExists
<1>3. Top(table) = CHOOSE highest \in revs \cup {0} : \A rev \in revs : rev <= highest
  BY DEF Top
<1>4. Top(table) \in revs \cup {0} /\ \A rev \in revs : rev <= Top(table)
  <2> HIDE DEF revs
  <2> QED
    BY <1>2, <1>3
<1> QED
  BY <1>1, <1>4

\* What TypeOK says of the rows.
LEMMA RowFacts ==
  ASSUME LyricsTypeOK
  PROVE  /\ \A v \in Video :
              /\ lyrics[v] \in LyricsRow /\ lyrics[v].rev \in Nat /\ lyrics[v].rev <= MaxRev
              /\ lyrics[v].text \in Text \cup {NoText}
         /\ MaxUserRev = Top(lyrics)
         /\ MaxUserRev \in Nat /\ MaxUserRev <= MaxRev
         /\ \A v \in Video : lyrics[v].rev <= MaxUserRev
<1>1. \A v \in Video :
         /\ lyrics[v] \in LyricsRow /\ lyrics[v].rev \in Nat /\ lyrics[v].rev <= MaxRev
         /\ lyrics[v].text \in Text \cup {NoText}
  BY BoundAssumption DEF LyricsTypeOK, LyricsRow
<1>2. MaxUserRev = Top(lyrics)
  BY DEF MaxUserRev, Top
<1> QED
  BY <1>1, <1>2, TopFacts, BoundAssumption

\* What FirstOf chooses.
LEMMA FirstOfFacts ==
  ASSUME LyricsTypeOK, Numbered(lyrics), NEW videos \in SUBSET Stored, NEW n \in Nat
  PROVE  /\ FirstOf(videos, n) \subseteq videos
         /\ \A v \in FirstOf(videos, n), u \in videos \ FirstOf(videos, n) :
              lyrics[v].rev < lyrics[u].rev
         /\ Cardinality(videos) <= n => FirstOf(videos, n) = videos
         /\ Cardinality(videos) \in Nat
<1> DEFINE f == [v \in Video |-> lyrics[v].rev]
           m == IF Cardinality(videos) < n THEN Cardinality(videos) ELSE n
<1>1. IsFiniteSet(videos) /\ Cardinality(videos) \in Nat /\ videos \subseteq Video
  BY FS_Subset, FS_CardinalityType, FiniteAssumption DEF Stored
<1>2. \A v \in videos : f[v] \in Nat
  BY <1>1, RowFacts
<1>3. \A v, u \in videos : v # u => f[v] # f[u]
  BY <1>1 DEF Numbered, Stored
<1>4. m \in Nat /\ m <= Cardinality(videos)
  BY <1>1
<1>5. \E page \in SUBSET videos :
         Cardinality(page) = m /\ \A v \in page, u \in videos \ page : f[v] < f[u]
  <2> HIDE DEF f, m
  <2> QED
    BY <1>1, <1>2, <1>3, <1>4, PageExists
<1>6. \E page \in SUBSET videos :
         Cardinality(page) = m /\ \A v \in page, u \in videos \ page : lyrics[v].rev < lyrics[u].rev
  <2>1. \A v \in videos : f[v] = lyrics[v].rev
    BY <1>1
  <2> HIDE DEF f, m
  <2> QED
    BY <1>5, <2>1
<1>7. /\ FirstOf(videos, n) \in SUBSET videos
      /\ Cardinality(FirstOf(videos, n)) = m
      /\ \A v \in FirstOf(videos, n), u \in videos \ FirstOf(videos, n) :
           lyrics[v].rev < lyrics[u].rev
  BY <1>6 DEF FirstOf
<1>8. Cardinality(videos) <= n => FirstOf(videos, n) = videos
  BY <1>1, <1>7, FS_Subset
<1> QED
  BY <1>1, <1>7, <1>8

\* The rev of a page is the largest in it.
LEMMA LastRevFacts ==
  ASSUME LyricsTypeOK, NEW page \in SUBSET Video, NEW from \in Nat, from <= MaxUserRev
  PROVE  /\ LastRev(page, from) \in Nat /\ LastRev(page, from) <= MaxUserRev
         /\ page = {} => LastRev(page, from) = from
         /\ page # {} => \E v \in page : LastRev(page, from) = lyrics[v].rev
         /\ \A u \in page : lyrics[u].rev <= LastRev(page, from)
<1>1. CASE page = {}
  BY <1>1, RowFacts DEF LastRev
<1>2. CASE page # {}
  <2> DEFINE Numbers == {lyrics[u].rev : u \in page}
  <2>1. Numbers \subseteq Nat /\ Numbers # {} /\ \A r \in Numbers : r <= MaxUserRev
    BY <1>2, RowFacts
  <2>2. MaxUserRev \in Nat
    BY RowFacts
  <2>3. \E s \in Numbers : \A r \in Numbers : r <= s
    <3> HIDE DEF Numbers
    <3> QED
      BY <2>1, <2>2, GreatestExists
  <2>4. \E v \in page : \A u \in page : lyrics[u].rev <= lyrics[v].rev
    BY <2>3
  <2>5. PICK last : last = CHOOSE v \in page : \A u \in page : lyrics[u].rev <= lyrics[v].rev
    OBVIOUS
  <2>6. last \in page /\ \A u \in page : lyrics[u].rev <= lyrics[last].rev
    BY <2>4, <2>5
  <2>7. LastRev(page, from) = lyrics[last].rev
    BY <1>2, <2>5 DEF LastRev
  <2> QED
    BY <1>2, <2>6, <2>7, RowFacts
<1> QED
  BY <1>1, <1>2

\* What an answer of changes is: its page holds the least revs of what changed after `from`, all of them if there are
\* no more, and its rev is that of its last version, except that a first load without more moves to the counter.
IsPage(from, limit, page, more, rev) ==
  /\ Page(from, limit) = Answered(page, rev, more)
  /\ rev <= MaxUserRev
  /\ ~more => page = ChangesAfter(from)
  /\ \A v \in page, u \in ChangesAfter(from) \ page : lyrics[v].rev < lyrics[u].rev
  /\ more \/ from # 0 => /\ page = {} => rev = from
                         /\ page # {} => \E v \in page : rev = lyrics[v].rev

\* What an answer of changes is made of.
LEMMA PageFacts ==
  ASSUME LyricsTypeOK, Numbered(lyrics), NEW from \in Nat, from <= MaxUserRev, NEW limit \in Nat
  PROVE  \E page \in SUBSET ChangesAfter(from), more \in BOOLEAN, rev \in Nat : IsPage(from, limit, page, more, rev)
<1> DEFINE page == FirstOf(ChangesAfter(from), limit)
           more == Cardinality(ChangesAfter(from)) > limit
           last == LastRev(page, from)
           rev == IF from = 0 /\ ~more THEN Larger(last, MaxUserRev) ELSE last
<1>1. ChangesAfter(from) \subseteq Stored /\ ChangesAfter(from) \subseteq Video
  BY DEF ChangesAfter, Stored
<1>2. /\ page \subseteq ChangesAfter(from)
      /\ \A v \in page, u \in ChangesAfter(from) \ page : lyrics[v].rev < lyrics[u].rev
      /\ Cardinality(ChangesAfter(from)) <= limit => page = ChangesAfter(from)
      /\ Cardinality(ChangesAfter(from)) \in Nat
  BY <1>1, FirstOfFacts
<1>3. page \subseteq Video
  BY <1>1, <1>2
<1>4. /\ last \in Nat /\ last <= MaxUserRev
      /\ page = {} => last = from
      /\ page # {} => \E v \in page : last = lyrics[v].rev
  <2> HIDE DEF page
  <2> QED
    BY <1>3, LastRevFacts
<1>5. Page(from, limit) = Answered(page, rev, more)
  BY DEF Page
<1>6. rev \in Nat /\ rev <= MaxUserRev
  BY <1>4, RowFacts DEF Larger
<1>7. more \in BOOLEAN
  OBVIOUS
<1>8. ~more => page = ChangesAfter(from)
  BY <1>2
<1>9. more \/ from # 0 => rev = last
  OBVIOUS
<1> HIDE DEF page, more, last, rev
<1> QED
  <2>1. IsPage(from, limit, page, more, rev)
    BY <1>2, <1>4, <1>5, <1>6, <1>8, <1>9 DEF IsPage
  <2> QED
    BY <1>2, <1>6, <1>7, <2>1

\* An answer of changes has the type of one.
LEMMA PageTyped ==
  ASSUME LyricsTypeOK, Numbered(lyrics), NEW from \in Nat, from <= MaxUserRev, NEW limit \in Nat
  PROVE  /\ Page(from, limit) \in [phase : {"changes"}, got : [Video -> LyricsRow], rev : 0 .. MaxRev, more : BOOLEAN]
         /\ Page(from, limit).rev <= MaxUserRev
<1>1. PICK page \in SUBSET ChangesAfter(from), more \in BOOLEAN, rev \in Nat : IsPage(from, limit, page, more, rev)
  BY PageFacts
<1>2. [v \in Video |-> IF v \in page THEN lyrics[v] ELSE None] \in [Video -> LyricsRow]
  BY RowFacts, BoundAssumption DEF None, LyricsRow
<1>3. rev \in 0 .. MaxRev
  BY <1>1, RowFacts, BoundAssumption DEF IsPage
<1> QED
  BY <1>1, <1>2, <1>3 DEF IsPage, Answered

\* A device that shows what it has reached and takes over an answer to it shows what it reaches then.
LEMMA PageShows ==
  ASSUME LyricsTypeOK, Numbered(lyrics), Replaces, NEW from \in Nat, from <= MaxUserRev, NEW limit \in Nat,
         NEW held, Seen(lyrics, held, from)
  PROVE  Seen(lyrics, Taken(held, from, Page(from, limit).got), Page(from, limit).rev)
<1>1. PICK page \in SUBSET ChangesAfter(from), more \in BOOLEAN, rev \in Nat : IsPage(from, limit, page, more, rev)
  BY PageFacts
<1>2. PICK got : got = [v \in Video |-> IF v \in page THEN lyrics[v] ELSE None]
  OBVIOUS
<1>3. Page(from, limit).got = got /\ Page(from, limit).rev = rev
  BY <1>1, <1>2 DEF IsPage, Answered
<1>4. SUFFICES ASSUME NEW v \in Video, lyrics[v].rev # 0, lyrics[v].rev <= rev
               PROVE  Taken(held, from, got)[v].text = lyrics[v].text
  BY <1>3 DEF Seen
<1>5. /\ lyrics[v].rev \in Nat
      /\ Taken(held, from, got)[v] = IF got[v].rev # 0 THEN got[v]
                                     ELSE IF Replaces /\ from = 0 THEN None ELSE held[v]
  BY RowFacts DEF Taken
<1>6. CASE v \in page
  BY <1>2, <1>4, <1>5, <1>6
<1>7. CASE v \notin page
  <2>1. got[v].rev = 0
    BY <1>2, <1>7 DEF None
  <2>2. CASE v \in ChangesAfter(from)
    \* The page ends before v, and so does its rev.
    <3>1. more /\ \A u \in page : lyrics[u].rev < lyrics[v].rev
      BY <1>1, <1>7, <2>2 DEF IsPage
    <3>2. lyrics[v].rev > from
      BY <2>2 DEF ChangesAfter
    <3>3. rev < lyrics[v].rev
      BY <1>1, <3>1, <3>2 DEF IsPage
    <3> QED
      BY <1>4, <1>5, <3>3
  <2>3. CASE v \notin ChangesAfter(from) /\ from = 0
    \* A tombstone the first load skips, and with it what the device held.
    <3>1. lyrics[v].text = NoText
      BY <1>4, <1>5, <2>3 DEF ChangesAfter, Stored
    <3> QED
      BY <1>5, <2>1, <2>3, <3>1 DEF None
  <2>4. CASE v \notin ChangesAfter(from) /\ from # 0
    <3>1. lyrics[v].rev <= from
      BY <1>4, <1>5, <2>4 DEF ChangesAfter, Stored
    <3> QED
      BY <1>4, <1>5, <2>1, <2>4, <3>1 DEF Seen
  <2> QED
    BY <2>2, <2>3, <2>4
<1> QED
  BY <1>6, <1>7

-----------------------------------------------------------------------------
(***************************************************************************)
(* A write.                                                                *)
(***************************************************************************)

\* A write of the text there is changes nothing; any other gives its version the next rev.
LEMMA WriteFacts ==
  ASSUME LyricsTypeOK, Numbered(lyrics), NEW d \in Follower, NEW v \in Video, NEW text \in Text \cup {NoText},
         MaxUserRev < MaxRev, Write(d, v, text)
  PROVE  /\ lyrics' \in [Video -> LyricsRow]
         /\ unpublished' \subseteq Follower
         /\ Numbered(lyrics')
         /\ MaxUserRev' \in Nat /\ MaxUserRev <= MaxUserRev' /\ MaxUserRev' <= MaxUserRev + 1
         /\ lyrics'[v].text = text
         /\ \A u \in Video : lyrics'[u] = lyrics[u] \/ lyrics'[u].rev > MaxUserRev
<1>0. MaxUserRev' = Top(lyrics')
  BY DEF MaxUserRev, Top
<1>1. lyrics \in [Video -> LyricsRow] /\ MaxUserRev = Top(lyrics) /\ MaxUserRev \in Nat
  BY RowFacts DEF LyricsTypeOK
<1>2. CASE Unchanged(v, text)
  <2>1. lyrics' = lyrics /\ unpublished' = unpublished
    BY <1>2 DEF Write
  <2> QED
    BY <1>0, <1>1, <1>2, <2>1 DEF Unchanged, LyricsTypeOK
<1>3. CASE ~Unchanged(v, text)
  <2>1. PICK written : written = [rev |-> MaxUserRev + 1, text |-> text]
    OBVIOUS
  <2>2. lyrics' = [lyrics EXCEPT ![v] = written] /\ unpublished' = unpublished \cup {d}
    BY <1>3, <2>1 DEF Write, Upserted
  <2>3. written \in LyricsRow /\ written.rev = MaxUserRev + 1 /\ written.text = text
    BY <1>1, <2>1, BoundAssumption DEF LyricsRow
  <2>4. lyrics' \in [Video -> LyricsRow] /\ unpublished' \subseteq Follower
    BY <1>1, <2>2, <2>3 DEF LyricsTypeOK
  <2>5. lyrics'[v] = written /\ \A u \in Video : u # v => lyrics'[u] = lyrics[u]
    BY <1>1, <2>2
  <2>6. \A u \in Video : lyrics[u].rev \in Nat /\ lyrics[u].rev <= MaxUserRev
    BY RowFacts
  <2>7. \A u \in Video : lyrics'[u].rev \in Nat /\ lyrics'[u].rev <= MaxUserRev + 1
    BY <1>1, <2>3, <2>5, <2>6
  <2>8. /\ Top(lyrics') \in Nat /\ Top(lyrics') <= MaxUserRev + 1
        /\ \A u \in Video : lyrics'[u].rev <= Top(lyrics')
    <3>1. PICK b : b = MaxUserRev + 1
      OBVIOUS
    <3>2. PICK table : table = lyrics'
      OBVIOUS
    <3>3. b \in Nat /\ \A u \in Video : table[u].rev \in Nat /\ table[u].rev <= b
      BY <1>1, <2>7, <3>1, <3>2
    <3>4. Top(table) \in Nat /\ Top(table) <= b /\ \A u \in Video : table[u].rev <= Top(table)
      BY <3>3, TopFacts
    <3> QED
      BY <3>1, <3>2, <3>4
  <2>9. MaxUserRev' \in Nat /\ MaxUserRev' = MaxUserRev + 1
    BY <1>0, <1>1, <2>3, <2>5, <2>8
  <2>10. Numbered(lyrics')
    BY <1>1, <2>3, <2>5, <2>6 DEF Numbered
  <2> QED
    BY <1>1, <2>3, <2>4, <2>5, <2>9, <2>10
<1> QED
  BY <1>2, <1>3

\* A write takes nothing from a device that has not passed the counter.
LEMMA SeenStays ==
  ASSUME NEW table, NEW new, NEW highest \in Nat, NEW rev \in Nat, rev <= highest,
         \A u \in Video : new[u].rev \in Nat,
         \A u \in Video : new[u] = table[u] \/ new[u].rev > highest
  PROVE  \A shown : Seen(table, shown, rev) => Seen(new, shown, rev)
BY DEF Seen

-----------------------------------------------------------------------------
(***************************************************************************)
(* The requests.                                                           *)
(***************************************************************************)

\* What TypeOK says of a request.
LEMMA RequestFacts ==
  ASSUME LyricsTypeOK, NEW d \in Follower
  PROVE  /\ req[d] \in LyricsRequest
         /\ req[d].phase = "put" => req[d].video \in Video /\ req[d].text \in Text \cup {NoText}
         /\ req[d].phase = "stored" => req[d].video \in Video /\ req[d].row \in LyricsRow
         /\ req[d].phase = "ask" => req[d].limit \in 1 .. MaxLimit
         /\ req[d].phase = "changes" =>
              req[d].got \in [Video -> LyricsRow] /\ req[d].rev \in 0 .. MaxRev /\ req[d].more \in BOOLEAN
         /\ after[d] \in Nat /\ after[d] <= MaxRev
         /\ copy[d] \in [Video -> LyricsRow] /\ want[d] \in BOOLEAN
<1>1. /\ req[d] \in LyricsRequest /\ after[d] \in 0 .. MaxRev
      /\ copy[d] \in [Video -> LyricsRow] /\ want[d] \in BOOLEAN
  BY DEF LyricsTypeOK
<1>2. CASE req[d] = NoRequest
  BY <1>1, <1>2, BoundAssumption DEF NoRequest
<1>3. CASE req[d] \in {PutRequest(v, text) : v \in Video, text \in Text \cup {NoText}}
  BY <1>1, <1>3, BoundAssumption DEF PutRequest
<1>4. CASE req[d] \in [phase : {"stored"}, video : Video, row : LyricsRow]
  BY <1>1, <1>4, BoundAssumption
<1>5. CASE req[d] \in [phase : {"ask"}, limit : 1 .. MaxLimit]
  BY <1>1, <1>5, BoundAssumption
<1>6. CASE req[d] \in [phase : {"changes"}, got : [Video -> LyricsRow], rev : 0 .. MaxRev, more : BOOLEAN]
  BY <1>1, <1>6, BoundAssumption
<1> QED
  BY <1>1, <1>2, <1>3, <1>4, <1>5, <1>6 DEF LyricsRequest

\* A device's next request, and how many writes are under way then.
LEMMA NextRequest ==
  ASSUME LyricsTypeOK, NEW d \in Follower, NEW r \in LyricsRequest, req' = [req EXCEPT ![d] = r]
  PROVE  /\ req' \in [Follower -> LyricsRequest]
         /\ req'[d] = r
         /\ \A c \in Follower : c # d => req'[c] = req[c]
         /\ Cardinality(Putting) \in Nat
         /\ r.phase = "put" /\ req[d].phase # "put" => Cardinality(Putting') = Cardinality(Putting) + 1
         /\ r.phase # "put" /\ req[d].phase = "put" => Cardinality(Putting') = Cardinality(Putting) - 1
         /\ r.phase # "put" /\ req[d].phase # "put" => Cardinality(Putting') = Cardinality(Putting)
<1>1. /\ req \in [Follower -> LyricsRequest] /\ req' \in [Follower -> LyricsRequest]
      /\ req'[d] = r /\ \A c \in Follower : c # d => req'[c] = req[c]
  BY DEF LyricsTypeOK
<1>2. IsFiniteSet(Putting) /\ Cardinality(Putting) \in Nat
  BY FiniteAssumption, FS_Subset, FS_CardinalityType DEF Putting
<1>3. /\ IsFiniteSet(Putting \ {d})
      /\ Cardinality(Putting \ {d}) = Cardinality(Putting) - (IF req[d].phase = "put" THEN 1 ELSE 0)
  <2>1. d \in Putting <=> req[d].phase = "put"
    BY DEF Putting
  <2> QED
    BY <1>2, <2>1, FS_RemoveElement
<1>4. CASE r.phase = "put"
  <2>1. Putting' = (Putting \ {d}) \cup {d}
    BY <1>1, <1>4 DEF Putting
  <2>2. Cardinality((Putting \ {d}) \cup {d}) = Cardinality(Putting \ {d}) + 1
    BY <1>3, FS_AddElement
  <2>3. Cardinality(Putting') = Cardinality(Putting \ {d}) + 1
    BY <2>1, <2>2
  <2> QED
    BY <1>1, <1>2, <1>3, <1>4, <2>3
<1>5. CASE r.phase # "put"
  <2>1. Putting' = Putting \ {d}
    BY <1>1, <1>5 DEF Putting
  <2>2. Cardinality(Putting') = Cardinality(Putting \ {d})
    BY <2>1
  <2> QED
    BY <1>1, <1>2, <1>3, <1>5, <2>2
<1> QED
  BY <1>4, <1>5

\* Without a write the counter stands.
LEMMA CounterStands ==
  ASSUME UNCHANGED lyrics
  PROVE  MaxUserRev' = MaxUserRev
<1>1. MaxUserRev = Top(lyrics) /\ MaxUserRev' = Top(lyrics')
  BY DEF MaxUserRev, Top
<1> QED
  BY <1>1

-----------------------------------------------------------------------------
(***************************************************************************)
(* Types, the bound and the counter: one lemma per action.                 *)
(***************************************************************************)

LEMMA InitStable == LyricsInit => Stable
<1> SUFFICES ASSUME LyricsInit PROVE Stable
  OBVIOUS
<1>1. None \in LyricsRow /\ None.rev = 0 /\ 0 \in 0 .. MaxRev
  BY BoundAssumption DEF None, LyricsRow
<1>2. NoRequest \in LyricsRequest
  BY DEF LyricsRequest
<1>3. LyricsTypeOK
  BY <1>1, <1>2 DEF LyricsInit, LyricsTypeOK
<1>4. Numbered(lyrics)
  BY <1>1 DEF LyricsInit, Numbered
<1>5. MaxUserRev = 0
  <2>1. \A v \in Video : lyrics[v].rev = 0
    BY <1>1 DEF LyricsInit
  <2>2. PICK zero : zero = 0
    OBVIOUS
  <2>3. Top(lyrics) \in Nat /\ Top(lyrics) <= zero
    BY <2>1, <2>2, TopFacts
  <2> QED
    BY <1>3, <2>2, <2>3, RowFacts
<1>6. Counted
  <2>1. Putting = {}
    BY DEF LyricsInit, Putting, NoRequest
  <2> QED
    BY <1>5, <2>1, FS_EmptySet, BoundAssumption DEF LyricsInit, Counted
<1>7. Behind
  BY <1>5 DEF LyricsInit, Behind, NoRequest
<1> QED
  BY <1>3, <1>4, <1>6, <1>7 DEF Stable

LEMMA CountedFacts ==
  ASSUME Stable
  PROVE  /\ IsFiniteSet(stray) /\ Cardinality(stray) \in Nat
         /\ IsFiniteSet(Putting) /\ Cardinality(Putting) \in Nat
         /\ MaxUserRev \in Nat
         /\ MaxUserRev + Cardinality(Putting) + Cardinality(stray) <= MaxRev
         /\ \A d \in Follower : req[d].phase = "put" => Cardinality(Putting) > 0
<1>1. IsFiniteSet(stray) /\ IsFiniteSet(Putting)
  BY FiniteAssumption, FS_Subset DEF Stable, Counted, Putting
<1>2. Cardinality(stray) \in Nat /\ Cardinality(Putting) \in Nat
  BY <1>1, FS_CardinalityType
<1>3. ASSUME NEW d \in Follower, req[d].phase = "put" PROVE Cardinality(Putting) > 0
  <2>1. Putting # {}
    BY <1>3 DEF Putting
  <2>2. Cardinality(Putting) # 0
    BY <1>1, <2>1, FS_EmptySet
  <2> QED
    BY <1>2, <2>2
<1> QED
  BY <1>1, <1>2, <1>3, RowFacts DEF Stable, Counted

LEMMA EditStable ==
  ASSUME Stable, NEW d \in Follower, NEW v \in Video, NEW text \in Text \cup {NoText}, Edit(d, v, text)
  PROVE  Stable'
<1>1. LyricsTypeOK
  BY DEF Stable
<1>2. PICK r : r = PutRequest(v, text)
  OBVIOUS
<1>3. r \in LyricsRequest /\ r.phase = "put"
  BY <1>2 DEF LyricsRequest, PutRequest
<1>4. req' = [req EXCEPT ![d] = r] /\ req[d].phase = "idle"
  BY <1>2 DEF Edit
<1>5. /\ req' \in [Follower -> LyricsRequest] /\ req'[d] = r /\ \A c \in Follower : c # d => req'[c] = req[c]
      /\ Cardinality(Putting') = Cardinality(Putting) + 1
  <2>1. req[d].phase # "put"
    BY <1>4
  <2> QED
    BY <1>1, <1>3, <1>4, <2>1, NextRequest
<1>6. UNCHANGED <<lyrics, backup, unpublished, after, copy, want, stray, late>>
  BY DEF Edit
<1>7. MaxUserRev' = MaxUserRev
  BY <1>6, CounterStands
<1>8. LyricsTypeOK'
  BY <1>1, <1>5, <1>6 DEF LyricsTypeOK
<1>9. Counted'
  <2>1. MaxUserRev + Cardinality(Putting) + Cardinality(stray) < MaxRev
    BY DEF Edit, Putting
  <2> QED
    BY <1>5, <1>6, <1>7, <2>1, CountedFacts, BoundAssumption DEF Counted
<1>10. Behind'
  BY <1>3, <1>5, <1>6, <1>7 DEF Behind, Stable
<1> QED
  BY <1>6, <1>8, <1>9, <1>10 DEF Stable

LEMMA CommitStable ==
  ASSUME Stable, NEW d \in Follower, CommitVersion(d)
  PROVE  Stable'
<1>1. LyricsTypeOK /\ Numbered(lyrics) /\ Behind
  BY DEF Stable
<1>2. req[d].phase = "put" /\ req[d].video \in Video /\ req[d].text \in Text \cup {NoText}
  BY <1>1, RequestFacts DEF CommitVersion
<1>3. MaxUserRev < MaxRev
  BY <1>2, CountedFacts, BoundAssumption
<1>4. /\ lyrics' \in [Video -> LyricsRow] /\ unpublished' \subseteq Follower /\ Numbered(lyrics')
      /\ MaxUserRev' \in Nat /\ MaxUserRev <= MaxUserRev' /\ MaxUserRev' <= MaxUserRev + 1
  BY <1>1, <1>2, <1>3, WriteFacts DEF CommitVersion
<1>5. PICK given : given = IF req[d].text = NoText THEN [copy[d][req[d].video] EXCEPT !.text = NoText]
                       ELSE lyrics'[req[d].video]
  OBVIOUS
<1>6. given \in LyricsRow
  <2>1. copy[d][req[d].video] \in LyricsRow
    BY <1>1, <1>2, RequestFacts
  <2> QED
    BY <1>2, <1>4, <1>5, <2>1 DEF LyricsRow
<1>7. PICK r : r = [phase |-> "stored", video |-> req[d].video, row |-> given]
  OBVIOUS
<1>8. r \in LyricsRequest /\ r.phase = "stored"
  BY <1>2, <1>6, <1>7 DEF LyricsRequest
<1>9. req' = [req EXCEPT ![d] = r]
  BY <1>5, <1>7 DEF CommitVersion
<1>10. /\ req' \in [Follower -> LyricsRequest] /\ req'[d] = r /\ \A c \in Follower : c # d => req'[c] = req[c]
       /\ Cardinality(Putting') = Cardinality(Putting) - 1
  <2>1. r.phase # "put"
    BY <1>8
  <2> QED
    BY <1>1, <1>2, <1>8, <1>9, <2>1, NextRequest
<1>11. UNCHANGED <<backup, after, copy, want, stray, late>>
  BY DEF CommitVersion
<1>12. LyricsTypeOK'
  BY <1>1, <1>4, <1>10, <1>11 DEF LyricsTypeOK
<1>13. Counted'
  BY <1>4, <1>10, <1>11, CountedFacts, BoundAssumption DEF Counted
<1>14. Behind'
  <2>1. ASSUME NEW c \in Follower
        PROVE  after'[c] <= MaxUserRev' /\ (req'[c].phase = "changes" => req'[c].rev <= MaxUserRev')
    <3>1. after[c] \in Nat /\ after[c] <= MaxUserRev /\ MaxUserRev \in Nat
      BY <1>1, RequestFacts, RowFacts DEF Behind
    <3>2. req'[c].phase = "changes" => req'[c] = req[c]
      BY <1>8, <1>10
    <3>3. req[c].phase = "changes" => req[c].rev \in Nat /\ req[c].rev <= MaxUserRev
      BY <1>1, RequestFacts, BoundAssumption DEF Behind
    <3> QED
      BY <1>4, <1>11, <3>1, <3>2, <3>3
  <2> QED
    BY <2>1 DEF Behind
<1> QED
  BY <1>4, <1>12, <1>13, <1>14 DEF Stable

LEMMA StrayCommitStable ==
  ASSUME Stable, NEW s \in stray, StrayCommit(s)
  PROVE  Stable'
<1>1. LyricsTypeOK /\ Numbered(lyrics) /\ Behind
  BY DEF Stable
<1>2. s.dev \in Follower /\ s.video \in Video /\ s.text \in Text \cup {NoText}
  BY <1>1 DEF LyricsTypeOK
<1>3. /\ IsFiniteSet(stray \ {s})
      /\ Cardinality(stray \ {s}) = Cardinality(stray) - 1
      /\ Cardinality(stray \ {s}) \in Nat
  BY CountedFacts, FS_RemoveElement, FS_CardinalityType
<1>4. stray' = stray \ {s}
  BY DEF StrayCommit
<1>5. MaxUserRev < MaxRev
  BY <1>3, CountedFacts, BoundAssumption
<1>6. /\ lyrics' \in [Video -> LyricsRow] /\ unpublished' \subseteq Follower /\ Numbered(lyrics')
      /\ MaxUserRev' \in Nat /\ MaxUserRev <= MaxUserRev' /\ MaxUserRev' <= MaxUserRev + 1
  BY <1>1, <1>2, <1>5, WriteFacts DEF StrayCommit
<1>7. UNCHANGED <<backup, req, after, copy, want>>
  BY DEF StrayCommit, device
<1>8. late' \subseteq Follower
  BY <1>1, <1>2 DEF StrayCommit, LyricsTypeOK
<1>9. LyricsTypeOK'
  BY <1>1, <1>4, <1>6, <1>7, <1>8 DEF LyricsTypeOK
<1>10. Counted'
  <2>1. Putting' = Putting
    BY <1>7 DEF Putting
  <2>2. IsFiniteSet(stray') /\ Cardinality(stray') = Cardinality(stray) - 1
    BY <1>3, <1>4
  <2>3. Cardinality(Putting') = Cardinality(Putting)
    BY <2>1
  <2> QED
    BY <1>6, <2>2, <2>3, CountedFacts, BoundAssumption DEF Counted
<1>11. Behind'
  <2>1. ASSUME NEW c \in Follower
        PROVE  after[c] <= MaxUserRev' /\ (req[c].phase = "changes" => req[c].rev <= MaxUserRev')
    <3>1. after[c] \in Nat /\ after[c] <= MaxUserRev /\ MaxUserRev \in Nat
      BY <1>1, RequestFacts, RowFacts DEF Behind
    <3>2. req[c].phase = "changes" => req[c].rev \in Nat /\ req[c].rev <= MaxUserRev
      BY <1>1, RequestFacts, BoundAssumption DEF Behind
    <3> QED
      BY <1>6, <3>1, <3>2
  <2> QED
    BY <1>7, <2>1 DEF Behind
<1> QED
  BY <1>6, <1>9, <1>10, <1>11 DEF Stable

\* A request that is no write takes the place of one that is none, or gives its place up.
LEMMA QuietCounted ==
  ASSUME Stable, NEW d \in Follower, NEW r \in LyricsRequest, r.phase # "put",
         req' = [req EXCEPT ![d] = r], UNCHANGED <<lyrics, stray>>
  PROVE  Counted'
<1>1. LyricsTypeOK
  BY DEF Stable
<1>2. Cardinality(Putting') = Cardinality(Putting) \/ Cardinality(Putting') = Cardinality(Putting) - 1
  <2>1. CASE req[d].phase = "put"
    BY <1>1, <2>1, NextRequest
  <2>2. CASE req[d].phase # "put"
    BY <1>1, <2>2, NextRequest
  <2> QED
    BY <2>1, <2>2
<1>3. MaxUserRev' = MaxUserRev
  BY CounterStands
<1> QED
  BY <1>2, <1>3, CountedFacts, BoundAssumption DEF Counted

LEMMA NoRequestFacts == NoRequest \in LyricsRequest /\ NoRequest.phase = "idle"
BY DEF NoRequest, LyricsRequest

LEMMA SavedStable ==
  ASSUME Stable, NEW d \in Follower, Saved(d)
  PROVE  Stable'
<1>1. LyricsTypeOK /\ Numbered(lyrics) /\ Behind
  BY DEF Stable
<1>2. req' = [req EXCEPT ![d] = NoRequest] /\ UNCHANGED <<lyrics, backup, unpublished, after, want, stray, late>>
  BY DEF Saved
<1>3. req' \in [Follower -> LyricsRequest] /\ req'[d] = NoRequest /\ \A c \in Follower : c # d => req'[c] = req[c]
  BY <1>1, <1>2, NoRequestFacts, NextRequest
<1>4. copy' \in [Follower -> [Video -> LyricsRow]]
  <2>1. req[d].video \in Video /\ req[d].row \in LyricsRow /\ copy[d] \in [Video -> LyricsRow]
    BY <1>1, RequestFacts DEF Saved
  <2>2. PICK new : new = [copy[d] EXCEPT ![req[d].video] = req[d].row]
    OBVIOUS
  <2>3. new \in [Video -> LyricsRow]
    BY <2>1, <2>2
  <2>4. copy' = [copy EXCEPT ![d] = new]
    BY <2>2 DEF Saved
  <2> QED
    BY <1>1, <2>3, <2>4 DEF LyricsTypeOK
<1>5. LyricsTypeOK'
  BY <1>1, <1>2, <1>3, <1>4 DEF LyricsTypeOK
<1>6. Counted'
  <2>1. NoRequest.phase # "put"
    BY NoRequestFacts
  <2> QED
    BY <1>2, <2>1, NoRequestFacts, QuietCounted
<1>7. MaxUserRev' = MaxUserRev
  BY <1>2, CounterStands
<1>8. Behind'
  BY <1>1, <1>2, <1>3, <1>7, NoRequestFacts DEF Behind
<1> QED
  BY <1>1, <1>2, <1>5, <1>6, <1>8 DEF Stable

LEMMA AskStable ==
  ASSUME Stable, NEW d \in Follower, NEW limit \in 1 .. MaxLimit, Ask(d, limit)
  PROVE  Stable'
<1>1. LyricsTypeOK /\ Numbered(lyrics) /\ Behind
  BY DEF Stable
<1>2. PICK r : r = [phase |-> "ask", limit |-> limit]
  OBVIOUS
<1>3. r \in LyricsRequest /\ r.phase = "ask"
  BY <1>2 DEF LyricsRequest
<1>4. /\ req' = [req EXCEPT ![d] = r]
      /\ UNCHANGED <<lyrics, backup, unpublished, after, copy, stray>>
      /\ want' = [want EXCEPT ![d] = FALSE] /\ late' = late \ {d}
  BY <1>2 DEF Ask
<1>5. req' \in [Follower -> LyricsRequest] /\ req'[d] = r /\ \A c \in Follower : c # d => req'[c] = req[c]
  BY <1>1, <1>3, <1>4, NextRequest
<1>6. LyricsTypeOK'
  BY <1>1, <1>4, <1>5 DEF LyricsTypeOK
<1>7. Counted'
  BY <1>3, <1>4, QuietCounted
<1>8. MaxUserRev' = MaxUserRev
  BY <1>4, CounterStands
<1>9. Behind'
  BY <1>1, <1>3, <1>4, <1>5, <1>8 DEF Behind
<1> QED
  BY <1>1, <1>4, <1>6, <1>7, <1>9 DEF Stable

LEMMA ReadStable ==
  ASSUME Stable, NEW d \in Follower, Read(d)
  PROVE  Stable'
<1>1. LyricsTypeOK /\ Numbered(lyrics) /\ Behind
  BY DEF Stable
<1>2. PICK r : r = Page(after[d], req[d].limit)
  OBVIOUS
<1>3. after[d] \in Nat /\ after[d] <= MaxUserRev /\ req[d].limit \in Nat
  BY <1>1, RequestFacts, BoundAssumption DEF Read, Behind
<1>4. /\ r \in [phase : {"changes"}, got : [Video -> LyricsRow], rev : 0 .. MaxRev, more : BOOLEAN]
      /\ r.rev <= MaxUserRev
  BY <1>1, <1>2, <1>3, PageTyped
<1>5. r \in LyricsRequest /\ r.phase = "changes"
  BY <1>4 DEF LyricsRequest
<1>6. /\ req' = [req EXCEPT ![d] = r]
      /\ UNCHANGED <<lyrics, backup, unpublished, after, copy, want, stray, late>>
  BY <1>2 DEF Read
<1>7. req' \in [Follower -> LyricsRequest] /\ req'[d] = r /\ \A c \in Follower : c # d => req'[c] = req[c]
  BY <1>1, <1>5, <1>6, NextRequest
<1>8. LyricsTypeOK'
  BY <1>1, <1>6, <1>7 DEF LyricsTypeOK
<1>9. Counted'
  BY <1>5, <1>6, QuietCounted
<1>10. MaxUserRev' = MaxUserRev
  BY <1>6, CounterStands
<1>11. Behind'
  BY <1>1, <1>4, <1>6, <1>7, <1>10 DEF Behind
<1> QED
  BY <1>1, <1>6, <1>8, <1>9, <1>11 DEF Stable

LEMMA DeliverStable ==
  ASSUME Stable, NEW d \in Follower, DeliverPage(d)
  PROVE  Stable'
<1>1. LyricsTypeOK /\ Numbered(lyrics) /\ Behind
  BY DEF Stable
<1>2. req' = [req EXCEPT ![d] = NoRequest] /\ UNCHANGED <<lyrics, backup, unpublished, stray, late>>
  BY DEF DeliverPage
<1>3. req' \in [Follower -> LyricsRequest] /\ req'[d] = NoRequest /\ \A c \in Follower : c # d => req'[c] = req[c]
  BY <1>1, <1>2, NoRequestFacts, NextRequest
<1>4. /\ req[d].got \in [Video -> LyricsRow] /\ req[d].rev \in 0 .. MaxRev /\ req[d].more \in BOOLEAN
      /\ req[d].rev <= MaxUserRev /\ copy[d] \in [Video -> LyricsRow]
  BY <1>1, RequestFacts DEF DeliverPage, Behind
<1>5. PICK new : new = Taken(copy[d], after[d], req[d].got)
  OBVIOUS
<1>6. new \in [Video -> LyricsRow]
  BY <1>4, <1>5, BoundAssumption DEF Taken, None, LyricsRow
<1>7. copy' = [copy EXCEPT ![d] = new]
  <2>1. new = [v \in Video |-> IF req[d].got[v].rev # 0 THEN req[d].got[v]
                 ELSE (IF Replaces /\ after[d] = 0 THEN [u \in Video |-> None] ELSE copy[d])[v]]
    BY <1>5 DEF Taken
  <2> QED
    BY <2>1 DEF DeliverPage
<1>8. after' = [after EXCEPT ![d] = req[d].rev] /\ want' = [want EXCEPT ![d] = want[d] \/ req[d].more]
  BY DEF DeliverPage
<1>9. want' \in [Follower -> BOOLEAN]
  BY <1>1, <1>8 DEF LyricsTypeOK
<1>10. LyricsTypeOK'
  BY <1>1, <1>2, <1>3, <1>4, <1>6, <1>7, <1>8, <1>9 DEF LyricsTypeOK
<1>11. Counted'
  <2>1. NoRequest.phase # "put"
    BY NoRequestFacts
  <2> QED
    BY <1>2, <2>1, NoRequestFacts, QuietCounted
<1>12. MaxUserRev' = MaxUserRev
  BY <1>2, CounterStands
<1>13. Behind'
  <2>1. \A c \in Follower : after'[c] = IF c = d THEN req[d].rev ELSE after[c]
    BY <1>1, <1>8 DEF LyricsTypeOK
  <2> QED
    BY <1>1, <1>3, <1>4, <1>12, <2>1, NoRequestFacts DEF Behind
<1> QED
  BY <1>1, <1>2, <1>10, <1>11, <1>13 DEF Stable

LEMMA AbandonStable ==
  ASSUME Stable, NEW d \in Follower, Abandon(d)
  PROVE  Stable'
<1>1. LyricsTypeOK /\ Numbered(lyrics) /\ Behind
  BY DEF Stable
<1>2. /\ req' = [req EXCEPT ![d] = NoRequest] /\ want' = [want EXCEPT ![d] = TRUE]
      /\ UNCHANGED <<lyrics, backup, unpublished, after, copy, late>>
  BY DEF Abandon
<1>3. /\ req' \in [Follower -> LyricsRequest] /\ req'[d] = NoRequest /\ \A c \in Follower : c # d => req'[c] = req[c]
  BY <1>1, <1>2, NoRequestFacts, NextRequest
<1>4. PICK s : s = [dev |-> d, video |-> req[d].video, text |-> req[d].text]
  OBVIOUS
<1>5. /\ stray' = stray \/ (req[d].phase = "put" /\ stray' = stray \cup {s})
  BY <1>4 DEF Abandon
<1>6. stray' \subseteq [dev : Follower, video : Video, text : Text \cup {NoText}]
  <2>1. req[d].phase = "put" => s \in [dev : Follower, video : Video, text : Text \cup {NoText}]
    BY <1>1, <1>4, RequestFacts
  <2> QED
    BY <1>1, <1>5, <2>1 DEF LyricsTypeOK
<1>7. LyricsTypeOK'
  BY <1>1, <1>2, <1>3, <1>6 DEF LyricsTypeOK
<1>8. MaxUserRev' = MaxUserRev
  BY <1>2, CounterStands
<1>9. Counted'
  <2>0. NoRequest.phase # "put"
    BY NoRequestFacts
  <2>1. CASE stray' = stray
    BY <1>2, <2>0, <2>1, NoRequestFacts, QuietCounted
  <2>2. CASE req[d].phase = "put" /\ stray' = stray \cup {s}
    <3>1. Cardinality(Putting') = Cardinality(Putting) - 1
      BY <1>1, <1>2, <2>0, <2>2, NoRequestFacts, NextRequest
    <3>2. /\ IsFiniteSet(stray')
          /\ Cardinality(stray') = Cardinality(stray) \/ Cardinality(stray') = Cardinality(stray) + 1
      BY <2>2, CountedFacts, FS_AddElement
    <3> QED
      BY <1>8, <3>1, <3>2, CountedFacts, BoundAssumption DEF Counted
  <2> QED
    BY <1>5, <2>1, <2>2
<1>10. Behind'
  BY <1>1, <1>2, <1>3, <1>8, NoRequestFacts DEF Behind
<1> QED
  BY <1>1, <1>2, <1>7, <1>9, <1>10 DEF Stable

LEMMA CrashStable ==
  ASSUME Stable, Crash
  PROVE  Stable'
<1>1. LyricsTypeOK /\ Numbered(lyrics) /\ Behind
  BY DEF Stable
<1>2. /\ unpublished' = {} /\ stray' = {} /\ want' = [d \in Follower |-> TRUE]
      /\ req' = [d \in Follower |-> IF req[d].phase \in {"put", "ask"} THEN NoRequest ELSE req[d]]
      /\ UNCHANGED <<after, copy, late, lyrics, backup>>
  BY DEF Crash, Crashed
<1>3. req' \in [Follower -> LyricsRequest]
  BY <1>1, <1>2, RequestFacts, NoRequestFacts
<1>4. LyricsTypeOK'
  BY <1>1, <1>2, <1>3 DEF LyricsTypeOK
<1>5. MaxUserRev' = MaxUserRev
  BY <1>2, CounterStands
<1>6. Counted'
  <2>1. Putting' = {}
    BY <1>2, NoRequestFacts DEF Putting
  <2> QED
    BY <1>2, <1>5, <2>1, CountedFacts, FS_EmptySet, BoundAssumption DEF Counted
<1>7. Behind'
  BY <1>1, <1>2, <1>5, NoRequestFacts DEF Behind
<1> QED
  BY <1>1, <1>2, <1>4, <1>6, <1>7 DEF Stable

LEMMA OtherStable ==
  ASSUME Stable, UNCHANGED lyricsVars \/ \E d \in Follower : PublishLyrics(d)
  PROVE  Stable'
<1>1. LyricsTypeOK /\ Numbered(lyrics) /\ Behind /\ Counted
  BY DEF Stable
<1>2. UNCHANGED <<lyrics, backup, req, after, copy, stray, late>>
  BY DEF PublishLyrics, lyricsVars
<1>3. unpublished' \subseteq Follower /\ want' \in [Follower -> BOOLEAN]
  <2>1. CASE UNCHANGED lyricsVars
    BY <1>1, <2>1 DEF lyricsVars, LyricsTypeOK
  <2>2. CASE \E d \in Follower : PublishLyrics(d)
    <3>1. PICK d \in Follower : PublishLyrics(d)
      BY <2>2
    <3>2. unpublished' = unpublished \ {d} /\ want' = [c \in Follower |-> want[c] \/ c # d]
      BY <3>1 DEF PublishLyrics
    <3> QED
      BY <1>1, <3>2 DEF LyricsTypeOK
  <2> QED
    BY <2>1, <2>2
<1>4. LyricsTypeOK'
  BY <1>1, <1>2, <1>3 DEF LyricsTypeOK
<1>5. MaxUserRev' = MaxUserRev
  BY <1>2, CounterStands
<1>6. Counted' /\ Behind'
  <2>1. Putting' = Putting
    BY <1>2 DEF Putting
  <2> QED
    BY <1>1, <1>2, <1>5, <2>1 DEF Counted, Behind
<1> QED
  BY <1>1, <1>2, <1>4, <1>6 DEF Stable

LEMMA NextStable == Stable /\ [LyricsNext]_lyricsVars => Stable'
<1> SUFFICES ASSUME Stable, [LyricsNext]_lyricsVars PROVE Stable'
  OBVIOUS
<1>1. ASSUME NEW d \in Follower, NEW v \in Video, NEW text \in Text \cup {NoText}, Edit(d, v, text)
      PROVE  Stable'
  BY <1>1, EditStable
<1>2. ASSUME NEW d \in Follower, CommitVersion(d) PROVE Stable'
  BY <1>2, CommitStable
<1>3. ASSUME NEW d \in Follower, Saved(d) PROVE Stable'
  BY <1>3, SavedStable
<1>4. ASSUME NEW d \in Follower, NEW limit \in 1 .. MaxLimit, Ask(d, limit) PROVE Stable'
  BY <1>4, AskStable
<1>5. ASSUME NEW d \in Follower, Read(d) PROVE Stable'
  BY <1>5, ReadStable
<1>6. ASSUME NEW d \in Follower, DeliverPage(d) PROVE Stable'
  BY <1>6, DeliverStable
<1>7. ASSUME NEW d \in Follower, Abandon(d) PROVE Stable'
  BY <1>7, AbandonStable
<1>8. ASSUME NEW s \in stray, StrayCommit(s) PROVE Stable'
  BY <1>8, StrayCommitStable
<1>9. CASE Crash
  BY <1>9, CrashStable
<1>10. CASE UNCHANGED lyricsVars \/ \E d \in Follower : PublishLyrics(d)
  BY <1>10, OtherStable
<1> QED
  BY <1>1, <1>2, <1>3, <1>4, <1>5, <1>6, <1>7, <1>8, <1>9, <1>10 DEF LyricsNext

-----------------------------------------------------------------------------
(***************************************************************************)
(* What a device shows: one lemma per kind of step.                        *)
(***************************************************************************)

\* One device of Shown, over any rows.
ShowsIt(table, held, from, r) ==
  /\ Seen(table, held, from)
  /\ r.phase = "changes" => Seen(table, Taken(held, from, r.got), r.rev)
  /\ r.phase = "stored" => Seen(table, Kept(held, r.video, r.row), from)

\* A write leaves what the devices show, and are being told, as good as it was.
LEMMA WriteShown ==
  ASSUME Stable, AllShown, NEW v \in Video, NEW text \in Text \cup {NoText}, NEW d \in Follower,
         MaxUserRev < MaxRev, Write(d, v, text), NEW c \in Follower
  PROVE  ShowsIt(lyrics', copy[c], after[c], req[c])
<1>1. LyricsTypeOK /\ Numbered(lyrics) /\ Behind
  BY DEF Stable
<1>2. /\ lyrics' \in [Video -> LyricsRow]
      /\ \A u \in Video : lyrics'[u] = lyrics[u] \/ lyrics'[u].rev > MaxUserRev
  BY <1>1, WriteFacts
<1>3. \A u \in Video : lyrics'[u].rev \in Nat
  BY <1>2, BoundAssumption DEF LyricsRow
<1>4. MaxUserRev \in Nat /\ after[c] \in Nat /\ after[c] <= MaxUserRev
  BY <1>1, RowFacts, RequestFacts DEF Behind
<1>5. \A shown : Seen(lyrics, shown, after[c]) => Seen(lyrics', shown, after[c])
  BY <1>2, <1>3, <1>4, SeenStays
<1>6. ASSUME req[c].phase = "changes"
      PROVE  \A shown : Seen(lyrics, shown, req[c].rev) => Seen(lyrics', shown, req[c].rev)
  <2>1. req[c].rev \in Nat /\ req[c].rev <= MaxUserRev
    BY <1>1, <1>6, RequestFacts, BoundAssumption DEF Behind
  <2> QED
    BY <1>2, <1>3, <1>4, <2>1, SeenStays
<1> QED
  BY <1>5, <1>6 DEF AllShown, ShowsIt

LEMMA CommitShown ==
  ASSUME Stable, AllShown, NEW d \in Follower, CommitVersion(d)
  PROVE  AllShown'
<1>1. LyricsTypeOK /\ Numbered(lyrics) /\ Behind
  BY DEF Stable
<1>2. req[d].phase = "put" /\ req[d].video \in Video /\ req[d].text \in Text \cup {NoText}
  BY <1>1, RequestFacts DEF CommitVersion
<1>3. MaxUserRev < MaxRev
  BY <1>2, CountedFacts, BoundAssumption
<1>4. Write(d, req[d].video, req[d].text)
  BY DEF CommitVersion
<1>5. \A c \in Follower : ShowsIt(lyrics', copy[c], after[c], req[c])
  BY <1>2, <1>3, <1>4, WriteShown
<1>6. PICK given : given = IF req[d].text = NoText THEN [copy[d][req[d].video] EXCEPT !.text = NoText]
                       ELSE lyrics'[req[d].video]
  OBVIOUS
<1>7. PICK r : r = [phase |-> "stored", video |-> req[d].video, row |-> given]
  OBVIOUS
<1>8. /\ req' = [req EXCEPT ![d] = r] /\ UNCHANGED <<after, copy>>
  BY <1>6, <1>7 DEF CommitVersion
<1>9. req'[d] = r /\ \A c \in Follower : c # d => req'[c] = req[c]
  BY <1>1, <1>8 DEF LyricsTypeOK
<1>10. given.text = lyrics'[req[d].video].text
  <2>1. lyrics'[req[d].video].text = req[d].text
    BY <1>1, <1>2, <1>3, <1>4, WriteFacts
  <2>2. copy[d][req[d].video] \in LyricsRow
    BY <1>1, <1>2, RequestFacts
  <2> QED
    BY <1>6, <2>1, <2>2 DEF LyricsRow
<1>11. Seen(lyrics', Kept(copy[d], req[d].video, given), after[d])
  <2>1. Seen(lyrics', copy[d], after[d])
    BY <1>5 DEF ShowsIt
  <2>2. copy[d] \in [Video -> LyricsRow]
    BY <1>1, RequestFacts
  <2> QED
    BY <1>2, <1>10, <2>1, <2>2 DEF Seen, Kept
<1>12. ShowsIt(lyrics', copy[d], after[d], r)
  BY <1>5, <1>7, <1>11 DEF ShowsIt
<1>13. \A c \in Follower : ShowsIt(lyrics', copy'[c], after'[c], req'[c])
  BY <1>5, <1>8, <1>9, <1>12
<1> QED
  BY <1>13 DEF AllShown, ShowsIt

LEMMA StrayCommitShown ==
  ASSUME Stable, AllShown, NEW s \in stray, StrayCommit(s)
  PROVE  AllShown'
<1>1. s.dev \in Follower /\ s.video \in Video /\ s.text \in Text \cup {NoText}
  BY DEF Stable, LyricsTypeOK
<1>2. MaxUserRev < MaxRev
  <2>1. Cardinality(stray) > 0
    BY CountedFacts, FS_EmptySet
  <2> QED
    BY <2>1, CountedFacts, BoundAssumption
<1>3. Write(s.dev, s.video, s.text) /\ UNCHANGED <<req, after, copy>>
  BY DEF StrayCommit, device
<1>4. \A c \in Follower : ShowsIt(lyrics', copy[c], after[c], req[c])
  BY <1>1, <1>2, <1>3, WriteShown
<1> QED
  BY <1>3, <1>4 DEF AllShown, ShowsIt

\* A read answers a device for what it has reached.
LEMMA ReadShown ==
  ASSUME Stable, Replaces, AllShown, NEW d \in Follower, Read(d)
  PROVE  AllShown'
<1>1. LyricsTypeOK /\ Numbered(lyrics) /\ Behind
  BY DEF Stable
<1>2. PICK r : r = Page(after[d], req[d].limit)
  OBVIOUS
<1>3. after[d] \in Nat /\ after[d] <= MaxUserRev /\ req[d].limit \in Nat
  BY <1>1, RequestFacts, BoundAssumption DEF Read, Behind
<1>4. r.phase = "changes"
  BY <1>1, <1>2, <1>3, PageTyped
<1>5. Seen(lyrics, Taken(copy[d], after[d], r.got), r.rev)
  BY <1>1, <1>2, <1>3, PageShows DEF AllShown
<1>6. req' = [req EXCEPT ![d] = r] /\ UNCHANGED <<lyrics, after, copy>>
  BY <1>2 DEF Read
<1>7. req'[d] = r /\ \A c \in Follower : c # d => req'[c] = req[c]
  BY <1>1, <1>6 DEF LyricsTypeOK
<1> QED
  BY <1>4, <1>5, <1>6, <1>7 DEF AllShown

LEMMA SavedShown ==
  ASSUME Stable, AllShown, NEW d \in Follower, Saved(d)
  PROVE  AllShown'
<1>1. LyricsTypeOK
  BY DEF Stable
<1>2. PICK new : new = Kept(copy[d], req[d].video, req[d].row)
  OBVIOUS
<1>3. /\ copy' = [copy EXCEPT ![d] = new] /\ req' = [req EXCEPT ![d] = NoRequest]
      /\ UNCHANGED <<lyrics, after>> /\ req[d].phase = "stored"
  BY <1>2 DEF Saved, Kept
<1>4. Seen(lyrics, new, after[d])
  BY <1>2, <1>3 DEF AllShown
<1>5. /\ req'[d] = NoRequest /\ copy'[d] = new
      /\ \A c \in Follower : c # d => req'[c] = req[c] /\ copy'[c] = copy[c]
  BY <1>1, <1>3 DEF LyricsTypeOK
<1> QED
  BY <1>3, <1>4, <1>5, NoRequestFacts DEF AllShown

LEMMA DeliverShown ==
  ASSUME Stable, AllShown, NEW d \in Follower, DeliverPage(d)
  PROVE  AllShown'
<1>1. LyricsTypeOK
  BY DEF Stable
<1>2. PICK new : new = Taken(copy[d], after[d], req[d].got)
  OBVIOUS
<1>3. copy' = [copy EXCEPT ![d] = new]
  <2>1. new = [v \in Video |-> IF req[d].got[v].rev # 0 THEN req[d].got[v]
                 ELSE (IF Replaces /\ after[d] = 0 THEN [u \in Video |-> None] ELSE copy[d])[v]]
    BY <1>2 DEF Taken
  <2> QED
    BY <2>1 DEF DeliverPage
<1>4. /\ req' = [req EXCEPT ![d] = NoRequest] /\ after' = [after EXCEPT ![d] = req[d].rev]
      /\ UNCHANGED lyrics /\ req[d].phase = "changes"
  BY DEF DeliverPage
<1>5. Seen(lyrics, new, req[d].rev)
  BY <1>2, <1>4 DEF AllShown
<1>6. /\ req'[d] = NoRequest /\ copy'[d] = new /\ after'[d] = req[d].rev
      /\ \A c \in Follower : c # d => req'[c] = req[c] /\ copy'[c] = copy[c] /\ after'[c] = after[c]
  BY <1>1, <1>3, <1>4 DEF LyricsTypeOK
<1> QED
  BY <1>4, <1>5, <1>6, NoRequestFacts DEF AllShown

\* A device whose request changes to one without an answer shows what it showed.
LEMMA RestShown ==
  ASSUME Stable, AllShown, UNCHANGED <<lyrics, copy, after>>,
         \A c \in Follower : req'[c] = req[c] \/ req'[c].phase \notin {"changes", "stored"}
  PROVE  AllShown'
BY DEF AllShown

LEMMA NextShown == Stable /\ Replaces /\ AllShown /\ [LyricsNext]_lyricsVars => AllShown'
<1> SUFFICES ASSUME Stable, Replaces, AllShown, [LyricsNext]_lyricsVars PROVE AllShown'
  OBVIOUS
<1>0. req \in [Follower -> LyricsRequest]
  BY DEF Stable, LyricsTypeOK
<1>1. ASSUME NEW d \in Follower, NEW v \in Video, NEW text \in Text \cup {NoText}, Edit(d, v, text)
      PROVE  AllShown'
  <2>1. UNCHANGED <<lyrics, copy, after>> /\ req' = [req EXCEPT ![d] = PutRequest(v, text)]
    BY <1>1 DEF Edit
  <2>2. PutRequest(v, text).phase = "put"
    BY DEF PutRequest
  <2>3. \A c \in Follower : req'[c] = req[c] \/ req'[c].phase \notin {"changes", "stored"}
    BY <1>0, <2>1, <2>2
  <2> QED
    BY <2>1, <2>3, RestShown
<1>2. ASSUME NEW d \in Follower, CommitVersion(d) PROVE AllShown'
  BY <1>2, CommitShown
<1>3. ASSUME NEW d \in Follower, Saved(d) PROVE AllShown'
  BY <1>3, SavedShown
<1>4. ASSUME NEW d \in Follower, NEW limit \in 1 .. MaxLimit, Ask(d, limit) PROVE AllShown'
  <2>1. UNCHANGED <<lyrics, copy, after>> /\ req' = [req EXCEPT ![d] = [phase |-> "ask", limit |-> limit]]
    BY <1>4 DEF Ask
  <2>2. \A c \in Follower : req'[c] = req[c] \/ req'[c].phase \notin {"changes", "stored"}
    BY <1>0, <2>1
  <2> QED
    BY <2>1, <2>2, RestShown
<1>5. ASSUME NEW d \in Follower, Read(d) PROVE AllShown'
  BY <1>5, ReadShown
<1>6. ASSUME NEW d \in Follower, DeliverPage(d) PROVE AllShown'
  BY <1>6, DeliverShown
<1>7. ASSUME NEW d \in Follower, Abandon(d) PROVE AllShown'
  <2>1. UNCHANGED <<lyrics, copy, after>> /\ req' = [req EXCEPT ![d] = NoRequest]
    BY <1>7 DEF Abandon
  <2>2. \A c \in Follower : req'[c] = req[c] \/ req'[c].phase \notin {"changes", "stored"}
    BY <1>0, <2>1, NoRequestFacts
  <2> QED
    BY <2>1, <2>2, RestShown
<1>8. ASSUME NEW s \in stray, StrayCommit(s) PROVE AllShown'
  BY <1>8, StrayCommitShown
<1>9. CASE Crash
  <2>1. /\ UNCHANGED <<lyrics, copy, after>>
        /\ req' = [d \in Follower |-> IF req[d].phase \in {"put", "ask"} THEN NoRequest ELSE req[d]]
    BY <1>9 DEF Crash, Crashed
  <2>2. \A c \in Follower : req'[c] = req[c] \/ req'[c].phase \notin {"changes", "stored"}
    BY <2>1, NoRequestFacts
  <2> QED
    BY <2>1, <2>2, RestShown
<1>10. CASE UNCHANGED lyricsVars \/ \E d \in Follower : PublishLyrics(d)
  <2>1. UNCHANGED <<lyrics, copy, after, req>>
    BY <1>10 DEF lyricsVars, PublishLyrics
  <2> QED
    BY <2>1, RestShown
<1> QED
  BY <1>1, <1>2, <1>3, <1>4, <1>5, <1>6, <1>7, <1>8, <1>9, <1>10 DEF LyricsNext

LEMMA InitShown == LyricsInit => AllShown
<1> SUFFICES ASSUME LyricsInit PROVE AllShown
  OBVIOUS
<1>1. \A v \in Video : lyrics[v].rev = 0
  BY DEF LyricsInit, None
<1> QED
  BY <1>1 DEF LyricsInit, AllShown, Seen, NoRequest

-----------------------------------------------------------------------------
(***************************************************************************)
(* The theorems.                                                           *)
(***************************************************************************)

\* The inductive invariant holds for any devices, videos and bounds.
THEOREM LyricsInvariance == LyricsSpec => []LyricsInv
<1>1. LyricsInit => LyricsInv
  BY InitStable, InitShown DEF LyricsInv
<1>2. LyricsInv /\ [LyricsNext]_lyricsVars => LyricsInv'
  BY NextStable, NextShown DEF LyricsInv
<1> QED
  BY <1>1, <1>2, PTL DEF LyricsSpec

\* Versions, requests and copies have their types, and the writes under way never outgrow the
\* bound of the behaviours (the bound is the model's, not the code's).
THEOREM LyricsTypeCorrect == LyricsSpec => []LyricsTypeOK
<1>1. LyricsInv => LyricsTypeOK
  BY DEF LyricsInv, Stable
<1> QED
  BY <1>1, LyricsInvariance, PTL

\* A device that takes an answer to `after` 0 for all there is shows every version whose rev it
\* has reached: listMyLyricsChanges passes none over, whatever is written between two pages.
THEOREM NothingIsMissed == LyricsSpec => [](Replaces => NothingMissed)
<1>1. LyricsInv => (Replaces => NothingMissed)
  BY DEF LyricsInv, AllShown, Seen, NothingMissed, Stored, TextShown
<1> QED
  BY <1>1, LyricsInvariance, PTL

-----------------------------------------------------------------------------
(***************************************************************************)
(* The playback state: the larger of two numbers.                          *)
(***************************************************************************)

\* The larger of two numbers, as the community module writes it.
LEMMA MaxOfTwo ==
  ASSUME NEW a \in Int, NEW b \in Int
  PROVE  Max({a, b}) = IF a >= b THEN a ELSE b
<1>. DEFINE m == IF a >= b THEN a ELSE b
<1>1. m \in {a, b} /\ \A y \in {a, b} : m >= y
  OBVIOUS
<1>2. \A x \in {a, b} : (\A y \in {a, b} : x >= y) => x = m
  OBVIOUS
<1>3. (CHOOSE x \in {a, b} : \A y \in {a, b} : x >= y) = m
  BY <1>1, <1>2
<1>. QED
  BY <1>3 DEF Max

(***************************************************************************)
(* Its invariant.  A row has the highest rev ever written, which runs at   *)
(* most Burst ahead of its write; a row that is gone was old enough for    *)
(* the clock to have passed that rev.  What a request decided is of now or  *)
(* of the tick before, lies above the row it saw and above every rev if    *)
(* there is no row, and breaks no rule against a row with the rev it saw:  *)
(* that is the row it saw, for no rev comes again.                         *)
(***************************************************************************)

Revs ==
  /\ row # Nothing => /\ row.rev = top
                      /\ top <= row.updated + Burst
                      /\ row.updated <= clock
  /\ row = Nothing => top = 0 \/ top < clock

\* The rules 1 and 2 for a decided state against a stored one.
Fair(old, new) ==
  Active(old) # Nothing /\ ~new.cleared =>
    /\ new.device # old.device => new.at >= old.at
    /\ [device |-> new.device, session |-> new.session] # old.handoff

Decision(r) ==
  /\ r.row.updated \in clock - 1 .. clock
  /\ r.row.rev >= r.row.updated
  /\ row = Nothing => r.row.rev > top
  /\ r.seen # Nothing => r.seen <= top /\ r.seen < r.row.rev
  /\ row # Nothing /\ r.seen = row.rev => Fair(row, r.row)

Decisions == \A d \in Devices : reqs[d].phase = "decided" => Decision(reqs[d])

StoredInv == PlaybackTypeOK /\ Revs /\ Decisions

(***************************************************************************)
(* On SQLite one request at a time is between its read and its event.  A   *)
(* decision that is not told leaves what is shown as it was; an event on   *)
(* its way is newer than those before it, and when none is the last one    *)
(* tells the row.                                                          *)
(***************************************************************************)

State(s) == Summary(s).state
Last == IF pending # Nothing THEN pending ELSE view

Busy(d) == reqs[d].phase \in {"decided", "committed"}
Alone == \A d, e \in Devices : Busy(d) /\ Busy(e) => d = e

InOrder ==
  /\ view # Nothing => view.rev <= top
  /\ pending # Nothing => windowOpen /\ pending.rev <= top /\ (view # Nothing => view.rev < pending.rev)

SilentDecision(r) ==
  ~r.tell => r.seen # Nothing /\ (row # Nothing /\ r.seen = row.rev => State(r.row) = State(row))
Unpublished(r) ==
  /\ r.row.rev = top
  /\ row # Nothing => row = r.row
  /\ view # Nothing => view.rev < top
  /\ pending # Nothing => pending.rev < top
Requests ==
  \A d \in Devices : /\ reqs[d].phase = "decided" => SilentDecision(reqs[d])
                     /\ reqs[d].phase = "committed" => Unpublished(reqs[d])

Untold == \E d \in Devices : reqs[d].phase = "committed" /\ reqs[d].tell
LastTold == row # Nothing /\ ~Untold => Last # Nothing /\ Last.state = State(row)

Watched == Alone /\ InOrder /\ Requests /\ LastTold

PlaybackInv == StoredInv /\ (~overlap => Watched)

\* What a request that decided looks like.
LEMMA DecidedTyped ==
  ASSUME NEW r \in Request, r.phase = "decided"
  PROVE  /\ r.body \in Inputs \cup {Nothing} /\ r.at \in Ats /\ r.tries \in 1 .. Attempts
         /\ r.seen \in {Nothing} \cup Nat
         /\ r.row \in Row
         /\ r.tell \in BOOLEAN
BY DEF Request, AtRest

LEMMA CommittedTyped ==
  ASSUME NEW r \in Request, r.phase = "committed"
  PROVE  r.row \in Row /\ r.tell \in BOOLEAN
BY DEF Request, AtRest

LEMMA AgainTyped ==
  ASSUME NEW r \in Request, r.phase = "again"
  PROVE  r.body \in Inputs \cup {Nothing} /\ r.at \in Ats /\ r.tries \in 2 .. Attempts
BY DEF Request, AtRest

\* The next rev lies above the stored one and is not behind the clock.
LEMMA NextRevAbove ==
  ASSUME PlaybackTypeOK
  PROVE  /\ NextRev(row) \in Nat
         /\ NextRev(row) >= clock
         /\ row # Nothing => NextRev(row) > row.rev
<1>1. clock \in Nat /\ (row # Nothing => row.rev \in Nat)
  BY ClockAssumption DEF PlaybackTypeOK, Row
<1>2. CASE row = Nothing
  BY <1>1, <1>2, MaxOfTwo DEF NextRev
<1>3. CASE row # Nothing
  <2>1. row.rev + 1 \in Nat /\ NextRev(row) = Max({row.rev + 1, clock})
    BY <1>1, <1>3 DEF NextRev
  <2>. QED
    BY <1>1, <1>3, <2>1, MaxOfTwo
<1>. QED
  BY <1>2, <1>3

LEMMA EffTyped ==
  ASSUME PlaybackTypeOK, NEW at \in Ats
  PROVE  Eff(at) \in Int
BY ClockAssumption, InputAssumption DEF PlaybackTypeOK, Eff

\* A tombstone is a row.
LEMMA DeleteRowTyped ==
  ASSUME PlaybackTypeOK, NEW d \in Devices
  PROVE  DeleteRow(row, d) \in Row
<1>1. clock \in Nat /\ NextRev(row) \in Nat
  BY NextRevAbove, ClockAssumption DEF PlaybackTypeOK
<1>2. Nothing \in Handoffs
  BY DEF Handoffs
<1>3. CASE row = Nothing
  BY <1>1, <1>2, <1>3 DEF DeleteRow, Row
<1>4. CASE row # Nothing
  <2>1. row.device \in Devices /\ row.session \in Nat /\ row.version \in Nat /\ row.at \in Int
    BY <1>4 DEF PlaybackTypeOK, Row
  <2>. QED
    BY <1>1, <1>2, <1>4, <2>1 DEF DeleteRow, Row
<1>. QED
  BY <1>3, <1>4

\* So is what the rules let through: a queue that does not come with it is there to be reused.
LEMMA PutRowTyped ==
  ASSUME PlaybackTypeOK, NEW d \in Devices, NEW i \in Inputs, NEW at \in Ats, ~Refused(row, d, i, at)
  PROVE  PutRow(row, d, i, at) \in Row
<1>1. clock \in Nat /\ NextRev(row) \in Nat /\ Eff(at) \in Int
  BY NextRevAbove, EffTyped, ClockAssumption DEF PlaybackTypeOK
<1>2. /\ i.session \in Nat /\ i.version \in Nat /\ i.queue \in Nat /\ i.index \in Nat
      /\ i.playing \in BOOLEAN /\ i.handoff \in Handoffs
  BY InputAssumption DEF Input
<1>3. i.queue = 0 => row # Nothing
  BY DEF Refused, BadQueue, Reusable, Active
<1>4. (IF i.queue = 0 THEN row.queue ELSE i.queue) \in Nat
  BY <1>2, <1>3 DEF PlaybackTypeOK, Row
<1>5. ResolveHandoff(row, d, i) \in Handoffs
  <2>1. Nothing \in Handoffs
    BY DEF Handoffs
  <2>2. row # Nothing => row.handoff \in Handoffs
    BY DEF PlaybackTypeOK, Row
  <2>. QED
    BY <1>2, <2>1, <2>2 DEF ResolveHandoff, Active
<1>. QED
  BY <1>1, <1>2, <1>4, <1>5 DEF PutRow, Row

\* A write that keeps the rules is fair to the row it was decided on.
LEMMA PutFair ==
  ASSUME PlaybackTypeOK, NEW d \in Devices, NEW i \in Inputs, NEW at \in Ats, ~Refused(row, d, i, at)
  PROVE  Fair(row, PutRow(row, d, i, at))
<1>. SUFFICES ASSUME Active(row) # Nothing
              PROVE  /\ d # row.device => Eff(at) >= row.at
                     /\ [device |-> d, session |-> i.session] # row.handoff
  BY DEF Fair, PutRow
<1>1. row # Nothing
  BY DEF Active
<1>2. row.at \in Int /\ Eff(at) \in Int
  BY <1>1, EffTyped DEF PlaybackTypeOK, Row
<1>3. ~HandedOff(row, d, i) /\ ~NewerState(row, d, at)
  BY DEF Refused
<1>4. row.handoff # [device |-> d, session |-> i.session]
  BY <1>3 DEF HandedOff
<1>5. row.device # d => ~(Eff(at) < row.at)
  BY <1>3 DEF NewerState
<1>. QED
  BY <1>2, <1>4, <1>5

-----------------------------------------------------------------------------
(***************************************************************************)
(* Its preservation.                                                       *)
(***************************************************************************)

LEMMA StoredInit == PlaybackInit => StoredInv
<1>. SUFFICES ASSUME PlaybackInit PROVE StoredInv
  OBVIOUS
<1>1. PlaybackTypeOK
  <2>1. clock \in 1 .. MaxTime /\ top \in 0 .. MaxTime + Burst
    BY ClockAssumption DEF PlaybackInit
  <2>2. reqs \in [Devices -> Request]
    BY DEF PlaybackInit, Request
  <2>. QED
    BY <2>1, <2>2 DEF PlaybackInit, PlaybackTypeOK
<1>2. Revs /\ Decisions
  BY DEF PlaybackInit, Revs, Decisions, AtRest
<1>. QED
  BY <1>1, <1>2 DEF StoredInv

\* A request that reads and decides, be it the first time or again.
LEMMA DecidedStep ==
  ASSUME StoredInv, NEW d \in Devices, NEW body \in Inputs \cup {Nothing}, NEW at \in Ats,
         NEW tries \in 1 .. Attempts, Decided(d, body, at, tries)
  PROVE  StoredInv'
<1>. DEFINE new == IF body = Nothing THEN DeleteRow(row, d) ELSE PutRow(row, d, body, at)
            saw == IF row = Nothing THEN Nothing ELSE row.rev
            tell == body = Nothing \/ Significant(row, new, body.far)
            r == [phase |-> "decided", body |-> body, at |-> at, tries |-> tries,
                  seen |-> saw, row |-> new, tell |-> tell]
<1>1. PlaybackTypeOK /\ Revs /\ Decisions
  BY DEF StoredInv
<1>2. UNCHANGED <<overlap, clock, row, top, windowOpen, pending, view>>
  BY DEF Decided, events
<1>3. Revs'
  BY <1>1, <1>2 DEF Revs
<1>4. CASE body # Nothing /\ Refused(row, d, body, at)
  <2>1. reqs' = [reqs EXCEPT ![d] = AtRest]
    BY <1>4 DEF Decided
  <2>2. reqs' \in [Devices -> Request]
    BY <1>1, <2>1 DEF PlaybackTypeOK, Request
  <2>3. Decisions'
    BY <1>1, <1>2, <2>1 DEF Decisions, Decision, AtRest, PlaybackTypeOK
  <2>. QED
    BY <1>1, <1>2, <1>3, <2>2, <2>3 DEF StoredInv, PlaybackTypeOK
<1>5. CASE ~(body # Nothing /\ Refused(row, d, body, at))
  <2>1. reqs' = [reqs EXCEPT ![d] = r]
    BY <1>5 DEF Decided
  <2>2. new \in Row
    BY <1>1, <1>5, DeleteRowTyped, PutRowTyped
  <2>3. tell \in BOOLEAN
    OBVIOUS
  <2>4. saw \in {Nothing} \cup Nat
    BY <1>1 DEF PlaybackTypeOK, Row
  <2>5. r \in Request
    BY <2>2, <2>3, <2>4 DEF Request
  <2>6. reqs' \in [Devices -> Request]
    BY <1>1, <2>1, <2>5 DEF PlaybackTypeOK
  <2>7. new.updated = clock /\ new.rev = NextRev(row)
    BY DEF DeleteRow, PutRow
  <2>8. Fair(row, new)
    <3>1. CASE body = Nothing
      BY <3>1 DEF DeleteRow, Fair
    <3>2. CASE body # Nothing
      BY <1>1, <1>5, <3>2, PutFair
    <3>. QED
      BY <3>1, <3>2
  <2>9. Decision(r)
    <3>1. saw # Nothing => row # Nothing /\ saw = top
      BY <1>1 DEF Revs
    <3>2. top \in Nat
      BY <1>1, ClockAssumption DEF PlaybackTypeOK
    <3>3. r.row = new /\ r.seen = saw
      OBVIOUS
    <3>4. saw # Nothing => saw <= top /\ saw < new.rev
      BY <1>1, <2>7, <3>1, <3>2, NextRevAbove
    <3>5. clock \in Nat /\ clock >= 1 /\ clock \in clock - 1 .. clock
      BY <1>1, ClockAssumption DEF PlaybackTypeOK
    <3>6. row = Nothing => new.rev > top
      BY <1>1, <2>7, <3>2, <3>5, NextRevAbove DEF Revs
    <3>7. new.rev >= new.updated
      BY <1>1, <2>7, NextRevAbove
    <3>. HIDE DEF r, new, saw, Fair
    <3>. QED
      BY <2>7, <2>8, <3>3, <3>4, <3>5, <3>6, <3>7 DEF Decision
  <2>10. Decisions'
    <3>. SUFFICES ASSUME NEW e \in Devices, reqs'[e].phase = "decided" PROVE Decision(reqs[e])'
      BY DEF Decisions
    <3>1. CASE e = d
      <4>1. reqs'[e] = r
        BY <1>1, <2>1, <3>1 DEF PlaybackTypeOK
      <4>. HIDE DEF r
      <4>. QED
        BY <1>2, <2>9, <4>1 DEF Decision, Fair, Active
    <3>2. CASE e # d
      <4>1. reqs'[e] = reqs[e]
        BY <1>1, <2>1, <3>2 DEF PlaybackTypeOK
      <4>. QED
        BY <1>1, <1>2, <4>1 DEF Decisions, Decision, Fair, Active
    <3>. QED
      BY <3>1, <3>2
  <2>. QED
    BY <1>1, <1>2, <1>3, <2>6, <2>10 DEF StoredInv, PlaybackTypeOK
<1>. QED
  BY <1>4, <1>5

\* The compare-and-set that wins: the row is the one the request saw, or there is none still.
LEMMA CasWins ==
  ASSUME StoredInv, NEW d \in Devices, Cas(d), Wins(reqs[d].seen)
  PROVE  /\ reqs[d].row \in Row /\ row' = reqs[d].row
         /\ row'.rev > top /\ row'.rev <= row'.updated + Burst /\ row'.updated <= clock
         /\ top' = row'.rev
         /\ row # Nothing => Fair(row, row')
<1>. DEFINE r == reqs[d]
<1>1. PlaybackTypeOK /\ Revs /\ Decisions
  BY DEF StoredInv
<1>2. r.phase = "decided" /\ r \in Request
  BY <1>1 DEF Cas, PlaybackTypeOK
<1>3. r.row \in Row /\ r.row.rev \in Nat
  BY <1>2, DecidedTyped DEF Row
<1>4. Decision(r)
  BY <1>1, <1>2 DEF Decisions
<1>5. row' = r.row /\ top' = Max({top, r.row.rev}) /\ r.row.rev <= r.row.updated + Burst
  BY DEF Cas
<1>6. clock \in Nat /\ clock >= 1 /\ top \in Nat
  BY <1>1, ClockAssumption DEF PlaybackTypeOK
<1>7. r.row.rev > top
  <2>1. CASE row = Nothing
    BY <1>1, <1>3, <1>4, <1>6, <2>1 DEF Revs, Decision
  <2>2. CASE row # Nothing
    <3>1. r.seen = top /\ r.seen # Nothing
      BY <1>1, <1>6, <2>2, NothingAssumption DEF Wins, Revs
    <3>. QED
      BY <1>3, <1>4, <1>6, <3>1 DEF Decision
  <2>. QED
    BY <2>1, <2>2
<1>8. top' = r.row.rev
  BY <1>3, <1>5, <1>6, <1>7, MaxOfTwo
<1>9. row # Nothing => Fair(row, r.row)
  BY <1>4 DEF Wins, Decision
<1>10. r.row.updated <= clock
  BY <1>4, <1>6 DEF Decision
<1>. QED
  BY <1>3, <1>5, <1>7, <1>8, <1>9, <1>10

LEMMA CasStep ==
  ASSUME StoredInv, NEW d \in Devices, Cas(d)
  PROVE  StoredInv'
<1>. DEFINE r == reqs[d]
<1>1. PlaybackTypeOK /\ Revs /\ Decisions
  BY DEF StoredInv
<1>2. r.phase = "decided" /\ r \in Request
  BY <1>1 DEF Cas, PlaybackTypeOK
<1>3. /\ r.body \in Inputs \cup {Nothing} /\ r.at \in Ats /\ r.tries \in 1 .. Attempts
      /\ r.row \in Row /\ r.tell \in BOOLEAN
  BY <1>2, DecidedTyped
<1>4. UNCHANGED <<overlap, clock, windowOpen, pending, view>>
  BY DEF Cas, events
<1>5. CASE Wins(r.seen)
  <2>. DEFINE done == [phase |-> "committed", row |-> r.row, tell |-> r.tell]
  <2>1. /\ row' \in Row /\ row'.rev > top /\ row'.rev <= row'.updated + Burst
        /\ row'.updated <= clock /\ top' = row'.rev
    BY <1>5, CasWins
  <2>2. reqs' = [reqs EXCEPT ![d] = done]
    BY <1>5 DEF Cas
  <2>3. done \in Request
    BY <1>3 DEF Request
  <2>4. clock \in 1 .. MaxTime /\ row'.rev \in Nat /\ row'.updated \in Nat /\ top \in Nat
    BY <1>1, <2>1, ClockAssumption DEF PlaybackTypeOK, Row
  <2>5. PlaybackTypeOK'
    <3>1. reqs' \in [Devices -> Request]
      BY <1>1, <2>2, <2>3 DEF PlaybackTypeOK
    <3>2. top' \in 0 .. MaxTime + Burst
      BY <2>1, <2>4, ClockAssumption
    <3>. QED
      BY <1>1, <1>4, <2>1, <3>1, <3>2 DEF PlaybackTypeOK
  <2>6. Revs'
    BY <1>4, <2>1, <2>4, NothingAssumption DEF Revs
  <2>7. Decisions'
    <3>. SUFFICES ASSUME NEW e \in Devices, reqs'[e].phase = "decided" PROVE Decision(reqs[e])'
      BY DEF Decisions
    <3>1. e # d /\ reqs'[e] = reqs[e]
      BY <1>1, <2>2 DEF PlaybackTypeOK
    <3>2. reqs[e] \in Request
      BY <1>1 DEF PlaybackTypeOK
    <3>3. Decision(reqs[e]) /\ reqs[e].seen \in {Nothing} \cup Nat
      BY <1>1, <3>1, <3>2, DecidedTyped DEF Decisions
    <3>4. reqs[e].seen # Nothing => reqs[e].seen <= top
      BY <3>3 DEF Decision
    <3>5. reqs[e].seen # row'.rev
      BY <2>1, <2>4, <3>3, <3>4, NothingAssumption
    <3>6. reqs[e].seen # Nothing => reqs[e].seen <= top'
      BY <2>1, <2>4, <3>3, <3>4
    <3>7. row' # Nothing
      BY <2>1, NothingAssumption
    <3>. QED
      BY <1>4, <3>1, <3>3, <3>5, <3>6, <3>7 DEF Decision
  <2>. QED
    BY <2>5, <2>6, <2>7 DEF StoredInv
<1>6. CASE ~Wins(r.seen)
  <2>. DEFINE next == IF r.tries = Attempts THEN AtRest
                      ELSE [phase |-> "again", body |-> r.body, at |-> r.at, tries |-> r.tries + 1]
  <2>1. reqs' = [reqs EXCEPT ![d] = next] /\ UNCHANGED <<row, top>>
    BY <1>6 DEF Cas
  <2>2. next \in Request /\ next.phase # "decided"
    <3>1. CASE r.tries = Attempts
      BY <3>1 DEF Request, AtRest
    <3>2. CASE r.tries # Attempts
      <4>1. r.tries + 1 \in 2 .. Attempts
        BY <1>3, <3>2, ClockAssumption
      <4>. QED
        BY <1>3, <3>2, <4>1 DEF Request
    <3>. QED
      BY <3>1, <3>2
  <2>3. reqs' \in [Devices -> Request]
    BY <1>1, <2>1, <2>2 DEF PlaybackTypeOK
  <2>4. Decisions'
    <3>. SUFFICES ASSUME NEW e \in Devices, reqs'[e].phase = "decided" PROVE Decision(reqs[e])'
      BY DEF Decisions
    <3>. HIDE DEF next
    <3>1. reqs'[e] = reqs[e]
      BY <1>1, <2>1, <2>2 DEF PlaybackTypeOK
    <3>. QED
      BY <1>1, <1>4, <2>1, <3>1 DEF Decisions, Decision, Fair, Active
  <2>. QED
    BY <1>1, <1>4, <2>1, <2>3, <2>4 DEF StoredInv, PlaybackTypeOK, Revs
<1>. QED
  BY <1>5, <1>6

LEMMA PublishStep ==
  ASSUME StoredInv, NEW d \in Devices, PublishState(d)
  PROVE  StoredInv'
<1>. DEFINE r == reqs[d]
<1>1. PlaybackTypeOK /\ Revs /\ Decisions
  BY DEF StoredInv
<1>2. r.phase = "committed" /\ r \in Request
  BY <1>1 DEF PublishState, PlaybackTypeOK
<1>3. r.row \in Row
  BY <1>2, CommittedTyped
<1>4. Summary(r.row) \in Event
  BY <1>3 DEF Summary, Event, Shown, Row
<1>5. /\ reqs' = [reqs EXCEPT ![d] = AtRest]
      /\ UNCHANGED <<overlap, clock, row, top>>
  BY DEF PublishState
<1>6. reqs' \in [Devices -> Request]
  BY <1>1, <1>5 DEF PlaybackTypeOK, Request
<1>7. windowOpen' \in BOOLEAN /\ pending' \in {Nothing} \cup Event /\ view' \in {Nothing} \cup Event
  BY <1>1, <1>4 DEF PublishState, Shows, events, PlaybackTypeOK
<1>8. Decisions'
  BY <1>1, <1>5 DEF Decisions, Decision, Fair, Active, AtRest, PlaybackTypeOK
<1>. QED
  BY <1>1, <1>5, <1>6, <1>7, <1>8 DEF StoredInv, PlaybackTypeOK, Revs

LEMMA FlushStep == StoredInv /\ FlushPending => StoredInv'
<1>. SUFFICES ASSUME StoredInv, FlushPending PROVE StoredInv'
  OBVIOUS
<1>1. PlaybackTypeOK /\ Revs /\ Decisions
  BY DEF StoredInv
<1>2. UNCHANGED <<overlap, clock, row, top, reqs>>
  BY DEF FlushPending
<1>3. windowOpen' \in BOOLEAN /\ pending' \in {Nothing} \cup Event /\ view' \in {Nothing} \cup Event
  BY <1>1 DEF FlushPending, Shows, PlaybackTypeOK
<1>4. Revs' /\ Decisions'
  BY <1>1, <1>2 DEF Revs, Decisions, Decision, Fair, Active
<1>. QED
  BY <1>1, <1>2, <1>3, <1>4 DEF StoredInv, PlaybackTypeOK

\* A row goes only when the clock has passed every rev it may have.
LEMMA RetainStep == StoredInv /\ Retain => StoredInv'
<1>. SUFFICES ASSUME StoredInv, Retain PROVE StoredInv'
  OBVIOUS
<1>1. PlaybackTypeOK /\ Revs /\ Decisions
  BY DEF StoredInv
<1>2. row' = Nothing /\ UNCHANGED <<overlap, clock, top, reqs, windowOpen, pending, view>>
  BY DEF Retain, events
<1>3. Revs'
  <2>1. row # Nothing /\ row.updated < clock - Retention
    BY DEF Retain, Expired
  <2>2. row.updated \in Nat /\ top \in Nat /\ clock \in Nat
    BY <1>1, <2>1, ClockAssumption DEF PlaybackTypeOK, Row
  <2>3. top < clock
    BY <1>1, <2>1, <2>2, ClockAssumption DEF Revs
  <2>. QED
    BY <1>2, <2>3 DEF Revs
<1>4. Decisions'
  <2>. SUFFICES ASSUME NEW e \in Devices, reqs'[e].phase = "decided" PROVE Decision(reqs[e])'
    BY DEF Decisions
  <2>. DEFINE r == reqs[e]
  <2>1. reqs'[e] = r /\ r.phase = "decided"
    BY <1>2
  <2>2. Decision(r)
    BY <1>1, <2>1 DEF Decisions
  <2>3. r.row.rev \in Nat /\ r.row.updated \in Nat
    BY <1>1, <2>1, DecidedTyped DEF PlaybackTypeOK, Row
  <2>4. row # Nothing /\ row.updated < clock - Retention
    BY DEF Retain, Expired
  <2>5. row.updated \in Nat /\ top \in Nat /\ clock \in Nat
    BY <1>1, <2>4, ClockAssumption DEF PlaybackTypeOK, Row
  <2>6. top < clock - 1
    BY <1>1, <2>4, <2>5, ClockAssumption DEF Revs
  <2>7. r.row.rev > top
    BY <2>2, <2>3, <2>5, <2>6 DEF Decision
  <2>. QED
    BY <1>2, <2>1, <2>2, <2>7 DEF Decision
<1>. QED
  BY <1>1, <1>2, <1>3, <1>4 DEF StoredInv, PlaybackTypeOK

LEMMA TickStep == StoredInv /\ Tick => StoredInv'
<1>. SUFFICES ASSUME StoredInv, Tick PROVE StoredInv'
  OBVIOUS
<1>1. PlaybackTypeOK /\ Revs /\ Decisions
  BY DEF StoredInv
<1>2. /\ clock < MaxTime /\ clock' = clock + 1
      /\ UNCHANGED <<overlap, row, top, reqs, windowOpen, pending, view>>
  BY DEF Tick, events
<1>3. clock \in 1 .. MaxTime /\ clock' \in 1 .. MaxTime /\ top \in Nat
  BY <1>1, <1>2, ClockAssumption DEF PlaybackTypeOK
<1>4. Revs'
  BY <1>1, <1>2, <1>3 DEF Revs, PlaybackTypeOK, Row
<1>5. Decisions'
  <2>. SUFFICES ASSUME NEW e \in Devices, reqs'[e].phase = "decided" PROVE Decision(reqs[e])'
    BY DEF Decisions
  <2>1. reqs'[e] = reqs[e] /\ reqs[e].phase = "decided"
    BY <1>2
  <2>2. Decision(reqs[e])
    BY <1>1, <2>1 DEF Decisions
  <2>3. reqs[e].row.updated = clock
    BY <2>1 DEF Tick
  <2>4. reqs'[e].row.updated \in clock' - 1 .. clock'
    BY <1>2, <1>3, <2>1, <2>3
  <2>. QED
    BY <1>2, <2>1, <2>2, <2>4 DEF Decision, Fair, Active
<1>. QED
  BY <1>1, <1>2, <1>3, <1>4, <1>5 DEF StoredInv, PlaybackTypeOK

LEMMA StoredStep == StoredInv /\ [PlaybackNext]_playbackVars => StoredInv'
<1>. SUFFICES ASSUME StoredInv, [PlaybackNext]_playbackVars PROVE StoredInv'
  OBVIOUS
<1>1. ASSUME NEW d \in Devices, NEW i \in Inputs, NEW at \in Ats, Put(d, i, at) PROVE StoredInv'
  <2>1. 1 \in 1 .. Attempts
    BY ClockAssumption
  <2>. QED
    BY <1>1, <2>1, DecidedStep DEF Put
<1>2. ASSUME NEW d \in Devices, Delete(d) PROVE StoredInv'
  <2>1. 1 \in 1 .. Attempts
    BY ClockAssumption
  <2>2. PICK at \in Ats : Decided(d, Nothing, at, 1)
    BY <1>2 DEF Delete
  <2>. QED
    BY <2>1, <2>2, DecidedStep
<1>3. ASSUME NEW d \in Devices, TryAgain(d) PROVE StoredInv'
  <2>1. reqs[d] \in Request /\ reqs[d].phase = "again"
    BY <1>3 DEF StoredInv, PlaybackTypeOK, TryAgain
  <2>2. /\ reqs[d].body \in Inputs \cup {Nothing} /\ reqs[d].at \in Ats
        /\ reqs[d].tries \in 1 .. Attempts
    BY <2>1, AgainTyped, ClockAssumption
  <2>. QED
    BY <1>3, <2>2, DecidedStep DEF TryAgain
<1>4. ASSUME NEW d \in Devices, Cas(d) PROVE StoredInv'
  BY <1>4, CasStep
<1>5. ASSUME NEW d \in Devices, PublishState(d) PROVE StoredInv'
  BY <1>5, PublishStep
<1>6. CASE FlushPending
  BY <1>6, FlushStep
<1>7. CASE Retain
  BY <1>7, RetainStep
<1>8. CASE Tick
  BY <1>8, TickStep
<1>9. CASE UNCHANGED playbackVars
  BY <1>9 DEF playbackVars, StoredInv, PlaybackTypeOK, Revs, Decisions, Decision, Fair, Active
<1>. QED
  BY <1>1, <1>2, <1>3, <1>4, <1>5, <1>6, <1>7, <1>8, <1>9 DEF PlaybackNext

-----------------------------------------------------------------------------
(***************************************************************************)
(* What a device that watches shows.                                       *)
(***************************************************************************)

\* The revs are numbers.
LEMMA Numbers ==
  ASSUME StoredInv
  PROVE  /\ top \in Nat /\ clock \in Nat
         /\ row # Nothing => row.rev \in Nat
         /\ view # Nothing => view.rev \in Nat
         /\ pending # Nothing => pending.rev \in Nat
<1>1. top \in Nat /\ clock \in Nat
  BY ClockAssumption DEF StoredInv, PlaybackTypeOK
<1>2. row # Nothing => row.rev \in Nat
  BY DEF StoredInv, PlaybackTypeOK, Row
<1>3. (view # Nothing => view.rev \in Nat) /\ (pending # Nothing => pending.rev \in Nat)
  BY DEF StoredInv, PlaybackTypeOK, Event
<1>. QED
  BY <1>1, <1>2, <1>3

LEMMA WatchedInit == PlaybackInit => Watched
BY DEF PlaybackInit, AtRest, Watched, Alone, Busy, InOrder, Requests, LastTold

\* A step of a request that was not busy and decides, or of one that gives up or tries again.
LEMMA DecidedWatched ==
  ASSUME StoredInv, Watched, ~overlap, NEW d \in Devices, ~Busy(d), NEW body \in Inputs \cup {Nothing}, NEW at \in Ats,
         NEW tries \in 1 .. Attempts, Decided(d, body, at, tries)
  PROVE  Watched'
<1>1. /\ UNCHANGED <<overlap, clock, row, top, windowOpen, pending, view>>
      /\ \A e \in Devices : ~Busy(e)
  BY DEF Decided, events, Serial, Busy
<1>2. PICK r : reqs' = [reqs EXCEPT ![d] = r] /\ (r = AtRest \/ (r.phase = "decided" /\ SilentDecision(r)))
  <2>1. CASE body # Nothing /\ Refused(row, d, body, at)
    BY <2>1 DEF Decided
  <2>2. CASE ~(body # Nothing /\ Refused(row, d, body, at))
    <3>1. PICK new : new = IF body = Nothing THEN DeleteRow(row, d) ELSE PutRow(row, d, body, at)
      OBVIOUS
    <3>2. PICK saw : saw = IF row = Nothing THEN Nothing ELSE row.rev
      OBVIOUS
    <3>3. PICK tell : tell = (body = Nothing \/ Significant(row, new, body.far))
      OBVIOUS
    <3>4. PICK r : /\ r = [phase |-> "decided", body |-> body, at |-> at, tries |-> tries,
                           seen |-> saw, row |-> new, tell |-> tell]
                   /\ reqs' = [reqs EXCEPT ![d] = r]
      BY <2>2, <3>1, <3>2, <3>3, Zenon DEF Decided
    <3>5. ASSUME ~r.tell PROVE saw # Nothing /\ State(new) = State(row)
      <4>1. body # Nothing /\ ~Significant(row, new, body.far)
        BY <3>3, <3>4, <3>5
      <4>2. Active(row) # Nothing /\ Shown(row) = Shown(new)
        BY <4>1 DEF Significant
      <4>3. row # Nothing /\ ~row.cleared
        BY <4>2 DEF Active
      <4>4. new = PutRow(row, d, body, at) /\ ~new.cleared
        BY <3>1, <4>1 DEF PutRow
      <4>5. saw # Nothing
        BY <3>2, <4>3, Numbers, NothingAssumption
      <4>. QED
        BY <4>2, <4>3, <4>4, <4>5 DEF State, Summary
    <3>6. SilentDecision(r)
      BY <3>4, <3>5 DEF SilentDecision
    <3>. QED
      BY <3>4, <3>6
  <2>. QED
    BY <2>1, <2>2
<1>3. /\ reqs'[d] = r /\ reqs'[d].phase # "committed"
      /\ \A e \in Devices \ {d} : reqs'[e] = reqs[e] /\ reqs'[e].phase \notin {"decided", "committed"}
  BY <1>1, <1>2 DEF StoredInv, PlaybackTypeOK, Busy, AtRest
<1>4. Alone' /\ InOrder'
  BY <1>1, <1>3 DEF Watched, Alone, Busy, InOrder
<1>5. Requests'
  <2>. SUFFICES ASSUME NEW e \in Devices, reqs'[e].phase \in {"decided", "committed"}
                PROVE  reqs'[e].phase = "decided" /\ SilentDecision(reqs[e])'
    BY DEF Requests
  <2>1. e = d /\ reqs'[e] = r /\ r.phase = "decided"
    BY <1>3
  <2>2. SilentDecision(r)
    BY <1>2, <2>1 DEF AtRest
  <2>. QED
    BY <1>1, <2>1, <2>2 DEF SilentDecision
<1>6. LastTold'
  <2>1. ~Untold
    BY <1>1 DEF Untold, Busy
  <2>. QED
    BY <1>1, <2>1 DEF Watched, LastTold, Last
<1>. QED
  BY <1>4, <1>5, <1>6 DEF Watched

LEMMA CasWatched ==
  ASSUME StoredInv, Watched, ~overlap, NEW d \in Devices, Cas(d)
  PROVE  Watched'
<1>1. /\ reqs[d].phase = "decided" /\ reqs[d] \in Request
      /\ UNCHANGED <<overlap, clock, windowOpen, pending, view>>
  BY DEF Cas, events, StoredInv, PlaybackTypeOK
<1>2. \A e \in Devices \ {d} : ~Busy(e)
  BY <1>1 DEF Watched, Alone, Busy
<1>3. ~Untold
  BY <1>1, <1>2 DEF Untold, Busy
<1>4. CASE Wins(reqs[d].seen)
  <2>1. /\ row' = reqs[d].row /\ row' \in Row /\ row'.rev > top /\ top' = row'.rev
    BY <1>4, CasWins
  <2>2. row' # Nothing /\ row'.rev \in Nat
    BY <2>1, NothingAssumption DEF Row
  <2>3. /\ reqs'[d].phase = "committed" /\ reqs'[d].row = row' /\ reqs'[d].tell = reqs[d].tell
        /\ \A e \in Devices \ {d} : reqs'[e] = reqs[e] /\ reqs'[e].phase \notin {"decided", "committed"}
    BY <1>2, <1>4, <2>1 DEF Cas, StoredInv, PlaybackTypeOK, Busy
  <2>4. Alone'
    BY <2>3 DEF Alone, Busy
  <2>5. /\ view # Nothing => view.rev < top'
        /\ pending # Nothing => pending.rev < top'
    BY <2>1, <2>2, Numbers DEF Watched, InOrder
  <2>6. InOrder'
    BY <1>1, <2>1, <2>2, <2>5, Numbers DEF Watched, InOrder
  <2>7. Requests'
    BY <1>1, <2>1, <2>3, <2>5 DEF Requests, Unpublished
  <2>8. LastTold'
    <3>. SUFFICES ASSUME ~reqs[d].tell PROVE Last # Nothing /\ Last.state = State(row')
      BY <1>1, <2>3 DEF LastTold, Untold, Last, State
    <3>1. SilentDecision(reqs[d])
      BY <1>1 DEF Watched, Requests
    <3>2. row # Nothing /\ reqs[d].seen = row.rev
      BY <1>4, <3>1 DEF SilentDecision, Wins
    <3>3. State(row') = State(row)
      BY <2>1, <3>1, <3>2 DEF SilentDecision
    <3>. QED
      BY <1>3, <3>2, <3>3 DEF Watched, LastTold
  <2>. QED
    BY <2>4, <2>6, <2>7, <2>8 DEF Watched
<1>5. CASE ~Wins(reqs[d].seen)
  <2>1. PICK r : reqs' = [reqs EXCEPT ![d] = r] /\ r.phase \notin {"decided", "committed"} /\ UNCHANGED <<row, top>>
    BY <1>5 DEF Cas, AtRest
  <2>2. \A e \in Devices : reqs'[e].phase \notin {"decided", "committed"}
    BY <1>2, <2>1 DEF StoredInv, PlaybackTypeOK, Busy
  <2>. QED
    BY <1>1, <1>3, <2>1, <2>2 DEF Watched, Alone, Busy, InOrder, Requests, LastTold, Last, Untold
<1>. QED
  BY <1>4, <1>5

\* The event is newer than what the device shows and than what the window holds back.
LEMMA PublishWatched ==
  ASSUME StoredInv, Watched, ~overlap, NEW d \in Devices, PublishState(d)
  PROVE  Watched'
<1>1. /\ reqs[d].phase = "committed" /\ reqs[d] \in Request
      /\ UNCHANGED <<overlap, clock, row, top>> /\ reqs' = [reqs EXCEPT ![d] = AtRest]
  BY DEF PublishState, StoredInv, PlaybackTypeOK
<1>2. \A e \in Devices \ {d} : ~Busy(e)
  BY <1>1 DEF Watched, Alone, Busy
<1>3. \A e \in Devices : reqs'[e].phase \notin {"decided", "committed"}
  BY <1>1, <1>2 DEF StoredInv, PlaybackTypeOK, Busy, AtRest
<1>4. Alone' /\ Requests'
  BY <1>3 DEF Alone, Busy, Requests
<1>5. Unpublished(reqs[d]) /\ reqs[d].row \in Row /\ top \in Nat
  BY <1>1, CommittedTyped, Numbers DEF Watched, Requests
<1>6. PICK e : e = Summary(reqs[d].row)
  OBVIOUS
<1>7. e.rev = top /\ (row # Nothing => e.state = State(row))
  BY <1>5, <1>6 DEF Unpublished, State, Summary
<1>8. e # Nothing
  <2>1. e \in Event
    BY <1>5, <1>6 DEF Summary, Event, Shown, Row
  <2>. QED
    BY <2>1, NothingAssumption
<1>9. CASE ~reqs[d].tell
  <2>1. UNCHANGED <<windowOpen, pending, view>>
    BY <1>9 DEF PublishState, events
  <2>2. ~Untold
    BY <1>2, <1>9 DEF Untold, Busy
  <2>. QED
    BY <1>1, <1>4, <2>1, <2>2 DEF Watched, InOrder, LastTold, Last
<1>10. CASE reqs[d].tell /\ windowOpen
  <2>1. pending' = e /\ UNCHANGED <<windowOpen, view>>
    BY <1>6, <1>10 DEF PublishState
  <2>2. InOrder'
    BY <1>1, <1>5, <1>7, <1>10, <2>1, Numbers DEF InOrder, Unpublished
  <2>3. LastTold'
    BY <1>1, <1>7, <1>8, <2>1 DEF LastTold, Last, State
  <2>. QED
    BY <1>4, <2>2, <2>3 DEF Watched
<1>11. CASE reqs[d].tell /\ ~windowOpen
  <2>1. pending = Nothing
    BY <1>11 DEF Watched, InOrder
  <2>2. view' = Shows(e) /\ windowOpen' = TRUE /\ UNCHANGED pending
    BY <1>6, <1>11 DEF PublishState
  <2>3. view = Nothing \/ e.rev > view.rev
    BY <1>5, <1>7, Numbers DEF Unpublished
  <2>4. view' = e
    BY <2>2, <2>3 DEF Shows
  <2>5. InOrder'
    BY <1>1, <1>5, <1>7, <2>1, <2>2, <2>4 DEF InOrder
  <2>6. LastTold'
    BY <1>1, <1>7, <1>8, <2>1, <2>2, <2>4 DEF LastTold, Last, State
  <2>. QED
    BY <1>4, <2>5, <2>6 DEF Watched
<1>. QED
  BY <1>9, <1>10, <1>11

\* The window ends: what it held back is newer than what is shown.
LEMMA FlushWatched ==
  ASSUME StoredInv, Watched, ~overlap, FlushPending
  PROVE  Watched'
<1>1. /\ UNCHANGED <<overlap, clock, row, top, reqs>> /\ pending' = Nothing
      /\ view' = IF pending = Nothing THEN view ELSE Shows(pending)
  BY DEF FlushPending
<1>2. view' = Last
  <2>1. CASE pending = Nothing
    BY <1>1, <2>1 DEF Last
  <2>2. CASE pending # Nothing
    <3>1. view = Nothing \/ pending.rev > view.rev
      BY <2>2, Numbers DEF Watched, InOrder
    <3>. QED
      BY <1>1, <2>2, <3>1 DEF Last, Shows
  <2>. QED
    BY <2>1, <2>2
<1>3. Alone'
  BY <1>1 DEF Watched, Alone, Busy
<1>4. InOrder'
  BY <1>1, <1>2 DEF Watched, InOrder, Last
<1>5. Requests'
  BY <1>1, <1>2 DEF Watched, Requests, SilentDecision, Unpublished, State, Last
<1>6. LastTold'
  BY <1>1, <1>2 DEF Watched, LastTold, Untold, Last, State
<1>. QED
  BY <1>3, <1>4, <1>5, <1>6 DEF Watched

LEMMA WatchedStep ==
  ASSUME StoredInv, Watched, ~overlap, [PlaybackNext]_playbackVars
  PROVE  Watched'
<1>1. ASSUME NEW d \in Devices, NEW i \in Inputs, NEW at \in Ats, Put(d, i, at) PROVE Watched'
  <2>1. 1 \in 1 .. Attempts /\ ~Busy(d)
    BY <1>1, ClockAssumption DEF Put, Busy, AtRest
  <2>. QED
    BY <1>1, <2>1, DecidedWatched DEF Put
<1>2. ASSUME NEW d \in Devices, Delete(d) PROVE Watched'
  <2>1. 1 \in 1 .. Attempts /\ ~Busy(d)
    BY <1>2, ClockAssumption DEF Delete, Busy, AtRest
  <2>2. PICK at \in Ats : Decided(d, Nothing, at, 1)
    BY <1>2 DEF Delete
  <2>. QED
    BY <2>1, <2>2, DecidedWatched
<1>3. ASSUME NEW d \in Devices, TryAgain(d) PROVE Watched'
  <2>1. reqs[d] \in Request /\ reqs[d].phase = "again" /\ ~Busy(d)
    BY <1>3 DEF StoredInv, PlaybackTypeOK, TryAgain, Busy
  <2>2. /\ reqs[d].body \in Inputs \cup {Nothing} /\ reqs[d].at \in Ats
        /\ reqs[d].tries \in 1 .. Attempts
    BY <2>1, AgainTyped, ClockAssumption
  <2>. QED
    BY <1>3, <2>1, <2>2, DecidedWatched DEF TryAgain
<1>4. ASSUME NEW d \in Devices, Cas(d) PROVE Watched'
  BY <1>4, CasWatched
<1>5. ASSUME NEW d \in Devices, PublishState(d) PROVE Watched'
  BY <1>5, PublishWatched
<1>6. CASE FlushPending
  BY <1>6, FlushWatched
<1>7. CASE Retain
  <2>1. row' = Nothing /\ UNCHANGED <<overlap, clock, top, reqs, windowOpen, pending, view>>
    BY <1>7 DEF Retain, events
  <2>. QED
    BY <2>1 DEF Watched, Alone, Busy, InOrder, Requests, SilentDecision, Unpublished, LastTold
<1>8. CASE Tick
  <2>1. UNCHANGED <<overlap, row, top, reqs, windowOpen, pending, view>>
    BY <1>8 DEF Tick, events
  <2>. QED
    BY <2>1 DEF Watched, Alone, Busy, InOrder, Requests, SilentDecision, Unpublished, LastTold, Untold, Last
<1>9. CASE UNCHANGED playbackVars
  BY <1>9 DEF playbackVars, Watched, Alone, Busy, InOrder, Requests, SilentDecision, Unpublished, LastTold, Untold, Last
<1>. QED
  BY <1>1, <1>2, <1>3, <1>4, <1>5, <1>6, <1>7, <1>8, <1>9 DEF PlaybackNext

LEMMA PlaybackInvInit == PlaybackInit => PlaybackInv
BY StoredInit, WatchedInit DEF PlaybackInv

LEMMA PlaybackInvStep == PlaybackInv /\ [PlaybackNext]_playbackVars => PlaybackInv'
<1>. SUFFICES ASSUME PlaybackInv, [PlaybackNext]_playbackVars PROVE PlaybackInv'
  OBVIOUS
<1>1. UNCHANGED overlap
  BY DEF PlaybackNext, playbackVars, Put, Delete, TryAgain, Decided, Cas, PublishState, FlushPending, Retain, Tick
<1>. QED
  BY <1>1, StoredStep, WatchedStep DEF PlaybackInv

\* The inductive invariant: types, the rev of the row and of a row that is gone, decisions against the row, and on
\* SQLite the events against what they tell.
THEOREM PlaybackInvariance == PlaybackSpec => []PlaybackInv
BY PlaybackInvInit, PlaybackInvStep, PTL DEF PlaybackSpec

\* The row, the requests, the window and what a watcher shows keep their types, for any bodies and clocks of devices.
THEOREM PlaybackTypeCorrect == PlaybackSpec => []PlaybackTypeOK
<1>1. PlaybackInv => PlaybackTypeOK
  BY DEF PlaybackInv, StoredInv
<1>. QED
  BY <1>1, PlaybackInvariance, PTL

\* The row changes only by a compare-and-set that won, or when it is deleted.
LEMMA RowChanges ==
  ASSUME StoredInv, [PlaybackNext]_playbackVars, row' # row, row' # Nothing
  PROVE  \E d \in Devices : Cas(d) /\ Wins(reqs[d].seen)
<1>1. PICK d \in Devices : Cas(d)
  BY DEF PlaybackNext, playbackVars, events, Put, Delete, TryAgain, Decided, PublishState, FlushPending, Retain, Tick
<1>. QED
  BY <1>1 DEF Cas

\* Every write has a rev above all the revs there ever were, although retention deletes the row with its rev and
\* transactions overlap: a client never takes a new state for an old one.
THEOREM RevsGrow == PlaybackSpec => RevGrows
<1>1. PlaybackInv /\ [PlaybackNext]_playbackVars => (row' # row /\ row' # Nothing => row'.rev > top)
  <2>. SUFFICES ASSUME PlaybackInv, [PlaybackNext]_playbackVars, row' # row, row' # Nothing PROVE row'.rev > top
    OBVIOUS
  <2>. QED
    BY RowChanges, CasWins DEF PlaybackInv
<1>. QED
  BY <1>1, PlaybackInvariance, PTL DEF PlaybackSpec, RevGrows

\* A player never takes the state from a newer one of another device, nor back from the device that took it over,
\* however many attempts its write needed.
THEOREM TakeoversFair == PlaybackSpec => NoStaleTakeover
<1>. DEFINE Takeover ==
       row' # row /\ Active(row) # Nothing /\ row' # Nothing /\ ~row'.cleared =>
         /\ row'.device # row.device => row'.at >= row.at
         /\ [device |-> row'.device, session |-> row'.session] # row.handoff
<1>1. PlaybackInv /\ [PlaybackNext]_playbackVars => Takeover
  <2>. SUFFICES ASSUME PlaybackInv, [PlaybackNext]_playbackVars,
                       row' # row, Active(row) # Nothing, row' # Nothing, ~row'.cleared
                PROVE  /\ row'.device # row.device => row'.at >= row.at
                       /\ [device |-> row'.device, session |-> row'.session] # row.handoff
    OBVIOUS
  <2>1. row # Nothing
    BY DEF Active
  <2>2. Fair(row, row')
    BY <2>1, RowChanges, CasWins DEF PlaybackInv
  <2>. QED
    BY <2>2 DEF Fair
<1>. QED
  BY <1>1, PlaybackInvariance, PTL DEF PlaybackSpec, NoStaleTakeover

\* SQLite: when no write and no event is under way, a device that watches shows who plays what, for any number of
\* writes a window merged and any heartbeats that went by in silence.
THEOREM WatchersAgree == PlaybackSpec => []WatcherAgrees
<1>1. PlaybackInv => WatcherAgrees
  <2>. SUFFICES ASSUME PlaybackInv, ~overlap, Quiet, row # Nothing
                PROVE  view # Nothing /\ view.state = Summary(row).state
    BY DEF WatcherAgrees
  <2>1. InOrder /\ LastTold
    BY DEF PlaybackInv, Watched
  <2>2. ~Untold /\ pending = Nothing
    BY <2>1 DEF Quiet, Untold, InOrder
  <2>. QED
    BY <2>1, <2>2 DEF LastTold, Last, State
<1>. QED
  BY <1>1, PlaybackInvariance, PTL
=============================================================================
