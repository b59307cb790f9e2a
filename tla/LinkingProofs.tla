----------------------------- MODULE LinkingProofs -----------------------------
(***************************************************************************)
(* Proofs about Linking: types, one session a link, and no word taken      *)
(* back, for every set of users, devices and polls and every bound.        *)
(*                                                                         *)
(* Every change of a link row but the completion is a Moved: a final       *)
(* status stays, nothing becomes completed, and a link that reads as       *)
(* denied or cancelled goes on to.  The invariant adds what makes the      *)
(* completion fit in: polls, decisions and words are about links there are.*)
(***************************************************************************)
EXTENDS Linking, SequenceTheorems, TLAPS

\* The link reads as denied or cancelled, at any time.
Hopeless(k) ==
  k.status \in {"denied", "cancelled"} \/ (k.status \in Unfinished /\ ApproverGone(k))

\* What a step other than its completion makes of a link.
Moved(k, new) ==
  /\ new \in LinkRow
  /\ k.status \in Final => new.status = k.status
  /\ k.status \in Unfinished => new.status # "completed"
  /\ Hopeless(k) => Hopeless(new)

LinksMove ==
  /\ links' \in Seq(LinkRow) /\ Len(links) <= Len(links') /\ Len(links') <= MaxLinks
  /\ \A l \in Link : Moved(links[l], links'[l])

\* A word is true of the link, for good.
True(word, k) ==
  /\ word \in {"denied", "cancelled"} => Hopeless(k)
  /\ word = "completed" => k.status = "completed"

\* Polls and decisions under way are about links there are.
Rooted ==
  /\ \A p \in Polls : polls[p].phase # "idle" => polls[p].link \in Link
  /\ \A a \in Approvers : asks[a].phase \in {"again", "write"} => asks[a].of.link \in Link

\* Nothing is said of a link before it is there, and what is said of one is true.
Words ==
  \A l \in 1 .. MaxLinks :
    /\ l \notin Link => said[l] = {} /\ sessions[l] = 0
    /\ l \in Link => \A word \in said[l] : True(word, links[l])

IInv == TypeOK /\ Rooted /\ Words /\ OneSession

-----------------------------------------------------------------------------
(* Link rows. *)

LEMMA LinkIs ==
  ASSUME links \in Seq(LinkRow)
  PROVE  Link = 1 .. Len(links) /\ Len(links) \in Nat /\ links \in [Link -> LinkRow]
BY LenProperties DEF Link

LEMMA ClockIs ==
  ASSUME TypeOK
  PROVE  clock \in Nat
BY BoundsAssumption DEF TypeOK

\* Rows rewritten in place are a sequence of as many rows.
LEMMA Rewritten ==
  ASSUME links \in Seq(LinkRow), NEW f \in [Link -> LinkRow]
  PROVE  f \in Seq(LinkRow) /\ DOMAIN f = Link /\ Len(f) = Len(links)
<1>1. Link = 1 .. Len(links) /\ Len(links) \in Nat
  BY LinkIs
<1>2. f \in Seq(LinkRow)
  BY <1>1, SeqDef
<1>3. Len(f) \in Nat /\ DOMAIN f = 1 .. Len(f)
  BY <1>2, LenProperties
<1>. QED
  BY <1>1, <1>2, <1>3

LEMMA ErasedRow ==
  ASSUME NEW k \in LinkRow
  PROVE  /\ Erased(k) \in LinkRow
         /\ Erased(k).status = k.status /\ Erased(k).approver = k.approver /\ Erased(k).mode = k.mode
BY DEF LinkRow, Erased

\* A row goes to a final status without its report.
LEMMA ErasedMoved ==
  ASSUME NEW k \in LinkRow, k.status \in Unfinished, NEW word \in {"denied", "cancelled"}, NEW mismatch \in BOOLEAN
  PROVE  /\ Moved(k, [Erased(k) EXCEPT !.status = word])
         /\ Moved(k, [Erased(k) EXCEPT !.status = word, !.mismatch = mismatch])
         /\ [Erased(k) EXCEPT !.status = word].status = word
         /\ [Erased(k) EXCEPT !.status = word, !.mismatch = mismatch].status = word
<1>1. PICK e \in LinkRow : e = Erased(k)
  BY ErasedRow
<1>2. PICK final : final = [e EXCEPT !.status = word]
  OBVIOUS
<1>3. PICK wrong : wrong = [e EXCEPT !.status = word, !.mismatch = mismatch]
  OBVIOUS
<1>4. final \in LinkRow /\ final.status = word
  BY <1>2 DEF LinkRow, Final
<1>5. wrong \in LinkRow /\ wrong.status = word
  BY <1>3 DEF LinkRow, Final
<1>6. k.status \notin Final /\ word # "completed"
  BY DEF Unfinished, Final
<1>7. Moved(k, final) /\ Moved(k, wrong)
  BY <1>4, <1>5, <1>6 DEF Moved, Hopeless
<1>. QED
  BY <1>1, <1>2, <1>3, <1>4, <1>5, <1>7

LEMMA SameMoved ==
  ASSUME NEW k \in LinkRow
  PROVE  Moved(k, k)
BY DEF Moved, Unfinished, Final

\* The rows of a set of moves make the links move.
LEMMA AllMove ==
  ASSUME TypeOK, NEW f, links' = f, DOMAIN f = Link, \A l \in Link : Moved(links[l], f[l]),
         f = [l \in Link |-> f[l]]
  PROVE  LinksMove /\ Len(links') = Len(links) /\ DOMAIN links' = Link
<1>1. f \in [Link -> LinkRow]
  BY DEF Moved
<1>. QED
  BY <1>1, Rewritten, LinkIs DEF LinksMove, TypeOK

LEMMA OneMoves ==
  ASSUME TypeOK, NEW l \in Link, NEW new, Moved(links[l], new), links' = [links EXCEPT ![l] = new]
  PROVE  LinksMove /\ Len(links') = Len(links) /\ DOMAIN links' = Link /\ links'[l] = new
<1>. DEFINE f == [links EXCEPT ![l] = new]
<1>1. links \in [Link -> LinkRow]
  BY LinkIs DEF TypeOK
<1>2. DOMAIN f = Link /\ f = [k \in Link |-> f[k]] /\ f[l] = new
  BY <1>1
<1>3. \A k \in Link : Moved(links[k], f[k])
  BY <1>1, SameMoved
<1>. HIDE DEF f
<1>4. links' = f
  BY DEF f
<1>. QED
  BY <1>2, <1>3, <1>4, AllMove

LEMMA NoneMove ==
  ASSUME TypeOK, links' = links
  PROVE  LinksMove /\ Len(links') = Len(links) /\ DOMAIN links' = Link
<1>1. links \in [Link -> LinkRow]
  BY LinkIs DEF TypeOK
<1>2. \A l \in Link : Moved(links[l], links[l])
  BY <1>1, SameMoved
<1>. QED
  BY <1>1, <1>2, LinkIs DEF LinksMove, TypeOK

LEMMA NewRow ==
  ASSUME NEW mode \in {"request", "invite"}, NEW user \in Users \cup {Nobody}, NEW approver \in Approvers \cup {Nobody},
         NEW claimant \in Newcomers \cup {Nobody}, NEW at \in Nat
  PROVE  /\ NewLink(mode, user, approver, claimant, at) \in LinkRow
         /\ NewLink(mode, user, approver, claimant, at).status = "pending"
BY BoundsAssumption DEF NewLink, LinkRow, Unfinished

\* A link is made behind the others, which may have moved.
LEMMA AppendMoves ==
  ASSUME TypeOK, NEW f, f \in [Link -> LinkRow], \A l \in Link : Moved(links[l], f[l]),
         NEW new \in LinkRow, new.status = "pending", links' = Append(f, new), CanCreate
  PROVE  /\ LinksMove /\ Len(links') = Len(links) + 1 /\ Link \subseteq DOMAIN links'
         /\ \A l \in DOMAIN links' : l \notin Link => links'[l].status = "pending"
<1>1. f \in Seq(LinkRow) /\ DOMAIN f = Link /\ Len(f) = Len(links)
  BY Rewritten DEF TypeOK
<1>2. Link = 1 .. Len(links) /\ Len(links) \in Nat /\ Len(links) < MaxLinks /\ MaxLinks \in Nat
  BY LinkIs, BoundsAssumption DEF TypeOK, CanCreate
<1>3. /\ links' \in Seq(LinkRow) /\ Len(links') = Len(links) + 1
      /\ \A l \in 1 .. Len(links) : links'[l] = f[l]
      /\ links'[Len(links) + 1] = new
  BY <1>1, AppendProperties
<1>4. DOMAIN links' = 1 .. Len(links) + 1
  BY <1>3, LenProperties
<1>. QED
  BY <1>2, <1>3, <1>4 DEF LinksMove

LEMMA DomainGrows ==
  ASSUME TypeOK, LinksMove
  PROVE  /\ Link \subseteq DOMAIN links' /\ DOMAIN links' \subseteq 1 .. MaxLinks
         /\ Len(links) \in Nat /\ Len(links') \in Nat
         /\ Link = 1 .. Len(links) /\ DOMAIN links' = 1 .. Len(links')
<1>1. DOMAIN links' = 1 .. Len(links') /\ Len(links') \in Nat
  BY LenProperties DEF LinksMove
<1>. QED
  BY <1>1, LinkIs, BoundsAssumption DEF LinksMove, TypeOK

-----------------------------------------------------------------------------
(* What steps have in common. *)

LEMMA IdlePoll == NoPoll \in PollRow /\ NoAsk \in AskRow
BY DEF PollRow, AskRow

BusyPoll == [phase : {"read", "parked", "waiting", "completing"}, link : 1 .. MaxLinks,
             known : Known, lost : 0 .. Attempts, at : Nat]

LEMMA BusyIs ==
  /\ BusyPoll \subseteq PollRow
  /\ \A r \in PollRow : r.phase # "idle" => r \in BusyPoll
BY DEF PollRow, BusyPoll, NoPoll

LEMMA WaitingPoll ==
  ASSUME NEW r \in PollRow, r.phase # "idle", NEW phase \in {"read", "parked", "waiting", "completing"}, NEW at \in Nat
  PROVE  /\ r.link \in 1 .. MaxLinks /\ r.lost \in 0 .. Attempts /\ r.known \in Known
         /\ [r EXCEPT !.phase = phase] \in PollRow /\ [r EXCEPT !.phase = phase].link = r.link
         /\ [r EXCEPT !.phase = phase, !.at = at] \in PollRow
         /\ [r EXCEPT !.phase = phase, !.at = at].link = r.link
<1>1. r \in BusyPoll
  BY BusyIs
<1>2. /\ [r EXCEPT !.phase = phase] \in BusyPoll
      /\ [r EXCEPT !.phase = phase].link = r.link
  BY <1>1 DEF BusyPoll
<1>3. /\ [r EXCEPT !.phase = phase, !.at = at] \in BusyPoll
      /\ [r EXCEPT !.phase = phase, !.at = at].link = r.link
  BY <1>1 DEF BusyPoll
<1>4. r.link \in 1 .. MaxLinks /\ r.lost \in 0 .. Attempts /\ r.known \in Known
  BY <1>1 DEF BusyPoll
<1>. QED
  BY <1>2, <1>3, <1>4, BusyIs

\* Waking keeps the polls in their types and on their links.
LEMMA WakingKeeps ==
  ASSUME NEW slots \in [Polls -> PollRow], NEW set, NEW known,
         \A p \in Polls : slots[p].phase # "idle" => slots[p].link \in known
  PROVE  /\ Woken(slots, set) \in [Polls -> PollRow]
         /\ \A p \in Polls : Woken(slots, set)[p].phase # "idle" => Woken(slots, set)[p].link \in known
<1>1. ASSUME NEW p \in Polls
      PROVE  /\ Woken(slots, set)[p] \in PollRow
             /\ Woken(slots, set)[p].phase # "idle" => Woken(slots, set)[p].link \in known
  <2>1. CASE slots[p].phase = "waiting" /\ slots[p].link \in set
    <3>1. Woken(slots, set)[p] = [slots[p] EXCEPT !.phase = "read"]
      BY <2>1 DEF Woken
    <3>2. slots[p] \in PollRow /\ slots[p].phase # "idle"
      BY <2>1
    <3>. QED
      BY <3>1, <3>2, WaitingPoll, 0 \in Nat
  <2>2. CASE ~(slots[p].phase = "waiting" /\ slots[p].link \in set)
    BY <2>2 DEF Woken
  <2>. QED
    BY <2>1, <2>2
<1>2. Woken(slots, set) = [p \in Polls |-> Woken(slots, set)[p]]
  BY DEF Woken
<1>. QED
  BY <1>1, <1>2

\* What is said only grows by a true word, and sessions stay: the words and the sessions are right afterwards.
LEMMA StepKeeps ==
  ASSUME IInv, LinksMove,
         \A l \in DOMAIN links' : l \notin Link => links'[l].status = "pending",
         sessions' = sessions,
         said' = said \/ \E l \in Link : \E word : Say(l, word) /\ True(word, links'[l])
  PROVE  Words' /\ OneSession' /\ said' \in [1 .. MaxLinks -> SUBSET Final] /\ sessions' \in [1 .. MaxLinks -> Nat]
<1>. USE DomainGrows DEF IInv
<1>1. said \in [1 .. MaxLinks -> SUBSET Final] /\ sessions \in [1 .. MaxLinks -> Nat]
  BY DEF TypeOK
<1>2. \A l \in 1 .. MaxLinks : \A w \in said'[l] : w \in said[l] \/ (l \in Link /\ True(w, links'[l]))
  <2>1. CASE said' = said
    BY <2>1
  <2>2. ASSUME NEW d \in Link, NEW word, Say(d, word), True(word, links'[d])
        PROVE  \A l \in 1 .. MaxLinks : \A w \in said'[l] : w \in said[l] \/ (l = d /\ w = word)
    BY <1>1, <2>2 DEF Say
  <2>. QED
    BY <2>1, <2>2
<1>3. said' \in [1 .. MaxLinks -> SUBSET Final]
  BY <1>1 DEF Say
<1>7. \A l \in 1 .. MaxLinks : l \notin Link => said'[l] = {}
  BY <1>1, <1>2 DEF Words
<1>4. ASSUME NEW l \in 1 .. MaxLinks, l \in Link, NEW w \in said[l]
      PROVE  True(w, links'[l])
  <2>1. True(w, links[l]) /\ Moved(links[l], links'[l])
    BY <1>4 DEF Words, LinksMove
  <2>. QED
    BY <2>1 DEF True, Moved, Final
<1>5. Words'
  <2>. SUFFICES ASSUME NEW l \in 1 .. MaxLinks
                PROVE  /\ l \notin DOMAIN links' => said'[l] = {} /\ sessions'[l] = 0
                       /\ l \in DOMAIN links' => \A w \in said'[l] : True(w, links'[l])
    BY DEF Words, Link, True, Hopeless, ApproverGone
  <2>1. CASE l \in Link
    BY <2>1, <1>2, <1>4
  <2>2. CASE l \notin Link
    BY <2>2, <1>7 DEF Words
  <2>. QED
    BY <2>1, <2>2
<1>6. OneSession'
  <2>. SUFFICES ASSUME NEW l \in DOMAIN links'
                PROVE  sessions[l] = (IF links'[l].status = "completed" THEN 1 ELSE 0)
    BY DEF OneSession, Link
  <2>1. CASE l \in Link
    <3>1. Moved(links[l], links'[l]) /\ links[l] \in LinkRow
      BY <2>1, LinkIs DEF LinksMove, TypeOK
    <3>2. sessions[l] = (IF links[l].status = "completed" THEN 1 ELSE 0)
      BY <2>1 DEF OneSession
    <3>. QED
      BY <3>1, <3>2 DEF Moved, LinkRow, Unfinished, Final
  <2>2. CASE l \notin Link
    BY <2>2 DEF Words
  <2>. QED
    BY <2>1, <2>2
<1>. QED
  BY <1>1, <1>3, <1>5, <1>6
\* What is there of a link stays there.
LEMMA Carried ==
  ASSUME IInv, LinksMove
  PROVE  /\ live \subseteq DOMAIN links' /\ mine \in [Newcomers -> 0 .. Len(links')]
         /\ \A p \in Polls : polls[p].phase # "idle" => polls[p].link \in DOMAIN links'
         /\ \A a \in Approvers : asks[a].phase \in {"again", "write"} => asks[a].of.link \in DOMAIN links'
<1>1. Link \subseteq DOMAIN links' /\ Len(links) <= Len(links') /\ Len(links) \in Nat /\ Len(links') \in Nat
  BY DomainGrows DEF LinksMove, IInv
<1>2. 0 .. Len(links) \subseteq 0 .. Len(links')
  BY <1>1
<1>. QED
  BY <1>1, <1>2 DEF IInv, TypeOK, Rooted

LEMMA Conclude ==
  ASSUME IInv, LinksMove,
         \A l \in DOMAIN links' : l \notin Link => links'[l].status = "pending",
         sessions' = sessions,
         said' = said \/ \E l \in Link : \E word : Say(l, word) /\ True(word, links'[l]),
         clock' \in 1 .. MaxTime, devices' \subseteq Users \X (Approvers \cup Newcomers),
         live' \subseteq DOMAIN links', leaving' \subseteq Approvers,
         mine' \in [Newcomers -> 0 .. Len(links')],
         polls' \in [Polls -> PollRow], asks' \in [Approvers -> AskRow],
         \A p \in Polls : polls'[p].phase # "idle" => polls'[p].link \in DOMAIN links',
         \A a \in Approvers : asks'[a].phase \in {"again", "write"} => asks'[a].of.link \in DOMAIN links'
  PROVE  IInv'
<1>1. Words' /\ OneSession' /\ said' \in [1 .. MaxLinks -> SUBSET Final] /\ sessions' \in [1 .. MaxLinks -> Nat]
  BY StepKeeps
<1>2. links' \in Seq(LinkRow) /\ Len(links') <= MaxLinks
  BY DEF LinksMove
<1>3. TypeOK'
  BY <1>1, <1>2 DEF TypeOK, Link
<1>4. Rooted'
  BY DEF Rooted, Link
<1>. QED
  BY <1>1, <1>3, <1>4 DEF IInv

\* The status clients see is true of the link, at any time.
LEMMA EffectiveTrue ==
  ASSUME NEW k \in LinkRow, NEW at \in Nat
  PROVE  /\ True(EffectiveStatus(k, at), k)
         /\ EffectiveStatus(k, at) \in Unfinished => k.status = EffectiveStatus(k, at) /\ ~Hopeless(k)
<1>1. k.status \in Unfinished \cup Final
  BY DEF LinkRow
<1>2. CASE k.status \notin Unfinished
  <2>1. EffectiveStatus(k, at) = k.status
    BY <1>2 DEF EffectiveStatus
  <2>. QED
    BY <1>1, <1>2, <2>1 DEF True, Hopeless, Unfinished, Final
<1>3. CASE k.status \in Unfinished /\ ApproverGone(k)
  <2>1. EffectiveStatus(k, at) = "cancelled"
    BY <1>3 DEF EffectiveStatus
  <2>. QED
    BY <1>3, <2>1 DEF True, Hopeless, Unfinished
<1>4. CASE k.status \in Unfinished /\ ~ApproverGone(k)
  <2>1. EffectiveStatus(k, at) \in {"expired", k.status}
    BY <1>4 DEF EffectiveStatus
  <2>. QED
    BY <1>4, <2>1 DEF True, Hopeless, Unfinished
<1>. QED
  BY <1>2, <1>3, <1>4

-----------------------------------------------------------------------------
(* The new device. *)

LEMMA CreateRequestKeeps ==
  ASSUME IInv, NEW n \in Newcomers, CreateRequest(n)
  PROVE  IInv'
<1>. USE DEF IInv
<1>1. links \in [Link -> LinkRow] /\ \A l \in Link : Moved(links[l], links[l])
  BY LinkIs, SameMoved DEF TypeOK
<1>2. PICK new : new = NewLink("request", Nobody, Nobody, n, clock)
  OBVIOUS
<1>8. clock \in Nat
  BY ClockIs
<1>3. new \in LinkRow /\ new.status = "pending"
  BY <1>2, <1>8, NewRow
<1>4. links' = Append(links, new) /\ CanCreate
  BY <1>2 DEF CreateRequest
<1>5. /\ LinksMove /\ Len(links') = Len(links) + 1 /\ Link \subseteq DOMAIN links'
      /\ \A l \in DOMAIN links' : l \notin Link => links'[l].status = "pending"
  BY <1>1, <1>3, <1>4, AppendMoves
<1>6. Len(links') \in Nat
  BY <1>5, DomainGrows
<1>7. mine' \in [Newcomers -> 0 .. Len(links')]
  BY <1>5, <1>6, Carried DEF CreateRequest
<1>. QED
  BY <1>5, <1>7, Carried, Conclude DEF CreateRequest, TypeOK

\* The row of a link somebody attached to.
LEMMA ClaimedMoves ==
  ASSUME TypeOK, NEW l \in Link, links[l].status = "pending", ~Hopeless(links[l]),
         NEW user \in Users \cup {Nobody}, NEW approver \in Approvers \cup {Nobody},
         NEW claimant \in Newcomers \cup {Nobody}, NEW poller \in Newcomers \cup {Nobody},
         links' = Claimed(l, user, approver, claimant, poller)
  PROVE  LinksMove /\ Len(links') = Len(links) /\ DOMAIN links' = Link
<1>1. PICK k \in LinkRow : k = links[l]
  BY LinkIs DEF TypeOK
<1>2. PICK new : new = [k EXCEPT !.status = "claimed", !.user = user, !.approver = approver,
                                 !.claimant = claimant, !.poller = poller]
  OBVIOUS
<1>3. new \in LinkRow /\ new.status = "claimed"
  BY <1>2 DEF LinkRow, Unfinished
<1>4. Moved(k, new)
  BY <1>1, <1>3 DEF Moved, Final, Unfinished
<1>5. links \in [Link -> LinkRow]
  BY LinkIs DEF TypeOK
<1>6. links' = [links EXCEPT ![l] = new]
  BY <1>1, <1>2, <1>5 DEF Claimed
<1>. QED
  BY <1>1, <1>4, <1>6, OneMoves

LEMMA ClaimKeeps ==
  ASSUME IInv, NEW n \in Newcomers, NEW l \in Link, Claim(n, l)
  PROVE  IInv'
<1>. USE DEF IInv
<1>1. links[l] \in LinkRow
  BY LinkIs DEF TypeOK
<1>2. links[l].status = "pending" /\ ~Hopeless(links[l])
  BY <1>1, ClockIs, EffectiveTrue DEF Claim, Unfinished
<1>3. LinksMove /\ Len(links') = Len(links) /\ DOMAIN links' = Link
  BY <1>1, <1>2, ClaimedMoves DEF Claim, LinkRow
<1>4. mine' \in [Newcomers -> 0 .. Len(links')]
  BY <1>3, Carried, DomainGrows DEF Claim, TypeOK
<1>5. /\ polls' \in [Polls -> PollRow]
      /\ \A p \in Polls : polls'[p].phase # "idle" => polls'[p].link \in DOMAIN links'
  BY <1>3, Carried, WakingKeeps DEF Claim, TypeOK
<1>. QED
  BY <1>3, <1>4, <1>5, Carried, Conclude DEF Claim, TypeOK

\* cancelLinks moves every link it names.
LEMMA CancelledMove ==
  ASSUME TypeOK, NEW set, NEW at
  PROVE  /\ Cancelled(set, at) \in [Link -> LinkRow]
         /\ \A l \in Link : Moved(links[l], Cancelled(set, at)[l])
<1>1. ASSUME NEW l \in Link
      PROVE  Moved(links[l], Cancelled(set, at)[l])
  <2>1. links[l] \in LinkRow
    BY LinkIs DEF TypeOK
  <2>2. CASE l \in set /\ Cancellable(l, at)
    <3>1. Cancelled(set, at)[l] = [Erased(links[l]) EXCEPT !.status = "cancelled"]
      BY <2>2 DEF Cancelled
    <3>. QED
      BY <2>1, <2>2, <3>1, ErasedMoved DEF Cancellable
  <2>3. CASE ~(l \in set /\ Cancellable(l, at))
    BY <2>1, <2>3, SameMoved DEF Cancelled
  <2>. QED
    BY <2>2, <2>3
<1>2. Cancelled(set, at) = [l \in Link |-> Cancelled(set, at)[l]]
  BY DEF Cancelled
<1>. QED
  BY <1>1, <1>2 DEF Moved

LEMMA CancelMoves ==
  ASSUME TypeOK, NEW set, NEW at, links' = Cancelled(set, at)
  PROVE  LinksMove /\ Len(links') = Len(links) /\ DOMAIN links' = Link
<1>1. PICK f \in [Link -> LinkRow] : f = Cancelled(set, at)
  BY CancelledMove
<1>2. DOMAIN f = Link /\ f = [l \in Link |-> f[l]] /\ \A l \in Link : Moved(links[l], f[l])
  BY <1>1, CancelledMove
<1>. QED
  BY <1>1, <1>2, AllMove

LEMMA CancelByPollSecretKeeps ==
  ASSUME IInv, NEW n \in Newcomers, CancelByPollSecret(n)
  PROVE  IInv'
<1>. USE DEF IInv
<1>1. LinksMove /\ Len(links') = Len(links) /\ DOMAIN links' = Link
  BY CancelMoves DEF CancelByPollSecret
<1>2. /\ polls' \in [Polls -> PollRow]
      /\ \A p \in Polls : polls'[p].phase # "idle" => polls'[p].link \in DOMAIN links'
  BY <1>1, Carried, WakingKeeps DEF CancelByPollSecret, TypeOK
<1>. QED
  BY <1>1, <1>2, Carried, Conclude DEF CancelByPollSecret, TypeOK
-----------------------------------------------------------------------------
(* The polls. *)

\* A step that changes no link and says nothing but what is true of one.
LEMMA QuietStep ==
  ASSUME IInv, links' = links, sessions' = sessions,
         said' = said \/ \E l \in Link : \E word : Say(l, word) /\ True(word, links[l]),
         clock' \in 1 .. MaxTime, devices' \subseteq Users \X (Approvers \cup Newcomers),
         live' \subseteq Link, leaving' \subseteq Approvers, mine' = mine,
         polls' \in [Polls -> PollRow], asks' \in [Approvers -> AskRow],
         \A p \in Polls : polls'[p].phase # "idle" => polls'[p].link \in Link,
         \A a \in Approvers : asks'[a].phase \in {"again", "write"} => asks'[a].of.link \in Link
  PROVE  IInv'
<1>1. LinksMove /\ Len(links') = Len(links) /\ DOMAIN links' = Link
  BY NoneMove DEF IInv
<1>2. mine' \in [Newcomers -> 0 .. Len(links')]
  BY <1>1, Carried
<1>. QED
  BY <1>1, <1>2, Conclude

\* One poll changes: it is still of its type and on its link.
LEMMA PollSet ==
  ASSUME IInv, NEW p \in Polls, NEW r \in PollRow, r.phase # "idle" => r.link \in Link,
         polls' = [polls EXCEPT ![p] = r]
  PROVE  /\ polls' \in [Polls -> PollRow]
         /\ \A q \in Polls : polls'[q].phase # "idle" => polls'[q].link \in Link
BY DEF IInv, TypeOK, Rooted

LEMMA ReadKeeps ==
  ASSUME IInv, NEW p \in Polls, NEW r \in PollRow, r.phase # "idle", r.link \in Link, NEW due, Read(p, r, due)
  PROVE  IInv'
<1>. DEFINE status == EffectiveStatus(links[r.link], clock)
<1>1. links[r.link] \in LinkRow /\ clock \in Nat
  BY LinkIs, ClockIs DEF IInv, TypeOK
<1>2. True(status, links[r.link]) /\ True("expired", links[r.link]) /\ True("completed", links[r.link]) \in BOOLEAN
  BY <1>1, EffectiveTrue DEF True
<1>. HIDE DEF status
<1>3. ASSUME NEW word, Answer(p, r.link, word), True(word, links[r.link])
      PROVE  IInv'
  <2>1. polls' = [polls EXCEPT ![p] = NoPoll] /\ Say(r.link, word)
    BY <1>3 DEF Answer
  <2>2. /\ polls' \in [Polls -> PollRow]
        /\ \A q \in Polls : polls'[q].phase # "idle" => polls'[q].link \in Link
    BY <2>1, PollSet, IdlePoll DEF NoPoll
  <2>. QED
    BY <1>3, <2>1, <2>2, QuietStep DEF Read, IInv, TypeOK, Rooted
<1>4. ASSUME NEW phase \in {"parked", "completing"}, NEW at \in Nat, NEW new,
             new = [r EXCEPT !.phase = phase, !.at = at], polls' = [polls EXCEPT ![p] = new], said' = said
      PROVE  IInv'
  <2>3. phase \in {"read", "parked", "waiting", "completing"}
    OBVIOUS
  <2>4. r \in BusyPoll
    BY BusyIs
  <2>5. new \in BusyPoll /\ new.link = r.link
    BY <1>4, <2>3, <2>4 DEF BusyPoll
  <2>1. new \in PollRow /\ new.link = r.link
    BY <2>5, BusyIs
  <2>2. /\ polls' \in [Polls -> PollRow]
        /\ \A q \in Polls : polls'[q].phase # "idle" => polls'[q].link \in Link
    BY <1>4, <2>1, PollSet
  <2>. QED
    BY <1>4, <2>2, QuietStep DEF Read, IInv, TypeOK, Rooted
<1>5. \/ \E word \in {status, "expired"} : Answer(p, r.link, word)
      \/ \E phase \in {"parked", "completing"}, at \in {0, clock} :
           polls' = [polls EXCEPT ![p] = [r EXCEPT !.phase = phase, !.at = at]] /\ said' = said
  BY DEF Read, status
<1>. QED
  BY <1>1, <1>2, <1>3, <1>4, <1>5

LEMMA PollSendKeeps ==
  ASSUME IInv, NEW p \in Polls, NEW known \in Known, PollSend(p, known)
  PROVE  IInv'
<1>. DEFINE r == [phase |-> "read", link |-> mine[PollOf[p]], known |-> known, lost |-> 0, at |-> 0]
<1>1. PollOf[p] \in Newcomers /\ mine[PollOf[p]] \in 0 .. Len(links) /\ mine[PollOf[p]] # 0
  BY OwnerAssumption DEF IInv, TypeOK, PollSend
<1>2. mine[PollOf[p]] \in Link /\ Link \subseteq 1 .. MaxLinks
  BY <1>1, LinkIs, BoundsAssumption DEF IInv, TypeOK
<1>3. Attempts \in Nat
  BY BoundsAssumption
<1>7. mine[PollOf[p]] \in 1 .. MaxLinks
  BY <1>2
<1>8. 0 \in 0 .. Attempts
  BY <1>3
<1>4. r \in BusyPoll
  BY <1>7, <1>8 DEF BusyPoll
<1>6. r.phase # "idle" /\ r.link \in Link
  BY <1>2
<1>5. Read(p, r, FALSE)
  BY DEF PollSend
<1>. HIDE DEF r
<1>. QED
  BY <1>4, <1>5, <1>6, BusyIs, ReadKeeps

\* A poll under way.
LEMMA PollIs ==
  ASSUME IInv, NEW p \in Polls, polls[p].phase # "idle"
  PROVE  polls[p] \in PollRow /\ polls[p].link \in Link
BY DEF IInv, TypeOK, Rooted

LEMMA RegisterKeeps ==
  ASSUME IInv, NEW p \in Polls, Register(p)
  PROVE  IInv'
<1>1. polls[p] \in PollRow /\ polls[p].phase # "idle" /\ polls[p].link \in Link
  BY PollIs DEF Register
<1>2. PICK r : r = [polls[p] EXCEPT !.phase = "waiting"]
  OBVIOUS
<1>3. r \in PollRow /\ r.link = polls[p].link
  BY <1>1, <1>2, WaitingPoll, 0 \in Nat
<1>4. polls' = [polls EXCEPT ![p] = r]
  BY <1>2 DEF Register, IInv, TypeOK
<1>5. /\ polls' \in [Polls -> PollRow]
      /\ \A q \in Polls : polls'[q].phase # "idle" => polls'[q].link \in Link
  BY <1>1, <1>3, <1>4, PollSet
<1>. QED
  BY <1>5, QuietStep DEF Register, IInv, TypeOK, Rooted

LEMMA AbortKeeps ==
  ASSUME IInv, NEW p \in Polls, Abort(p)
  PROVE  IInv'
<1>1. /\ polls' \in [Polls -> PollRow]
      /\ \A q \in Polls : polls'[q].phase # "idle" => polls'[q].link \in Link
  BY IdlePoll, PollSet DEF Abort, NoPoll
<1>. QED
  BY <1>1, QuietStep DEF Abort, IInv, TypeOK, Rooted

\* The compare-and-set was lost: the poll reads again or gives up.
LEMMA LostKeeps ==
  ASSUME IInv, NEW p \in Polls, polls[p].phase = "completing", Lost(p), UNCHANGED <<clock, leaving, mine, asks>>
  PROVE  IInv'
<1>1. polls[p] \in PollRow /\ polls[p].phase # "idle" /\ polls[p].link \in Link
  BY PollIs
<1>2. polls[p] \in BusyPoll
  BY <1>1, BusyIs
<1>. DEFINE tries == polls[p].lost + 1
            again == [polls[p] EXCEPT !.phase = "read", !.at = 0, !.lost = tries]
<1>9. polls \in [Polls -> PollRow]
  BY DEF IInv, TypeOK
<1>8. polls' = [polls EXCEPT ![p] = IF tries >= Attempts THEN NoPoll ELSE again]
  BY <1>9 DEF Lost
<1>7. tries = polls[p].lost + 1
  OBVIOUS
<1>. HIDE DEF tries
<1>3. again = [polls[p] EXCEPT !.phase = "read", !.at = 0, !.lost = tries]
  OBVIOUS
<1>. HIDE DEF again
<1>4. again.link = polls[p].link
  BY <1>2, <1>3 DEF BusyPoll
<1>5. CASE tries >= Attempts
  <2>1. polls' = [polls EXCEPT ![p] = NoPoll]
    BY <1>5, <1>8
  <2>2. /\ polls' \in [Polls -> PollRow]
        /\ \A q \in Polls : polls'[q].phase # "idle" => polls'[q].link \in Link
    BY <2>1, IdlePoll, PollSet DEF NoPoll
  <2>. QED
    BY <2>2, QuietStep DEF Lost, IInv, TypeOK, Rooted
<1>6. CASE ~(tries >= Attempts)
  <2>1. polls' = [polls EXCEPT ![p] = again]
    BY <1>6, <1>8
  <2>2. tries \in 0 .. Attempts
    BY <1>2, <1>6, <1>7, BoundsAssumption DEF BusyPoll
  <2>4. again \in BusyPoll
    BY <1>2, <1>3, <2>2 DEF BusyPoll
  <2>3. /\ polls' \in [Polls -> PollRow]
        /\ \A q \in Polls : polls'[q].phase # "idle" => polls'[q].link \in Link
    BY <1>1, <1>4, <2>1, <2>4, BusyIs, PollSet
  <2>. QED
    BY <2>3, QuietStep DEF Lost, IInv, TypeOK, Rooted
<1>. QED
  BY <1>5, <1>6
\* A device of an account is a real one.
LEMMA ApproverThere ==
  ASSUME TypeOK, NEW l \in Link, HasApprover(l)
  PROVE  links[l].user \in Users /\ links[l].approver # Nobody /\ ~ApproverGone(links[l])
BY NobodyAssumption DEF TypeOK, HasApprover, ApproverGone

LEMMA CompleteCancelledKeeps ==
  ASSUME IInv, NEW p \in Polls, polls[p].phase = "completing", CanComplete(polls[p].link, polls[p].at),
         CompleteCancelled(p, polls[p].link), UNCHANGED <<clock, leaving, mine, asks>>
  PROVE  IInv'
<1>. DEFINE l == polls[p].link
<1>1. l \in Link
  BY PollIs
<1>. HIDE DEF l
<1>2. links[l] \in LinkRow /\ links[l].status \in Unfinished
  BY <1>1, LinkIs DEF IInv, TypeOK, CanComplete, Unfinished, l
<1>3. PICK new : new = [Erased(links[l]) EXCEPT !.status = "cancelled"]
  OBVIOUS
<1>4. Moved(links[l], new) /\ new.status = "cancelled"
  BY <1>2, <1>3, ErasedMoved
<1>5. links \in [Link -> LinkRow]
  BY LinkIs DEF IInv, TypeOK
<1>6. links' = [links EXCEPT ![l] = new]
  BY <1>3 DEF CompleteCancelled, l
<1>7. LinksMove /\ Len(links') = Len(links) /\ DOMAIN links' = Link /\ links'[l] = new
  BY <1>1, <1>4, <1>6, OneMoves DEF IInv
<1>8. Say(l, "cancelled") /\ True("cancelled", links'[l])
  BY <1>4, <1>7 DEF CompleteCancelled, True, Hopeless, l
<1>9. PICK slots : slots = [polls EXCEPT ![p] = NoPoll]
  OBVIOUS
<1>10. slots \in [Polls -> PollRow] /\ \A q \in Polls : slots[q].phase # "idle" => slots[q].link \in Link
  BY <1>9, IdlePoll DEF IInv, TypeOK, Rooted, NoPoll
<1>11. polls' = Woken(slots, {l})
  BY <1>9 DEF CompleteCancelled, l
<1>12. /\ polls' \in [Polls -> PollRow]
       /\ \A q \in Polls : polls'[q].phase # "idle" => polls'[q].link \in DOMAIN links'
  BY <1>7, <1>10, <1>11, WakingKeeps
<1>. QED
  BY <1>1, <1>7, <1>8, <1>12, Carried, Conclude DEF CompleteCancelled, IInv, TypeOK

\* The completion: the only step that completes a link, and once.
LEMMA CompleteDoneKeeps ==
  ASSUME IInv, NEW p \in Polls, polls[p].phase = "completing", CanComplete(polls[p].link, polls[p].at),
         links[polls[p].link].claimant # Nobody, HasApprover(polls[p].link),
         CompleteDone(p, polls[p].link), UNCHANGED <<clock, leaving, mine, asks>>
  PROVE  IInv'
<1>. DEFINE l == polls[p].link
            k == links[l]
<1>1. l \in Link /\ polls[p] \in BusyPoll
  BY PollIs, BusyIs
<1>13. polls[p].at \in Nat
  BY <1>1 DEF BusyPoll
<1>. HIDE DEF l
<1>2. k \in LinkRow /\ k.status = "approved" /\ k.user \in Users /\ ~ApproverGone(k) /\ k.claimant # Nobody
  BY <1>1, LinkIs, ApproverThere DEF IInv, TypeOK, CanComplete, l
<1>3. PICK e \in LinkRow : e = Erased(k)
  BY <1>2, ErasedRow
<1>. HIDE DEF k
<1>4. k.claimant \in Newcomers
  BY <1>2 DEF LinkRow
<1>5. PICK new : new = [e EXCEPT !.status = "completed", !.completed = polls[p].at, !.result = k.claimant]
  OBVIOUS
<1>6. new \in LinkRow /\ new.status = "completed"
  BY <1>4, <1>5, <1>13 DEF LinkRow, Final
<1>7. links \in [Link -> LinkRow] /\ Link = 1 .. Len(links) /\ Len(links) \in Nat /\ Link \subseteq 1 .. MaxLinks
  BY LinkIs, BoundsAssumption DEF IInv, TypeOK
<1>8. links' = [links EXCEPT ![l] = new]
  BY <1>3, <1>5 DEF CompleteDone, Completed, l, k
<1>9. PICK f \in [Link -> LinkRow] : f = links'
  BY <1>6, <1>7, <1>8
<1>10. links' \in Seq(LinkRow) /\ Len(links') = Len(links) /\ DOMAIN links' = Link
  BY <1>9, Rewritten DEF IInv, TypeOK
<1>11. links'[l] = new /\ \A m \in Link : m # l => links'[m] = links[m]
  BY <1>1, <1>7, <1>8
<1>12. said \in [1 .. MaxLinks -> SUBSET Final] /\ sessions \in [1 .. MaxLinks -> Nat]
  BY DEF IInv, TypeOK
<1>14. /\ said' = [said EXCEPT ![l] = @ \cup ({"completed"} \cap Final)]
       /\ sessions' = [sessions EXCEPT ![l] = @ + 1]
  BY DEF CompleteDone, Say, l
<1>15. said' \in [1 .. MaxLinks -> SUBSET Final] /\ sessions' \in [1 .. MaxLinks -> Nat]
  <2>1. said' \in [1 .. MaxLinks -> SUBSET Final]
    BY <1>1, <1>7, <1>12, <1>14
  <2>2. sessions[l] + 1 \in Nat
    BY <1>1, <1>7, <1>12
  <2>3. sessions' \in [1 .. MaxLinks -> Nat]
    BY <1>12, <1>14, <2>2
  <2>. QED
    BY <2>1, <2>3
<1>16. sessions[l] = 0
  BY <1>1, <1>2 DEF IInv, OneSession, k
<1>17. \A word \in said[l] : word = "completed" => FALSE
  BY <1>1, <1>2, <1>7 DEF IInv, Words, True, k
<1>18. \A word \in said[l] : word \notin {"denied", "cancelled"}
  BY <1>1, <1>2, <1>7 DEF IInv, Words, True, Hopeless, k
<1>19. \A word \in said'[l] : True(word, new)
  <2>1. said'[l] \subseteq said[l] \cup {"completed"}
    BY <1>1, <1>7, <1>12, <1>14
  <2>. QED
    BY <1>6, <1>18, <2>1 DEF True
<1>20. Words'
  <2>. SUFFICES ASSUME NEW m \in 1 .. MaxLinks
                PROVE  /\ m \notin Link => said'[m] = {} /\ sessions'[m] = 0
                       /\ m \in Link => \A word \in said'[m] : True(word, links'[m])
    BY <1>10 DEF Words, Link, True, Hopeless, ApproverGone
  <2>1. CASE m = l
    BY <2>1, <1>1, <1>11, <1>19
  <2>2. CASE m # l
    BY <2>2, <1>11, <1>12, <1>14 DEF IInv, Words
  <2>. QED
    BY <2>1, <2>2
<1>21. OneSession'
  <2>. SUFFICES ASSUME NEW m \in Link
                PROVE  sessions'[m] = (IF links'[m].status = "completed" THEN 1 ELSE 0)
    BY <1>10 DEF OneSession, Link
  <2>1. CASE m = l
    BY <2>1, <1>1, <1>6, <1>7, <1>11, <1>12, <1>14, <1>16
  <2>2. CASE m # l
    BY <2>2, <1>7, <1>11, <1>12, <1>14 DEF IInv, OneSession
  <2>. QED
    BY <2>1, <2>2
<1>22. PICK slots : slots = [polls EXCEPT ![p] = NoPoll]
  OBVIOUS
<1>23. slots \in [Polls -> PollRow] /\ \A q \in Polls : slots[q].phase # "idle" => slots[q].link \in Link
  BY <1>22, IdlePoll DEF IInv, TypeOK, Rooted, NoPoll
<1>24. polls' = Woken(slots, {l})
  BY <1>22 DEF CompleteDone, l
<1>25. /\ polls' \in [Polls -> PollRow]
       /\ \A q \in Polls : polls'[q].phase # "idle" => polls'[q].link \in Link
  BY <1>23, <1>24, WakingKeeps
<1>26. devices' \subseteq Users \X (Approvers \cup Newcomers) /\ live' \subseteq Link
  BY <1>1, <1>2, <1>4 DEF CompleteDone, Joined, IInv, TypeOK, l, k
<1>27. TypeOK'
  BY <1>10, <1>15, <1>25, <1>26 DEF IInv, TypeOK, Link
<1>28. Rooted'
  BY <1>10, <1>25 DEF IInv, Rooted, Link
<1>. QED
  BY <1>20, <1>21, <1>27, <1>28 DEF IInv

LEMMA CompleteKeeps ==
  ASSUME IInv, NEW p \in Polls, Complete(p)
  PROVE  IInv'
<1>. DEFINE l == polls[p].link
<1>1. polls[p].phase = "completing" /\ UNCHANGED <<clock, leaving, mine, asks>>
  BY DEF Complete
<1>2. CASE ~CanComplete(l, polls[p].at)
  BY <1>1, <1>2, LostKeeps DEF Complete
<1>3. CASE CanComplete(l, polls[p].at) /\ (links[l].claimant = Nobody \/ ~HasApprover(l))
  BY <1>1, <1>3, CompleteCancelledKeeps DEF Complete
<1>4. CASE /\ CanComplete(l, polls[p].at) /\ links[l].claimant # Nobody /\ HasApprover(l)
           /\ ~HasRoom(links[l].user, links[l].claimant)
  <2>1. polls' = [polls EXCEPT ![p] = NoPoll] /\ UNCHANGED <<links, devices, live, said, sessions>>
    BY <1>4 DEF Complete
  <2>2. /\ polls' \in [Polls -> PollRow]
        /\ \A q \in Polls : polls'[q].phase # "idle" => polls'[q].link \in Link
    BY <2>1, IdlePoll, PollSet DEF NoPoll
  <2>. QED
    BY <1>1, <2>1, <2>2, QuietStep DEF IInv, TypeOK, Rooted
<1>5. CASE /\ CanComplete(l, polls[p].at) /\ links[l].claimant # Nobody /\ HasApprover(l)
           /\ HasRoom(links[l].user, links[l].claimant)
  <2>1. CompleteDone(p, l)
    BY <1>5 DEF Complete
  <2>. QED
    BY <1>1, <1>5, <2>1, CompleteDoneKeeps
<1>. QED
  BY <1>2, <1>3, <1>4, <1>5
-----------------------------------------------------------------------------
(* The signed-in device. *)

\* The decision of one device changes: it is still of its type and on a link there is.
LEMMA AskSet ==
  ASSUME IInv, NEW a \in Approvers, NEW r \in AskRow, r.phase \in {"again", "write"} => r.of.link \in Link,
         asks' = [asks EXCEPT ![a] = r]
  PROVE  /\ asks' \in [Approvers -> AskRow]
         /\ \A b \in Approvers : asks'[b].phase \in {"again", "write"} => asks'[b].of.link \in Link
BY DEF IInv, TypeOK, Rooted

LEMMA CreateInviteKeeps ==
  ASSUME IInv, NEW a \in Approvers, CreateInvite(a)
  PROVE  IInv'
<1>. DEFINE active == ActiveInvites(Owner[a], clock)
            excess == Cardinality(active) - (MaxInvites - 1)
            old == IF Cardinality(active) >= MaxInvites THEN Oldest(active, excess) ELSE {}
            r == [phase |-> "invite", at |-> clock, old |-> old]
<1>1. Link \subseteq 1 .. MaxLinks /\ clock \in Nat
  BY LinkIs, ClockIs, BoundsAssumption DEF IInv, TypeOK
<1>2. active \subseteq Link /\ Oldest(active, excess) \subseteq active
  BY DEF ActiveInvites, Oldest
<1>. HIDE DEF active, excess
<1>3. old \in SUBSET (1 .. MaxLinks)
  BY <1>1, <1>2
<1>6. asks' = [asks EXCEPT ![a] = r]
  BY DEF CreateInvite, active, excess
<1>. HIDE DEF old
<1>4. r \in AskRow /\ r.phase = "invite"
  BY <1>1, <1>3 DEF AskRow
<1>. HIDE DEF r
<1>5. /\ asks' \in [Approvers -> AskRow]
      /\ \A b \in Approvers : asks'[b].phase \in {"again", "write"} => asks'[b].of.link \in Link
  BY <1>4, <1>6, AskSet
<1>. QED
  BY <1>5, QuietStep DEF CreateInvite, IInv, TypeOK, Rooted

LEMMA InsertInviteKeeps ==
  ASSUME IInv, NEW a \in Approvers, InsertInvite(a)
  PROVE  IInv'
<1>1. /\ asks' \in [Approvers -> AskRow]
      /\ \A b \in Approvers : asks'[b].phase \in {"again", "write"} => asks'[b].of.link \in Link
  BY IdlePoll, AskSet DEF InsertInvite, NoAsk
<1>2. CASE CanCreate /\ SignedIn(a)
  <2>1. asks[a] \in AskRow /\ asks[a].phase = "invite"
    BY DEF InsertInvite, IInv, TypeOK
  <2>2. asks[a].at \in Nat
    BY <2>1 DEF AskRow, NoAsk
  <2>3. PICK f \in [Link -> LinkRow] : f = Cancelled(asks[a].old, asks[a].at)
    BY CancelledMove DEF IInv
  <2>4. PICK new : new = NewLink("invite", Owner[a], a, Nobody, asks[a].at)
    OBVIOUS
  <2>5. new \in LinkRow /\ new.status = "pending"
    BY <2>2, <2>4, NewRow, OwnerAssumption
  <2>6. links' = Append(f, new) /\ \A l \in Link : Moved(links[l], f[l])
    BY <1>2, <2>3, <2>4, CancelledMove DEF InsertInvite, IInv
  <2>7. /\ LinksMove /\ Link \subseteq DOMAIN links'
        /\ \A l \in DOMAIN links' : l \notin Link => links'[l].status = "pending"
    BY <1>2, <2>5, <2>6, AppendMoves DEF IInv
  <2>8. polls' = Woken(polls, {l \in asks[a].old : Cancellable(l, asks[a].at)})
    BY <1>2 DEF InsertInvite
  <2>9. /\ polls' \in [Polls -> PollRow]
        /\ \A p \in Polls : polls'[p].phase # "idle" => polls'[p].link \in DOMAIN links'
    BY <2>7, <2>8, Carried, WakingKeeps DEF IInv, TypeOK
  <2>. QED
    BY <1>1, <2>7, <2>9, Carried, Conclude DEF InsertInvite, IInv, TypeOK
<1>3. CASE ~(CanCreate /\ SignedIn(a))
  BY <1>1, <1>3, QuietStep DEF InsertInvite, IInv, TypeOK, Rooted
<1>. QED
  BY <1>2, <1>3

LEMMA ResolveKeeps ==
  ASSUME IInv, NEW a \in Approvers, NEW l \in Link, Resolve(a, l)
  PROVE  IInv'
<1>1. links[l] \in LinkRow
  BY LinkIs DEF IInv, TypeOK
<1>2. links[l].status = "pending" /\ ~Hopeless(links[l])
  BY <1>1 DEF Resolve, CanClaim, Hopeless, ApproverGone
<1>3. Owner[a] \in Users /\ links[l].claimant \in Newcomers \cup {Nobody} /\ links[l].poller \in Newcomers \cup {Nobody}
  BY <1>1, OwnerAssumption DEF LinkRow
<1>4. LinksMove /\ Len(links') = Len(links) /\ DOMAIN links' = Link
  BY <1>2, <1>3, ClaimedMoves DEF Resolve, IInv
<1>5. /\ polls' \in [Polls -> PollRow]
      /\ \A p \in Polls : polls'[p].phase # "idle" => polls'[p].link \in DOMAIN links'
  BY <1>4, Carried, WakingKeeps DEF Resolve, IInv, TypeOK
<1>. QED
  BY <1>4, <1>5, Carried, Conclude DEF Resolve, IInv, TypeOK

LEMMA DecisionReadKeeps ==
  ASSUME IInv, NEW a \in Approvers, NEW d \in Decision, d.link \in Link, NEW tries \in 1 .. Attempts,
         DecisionRead(a, d, tries)
  PROVE  IInv'
<1>. DEFINE status == EffectiveStatus(links[d.link], clock)
            r == [phase |-> "write", of |-> d, tries |-> tries, from |-> status, at |-> clock]
<1>1. clock \in Nat /\ links[d.link] \in LinkRow
  BY ClockIs, LinkIs DEF IInv, TypeOK
<1>2. True(status, links[d.link])
  BY <1>1, EffectiveTrue
<1>. HIDE DEF status
<1>3. True("refused", links[d.link])
  BY DEF True
<1>4. CASE GoesOn(d, a, status)
  <2>1. status \in Unfinished
    BY <1>4 DEF GoesOn, Unfinished
  <2>2. asks' = [asks EXCEPT ![a] = r] /\ said' = said
    BY <1>4 DEF DecisionRead, status
  <2>3. r \in AskRow
    BY <1>1, <2>1 DEF AskRow
  <2>4. r.of = d
    OBVIOUS
  <2>. HIDE DEF r
  <2>5. /\ asks' \in [Approvers -> AskRow]
        /\ \A b \in Approvers : asks'[b].phase \in {"again", "write"} => asks'[b].of.link \in Link
    BY <2>2, <2>3, <2>4, AskSet
  <2>. QED
    BY <2>2, <2>5, QuietStep DEF DecisionRead, IInv, TypeOK, Rooted
<1>5. CASE ~GoesOn(d, a, status)
  <2>1. PICK word \in {status, "refused"} : Refuse(a, d.link, word)
    BY <1>5 DEF DecisionRead, status
  <2>2. asks' = [asks EXCEPT ![a] = NoAsk] /\ Say(d.link, word) /\ True(word, links[d.link])
    BY <1>2, <1>3, <2>1 DEF Refuse
  <2>3. /\ asks' \in [Approvers -> AskRow]
        /\ \A b \in Approvers : asks'[b].phase \in {"again", "write"} => asks'[b].of.link \in Link
    BY <2>2, IdlePoll, AskSet DEF NoAsk
  <2>. QED
    BY <2>2, <2>3, QuietStep DEF DecisionRead, IInv, TypeOK, Rooted
<1>. QED
  BY <1>4, <1>5

LEMMA DecideKeeps ==
  ASSUME IInv, NEW a \in Approvers, NEW op \in {"approve", "mismatch", "deny"}, NEW l \in Link,
         Decide(a, [op |-> op, link |-> l])
  PROVE  IInv'
<1>1. PICK d : d = [op |-> op, link |-> l]
  OBVIOUS
<1>2. Link \subseteq 1 .. MaxLinks /\ 1 \in 1 .. Attempts
  BY LinkIs, BoundsAssumption DEF IInv, TypeOK
<1>3. d \in Decision /\ d.link \in Link
  BY <1>1, <1>2 DEF Decision
<1>4. DecisionRead(a, d, 1)
  BY <1>1 DEF Decide
<1>. QED
  BY <1>2, <1>3, <1>4, DecisionReadKeeps

LEMMA AskIs ==
  ASSUME IInv, NEW a \in Approvers, asks[a].phase \in {"again", "write"}
  PROVE  /\ asks[a].of \in Decision /\ asks[a].tries \in 1 .. Attempts /\ asks[a].of.link \in Link
         /\ asks[a].phase = "write" => asks[a].from \in Unfinished /\ asks[a].at \in Nat
BY DEF IInv, TypeOK, Rooted, AskRow, NoAsk

LEMMA DecideAgainKeeps ==
  ASSUME IInv, NEW a \in Approvers, DecideAgain(a)
  PROVE  IInv'
<1>1. asks[a].of \in Decision /\ asks[a].tries \in 1 .. Attempts /\ asks[a].of.link \in Link
  BY AskIs DEF DecideAgain
<1>. QED
  BY <1>1, DecisionReadKeeps DEF DecideAgain
LEMMA DecisionWriteKeeps ==
  ASSUME IInv, NEW a \in Approvers, DecisionWrite(a)
  PROVE  IInv'
<1>. DEFINE d == asks[a].of
            l == d.link
            at == asks[a].at
<1>1. /\ d \in Decision /\ asks[a].tries \in 1 .. Attempts /\ l \in Link
      /\ asks[a].from \in Unfinished
  BY AskIs DEF DecisionWrite
<1>2. links[l] \in LinkRow /\ links \in [Link -> LinkRow]
  BY <1>1, LinkIs DEF IInv, TypeOK
<1>3. ASSUME NEW new, Moved(links[l], new), links' = [links EXCEPT ![l] = new], NEW word, Refuse(a, l, word),
             True(word, new), polls' = Woken(polls, {l})
      PROVE  IInv'
  <2>1. LinksMove /\ Len(links') = Len(links) /\ DOMAIN links' = Link /\ links'[l] = new
    BY <1>1, <1>3, OneMoves DEF IInv
  <2>2. /\ asks' \in [Approvers -> AskRow]
        /\ \A b \in Approvers : asks'[b].phase \in {"again", "write"} => asks'[b].of.link \in Link
    BY <1>3, IdlePoll, AskSet DEF Refuse, NoAsk
  <2>3. /\ polls' \in [Polls -> PollRow]
        /\ \A p \in Polls : polls'[p].phase # "idle" => polls'[p].link \in DOMAIN links'
    BY <1>3, <2>1, Carried, WakingKeeps DEF IInv, TypeOK
  <2>4. Say(l, word) /\ True(word, links'[l])
    BY <1>3, <2>1 DEF Refuse
  <2>. QED
    BY <1>1, <2>1, <2>2, <2>3, <2>4, Carried, Conclude DEF DecisionWrite, IInv, TypeOK
<1>4. CASE d.op = "approve" /\ CanApprove(l, a, at)
  <2>1. PICK new : new = [links[l] EXCEPT !.status = "approved"]
    OBVIOUS
  <2>2. new \in LinkRow /\ new.status = "approved"
    BY <1>2, <2>1 DEF LinkRow, Unfinished
  <2>3. Moved(links[l], new)
    BY <1>4, <2>2, NobodyAssumption DEF CanApprove, Moved, Hopeless, ApproverGone, Unfinished, Final
  <2>4. links' = [links EXCEPT ![l] = new] /\ polls' = Woken(polls, {l}) /\ Refuse(a, l, "approved")
    BY <1>2, <1>4, <2>1 DEF DecisionWrite
  <2>5. True("approved", new)
    BY DEF True
  <2>. QED
    BY <1>3, <2>3, <2>4, <2>5
<1>5. CASE d.op # "approve" /\ CanDeny(l, asks[a].from, at)
  <2>1. links[l].status \in Unfinished
    BY <1>1, <1>5 DEF CanDeny
  <2>2. PICK new : new = [Erased(links[l]) EXCEPT !.status = "denied", !.mismatch = (d.op = "mismatch")]
    OBVIOUS
  <2>3. Moved(links[l], new) /\ new.status = "denied"
    BY <1>2, <2>1, <2>2, ErasedMoved
  <2>4. links' = [links EXCEPT ![l] = new] /\ polls' = Woken(polls, {l}) /\ Refuse(a, l, "denied")
    BY <1>5, <2>2 DEF DecisionWrite, Denied
  <2>5. True("denied", new)
    BY <2>3 DEF True, Hopeless
  <2>. QED
    BY <1>3, <2>3, <2>4, <2>5
<1>6. CASE ~(IF d.op = "approve" THEN CanApprove(l, a, at) ELSE CanDeny(l, asks[a].from, at))
  <2>1. /\ asks' = [asks EXCEPT ![a] = IF asks[a].tries >= Attempts THEN NoAsk
                                       ELSE [phase |-> "again", of |-> d, tries |-> asks[a].tries + 1]]
        /\ links' = links /\ polls' = polls /\ said' = said
    BY <1>6 DEF DecisionWrite
  <2>2. PICK r : r = IF asks[a].tries >= Attempts THEN NoAsk
                     ELSE [phase |-> "again", of |-> d, tries |-> asks[a].tries + 1]
    OBVIOUS
  <2>3. r \in AskRow /\ (r.phase \in {"again", "write"} => r.of.link \in Link)
    <3>1. CASE asks[a].tries >= Attempts
      BY <2>2, <3>1, IdlePoll DEF NoAsk
    <3>2. CASE ~(asks[a].tries >= Attempts)
      <4>1. asks[a].tries + 1 \in 1 .. Attempts
        BY <1>1, <3>2, BoundsAssumption
      <4>. QED
        BY <1>1, <2>2, <3>2, <4>1 DEF AskRow
    <3>. QED
      BY <3>1, <3>2
  <2>4. /\ asks' \in [Approvers -> AskRow]
        /\ \A b \in Approvers : asks'[b].phase \in {"again", "write"} => asks'[b].of.link \in Link
    BY <2>1, <2>2, <2>3, AskSet
  <2>. QED
    BY <2>1, <2>4, QuietStep DEF DecisionWrite, IInv, TypeOK, Rooted
<1>. QED
  BY <1>4, <1>5, <1>6

LEMMA CancelKeeps ==
  ASSUME IInv, NEW a \in Approvers, NEW l \in Link, Cancel(a, l)
  PROVE  IInv'
<1>1. LinksMove /\ Len(links') = Len(links) /\ DOMAIN links' = Link
  BY CancelMoves DEF Cancel, IInv
<1>2. /\ polls' \in [Polls -> PollRow]
      /\ \A p \in Polls : polls'[p].phase # "idle" => polls'[p].link \in DOMAIN links'
  BY <1>1, Carried, WakingKeeps DEF Cancel, IInv, TypeOK
<1>. QED
  BY <1>1, <1>2, Carried, Conclude DEF Cancel, IInv, TypeOK

-----------------------------------------------------------------------------
(* What other modules do. *)

\* Rows that move by themselves, the rest of the state as it was but for devices and removals.
LEMMA RemovalStep ==
  ASSUME IInv, LinksMove, DOMAIN links' = Link, Len(links') = Len(links),
         devices' \subseteq devices, leaving' \subseteq Approvers,
         UNCHANGED <<clock, live, mine, polls, asks, said, sessions>>
  PROVE  IInv'
BY Carried, Conclude DEF IInv, TypeOK

LEMMA RemoveLinksKeeps ==
  ASSUME IInv, NEW a \in Approvers, RemoveLinks(a)
  PROVE  IInv'
<1>. DEFINE new(l) == IF links[l].approver = a /\ links[l].status \in Unfinished
                       THEN [links[l] EXCEPT !.status = "cancelled"] ELSE links[l]
<1>1. ASSUME NEW l \in Link
      PROVE  Moved(links[l], new(l))
  <2>1. links[l] \in LinkRow
    BY LinkIs DEF IInv, TypeOK
  <2>2. CASE links[l].approver = a /\ links[l].status \in Unfinished
    <3>1. PICK k : k = [links[l] EXCEPT !.status = "cancelled"]
      OBVIOUS
    <3>2. k \in LinkRow /\ k.status = "cancelled"
      BY <2>1, <3>1 DEF LinkRow, Final
    <3>3. Moved(links[l], k)
      BY <2>2, <3>2 DEF Moved, Hopeless, Unfinished, Final
    <3>. QED
      BY <2>2, <3>1, <3>3
  <2>3. CASE ~(links[l].approver = a /\ links[l].status \in Unfinished)
    BY <2>1, <2>3, SameMoved
  <2>. QED
    BY <2>2, <2>3
<1>2. links' = [l \in Link |-> new(l)]
  BY DEF RemoveLinks
<1>. HIDE DEF new
<1>3. PICK f : f = [l \in Link |-> new(l)]
  OBVIOUS
<1>4. LinksMove /\ Len(links') = Len(links) /\ DOMAIN links' = Link
  BY <1>1, <1>2, <1>3, AllMove DEF IInv
<1>5. leaving' \subseteq Approvers
  BY DEF RemoveLinks, IInv, TypeOK
<1>. QED
  BY <1>4, <1>5, RemovalStep DEF RemoveLinks

LEMMA RemoveRowKeeps ==
  ASSUME IInv, NEW a \in Approvers, RemoveRow(a)
  PROVE  IInv'
<1>. DEFINE new(l) == IF links[l].approver = a THEN [links[l] EXCEPT !.approver = Nobody] ELSE links[l]
<1>1. ASSUME NEW l \in Link
      PROVE  Moved(links[l], new(l))
  <2>1. links[l] \in LinkRow
    BY LinkIs DEF IInv, TypeOK
  <2>2. CASE links[l].approver = a
    <3>1. PICK k : k = [links[l] EXCEPT !.approver = Nobody]
      OBVIOUS
    <3>2. k \in LinkRow /\ k.status = links[l].status /\ k.mode = links[l].mode /\ k.approver = Nobody
      BY <2>1, <3>1 DEF LinkRow
    <3>3. links[l].status \in Unfinished => k.status # "completed"
      BY <3>2 DEF Unfinished
    <3>4. Moved(links[l], k)
      BY <3>2, <3>3 DEF Moved, Hopeless, ApproverGone
    <3>. QED
      BY <2>2, <3>1, <3>4
  <2>3. CASE links[l].approver # a
    BY <2>1, <2>3, SameMoved
  <2>. QED
    BY <2>2, <2>3
<1>2. links' = [l \in Link |-> new(l)]
  BY DEF RemoveRow
<1>. HIDE DEF new
<1>3. PICK f : f = [l \in Link |-> new(l)]
  OBVIOUS
<1>4. LinksMove /\ Len(links') = Len(links) /\ DOMAIN links' = Link
  BY <1>1, <1>2, <1>3, AllMove DEF IInv
<1>5. leaving' \subseteq Approvers /\ devices' \subseteq devices
  BY DEF RemoveRow, IInv, TypeOK
<1>. QED
  BY <1>4, <1>5, RemovalStep DEF RemoveRow

\* Sessions of linked devices come and go beside the links.
LEMMA SessionsKeep ==
  ASSUME IInv, NEW u \in Users, NEW n \in Newcomers, RemoveLinked(u, n) \/ Login(u, n)
  PROVE  IInv'
<1>1. devices' \subseteq Users \X (Approvers \cup Newcomers) /\ live' \subseteq Link
  BY DEF RemoveLinked, Login, IInv, TypeOK
<1>. QED
  BY <1>1, QuietStep DEF RemoveLinked, Login, IInv, TypeOK, Rooted

LEMMA RotateKeeps ==
  ASSUME IInv, NEW l \in Link, Rotate(l)
  PROVE  IInv'
BY QuietStep DEF Rotate, IInv, TypeOK, Rooted

LEMMA TimeKeeps ==
  ASSUME IInv, Restart \/ Tick
  PROVE  IInv'
<1>1. clock' \in 1 .. MaxTime
  BY BoundsAssumption DEF Restart, Tick, IInv, TypeOK
<1>2. CASE Restart
  <2>1. /\ polls' \in [Polls -> PollRow] /\ asks' \in [Approvers -> AskRow]
        /\ \A p \in Polls : polls'[p].phase = "idle"
        /\ \A a \in Approvers : asks'[a].phase = "idle"
    BY <1>2, IdlePoll DEF Restart, NoPoll, NoAsk
  <2>. QED
    BY <1>1, <1>2, <2>1, QuietStep DEF Restart, IInv, TypeOK
<1>3. CASE Tick
  BY <1>1, <1>3, QuietStep DEF Tick, IInv, TypeOK, Rooted
<1>. QED
  BY <1>2, <1>3

-----------------------------------------------------------------------------
LEMMA IInvInit == Init => IInv
<1>. SUFFICES ASSUME Init PROVE IInv
  OBVIOUS
<1>1. links \in Seq(LinkRow) /\ Len(links) = 0 /\ Link = {}
  BY DEF Init, Link
<1>2. clock \in 1 .. MaxTime /\ Len(links) <= MaxLinks
  BY <1>1, BoundsAssumption DEF Init
<1>3. devices \subseteq Users \X (Approvers \cup Newcomers)
  BY OwnerAssumption DEF Init
<1>4. mine \in [Newcomers -> 0 .. Len(links)]
  BY <1>1 DEF Init
<1>5. polls \in [Polls -> PollRow] /\ asks \in [Approvers -> AskRow]
  BY IdlePoll DEF Init
<1>6. said \in [1 .. MaxLinks -> SUBSET Final] /\ sessions \in [1 .. MaxLinks -> Nat]
  BY DEF Init
<1>7. TypeOK
  BY <1>1, <1>2, <1>3, <1>4, <1>5, <1>6 DEF Init, TypeOK
<1>8. Rooted
  BY DEF Init, Rooted, NoPoll, NoAsk
<1>9. Words /\ OneSession
  BY <1>1 DEF Init, Words, OneSession
<1>. QED
  BY <1>7, <1>8, <1>9 DEF IInv

LEMMA IInvStep == IInv /\ [Next]_vars => IInv'
<1>. SUFFICES ASSUME IInv, [Next]_vars PROVE IInv'
  OBVIOUS
<1>1. CASE UNCHANGED vars
  BY <1>1, QuietStep DEF vars, IInv, TypeOK, Rooted
<1>2. ASSUME NEW n \in Newcomers, NewDevice(n) PROVE IInv'
  BY <1>2, CreateRequestKeeps, CancelByPollSecretKeeps, ClaimKeeps DEF NewDevice
<1>3. ASSUME NEW p \in Polls, PollAny(p) PROVE IInv'
  BY <1>3, PollSendKeeps DEF PollAny
<1>4. ASSUME NEW p \in Polls, PollStep(p) PROVE IInv'
  <2>1. CASE PollRead(p) \/ WaitEnds(p)
    <3>1. PICK due \in BOOLEAN : Read(p, polls[p], due) /\ polls[p].phase # "idle"
      BY <2>1 DEF PollRead, WaitEnds, TimerEnds
    <3>. QED
      BY <3>1, PollIs, ReadKeeps
  <2>. QED
    BY <1>4, <2>1, RegisterKeeps, CompleteKeeps DEF PollStep
<1>5. ASSUME NEW p \in Polls, Abort(p) PROVE IInv'
  BY <1>5, AbortKeeps
<1>6. ASSUME NEW a \in Approvers, Approver(a) PROVE IInv'
  BY <1>6, CreateInviteKeeps, InsertInviteKeeps, DecideAgainKeeps, DecisionWriteKeeps, ResolveKeeps, CancelKeeps,
     DecideKeeps DEF Approver
<1>7. ASSUME NEW a \in Approvers, RemoveLinks(a) \/ RemoveRow(a) PROVE IInv'
  BY <1>7, RemoveLinksKeeps, RemoveRowKeeps
<1>8. ASSUME NEW u \in Users, NEW n \in Newcomers, RemoveLinked(u, n) \/ Login(u, n) PROVE IInv'
  BY <1>8, SessionsKeep
<1>9. ASSUME NEW l \in Link, Rotate(l) PROVE IInv'
  BY <1>9, RotateKeeps
<1>10. CASE Restart \/ Tick
  BY <1>10, TimeKeeps
<1>. QED
  BY <1>1, <1>2, <1>3, <1>4, <1>5, <1>6, <1>7, <1>8, <1>9, <1>10 DEF Next

\* The inductive invariant: types, polls and decisions on links there are, true words, one session a link.
THEOREM Invariance == Spec => []IInv
BY IInvInit, IInvStep, PTL DEF Spec

\* Links, polls, decisions, words and sessions keep their types, whatever races, for any limits and bounds.
THEOREM TypeCorrect == Spec => []TypeOK
<1>1. IInv => TypeOK
  BY DEF IInv
<1>. QED
  BY <1>1, Invariance, PTL

\* A link brings in one device with one session, and only as "completed", for any number of polls, approvers,
\* links, retries and restarts (complete, completeLink).
THEOREM LinkedOnce == Spec => []OneSession
<1>1. IInv => OneSession
  BY DEF IInv
<1>. QED
  BY <1>1, Invariance, PTL

\* No poll, decision, removal or restart takes back what somebody was told of a link (denyLink, cancelLinks,
\* completeLink, effectiveStatus).
THEOREM WordsKept == Spec => []WordKept
<1>1. IInv => WordKept
  <2>. SUFFICES ASSUME IInv, NEW l \in Link
                PROVE  /\ said[l] \cap {"denied", "cancelled"} # {}
                            => EffectiveStatus(links[l], clock) \in {"denied", "cancelled"}
                       /\ "completed" \in said[l] => links[l].status = "completed"
    BY DEF WordKept
  <2>1. \A word \in said[l] : True(word, links[l])
    BY LinkIs, BoundsAssumption DEF IInv, TypeOK, Words
  <2>2. Hopeless(links[l]) => EffectiveStatus(links[l], clock) \in {"denied", "cancelled"}
    BY DEF Hopeless, EffectiveStatus, Unfinished
  <2>. QED
    BY <2>1, <2>2 DEF True
<1>. QED
  BY <1>1, Invariance, PTL
=============================================================================
