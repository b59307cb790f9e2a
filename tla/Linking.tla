-------------------------------- MODULE Linking --------------------------------
(***************************************************************************)
(* Linking a device by QR or code (src/modules/linking): the link rows and *)
(* their compare-and-sets, the decisions of signed-in devices, the polls   *)
(* of new devices with their waiters, and the completion that creates the  *)
(* session.  Removal, sign-in and refresh appear by what they do to rows   *)
(* this module reads.                                                      *)
(*                                                                         *)
(* Links are numbered in the order of their creation; secrets never        *)
(* collide.  All new devices share one network.  A decision reads and then *)
(* writes (PostgreSQL, read committed); SQLite runs the two together.      *)
(***************************************************************************)
EXTENDS Naturals, FiniteSets, Sequences

CONSTANTS
  Users, Approvers, Newcomers,
  Owner,        \* the account of each signed-in device
  Polls,        \* bound: polls a server answers at a time
  PollOf,       \* the new device each of them belongs to
  Nobody,
  Ttl,          \* LINK_TTL_SECONDS
  Repoll,       \* COMPLETED_REPOLL_MS
  DeviceLimit,  \* MAX_DEVICES_PER_USER
  MaxInvites,   \* MAX_ACTIVE_INVITES_PER_USER
  MaxRequests,  \* MAX_ACTIVE_REQUESTS_PER_NET
  Attempts,     \* COMPLETION_ATTEMPTS, DECISION_ATTEMPTS
  MaxLinks, MaxTime  \* bounds

ASSUME OwnerAssumption == Owner \in [Approvers -> Users] /\ PollOf \in [Polls -> Newcomers]
ASSUME NobodyAssumption == Nobody \notin Users \cup Approvers \cup Newcomers
ASSUME BoundsAssumption ==
  /\ {Ttl, Repoll, DeviceLimit, MaxInvites, MaxRequests, Attempts, MaxTime} \subseteq Nat \ {0}
  /\ MaxLinks \in Nat

VARIABLES
  clock,
  links,     \* device_links
  devices,   \* devices: <<account, hwid>>
  live,      \* links whose result token is neither rotated, revoked nor deleted
  leaving,   \* devices whose removal has cancelled their links and not yet committed
  mine,      \* the link whose poll secret a new device holds, 0 for none
  polls,     \* POST /auth/link/poll under way
  asks,      \* decisions of signed-in devices under way
  said,      \* final words given to anybody about a link
  sessions   \* sessions a link has created

vars == <<clock, links, devices, live, leaving, mine, polls, asks, said, sessions>>

Unfinished == {"pending", "claimed", "approved"}
Final == {"denied", "cancelled", "completed"}
Known == {"pending", "claimed", "nothing"}

LinkRow == [mode : {"request", "invite"}, status : Unfinished \cup Final,
            user : Users \cup {Nobody}, approver : Approvers \cup {Nobody},
            claimant : Newcomers \cup {Nobody}, poller : Newcomers \cup {Nobody},
            mismatch : BOOLEAN, expires : Nat, completed : Nat,
            result : Newcomers \cup {Nobody}]

Link == DOMAIN links
CanCreate == Len(links) < MaxLinks

NoPoll == [phase |-> "idle"]
NoAsk == [phase |-> "idle"]
PollRow ==
  {NoPoll} \cup [phase : {"read", "parked", "waiting", "completing"}, link : 1 .. MaxLinks,
                 known : Known, lost : 0 .. Attempts, at : Nat]
\* mismatch: an approval with a wrong number.
Decision == [op : {"approve", "mismatch", "deny"}, link : 1 .. MaxLinks]
AskRow ==
  {NoAsk} \cup [phase : {"again"}, of : Decision, tries : 1 .. Attempts]
          \cup [phase : {"write"}, of : Decision, tries : 1 .. Attempts,
                from : Unfinished, at : Nat]
          \cup [phase : {"invite"}, old : SUBSET (1 .. MaxLinks), at : Nat]

TypeOK ==
  /\ clock \in 1 .. MaxTime
  /\ links \in Seq(LinkRow) /\ Len(links) <= MaxLinks
  /\ devices \subseteq Users \X (Approvers \cup Newcomers)
  /\ live \subseteq Link
  /\ leaving \subseteq Approvers
  /\ mine \in [Newcomers -> 0 .. Len(links)]
  /\ polls \in [Polls -> PollRow]
  /\ asks \in [Approvers -> AskRow]
  /\ said \in [1 .. MaxLinks -> SUBSET Final]
  /\ sessions \in [1 .. MaxLinks -> Nat]

Init ==
  /\ clock = 1
  /\ links = <<>>
  /\ devices = {<<Owner[a], a>> : a \in Approvers}
  /\ live = {}
  /\ leaving = {}
  /\ mine = [n \in Newcomers |-> 0]
  /\ polls = [p \in Polls |-> NoPoll]
  /\ asks = [a \in Approvers |-> NoAsk]
  /\ said = [l \in 1 .. MaxLinks |-> {}]
  /\ sessions = [l \in 1 .. MaxLinks |-> 0]

-----------------------------------------------------------------------------
(* Reading a link. *)

\* An invite, or a link somebody attached to, whose approving device is gone.
ApproverGone(k) == k.approver = Nobody /\ (k.mode = "invite" \/ k.status # "pending")

\* What clients see at a time: expired is computed, never stored.
EffectiveStatus(k, at) ==
  CASE k.status \notin Unfinished -> k.status
    [] k.status \in Unfinished /\ ApproverGone(k) -> "cancelled"
    [] k.status \in Unfinished /\ ~ApproverGone(k) /\ k.expires <= at -> "expired"
    [] OTHER -> k.status

SignedIn(a) == <<Owner[a], a>> \in devices
DevicesOf(u) == {d \in devices : d[1] = u}
HasRoom(u, n) == <<u, n>> \in devices \/ Cardinality(DevicesOf(u)) < DeviceLimit

\* Unfinished, unexpired requests of the network; a final status erased the network.
ActiveRequests(at) ==
  {l \in Link : links[l].mode = "request" /\ links[l].status \in Unfinished /\ links[l].expires > at}
ActiveInvites(u, at) ==
  {l \in Link : /\ links[l].mode = "invite" /\ links[l].user = u
                /\ links[l].status \in Unfinished /\ links[l].expires > at}
Oldest(set, count) == {l \in set : Cardinality({k \in set : k < l}) < count}

-----------------------------------------------------------------------------
(* Writing links: every change is a compare-and-set. *)

\* A final status erases what the new device reported about itself.
Erased(k) == [k EXCEPT !.claimant = Nobody]

Cancellable(l, at) == links[l].status \in Unfinished /\ links[l].expires > at

\* cancelLinks: those of the set that are still unfinished.
Cancelled(set, at) ==
  [l \in Link |-> IF l \in set /\ Cancellable(l, at)
                    THEN [Erased(links[l]) EXCEPT !.status = "cancelled"] ELSE links[l]]

Denied(l, mismatch) ==
  [links EXCEPT ![l] = [Erased(@) EXCEPT !.status = "denied", !.mismatch = mismatch]]

CanDeny(l, from, at) == links[l].status = from /\ links[l].expires > at

\* Variant: the approval does not look at the status.
CanApproveAnyTime(l, a, at) == links[l].approver = a /\ links[l].expires > at

CanApprove(l, a, at) ==
  links[l].status = "claimed" /\ links[l].approver = a /\ links[l].expires > at

CanClaim(l, at) == links[l].status = "pending" /\ links[l].expires > at

\* Variant: two polls complete a link, the second by what it has read.
CanCompleteAgain(l, at) == links[l].status \in {"approved", "completed"} /\ links[l].expires > at

CanComplete(l, at) == links[l].status = "approved" /\ links[l].expires > at

\* A new link, with secrets that only its creator learns; an unset field is Nobody.
NewLink(mode, user, approver, claimant, at) ==
  [mode |-> mode, status |-> "pending", user |-> user, approver |-> approver,
   claimant |-> claimant, poller |-> claimant, mismatch |-> FALSE,
   expires |-> at + Ttl, completed |-> 0, result |-> Nobody]

\* The other side attaches itself to a pending link.
Claimed(l, user, approver, claimant, poller) ==
  [links EXCEPT ![l].status = "claimed", ![l].user = user, ![l].approver = approver,
                ![l].claimant = claimant, ![l].poller = poller]

\* The device that approves the link still belongs to its account.
HasApprover(l) == <<links[l].user, links[l].approver>> \in devices

\* A completed link keeps its result for the repeated poll, and nothing of the report.
Completed(l, at) ==
  [links EXCEPT ![l] = [Erased(@) EXCEPT !.status = "completed", !.completed = at,
                                         !.result = links[l].claimant]]

\* The row of a linked device: a new one, or the one the account had.
Joined(user, claimant) == devices \cup {<<user, claimant>>}

\* announce: the waiters of the links are woken, after the commit.
Woken(slots, set) ==
  [p \in Polls |-> IF slots[p].phase = "waiting" /\ slots[p].link \in set
                     THEN [slots[p] EXCEPT !.phase = "read"] ELSE slots[p]]

Say(l, word) == said' = [said EXCEPT ![l] = @ \cup ({word} \cap Final)]

-----------------------------------------------------------------------------
(* The new device: /auth/link. *)

\* POST /auth/link/requests.
CreateRequest(n) ==
  /\ CanCreate
  /\ Cardinality(ActiveRequests(clock)) < MaxRequests
  /\ links' = Append(links, NewLink("request", Nobody, Nobody, n, clock))
  /\ mine' = [mine EXCEPT ![n] = Len(links')]
  /\ UNCHANGED <<clock, devices, live, leaving, polls, asks, said, sessions>>

\* POST /auth/link/claim; the answer with the poll secret may be lost.
Claim(n, l) ==
  /\ links[l].mode = "invite"
  /\ EffectiveStatus(links[l], clock) = "pending"
  /\ HasApprover(l)
  /\ CanClaim(l, clock)
  /\ links' = Claimed(l, links[l].user, links[l].approver, n, n)
  /\ \E held \in {l, mine[n]} : mine' = [mine EXCEPT ![n] = held]
  /\ polls' = Woken(polls, {l})
  /\ UNCHANGED <<clock, devices, live, leaving, asks, said, sessions>>

\* POST /auth/link/cancel with the poll secret.
CancelByPollSecret(n) ==
  LET l == mine[n]
  IN /\ l # 0 /\ Cancellable(l, clock)
     /\ links' = Cancelled({l}, clock)
     /\ polls' = Woken(polls, {l})
     /\ UNCHANGED <<clock, devices, live, leaving, mine, asks, said, sessions>>

-----------------------------------------------------------------------------
(* POST /auth/link/poll. *)

\* The poll answers; whether anybody hears it changes nothing on the server.
Answer(p, l, word) ==
  /\ polls' = [polls EXCEPT ![p] = NoPoll]
  /\ Say(l, word)

\* Within a minute of the completion, while the token it issued is current.
Repeatable(l) ==
  /\ clock < links[l].completed + Repoll
  /\ l \in live
  /\ <<links[l].user, links[l].result>> \in devices

\* One read of the loop for the poll r: it answers, goes on to wait, or goes on to complete.
Read(p, r, due) ==
  LET status == EffectiveStatus(links[r.link], clock)
      goes(phase, at) == polls' = [polls EXCEPT ![p] = [r EXCEPT !.phase = phase, !.at = at]]
                         /\ UNCHANGED said
  IN /\ CASE status \in {"pending", "claimed"} /\ (status # r.known \/ due) -> Answer(p, r.link, status)
          [] status \in {"pending", "claimed"} /\ status = r.known /\ ~due -> goes("parked", 0)
          [] status = "approved" -> goes("completing", clock)
          [] status = "completed" -> Answer(p, r.link, IF Repeatable(r.link) THEN status ELSE "expired")
          [] OTHER -> Answer(p, r.link, status)
     /\ UNCHANGED <<clock, links, devices, live, leaving, mine, asks, sessions>>

\* A poll arrives with the status its device knows.
PollSend(p, known) ==
  /\ polls[p].phase = "idle"
  /\ mine[PollOf[p]] # 0
  /\ Read(p, [phase |-> "read", link |-> mine[PollOf[p]], known |-> known, lost |-> 0, at |-> 0], FALSE)

\* A poll that was woken, or lost its completion, reads again.
PollRead(p) == polls[p].phase = "read" /\ Read(p, polls[p], FALSE)

\* The waiter is registered after the read: a wake in between finds nobody.
Register(p) ==
  /\ polls[p].phase = "parked"
  /\ polls' = [polls EXCEPT ![p].phase = "waiting"]
  /\ UNCHANGED <<clock, links, devices, live, leaving, mine, asks, said, sessions>>

\* Variant: a wait has no timer of its own.
NeverDue(p) == FALSE

\* The wait ends with the time the client gave, or with the link's.
TimerEnds(p) == polls[p].phase = "waiting"

WaitEnds(p) == TimerEnds(p) /\ Read(p, polls[p], TRUE)

\* The client goes away while it waits.
Abort(p) ==
  /\ polls[p].phase = "waiting"
  /\ polls' = [polls EXCEPT ![p] = NoPoll]
  /\ UNCHANGED <<clock, links, devices, live, leaving, mine, asks, said, sessions>>

\* The compare-and-set of the completion was lost: read again, at most so often.
Lost(p) ==
  /\ LET tries == polls[p].lost + 1
     IN polls' = [polls EXCEPT ![p] = IF tries >= Attempts THEN NoPoll
                                      ELSE [@ EXCEPT !.phase = "read", !.at = 0, !.lost = tries]]
  /\ UNCHANGED <<links, devices, live, said, sessions>>

\* The approving device is gone: the link is cancelled instead.
CompleteCancelled(p, l) ==
  /\ links' = [links EXCEPT ![l] = [Erased(@) EXCEPT !.status = "cancelled"]]
  /\ Say(l, "cancelled")
  /\ polls' = Woken([polls EXCEPT ![p] = NoPoll], {l})
  /\ UNCHANGED <<devices, live, sessions>>

\* The device row and its session; a device the account had starts a new family.
CompleteDone(p, l) ==
  LET n == links[l].claimant
      u == links[l].user
  IN /\ links' = Completed(l, polls[p].at)
     /\ devices' = Joined(u, n)
     /\ live' = {k \in live : ~(links[k].user = u /\ links[k].result = n)} \cup {l}
     /\ sessions' = [sessions EXCEPT ![l] = @ + 1]
     /\ Say(l, "completed")
     /\ polls' = Woken([polls EXCEPT ![p] = NoPoll], {l})

\* The transaction of complete(): the time was read before it waited for its turn.
Complete(p) ==
  LET l == polls[p].link
      k == links[l]
  IN /\ polls[p].phase = "completing"
     /\ CASE ~CanComplete(l, polls[p].at) -> Lost(p)
          [] CanComplete(l, polls[p].at) /\ (k.claimant = Nobody \/ ~HasApprover(l)) ->
               CompleteCancelled(p, l)
          [] CanComplete(l, polls[p].at) /\ k.claimant # Nobody
               /\ HasApprover(l) /\ ~HasRoom(k.user, k.claimant) ->
               \* device_limit_reached: the link stays approved.
               polls' = [polls EXCEPT ![p] = NoPoll] /\ UNCHANGED <<links, devices, live, said, sessions>>
          [] OTHER -> CompleteDone(p, l)
     /\ UNCHANGED <<clock, leaving, mine, asks>>

-----------------------------------------------------------------------------
(* The signed-in device: /auth/me/links. *)

\* POST /auth/me/links reads the active invites; the oldest make room.
CreateInvite(a) ==
  LET active == ActiveInvites(Owner[a], clock)
      excess == Cardinality(active) - (MaxInvites - 1)
  IN /\ asks[a].phase = "idle" /\ SignedIn(a) /\ CanCreate
     /\ asks' = [asks EXCEPT ![a] =
          [phase |-> "invite", at |-> clock,
           old |-> IF Cardinality(active) >= MaxInvites THEN Oldest(active, excess) ELSE {}]]
     /\ UNCHANGED <<clock, links, devices, live, leaving, mine, polls, said, sessions>>

InsertInvite(a) ==
  /\ asks[a].phase = "invite"
  /\ asks' = [asks EXCEPT ![a] = NoAsk]
  /\ IF CanCreate /\ SignedIn(a)
       THEN /\ links' = Append(Cancelled(asks[a].old, asks[a].at),
                              NewLink("invite", Owner[a], a, Nobody, asks[a].at))
            /\ polls' = Woken(polls, {l \in asks[a].old : Cancellable(l, asks[a].at)})
       ELSE UNCHANGED <<links, polls>>
  /\ UNCHANGED <<clock, devices, live, leaving, mine, said, sessions>>

\* POST /auth/me/links/resolve: the first device of any account to come attaches itself.
Resolve(a, l) ==
  /\ SignedIn(a)
  /\ links[l].mode = "request"
  /\ CanClaim(l, clock)
  /\ links' = Claimed(l, Owner[a], a, links[l].claimant, links[l].poller)
  /\ polls' = Woken(polls, {l})
  /\ UNCHANGED <<clock, devices, live, leaving, mine, asks, said, sessions>>

Refuse(a, l, word) ==
  asks' = [asks EXCEPT ![a] = NoAsk] /\ Say(l, word)

\* The status an approval or a denial goes on from; otherwise it is answered at once.
GoesOn(d, a, status) ==
  IF d.op = "deny" THEN status \in Unfinished
  ELSE /\ status = "claimed" /\ links[d.link].approver = a
       /\ d.op = "approve" => HasRoom(Owner[a], links[d.link].claimant)

\* The read of approve and deny.
DecisionRead(a, d, tries) ==
  LET status == EffectiveStatus(links[d.link], clock)
  IN /\ IF GoesOn(d, a, status)
          THEN asks' = [asks EXCEPT ![a] = [phase |-> "write", of |-> d, tries |-> tries,
                                            from |-> status, at |-> clock]]
               /\ UNCHANGED said
          ELSE Refuse(a, d.link, IF status \in {"denied", "cancelled"} /\ (d.op = "deny") = (status = "denied")
                                   THEN status ELSE "refused")
     /\ UNCHANGED <<clock, links, devices, live, leaving, mine, polls, sessions>>

Decide(a, d) ==
  /\ asks[a].phase = "idle" /\ SignedIn(a)
  /\ links[d.link].user = Owner[a]
  /\ DecisionRead(a, d, 1)

DecideAgain(a) == asks[a].phase = "again" /\ DecisionRead(a, asks[a].of, asks[a].tries)

\* The compare-and-set of the decision; a wrong number denies the link.
DecisionWrite(a) ==
  LET d == asks[a].of
      l == d.link
      approves == d.op = "approve"
      wins == IF approves THEN CanApprove(l, a, asks[a].at) ELSE CanDeny(l, asks[a].from, asks[a].at)
  IN /\ asks[a].phase = "write"
     /\ IF wins
          THEN /\ links' = IF approves THEN [links EXCEPT ![l].status = "approved"]
                           ELSE Denied(l, d.op = "mismatch")
               /\ polls' = Woken(polls, {l})
               /\ Refuse(a, l, IF approves THEN "approved" ELSE "denied")
          ELSE /\ asks' = [asks EXCEPT ![a] = IF @.tries >= Attempts THEN NoAsk
                             ELSE [phase |-> "again", of |-> d, tries |-> @.tries + 1]]
               /\ UNCHANGED <<links, polls, said>>
     /\ UNCHANGED <<clock, devices, live, leaving, mine, sessions>>

\* POST /auth/me/links/{id}/cancel by any device of the account.
Cancel(a, l) ==
  /\ SignedIn(a) /\ links[l].user = Owner[a] /\ Cancellable(l, clock)
  /\ links' = Cancelled({l}, clock)
  /\ polls' = Woken(polls, {l})
  /\ UNCHANGED <<clock, devices, live, leaving, mine, asks, said, sessions>>

-----------------------------------------------------------------------------
(* What other modules do to these rows. *)

\* removeDevicesInTx cancels the unfinished links first and wakes nobody.
RemoveLinks(a) ==
  /\ SignedIn(a) /\ a \notin leaving
  /\ leaving' = leaving \cup {a}
  /\ links' = [l \in Link |-> IF links[l].approver = a /\ links[l].status \in Unfinished
                                THEN [links[l] EXCEPT !.status = "cancelled"] ELSE links[l]]
  /\ UNCHANGED <<clock, devices, live, mine, polls, asks, said, sessions>>

\* Then the row goes; approver_device_id is ON DELETE SET NULL.
RemoveRow(a) ==
  /\ a \in leaving
  /\ leaving' = leaving \ {a}
  /\ devices' = devices \ {<<Owner[a], a>>}
  /\ links' = [l \in Link |-> IF links[l].approver = a THEN [links[l] EXCEPT !.approver = Nobody]
                                ELSE links[l]]
  /\ UNCHANGED <<clock, live, mine, polls, asks, said, sessions>>

\* A linked device leaves; its tokens go with it (ON DELETE CASCADE).
RemoveLinked(u, n) ==
  /\ <<u, n>> \in devices
  /\ devices' = devices \ {<<u, n>>}
  /\ live' = {l \in live : ~(links[l].user = u /\ links[l].result = n)}
  /\ UNCHANGED <<clock, links, leaving, mine, polls, asks, said, sessions>>

\* The device signs in with a password: the same row, a new family of tokens.
Login(u, n) ==
  /\ HasRoom(u, n)
  /\ devices' = devices \cup {<<u, n>>}
  /\ live' = {l \in live : ~(links[l].user = u /\ links[l].result = n)}
  /\ devices' # devices \/ live' # live
  /\ UNCHANGED <<clock, links, leaving, mine, polls, asks, said, sessions>>

\* The first refresh of the new session rotates its token.
Rotate(l) ==
  /\ l \in live
  /\ live' = live \ {l}
  /\ UNCHANGED <<clock, links, devices, leaving, mine, polls, asks, said, sessions>>

\* The process ends, by shutdown (preClose: every waiting poll answers with what it reads) or by a crash,
\* and starts again later: its polls, waiters and decisions are gone, a transaction not committed is undone.
Restart ==
  /\ clock < MaxTime /\ leaving = {}
  /\ clock' = clock + 1
  /\ polls' = [p \in Polls |-> NoPoll]
  /\ asks' = [a \in Approvers |-> NoAsk]
  /\ UNCHANGED <<links, devices, live, leaving, mine, said, sessions>>

Tick ==
  /\ clock < MaxTime
  /\ clock' = clock + 1
  /\ UNCHANGED <<links, devices, live, leaving, mine, polls, asks, said, sessions>>

-----------------------------------------------------------------------------
PollStep(p) == PollRead(p) \/ Register(p) \/ WaitEnds(p) \/ Complete(p)
PollAny(p) == \E known \in Known : PollSend(p, known)

NewDevice(n) == CreateRequest(n) \/ CancelByPollSecret(n) \/ \E l \in Link : Claim(n, l)
Approver(a) ==
  \/ CreateInvite(a) \/ InsertInvite(a) \/ DecideAgain(a) \/ DecisionWrite(a)
  \/ \E l \in Link : Resolve(a, l) \/ Cancel(a, l)
  \/ \E op \in {"approve", "mismatch", "deny"}, l \in Link : Decide(a, [op |-> op, link |-> l])

Next ==
  \/ \E n \in Newcomers : NewDevice(n)
  \/ \E p \in Polls : PollAny(p) \/ PollStep(p) \/ Abort(p)
  \/ \E a \in Approvers : Approver(a) \/ RemoveLinks(a) \/ RemoveRow(a)
  \/ \E u \in Users, n \in Newcomers : RemoveLinked(u, n) \/ Login(u, n)
  \/ \E l \in Link : Rotate(l)
  \/ Restart \/ Tick

\* The server's steps run; a device that shows a code polls on.
Fairness == \A p \in Polls : WF_vars(PollStep(p)) /\ WF_vars(PollAny(p))

Spec == Init /\ [][Next]_vars /\ Fairness

-----------------------------------------------------------------------------
(* Properties. *)

\* A link brings in one device with one session, however many polls, claims and retries meet
\* (complete, DESIGN 4.10.6), and it does so only as "completed".
OneSession ==
  \A l \in Link : sessions[l] = (IF links[l].status = "completed" THEN 1 ELSE 0)

\* A link somebody was told is denied or cancelled never comes back and never brings a device in, and one
\* told to be completed stays so: no poll, decision or removal under way undoes the word (denyLink,
\* cancelLinks, completeLink, effectiveStatus).
WordKept ==
  \A l \in Link :
    /\ said[l] \cap {"denied", "cancelled"} # {} => EffectiveStatus(links[l], clock) \in {"denied", "cancelled"}
    /\ "completed" \in said[l] => links[l].status = "completed"

\* An account never has more devices than its limit, whichever links and sign-ins race for the last place.
WithinDeviceLimit == \A u \in Users : Cardinality(DevicesOf(u)) <= DeviceLimit

\* While its device polls on, an approved link is completed, cancelled or denied, expires, or waits for a
\* place in a full account; a wake that came between the read and the waiter is made up for (poll).
Settled(l) ==
  \/ l \notin Link
  \/ EffectiveStatus(links[l], clock) # "approved"
  \/ \A p \in Polls : PollOf[p] = links[l].poller => mine[PollOf[p]] # l
  \/ ~HasRoom(links[l].user, links[l].claimant)
ApprovedSettles == \A l \in 1 .. MaxLinks : []<>Settled(l)
=============================================================================
