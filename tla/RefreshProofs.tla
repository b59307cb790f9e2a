----------------------------- MODULE RefreshProofs -----------------------------
(***************************************************************************)
(* Proofs about Refresh: for any number of requests, tokens, users and     *)
(* epochs, any times, and every deployment.                                *)
(*                                                                         *)
(* Rows are of one device and point to younger tokens (Family).  A device  *)
(* that keeps to its duties holds the newest token it knows: of younger    *)
(* ones none was rotated or used (Duty).  What the tokens a device may     *)
(* come with lead to holds one current token, in the database and in the   *)
(* copy (Lines), and where grants do not overlap no other row is current.  *)
(***************************************************************************)
EXTENDS Refresh, FiniteSetTheorems, TLAPS

\* Stored rows are of one device, and a rotated row points to a younger token of the same login that was signed when
\* its window began.
Family(I, R, dev) ==
  /\ \A t \in DOMAIN I : R[t] # NoRow => I[t].did = dev
  /\ \A t \in DOMAIN I : R[t].to # 0 => /\ R[t].to \in DOMAIN I /\ t < R[t].to
                                        /\ R[t].grace + Ttl = I[R[t].to].exp + Grace
                                        /\ I[R[t].to].login = I[t].login

\* A start on a restored database holds the flag, and the users it is done with have new epochs.
Starting ==
  /\ process # Up => pending /\ mode.restores
  /\ graceUntil # 0 => mode.restores
  /\ process = Up \/ process.phase = "open" => stale = {}
  /\ process.phase = "rotate" => \A h \in stale : h > process.after

\* What a transaction has seen.
Open(s) == requests[s].phase \in {"found", "unknown", "granted"}
Transactions ==
  /\ ~mode.overlap => \A r, s \in Slot : Open(r) /\ Open(s) => r = s
  /\ \A s \in Slot :
       /\ requests[s].phase = "found" /\ ~requests[s].current =>
            (rows[requests[s].token] # NoRow => rows[requests[s].token].to # 0)
       /\ requests[s].phase \in {"unknown", "granted"} => rows[requests[s].token] = NoRow

\* Since a copy was restored the server knows that it was.
Restored == process # Up \/ graceUntil # 0

\* What a rotated row of the held token says: the successor is there or the window is over, and the device was answered.
Successor(R, t, since, time) ==
  /\ \A u \in DOMAIN R : t < u => R[u].to = 0 /\ ~R[u].confirmed
  /\ R[t].to # 0 => /\ R[R[t].to] # NoRow \/ R[t].grace <= time
                    /\ since # 0 /\ since + Grace <= R[t].grace

\* The device waits for one request at a time, of the token it holds.
Waiting ==
  /\ \A s \in Slot : requests[s] # Free => mine = s
  /\ mine # 0 => held # 0
  /\ \A s \in Slot : requests[s].phase \in {"sent", "found", "unknown", "granted"} => requests[s].token = held

\* An answer is a younger token, which is known as long as it is of use.
Lasting(t) == rows[t] # NoRow \/ device # issued[t].did \/ issued[t].exp <= now \/ Restored
Answers ==
  \A s \in Slot : requests[s].phase = "answered" /\ requests[s].token # 0 =>
    held < requests[s].token /\ Lasting(requests[s].token)

\* Why the server does not know the held token.
Forgotten == \/ issued[held].exp <= now
             \/ rotatedAt # 0 /\ rotatedAt + Grace <= now
             \/ rotatedAt = 0 /\ Restored /\ \A s \in Slot : requests[s].phase # "found"
Known ==
  held # 0 => /\ Successor(rows, held, rotatedAt, now) /\ Successor(backup.rows, held, rotatedAt, now)
              /\ rows[held] = NoRow /\ device = issued[held].did => Forgotten

Duty == Waiting /\ Answers /\ Known

IInv ==
  /\ TypeOK
  /\ access = held
  /\ Family(issued, rows, device) /\ Family(issued, backup.rows, backup.device)
  /\ Starting
  /\ Transactions
  /\ ~mode.late => Duty
  /\ NoFalseReuse

\* The tokens that others lead to, and those of them that are current.
Reach(R, P) == (P \cup {R[t].to : t \in P}) \ {0}
IsCurrent(R, t) == R[t] # NoRow /\ R[t].to = 0
Line(R, P) == \A t, u \in Reach(R, P) : IsCurrent(R, t) /\ IsCurrent(R, u) => t = u

\* The tokens the device could still come with if the server stopped now.
Kept == ({held} \cup {requests[s].token : s \in {r \in Slot : r = mine /\ requests[r].phase = "answered"}}) \ {0}

\* The device asks with the token it holds, and the answer is of the same login.
Asked ==
  \A s \in Slot : mine = s =>
    /\ held # 0 /\ requests[s] # Free
    /\ requests[s].phase # "answered" => requests[s].token = held
    /\ requests[s].phase = "answered" /\ requests[s].token # 0 => issued[requests[s].token].login = issued[held].login

\* The copy is an earlier state: what it knows of a successor is still so.
Copies ==
  \A t \in Token :
    /\ rows[t].to # 0 => (backup.rows[rows[t].to] # NoRow => backup.rows[t].to = rows[t].to)
    /\ rows[t] # NoRow /\ backup.rows[t].to # 0 => rows[t].to = backup.rows[t].to

\* The grant the device waits for deletes whatever the device could come with.
Granted(s) == requests[s].phase = "granted"
Deletes == \A s \in Slot : mine = s /\ Granted(s) => \A t \in Reach(rows, Presented) : rows[t] # NoRow => t \in requests[s].doomed

\* No login is later than that of the held token, nor than that of a stored token that a sign-out comes with.
Newest ==
  /\ \A n \in Token : issued[n].login <= Cardinality(Logins)
  /\ held # 0 => \A n \in Token : issued[n].login <= issued[held].login
Later ==
  \A p \in logouts : rows[p] # NoRow =>
    /\ \A n \in Token : rows[n] # NoRow => issued[n].login <= issued[p].login
    /\ \A s \in Slot : Granted(s) /\ p \notin requests[s].doomed => issued[requests[s].token].login <= issued[p].login

\* Where two grants never overlap no second row is current at all.
Apart == mode.overlap /\ mode.late /\ mode.restores
OneRow(R) == \A t, u \in Token : IsCurrent(R, t) /\ IsCurrent(R, u) => t = u
Single ==
  /\ ~Apart => OneRow(rows) /\ OneRow(backup.rows) /\ \A s \in Slot : Granted(s) => Stored \subseteq requests[s].doomed
  /\ \A s \in Slot : Granted(s) => mode.restores

Lines == Asked /\ Copies /\ Line(rows, Presented) /\ Line(backup.rows, Kept) /\ Deletes /\ Newest /\ Later /\ Single

-----------------------------------------------------------------------------
(* Types. *)

Signed == [did : Nat \ {0}, exp : Nat, login : Nat \ {0}]

\* TypeOK in three parts: what the server runs, what it stores, and what is under way.
ServerOK ==
  /\ mode \in Deployments
  /\ process \in {Up, Down} \cup [phase : {"rotate"}, at : 1 .. MaxTime, after : Nat] \cup [phase : {"open"}, at : 1 .. MaxTime]
  /\ pending \in BOOLEAN /\ stale \subseteq 1 .. Heads
  /\ now \in 1 .. MaxTime
  /\ graceUntil \in Nat
TokensOK ==
  /\ issued \in Seq(Signed) /\ Len(issued) \in 1 .. MaxToken
  /\ backup \in [rows : [1 .. MaxToken -> TokenRow], device : Devices \cup {0}]
  /\ rows \in [1 .. MaxToken -> TokenRow]
  /\ \A R \in {rows, backup.rows} : \A t \in 1 .. MaxToken : R[t] # NoRow => t \in Token /\ R[t].to \in Token \cup {0}
  /\ device \in Devices \cup {0}
  /\ removedBy \in {"nobody", "user", "logout", "reuse", "restore"}
ClientOK ==
  /\ requests \in [Slot -> Request]
  /\ logouts \subseteq Token
  /\ mine \in Slot \cup {0}
  /\ {held, access} \subseteq Token \cup {0}
  /\ rotatedAt \in 0 .. now

LEMMA TypeParts ==
  /\ TypeOK <=> ServerOK /\ TokensOK /\ ClientOK
  /\ TypeOK' <=> ServerOK' /\ TokensOK' /\ ClientOK'
BY DEF TypeOK, ServerOK, TokensOK, ClientOK, Signed

LEMMA Constants ==
  /\ Grace \in Nat /\ Ttl \in Nat /\ RestoreGrace \in Nat /\ Grace <= Ttl
  /\ MaxTime \in Nat /\ MaxTime > 0 /\ Heads \in Nat /\ EpochBatch \in Nat /\ EpochBatch > 0 /\ 0 \notin Slot
BY TimesAssumption, SlotAssumption

LEMMA ModeIs ==
  ASSUME ServerOK
  PROVE  /\ mode.overlap \in BOOLEAN /\ mode.late \in BOOLEAN /\ mode.restores \in BOOLEAN
         /\ MaxToken \in Nat /\ MaxToken > 0 /\ mode.time \in 1 .. MaxTime
BY ModeAssumption DEF ServerOK, MaxToken

LEMMA NowIs ==
  ASSUME ServerOK
  PROVE  now \in 1 .. MaxTime /\ now \in Nat /\ now > 0 /\ now + Ttl \in Nat /\ now + Grace \in Nat
         /\ now + Grace \in -1 .. MaxTime + Grace
BY Constants DEF ServerOK

LEMMA ProcessIs ==
  ASSUME ServerOK
  PROVE  /\ process.phase \in {"up", "down", "rotate", "open"}
         /\ process.phase = "up" <=> process = Up
         /\ process.phase = "down" <=> process = Down
         /\ process.phase = "rotate" => /\ process \in [phase : {"rotate"}, at : 1 .. MaxTime, after : Nat]
                                        /\ process.at \in 1 .. MaxTime /\ process.after \in Nat
         /\ process.phase = "open" => process \in [phase : {"open"}, at : 1 .. MaxTime] /\ process.at \in 1 .. MaxTime
BY DEF ServerOK, Up, Down

LEMMA RowIs == Fresh # NoRow /\ NoRow.to = 0 /\ ~NoRow.confirmed /\ Fresh.to = 0 /\ ~Fresh.confirmed
BY DEF NoRow, Fresh

LEMMA RowTyped ==
  ASSUME ServerOK
  PROVE  NoRow \in TokenRow /\ Fresh \in TokenRow
BY ModeIs, Constants DEF NoRow, Fresh, TokenRow

\* Requests, by their phase.
LEMMA RequestIs ==
  ASSUME NEW r \in Request
  PROVE  /\ r.phase \in {"free", "sent", "answered", "found", "unknown", "granted"}
         /\ r = Free <=> r.phase = "free"
         /\ r.phase \in {"sent", "found", "unknown", "granted"} => r.token \in Token
         /\ r.phase = "answered" => r.token \in Token \cup {0}
         /\ r.phase = "found" => r.current \in BOOLEAN
         /\ r.phase = "granted" => r.doomed \subseteq Token
BY DEF Request, Free

LEMMA TokenIs ==
  ASSUME ServerOK, TokensOK
  PROVE  /\ Len(issued) \in Nat /\ Token = 1 .. Len(issued) /\ Token \subseteq 1 .. MaxToken /\ 0 \notin Token
         /\ \A t \in Token : /\ issued[t].did \in Nat /\ issued[t].did # 0 /\ issued[t].exp \in Nat
                             /\ issued[t].login \in Nat /\ issued[t].login # 0 /\ issued[t] \in Signed /\ t \in Nat
         /\ \A t \in Token : rows[t] \in TokenRow /\ backup.rows[t] \in TokenRow
         /\ \A t \in 1 .. MaxToken : t \notin Token => rows[t] = NoRow /\ backup.rows[t] = NoRow
<1>1. Len(issued) \in Nat /\ Token = 1 .. Len(issued)
  BY DEF TokensOK, Token
<1>2. Token \subseteq 1 .. MaxToken /\ 0 \notin Token
  BY <1>1, ModeIs DEF TokensOK
<1>3. \A t \in Token : issued[t] \in Signed /\ t \in Nat
  BY <1>1 DEF TokensOK
<1>. QED
  BY <1>1, <1>2, <1>3 DEF Signed, TokensOK

LEMMA StoredIs ==
  ASSUME ServerOK, TokensOK, NEW t
  PROVE  t \in Stored <=> t \in Token /\ rows[t] # NoRow
BY DEF Stored

\* A token is signed.
LEMMA IssueIs ==
  ASSUME ServerOK, TokensOK, CanIssue, NEW r \in Signed, issued' = Append(issued, r), mode' = mode
  PROVE  /\ issued' \in Seq(Signed) /\ Len(issued') \in (1 .. MaxToken)' /\ MaxToken' = MaxToken
         /\ NewToken \notin Token /\ NewToken \in 1 .. MaxToken /\ Token' = Token \cup {NewToken} /\ NewToken \in Nat
         /\ \A t \in Token : issued'[t] = issued[t] /\ t < NewToken
         /\ issued'[NewToken] = r
         /\ Devices \subseteq Devices' /\ r.did \in Devices'
         /\ Request \subseteq Request'
<1>1. /\ Len(issued) \in Nat /\ Token = 1 .. Len(issued) /\ issued \in Seq(Signed) /\ MaxToken \in Nat /\ MaxToken' = MaxToken
      /\ Len(issued) + 1 <= MaxToken
  BY TokenIs, ModeIs DEF TokensOK, CanIssue, NewToken, MaxToken
<1>2. issued' \in Seq(Signed) /\ Len(issued') = Len(issued) + 1 /\ issued'[Len(issued) + 1] = r
      /\ \A t \in 1 .. Len(issued) : issued'[t] = issued[t]
  BY <1>1
<1>3. Token' = 1 .. Len(issued) + 1
  BY <1>1, <1>2 DEF Token
<1>4. NewToken = Len(issued) + 1
  BY DEF NewToken
<1>5. Token' = Token \cup {NewToken} /\ NewToken \notin Token /\ NewToken \in 1 .. MaxToken /\ \A t \in Token : t < NewToken
  BY <1>1, <1>3, <1>4
<1>6. Devices \subseteq Devices' /\ r.did \in Devices'
  BY <1>1, <1>2, <1>4, <1>5 DEF Devices
<1>7. Request \subseteq Request'
  BY <1>5 DEF Request
<1>. QED
  BY <1>1, <1>2, <1>4, <1>5, <1>6, <1>7

-----------------------------------------------------------------------------
(* Families. *)

\* Rows go, or are used.
LEMMA FamilyKept ==
  ASSUME NEW I, NEW R, NEW dev, Family(I, R, dev), NEW S,
         \A t \in DOMAIN I : S[t] = NoRow \/ (R[t] # NoRow /\ S[t].to = R[t].to /\ S[t].grace = R[t].grace)
  PROVE  Family(I, S, dev)
BY RowIs DEF Family

LEMMA FamilyNone ==
  ASSUME NEW I, NEW S, NEW dev, \A t \in DOMAIN I : S[t] = NoRow
  PROVE  Family(I, S, dev)
BY RowIs DEF Family

\* Somebody else's token is signed.
LEMMA FamilyGrown ==
  ASSUME NEW I, NEW R, NEW dev, Family(I, R, dev), NEW J, NEW n, DOMAIN J = DOMAIN I \cup {n}, n \notin DOMAIN I,
         \A t \in DOMAIN I : J[t] = I[t], R[n] = NoRow
  PROVE  Family(J, R, dev)
BY RowIs DEF Family

\* The current token is rotated.
LEMMA FamilyRotated ==
  ASSUME NEW I, NEW R, NEW dev, Family(I, R, dev), NEW J, NEW n, DOMAIN J = DOMAIN I \cup {n}, n \notin DOMAIN I,
         n # 0, \A t \in DOMAIN I : J[t] = I[t] /\ t < n,
         NEW t \in DOMAIN I, R[t] # NoRow, R[t].to = 0,
         J[n].did = dev, J[n].login = I[t].login,
         NEW S, S[n] = Fresh, S[t].to = n, S[t].grace + Ttl = J[n].exp + Grace,
         \A u \in DOMAIN I : u # t => S[u] = R[u]
  PROVE  Family(J, S, dev)
<1>1. \A u \in DOMAIN J : S[u] # NoRow => J[u].did = dev
  BY DEF Family
<1>2. \A u \in DOMAIN J : S[u].to # 0 => /\ S[u].to \in DOMAIN J /\ u < S[u].to
                                        /\ S[u].grace + Ttl = J[S[u].to].exp + Grace
                                        /\ J[S[u].to].login = J[u].login
  BY RowIs DEF Family
<1>. QED
  BY <1>1, <1>2 DEF Family

-----------------------------------------------------------------------------
(* What steps leave alone. *)

LEMMA DatabaseSame ==
  ASSUME IInv, UNCHANGED <<mode, issued, rows, device, removedBy, backup>>
  PROVE  /\ TokensOK' /\ NoFalseReuse' /\ Family(issued, rows, device)' /\ Family(issued, backup.rows, backup.device)'
         /\ Token' = Token /\ Stored' = Stored /\ Request' = Request
<1>1. Token' = Token /\ Devices' = Devices /\ MaxToken' = MaxToken
  BY DEF Token, Devices, MaxToken
<1>2. TokenRow' = TokenRow /\ Request' = Request
  BY <1>1 DEF TokenRow, Request
<1>3. Stored' = Stored
  BY <1>1 DEF Stored
<1>. QED
  BY <1>1, <1>2, <1>3, TypeParts DEF IInv, TokensOK, NoFalseReuse

LEMMA ServerSame ==
  ASSUME IInv, UNCHANGED maintenance, UNCHANGED <<now, graceUntil>>
  PROVE  ServerOK' /\ Starting' /\ UNCHANGED <<mode, process, pending, stale>> /\ Restored' = Restored
BY TypeParts DEF IInv, ServerOK, Starting, maintenance, Restored

LEMMA KnownSame ==
  ASSUME IInv, ~mode.late, UNCHANGED <<issued, rows, device, backup, held, rotatedAt>>,
         now <= now', now' \in Nat, Restored => Restored',
         \A s \in Slot : requests'[s].phase = "found" => requests[s].phase = "found" \/ rows[held] # NoRow
  PROVE  Known' /\ \A t \in Token : Lasting(t) => Lasting(t)'
<1>1. ServerOK /\ TokensOK /\ ClientOK /\ Known
  BY TypeParts DEF IInv, Duty
<1>2. now \in Nat
  BY <1>1, NowIs
<1>3. \A t \in Token : issued[t].exp \in Nat
  BY <1>1, TokenIs
<1>4. \A t \in Token : Lasting(t) => Lasting(t)'
  BY <1>2, <1>3 DEF Lasting
<1>5. CASE held = 0
  BY <1>4, <1>5 DEF Known
<1>6. CASE held # 0
  <2>1. held \in Token /\ held \in 1 .. MaxToken /\ rotatedAt \in Nat
    BY <1>1, <1>6, TokenIs, Constants DEF ClientOK
  <2>2. \A R \in {rows, backup.rows} : R[held].grace \in Int
    <3>1. \A r \in TokenRow : r.grace \in Int
      BY Constants DEF TokenRow
    <3>. QED
      BY <1>1, <1>6, <2>1, <3>1, TokenIs
  <2>3. \A R \in {rows, backup.rows} : Successor(R, held, rotatedAt, now) => Successor(R, held, rotatedAt, now')
    BY <1>2, <2>2 DEF Successor
  <2>4. Successor(rows, held, rotatedAt, now') /\ Successor(backup.rows, held, rotatedAt, now')
    BY <1>1, <1>6, <2>3 DEF Known
  <2>5. rows[held] = NoRow /\ Forgotten => Forgotten'
    BY <1>2, <1>3, <2>1, Constants DEF Forgotten
  <2>. QED
    BY <1>1, <1>4, <1>6, <2>4, <2>5 DEF Known
<1>. QED
  BY <1>5, <1>6

\* One request changes and no row does.
LEMMA SlotTransactions ==
  ASSUME IInv, UNCHANGED <<mode, issued, rows>>, NEW s \in Slot, NEW q, requests' = [requests EXCEPT ![s] = q],
         q.phase \in {"found", "unknown", "granted"} => mode.overlap \/ \A r \in Slot \ {s} : ~Open(r),
         q.phase = "found" /\ ~q.current => (rows[q.token] # NoRow => rows[q.token].to # 0),
         q.phase \in {"unknown", "granted"} => rows[q.token] = NoRow
  PROVE  Transactions'
<1>1. \A r \in Slot : requests'[r] = IF r = s THEN q ELSE requests[r]
  BY TypeParts DEF IInv, ClientOK
<1>. QED
  BY <1>1 DEF IInv, Transactions, Open

\* A step that leaves database, server and time alone.
LEMMA StepKeeps ==
  ASSUME IInv, UNCHANGED maintenance, UNCHANGED <<now, issued, rows, device, removedBy, graceUntil, backup>>,
         ClientOK', Transactions', ~mode.late => Duty', access' = held'
  PROVE  IInv'
BY DatabaseSame, ServerSame, TypeParts DEF IInv

\* The new state of a request is a request.
LEMMA SlotClient ==
  ASSUME IInv, UNCHANGED issued, NEW s \in Slot, NEW q \in Request, requests' = [requests EXCEPT ![s] = q]
  PROVE  requests' \in [Slot -> Request'] /\ Token' = Token /\ \A r \in Slot : requests'[r] = IF r = s THEN q ELSE requests[r]
<1>1. Token' = Token /\ Request' = Request
  BY DEF Token, Request
<1>. QED
  BY <1>1, TypeParts DEF IInv, ClientOK

-----------------------------------------------------------------------------
(* The device. *)

LEMMA SendKeeps ==
  ASSUME IInv, NEW s \in Slot, Send(s), UNCHANGED maintenance
  PROVE  IInv'
<1>. DEFINE q == [phase |-> "sent", token |-> held]
<1>1. /\ UNCHANGED <<now, issued, rows, device, removedBy, graceUntil, backup, logouts, held, access, rotatedAt>>
      /\ requests' = [requests EXCEPT ![s] = q] /\ mine' = s /\ held # 0 /\ mine = 0 /\ requests[s] = Free
  BY DEF Send, database
<1>2. ServerOK /\ TokensOK /\ ClientOK /\ s # 0
  BY TypeParts, Constants DEF IInv
<1>3. held \in Token
  BY <1>1, <1>2 DEF ClientOK
<1>4. q \in Request
  BY <1>3 DEF Request
<1>5. requests' \in [Slot -> Request'] /\ Token' = Token /\ \A r \in Slot : requests'[r] = IF r = s THEN q ELSE requests[r]
  BY <1>1, <1>4, SlotClient
<1>6. ClientOK'
  BY <1>1, <1>2, <1>5 DEF ClientOK
<1>7. Transactions'
  <2>1. mode' = mode
    BY DEF maintenance
  <2>. QED
    BY <1>1, <2>1, SlotTransactions
<1>8. ASSUME ~mode.late
      PROVE  Duty'
  <2>1. Waiting /\ Answers
    BY <1>8 DEF IInv, Duty
  <2>2. Known' /\ \A t \in Token : Lasting(t) => Lasting(t)'
    BY <1>1, <1>2, <1>8, KnownSame, ServerSame, NowIs
  <2>3. Waiting'
    BY <1>1, <1>2, <1>5, <2>1, Constants DEF Waiting
  <2>4. Answers'
    BY <1>1, <1>2, <1>5, <2>1, <2>2, RequestIs DEF Answers, ClientOK
  <2>. QED
    BY <2>2, <2>3, <2>4 DEF Duty
<1>. QED
  BY <1>1, <1>6, <1>7, <1>8, StepKeeps DEF IInv

\* A request is over.
LEMMA FreeKeeps ==
  ASSUME IInv, NEW s \in Slot, requests' = [requests EXCEPT ![s] = Free], UNCHANGED <<mode, issued, rows>>
  PROVE  /\ Transactions' /\ requests' \in [Slot -> Request'] /\ Token' = Token
         /\ \A r \in Slot : requests'[r] = IF r = s THEN Free ELSE requests[r]
<1>1. Free \in Request /\ Free.phase = "free"
  BY DEF Request, Free
<1>2. requests' \in [Slot -> Request'] /\ Token' = Token /\ \A r \in Slot : requests'[r] = IF r = s THEN Free ELSE requests[r]
  BY <1>1, SlotClient
<1>3. Transactions'
  BY <1>1, SlotTransactions
<1>. QED
  BY <1>2, <1>3

LEMMA ReceiveKeeps ==
  ASSUME IInv, NEW s \in Slot, Receive(s), UNCHANGED maintenance
  PROVE  IInv'
<1>. DEFINE t == requests[s].token
<1>1. /\ UNCHANGED <<now, issued, rows, device, removedBy, graceUntil, backup, logouts>>
      /\ requests' = [requests EXCEPT ![s] = Free] /\ mine = s /\ mine' = 0 /\ requests[s].phase = "answered"
      /\ held' = t /\ access' = t /\ rotatedAt' = 0
  BY DEF Receive, database
<1>2. ServerOK /\ TokensOK /\ ClientOK /\ s # 0 /\ mode' = mode
  BY TypeParts, Constants DEF IInv, maintenance
<1>3. Transactions' /\ requests' \in [Slot -> Request'] /\ Token' = Token
      /\ \A r \in Slot : requests'[r] = IF r = s THEN Free ELSE requests[r]
  BY <1>1, <1>2, FreeKeeps
<1>4. t \in Token \cup {0}
  BY <1>1, <1>2, RequestIs DEF ClientOK
<1>5. ClientOK'
  BY <1>1, <1>2, <1>3, <1>4, NowIs DEF ClientOK
<1>6. ASSUME ~mode.late
      PROVE  Duty'
  <2>1. Waiting /\ Answers /\ Known
    BY <1>6 DEF IInv, Duty
  <2>2. \A r \in Slot : requests'[r] = Free
    BY <1>1, <1>3, <2>1 DEF Waiting
  <2>3. Free.phase = "free"
    BY DEF Free
  <2>4. Waiting' /\ Answers'
    BY <1>1, <2>2, <2>3 DEF Waiting, Answers
  <2>5. CASE t = 0
    BY <1>1, <2>4, <2>5 DEF Duty, Known
  <2>6. CASE t # 0
    <3>1. t \in Token /\ held \in Token /\ held < t /\ Lasting(t) /\ held \in Nat /\ t \in Nat /\ Token \subseteq 1 .. MaxToken
      BY <1>1, <1>2, <1>4, <2>1, <2>6, TokenIs DEF Waiting, Answers, ClientOK
    <3>2. DOMAIN rows = 1 .. MaxToken /\ DOMAIN backup.rows = 1 .. MaxToken /\ MaxToken \in Nat
      BY <1>2, ModeIs DEF TokensOK
    <3>3. \A R \in {rows, backup.rows} : Successor(R, held, rotatedAt, now) => Successor(R, t, 0, now)
      BY <3>1, <3>2 DEF Successor
    <3>4. Successor(rows, t, 0, now) /\ Successor(backup.rows, t, 0, now)
      BY <1>2, <2>1, <3>1, <3>3, TokenIs DEF Known
    <3>5. rows[t] = NoRow /\ device = issued[t].did => issued[t].exp <= now \/ Restored
      BY <3>1 DEF Lasting
    <3>6. Restored' = Restored
      BY <1>1, ServerSame
    <3>7. Known'
      BY <1>1, <2>2, <2>3, <3>4, <3>5, <3>6 DEF Known, Forgotten
    <3>. QED
      BY <2>4, <3>7 DEF Duty
  <2>. QED
    BY <2>5, <2>6
<1>. QED
  BY <1>1, <1>3, <1>5, <1>6, StepKeeps

LEMMA AbandonKeeps ==
  ASSUME IInv, NEW s \in Slot, Abandon(s), UNCHANGED maintenance
  PROVE  IInv'
<1>1. /\ UNCHANGED <<now, issued, rows, device, removedBy, graceUntil, backup, logouts, held, access, rotatedAt>>
      /\ mine = s /\ mine' = 0
      /\ requests' = [requests EXCEPT ![s] = Free] \/ (mode.late /\ UNCHANGED requests)
  BY DEF Abandon, database
<1>2. ServerOK /\ TokensOK /\ ClientOK /\ s # 0 /\ mode' = mode /\ access = held
  BY TypeParts, Constants DEF IInv, maintenance
<1>3. /\ Transactions' /\ requests' \in [Slot -> Request'] /\ Token' = Token
      /\ ~mode.late => \A r \in Slot : requests'[r] = IF r = s THEN Free ELSE requests[r]
  <2>1. CASE requests' = [requests EXCEPT ![s] = Free]
    BY <1>1, <1>2, <2>1, FreeKeeps
  <2>2. CASE mode.late /\ UNCHANGED requests
    <3>1. Token' = Token /\ Request' = Request /\ Stored' = Stored
      BY <1>1, <1>2 DEF Token, Request, Stored
    <3>. QED
      BY <1>1, <1>2, <2>2, <3>1 DEF IInv, Transactions, Open, ClientOK
  <2>. QED
    BY <1>1, <2>1, <2>2
<1>4. ClientOK'
  BY <1>1, <1>2, <1>3 DEF ClientOK
<1>5. ASSUME ~mode.late
      PROVE  Duty'
  <2>1. Waiting
    BY <1>5 DEF IInv, Duty
  <2>2. \A r \in Slot : requests'[r] = Free
    BY <1>1, <1>3, <1>5, <2>1 DEF Waiting
  <2>3. Free.phase = "free"
    BY DEF Free
  <2>4. Waiting' /\ Answers'
    BY <1>1, <2>2, <2>3 DEF Waiting, Answers
  <2>5. Known'
    BY <1>1, <1>2, <1>5, <2>2, <2>3, KnownSame, ServerSame, NowIs
  <2>. QED
    BY <2>4, <2>5 DEF Duty
<1>. QED
  BY <1>1, <1>2, <1>3, <1>4, <1>5, StepKeeps

LEMMA UnheardKeeps ==
  ASSUME IInv, NEW s \in Slot, Unheard(s), UNCHANGED maintenance
  PROVE  IInv'
<1>1. /\ UNCHANGED <<now, issued, rows, device, removedBy, graceUntil, backup, logouts, mine, held, access, rotatedAt>>
      /\ mine # s /\ requests[s].phase = "answered" /\ requests' = [requests EXCEPT ![s] = Free]
  BY DEF Unheard, database, client
<1>2. ServerOK /\ TokensOK /\ ClientOK /\ s # 0 /\ mode' = mode /\ access = held
  BY TypeParts, Constants DEF IInv, maintenance
<1>3. /\ Transactions' /\ requests' \in [Slot -> Request'] /\ Token' = Token
  BY <1>1, <1>2, FreeKeeps
<1>4. ClientOK'
  BY <1>1, <1>2, <1>3 DEF ClientOK
<1>5. mode.late
  BY <1>1 DEF IInv, Duty, Waiting, Free
<1>. QED
  BY <1>1, <1>2, <1>3, <1>4, <1>5, StepKeeps

LEMMA LogoutKeeps ==
  ASSUME IInv, Logout, UNCHANGED maintenance
  PROVE  IInv'
<1>1. /\ UNCHANGED <<now, issued, rows, device, removedBy, graceUntil, backup, requests, mine>>
      /\ held # 0 /\ mine = 0 /\ logouts' = logouts \cup {held} /\ held' = 0 /\ access' = 0 /\ rotatedAt' = 0
  BY DEF Logout, database
<1>2. ServerOK /\ TokensOK /\ ClientOK /\ mode' = mode
  BY TypeParts DEF IInv, maintenance
<1>3. Token' = Token /\ Request' = Request /\ Stored' = Stored
  BY <1>1, <1>2 DEF Token, Request, Stored
<1>4. Transactions'
  BY <1>1, <1>2, <1>3 DEF IInv, Transactions, Open
<1>5. ClientOK'
  BY <1>1, <1>2, <1>3, NowIs DEF ClientOK
<1>6. ASSUME ~mode.late
      PROVE  Duty'
  <2>1. \A r \in Slot : requests[r] = Free
    BY <1>1, <1>6, Constants DEF IInv, Duty, Waiting
  <2>2. Free.phase = "free"
    BY DEF Free
  <2>. QED
    BY <1>1, <2>1, <2>2 DEF Duty, Waiting, Answers, Known
<1>. QED
  BY <1>1, <1>2, <1>4, <1>5, <1>6, StepKeeps

-----------------------------------------------------------------------------
(* Time, starts and copies. *)

\* A step of the server alone, or of time.
LEMMA ServerKeeps ==
  ASSUME IInv, UNCHANGED <<mode, issued, rows, device, removedBy, backup, requests, logouts, client>>,
         ServerOK', Starting', now <= now', Restored => Restored'
  PROVE  IInv'
<1>1. ServerOK /\ TokensOK /\ ClientOK /\ access = held /\ UNCHANGED <<mine, held, access, rotatedAt>>
  BY TypeParts DEF IInv, client
<1>2. TokensOK' /\ NoFalseReuse' /\ Family(issued, rows, device)' /\ Family(issued, backup.rows, backup.device)'
      /\ Token' = Token /\ Stored' = Stored /\ Request' = Request
  BY DatabaseSame
<1>3. ClientOK'
  BY <1>1, <1>2, NowIs, Constants DEF ClientOK, ServerOK
<1>4. Transactions'
  BY <1>1, <1>2 DEF IInv, Transactions, Open
<1>5. now' \in Nat
  BY Constants DEF ServerOK
<1>6. ASSUME ~mode.late
      PROVE  Duty'
  <2>1. Waiting /\ Answers /\ Known
    BY <1>6 DEF IInv, Duty
  <2>2. Known' /\ \A t \in Token : Lasting(t) => Lasting(t)'
    BY <1>1, <1>5, <1>6, KnownSame
  <2>3. Answers'
    BY <1>1, <2>1, <2>2, RequestIs DEF Answers, ClientOK
  <2>4. Waiting'
    BY <1>1, <2>1 DEF Waiting
  <2>. QED
    BY <2>2, <2>3, <2>4 DEF Duty
<1>. QED
  BY <1>1, <1>2, <1>3, <1>4, <1>6, TypeParts DEF IInv

LEMMA TickKeeps ==
  ASSUME IInv, Tick, UNCHANGED maintenance
  PROVE  IInv'
<1>1. /\ UNCHANGED <<mode, process, pending, stale, issued, rows, device, removedBy, graceUntil, backup, requests, logouts, client>>
      /\ now < mode.time /\ now' = now + 1
  BY DEF Tick, database, maintenance
<1>2. ServerOK
  BY TypeParts DEF IInv
<1>3. now' \in 1 .. MaxTime /\ now <= now'
  BY <1>1, <1>2, NowIs, ModeIs, Constants
<1>4. ServerOK' /\ Starting'
  BY <1>1, <1>2, <1>3 DEF ServerOK, Starting, IInv
<1>. QED
  BY <1>1, <1>3, <1>4, ServerKeeps DEF Restored

\* The users one transaction gives new epochs: a page that is not full is the last.
LEMMA PageIs ==
  ASSUME NEW after \in Nat, LET page == {h \in 1 .. Heads : h > after /\ h <= after + EpochBatch}
                            IN Cardinality(page) < EpochBatch
  PROVE  Heads < after + EpochBatch
<1>. DEFINE page == {h \in 1 .. Heads : h > after /\ h <= after + EpochBatch}
<1>1. SUFFICES ASSUME after + EpochBatch <= Heads
               PROVE  Cardinality(page) = EpochBatch
  BY Constants
<1>2. page = after + 1 .. after + EpochBatch
  BY <1>1, Constants
<1>3. Cardinality(after + 1 .. after + EpochBatch) = EpochBatch
  BY FS_Interval, Constants
<1>. QED
  BY <1>2, <1>3

LEMMA StartKeeps ==
  ASSUME IInv, Start
  PROVE  IInv'
<1>1. /\ UNCHANGED <<mode, pending, stale, now, issued, rows, device, removedBy, graceUntil, backup, requests, logouts, client>>
      /\ process = Down /\ process' = IF pending THEN [phase |-> "rotate", at |-> now, after |-> 0] ELSE Up
  BY DEF Start, database
<1>2. ServerOK /\ Starting
  BY TypeParts DEF IInv
<1>3. process # Up /\ pending /\ mode.restores
  BY <1>1, <1>2, ProcessIs DEF Starting, Up, Down
<1>4. process' = [phase |-> "rotate", at |-> now, after |-> 0] /\ now \in 1 .. MaxTime /\ now \in Nat
  BY <1>1, <1>2, <1>3, NowIs
<1>5. process'.phase = "rotate" /\ process'.after = 0 /\ process' # Up
  BY <1>4 DEF Up
<1>6. ServerOK'
  BY <1>1, <1>2, <1>4 DEF ServerOK
<1>7. \A h \in stale : h > 0
  BY <1>2 DEF ServerOK
<1>8. Starting'
  BY <1>1, <1>2, <1>3, <1>5, <1>7 DEF Starting
<1>. QED
  BY <1>1, <1>4, <1>5, <1>6, <1>8, ServerKeeps DEF Restored

LEMMA RotateEpochsKeeps ==
  ASSUME IInv, RotateEpochs
  PROVE  IInv'
<1>. DEFINE page == {h \in 1 .. Heads : h > process.after /\ h <= process.after + EpochBatch}
<1>1. /\ UNCHANGED <<mode, pending, now, issued, rows, device, removedBy, graceUntil, backup, requests, logouts, client>>
      /\ process.phase = "rotate" /\ stale' = stale \ page
      /\ process' = IF Cardinality(page) < EpochBatch THEN [phase |-> "open", at |-> process.at]
                    ELSE [process EXCEPT !.after = process.after + EpochBatch]
  BY DEF RotateEpochs, database
<1>2. ServerOK /\ Starting
  BY TypeParts DEF IInv
<1>3. /\ process \in [phase : {"rotate"}, at : 1 .. MaxTime, after : Nat] /\ process.at \in 1 .. MaxTime
      /\ process.after \in Nat /\ process # Up
  BY <1>1, <1>2, ProcessIs
<1>4. process.after + EpochBatch \in Nat
  BY <1>3, Constants
<1>5. process' \in [phase : {"rotate"}, at : 1 .. MaxTime, after : Nat] \cup [phase : {"open"}, at : 1 .. MaxTime]
  BY <1>1, <1>3, <1>4
<1>6. ServerOK'
  BY <1>1, <1>2, <1>5 DEF ServerOK
<1>7. process' # Up
  BY <1>5 DEF Up
<1>8. pending /\ mode.restores /\ \A h \in stale : h > process.after /\ h \in 1 .. Heads
  BY <1>1, <1>2, <1>3 DEF Starting, ServerOK
<1>9. CASE Cardinality(page) < EpochBatch
  <2>1. Heads < process.after + EpochBatch
    BY <1>3, <1>9, PageIs
  <2>2. stale' = {}
    BY <1>1, <1>3, <1>8, <2>1, Constants
  <2>3. process'.phase = "open"
    BY <1>1, <1>9
  <2>. QED
    BY <1>1, <1>2, <1>6, <1>7, <1>8, <2>2, <2>3, NowIs, ServerKeeps DEF Starting, Restored
<1>10. CASE ~(Cardinality(page) < EpochBatch)
  <2>1. process'.phase = "rotate" /\ process'.after = process.after + EpochBatch
    BY <1>1, <1>3, <1>10
  <2>2. \A h \in stale' : h > process'.after
    BY <1>1, <1>3, <1>4, <1>8, <2>1, Constants
  <2>. QED
    BY <1>1, <1>2, <1>6, <1>7, <1>8, <2>1, <2>2, NowIs, ServerKeeps DEF Starting, Restored
<1>. QED
  BY <1>9, <1>10

LEMMA ReadyKeeps ==
  ASSUME IInv, Ready
  PROVE  IInv'
<1>1. /\ UNCHANGED <<mode, stale, now, issued, rows, device, removedBy, backup, requests, logouts, client>>
      /\ process.phase = "open" /\ graceUntil' = process.at + RestoreGrace /\ pending' = FALSE /\ process' = Up
  BY DEF Ready, OpenWindow, database
<1>2. ServerOK /\ Starting
  BY TypeParts DEF IInv
<1>3. process.at \in 1 .. MaxTime /\ process # Up /\ mode.restores /\ stale = {}
  BY <1>1, <1>2, ProcessIs DEF Starting
<1>4. graceUntil' \in Nat /\ graceUntil' # 0
  BY <1>1, <1>3, Constants
<1>5. ServerOK'
  BY <1>1, <1>2, <1>4 DEF ServerOK
<1>6. Starting'
  BY <1>1, <1>3 DEF Starting, Up
<1>. QED
  BY <1>1, <1>2, <1>4, <1>5, <1>6, NowIs, ServerKeeps DEF Restored

LEMMA DiesKeeps ==
  ASSUME IInv, Dies
  PROVE  IInv'
<1>1. /\ UNCHANGED <<mode, pending, stale, now, issued, rows, device, removedBy, graceUntil, backup, requests, logouts, client>>
      /\ process.phase \in {"rotate", "open"} /\ process' = Down
  BY DEF Dies, database
<1>2. ServerOK /\ Starting
  BY TypeParts DEF IInv
<1>3. process # Up /\ process' # Up /\ process'.phase = "down"
  BY <1>1, <1>2, ProcessIs DEF Up, Down
<1>4. ServerOK' /\ Starting'
  BY <1>1, <1>2, <1>3 DEF ServerOK, Starting
<1>. QED
  BY <1>1, <1>2, <1>3, <1>4, NowIs, ServerKeeps DEF Restored

LEMMA TakeBackupKeeps ==
  ASSUME IInv, TakeBackup
  PROVE  IInv'
<1>1. /\ UNCHANGED <<now, issued, rows, device, removedBy, graceUntil, requests, logouts, mine, held, access, rotatedAt>>
      /\ UNCHANGED maintenance /\ mode' = mode
      /\ backup' = [rows |-> rows, device |-> device]
  BY DEF TakeBackup, database, client, maintenance
<1>2. ServerOK /\ TokensOK /\ ClientOK /\ access = held
  BY TypeParts DEF IInv
<1>3. backup'.rows = rows /\ backup'.device = device
  BY <1>1
<1>4. Token' = Token /\ Request' = Request /\ Stored' = Stored /\ Devices' = Devices /\ MaxToken' = MaxToken /\ TokenRow' = TokenRow
  BY <1>1 DEF Token, Request, Stored, Devices, MaxToken, TokenRow
<1>5. ServerOK' /\ Starting' /\ Restored' = Restored
  BY <1>1, ServerSame
<1>6. TokensOK'
  BY <1>1, <1>2, <1>3, <1>4 DEF TokensOK
<1>7. ClientOK'
  BY <1>1, <1>2, <1>4 DEF ClientOK
<1>8. Transactions'
  BY <1>1, <1>4 DEF IInv, Transactions, Open
<1>9. Family(issued, rows, device)' /\ Family(issued, backup.rows, backup.device)'
  BY <1>1, <1>3 DEF IInv
<1>10. ASSUME ~mode.late
       PROVE  Duty'
  BY <1>1, <1>3, <1>5, <1>10 DEF IInv, Duty, Waiting, Answers, Known, Lasting, Forgotten
<1>11. NoFalseReuse'
  BY <1>1 DEF IInv, NoFalseReuse
<1>. QED
  BY <1>1, <1>2, <1>5, <1>6, <1>7, <1>8, <1>9, <1>10, <1>11, TypeParts DEF IInv

-----------------------------------------------------------------------------
(* Transactions that change no row. *)

\* A request goes on or fails; its token stays.
LEMMA PhaseDuty ==
  ASSUME IInv, ~mode.late, NEW s \in Slot, NEW q, requests' = [requests EXCEPT ![s] = q],
         UNCHANGED maintenance, UNCHANGED <<now, issued, rows, device, graceUntil, backup, mine, held, access, rotatedAt>>,
         requests[s] # Free, q.phase \in {"found", "unknown", "granted"} => q.token = held,
         q.phase = "answered" => q.token = 0, q.phase # "sent", q.phase = "found" => rows[held] # NoRow
  PROVE  Duty'
<1>1. ServerOK /\ ClientOK /\ \A r \in Slot : requests'[r] = IF r = s THEN q ELSE requests[r]
  BY TypeParts DEF IInv, ClientOK
<1>2. Waiting /\ Answers
  BY DEF IInv, Duty
<1>3. Known' /\ \A t \in Token : Lasting(t) => Lasting(t)'
  BY <1>1, KnownSame, ServerSame, NowIs
<1>4. Waiting'
  BY <1>1, <1>2 DEF Waiting
<1>5. Answers'
  BY <1>1, <1>2, <1>3, RequestIs DEF Answers, ClientOK
<1>. QED
  BY <1>3, <1>4, <1>5 DEF Duty

LEMMA LookKeeps ==
  ASSUME IInv, NEW s \in Slot, Alone, Look(s), UNCHANGED maintenance
  PROVE  IInv'
<1>. DEFINE t == requests[s].token
            q == [phase |-> IF t \in Stored THEN "found" ELSE "unknown", token |-> t,
                  current |-> t \in Stored /\ rows[t].to = 0]
            no == [phase |-> "answered", token |-> 0]
<1>1. /\ UNCHANGED <<now, issued, rows, device, removedBy, graceUntil, backup, logouts, mine, held, access, rotatedAt>>
      /\ requests[s].phase = "sent"
      /\ requests' = [requests EXCEPT ![s] = q] \/ requests' = [requests EXCEPT ![s] = no]
  BY DEF Look, database, client, Fail, Answer
<1>2. ServerOK /\ TokensOK /\ ClientOK /\ access = held /\ mode' = mode
  BY TypeParts DEF IInv, maintenance
<1>3. requests[s] \in Request /\ t \in Token /\ requests[s] # Free
  BY <1>1, <1>2, RequestIs DEF ClientOK
<1>4. q \in Request /\ no \in Request
  BY <1>3 DEF Request
<1>5. requests' \in [Slot -> Request'] /\ Token' = Token
  BY <1>1, <1>4, SlotClient
<1>6. ClientOK'
  BY <1>1, <1>2, <1>5 DEF ClientOK
<1>7. mode.overlap \/ \A r \in Slot : ~Open(r)
  BY DEF Alone, Open
<1>8. /\ q.phase = "found" /\ ~q.current => rows[t].to # 0
      /\ q.phase = "found" => rows[t] # NoRow
      /\ q.phase = "unknown" => rows[t] = NoRow
      /\ q.phase \in {"found", "unknown"} /\ q.token = t
  BY <1>3 DEF Stored
<1>9. Transactions'
  <2>1. CASE requests' = [requests EXCEPT ![s] = q]
    BY <1>1, <1>2, <1>7, <1>8, <2>1, SlotTransactions
  <2>2. CASE requests' = [requests EXCEPT ![s] = no]
    BY <1>1, <1>2, <2>2, SlotTransactions
  <2>. QED
    BY <1>1, <2>1, <2>2
<1>10. ASSUME ~mode.late
       PROVE  Duty'
  <2>1. t = held
    BY <1>1, <1>10 DEF IInv, Duty, Waiting
  <2>2. CASE requests' = [requests EXCEPT ![s] = q]
    <3>1. q.phase = "found" => rows[held] # NoRow
      BY <1>8, <2>1
    <3>. QED
      BY <1>1, <1>3, <1>8, <1>10, <2>1, <2>2, <3>1, PhaseDuty
  <2>3. CASE requests' = [requests EXCEPT ![s] = no]
    <3>1. no.phase = "answered" /\ no.token = 0 /\ (no.phase \in {"found", "unknown", "granted"} => no.token = held)
      OBVIOUS
    <3>. HIDE DEF no
    <3>. QED
      BY <1>1, <1>3, <1>10, <2>3, <3>1, PhaseDuty
  <2>. QED
    BY <1>1, <2>2, <2>3
<1>. QED
  BY <1>1, <1>2, <1>6, <1>9, <1>10, StepKeeps

\* In the window of a restore: a grant follows a transaction of its own.
LEMMA GrantKeeps ==
  ASSUME IInv, NEW s \in Slot, Grant(s), UNCHANGED maintenance
  PROVE  IInv'
<1>. DEFINE t == requests[s].token
            q == [phase |-> "granted", token |-> t, doomed |-> Stored]
            no == [phase |-> "answered", token |-> 0]
<1>1. /\ UNCHANGED <<now, issued, rows, device, removedBy, graceUntil, backup, logouts, mine, held, access, rotatedAt>>
      /\ requests[s].phase = "unknown"
      /\ requests' = [requests EXCEPT ![s] = q] \/ requests' = [requests EXCEPT ![s] = no]
  BY DEF Grant, database, client, Fail, Answer
<1>2. ServerOK /\ TokensOK /\ ClientOK /\ access = held /\ mode' = mode
  BY TypeParts DEF IInv, maintenance
<1>3. requests[s] \in Request /\ t \in Token /\ requests[s] # Free
  BY <1>1, <1>2, RequestIs DEF ClientOK
<1>4. q \in Request /\ no \in Request
  BY <1>3 DEF Request, Stored
<1>5. requests' \in [Slot -> Request'] /\ Token' = Token
  BY <1>1, <1>4, SlotClient
<1>6. ClientOK'
  BY <1>1, <1>2, <1>5 DEF ClientOK
<1>7. Open(s) /\ (~mode.overlap => \A r \in Slot \ {s} : ~Open(r)) /\ rows[t] = NoRow
  BY <1>1 DEF IInv, Transactions, Open
<1>8. Transactions'
  <2>1. CASE requests' = [requests EXCEPT ![s] = q]
    BY <1>1, <1>2, <1>7, <2>1, SlotTransactions
  <2>2. CASE requests' = [requests EXCEPT ![s] = no]
    BY <1>1, <1>2, <2>2, SlotTransactions
  <2>. QED
    BY <1>1, <2>1, <2>2
<1>9. ASSUME ~mode.late
      PROVE  Duty'
  <2>1. t = held
    BY <1>1, <1>9 DEF IInv, Duty, Waiting
  <2>2. CASE requests' = [requests EXCEPT ![s] = q]
    BY <1>1, <1>3, <1>9, <2>1, <2>2, PhaseDuty
  <2>3. CASE requests' = [requests EXCEPT ![s] = no]
    <3>1. no.phase = "answered" /\ no.token = 0 /\ (no.phase \in {"found", "unknown", "granted"} => no.token = held)
      OBVIOUS
    <3>. HIDE DEF no
    <3>. QED
      BY <1>1, <1>3, <1>9, <2>3, <3>1, PhaseDuty
  <2>. QED
    BY <1>1, <2>2, <2>3
<1>. QED
  BY <1>1, <1>2, <1>6, <1>8, <1>9, StepKeeps

-----------------------------------------------------------------------------
(* Transactions that change rows. *)

\* What an open transaction saw is at worst gone.
LEMMA RowsTransactions ==
  ASSUME IInv, mode' = mode,
         \A r \in Slot : Open(r)' => requests'[r] = requests[r],
         \A t \in Token : rows'[t] # NoRow => rows[t] # NoRow /\ (rows[t].to # 0 => rows'[t].to # 0)
  PROVE  Transactions'
<1>1. \A r \in Slot : requests[r] \in Request
  BY TypeParts DEF IInv, ClientOK
<1>2. \A r \in Slot : requests[r].phase \in {"found", "unknown", "granted"} => requests[r].token \in Token
  BY <1>1, RequestIs
<1>3. \A r \in Slot : Open(r)' => requests'[r] = requests[r] /\ Open(r)
  BY DEF Open
<1>4. ~mode'.overlap => \A r, s \in Slot : Open(r)' /\ Open(s)' => r = s
  BY <1>3 DEF IInv, Transactions
<1>5. \A r \in Slot : requests'[r].phase = "found" /\ ~requests'[r].current =>
          (rows'[requests'[r].token] # NoRow => rows'[requests'[r].token].to # 0)
  BY <1>2, <1>3 DEF IInv, Transactions, Open
<1>6. \A r \in Slot : requests'[r].phase \in {"unknown", "granted"} => rows'[requests'[r].token] = NoRow
  BY <1>2, <1>3 DEF IInv, Transactions, Open
<1>. QED
  BY <1>4, <1>5, <1>6 DEF Transactions

\* The device goes, and every token with it.
LEMMA RemovedKeeps ==
  ASSUME IInv, NEW reason \in {"user", "logout", "reuse"}, RemoveDevice(reason), reason = "reuse" => mode.late,
         UNCHANGED maintenance, UNCHANGED <<now, issued, graceUntil, backup, mine, held, access, rotatedAt>>,
         logouts' \subseteq logouts, requests' \in [Slot -> Request],
         \A r \in Slot : \/ requests'[r] = requests[r]
                         \/ requests[r] # Free /\ requests'[r] = [phase |-> "answered", token |-> 0]
  PROVE  IInv'
<1>1. ServerOK /\ TokensOK /\ ClientOK /\ access = held /\ mode' = mode
  BY TypeParts DEF IInv, maintenance
<1>2. ServerOK' /\ Starting' /\ Restored' = Restored
  BY ServerSame
<1>3. device' = 0 /\ removedBy' = reason /\ rows' = [t \in 1 .. MaxToken |-> NoRow]
  BY DEF RemoveDevice
<1>4. Token' = Token /\ Request' = Request /\ Devices' = Devices /\ MaxToken' = MaxToken /\ TokenRow' = TokenRow
  BY <1>1 DEF Token, Request, Devices, MaxToken, TokenRow
<1>5. TokensOK'
  BY <1>1, <1>3, <1>4, RowTyped DEF TokensOK
<1>6. ClientOK'
  BY <1>1, <1>4 DEF ClientOK
<1>7. \A t \in Token : rows'[t] = NoRow
  BY <1>1, <1>3, TokenIs
<1>8. Family(issued, rows, device)' /\ Family(issued, backup.rows, backup.device)'
  BY <1>7, FamilyNone DEF IInv, Token
<1>9. Transactions'
  BY <1>1, <1>7, RowsTransactions DEF Open
<1>10. NoFalseReuse'
  BY <1>1, <1>3 DEF NoFalseReuse
<1>11. ASSUME ~mode.late
       PROVE  Duty'
  <2>1. Waiting /\ Answers /\ Known
    BY <1>11 DEF IInv, Duty
  <2>2. Waiting' /\ Answers'
    <3>1. \A t \in Token : Lasting(t)'
      BY <1>1, <1>3, TokenIs DEF Lasting
    <3>2. Answers'
      BY <1>1, <2>1, <3>1, RequestIs DEF Answers, ClientOK
    <3>. QED
      BY <2>1, <3>2 DEF Waiting
  <2>3. CASE held = 0
    BY <2>2, <2>3 DEF Duty, Known
  <2>4. CASE held # 0
    <3>1. held \in Token /\ held \in 1 .. MaxToken /\ issued[held].did # 0
      BY <1>1, <2>4, TokenIs DEF ClientOK
    <3>2. Successor(rows', held, rotatedAt, now)
      BY <1>3, <3>1, RowIs DEF Successor
    <3>. QED
      BY <1>3, <2>1, <2>2, <2>4, <3>1, <3>2 DEF Duty, Known
  <2>. QED
    BY <2>3, <2>4
<1>. QED
  BY <1>1, <1>2, <1>5, <1>6, <1>8, <1>9, <1>10, <1>11, TypeParts DEF IInv

LEMMA LogoutRunKeeps ==
  ASSUME IInv, NEW t \in logouts, LogoutRun(t), UNCHANGED maintenance
  PROVE  IInv'
<1>1. /\ UNCHANGED <<now, issued, graceUntil, backup, requests, mine, held, access, rotatedAt>>
      /\ logouts' = logouts \ {t} /\ mode' = mode
      /\ RemoveDevice("logout") \/ UNCHANGED <<rows, device, removedBy>>
  BY DEF LogoutRun, client, maintenance
<1>2. ServerOK /\ TokensOK /\ ClientOK /\ access = held
  BY TypeParts DEF IInv
<1>3. CASE RemoveDevice("logout")
  BY <1>1, <1>2, <1>3, RemovedKeeps DEF ClientOK
<1>4. CASE UNCHANGED <<rows, device, removedBy>>
  <2>1. Token' = Token /\ Request' = Request /\ Stored' = Stored
    BY <1>1, <1>4 DEF Token, Request, Stored
  <2>2. ClientOK' /\ Transactions'
    BY <1>1, <1>2, <1>4, <2>1 DEF ClientOK, Transactions, Open, IInv
  <2>3. ~mode.late => Duty'
    <3>1. Restored' = Restored
      BY <1>1, ServerSame
    <3>. QED
      BY <1>1, <1>4, <3>1 DEF IInv, Duty, Waiting, Answers, Known, Lasting, Forgotten
  <2>. QED
    BY <1>1, <1>2, <1>4, <2>2, <2>3, StepKeeps
<1>. QED
  BY <1>1, <1>3, <1>4

LEMMA RemoveKeeps ==
  ASSUME IInv, Remove, UNCHANGED maintenance
  PROVE  IInv'
<1>1. /\ UNCHANGED <<now, issued, graceUntil, backup, requests, logouts, mine, held, access, rotatedAt>>
      /\ RemoveDevice("user")
  BY DEF Remove, client
<1>2. requests \in [Slot -> Request]
  BY TypeParts DEF IInv, ClientOK
<1>. QED
  BY <1>1, <1>2, RemovedKeeps

\* Rows go, or the row of the token in use is noted.
LEMMA FewerKeeps ==
  ASSUME IInv, UNCHANGED maintenance,
         UNCHANGED <<now, issued, device, removedBy, graceUntil, backup, requests, logouts, mine, held, access, rotatedAt>>,
         rows' \in [1 .. MaxToken -> TokenRow],
         \A t \in 1 .. MaxToken :
           \/ rows'[t] = NoRow
           \/ rows[t] # NoRow /\ rows'[t] # NoRow /\ rows'[t].to = rows[t].to /\ rows'[t].grace = rows[t].grace,
         \A t \in Token : rows'[t].confirmed /\ t # held => rows[t].confirmed,
         \A t \in Token : rows[t] # NoRow /\ rows'[t] = NoRow =>
           issued[t].exp < now \/ (rows[t].to # 0 /\ rows[t].grace < now)
  PROVE  IInv'
<1>1. ServerOK /\ TokensOK /\ ClientOK /\ access = held /\ mode' = mode
  BY TypeParts DEF IInv, maintenance
<1>2. ServerOK' /\ Starting' /\ Restored' = Restored
  BY ServerSame
<1>3. Token' = Token /\ Request' = Request /\ Devices' = Devices /\ MaxToken' = MaxToken /\ TokenRow' = TokenRow
  BY <1>1 DEF Token, Request, Devices, MaxToken, TokenRow
<1>4. TokensOK'
  BY <1>1, <1>3 DEF TokensOK
<1>5. ClientOK'
  BY <1>1, <1>3 DEF ClientOK
<1>6. Token \subseteq 1 .. MaxToken
  BY <1>1, TokenIs
<1>7. Family(issued, rows, device)' /\ Family(issued, backup.rows, backup.device)'
  BY <1>6, FamilyKept DEF IInv, Token
<1>8. Transactions'
  <2>1. \A t \in Token : rows'[t] # NoRow => rows[t] # NoRow /\ (rows[t].to # 0 => rows'[t].to # 0)
    BY <1>6
  <2>. QED
    BY <1>1, <2>1, RowsTransactions
<1>9. ASSUME ~mode.late
      PROVE  Duty'
  <2>1. Waiting /\ Answers /\ Known
    BY <1>9 DEF IInv, Duty
  <2>2. CASE held = 0
    <3>1. Waiting' /\ \A r \in Slot : requests'[r] = Free
      BY <2>1, <2>2, Constants DEF Waiting
    <3>. QED
      BY <2>2, <3>1 DEF Duty, Answers, Known, Free
  <2>3. CASE held # 0
    <3>1. held \in Token /\ now \in Nat /\ rotatedAt \in Nat
      BY <1>1, <2>3, NowIs DEF ClientOK
    <3>2. Successor(rows, held, rotatedAt, now)
      BY <2>1, <2>3 DEF Known
    <3>3. \A t \in Token : /\ issued[t].exp \in Nat /\ rows[t].grace \in Int /\ t \in Nat
                           /\ rows[t].to \in Nat
      <4>1. \A r \in TokenRow : r.grace \in Int /\ r.to \in Nat
        BY <1>1, ModeIs, Constants DEF TokenRow
      <4>. QED
        BY <1>1, <4>1, TokenIs
    <3>4. \A t \in Token : held < t => rows[t].to = 0 /\ ~rows[t].confirmed
      BY <1>1, <1>6, <3>2, ModeIs DEF Successor, TokensOK
    <3>5. \A t \in Token : held < t /\ Lasting(t) => Lasting(t)'
      BY <1>2, <3>1, <3>3, <3>4 DEF Lasting
    <3>6. Waiting' /\ Answers'
      BY <1>1, <2>1, <3>5, RequestIs DEF Waiting, Answers, ClientOK
    <3>7. \A u \in 1 .. MaxToken : held < u => rows'[u].to = 0 /\ ~rows'[u].confirmed
      <4>1. \A u \in 1 .. MaxToken : u \notin Token => rows[u] = NoRow
        BY <1>1, TokenIs
      <4>2. \A u \in 1 .. MaxToken : held < u => u # held
        BY <3>1, <3>3, <1>1, ModeIs
      <4>. QED
        BY <3>4, <4>1, <4>2, RowIs
    <3>8. ASSUME rows'[held].to # 0
          PROVE  /\ rows'[rows'[held].to] # NoRow \/ rows'[held].grace <= now
                 /\ rotatedAt # 0 /\ rotatedAt + Grace <= rows'[held].grace
      <4>1. rows[held] # NoRow /\ rows'[held].to = rows[held].to /\ rows'[held].grace = rows[held].grace
        BY <1>6, <3>1, <3>8, RowIs
      <4>2. /\ rows[rows[held].to] # NoRow \/ rows[held].grace <= now
            /\ rotatedAt # 0 /\ rotatedAt + Grace <= rows[held].grace
        BY <3>2, <3>8, <4>1 DEF Successor
      <4>3. rows[held].to \in Token /\ held < rows[held].to /\ rows[held].grace + Ttl = issued[rows[held].to].exp + Grace
        BY <3>1, <3>8, <4>1 DEF IInv, Family, Token
      <4>4. ASSUME rows'[rows[held].to] = NoRow, rows[rows[held].to] # NoRow
            PROVE  rows[held].grace <= now
        BY <3>1, <3>3, <3>4, <4>3, <4>4, Constants
      <4>. QED
        BY <4>1, <4>2, <4>4
    <3>9. Successor(rows', held, rotatedAt, now)
      BY <3>7, <3>8, <1>1 DEF Successor
    <3>10. rows'[held] = NoRow /\ device = issued[held].did => Forgotten
      <4>1. ASSUME rows'[held] = NoRow, device = issued[held].did, rows[held] # NoRow
            PROVE  Forgotten
        <5>1. issued[held].exp < now \/ (rows[held].to # 0 /\ rows[held].grace < now)
          BY <3>1, <4>1
        <5>2. rows[held].to # 0 => rotatedAt # 0 /\ rotatedAt + Grace <= rows[held].grace
          BY <3>2 DEF Successor
        <5>. QED
          BY <3>1, <3>3, <5>1, <5>2, Constants DEF Forgotten
      <4>. QED
        BY <2>1, <2>3, <4>1 DEF Known
    <3>. QED
      BY <1>2, <2>1, <2>3, <3>6, <3>9, <3>10 DEF Duty, Known, Forgotten
  <2>. QED
    BY <2>2, <2>3
<1>10. NoFalseReuse'
  BY <1>1 DEF IInv, NoFalseReuse
<1>. QED
  BY <1>1, <1>2, <1>4, <1>5, <1>7, <1>8, <1>9, <1>10, TypeParts DEF IInv

LEMMA UseKeeps ==
  ASSUME IInv, Use, UNCHANGED maintenance
  PROVE  IInv'
<1>1. /\ UNCHANGED <<now, issued, device, removedBy, graceUntil, backup, requests, logouts, mine, held, access, rotatedAt>>
      /\ access \in Stored /\ rows' = [rows EXCEPT ![access].confirmed = TRUE]
  BY DEF Use, client
<1>2. ServerOK /\ TokensOK /\ access = held
  BY TypeParts DEF IInv
<1>3. access \in Token /\ rows[access] # NoRow /\ access \in 1 .. MaxToken /\ rows[access] \in TokenRow
  BY <1>1, <1>2, TokenIs DEF Stored
<1>4. PICK row : row = [rows[access] EXCEPT !.confirmed = TRUE]
  OBVIOUS
<1>5. row \in TokenRow /\ row.to = rows[access].to /\ row.grace = rows[access].grace /\ row # NoRow
  BY <1>3, <1>4 DEF TokenRow, NoRow
<1>6. rows' = [rows EXCEPT ![access] = row]
  BY <1>1, <1>4
<1>7. \A t \in 1 .. MaxToken : rows'[t] = IF t = access THEN row ELSE rows[t]
  BY <1>2, <1>6 DEF TokensOK
<1>8. rows' \in [1 .. MaxToken -> TokenRow]
  BY <1>2, <1>5, <1>6 DEF TokensOK
<1>9. \A t \in Token : t \in 1 .. MaxToken
  BY <1>2, TokenIs
<1>. QED
  BY <1>1, <1>2, <1>3, <1>5, <1>7, <1>8, <1>9, FewerKeeps

LEMMA CleanupKeeps ==
  ASSUME IInv, Cleanup, UNCHANGED maintenance
  PROVE  IInv'
<1>1. /\ UNCHANGED <<now, issued, device, removedBy, graceUntil, backup, requests, logouts, mine, held, access, rotatedAt>>
      /\ rows' = [t \in 1 .. MaxToken |-> IF t \in Stored /\ ~Stale(t) THEN rows[t] ELSE NoRow]
  BY DEF Cleanup, client
<1>2. ServerOK /\ TokensOK
  BY TypeParts DEF IInv
<1>3. rows' \in [1 .. MaxToken -> TokenRow]
  BY <1>1, <1>2, RowTyped DEF TokensOK
<1>4. \A t \in Token : t \in 1 .. MaxToken
  BY <1>2, TokenIs
<1>. QED
  BY <1>1, <1>3, <1>4, RowIs, FewerKeeps DEF Stored, Stale

-----------------------------------------------------------------------------
(* The compare-and-set. *)

\* A request is answered.
LEMMA AnswerIs ==
  ASSUME IInv, NEW s \in Slot, Open(s), NEW a \in Token \cup {0}, Answer(s, a)
  PROVE  /\ requests[s].token \in Token /\ requests[s] # Free
         /\ [phase |-> "answered", token |-> a] \in Request
         /\ requests'[s] = [phase |-> "answered", token |-> a] /\ requests' \in [Slot -> Request]
         /\ \A r \in Slot : r # s => requests'[r] = requests[r]
         /\ \A r \in Slot : Open(r)' => requests'[r] = requests[r]
         /\ ~mode.late => /\ mine = s /\ requests[s].token = held /\ held # 0
                          /\ \A r \in Slot : r # s => requests'[r] = Free
<1>1. requests \in [Slot -> Request]
  BY TypeParts DEF IInv, ClientOK
<1>2. requests[s] \in Request /\ requests[s].phase \in {"found", "unknown", "granted"}
  BY <1>1 DEF Open
<1>3. requests[s] # Free
  BY <1>2, RequestIs
<1>4. [phase |-> "answered", token |-> a] \in Request
  BY DEF Request
<1>5. /\ requests'[s] = [phase |-> "answered", token |-> a] /\ requests' \in [Slot -> Request]
      /\ \A r \in Slot : r # s => requests'[r] = requests[r]
  BY <1>1, <1>4 DEF Answer
<1>6. ~Open(s)' /\ \A r \in Slot : Open(r)' => requests'[r] = requests[r] /\ Open(r) /\ r # s
  BY <1>5 DEF Open
<1>7. ~mode.late => Waiting
  BY DEF IInv, Duty
<1>8. ~mode.late => mine = s /\ requests[s].token = held /\ held # 0 /\ \A r \in Slot : r # s => requests'[r] = Free
  BY <1>2, <1>3, <1>5, <1>7, Constants DEF Waiting
<1>9. requests[s].token \in Token
  <2>1. CASE requests[s].phase = "granted"
    BY <1>1, <1>2, <2>1 DEF Request, Free
  <2>. QED
    BY <1>2, <2>1, RequestIs
<1>. QED
  BY <1>3, <1>4, <1>5, <1>6, <1>8, <1>9

LEMMA NotedIs ==
  ASSUME IInv, NEW s \in Slot, Noted(s), NEW a, requests'[s].token = a
  PROVE  /\ rotatedAt' = IF requests[s].token = held /\ rotatedAt = 0 /\ a # 0 THEN now ELSE rotatedAt
         /\ rotatedAt' \in 0 .. now
BY TypeParts, NowIs DEF Noted, IInv, ClientOK

\* Nobody has rotated the token: its successor is signed.
LEMMA RotateKeeps ==
  ASSUME IInv, NEW s \in Slot, requests[s].phase = "found", NEW t, t = requests[s].token, t \in Stored, rows[t].to = 0,
         Rotate(s, t), Noted(s), UNCHANGED <<now, graceUntil, backup, logouts, mine, held, access>>, UNCHANGED maintenance
  PROVE  IInv'
<1>. PICK n : n = NewToken
  OBVIOUS
<1>. PICK r : r = [did |-> device, exp |-> now + Ttl, login |-> issued[t].login]
  OBVIOUS
<1>1. /\ CanIssue /\ issued' = Append(issued, r) /\ Answer(s, n) /\ UNCHANGED <<device, removedBy>>
      /\ rows' = [rows EXCEPT ![t] = [rows[t] EXCEPT !.to = n, !.grace = now + Grace], ![n] = Fresh]
  BY DEF Rotate, Sign
<1>2. ServerOK /\ TokensOK /\ ClientOK /\ access = held /\ mode' = mode
  BY TypeParts DEF IInv, maintenance
<1>3. t \in Token /\ rows[t] # NoRow /\ t \in 1 .. MaxToken /\ rows[t] \in TokenRow
  BY <1>2, TokenIs DEF Stored
<1>4. device = issued[t].did /\ device # 0
  BY <1>2, <1>3, TokenIs DEF IInv, Family, Token
<1>5. r \in Signed
  BY <1>2, <1>3, <1>4, TokenIs, NowIs DEF Signed
<1>6. /\ issued' \in Seq(Signed) /\ Len(issued') \in (1 .. MaxToken)' /\ MaxToken' = MaxToken
      /\ n \notin Token /\ n \in 1 .. MaxToken /\ Token' = Token \cup {n} /\ n \in Nat
      /\ \A u \in Token : issued'[u] = issued[u] /\ u < n
      /\ issued'[n] = r
      /\ Devices \subseteq Devices' /\ r.did \in Devices'
      /\ Request \subseteq Request'
  BY <1>1, <1>2, <1>5, IssueIs
<1>7. ServerOK' /\ Starting' /\ Restored' = Restored
  BY ServerSame
<1>8. PICK row : row = [rows[t] EXCEPT !.to = n, !.grace = now + Grace]
  OBVIOUS
<1>9. row \in TokenRow /\ row.to = n /\ row.grace = now + Grace /\ row # NoRow
  <2>1. n # 0 /\ n \in 0 .. MaxToken /\ now + Grace \in -1 .. MaxTime + Grace
    BY <1>2, <1>6, NowIs, ModeIs
  <2>2. row \in TokenRow /\ row.to = n /\ row.grace = now + Grace
    BY <1>3, <1>8, <2>1 DEF TokenRow
  <2>. QED
    BY <2>1, <2>2 DEF NoRow
<1>10. t # n
  BY <1>3, <1>6
<1>11. rows' \in [1 .. MaxToken -> TokenRow] /\ rows'[t] = row /\ rows'[n] = Fresh
       /\ \A u \in 1 .. MaxToken : u # t /\ u # n => rows'[u] = rows[u]
  BY <1>1, <1>2, <1>3, <1>6, <1>8, <1>9, <1>10, RowTyped DEF TokensOK
<1>12. TokenRow' = TokenRow
  BY <1>6 DEF TokenRow
<1>13. \A u \in Token : u \in 1 .. MaxToken /\ u # n
  BY <1>2, <1>6, TokenIs
<1>14. TokensOK'
  <2>1. backup' \in [rows : [1 .. MaxToken' -> TokenRow'], device : Devices' \cup {0}]
    BY <1>2, <1>6, <1>12 DEF TokensOK
  <2>2. device' \in Devices' \cup {0}
    BY <1>1, <1>6
  <2>3. \A u \in 1 .. MaxToken : rows'[u] # NoRow => u \in Token' /\ rows'[u].to \in Token' \cup {0}
    BY <1>2, <1>3, <1>6, <1>9, <1>11, RowIs DEF TokensOK
  <2>4. \A u \in 1 .. MaxToken : backup'.rows[u] # NoRow => u \in Token' /\ backup'.rows[u].to \in Token' \cup {0}
    BY <1>2, <1>6 DEF TokensOK
  <2>. QED
    BY <1>1, <1>2, <1>6, <1>11, <1>12, <2>1, <2>2, <2>3, <2>4 DEF TokensOK
<1>15. n \in Token'
  BY <1>6
<1>16. /\ [phase |-> "answered", token |-> n] \in Request'
       /\ requests'[s] = [phase |-> "answered", token |-> n] /\ requests' \in [Slot -> Request']
       /\ \A q \in Slot : q # s => requests'[q] = requests[q]
  BY <1>1, <1>2, <1>6, <1>15 DEF Answer, Request, ClientOK
<1>17. rotatedAt' = (IF t = held /\ rotatedAt = 0 THEN now ELSE rotatedAt) /\ rotatedAt' \in 0 .. now
  <2>1. requests'[s].token = n /\ n # 0
    BY <1>2, <1>6, <1>16, ModeIs
  <2>. QED
    BY <2>1, NotedIs
<1>18. ClientOK'
  BY <1>2, <1>6, <1>16, <1>17 DEF ClientOK
<1>19. Family(issued', rows', device')
  <2>1. DOMAIN issued' = DOMAIN issued \cup {n} /\ n \notin DOMAIN issued /\ n # 0 /\ t \in DOMAIN issued
    BY <1>2, <1>3, <1>6, ModeIs DEF Token
  <2>2. \A u \in DOMAIN issued : issued'[u] = issued[u] /\ u < n
    BY <1>6 DEF Token
  <2>3. issued'[n].did = device /\ issued'[n].login = issued[t].login /\ issued'[n].exp = now + Ttl
    BY <1>6
  <2>4. rows'[t].grace + Ttl = issued'[n].exp + Grace
    BY <1>2, <1>9, <1>11, <2>3, NowIs, Constants
  <2>5. \A u \in DOMAIN issued : u # t => rows'[u] = rows[u]
    BY <1>11, <1>13 DEF Token
  <2>6. Family(issued, rows, device)
    BY DEF IInv
  <2>7. Family(issued', rows', device)
    <3>1. rows'[t].to = n /\ rows'[n] = Fresh /\ rows[t] # NoRow /\ rows[t].to = 0
      BY <1>3, <1>9, <1>11
    <3>. QED
      BY <2>1, <2>2, <2>3, <2>4, <2>5, <2>6, <3>1, FamilyRotated
  <2>. QED
    BY <1>1, <2>7
<1>20. Family(issued', backup'.rows, backup'.device)
  <2>1. DOMAIN issued' = DOMAIN issued \cup {n} /\ n \notin DOMAIN issued /\ \A u \in DOMAIN issued : issued'[u] = issued[u]
    BY <1>6 DEF Token
  <2>2. backup.rows[n] = NoRow
    BY <1>2, <1>6, TokenIs
  <2>3. Family(issued, backup.rows, backup.device)
    BY DEF IInv
  <2>. QED
    BY <2>1, <2>2, <2>3, FamilyGrown
<1>21. Transactions'
  <2>1. Open(s) /\ ~Open(s)'
    BY <1>16 DEF Open
  <2>2. \A q \in Slot : Open(q)' => requests'[q] = requests[q] /\ Open(q) /\ q # s
    BY <1>16, <2>1 DEF Open
  <2>3. \A u \in Token : rows'[u] # NoRow => rows[u] # NoRow /\ (rows[u].to # 0 => rows'[u].to # 0)
    BY <1>3, <1>11, <1>13
  <2>. QED
    BY <1>2, <2>2, <2>3, RowsTransactions
<1>22. NoFalseReuse'
  BY <1>1, <1>2 DEF IInv, NoFalseReuse
<1>23. ASSUME ~mode.late
       PROVE  Duty'
  <2>1. Waiting /\ Answers /\ Known
    BY <1>23 DEF IInv, Duty
  <2>2. t = held /\ mine = s /\ held # 0 /\ \A q \in Slot : q # s => requests'[q] = Free
    BY <1>16, <2>1, Constants DEF Waiting, Free
  <2>3. Free.phase = "free"
    BY DEF Free
  <2>4. Waiting'
    BY <1>16, <2>2, <2>3 DEF Waiting
  <2>5. Answers'
    <3>1. held < n /\ rows'[n] # NoRow
      BY <1>3, <1>6, <1>11, <2>2, RowIs
    <3>2. Lasting(n)'
      BY <3>1 DEF Lasting
    <3>3. requests'[s].token = n /\ held' = held
      BY <1>16
    <3>. QED
      BY <2>2, <2>3, <3>1, <3>2, <3>3 DEF Answers
  <2>6. rotatedAt' # 0 /\ rotatedAt' <= now /\ (rotatedAt # 0 => rotatedAt' = rotatedAt) /\ rotatedAt' \in Nat /\ now \in Nat
    BY <1>2, <1>17, <2>2, NowIs
  <2>7. Successor(rows', held, rotatedAt', now)
    <3>1. \A u \in 1 .. MaxToken : held < u => rows'[u].to = 0 /\ ~rows'[u].confirmed
      <4>1. \A u \in 1 .. MaxToken : held < u => rows[u].to = 0 /\ ~rows[u].confirmed
        BY <1>2, <2>1, <2>2 DEF Known, Successor, TokensOK
      <4>2. \A u \in 1 .. MaxToken : held < u => u # t
        BY <1>2, <1>3, <2>2, ModeIs
      <4>. QED
        BY <1>11, <4>1, <4>2, RowIs
    <3>2. rows'[held] = row /\ rows'[n] # NoRow
      BY <1>11, <2>2, RowIs
    <3>3. rotatedAt' + Grace <= row.grace
      BY <1>9, <2>6, Constants
    <3>4. DOMAIN rows' = 1 .. MaxToken
      BY <1>11
    <3>. QED
      BY <1>9, <2>6, <3>1, <3>2, <3>3, <3>4 DEF Successor
  <2>8. Successor(backup.rows, held, rotatedAt', now)
    BY <2>1, <2>2, <2>6 DEF Known, Successor
  <2>9. Known'
    BY <1>9, <1>11, <2>2, <2>7, <2>8 DEF Known
  <2>. QED
    BY <2>4, <2>5, <2>9 DEF Duty
<1>. QED
  BY <1>2, <1>7, <1>14, <1>18, <1>19, <1>20, <1>21, <1>22, <1>23, TypeParts DEF IInv

\* In its window, while nobody used the successor: the same successor again.
LEMMA RepeatKeeps ==
  ASSUME IInv, NEW s \in Slot, requests[s].phase = "found", NEW t, t = requests[s].token, t \in Stored, rows[t].to # 0,
         rows[t].to \in Stored, Answer(s, rows[t].to), Noted(s), UNCHANGED database,
         UNCHANGED <<now, graceUntil, backup, logouts, mine, held, access>>, UNCHANGED maintenance
  PROVE  IInv'
<1>. PICK n : n = rows[t].to
  OBVIOUS
<1>1. UNCHANGED <<issued, rows, device, removedBy>>
  BY DEF database
<1>2. ServerOK /\ TokensOK /\ ClientOK /\ access = held /\ mode' = mode
  BY TypeParts DEF IInv, maintenance
<1>3. t \in Token /\ n \in Token /\ n # 0 /\ t < n /\ rows[n] # NoRow
  BY <1>2 DEF Stored, IInv, Family, Token
<1>4. Open(s) /\ n \in Token \cup {0}
  BY <1>3 DEF Open
<1>5. /\ requests'[s] = [phase |-> "answered", token |-> n] /\ requests' \in [Slot -> Request]
      /\ \A r \in Slot : Open(r)' => requests'[r] = requests[r]
      /\ ~mode.late => mine = s /\ t = held /\ held # 0 /\ \A r \in Slot : r # s => requests'[r] = Free
  BY <1>4, AnswerIs
<1>6. rotatedAt' = (IF t = held /\ rotatedAt = 0 THEN now ELSE rotatedAt) /\ rotatedAt' \in 0 .. now
  <2>1. requests'[s].token = n
    BY <1>5
  <2>. QED
    BY <1>3, <2>1, NotedIs
<1>7. Token' = Token /\ Request' = Request
  BY <1>1, <1>2 DEF Token, Request
<1>8. ClientOK'
  BY <1>2, <1>5, <1>6, <1>7 DEF ClientOK
<1>9. Transactions'
  BY <1>1, <1>2, <1>5, RowsTransactions
<1>10. ASSUME ~mode.late
       PROVE  Duty'
  <2>1. Waiting /\ Answers /\ Known
    BY <1>10 DEF IInv, Duty
  <2>2. rotatedAt' = rotatedAt
    BY <1>5, <1>6, <1>10, <2>1 DEF Known, Successor
  <2>3. Known' /\ \A u \in Token : Lasting(u) => Lasting(u)'
    <3>1. \A r \in Slot : requests'[r].phase = "found" => requests[r].phase = "found"
      BY <1>5 DEF Open
    <3>. QED
      BY <1>1, <1>2, <1>10, <2>2, <3>1, KnownSame, ServerSame, NowIs
  <2>4. Lasting(n)' /\ held < n
    BY <1>1, <1>3, <1>5, <1>10 DEF Lasting
  <2>5. Free.phase = "free"
    BY DEF Free
  <2>6. Answers'
    <3>1. requests'[s].token = n /\ held' = held
      BY <1>5
    <3>. QED
      BY <1>5, <1>10, <2>4, <2>5, <3>1 DEF Answers
  <2>7. Waiting'
    BY <1>5, <1>10, <2>5 DEF Waiting
  <2>. QED
    BY <2>3, <2>6, <2>7 DEF Duty
<1>. QED
  BY <1>1, <1>2, <1>8, <1>9, <1>10, StepKeeps

\* The request fails and nothing else changes.
LEMMA FailKeeps ==
  ASSUME IInv, NEW s \in Slot, Open(s), Fail(s), UNCHANGED database,
         UNCHANGED <<now, graceUntil, backup, logouts, mine, held, access, rotatedAt>>, UNCHANGED maintenance
  PROVE  IInv'
<1>. DEFINE no == [phase |-> "answered", token |-> 0]
<1>1. UNCHANGED <<issued, rows, device, removedBy>> /\ Answer(s, 0) /\ requests' = [requests EXCEPT ![s] = no]
  BY DEF database, Fail, Answer
<1>2. ServerOK /\ TokensOK /\ ClientOK /\ access = held /\ mode' = mode
  BY TypeParts DEF IInv, maintenance
<1>3. requests' \in [Slot -> Request] /\ requests[s] # Free
      /\ \A r \in Slot : Open(r)' => requests'[r] = requests[r]
  BY <1>1, AnswerIs
<1>4. Token' = Token /\ Request' = Request
  BY <1>1, <1>2 DEF Token, Request
<1>5. ClientOK'
  BY <1>2, <1>3, <1>4 DEF ClientOK
<1>6. Transactions'
  BY <1>1, <1>2, <1>3, RowsTransactions
<1>7. ASSUME ~mode.late
      PROVE  Duty'
  <2>1. no.phase = "answered" /\ no.token = 0 /\ (no.phase \in {"found", "unknown", "granted"} => no.token = held)
    OBVIOUS
  <2>. HIDE DEF no
  <2>. QED
    BY <1>1, <1>3, <1>7, <2>1, PhaseDuty
<1>. QED
  BY <1>1, <1>2, <1>5, <1>6, <1>7, StepKeeps

\* A device that keeps to its duties repeats a token only while its successor is new.
LEMMA RepeatedUnused ==
  ASSUME IInv, ~mode.late, NEW s \in Slot, Open(s), NEW t, t = requests[s].token, t \in Stored,
         rows[t].to # 0, rows[t].grace > now
  PROVE  UnusedCurrent(rows[t].to)
<1>1. ServerOK /\ TokensOK /\ Waiting /\ Known
  BY TypeParts DEF IInv, Duty
<1>2. t = held /\ held # 0 /\ t \in Token /\ rows[t] \in TokenRow /\ now \in Nat
  BY <1>1, TokenIs, NowIs DEF Waiting, Open, Stored
<1>3. rows[t].to \in Token /\ t < rows[t].to /\ rows[t].grace + Ttl = issued[rows[t].to].exp + Grace
  BY <1>2 DEF IInv, Family, Token
<1>4. DOMAIN rows = 1 .. MaxToken /\ Token \subseteq 1 .. MaxToken /\ rows[t].grace \in Int /\ issued[rows[t].to].exp \in Nat
  <2>1. \A r \in TokenRow : r.grace \in Int
    BY Constants DEF TokenRow
  <2>. QED
    BY <1>1, <1>2, <1>3, <2>1, TokenIs DEF TokensOK
<1>5. ~(rows[t].grace <= now)
  BY <1>2, <1>4
<1>6. rows[rows[t].to] # NoRow /\ rows[rows[t].to].to = 0 /\ ~rows[rows[t].to].confirmed
  BY <1>1, <1>2, <1>3, <1>4, <1>5 DEF Known, Successor
<1>7. issued[rows[t].to].exp > now
  BY <1>2, <1>3, <1>4, Constants
<1>. QED
  BY <1>3, <1>6, <1>7 DEF UnusedCurrent, Stored

LEMMA DecideKeeps ==
  ASSUME IInv, NEW s \in Slot, Decide(s), UNCHANGED maintenance
  PROVE  IInv'
<1>. DEFINE t == requests[s].token
<1>1. /\ requests[s].phase = "found" /\ Noted(s) /\ UNCHANGED <<now, graceUntil, backup, logouts, mine, held, access>>
      /\ IF Wins(s, t) THEN Rotate(s, t) ELSE Repeat(s, t)
  BY DEF Decide
<1>2. ServerOK /\ TokensOK /\ ClientOK /\ Open(s) /\ t \in Token
  BY <1>1, TypeParts, RequestIs DEF IInv, Open, ClientOK
<1>3. CASE Wins(s, t)
  BY <1>1, <1>3, RotateKeeps DEF Wins
<1>4. CASE ~Wins(s, t)
  <2>1. CASE t \in Stored /\ rows[t].to # 0 /\ rows[t].grace > now
    <3>1. CASE UnusedCurrent(rows[t].to)
      BY <1>1, <1>4, <2>1, <3>1, RepeatKeeps DEF Repeat, UnusedCurrent
    <3>2. CASE ~UnusedCurrent(rows[t].to)
      <4>1. RemoveDevice("reuse") /\ Answer(s, 0) /\ UNCHANGED issued
        BY <1>1, <1>4, <2>1, <3>2 DEF Repeat, Fail
      <4>2. mode.late
        BY <1>2, <2>1, <3>2, RepeatedUnused
      <4>3. /\ requests'[s] = [phase |-> "answered", token |-> 0] /\ requests' \in [Slot -> Request] /\ requests[s] # Free
            /\ \A r \in Slot : r # s => requests'[r] = requests[r]
        BY <1>2, <4>1, AnswerIs
      <4>4. rotatedAt' = rotatedAt
        BY <1>1, <4>3, NotedIs
      <4>. QED
        BY <1>1, <4>1, <4>2, <4>3, <4>4, RemovedKeeps
    <3>. QED
      BY <3>1, <3>2
  <2>2. CASE ~(t \in Stored /\ rows[t].to # 0 /\ rows[t].grace > now)
    <3>1. Fail(s) /\ UNCHANGED database
      BY <1>1, <1>4, <2>2 DEF Repeat
    <3>2. requests'[s].token = 0
      <4>1. 0 \in Token \cup {0} /\ Answer(s, 0)
        BY <3>1 DEF Fail
      <4>2. requests'[s] = [phase |-> "answered", token |-> 0]
        BY <1>2, <4>1, AnswerIs
      <4>. QED
        BY <4>2
    <3>3. rotatedAt' = rotatedAt
      BY <1>1, <3>2, NotedIs
    <3>. QED
      BY <1>1, <1>2, <3>1, <3>3, FailKeeps
  <2>. QED
    BY <2>1, <2>2
<1>. QED
  BY <1>3, <1>4

-----------------------------------------------------------------------------
(* A new family: grants and sign-ins. *)

\* One token is signed; rows of the same device may stay beside its row.
LEMMA NewRows ==
  ASSUME IInv, CanIssue, NEW r \in Signed, issued' = Append(issued, r), mode' = mode, UNCHANGED backup, device' = r.did,
         NEW kept, kept = {} \/ device' = device,
         rows' = [t \in 1 .. MaxToken |-> IF t = NewToken THEN Fresh ELSE IF t \in kept THEN rows[t] ELSE NoRow],
         removedBy' \in {"nobody", "user", "logout", "reuse", "restore"}
  PROVE  /\ TokensOK' /\ Family(issued', rows', device') /\ Family(issued', backup'.rows, backup'.device)
         /\ NewToken \notin Token /\ Token' = Token \cup {NewToken} /\ NewToken \in 1 .. MaxToken /\ NewToken # 0
         /\ DOMAIN rows' = 1 .. MaxToken /\ DOMAIN backup.rows = 1 .. MaxToken
         /\ \A t \in Token : issued'[t] = issued[t] /\ t < NewToken
         /\ \A t \in 1 .. MaxToken : t # NewToken => rows'[t] = NoRow \/ (t \in kept /\ rows'[t] = rows[t])
         /\ issued'[NewToken] = r /\ rows'[NewToken] = Fresh
         /\ \A t \in 1 .. MaxToken : t \notin Token => backup.rows[t] = NoRow
         /\ Request \subseteq Request'
<1>. PICK n : n = NewToken
  OBVIOUS
<1>1. ServerOK /\ TokensOK
  BY TypeParts DEF IInv
<1>2. /\ issued' \in Seq(Signed) /\ Len(issued') \in (1 .. MaxToken)' /\ MaxToken' = MaxToken
      /\ n \notin Token /\ n \in 1 .. MaxToken /\ Token' = Token \cup {n} /\ n \in Nat
      /\ \A t \in Token : issued'[t] = issued[t] /\ t < n
      /\ issued'[n] = r
      /\ Devices \subseteq Devices' /\ r.did \in Devices'
      /\ Request \subseteq Request'
  BY <1>1, IssueIs
<1>3. n # 0 /\ \A t \in Token : t \in 1 .. MaxToken /\ t # n
  BY <1>1, <1>2, TokenIs, ModeIs
<1>4. TokenRow' = TokenRow
  BY <1>2 DEF TokenRow
<1>5. /\ rows' \in [1 .. MaxToken -> TokenRow] /\ rows'[n] = Fresh
      /\ \A t \in 1 .. MaxToken : t # n => rows'[t] = NoRow \/ (t \in kept /\ rows'[t] = rows[t])
  BY <1>1, <1>2, RowTyped DEF TokensOK
<1>6. TokensOK'
  <2>1. backup' \in [rows : [1 .. MaxToken' -> TokenRow'], device : Devices' \cup {0}]
    BY <1>1, <1>2, <1>4 DEF TokensOK
  <2>2. device' \in Devices' \cup {0}
    BY <1>2
  <2>3. \A t \in 1 .. MaxToken : rows'[t] # NoRow => t \in Token' /\ rows'[t].to \in Token' \cup {0}
    BY <1>1, <1>2, <1>5, RowIs DEF TokensOK
  <2>4. \A t \in 1 .. MaxToken : backup'.rows[t] # NoRow => t \in Token' /\ backup'.rows[t].to \in Token' \cup {0}
    BY <1>1, <1>2 DEF TokensOK
  <2>. QED
    BY <1>2, <1>4, <1>5, <2>1, <2>2, <2>3, <2>4 DEF TokensOK
<1>7. Family(issued', rows', device')
  <2>1. DOMAIN issued' = DOMAIN issued \cup {n} /\ n \notin DOMAIN issued /\ \A t \in DOMAIN issued : issued'[t] = issued[t]
    BY <1>2 DEF Token
  <2>2. \A t \in DOMAIN issued : rows'[t] = NoRow \/ (device' = device /\ rows'[t] = rows[t])
    BY <1>3, <1>5 DEF Token
  <2>3. issued'[n].did = device' /\ rows'[n] = Fresh
    BY <1>2, <1>5
  <2>4. Family(issued, rows, device)
    BY DEF IInv
  <2>5. \A t \in DOMAIN issued' : rows'[t] # NoRow => issued'[t].did = device'
    BY <2>1, <2>2, <2>3, <2>4 DEF Family
  <2>6. ASSUME NEW t \in DOMAIN issued', rows'[t].to # 0
        PROVE  /\ rows'[t].to \in DOMAIN issued' /\ t < rows'[t].to
               /\ rows'[t].grace + Ttl = issued'[rows'[t].to].exp + Grace
               /\ issued'[rows'[t].to].login = issued'[t].login
    <3>1. t \in DOMAIN issued /\ rows'[t] = rows[t]
      BY <2>1, <2>2, <2>3, <2>6, RowIs
    <3>2. /\ rows[t].to \in DOMAIN issued /\ t < rows[t].to
          /\ rows[t].grace + Ttl = issued[rows[t].to].exp + Grace
          /\ issued[rows[t].to].login = issued[t].login
      BY <2>4, <2>6, <3>1 DEF Family
    <3>. QED
      BY <2>1, <3>1, <3>2
  <2>. QED
    BY <2>5, <2>6 DEF Family
<1>8. \A t \in 1 .. MaxToken : t \notin Token => backup.rows[t] = NoRow
  BY <1>1, TokenIs
<1>9. Family(issued', backup'.rows, backup'.device)
  <2>1. DOMAIN issued' = DOMAIN issued \cup {n} /\ n \notin DOMAIN issued /\ \A t \in DOMAIN issued : issued'[t] = issued[t]
    BY <1>2 DEF Token
  <2>2. backup.rows[n] = NoRow /\ Family(issued, backup.rows, backup.device)
    BY <1>2, <1>8 DEF IInv
  <2>. QED
    BY <2>1, <2>2, FamilyGrown
<1>10. DOMAIN rows' = 1 .. MaxToken /\ DOMAIN backup.rows = 1 .. MaxToken
  BY <1>1, <1>5 DEF TokensOK
<1>. QED
  BY <1>2, <1>3, <1>5, <1>6, <1>7, <1>8, <1>9, <1>10

LEMMA GrantCommitKeeps ==
  ASSUME IInv, NEW s \in Slot, GrantCommit(s), UNCHANGED maintenance
  PROVE  IInv'
<1>. DEFINE t == requests[s].token
<1>1. /\ UNCHANGED <<now, device, removedBy, graceUntil, backup, logouts, held, access, rotatedAt>>
      /\ requests[s].phase = "granted" /\ mine' = IF mine = s /\ device # issued[t].did THEN 0 ELSE mine
  BY DEF GrantCommit
<1>2. ServerOK /\ TokensOK /\ ClientOK /\ Open(s) /\ mode' = mode /\ access = held /\ s # 0
  BY <1>1, TypeParts, Constants DEF IInv, Open, maintenance
<1>3. t \in Token
  BY <1>1, <1>2 DEF ClientOK, Request, Free
<1>4. rows[t] = NoRow
  BY <1>1 DEF IInv, Transactions
<1>5. CASE device = issued[t].did
  <2>. PICK n : n = NewToken
    OBVIOUS
  <2>. PICK r : r = [did |-> device, exp |-> now + Ttl, login |-> issued[t].login]
    OBVIOUS
  <2>. PICK kept : kept = Stored \ requests[s].doomed
    OBVIOUS
  <2>1. CanIssue /\ issued' = Append(issued, r) /\ Answer(s, n)
    BY <1>5 DEF GrantCommit, Sign
  <2>2. rows' = [u \in 1 .. MaxToken |-> IF u = NewToken THEN Fresh ELSE IF u \in kept THEN rows[u] ELSE NoRow]
    BY <1>5 DEF GrantCommit, Survives
  <2>3. r \in Signed /\ r.did = device
    BY <1>2, <1>3, <1>5, TokenIs, NowIs DEF Signed
  <2>4. removedBy' \in {"nobody", "user", "logout", "reuse", "restore"}
    BY <1>1, <1>2 DEF TokensOK
  <2>5. /\ TokensOK' /\ Family(issued', rows', device') /\ Family(issued', backup'.rows, backup'.device)
        /\ n \notin Token /\ Token' = Token \cup {n} /\ n \in 1 .. MaxToken /\ n # 0
        /\ DOMAIN rows' = 1 .. MaxToken
        /\ \A u \in Token : issued'[u] = issued[u] /\ u < n
        /\ \A u \in 1 .. MaxToken : u # n => rows'[u] = NoRow \/ rows'[u] = rows[u]
        /\ rows'[n] = Fresh
        /\ Request \subseteq Request'
    BY <1>1, <1>2, <2>1, <2>2, <2>3, <2>4, NewRows
  <2>6. ServerOK' /\ Starting' /\ Restored' = Restored
    BY <1>1, ServerSame
  <2>7. /\ requests'[s] = [phase |-> "answered", token |-> n] /\ requests' \in [Slot -> Request']
        /\ \A q \in Slot : q # s => requests'[q] = requests[q]
    BY <1>2, <2>1, <2>5 DEF Answer, Request, ClientOK
  <2>8. ClientOK' /\ mine' = mine
    BY <1>1, <1>2, <1>5, <2>5, <2>7 DEF ClientOK
  <2>9. \A u \in Token : u \in 1 .. MaxToken /\ u # n
    BY <1>2, <2>5, TokenIs
  <2>10. Transactions'
    <3>1. \A q \in Slot : Open(q)' => requests'[q] = requests[q]
      BY <2>7 DEF Open
    <3>. QED
      BY <1>2, <2>5, <2>9, <3>1, RowsTransactions
  <2>11. NoFalseReuse'
    BY <1>1, <1>2 DEF IInv, NoFalseReuse
  <2>12. ASSUME ~mode.late
         PROVE  Duty'
    <3>1. Waiting /\ Answers /\ Known
      BY <2>12 DEF IInv, Duty
    <3>2. Free.phase = "free"
      BY DEF Free
    <3>3. t = held /\ mine = s /\ held # 0 /\ \A q \in Slot : q # s => requests'[q] = Free
      BY <1>1, <1>2, <2>7, <3>1, <3>2 DEF Waiting
    <3>4. Waiting'
      BY <1>1, <2>7, <2>8, <3>2, <3>3 DEF Waiting
    <3>5. Lasting(n)' /\ held < n
      BY <1>3, <2>5, <3>3, RowIs DEF Lasting
    <3>6. Answers'
      BY <1>1, <2>7, <3>2, <3>3, <3>5 DEF Answers
    <3>7. Successor(rows', held, rotatedAt, now)
      <4>1. \A u \in 1 .. MaxToken : held < u => rows[u].to = 0 /\ ~rows[u].confirmed
        BY <1>2, <3>1, <3>3 DEF Known, Successor, TokensOK
      <4>2. \A u \in 1 .. MaxToken : held < u => rows'[u].to = 0 /\ ~rows'[u].confirmed
        BY <2>5, <4>1, RowIs
      <4>3. rows'[held].to = 0
        BY <1>3, <1>4, <2>5, <2>9, <3>3, RowIs
      <4>. QED
        BY <2>5, <4>2, <4>3 DEF Successor
    <3>8. Successor(backup.rows, held, rotatedAt, now) /\ Forgotten
      BY <1>4, <1>5, <3>1, <3>3 DEF Known
    <3>9. Forgotten'
      <4>1. \A q \in Slot : requests'[q].phase # "found"
        BY <2>7, <3>2, <3>3
      <4>. QED
        BY <1>1, <1>3, <2>5, <2>6, <3>3, <3>8, <4>1 DEF Forgotten
    <3>10. Known'
      BY <1>1, <3>7, <3>8, <3>9 DEF Known
    <3>. QED
      BY <3>4, <3>6, <3>10 DEF Duty
  <2>. QED
    BY <1>1, <1>2, <2>5, <2>6, <2>8, <2>10, <2>11, <2>12, TypeParts DEF IInv
<1>6. CASE device # issued[t].did
  <2>1. requests' = [requests EXCEPT ![s] = Free] /\ UNCHANGED <<issued, rows>>
    BY <1>6 DEF GrantCommit
  <2>2. /\ Transactions' /\ requests' \in [Slot -> Request'] /\ Token' = Token
        /\ \A q \in Slot : requests'[q] = IF q = s THEN Free ELSE requests[q]
    BY <1>2, <2>1, FreeKeeps
  <2>3. ClientOK'
    BY <1>1, <1>2, <2>2 DEF ClientOK
  <2>4. ASSUME ~mode.late
        PROVE  Duty'
    <3>1. Waiting
      BY <2>4 DEF IInv, Duty
    <3>2. Free.phase = "free"
      BY DEF Free
    <3>3. mine' = 0 /\ \A q \in Slot : requests'[q] = Free
      BY <1>1, <1>6, <2>2, <3>1, <3>2 DEF Waiting
    <3>4. Waiting' /\ Answers'
      BY <3>2, <3>3 DEF Waiting, Answers
    <3>5. Known'
      BY <1>1, <1>2, <2>1, <2>4, <3>2, <3>3, KnownSame, ServerSame, NowIs
    <3>. QED
      BY <3>4, <3>5 DEF Duty
  <2>. QED
    BY <1>1, <1>2, <2>1, <2>2, <2>3, <2>4, StepKeeps
<1>. QED
  BY <1>5, <1>6

\* There are finitely many tokens, and so devices and sign-ins.
LEMMA Counted ==
  ASSUME ServerOK, TokensOK
  PROVE  Cardinality(Devices) \in Nat /\ Cardinality(Logins) \in Nat /\ IsFiniteSet(Logins)
<1>1. IsFiniteSet(Token)
  BY TokenIs, FS_Interval
<1>2. IsFiniteSet(Devices)
  <2>. DEFINE f == [t \in Token |-> issued[t].did]
  <2>1. f \in Surjection(Token, Devices)
    BY DEF Devices, Surjection
  <2>. QED
    BY <1>1, <2>1, FS_Surjection
<1>3. IsFiniteSet(Logins)
  <2>. DEFINE f == [t \in Token |-> issued[t].login]
  <2>1. f \in Surjection(Token, Logins)
    BY DEF Logins, Surjection
  <2>. QED
    BY <1>1, <2>1, FS_Surjection
<1>. QED
  BY <1>2, <1>3, FS_CardinalityType

LEMMA LoginKeeps ==
  ASSUME IInv, Login, UNCHANGED maintenance
  PROVE  IInv'
<1>. PICK n : n = NewToken
  OBVIOUS
<1>. PICK did : did = IF device # 0 THEN device ELSE Cardinality(Devices) + 1
  OBVIOUS
<1>. PICK r : r = [did |-> did, exp |-> now + Ttl, login |-> Cardinality(Logins) + 1]
  OBVIOUS
<1>1. /\ UNCHANGED <<now, removedBy, graceUntil, backup, requests, logouts, mine>>
      /\ held = 0 /\ CanIssue /\ device' = did /\ issued' = Append(issued, r)
      /\ rows' = [t \in 1 .. MaxToken |-> IF t = NewToken THEN Fresh ELSE NoRow]
      /\ held' \in {0, n} /\ access' = held' /\ rotatedAt' = 0
  BY DEF Login, Sign
<1>2. ServerOK /\ TokensOK /\ ClientOK /\ mode' = mode
  BY TypeParts DEF IInv, maintenance
<1>3. did \in Nat \ {0}
  BY <1>2, Counted, TokenIs DEF TokensOK, Devices
<1>4. r \in Signed /\ r.did = did
  BY <1>2, <1>3, Counted, NowIs DEF Signed
<1>5. removedBy' \in {"nobody", "user", "logout", "reuse", "restore"}
  BY <1>1, <1>2 DEF TokensOK
<1>6. /\ TokensOK' /\ Family(issued', rows', device') /\ Family(issued', backup'.rows, backup'.device)
      /\ n \notin Token /\ Token' = Token \cup {n} /\ n \in 1 .. MaxToken /\ n # 0
      /\ DOMAIN rows' = 1 .. MaxToken /\ DOMAIN backup.rows = 1 .. MaxToken
      /\ \A t \in Token : issued'[t] = issued[t] /\ t < n
      /\ \A t \in 1 .. MaxToken : t # n => rows'[t] = NoRow
      /\ rows'[n] = Fresh
      /\ \A t \in 1 .. MaxToken : t \notin Token => backup.rows[t] = NoRow
      /\ Request \subseteq Request'
  <2>1. rows' = [t \in 1 .. MaxToken |-> IF t = NewToken THEN Fresh ELSE IF t \in {} THEN rows[t] ELSE NoRow]
    BY <1>1
  <2>. QED
    BY <1>1, <1>2, <1>4, <1>5, <2>1, NewRows
<1>7. ServerOK' /\ Starting' /\ Restored' = Restored
  BY <1>1, ServerSame
<1>8. ClientOK'
  BY <1>1, <1>2, <1>6, NowIs DEF ClientOK
<1>9. Transactions'
  <2>1. \A t \in Token : t \in 1 .. MaxToken /\ t # n
    BY <1>2, <1>6, TokenIs
  <2>. QED
    BY <1>1, <1>2, <1>6, <2>1, RowsTransactions
<1>10. NoFalseReuse'
  BY <1>1, <1>2 DEF IInv, NoFalseReuse
<1>11. ASSUME ~mode.late
       PROVE  Duty'
  <2>1. Waiting
    BY <1>11 DEF IInv, Duty
  <2>2. mine = 0 /\ \A q \in Slot : requests'[q] = Free
    BY <1>1, <2>1, Constants DEF Waiting
  <2>3. Free.phase = "free"
    BY DEF Free
  <2>4. Waiting' /\ Answers'
    BY <1>1, <2>2, <2>3 DEF Waiting, Answers
  <2>5. CASE held' = 0
    BY <2>4, <2>5 DEF Duty, Known
  <2>6. CASE held' = n
    <3>1. Successor(rows', n, 0, now)
      <4>1. \A t \in 1 .. MaxToken : rows'[t].to = 0 /\ ~rows'[t].confirmed
        BY <1>6, RowIs
      <4>. QED
        BY <1>6, <4>1 DEF Successor
    <3>2. \A t \in 1 .. MaxToken : n <= t => t \notin Token
      BY <1>2, <1>6, TokenIs
    <3>3. \A t \in 1 .. MaxToken : n <= t => backup.rows[t].to = 0 /\ ~backup.rows[t].confirmed
      BY <1>6, <3>2, RowIs
    <3>4. Successor(backup.rows, n, 0, now)
      BY <1>2, <1>6, <3>3, ModeIs DEF Successor
    <3>5. rows'[n] # NoRow
      BY <1>6, RowIs
    <3>6. Known'
      BY <1>1, <2>6, <3>1, <3>4, <3>5 DEF Known
    <3>. QED
      BY <2>4, <3>6 DEF Duty
  <2>. QED
    BY <1>1, <2>5, <2>6
<1>. QED
  BY <1>1, <1>2, <1>6, <1>7, <1>8, <1>9, <1>10, <1>11, TypeParts DEF IInv

-----------------------------------------------------------------------------
(* A copy takes the place of the database. *)

LEMMA RestoreKeeps ==
  ASSUME IInv, Restore
  PROVE  IInv'
<1>1. /\ UNCHANGED <<mode, now, issued, backup, held, access>>
      /\ mode.restores /\ rows' = backup.rows /\ device' = backup.device
      /\ removedBy' \in {"restore", removedBy} /\ graceUntil' = 0
      /\ process' = Down /\ pending' = TRUE /\ stale' = 1 .. Heads
      /\ requests' = [s \in Slot |-> IF requests[s].phase = "answered" THEN requests[s] ELSE Free]
      /\ mine' = IF mine # 0 /\ requests[mine].phase = "answered" THEN mine ELSE 0
      /\ logouts' = {}
      /\ rotatedAt' = IF held # 0 /\ backup.rows[held].to # 0 THEN rotatedAt ELSE 0
  BY DEF Restore
<1>2. ServerOK /\ TokensOK /\ ClientOK /\ access = held
  BY TypeParts DEF IInv
<1>3. Token' = Token /\ Request' = Request /\ Devices' = Devices /\ MaxToken' = MaxToken /\ TokenRow' = TokenRow
  BY <1>1 DEF Token, Request, Devices, MaxToken, TokenRow
<1>4. ServerOK' /\ Starting' /\ Restored'
  <2>1. process' # Up /\ process'.phase = "down"
    BY <1>1 DEF Up, Down
  <2>. QED
    BY <1>1, <1>2, <2>1 DEF ServerOK, Starting, Restored
<1>5. TokensOK'
  BY <1>1, <1>2, <1>3 DEF TokensOK
<1>6. Free \in Request /\ Free.phase = "free"
  BY DEF Request, Free
<1>7. ClientOK'
  BY <1>1, <1>2, <1>3, <1>6, NowIs DEF ClientOK
<1>8. Family(issued, rows, device)' /\ Family(issued, backup.rows, backup.device)'
  BY <1>1 DEF IInv
<1>9. \A s \in Slot : ~Open(s)'
  BY <1>1, <1>6 DEF Open
<1>10. Transactions'
  BY <1>9 DEF Transactions, Open
<1>11. NoFalseReuse'
  BY <1>1 DEF IInv, NoFalseReuse
<1>12. ASSUME ~mode.late
       PROVE  Duty'
  <2>1. Waiting /\ Answers /\ Known
    BY <1>12 DEF IInv, Duty
  <2>2. Waiting'
    BY <1>1, <1>2, <1>6, <2>1, Constants DEF Waiting, ClientOK
  <2>3. Answers'
    BY <1>1, <1>4, <1>6, <2>1 DEF Answers, Lasting
  <2>4. CASE held = 0
    BY <1>1, <2>2, <2>3, <2>4 DEF Duty, Known
  <2>5. CASE held # 0
    <3>1. Successor(backup.rows, held, rotatedAt, now)
      BY <2>1, <2>5 DEF Known
    <3>2. Successor(backup.rows, held, rotatedAt', now)
      BY <1>1, <2>5, <3>1 DEF Successor
    <3>3. rows'[held] = NoRow => Forgotten'
      <4>1. \A s \in Slot : requests'[s].phase # "found"
        BY <1>9 DEF Open
      <4>. QED
        BY <1>1, <1>4, <2>5, <4>1, RowIs DEF Forgotten
    <3>4. Known'
      BY <1>1, <3>2, <3>3 DEF Known
    <3>. QED
      BY <2>2, <2>3, <3>4 DEF Duty
  <2>. QED
    BY <2>4, <2>5
<1>. QED
  BY <1>1, <1>2, <1>4, <1>5, <1>7, <1>8, <1>10, <1>11, <1>12, TypeParts DEF IInv

-----------------------------------------------------------------------------
(* The invariant. *)

LEMMA InitHolds == Init => IInv
<1>. SUFFICES ASSUME Init PROVE IInv
  OBVIOUS
<1>1. /\ mode \in Deployments /\ process = Up /\ pending = FALSE /\ stale = {} /\ now = 1
      /\ issued = <<[did |-> 1, exp |-> 1 + Ttl, login |-> 1]>>
      /\ rows = [t \in 1 .. MaxToken |-> IF t = 1 THEN Fresh ELSE NoRow]
      /\ device = 1 /\ removedBy = "nobody" /\ graceUntil = 0
      /\ backup = [rows |-> rows, device |-> device] /\ requests = [s \in Slot |-> Free] /\ logouts = {}
      /\ mine = 0 /\ held = 1 /\ access = 1 /\ rotatedAt = 0
  BY DEF Init
<1>2. Free.phase = "free" /\ Free \in Request
  BY DEF Free, Request
<1>3. ServerOK
  <2>1. process \in {Up, Down} /\ pending \in BOOLEAN /\ stale \subseteq 1 .. Heads
    BY <1>1
  <2>2. now \in 1 .. MaxTime /\ graceUntil \in Nat
    BY <1>1, Constants
  <2>. QED
    BY <1>1, <2>1, <2>2 DEF ServerOK
<1>4. MaxToken \in Nat /\ MaxToken > 0
  BY <1>3, ModeIs
<1>5. Token = {1} /\ Len(issued) = 1 /\ issued[1] = [did |-> 1, exp |-> 1 + Ttl, login |-> 1]
  BY <1>1 DEF Token
<1>6. issued \in Seq(Signed) /\ issued[1].did = 1
  <2>1. [did |-> 1, exp |-> 1 + Ttl, login |-> 1] \in Signed
    BY Constants DEF Signed
  <2>. QED
    BY <1>1, <1>5, <2>1
<1>7. /\ rows \in [1 .. MaxToken -> TokenRow] /\ rows[1] = Fresh /\ \A t \in 1 .. MaxToken : t # 1 => rows[t] = NoRow
      /\ \A t \in 1 .. MaxToken : rows[t].to = 0 /\ ~rows[t].confirmed
  BY <1>1, <1>3, <1>4, RowTyped, RowIs
<1>8. backup.rows = rows /\ backup.device = device
  BY <1>1
<1>9. 1 \in Devices
  BY <1>5, <1>6 DEF Devices
<1>10. TokensOK
  <2>1. \A t \in 1 .. MaxToken : rows[t] # NoRow => t \in Token /\ rows[t].to \in Token \cup {0}
    BY <1>5, <1>7
  <2>2. Len(issued) \in 1 .. MaxToken
    BY <1>4, <1>5
  <2>. QED
    BY <1>1, <1>6, <1>7, <1>8, <1>9, <2>1, <2>2 DEF TokensOK
<1>11. ClientOK
  BY <1>1, <1>2, <1>5 DEF ClientOK
<1>12. Family(issued, rows, device) /\ Family(issued, backup.rows, backup.device)
  <2>1. DOMAIN issued = {1} /\ rows[1].to = 0
    BY <1>5, <1>7, RowIs DEF Token
  <2>. QED
    BY <1>1, <1>6, <1>8, <2>1 DEF Family
<1>13. Starting
  BY <1>1 DEF Starting, Up
<1>14. Transactions
  BY <1>1, <1>2 DEF Transactions, Open
<1>15. Duty
  <2>1. Waiting /\ Answers
    BY <1>1, <1>2 DEF Waiting, Answers
  <2>2. Successor(rows, held, rotatedAt, now)
    BY <1>1, <1>4, <1>7 DEF Successor
  <2>3. Known
    BY <1>1, <1>7, <1>8, <2>2, RowIs DEF Known
  <2>. QED
    BY <2>1, <2>3 DEF Duty
<1>16. NoFalseReuse
  BY <1>1 DEF NoFalseReuse
<1>. QED
  BY <1>1, <1>3, <1>10, <1>11, <1>12, <1>13, <1>14, <1>15, <1>16, TypeParts DEF IInv

LEMMA StutterKeeps == IInv /\ UNCHANGED vars => IInv'
<1>. SUFFICES ASSUME IInv, UNCHANGED vars PROVE IInv'
  OBVIOUS
<1>1. /\ UNCHANGED <<mode, process, pending, stale, now, issued, rows, device, removedBy, graceUntil, backup, requests, logouts>>
      /\ UNCHANGED client
  BY DEF vars, maintenance, client
<1>2. ServerOK' /\ Starting'
  BY <1>1, TypeParts DEF IInv, ServerOK, Starting
<1>3. now <= now'
  BY <1>1, NowIs, TypeParts DEF IInv
<1>. QED
  BY <1>1, <1>2, <1>3, ServerKeeps DEF Restored

LEMMA NextKeeps == IInv /\ [Next]_vars => IInv'
<1>. SUFFICES ASSUME IInv, [Next]_vars PROVE IInv'
  OBVIOUS
<1>1. CASE Client /\ UNCHANGED maintenance
  BY <1>1, ReceiveKeeps, AbandonKeeps, UnheardKeeps, TickKeeps DEF Client
<1>2. CASE Served /\ UNCHANGED maintenance
  <2>1. CASE \E s \in Slot : Send(s) \/ Decide(s) \/ Grant(s) \/ GrantCommit(s)
    BY <1>2, <2>1, SendKeeps, DecideKeeps, GrantKeeps, GrantCommitKeeps
  <2>2. CASE Alone /\ \E s \in Slot : Look(s)
    BY <1>2, <2>2, LookKeeps
  <2>3. CASE Alone /\ \E t \in logouts : LogoutRun(t)
    BY <1>2, <2>3, LogoutRunKeeps
  <2>4. CASE Alone /\ (Use \/ Login \/ Remove \/ Cleanup)
    BY <1>2, <2>4, UseKeeps, LoginKeeps, RemoveKeeps, CleanupKeeps
  <2>. QED
    BY <1>2, <2>1, <2>2, <2>3, <2>4, LogoutKeeps DEF Served
<1>3. CASE Restoring
  BY <1>3, TakeBackupKeeps, RestoreKeeps, StartKeeps, RotateEpochsKeeps, ReadyKeeps, DiesKeeps DEF Restoring
<1>4. CASE UNCHANGED vars
  BY <1>4, StutterKeeps
<1>. QED
  BY <1>1, <1>2, <1>3, <1>4 DEF Next

\* The inductive invariant holds throughout.
THEOREM Invariance == Spec => []IInv
BY InitHolds, NextKeeps, PTL DEF Spec

\* Tokens, rows, requests and what the device stores have their types.
THEOREM TypeCorrect == Spec => []TypeOK
<1>1. IInv => TypeOK
  BY DEF IInv
<1>. QED
  BY <1>1, Invariance, PTL

-----------------------------------------------------------------------------
(* The lines of the tokens a device may come with. *)

\* Fewer rows, fewer tokens to come with.
LEMMA LineFewer ==
  ASSUME NEW R, NEW P, Line(R, P), NEW S, NEW Q \in SUBSET P,
         \A t \in Reach(R, P) \cup P : S[t] = NoRow \/ (R[t] # NoRow /\ S[t].to = R[t].to)
  PROVE  Line(S, Q) /\ Reach(S, Q) \subseteq Reach(R, P)
<1>1. \A q \in Q : S[q].to # 0 => S[q].to = R[q].to
  BY RowIs
<1>2. Reach(S, Q) \subseteq Reach(R, P)
  BY <1>1 DEF Reach
<1>3. \A t \in Reach(S, Q) : IsCurrent(S, t) => t \in Reach(R, P) /\ IsCurrent(R, t)
  BY <1>2 DEF IsCurrent
<1>. QED
  BY <1>2, <1>3 DEF Line

LEMMA LineOne ==
  ASSUME NEW S, NEW Q, NEW n, \A t \in Reach(S, Q) : IsCurrent(S, t) => t = n
  PROVE  Line(S, Q)
BY DEF Line

LEMMA LineSame ==
  ASSUME NEW R, NEW P, Line(R, P), NEW S, NEW Q, \A t \in Reach(S, Q) : IsCurrent(S, t) => t \in Reach(R, P) /\ IsCurrent(R, t)
  PROVE  Line(S, Q)
BY DEF Line

Asking(r) == r.phase \in {"sent", "found", "unknown", "granted"}
Awaited(s) == s = mine /\ requests[s].phase = "answered"

LEMMA PresentedIs ==
  /\ \A p : p \in Presented <=> p # 0 /\ (p = held \/ \E s \in Slot : (Asking(requests[s]) \/ Awaited(s)) /\ p = requests[s].token)
  /\ \A p : p \in Kept <=> p # 0 /\ (p = held \/ \E s \in Slot : Awaited(s) /\ p = requests[s].token)
  /\ Kept \subseteq Presented
BY DEF Presented, Kept, Asking, Awaited

LEMMA PresentedTyped ==
  ASSUME IInv
  PROVE  /\ Presented \subseteq Token /\ Kept \subseteq Token
         /\ \A P \in SUBSET Token : Reach(rows, P) \subseteq Token /\ Reach(backup.rows, P) \subseteq Token
<1>1. ServerOK /\ TokensOK /\ ClientOK
  BY TypeParts DEF IInv
<1>2. \A s \in Slot : Asking(requests[s]) \/ Awaited(s) => requests[s].token \in Token \cup {0}
  BY <1>1, RequestIs DEF ClientOK, Asking, Awaited
<1>3. Presented \subseteq Token
  BY <1>1, <1>2, PresentedIs DEF ClientOK
<1>4. \A t \in Token : rows[t].to \in Token \cup {0} /\ backup.rows[t].to \in Token \cup {0}
  BY <1>1, TokenIs, RowIs DEF TokensOK
<1>. QED
  BY <1>3, <1>4, PresentedIs DEF Reach

\* One request goes on, or fails, or is over.
LEMMA OneRequest ==
  ASSUME IInv, Lines, UNCHANGED <<issued, held>>, NEW s \in Slot, \A r \in Slot : r # s => requests'[r] = requests[r],
         mine' \in {mine, 0},
         Asking(requests'[s]) => Asking(requests[s]) /\ requests'[s].token = requests[s].token,
         mine' = s => /\ requests'[s] # Free
                      /\ Asking(requests'[s]) \/ (requests'[s].phase = "answered" /\ requests'[s].token = 0)
  PROVE  Presented' \subseteq Presented /\ Kept' \subseteq Kept /\ Asked'
<1>1. \A r \in Slot : Asking(requests'[r]) => Asking(requests[r]) /\ requests'[r].token = requests[r].token
  OBVIOUS
<1>2. mine' \in Slot => mine' = mine
  BY Constants
<1>3. \A r \in Slot : Awaited(r)' => requests'[r].token = 0 \/ (Awaited(r) /\ requests'[r].token = requests[r].token)
  BY <1>2 DEF Awaited, Asking
<1>4. Presented' \subseteq Presented /\ Kept' \subseteq Kept
  <2>1. \A p : p \in Presented' <=> p # 0 /\ (p = held \/ \E r \in Slot : (Asking(requests'[r]) \/ Awaited(r)') /\ p = requests'[r].token)
    BY PresentedIs DEF Presented, Asking, Awaited
  <2>2. \A p : p \in Kept' <=> p # 0 /\ (p = held \/ \E r \in Slot : Awaited(r)' /\ p = requests'[r].token)
    BY DEF Kept, Awaited
  <2>. QED
    BY <1>1, <1>3, <2>1, <2>2, PresentedIs
<1>5. Asked'
  <2>1. Asked
    BY DEF Lines
  <2>2. ASSUME mine' = s
        PROVE  /\ held # 0 /\ requests'[s].phase # "answered" => requests'[s].token = held
               /\ ~(requests'[s].phase = "answered" /\ requests'[s].token # 0)
    BY <1>2, <2>1, <2>2 DEF Asked, Asking
  <2>3. \A r \in Slot : r # s => requests'[r] = requests[r]
    OBVIOUS
  <2>. QED
    BY <1>2, <2>1, <2>2, <2>3 DEF Asked
<1>. QED
  BY <1>4, <1>5

\* Rows go, the device forgets, requests go on: no line is longer.
LEMMA Quiet ==
  ASSUME IInv, Lines, UNCHANGED <<mode, issued, backup>>, Asked',
         \A t \in Token : rows'[t] = NoRow \/ (rows[t] # NoRow /\ rows'[t].to = rows[t].to),
         Presented' \subseteq Presented, Kept' \subseteq Kept,
         held' # 0 => held # 0 /\ issued[held'].login = issued[held].login,
         logouts' \subseteq logouts \cup ({held} \ {0}),
         \A s \in Slot : Granted(s)' => \/ requests'[s] = requests[s] /\ (mine' = s => mine = s)
                                        \/ mode.restores /\ Stored \subseteq requests'[s].doomed
  PROVE  Lines'
<1>1. ServerOK /\ TokensOK /\ ClientOK /\ Copies /\ Line(rows, Presented) /\ Line(backup.rows, Kept) /\ Deletes /\ Newest
      /\ Later /\ Single
  BY TypeParts DEF IInv, Lines
<1>2. Token' = Token /\ Logins' = Logins
  BY DEF Token, Logins
<1>3. /\ Presented \subseteq Token /\ Kept \subseteq Token
      /\ Reach(rows, Presented) \subseteq Token /\ Reach(backup.rows, Kept) \subseteq Token
  BY PresentedTyped
<1>4. Copies'
  <2>1. ASSUME NEW t \in Token
        PROVE  /\ rows'[t].to # 0 => (backup.rows[rows'[t].to] # NoRow => backup.rows[t].to = rows'[t].to)
               /\ rows'[t] # NoRow /\ backup.rows[t].to # 0 => rows'[t].to = backup.rows[t].to
    BY <1>1, RowIs DEF Copies
  <2>. QED
    BY <1>2, <2>1 DEF Copies
<1>5. Line(rows', Presented') /\ Reach(rows', Presented') \subseteq Reach(rows, Presented)
  BY <1>1, <1>3, LineFewer
<1>6. Line(backup'.rows, Kept')
  <2>1. \A t \in Reach(backup.rows, Kept) \cup Kept :
          backup.rows[t] = NoRow \/ (backup.rows[t] # NoRow /\ backup.rows[t].to = backup.rows[t].to)
    OBVIOUS
  <2>2. Line(backup.rows, Kept')
    BY <1>1, <2>1, LineFewer
  <2>. QED
    BY <2>2
<1>7. \A t \in Token : rows'[t] # NoRow => rows[t] # NoRow
  OBVIOUS
<1>8. Deletes'
  <2>1. ASSUME NEW s \in Slot, mine' = s, Granted(s)', NEW t \in Reach(rows', Presented'), rows'[t] # NoRow
        PROVE  t \in requests'[s].doomed
    <3>1. t \in Reach(rows, Presented) /\ t \in Token /\ rows[t] # NoRow
      BY <1>3, <1>5, <1>7, <2>1
    <3>2. CASE requests'[s] = requests[s] /\ mine = s
      BY <1>1, <2>1, <3>1, <3>2 DEF Deletes, Granted
    <3>3. CASE Stored \subseteq requests'[s].doomed
      BY <3>1, <3>3 DEF Stored
    <3>. QED
      BY <2>1, <3>2, <3>3
  <2>. QED
    BY <2>1 DEF Deletes
<1>9. Newest'
  BY <1>1, <1>2 DEF Newest
<1>10. Later'
  <2>1. ASSUME NEW p \in logouts', rows'[p] # NoRow
        PROVE  /\ \A n \in Token : rows'[n] # NoRow => issued[n].login <= issued[p].login
               /\ \A s \in Slot : Granted(s)' /\ p \notin requests'[s].doomed => issued[requests'[s].token].login <= issued[p].login
    <3>1. p \in Token /\ rows[p] # NoRow /\ p \in Stored
      BY <1>1, <2>1 DEF ClientOK, Stored
    <3>2. \A s \in Slot : Granted(s)' /\ p \notin requests'[s].doomed => requests'[s] = requests[s] /\ Granted(s)
      BY <3>1 DEF Granted
    <3>3. \A s \in Slot : Granted(s) => requests[s].token \in Token
      BY <1>1, RequestIs DEF ClientOK, Granted
    <3>4. CASE p \in logouts
      BY <1>1, <1>7, <3>1, <3>2, <3>4 DEF Later
    <3>5. CASE p = held /\ held # 0
      BY <1>1, <3>2, <3>3, <3>5 DEF Newest
    <3>. QED
      BY <3>4, <3>5
  <2>. QED
    BY <1>2, <2>1 DEF Later
<1>11. Single'
  <2>1. ~Apart => OneRow(rows')
    BY <1>1 DEF Single, OneRow, IsCurrent
  <2>2. Stored' \subseteq Stored
    BY <1>2 DEF Stored
  <2>3. \A s \in Slot : Granted(s)' => mode.restores /\ (~Apart => Stored' \subseteq requests'[s].doomed)
    BY <1>1, <2>2 DEF Single, Granted
  <2>. QED
    BY <1>1, <1>2, <2>1, <2>3 DEF Single, OneRow, Apart
<1>. QED
  BY <1>4, <1>5, <1>6, <1>8, <1>9, <1>10, <1>11 DEF Lines

\* What one request does to nothing but itself, or to rows that go.
LEMMA RequestQuiet ==
  ASSUME IInv, Lines, NEW s \in Slot, UNCHANGED <<mode, issued, backup, held>>, \A r \in Slot : r # s => requests'[r] = requests[r],
         mine' \in {mine, 0}, logouts' = logouts,
         Asking(requests'[s]) => Asking(requests[s]) /\ requests'[s].token = requests[s].token,
         mine' = s => /\ requests'[s] # Free
                      /\ Asking(requests'[s]) \/ (requests'[s].phase = "answered" /\ requests'[s].token = 0),
         Granted(s)' => requests'[s] = requests[s] \/ (mode.restores /\ Stored \subseteq requests'[s].doomed),
         \A t \in Token : rows'[t] = NoRow \/ (rows[t] # NoRow /\ rows'[t].to = rows[t].to)
  PROVE  Lines'
<1>1. Presented' \subseteq Presented /\ Kept' \subseteq Kept /\ Asked'
  BY OneRequest
<1>2. \A r \in Slot : Granted(r)' => \/ requests'[r] = requests[r] /\ (mine' = r => mine = r)
                                     \/ mode.restores /\ Stored \subseteq requests'[r].doomed
  BY Constants
<1>. QED
  BY <1>1, <1>2, Quiet

LEMMA SendLines ==
  ASSUME IInv, Lines, NEW s \in Slot, Send(s), UNCHANGED maintenance
  PROVE  Lines'
<1>. DEFINE q == [phase |-> "sent", token |-> held]
<1>1. /\ UNCHANGED <<issued, rows, backup, logouts, held>> /\ mode' = mode
      /\ requests' = [requests EXCEPT ![s] = q] /\ mine' = s /\ held # 0 /\ mine = 0
  BY DEF Send, database, maintenance
<1>2. \A r \in Slot : requests'[r] = IF r = s THEN q ELSE requests[r]
  BY <1>1, TypeParts DEF IInv, ClientOK
<1>3. q # Free /\ ~Awaited(s)' /\ \A r \in Slot : ~Awaited(r)'
  BY <1>1, <1>2 DEF Free, Awaited
<1>4. Asked'
  BY <1>1, <1>2, <1>3 DEF Asked
<1>5. Presented' \subseteq Presented
  <2>1. \A p : p \in Presented' <=> p # 0 /\ (p = held \/ \E r \in Slot : (Asking(requests'[r]) \/ Awaited(r)') /\ p = requests'[r].token)
    BY <1>1, PresentedIs DEF Presented, Asking, Awaited
  <2>. QED
    BY <1>2, <1>3, <2>1, PresentedIs
<1>6. Kept' \subseteq Kept
  BY <1>1, <1>3, PresentedIs DEF Kept, Awaited
<1>7. \A r \in Slot : Granted(r)' => requests'[r] = requests[r] /\ mine' # r
  BY <1>1, <1>2 DEF Granted
<1>. QED
  BY <1>1, <1>4, <1>5, <1>6, <1>7, Quiet

LEMMA ReceiveLines ==
  ASSUME IInv, Lines, NEW s \in Slot, Receive(s), UNCHANGED maintenance
  PROVE  Lines'
<1>. PICK a : a = requests[s].token
  OBVIOUS
<1>1. /\ UNCHANGED <<issued, rows, backup, logouts>> /\ mode' = mode
      /\ requests' = [requests EXCEPT ![s] = Free] /\ mine = s /\ mine' = 0 /\ requests[s].phase = "answered" /\ held' = a
  BY DEF Receive, database, maintenance
<1>2. \A r \in Slot : requests'[r] = IF r = s THEN Free ELSE requests[r]
  BY <1>1, TypeParts DEF IInv, ClientOK
<1>3. Free.phase = "free" /\ \A r \in Slot : ~Awaited(r)'
  BY <1>1, Constants DEF Free, Awaited
<1>4. Asked'
  BY <1>1, Constants DEF Asked
<1>5. Awaited(s) /\ (a # 0 => a \in Kept /\ a \in Presented)
  BY <1>1, PresentedIs DEF Awaited
<1>6. Presented' \subseteq Presented
  <2>1. \A p : p \in Presented' <=> p # 0 /\ (p = a \/ \E r \in Slot : (Asking(requests'[r]) \/ Awaited(r)') /\ p = requests'[r].token)
    BY <1>1 DEF Presented, Asking, Awaited
  <2>. QED
    BY <1>2, <1>3, <1>5, <2>1, PresentedIs DEF Asking
<1>7. Kept' \subseteq Kept
  BY <1>1, <1>3, <1>5 DEF Kept, Awaited
<1>8. held' # 0 => held # 0 /\ issued[held'].login = issued[held].login
  BY <1>1 DEF Lines, Asked
<1>9. \A r \in Slot : Granted(r)' => requests'[r] = requests[r] /\ mine' # r
  BY <1>1, <1>2, <1>3, Constants DEF Granted
<1>. QED
  BY <1>1, <1>4, <1>6, <1>7, <1>8, <1>9, Quiet

LEMMA AbandonLines ==
  ASSUME IInv, Lines, NEW s \in Slot, Abandon(s), UNCHANGED maintenance
  PROVE  Lines'
<1>1. /\ UNCHANGED <<issued, rows, backup, logouts, held>> /\ mode' = mode /\ mine' = 0 /\ mine' # s
      /\ requests' = [requests EXCEPT ![s] = Free] \/ UNCHANGED requests
  BY Constants DEF Abandon, database, maintenance
<1>2. /\ \A r \in Slot : r # s => requests'[r] = requests[r]
      /\ requests'[s] = Free \/ requests'[s] = requests[s]
  BY <1>1, TypeParts DEF IInv, ClientOK
<1>3. Free.phase = "free"
  BY DEF Free
<1>. QED
  BY <1>1, <1>2, <1>3, RequestQuiet DEF Asking, Granted

LEMMA UnheardLines ==
  ASSUME IInv, Lines, NEW s \in Slot, Unheard(s), UNCHANGED maintenance
  PROVE  Lines'
<1>1. /\ UNCHANGED <<issued, rows, backup, logouts, held, mine>> /\ mode' = mode /\ mine # s
      /\ requests' = [requests EXCEPT ![s] = Free]
  BY DEF Unheard, database, client, maintenance
<1>2. requests'[s] = Free /\ \A r \in Slot : r # s => requests'[r] = requests[r]
  BY <1>1, TypeParts DEF IInv, ClientOK
<1>3. Free.phase = "free"
  BY DEF Free
<1>. QED
  BY <1>1, <1>2, <1>3, RequestQuiet DEF Asking, Granted

LEMMA LookLines ==
  ASSUME IInv, Lines, NEW s \in Slot, Look(s), UNCHANGED maintenance
  PROVE  Lines'
<1>. DEFINE t == requests[s].token
            seen == [phase |-> IF t \in Stored THEN "found" ELSE "unknown", token |-> t,
                     current |-> t \in Stored /\ rows[t].to = 0]
            no == [phase |-> "answered", token |-> 0]
<1>1. /\ UNCHANGED <<issued, rows, backup, logouts, held, mine>> /\ mode' = mode /\ requests[s].phase = "sent"
      /\ requests' = [requests EXCEPT ![s] = seen] \/ requests' = [requests EXCEPT ![s] = no]
  BY DEF Look, database, client, maintenance, Fail, Answer
<1>2. /\ requests'[s] = seen \/ requests'[s] = no
      /\ \A r \in Slot : r # s => requests'[r] = requests[r]
  BY <1>1, TypeParts DEF IInv, ClientOK
<1>3. /\ seen.phase \in {"found", "unknown"} /\ seen.token = requests[s].token /\ seen # Free
      /\ no.phase = "answered" /\ no.token = 0 /\ no # Free
  BY DEF Free
<1>. HIDE DEF seen, no
<1>4. CASE requests'[s] = seen
  BY <1>1, <1>2, <1>3, <1>4, RequestQuiet DEF Asking, Granted
<1>5. CASE requests'[s] = no
  BY <1>1, <1>2, <1>3, <1>5, RequestQuiet DEF Asking, Granted
<1>. QED
  BY <1>2, <1>4, <1>5

LEMMA GrantLines ==
  ASSUME IInv, Lines, NEW s \in Slot, Grant(s), UNCHANGED maintenance
  PROVE  Lines'
<1>. DEFINE grant == [phase |-> "granted", token |-> requests[s].token, doomed |-> Stored]
            no == [phase |-> "answered", token |-> 0]
<1>1. /\ UNCHANGED <<issued, rows, backup, logouts, held, mine>> /\ mode' = mode /\ requests[s].phase = "unknown"
      /\ (requests' = [requests EXCEPT ![s] = grant] /\ now < graceUntil) \/ requests' = [requests EXCEPT ![s] = no]
  BY DEF Grant, database, client, maintenance, Fail, Answer
<1>2. /\ (requests'[s] = grant /\ now < graceUntil) \/ requests'[s] = no
      /\ \A r \in Slot : r # s => requests'[r] = requests[r]
  BY <1>1, TypeParts DEF IInv, ClientOK
<1>3. /\ grant.phase = "granted" /\ grant.token = requests[s].token /\ grant.doomed = Stored /\ grant # Free
      /\ no.phase = "answered" /\ no.token = 0 /\ no # Free
  BY DEF Free
<1>. HIDE DEF grant, no
<1>4. now < graceUntil => mode.restores
  <2>1. now \in Nat /\ now > 0 /\ Starting
    BY NowIs, TypeParts DEF IInv
  <2>. QED
    BY <2>1 DEF Starting
<1>5. CASE requests'[s] = grant /\ now < graceUntil
  BY <1>1, <1>2, <1>3, <1>4, <1>5, RequestQuiet DEF Asking, Granted
<1>6. CASE requests'[s] = no
  BY <1>1, <1>2, <1>3, <1>6, RequestQuiet DEF Asking, Granted
<1>. QED
  BY <1>2, <1>5, <1>6

\* Time, the server, and steps that only take rows away.
LEMMA IdleLines ==
  ASSUME IInv, Lines, UNCHANGED <<mode, issued, backup, requests, mine, held>>, logouts' \subseteq logouts,
         \A t \in Token : rows'[t] = NoRow \/ (rows[t] # NoRow /\ rows'[t].to = rows[t].to)
  PROVE  Lines'
<1>1. Presented' = Presented /\ Kept' = Kept
  BY DEF Presented, Kept
<1>2. Asked'
  BY DEF Lines, Asked
<1>. QED
  BY <1>1, <1>2, Quiet DEF Granted

LEMMA LogoutLines ==
  ASSUME IInv, Lines, Logout, UNCHANGED maintenance
  PROVE  Lines'
<1>1. /\ UNCHANGED <<issued, rows, backup, requests, mine>> /\ mode' = mode /\ mine = 0
      /\ logouts' = logouts \cup {held} /\ held # 0 /\ held' = 0
  BY DEF Logout, database, maintenance
<1>2. Presented' \subseteq Presented /\ Kept' \subseteq Kept
  BY <1>1 DEF Presented, Kept
<1>3. Asked'
  BY <1>1, Constants DEF Asked
<1>. QED
  BY <1>1, <1>2, <1>3, Quiet DEF Granted

LEMMA RowsGoLines ==
  ASSUME IInv, Lines, Use \/ Remove \/ Cleanup \/ \E t \in logouts : LogoutRun(t), UNCHANGED maintenance
  PROVE  Lines'
<1>1. ServerOK /\ TokensOK /\ mode' = mode
  BY TypeParts DEF IInv, maintenance
<1>2. \A t \in Token : t \in 1 .. MaxToken
  BY <1>1, TokenIs
<1>3. UNCHANGED <<issued, backup, requests, mine, held>> /\ logouts' \subseteq logouts
  BY DEF Use, Remove, Cleanup, LogoutRun, client
<1>4. \A t \in Token : rows'[t] = NoRow \/ (rows[t] # NoRow /\ rows'[t].to = rows[t].to)
  <2>1. CASE Use
    <3>1. access \in Stored /\ rows' = [rows EXCEPT ![access].confirmed = TRUE]
      BY <2>1 DEF Use
    <3>2. access \in Token /\ rows[access] # NoRow /\ rows[access] \in TokenRow
      BY <1>1, <3>1, TokenIs DEF Stored
    <3>3. PICK row : row = [rows[access] EXCEPT !.confirmed = TRUE]
      OBVIOUS
    <3>4. row.to = rows[access].to
      BY <3>2, <3>3 DEF TokenRow
    <3>5. rows' = [rows EXCEPT ![access] = row]
      BY <3>1, <3>3
    <3>. QED
      BY <1>1, <1>2, <3>2, <3>4, <3>5 DEF TokensOK
  <2>2. CASE rows' = [t \in 1 .. MaxToken |-> NoRow]
    BY <1>2, <2>2
  <2>3. CASE Cleanup
    BY <1>2, <2>3 DEF Cleanup, Stored
  <2>4. CASE rows' = rows
    BY <2>4
  <2>. QED
    BY <2>1, <2>2, <2>3, <2>4 DEF Remove, LogoutRun, RemoveDevice
<1>. QED
  BY <1>1, <1>3, <1>4, IdleLines

-----------------------------------------------------------------------------
(* Steps that sign or name a token. *)

\* A grant runs alone wherever two grants never overlap.
LEMMA GrantAlone ==
  ASSUME IInv, Lines, ~Apart, NEW r \in Slot, Granted(r), NEW s \in Slot, Open(s)
  PROVE  r = s
<1>1. Open(r) /\ requests[r] # Free /\ requests[s] # Free
  BY DEF Granted, Open, Free
<1>2. CASE ~mode.overlap
  BY <1>1, <1>2 DEF IInv, Transactions
<1>3. CASE ~mode.late
  BY <1>1, <1>3 DEF IInv, Duty, Waiting
<1>4. CASE ~mode.restores
  BY <1>4 DEF Lines, Single
<1>. QED
  BY <1>2, <1>3, <1>4 DEF Apart

\* A refresh signs a token of the login of its own.
LEMMA SignedLogins ==
  ASSUME IInv, Lines, CanIssue, UNCHANGED <<mode, held>>, NEW t \in Token,
         NEW r \in Signed, r.login = issued[t].login, issued' = Append(issued, r)
  PROVE  /\ NewToken \notin Token /\ NewToken # 0 /\ Token' = Token \cup {NewToken}
         /\ issued'[NewToken].login = issued[t].login /\ \A u \in Token : issued'[u] = issued[u]
         /\ backup.rows[NewToken] = NoRow
         /\ Newest'
<1>. PICK n : n = NewToken
  OBVIOUS
<1>1. ServerOK /\ TokensOK /\ ClientOK /\ Newest
  BY TypeParts DEF IInv, Lines
<1>2. /\ n \notin Token /\ n \in 1 .. MaxToken /\ Token' = Token \cup {n}
      /\ \A u \in Token : issued'[u] = issued[u]
      /\ issued'[n] = r
  BY <1>1, IssueIs
<1>3. n # 0 /\ backup.rows[n] = NoRow
  BY <1>1, <1>2, TokenIs, ModeIs
<1>4. Logins' = Logins
  BY <1>2 DEF Logins
<1>5. held # 0 => held \in Token
  BY <1>1 DEF ClientOK
<1>6. Newest'
  BY <1>1, <1>2, <1>4, <1>5 DEF Newest
<1>. QED
  BY <1>2, <1>3, <1>6

\* What the device may come with once its request is answered with a token.
LEMMA Answered ==
  ASSUME IInv, UNCHANGED <<held, mine>>, NEW s \in Slot, NEW a, a # 0,
         requests'[s] = [phase |-> "answered", token |-> a], \A r \in Slot : r # s => requests'[r] = requests[r]
  PROVE  /\ Presented' \subseteq Presented \cup {a} /\ Kept' \subseteq Kept \cup {a}
         /\ mine # s => Presented' \subseteq Presented /\ Kept' \subseteq Kept
         /\ ~Open(s)' /\ ~Granted(s)'
<1>1. \A r \in Slot : Asking(requests'[r]) => r # s /\ requests'[r] = requests[r]
  BY DEF Asking
<1>2. \A r \in Slot : Awaited(r)' => (r = s /\ requests'[r].token = a /\ mine = s) \/ (r # s /\ Awaited(r) /\ requests'[r] = requests[r])
  BY DEF Awaited
<1>3. \A p : p \in Presented' <=> p # 0 /\ (p = held \/ \E r \in Slot : (Asking(requests'[r]) \/ Awaited(r)') /\ p = requests'[r].token)
  BY PresentedIs DEF Presented, Asking, Awaited
<1>4. \A p : p \in Kept' <=> p # 0 /\ (p = held \/ \E r \in Slot : Awaited(r)' /\ p = requests'[r].token)
  BY DEF Kept, Awaited
<1>. QED
  BY <1>1, <1>2, <1>3, <1>4, PresentedIs DEF Open, Granted

\* The answer is of the login of the held token.
LEMMA AnsweredAsked ==
  ASSUME IInv, Lines, UNCHANGED <<held, mine>>, NEW s \in Slot, Open(s), NEW a, a # 0,
         requests'[s] = [phase |-> "answered", token |-> a], \A r \in Slot : r # s => requests'[r] = requests[r],
         \A u \in Token : issued'[u] = issued[u], issued'[a].login = issued[requests[s].token].login
  PROVE  Asked'
<1>1. ClientOK /\ Asked
  BY TypeParts DEF IInv, Lines
<1>2. requests'[s] # Free
  BY DEF Free
<1>3. mine = s => held # 0 /\ held \in Token /\ requests[s].token = held
  BY <1>1 DEF Asked, Open, ClientOK
<1>4. \A r \in Slot : requests[r].phase = "answered" /\ requests[r].token # 0 => requests[r].token \in Token
  BY <1>1, RequestIs DEF ClientOK
<1>5. held # 0 => held \in Token
  BY <1>1 DEF ClientOK
<1>6. CASE mine = s
  BY <1>2, <1>3, <1>6 DEF Asked
<1>7. CASE mine # s
  BY <1>1, <1>4, <1>5, <1>7 DEF Asked
<1>. QED
  BY <1>6, <1>7

\* A token nobody has seen adds nothing to the line of the copy.
LEMMA CopyGrown ==
  ASSUME IInv, Lines, UNCHANGED backup, NEW n, backup.rows[n] = NoRow, Kept' \subseteq Kept \cup {n}
  PROVE  Line(backup'.rows, Kept')
<1>1. \A t \in Reach(backup.rows, Kept') : IsCurrent(backup.rows, t) => t \in Reach(backup.rows, Kept)
  BY RowIs DEF Reach, IsCurrent
<1>2. Line(backup.rows, Kept')
  BY <1>1, LineSame DEF Lines
<1>. QED
  BY <1>2

\* Rotation: the line of the token ends in its successor.
LEMMA RotateLines ==
  ASSUME IInv, Lines, NEW s \in Slot, requests[s].phase = "found", NEW t, t = requests[s].token, t \in Stored, rows[t].to = 0,
         t \notin Locked, Rotate(s, t), UNCHANGED <<backup, logouts, mine, held>>, UNCHANGED maintenance
  PROVE  Lines'
<1>. PICK n : n = NewToken
  OBVIOUS
<1>. PICK r : r = [did |-> device, exp |-> now + Ttl, login |-> issued[t].login]
  OBVIOUS
<1>1. /\ CanIssue /\ issued' = Append(issued, r) /\ Answer(s, n) /\ mode' = mode
      /\ rows' = [rows EXCEPT ![t] = [rows[t] EXCEPT !.to = n, !.grace = now + Grace], ![n] = Fresh]
  BY DEF Rotate, Sign, maintenance
<1>2. ServerOK /\ TokensOK /\ ClientOK /\ Copies /\ Line(rows, Presented) /\ Deletes /\ Later /\ Single
  BY TypeParts DEF IInv, Lines
<1>3. t \in Token /\ rows[t] # NoRow /\ rows[t] \in TokenRow
  BY <1>2, TokenIs DEF Stored
<1>4. r \in Signed /\ r.login = issued[t].login
  <2>1. device = issued[t].did
    BY <1>3 DEF IInv, Family, Token
  <2>. QED
    BY <1>2, <1>3, <2>1, TokenIs, NowIs DEF Signed
<1>5. /\ n \notin Token /\ n # 0 /\ Token' = Token \cup {n}
      /\ issued'[n].login = issued[t].login /\ \A u \in Token : issued'[u] = issued[u]
      /\ backup.rows[n] = NoRow /\ Newest'
  BY <1>1, <1>3, <1>4, SignedLogins
<1>6. /\ n \in 1 .. MaxToken /\ \A u \in Token : u \in 1 .. MaxToken /\ u # n
  BY <1>1, <1>2, <1>4, <1>5, IssueIs, TokenIs
<1>7. PICK row : row = [rows[t] EXCEPT !.to = n, !.grace = now + Grace]
  OBVIOUS
<1>8. row.to = n
  BY <1>3, <1>7 DEF TokenRow
<1>9. row # NoRow
  BY <1>5, <1>8 DEF NoRow
<1>10. rows'[t] = row /\ rows'[n] = Fresh /\ \A u \in Token : u # t => rows'[u] = rows[u]
  BY <1>1, <1>2, <1>3, <1>6, <1>7 DEF TokensOK
<1>11. /\ requests'[s] = [phase |-> "answered", token |-> n] /\ \A q \in Slot : q # s => requests'[q] = requests[q]
  BY <1>1, <1>2 DEF Answer, ClientOK
<1>12. /\ Presented' \subseteq Presented \cup {n} /\ Kept' \subseteq Kept \cup {n} /\ ~Granted(s)'
       /\ mine # s => Presented' \subseteq Presented
  BY <1>5, <1>11, Answered
<1>13. Open(s) /\ Asking(requests[s])
  BY DEF Open, Asking
<1>14. Asked'
  BY <1>5, <1>11, <1>13, AnsweredAsked
<1>15. t \in Presented /\ t \in Reach(rows, Presented) /\ Presented \subseteq Token /\ Reach(rows, Presented) \subseteq Token
  <2>1. t \in Presented
    BY <1>2, <1>3, <1>13, PresentedIs, TokenIs
  <2>. QED
    BY <1>2, <1>3, <2>1, PresentedTyped, TokenIs DEF Reach
<1>16. Reach(rows', Presented') \subseteq Reach(rows, Presented) \cup {n}
  BY <1>8, <1>10, <1>12, <1>15, RowIs DEF Reach
<1>17. Line(rows', Presented')
  <2>1. ASSUME NEW u \in Reach(rows', Presented'), IsCurrent(rows', u), u # n
        PROVE  FALSE
    <3>1. u \in Reach(rows, Presented) /\ u \in Token
      BY <1>15, <1>16, <2>1
    <3>2. u # t
      BY <1>5, <1>8, <1>10, <2>1 DEF IsCurrent
    <3>3. IsCurrent(rows, u) /\ IsCurrent(rows, t)
      BY <1>3, <1>10, <2>1, <3>1, <3>2 DEF IsCurrent
    <3>. QED
      BY <1>2, <1>15, <3>1, <3>2, <3>3 DEF Line
  <2>. QED
    BY <2>1, LineOne
<1>18. Line(backup'.rows, Kept')
  BY <1>5, <1>12, CopyGrown
<1>19. Copies'
  <2>1. \A u \in Token : rows[u].to # 0 => rows[u].to \in Token
    BY DEF IInv, Family, Token
  <2>2. ASSUME NEW u \in Token
        PROVE  /\ rows'[u].to # 0 => (backup.rows[rows'[u].to] # NoRow => backup.rows[u].to = rows'[u].to)
               /\ rows'[u] # NoRow /\ backup.rows[u].to # 0 => rows'[u].to = backup.rows[u].to
    <3>1. CASE u = t
      BY <1>2, <1>3, <1>5, <1>8, <1>10, <3>1 DEF Copies
    <3>2. CASE u # t
      BY <1>2, <1>10, <3>2 DEF Copies
    <3>. QED
      BY <3>1, <3>2
  <2>3. rows'[n].to = 0 /\ backup.rows[n].to = 0
    BY <1>5, <1>10, RowIs
  <2>. QED
    BY <1>5, <2>2, <2>3 DEF Copies
<1>20. Deletes'
  <2>1. ASSUME NEW q \in Slot, mine = q, Granted(q)'
        PROVE  FALSE
    <3>1. q # s /\ Granted(q) /\ requests'[q] = requests[q]
      BY <1>11, <1>12, <2>1 DEF Granted
    <3>2. t \in requests[q].doomed
      BY <1>2, <1>3, <1>15, <2>1, <3>1 DEF Deletes
    <3>. QED
      BY <3>1, <3>2 DEF Locked, Granted
  <2>. QED
    BY <2>1 DEF Deletes
<1>21. Later'
  <2>1. ASSUME NEW p \in logouts, rows'[p] # NoRow
        PROVE  /\ \A u \in Token' : rows'[u] # NoRow => issued'[u].login <= issued'[p].login
               /\ \A q \in Slot : Granted(q)' /\ p \notin requests'[q].doomed => issued'[requests'[q].token].login <= issued'[p].login
    <3>1. p \in Token /\ rows[p] # NoRow /\ issued'[p] = issued[p]
      BY <1>2, <1>3, <1>5, <1>10, <2>1 DEF ClientOK
    <3>2. \A u \in Token : rows[u] # NoRow => issued[u].login <= issued[p].login
      BY <1>2, <3>1 DEF Later
    <3>3. \A u \in Token' : rows'[u] # NoRow => issued'[u].login <= issued'[p].login
      BY <1>3, <1>5, <1>10, <3>1, <3>2
    <3>4. \A q \in Slot : Granted(q)' => Granted(q) /\ requests'[q] = requests[q] /\ requests[q].token \in Token
      BY <1>2, <1>11, <1>12, RequestIs DEF Granted, ClientOK
    <3>5. \A q \in Slot : Granted(q) /\ p \notin requests[q].doomed => issued[requests[q].token].login <= issued[p].login
      BY <1>2, <3>1 DEF Later
    <3>. QED
      BY <1>5, <3>1, <3>3, <3>4, <3>5
  <2>. QED
    BY <2>1 DEF Later
<1>22. Single'
  <2>1. ASSUME ~Apart
        PROVE  /\ \A u, v \in Token' : IsCurrent(rows', u) /\ IsCurrent(rows', v) => u = v
               /\ \A u, v \in Token' : IsCurrent(backup.rows, u) /\ IsCurrent(backup.rows, v) => u = v
               /\ \A q \in Slot : ~Granted(q)'
    <3>1. OneRow(rows) /\ OneRow(backup.rows)
      BY <1>2, <2>1 DEF Single
    <3>2. \A u \in Token' : IsCurrent(rows', u) => u = n
      <4>1. ASSUME NEW u \in Token, IsCurrent(rows', u)
            PROVE  FALSE
        <5>1. u # t
          BY <1>5, <1>8, <1>10, <4>1 DEF IsCurrent
        <5>2. IsCurrent(rows, u) /\ IsCurrent(rows, t)
          BY <1>3, <1>10, <4>1, <5>1 DEF IsCurrent
        <5>. QED
          BY <1>3, <3>1, <5>1, <5>2 DEF OneRow
      <4>. QED
        BY <1>5, <4>1
    <3>3. ~IsCurrent(backup.rows, n)
      BY <1>5 DEF IsCurrent
    <3>4. \A q \in Slot : ~Granted(q)'
      <4>1. ASSUME NEW q \in Slot, Granted(q)'
            PROVE  FALSE
        <5>1. Granted(q) /\ q # s
          BY <1>11, <1>12, <4>1 DEF Granted
        <5>. QED
          BY <1>13, <2>1, <5>1, GrantAlone
      <4>. QED
        BY <4>1
    <3>. QED
      BY <1>5, <3>1, <3>2, <3>3, <3>4 DEF OneRow
  <2>2. \A q \in Slot : Granted(q)' => mode.restores
    BY <1>2, <1>11, <1>12 DEF Single, Granted
  <2>. QED
    BY <1>1, <2>1, <2>2 DEF Single, OneRow, Apart
<1>. QED
  BY <1>5, <1>14, <1>17, <1>18, <1>19, <1>20, <1>21, <1>22 DEF Lines

\* The repeat names a successor that the token led to already.
LEMMA RepeatLines ==
  ASSUME IInv, Lines, NEW s \in Slot, requests[s].phase = "found", NEW t, t = requests[s].token, t \in Stored, rows[t].to # 0,
         NEW n, n = rows[t].to, n \in Stored, rows[n].to = 0, Answer(s, n), UNCHANGED database,
         UNCHANGED <<backup, logouts, mine, held>>, UNCHANGED maintenance
  PROVE  Lines'
<1>1. UNCHANGED <<issued, rows>> /\ mode' = mode
  BY DEF database, maintenance
<1>2. ServerOK /\ TokensOK /\ ClientOK /\ Asked /\ Copies /\ Line(rows, Presented) /\ Line(backup.rows, Kept) /\ Deletes
      /\ Newest /\ Later /\ Single
  BY TypeParts DEF IInv, Lines
<1>3. t \in Token /\ n \in Token /\ n # 0 /\ t # 0 /\ issued[n].login = issued[t].login /\ rows[n] # NoRow
  BY <1>2, TokenIs DEF Stored, IInv, Family, Token
<1>4. /\ requests'[s] = [phase |-> "answered", token |-> n] /\ \A q \in Slot : q # s => requests'[q] = requests[q]
  BY <1>2 DEF Answer, ClientOK
<1>5. /\ Presented' \subseteq Presented \cup {n} /\ Kept' \subseteq Kept \cup {n} /\ ~Granted(s)'
      /\ mine # s => Presented' \subseteq Presented /\ Kept' \subseteq Kept
  BY <1>3, <1>4, Answered
<1>6. Open(s) /\ Asking(requests[s])
  BY DEF Open, Asking
<1>7. Asked'
  BY <1>1, <1>3, <1>4, <1>6, AnsweredAsked
<1>8. t \in Presented /\ n \in Reach(rows, Presented)
  BY <1>3, <1>6, PresentedIs DEF Reach
<1>9. Reach(rows', Presented') \subseteq Reach(rows, Presented)
  BY <1>1, <1>5, <1>8 DEF Reach
<1>10. Line(rows', Presented')
  BY <1>1, <1>2, <1>9 DEF Line
<1>11. Line(backup'.rows, Kept')
  <2>1. CASE mine # s
    <3>1. Reach(backup.rows, Kept') \subseteq Reach(backup.rows, Kept)
      BY <1>5, <2>1 DEF Reach
    <3>. QED
      BY <1>2, <3>1 DEF Line
  <2>2. CASE mine = s
    <3>1. t = held /\ t \in Kept
      BY <1>2, <1>3, <2>2, PresentedIs DEF Asked
    <3>2. CASE backup.rows[n] = NoRow
      BY <1>5, <3>2, CopyGrown
    <3>3. CASE backup.rows[n] # NoRow
      <4>1. backup.rows[t].to = n /\ backup.rows[n].to = 0
        BY <1>2, <1>3, <3>3 DEF Copies
      <4>2. n \in Reach(backup.rows, Kept)
        BY <1>3, <3>1, <4>1 DEF Reach
      <4>3. Reach(backup.rows, Kept') \subseteq Reach(backup.rows, Kept)
        BY <1>5, <4>1, <4>2 DEF Reach
      <4>. QED
        BY <1>2, <4>3 DEF Line
    <3>. QED
      BY <3>2, <3>3
  <2>. QED
    BY <2>1, <2>2
<1>12. Token' = Token /\ Logins' = Logins /\ Stored' = Stored
  BY <1>1 DEF Token, Logins, Stored
<1>13. \A q \in Slot : Granted(q)' => Granted(q) /\ requests'[q] = requests[q]
  BY <1>4, <1>5 DEF Granted
<1>14. Copies' /\ Newest' /\ Later'
  BY <1>1, <1>2, <1>12, <1>13 DEF Copies, Newest, Later
<1>15. Deletes'
  BY <1>1, <1>2, <1>9, <1>13 DEF Deletes
<1>16. Single'
  BY <1>1, <1>2, <1>12, <1>13 DEF Single, OneRow, Apart
<1>. QED
  BY <1>7, <1>10, <1>11, <1>14, <1>15, <1>16 DEF Lines

LEMMA DecideLines ==
  ASSUME IInv, Lines, NEW s \in Slot, Decide(s), UNCHANGED maintenance
  PROVE  Lines'
<1>. DEFINE t == requests[s].token
<1>1. /\ requests[s].phase = "found" /\ t \notin Locked /\ UNCHANGED <<backup, logouts, mine, held>> /\ mode' = mode
      /\ IF Wins(s, t) THEN Rotate(s, t) ELSE Repeat(s, t)
  BY DEF Decide, maintenance
<1>2. ServerOK /\ TokensOK /\ ClientOK
  BY TypeParts DEF IInv
<1>3. CASE Wins(s, t)
  BY <1>1, <1>3, RotateLines DEF Wins
<1>4. CASE ~Wins(s, t)
  <2>1. CASE t \in Stored /\ rows[t].to # 0 /\ rows[t].grace > now /\ UnusedCurrent(rows[t].to)
    BY <1>1, <1>4, <2>1, RepeatLines DEF Repeat, UnusedCurrent
  <2>2. CASE ~(t \in Stored /\ rows[t].to # 0 /\ rows[t].grace > now /\ UnusedCurrent(rows[t].to))
    <3>1. Answer(s, 0) /\ issued' = issued /\ (rows' = rows \/ rows' = [u \in 1 .. MaxToken |-> NoRow])
      BY <1>1, <1>4, <2>2 DEF Repeat, Fail, RemoveDevice, database
    <3>2. /\ requests'[s] = [phase |-> "answered", token |-> 0] /\ \A q \in Slot : q # s => requests'[q] = requests[q]
      BY <1>2, <3>1 DEF Answer, ClientOK
    <3>3. \A u \in Token : rows'[u] = NoRow \/ (rows[u] # NoRow /\ rows'[u].to = rows[u].to)
      BY <1>2, <3>1, TokenIs
    <3>4. requests'[s].phase = "answered" /\ requests'[s].token = 0 /\ requests'[s] # Free
      BY <3>2 DEF Free
    <3>5. ~Asking(requests'[s]) /\ ~Granted(s)'
      BY <3>4 DEF Asking, Granted
    <3>. QED
      BY <1>1, <3>1, <3>2, <3>3, <3>4, <3>5, RequestQuiet
  <2>. QED
    BY <2>1, <2>2
<1>. QED
  BY <1>3, <1>4

\* What a grant leaves the device cannot come with; what it signs is the end of a line of its own.
LEMMA GrantCommitLines ==
  ASSUME IInv, Lines, NEW s \in Slot, GrantCommit(s), UNCHANGED maintenance
  PROVE  Lines'
<1>. DEFINE t == requests[s].token
<1>1. /\ UNCHANGED <<backup, logouts, held>> /\ mode' = mode /\ requests[s].phase = "granted"
      /\ mine' = IF mine = s /\ device # issued[t].did THEN 0 ELSE mine
  BY DEF GrantCommit, maintenance
<1>2. ServerOK /\ TokensOK /\ ClientOK /\ Copies /\ Line(rows, Presented) /\ Deletes /\ Later /\ Single
  BY TypeParts DEF IInv, Lines
<1>3. Open(s) /\ Granted(s)
  BY <1>1 DEF Open, Granted
<1>4. t \in Token
  BY <1>1, <1>2 DEF ClientOK, Request, Free
<1>5. CASE device # issued[t].did
  <2>1. requests' = [requests EXCEPT ![s] = Free] /\ UNCHANGED <<issued, rows>>
    BY <1>5 DEF GrantCommit
  <2>2. requests'[s] = Free /\ \A r \in Slot : r # s => requests'[r] = requests[r]
    BY <1>2, <2>1 DEF ClientOK
  <2>3. Free.phase = "free" /\ mine' \in {mine, 0} /\ mine' # s
    BY <1>1, <1>5, Constants DEF Free
  <2>. QED
    BY <1>1, <2>1, <2>2, <2>3, RequestQuiet DEF Asking, Granted
<1>6. CASE device = issued[t].did
  <2>. PICK n : n = NewToken
    OBVIOUS
  <2>. PICK r : r = [did |-> device, exp |-> now + Ttl, login |-> issued[t].login]
    OBVIOUS
  <2>1. CanIssue /\ issued' = Append(issued, r) /\ Answer(s, n) /\ mine' = mine
    BY <1>1, <1>6 DEF GrantCommit, Sign
  <2>2. rows' = [u \in 1 .. MaxToken |-> IF u = n THEN Fresh ELSE IF Survives(s, u) THEN rows[u] ELSE NoRow]
    BY <1>6 DEF GrantCommit
  <2>3. r \in Signed /\ r.login = issued[t].login
    BY <1>2, <1>4, <1>6, TokenIs, NowIs DEF Signed
  <2>4. /\ n \notin Token /\ n # 0 /\ Token' = Token \cup {n}
        /\ issued'[n].login = issued[t].login /\ \A u \in Token : issued'[u] = issued[u]
        /\ backup.rows[n] = NoRow /\ Newest'
    BY <1>1, <1>4, <2>1, <2>3, SignedLogins
  <2>5. n \in 1 .. MaxToken /\ \A u \in Token : u \in 1 .. MaxToken /\ u # n
    BY <1>1, <1>2, <2>1, <2>3, <2>4, IssueIs, TokenIs
  <2>6. /\ rows'[n] = Fresh
        /\ \A u \in Token : rows'[u] = NoRow \/ (rows'[u] = rows[u] /\ u \in Stored /\ u \notin requests[s].doomed)
    BY <2>2, <2>5 DEF Survives
  <2>7. /\ requests'[s] = [phase |-> "answered", token |-> n] /\ \A q \in Slot : q # s => requests'[q] = requests[q]
    BY <1>2, <2>1 DEF Answer, ClientOK
  <2>8. /\ Presented' \subseteq Presented \cup {n} /\ Kept' \subseteq Kept \cup {n} /\ ~Granted(s)'
        /\ mine # s => Presented' \subseteq Presented
    BY <1>1, <2>1, <2>4, <2>7, Answered
  <2>9. Asked'
    BY <1>1, <1>3, <2>1, <2>4, <2>7, AnsweredAsked
  <2>10. Presented \subseteq Token /\ Reach(rows, Presented) \subseteq Token
    BY PresentedTyped
  <2>11. /\ Reach(rows', Presented') \subseteq Reach(rows, Presented) \cup {n}
         /\ mine # s => Reach(rows', Presented') \subseteq Reach(rows, Presented)
    BY <2>6, <2>8, <2>10, RowIs DEF Reach
  <2>12. Line(rows', Presented')
    <3>1. CASE mine = s
      <4>1. ASSUME NEW u \in Reach(rows', Presented'), IsCurrent(rows', u), u # n
            PROVE  FALSE
        <5>1. u \in Reach(rows, Presented) /\ u \in Token
          BY <2>10, <2>11, <4>1
        <5>2. rows[u] # NoRow /\ u \notin requests[s].doomed
          BY <2>6, <4>1, <5>1 DEF IsCurrent
        <5>. QED
          BY <1>2, <1>3, <3>1, <5>1, <5>2 DEF Deletes
      <4>. QED
        BY <4>1, LineOne
    <3>2. CASE mine # s
      <4>1. \A u \in Reach(rows', Presented') : IsCurrent(rows', u) => u \in Reach(rows, Presented) /\ IsCurrent(rows, u)
        BY <2>6, <2>10, <2>11, <3>2 DEF IsCurrent
      <4>. QED
        BY <1>2, <4>1, LineSame
    <3>. QED
      BY <3>1, <3>2
  <2>13. Line(backup'.rows, Kept')
    BY <1>1, <2>4, <2>8, CopyGrown
  <2>14. Copies'
    <3>1. ASSUME NEW u \in Token
          PROVE  /\ rows'[u].to # 0 => (backup.rows[rows'[u].to] # NoRow => backup.rows[u].to = rows'[u].to)
                 /\ rows'[u] # NoRow /\ backup.rows[u].to # 0 => rows'[u].to = backup.rows[u].to
      BY <1>2, <2>6, RowIs DEF Copies
    <3>2. rows'[n].to = 0 /\ backup.rows[n].to = 0
      BY <2>4, <2>6, RowIs
    <3>. QED
      BY <1>1, <2>4, <3>1, <3>2 DEF Copies
  <2>15. \A q \in Slot : Granted(q)' => Granted(q) /\ requests'[q] = requests[q] /\ q # s
    BY <2>7, <2>8 DEF Granted
  <2>16. Deletes'
    <3>1. ASSUME NEW q \in Slot, mine = q, Granted(q)', NEW u \in Reach(rows', Presented'), rows'[u] # NoRow
          PROVE  u \in requests'[q].doomed
      <4>1. u \in Reach(rows, Presented) /\ u \in Token
        BY <2>10, <2>11, <2>15, <3>1
      <4>2. rows[u] # NoRow
        BY <2>6, <3>1, <4>1
      <4>. QED
        BY <1>2, <2>15, <3>1, <4>1, <4>2 DEF Deletes
    <3>. QED
      BY <2>1, <3>1 DEF Deletes
  <2>17. Later'
    <3>1. ASSUME NEW p \in logouts, rows'[p] # NoRow
          PROVE  /\ \A u \in Token' : rows'[u] # NoRow => issued'[u].login <= issued'[p].login
                 /\ \A q \in Slot : Granted(q)' /\ p \notin requests'[q].doomed => issued'[requests'[q].token].login <= issued'[p].login
      <4>1. p \in Token /\ rows[p] # NoRow /\ issued'[p] = issued[p] /\ p \notin requests[s].doomed
        BY <1>2, <2>4, <2>6, <3>1 DEF ClientOK
      <4>2. \A u \in Token : rows[u] # NoRow => issued[u].login <= issued[p].login
        BY <1>2, <4>1 DEF Later
      <4>3. \A q \in Slot : Granted(q) /\ p \notin requests[q].doomed => issued[requests[q].token].login <= issued[p].login
        BY <1>2, <4>1 DEF Later
      <4>4. \A u \in Token' : rows'[u] # NoRow => issued'[u].login <= issued'[p].login
        BY <1>3, <2>4, <2>6, <4>1, <4>2, <4>3
      <4>5. \A q \in Slot : Granted(q)' => requests[q].token \in Token
        BY <1>2, <2>15, RequestIs DEF Granted, ClientOK
      <4>. QED
        BY <2>4, <2>15, <4>1, <4>3, <4>4, <4>5
    <3>. QED
      BY <1>1, <3>1 DEF Later
  <2>18. Single'
    <3>1. ASSUME ~Apart
          PROVE  /\ \A u, v \in Token' : IsCurrent(rows', u) /\ IsCurrent(rows', v) => u = v
                 /\ \A u, v \in Token' : IsCurrent(backup.rows, u) /\ IsCurrent(backup.rows, v) => u = v
                 /\ \A q \in Slot : ~Granted(q)'
      <4>1. OneRow(backup.rows) /\ Stored \subseteq requests[s].doomed
        BY <1>2, <1>3, <3>1 DEF Single
      <4>2. \A u \in Token : ~IsCurrent(rows', u)
        BY <2>6, <4>1 DEF IsCurrent
      <4>3. ~IsCurrent(backup.rows, n)
        BY <2>4 DEF IsCurrent
      <4>4. \A q \in Slot : ~Granted(q)'
        BY <1>3, <2>15, <3>1, GrantAlone
      <4>. QED
        BY <2>4, <4>1, <4>2, <4>3, <4>4 DEF OneRow
    <3>2. \A q \in Slot : Granted(q)' => mode.restores
      BY <1>2, <2>15 DEF Single
    <3>. QED
      BY <1>1, <3>1, <3>2 DEF Single, OneRow, Apart
  <2>. QED
    BY <2>4, <2>9, <2>12, <2>13, <2>14, <2>16, <2>17, <2>18 DEF Lines
<1>. QED
  BY <1>5, <1>6

\* A sign-in leaves one row, of the latest login.
LEMMA LoginLines ==
  ASSUME IInv, Lines, Login, Alone, UNCHANGED maintenance
  PROVE  Lines'
<1>. PICK n : n = NewToken
  OBVIOUS
<1>. PICK did : did = IF device # 0 THEN device ELSE Cardinality(Devices) + 1
  OBVIOUS
<1>. PICK top : top = Cardinality(Logins)
  OBVIOUS
<1>. PICK r : r = [did |-> did, exp |-> now + Ttl, login |-> top + 1]
  OBVIOUS
<1>1. /\ UNCHANGED <<backup, requests, logouts, mine>> /\ mode' = mode
      /\ held = 0 /\ CanIssue /\ issued' = Append(issued, r)
      /\ rows' = [t \in 1 .. MaxToken |-> IF t = n THEN Fresh ELSE NoRow]
      /\ held' \in {0, n}
  BY DEF Login, Sign, maintenance
<1>2. ServerOK /\ TokensOK /\ ClientOK /\ Asked /\ Newest /\ Single
  BY TypeParts DEF IInv, Lines
<1>3. did \in Nat \ {0} /\ top \in Nat
  BY <1>2, Counted, TokenIs DEF TokensOK, Devices
<1>4. r \in Signed /\ r.login = top + 1
  BY <1>2, <1>3, NowIs DEF Signed
<1>5. /\ n \notin Token /\ n \in 1 .. MaxToken /\ Token' = Token \cup {n}
      /\ \A u \in Token : issued'[u] = issued[u]
      /\ issued'[n] = r
  BY <1>1, <1>2, <1>4, IssueIs
<1>6. n # 0 /\ backup.rows[n] = NoRow /\ \A u \in Token : u \in 1 .. MaxToken /\ u # n
  BY <1>2, <1>5, TokenIs, ModeIs
<1>7. rows'[n] = Fresh /\ \A u \in Token : rows'[u] = NoRow
  BY <1>1, <1>5, <1>6
<1>8. mine = 0 /\ \A s \in Slot : mine # s
  BY <1>1, <1>2, Constants DEF Asked, ClientOK
<1>9. Asked' /\ Deletes'
  BY <1>1, <1>8 DEF Asked, Deletes
<1>10. \A t \in Token' : IsCurrent(rows', t) => t = n
  BY <1>5, <1>7 DEF IsCurrent
<1>11. Line(rows', Presented')
  <2>1. Presented' \subseteq Token'
    <3>1. \A p : p \in Presented' <=> p # 0 /\ (p = held' \/ \E s \in Slot : (Asking(requests[s]) \/ Awaited(s)) /\ p = requests[s].token)
      BY <1>1 DEF Presented, Asking, Awaited
    <3>. QED
      BY <1>1, <1>5, <3>1, PresentedIs, PresentedTyped
  <2>2. Reach(rows', Presented') \subseteq Token'
    BY <1>5, <1>7, <2>1, RowIs DEF Reach
  <2>. QED
    BY <1>10, <2>2, LineOne
<1>12. Line(backup'.rows, Kept')
  <2>1. Kept' \subseteq {n}
    BY <1>1, <1>8 DEF Kept
  <2>. QED
    BY <1>1, <1>6, <2>1, CopyGrown
<1>13. Copies'
  <2>1. \A u \in Token' : rows'[u].to = 0 /\ (rows'[u] # NoRow => backup.rows[u].to = 0)
    BY <1>5, <1>6, <1>7, RowIs
  <2>. QED
    BY <1>1, <2>1 DEF Copies
<1>14. Newest'
  <2>1. Logins' = Logins \cup {top + 1}
    BY <1>4, <1>5 DEF Logins
  <2>2. \A u \in Token : issued[u].login \in Nat /\ issued[u].login <= top
    BY <1>2, TokenIs DEF Newest
  <2>3. Cardinality(Logins') = top + 1
    <3>1. top + 1 \notin Logins
      BY <1>3, <2>2 DEF Logins
    <3>. QED
      BY <1>2, <2>1, <3>1, Counted, FS_AddElement
  <2>4. \A u \in Token' : issued'[u].login <= top + 1
    BY <1>3, <1>4, <1>5, <2>2
  <2>. QED
    BY <1>1, <1>4, <1>5, <2>3, <2>4 DEF Newest
<1>15. Later'
  BY <1>1, <1>2, <1>7 DEF Later, ClientOK
<1>16. Single'
  <2>1. ASSUME ~Apart, NEW s \in Slot, Granted(s)
        PROVE  FALSE
    <3>1. CASE ~mode.overlap
      BY <1>1, <2>1, <3>1 DEF Alone, Granted
    <3>2. CASE ~mode.late
      BY <1>8, <2>1, <3>2 DEF IInv, Duty, Waiting, Granted, Free
    <3>3. CASE ~mode.restores
      BY <1>2, <2>1, <3>3 DEF Single
    <3>. QED
      BY <2>1, <3>1, <3>2, <3>3 DEF Apart
  <2>2. \A s \in Slot : Granted(s)' <=> Granted(s)
    BY <1>1 DEF Granted
  <2>3. ~Apart => \A u, v \in Token' : IsCurrent(backup.rows, u) /\ IsCurrent(backup.rows, v) => u = v
    BY <1>2, <1>5, <1>6 DEF Single, OneRow, IsCurrent
  <2>. QED
    BY <1>1, <1>2, <1>10, <2>1, <2>2, <2>3 DEF Single, OneRow, Apart
<1>. QED
  BY <1>9, <1>11, <1>12, <1>13, <1>14, <1>15, <1>16 DEF Lines

LEMMA TakeBackupLines ==
  ASSUME IInv, Lines, TakeBackup
  PROVE  Lines'
<1>1. /\ UNCHANGED <<issued, rows, requests, logouts, mine, held>> /\ mode' = mode /\ backup'.rows = rows
  BY DEF TakeBackup, database, client, maintenance
<1>2. Presented' = Presented /\ Kept' = Kept /\ Token' = Token /\ Stored' = Stored /\ Logins' = Logins
  BY <1>1 DEF Presented, Kept, Token, Stored, Logins
<1>3. Asked' /\ Deletes' /\ Newest' /\ Later'
  BY <1>1, <1>2 DEF Lines, Asked, Deletes, Newest, Later, Granted
<1>4. Line(rows', Presented')
  BY <1>1, <1>2 DEF Lines
<1>5. Line(backup'.rows, Kept')
  <2>1. Reach(rows, Kept) \subseteq Reach(rows, Presented)
    BY PresentedIs DEF Reach
  <2>. QED
    BY <1>1, <1>2, <2>1 DEF Lines, Line
<1>6. Copies' /\ Single'
  BY <1>1, <1>2 DEF Lines, Copies, Single, OneRow, Apart, Granted
<1>. QED
  BY <1>3, <1>4, <1>5, <1>6 DEF Lines

LEMMA RestoreLines ==
  ASSUME IInv, Lines, Restore
  PROVE  Lines'
<1>1. /\ UNCHANGED <<mode, issued, backup, held>> /\ rows' = backup.rows /\ logouts' = {}
      /\ requests' = [s \in Slot |-> IF requests[s].phase = "answered" THEN requests[s] ELSE Free]
      /\ mine' = IF mine # 0 /\ requests[mine].phase = "answered" THEN mine ELSE 0
  BY DEF Restore
<1>2. Free.phase = "free"
  BY DEF Free
<1>3. \A s \in Slot : /\ ~Asking(requests'[s]) /\ ~Granted(s)'
                      /\ mine' = s => mine = s /\ requests'[s] = requests[s] /\ requests[s].phase = "answered"
  BY <1>1, <1>2, Constants DEF Asking, Granted
<1>4. Presented' \subseteq Kept /\ Kept' \subseteq Kept
  <2>1. \A p : p \in Presented' <=> p # 0 /\ (p = held \/ \E r \in Slot : (Asking(requests'[r]) \/ Awaited(r)') /\ p = requests'[r].token)
    BY <1>1, PresentedIs DEF Presented, Asking, Awaited
  <2>2. \A p : p \in Kept' <=> p # 0 /\ (p = held \/ \E r \in Slot : Awaited(r)' /\ p = requests'[r].token)
    BY <1>1 DEF Kept, Awaited
  <2>3. \A r \in Slot : Awaited(r)' => Awaited(r) /\ requests'[r] = requests[r]
    BY <1>3 DEF Awaited
  <2>. QED
    BY <1>3, <2>1, <2>2, <2>3, PresentedIs
<1>5. Line(rows', Presented') /\ Line(backup'.rows, Kept')
  <2>1. Reach(backup.rows, Presented') \subseteq Reach(backup.rows, Kept) /\ Reach(backup.rows, Kept') \subseteq Reach(backup.rows, Kept)
    BY <1>4 DEF Reach
  <2>2. Line(backup.rows, Presented') /\ Line(backup.rows, Kept')
    BY <2>1 DEF Lines, Line
  <2>. QED
    BY <1>1, <2>2
<1>6. Asked'
  BY <1>1, <1>3 DEF Lines, Asked
<1>7. Token' = Token /\ Logins' = Logins
  BY <1>1 DEF Token, Logins
<1>8. Copies' /\ Newest' /\ Later' /\ Deletes'
  BY <1>1, <1>3, <1>7, RowIs DEF Lines, Copies, Newest, Later, Deletes
<1>9. Single'
  BY <1>1, <1>3, <1>7 DEF Lines, Single, OneRow, Apart
<1>. QED
  BY <1>5, <1>6, <1>8, <1>9 DEF Lines

LEMMA InitLines == Init => Lines
<1>. SUFFICES ASSUME Init PROVE Lines
  OBVIOUS
<1>1. /\ issued = <<[did |-> 1, exp |-> 1 + Ttl, login |-> 1]>>
      /\ rows = [t \in 1 .. MaxToken |-> IF t = 1 THEN Fresh ELSE NoRow]
      /\ backup.rows = rows /\ requests = [s \in Slot |-> Free] /\ logouts = {} /\ mine = 0 /\ held = 1
  BY DEF Init
<1>2. ServerOK /\ TokensOK
  BY InitHolds, TypeParts DEF IInv
<1>3. Token = {1} /\ issued[1].login = 1 /\ 1 \in 1 .. MaxToken
  BY <1>1, <1>2, TokenIs DEF Token
<1>4. rows[1] = Fresh
  BY <1>1, <1>3
<1>5. Free.phase = "free"
  BY DEF Free
<1>6. Presented = {1} /\ Kept = {1}
  BY <1>1, <1>5, Constants DEF Presented, Kept
<1>7. Line(rows, Presented) /\ Line(backup.rows, Kept)
  BY <1>1, <1>4, <1>6, RowIs DEF Line, Reach
<1>8. Asked /\ Deletes /\ Later
  BY <1>1, Constants DEF Asked, Deletes, Later
<1>9. Copies
  BY <1>1, <1>3, <1>4, RowIs DEF Copies
<1>10. Newest
  <2>1. Logins = {1}
    BY <1>3 DEF Logins
  <2>2. Cardinality(Logins) = 1
    BY <2>1, FS_Singleton
  <2>. QED
    BY <1>1, <1>3, <2>2 DEF Newest
<1>11. Single
  BY <1>1, <1>3, <1>5 DEF Single, OneRow, Granted
<1>. QED
  BY <1>7, <1>8, <1>9, <1>10, <1>11 DEF Lines

LEMMA NextLines == IInv /\ Lines /\ [Next]_vars => Lines'
<1>. SUFFICES ASSUME IInv, Lines, [Next]_vars PROVE Lines'
  OBVIOUS
<1>1. \A t \in Token : rows'[t] = rows[t] => rows'[t] = NoRow \/ (rows[t] # NoRow /\ rows'[t].to = rows[t].to)
  OBVIOUS
<1>2. CASE Client /\ UNCHANGED maintenance
  <2>1. CASE Tick
    BY <1>1, <1>2, <2>1, IdleLines DEF Tick, database, client, maintenance
  <2>. QED
    BY <1>2, <2>1, ReceiveLines, AbandonLines, UnheardLines DEF Client
<1>3. CASE Served /\ UNCHANGED maintenance
  <2>1. CASE \E s \in Slot : Send(s) \/ Decide(s) \/ Grant(s) \/ GrantCommit(s)
    BY <1>3, <2>1, SendLines, DecideLines, GrantLines, GrantCommitLines
  <2>2. CASE \E s \in Slot : Look(s)
    BY <1>3, <2>2, LookLines
  <2>3. CASE Use \/ Remove \/ Cleanup \/ \E t \in logouts : LogoutRun(t)
    BY <1>3, <2>3, RowsGoLines
  <2>. QED
    BY <1>3, <2>1, <2>2, <2>3, LogoutLines, LoginLines DEF Served
<1>4. CASE Restoring
  <2>1. CASE Start \/ RotateEpochs \/ Ready \/ Dies
    BY <1>1, <2>1, IdleLines DEF Start, RotateEpochs, Ready, Dies, database, client
  <2>. QED
    BY <1>4, <2>1, TakeBackupLines, RestoreLines DEF Restoring
<1>5. CASE UNCHANGED vars
  BY <1>1, <1>5, IdleLines DEF vars, maintenance
<1>. QED
  BY <1>2, <1>3, <1>4, <1>5 DEF Next

\* Both invariants hold throughout.
THEOREM LinesHold == Spec => [](IInv /\ Lines)
BY InitHolds, NextKeeps, InitLines, NextLines, PTL DEF Spec

-----------------------------------------------------------------------------
(* What follows. *)

\* Of the tokens a device may come with one at most is current, however refreshes, repeats, sign-ins, grants and restores
\* overlap; and no other row is current unless two grants overlapped, in PostgreSQL after a restore and a late request.
THEOREM OneCurrentToken == Spec => []OneFamily
<1>1. IInv /\ Lines => OneFamily
  <2>. SUFFICES ASSUME IInv, Lines PROVE OneFamily
    OBVIOUS
  <2>1. \A t \in Current : IsCurrent(rows, t) /\ t \in Token
    BY DEF Current, Stored, IsCurrent
  <2>2. \A t, u \in Current \cap Presented : t = u
    <3>1. Presented \subseteq Reach(rows, Presented)
      BY DEF Presented, Reach
    <3>. QED
      BY <2>1, <3>1 DEF Lines, Line
  <2>3. ~Apart => \A t, u \in Current : t = u
    BY <2>1 DEF Lines, Single, OneRow
  <2>4. ASSUME NEW S, \A t, u \in S : t = u
        PROVE  Cardinality(S) <= 1
    <3>1. CASE S = {}
      BY <3>1, FS_EmptySet
    <3>2. CASE S # {}
      <4>1. PICK t : S = {t}
        BY <2>4, <3>2
      <4>. QED
        BY <4>1, FS_Singleton
    <3>. QED
      BY <3>1, <3>2
  <2>5. Cardinality(Current \cap Presented) <= 1
    BY <2>2, <2>4
  <2>6. ~Apart => Cardinality(Current) <= 1
    BY <2>3, <2>4
  <2>7. Cardinality(Current) <= 1 => ~(Cardinality(Current) > 1)
    <3>1. IsFiniteSet(Current)
      <4>1. ServerOK /\ TokensOK
        BY TypeParts DEF IInv
      <4>2. IsFiniteSet(Token)
        BY <4>1, TokenIs, FS_Interval
      <4>. QED
        BY <2>1, <4>2, FS_Subset
    <3>2. Cardinality(Current) \in Nat
      BY <3>1, FS_CardinalityType
    <3>. QED
      BY <3>2
  <2>. QED
    BY <2>5, <2>6, <2>7 DEF OneFamily, Apart
<1>. QED
  BY <1>1, LinesHold, PTL

\* A device that keeps to its duties is never taken for a thief.
THEOREM OwnersAreNoThieves == Spec => []NoFalseReuse
<1>1. IInv => NoFalseReuse
  BY DEF IInv
<1>. QED
  BY <1>1, Invariance, PTL

\* After a restore nobody is served with an epoch of the copy, whichever batch the start died behind.
THEOREM CopiesEpochsAreGone == Spec => []ServedRotated
<1>1. IInv => ServedRotated
  BY DEF IInv, Starting, ServedRotated
<1>. QED
  BY <1>1, Invariance, PTL

\* A sign-out that runs late ends no later sign-in.
THEOREM LateLogoutsAreHarmless == Spec => LateLogoutHarmless
<1>. DEFINE A == \A t \in logouts : LogoutRun(t) /\ device' # device => \A n \in Stored : issued[n].login <= issued[t].login
<1>1. IInv /\ Lines /\ [Next]_vars => A
  <2>. SUFFICES ASSUME Lines, NEW t \in logouts, LogoutRun(t), device' # device, NEW n \in Stored
                PROVE  issued[n].login <= issued[t].login
    OBVIOUS
  <2>1. t \in Stored
    BY DEF LogoutRun, SignsOut
  <2>. QED
    BY <2>1 DEF Lines, Later, Stored
<1>. QED
  BY <1>1, LinesHold, PTL DEF Spec, LateLogoutHarmless

\* Lost answers and repeats alone end no session: a 401 has one of the reasons of Excused.
THEOREM SessionsLast == Spec => StaysSignedIn
<1>. DEFINE Ends(s) == /\ mine = s
                       /\ requests[s].phase \notin {"free", "answered"}
                       /\ requests'[s].phase = "answered"
                       /\ requests'[s].token = 0
            A == ~mode.late => \A s \in Slot : Ends(s) => Excused(requests[s].token)
<1>1. IInv /\ [Next]_vars => A
  <2>. SUFFICES ASSUME IInv, [Next]_vars, ~mode.late, NEW s \in Slot, Ends(s)
                PROVE  Excused(requests[s].token)
    OBVIOUS
  <2>. DEFINE t == requests[s].token
  <2>1. ServerOK /\ TokensOK /\ ClientOK /\ Waiting /\ Known /\ Starting
    BY TypeParts DEF IInv, Duty
  <2>2. requests[s].phase \in {"sent", "found", "unknown", "granted"}
    BY <2>1, RequestIs DEF ClientOK
  <2>3. t = held /\ held # 0 /\ held \in Token /\ \A r \in Slot : r # s => requests[r].phase = "free"
    BY <2>1, <2>2, Constants DEF Waiting, ClientOK, Free
  <2>4. now \in Nat /\ issued[held].exp \in Nat /\ rotatedAt \in Nat /\ graceUntil \in Nat /\ MaxToken \in Nat
        /\ NewToken # 0
    BY <2>1, <2>3, TokenIs, NowIs, ModeIs DEF ClientOK, ServerOK, NewToken
  <2>5. requests \in [Slot -> Request] /\ Free.phase = "free"
    BY <2>1 DEF ClientOK, Free
  <2>6. process = Up /\ (Look(s) \/ Decide(s) \/ Grant(s) \/ GrantCommit(s))
    <3>1. CASE Client
      BY <2>2, <2>3, <2>5, <3>1 DEF Client, Receive, Abandon, Unheard, Tick
    <3>2. CASE process = Up /\ Served
      BY <2>2, <2>3, <2>5, <3>2, Constants DEF Served, Send, Logout, LogoutRun, Use, Login, Remove, Cleanup,
        Look, Decide, Grant, GrantCommit
    <3>3. CASE Restoring
      BY <2>2, <2>5, <3>3 DEF Restoring, TakeBackup, Restore, Start, RotateEpochs, Ready, Dies
    <3>4. CASE UNCHANGED vars
      BY <2>2, <3>4 DEF vars
    <3>. QED
      BY <3>1, <3>2, <3>3, <3>4 DEF Next
  <2>7. rows[held] = NoRow =>
          Excused(held) \/ (device = issued[held].did /\ rotatedAt = 0 /\ graceUntil # 0)
    BY <2>1, <2>3, <2>4, <2>6, Constants DEF Known, Forgotten, Restored, Excused, NoFalseReuse, IInv
  <2>8. CASE Look(s)
    BY <2>3, <2>4, <2>5, <2>8 DEF Look, Excused
  <2>9. CASE Decide(s)
    <3>1. requests[s].phase = "found" /\ Open(s) /\ (IF Wins(s, t) THEN Rotate(s, t) ELSE Repeat(s, t))
      BY <2>9 DEF Decide, Open
    <3>2. ~Wins(s, t)
      BY <2>4, <2>5, <3>1 DEF Rotate, Answer
    <3>3. ~(t \in Stored /\ rows[t].to # 0 /\ rows[t].grace > now)
      <4>1. SUFFICES ASSUME t \in Stored, rows[t].to # 0, rows[t].grace > now
                     PROVE  FALSE
        OBVIOUS
      <4>2. UnusedCurrent(rows[t].to)
        BY <3>1, <4>1, RepeatedUnused
      <4>3. Answer(s, rows[t].to)
        BY <3>1, <3>2, <4>1, <4>2 DEF Repeat
      <4>. QED
        BY <2>5, <4>1, <4>3 DEF Answer
    <3>4. CASE rows[held] # NoRow
      <4>1. t \in Stored
        BY <2>3, <3>4 DEF Stored
      <4>2. rows[t].to # 0
        BY <2>3, <3>1, <3>2, <3>4, <4>1 DEF Wins, IInv, Transactions
      <4>3. rows[held].grace \in Int
        <5>1. \A r \in TokenRow : r.grace \in Int
          BY Constants DEF TokenRow
        <5>. QED
          BY <2>1, <2>3, <5>1, TokenIs
      <4>4. rotatedAt # 0 /\ rotatedAt + Grace <= rows[held].grace
        BY <2>1, <2>3, <4>2 DEF Known, Successor
      <4>. QED
        BY <2>3, <2>4, <3>3, <4>1, <4>2, <4>3, <4>4, Constants DEF Excused
    <3>5. CASE rows[held] = NoRow
      BY <2>1, <2>3, <2>4, <3>1, <3>5, Constants DEF Known, Forgotten, Excused, NoFalseReuse, IInv
    <3>. QED
      BY <3>4, <3>5
  <2>10. CASE Grant(s)
    <3>1. rows[held] = NoRow
      BY <2>3, <2>10 DEF Grant, IInv, Transactions
    <3>2. ~(now < graceUntil /\ device = issued[held].did)
      BY <2>3, <2>5, <2>10 DEF Grant
    <3>. QED
      BY <2>3, <2>4, <2>7, <3>1, <3>2 DEF Excused
  <2>11. CASE GrantCommit(s)
    BY <2>4, <2>5, <2>11 DEF GrantCommit, Answer
  <2>. QED
    BY <2>6, <2>8, <2>9, <2>10, <2>11
<1>. QED
  BY <1>1, Invariance, PTL DEF Spec, StaysSignedIn

=============================================================================
