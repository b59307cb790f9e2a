-------------------------------- MODULE Refresh --------------------------------
(***************************************************************************)
(* The refresh tokens of one device (src/modules/auth/refresh.service.ts): *)
(* rotation by compare-and-set, the grace window of a lost answer, reuse,  *)
(* logout, the cleanup of old rows, and the window after a restore.        *)
(*                                                                         *)
(* A token is signed, so what it says (its device, its expiry) outlives    *)
(* its row.  Requests of the device carry its own hwid and genuine tokens. *)
(* revoked_at is never set by the code and is left out.                    *)
(***************************************************************************)
EXTENDS Integers, FiniteSets, Sequences

CONSTANTS
  Deployments,  \* overlap: PostgreSQL, whose transactions overlap (read committed), or SQLite, one at a time;
                \* late: a request its device gave up on may still reach the server;
                \* restores: a copy is restored, the server's own or the operator's dump, which carries the flag;
                \* tokens, time, copied: bounds, tokens ever issued, the clock, and tokens issued before the last copy
  Grace,        \* REFRESH_GRACE_SECONDS
  Ttl,          \* REFRESH_TOKEN_TTL_DAYS
  RestoreGrace, \* RESTORE_REFRESH_GRACE_DAYS
  Slot,         \* bound: requests under way at a time
  Heads,        \* sync_heads: how many users there are
  EpochBatch,   \* EPOCH_ROTATION_BATCH
  MaxTime       \* bound: the clock in all of them

ASSUME ModeAssumption ==
  Deployments \subseteq [overlap : BOOLEAN, late : BOOLEAN, restores : BOOLEAN, tokens : Nat \ {0}, time : 1 .. MaxTime, copied : Nat]
ASSUME SlotAssumption == 0 \notin Slot
\* The grace is a week at most, a token lives a week at least (the bounds of both in config/env.ts).
ASSUME TimesAssumption ==
  /\ Grace \in Nat /\ Ttl \in Nat /\ RestoreGrace \in Nat /\ Grace <= Ttl
  /\ MaxTime \in Nat \ {0} /\ Heads \in Nat /\ EpochBatch \in Nat \ {0}

VARIABLES
  mode,       \* the deployment
  process,    \* the server: up, down, or starting on a restored database
  pending,    \* restore_pending
  stale,      \* the users whose epoch is still that of the copy
  now,        \* the clock of the server
  issued,     \* every token ever signed: its device, expiry and login
  rows,       \* refresh_tokens: the stored rows, by token
  device,     \* the device row of this hwid, 0 when there is none
  removedBy,  \* why the last device row went
  graceUntil, \* restore_refresh_grace_until, 0 when not set
  backup,     \* the rows of the last copy
  requests,   \* refresh requests under way
  logouts,    \* tokens of logout requests under way
  mine,       \* the request the device waits for, 0 for none
  held,       \* the refresh token the device stores, 0 when signed out
  access,     \* the `rid` of its access token
  rotatedAt   \* when the server first answered for the held token as one it knows, 0: never

maintenance == <<mode, process, pending, stale>>
vars == <<maintenance, now, issued, rows, device, removedBy, graceUntil, backup, requests, logouts,
          mine, held, access, rotatedAt>>
database == <<issued, rows, device, removedBy>>
client == <<mine, held, access, rotatedAt>>

MaxToken == mode.tokens
Token == DOMAIN issued
NoRow == [to |-> 0, grace |-> -1, confirmed |-> FALSE]
Fresh == [to |-> 0, grace |-> 0, confirmed |-> FALSE]
Stored == {t \in Token : rows[t] # NoRow}
Devices == {issued[t].did : t \in Token}
Logins == {issued[t].login : t \in Token}

Free == [phase |-> "free"]
Answer(s, token) == requests' = [requests EXCEPT ![s] = [phase |-> "answered", token |-> token]]
Fail(s) == Answer(s, 0)

\* A signed token for a device and its row.
Sign(did, login) == [did |-> did, exp |-> now + Ttl, login |-> login]
NewToken == Len(issued) + 1
CanIssue == NewToken <= MaxToken

Up == [phase |-> "up"]
Down == [phase |-> "down"]

Init ==
  /\ mode \in Deployments
  /\ process = Up
  /\ pending = FALSE
  /\ stale = {}
  /\ now = 1
  /\ issued = <<[did |-> 1, exp |-> 1 + Ttl, login |-> 1]>>
  /\ rows = [t \in 1 .. MaxToken |-> IF t = 1 THEN Fresh ELSE NoRow]
  /\ device = 1
  /\ removedBy = "nobody"
  /\ graceUntil = 0
  /\ backup = [rows |-> rows, device |-> device]
  /\ requests = [s \in Slot |-> Free]
  /\ logouts = {}
  /\ mine = 0
  /\ held = 1
  /\ access = 1
  /\ rotatedAt = 0

-----------------------------------------------------------------------------
(***************************************************************************)
(* POST /auth/refresh.                                                     *)
(***************************************************************************)

\* Removing the device removes its tokens (ON DELETE CASCADE).
RemoveDevice(reason) ==
  /\ device' = 0
  /\ removedBy' = reason
  /\ rows' = [t \in 1 .. MaxToken |-> NoRow]

\* SQLite has one connection: nothing runs beside a transaction that has begun.
Alone == mode.overlap \/ \A s \in Slot : requests[s].phase \notin {"found", "unknown", "granted"}

\* The transaction begins: the expiry is the token's own, the row is looked up by its id.
Look(s) ==
  LET t == requests[s].token
  IN /\ requests[s].phase = "sent"
     /\ IF issued[t].exp <= now
          THEN Fail(s)
          ELSE requests' = [requests EXCEPT ![s] =
                 [phase |-> IF t \in Stored THEN "found" ELSE "unknown", token |-> t,
                  current |-> t \in Stored /\ rows[t].to = 0]]
     /\ UNCHANGED <<now, database, graceUntil, backup, logouts, client>>

\* Rows deleted by a transaction that has not committed are locked.
Locked == UNION {requests[s].doomed : s \in {r \in Slot : requests[r].phase = "granted"}}

\* The compare-and-set of markRotated won; issueSession stores the successor.
Rotate(s, t) ==
  /\ CanIssue
  /\ issued' = Append(issued, Sign(device, issued[t].login))
  /\ rows' = [rows EXCEPT ![t] = [@ EXCEPT !.to = NewToken, !.grace = now + Grace],
                          ![NewToken] = Fresh]
  /\ Answer(s, NewToken)
  /\ UNCHANGED <<device, removedBy>>

UnusedCurrent(t) ==
  t \in Stored /\ rows[t].to = 0 /\ ~rows[t].confirmed /\ issued[t].exp > now

\* Variant: every repeat in the window is a reuse.
RepeatIsReuse(s, t) ==
  IF t \in Stored /\ rows[t].to # 0 /\ rows[t].grace > now
    THEN RemoveDevice("reuse") /\ Fail(s) /\ UNCHANGED issued
    ELSE Fail(s) /\ UNCHANGED database

\* A rotated token in its window: the same successor while nobody used it, otherwise reuse.
Repeat(s, t) ==
  IF t \in Stored /\ rows[t].to # 0 /\ rows[t].grace > now
    THEN IF UnusedCurrent(rows[t].to)
           THEN Answer(s, rows[t].to) /\ UNCHANGED database
           ELSE RemoveDevice("reuse") /\ Fail(s) /\ UNCHANGED issued
    ELSE Fail(s) /\ UNCHANGED database

\* When the server first answers for the held token.
Noted(s) ==
  rotatedAt' = IF requests[s].token = held /\ rotatedAt = 0 /\ requests'[s].token # 0
                 THEN now ELSE rotatedAt

\* Variant: the update asks for the row, not for its rotation.
WinsAsSeen(s, t) == requests[s].current /\ t \in Stored

\* The row the transaction saw may have changed since: the compare-and-set decides.
Wins(s, t) == requests[s].current /\ t \in Stored /\ rows[t].to = 0

Decide(s) ==
  LET t == requests[s].token
  IN /\ requests[s].phase = "found"
     /\ t \notin Locked
     /\ IF Wins(s, t) THEN Rotate(s, t) ELSE Repeat(s, t)
     /\ Noted(s)
     /\ UNCHANGED <<now, graceUntil, backup, logouts, mine, held, access>>

\* restoreGrace: in the window the token of an existing device starts a new family; the
\* device's rows it can see are deleted first.
Grant(s) ==
  LET t == requests[s].token
  IN /\ requests[s].phase = "unknown"
     /\ IF now < graceUntil /\ device = issued[t].did
          THEN requests' = [requests EXCEPT ![s] =
                 [phase |-> "granted", token |-> t, doomed |-> Stored]]
          ELSE Fail(s)
     /\ UNCHANGED <<now, database, graceUntil, backup, logouts, client>>

\* The rows a new family leaves.
Survives(s, t) == t \in Stored \ requests[s].doomed

\* The family commits; without the device the insert fails and the request with it.
GrantCommit(s) ==
  LET t == requests[s].token
  IN /\ requests[s].phase = "granted"
     /\ IF device = issued[t].did
          THEN /\ CanIssue
               /\ issued' = Append(issued, Sign(device, issued[t].login))
               /\ rows' = [r \in 1 .. MaxToken |->
                    IF r = NewToken THEN Fresh ELSE IF Survives(s, r) THEN rows[r] ELSE NoRow]
               /\ Answer(s, NewToken)
          ELSE /\ requests' = [requests EXCEPT ![s] = Free]
               /\ UNCHANGED <<issued, rows>>
     /\ mine' = IF mine = s /\ device # issued[t].did THEN 0 ELSE mine
     /\ UNCHANGED <<now, device, removedBy, graceUntil, backup, logouts, held, access, rotatedAt>>

-----------------------------------------------------------------------------
(***************************************************************************)
(* The device: one refresh at a time, and the new token is stored before   *)
(* its access token is used (DESIGN 4.4).                                  *)
(***************************************************************************)

Send(s) ==
  /\ held # 0
  /\ mine = 0
  /\ requests[s] = Free
  /\ requests' = [requests EXCEPT ![s] = [phase |-> "sent", token |-> held]]
  /\ mine' = s
  /\ UNCHANGED <<now, database, graceUntil, backup, logouts, held, access, rotatedAt>>

\* A 401 of refresh is the end of the session.
Receive(s) ==
  /\ mine = s
  /\ requests[s].phase = "answered"
  /\ held' = requests[s].token
  /\ access' = requests[s].token
  /\ rotatedAt' = 0
  /\ mine' = 0
  /\ requests' = [requests EXCEPT ![s] = Free]
  /\ UNCHANGED <<now, database, graceUntil, backup, logouts>>

\* The request is lost on its way, or its answer, or it is merely late.
Abandon(s) ==
  /\ mine = s
  /\ \/ /\ requests[s].phase \in {"sent", "answered"}
        /\ requests' = [requests EXCEPT ![s] = Free]
     \/ mode.late /\ UNCHANGED requests
  /\ mine' = 0
  /\ UNCHANGED <<now, database, graceUntil, backup, logouts, held, access, rotatedAt>>

\* Nobody hears the answer of a request its device gave up on.
Unheard(s) ==
  /\ mine # s
  /\ requests[s].phase = "answered"
  /\ requests' = [requests EXCEPT ![s] = Free]
  /\ UNCHANGED <<now, database, graceUntil, backup, logouts, client>>

\* A request with the access token: the guard confirms its `rid`.
Use ==
  /\ access # 0
  /\ device = issued[access].did
  /\ access \in Stored
  /\ rows' = [rows EXCEPT ![access].confirmed = TRUE]
  /\ UNCHANGED <<now, issued, device, removedBy, graceUntil, backup, requests, logouts, client>>

-----------------------------------------------------------------------------
(***************************************************************************)
(* Sign-in, sign-out, removal.                                             *)
(***************************************************************************)

\* A known hwid keeps its device row and loses its tokens; the answer may be lost.  (A delete
\* that waits for a locked row misses what is inserted meanwhile, as if it had run first.)
Login ==
  /\ held = 0
  /\ CanIssue
  /\ LET did == IF device # 0 THEN device ELSE Cardinality(Devices) + 1
     IN /\ device' = did
        /\ issued' = Append(issued, Sign(did, Cardinality(Logins) + 1))
  /\ rows' = [t \in 1 .. MaxToken |-> IF t = NewToken THEN Fresh ELSE NoRow]
  /\ held' \in {0, NewToken}
  /\ access' = held'
  /\ rotatedAt' = 0
  /\ UNCHANGED <<now, removedBy, graceUntil, backup, requests, logouts, mine>>

\* The user signs out: the device forgets its tokens whatever becomes of the request.
Logout ==
  /\ held # 0
  /\ mine = 0
  /\ logouts' = logouts \cup {held}
  /\ held' = 0
  /\ access' = 0
  /\ rotatedAt' = 0
  /\ UNCHANGED <<now, database, graceUntil, backup, requests, mine>>

\* Variant: the signed token is enough.
SignsOutBySignature(t) == device = issued[t].did

\* A current token, or one in its window, signs its device out; an old one nobody.
SignsOut(t) == t \in Stored /\ (rows[t].to = 0 \/ rows[t].grace > now)

LogoutRun(t) ==
  /\ t \in logouts
  /\ logouts' = logouts \ {t}
  /\ IF SignsOut(t) THEN RemoveDevice("logout") ELSE UNCHANGED <<rows, device, removedBy>>
  /\ UNCHANGED <<now, issued, graceUntil, backup, requests, client>>

\* Another device of the user, a new password or the inactivity job removes the device.
Remove ==
  /\ device # 0
  /\ RemoveDevice("user")
  /\ UNCHANGED <<now, issued, graceUntil, backup, requests, logouts, client>>

-----------------------------------------------------------------------------
(***************************************************************************)
(* Cleanup, backup, restore, time.                                         *)
(***************************************************************************)

\* deleteStaleRefreshTokens: a unit of time after the window or the expiry is over.
Stale(t) == issued[t].exp < now \/ (rows[t].to # 0 /\ rows[t].grace < now)

Cleanup ==
  /\ \E t \in Stored : Stale(t)
  /\ rows' = [t \in 1 .. MaxToken |-> IF t \in Stored /\ ~Stale(t) THEN rows[t] ELSE NoRow]
  /\ UNCHANGED <<now, issued, device, removedBy, graceUntil, backup, requests, logouts, client>>

\* The copy carries restore_pending.
TakeBackup ==
  /\ mode.restores /\ Len(issued) <= mode.copied
  /\ backup' = [rows |-> rows, device |-> device]
  /\ UNCHANGED <<maintenance, now, database, graceUntil, requests, logouts, client>>

\* The server stops and the copy takes the place of the database.
Restore ==
  /\ mode.restores
  /\ rows' = backup.rows
  /\ device' = backup.device
  /\ removedBy' = IF backup.device # device THEN "restore" ELSE removedBy
  /\ graceUntil' = 0
  /\ process' = Down /\ pending' = TRUE /\ stale' = 1 .. Heads
  /\ requests' = [s \in Slot |-> IF requests[s].phase = "answered" THEN requests[s] ELSE Free]
  /\ mine' = IF mine # 0 /\ requests[mine].phase = "answered" THEN mine ELSE 0
  /\ logouts' = {}
  /\ rotatedAt' = IF held # 0 /\ backup.rows[held].to # 0 THEN rotatedAt ELSE 0
  /\ UNCHANGED <<mode, now, issued, backup, held, access>>

\* Variant: the flag goes when the work begins.
StartClears ==
  /\ process = Down
  /\ process' = IF pending THEN [phase |-> "rotate", at |-> now, after |-> 0] ELSE Up
  /\ pending' = FALSE
  /\ UNCHANGED <<mode, stale, now, database, graceUntil, backup, requests, logouts, client>>

\* The restore command, or a start of the server, finds the flag.
Start ==
  /\ process = Down
  /\ process' = IF pending THEN [phase |-> "rotate", at |-> now, after |-> 0] ELSE Up
  /\ UNCHANGED <<mode, pending, stale, now, database, graceUntil, backup, requests, logouts, client>>

\* One transaction gives the next users new epochs; a page that is not full is the last.
RotateEpochs ==
  /\ process.phase = "rotate"
  /\ LET page == {h \in 1 .. Heads : h > process.after /\ h <= process.after + EpochBatch}
     IN /\ stale' = stale \ page
        /\ process' = IF Cardinality(page) < EpochBatch
                        THEN [phase |-> "open", at |-> process.at]
                        ELSE [process EXCEPT !.after = @ + EpochBatch]
  /\ UNCHANGED <<mode, pending, now, database, graceUntil, backup, requests, logouts, client>>

\* Variant: the window is not opened.
KeepShut == graceUntil' = graceUntil

\* The window counts from the start.
OpenWindow == graceUntil' = process.at + RestoreGrace

\* The last transaction opens the window and clears the flag.
Ready ==
  /\ process.phase = "open"
  /\ OpenWindow
  /\ pending' = FALSE
  /\ process' = Up
  /\ UNCHANGED <<mode, stale, now, database, backup, requests, logouts, client>>

\* The process dies before it serves.
Dies ==
  /\ process.phase \in {"rotate", "open"}
  /\ process' = Down
  /\ UNCHANGED <<mode, pending, stale, now, database, graceUntil, backup, requests, logouts, client>>

Tick ==
  /\ now < mode.time
  /\ now' = now + 1
  /\ UNCHANGED <<database, graceUntil, backup, requests, logouts, client>>

Client ==
  \/ \E s \in Slot : Receive(s) \/ Abandon(s) \/ Unheard(s)
  \/ Tick

Served ==
  \/ \E s \in Slot : Send(s) \/ Decide(s) \/ Grant(s) \/ GrantCommit(s)
  \/ Logout
  \/ /\ Alone
     /\ \/ \E s \in Slot : Look(s)
        \/ \E t \in logouts : LogoutRun(t)
        \/ Use \/ Login \/ Remove \/ Cleanup

Restoring ==
  \/ process = Up /\ (TakeBackup \/ Restore)
  \/ Start \/ RotateEpochs \/ Ready \/ Dies

Next ==
  \/ Client /\ UNCHANGED maintenance
  \/ process = Up /\ Served /\ UNCHANGED maintenance
  \/ Restoring

Spec == Init /\ [][Next]_vars

-----------------------------------------------------------------------------
(***************************************************************************)
(* Properties                                                              *)
(***************************************************************************)

TokenRow == [to : 0 .. MaxToken, grace : -1 .. MaxTime + Grace, confirmed : BOOLEAN]
Request ==
  {Free}
  \cup [phase : {"sent"}, token : Token]
  \cup [phase : {"answered"}, token : Token \cup {0}]
  \cup [phase : {"found", "unknown"}, token : Token, current : BOOLEAN]
  \cup [phase : {"granted"}, token : Token, doomed : SUBSET Token]

\* Tokens, rows, requests and what the device stores have their types; rows point to tokens.
TypeOK ==
  /\ mode \in Deployments
  /\ process \in {Up, Down} \cup [phase : {"rotate"}, at : 1 .. MaxTime, after : Nat] \cup [phase : {"open"}, at : 1 .. MaxTime]
  /\ pending \in BOOLEAN /\ stale \subseteq 1 .. Heads
  /\ now \in 1 .. MaxTime
  /\ issued \in Seq([did : Nat \ {0}, exp : Nat, login : Nat \ {0}]) /\ Len(issued) \in 1 .. MaxToken
  /\ backup \in [rows : [1 .. MaxToken -> TokenRow], device : Devices \cup {0}]
  /\ rows \in [1 .. MaxToken -> TokenRow]
  /\ \A R \in {rows, backup.rows} : \A t \in 1 .. MaxToken : R[t] # NoRow => t \in Token /\ R[t].to \in Token \cup {0}
  /\ device \in Devices \cup {0}
  /\ removedBy \in {"nobody", "user", "logout", "reuse", "restore"}
  /\ graceUntil \in Nat
  /\ requests \in [Slot -> Request]
  /\ logouts \subseteq Token
  /\ mine \in Slot \cup {0}
  /\ {held, access} \subseteq Token \cup {0}
  /\ rotatedAt \in 0 .. now

Current == {t \in Stored : rows[t].to = 0}
\* The tokens the device may still come with: the stored one, those of requests under way, and the answer it waits for.
Presented ==
  ({held} \cup {requests[s].token : s \in {r \in Slot : requests[r].phase \in {"sent", "found", "unknown", "granted"}}}
          \cup {requests[s].token : s \in {r \in Slot : r = mine /\ requests[r].phase = "answered"}}) \ {0}

\* A device has one current token: whatever refreshes, repeats, sign-ins and grants overlap, one rotation wins and a new
\* family replaces the old one.  Two grants that overlap do not see each other's rows: only there, in PostgreSQL after
\* a restore and with a late request, may current rows remain that nobody can come with.
OneFamily ==
  /\ Cardinality(Current \cap Presented) <= 1
  /\ Cardinality(Current) > 1 => mode.overlap /\ mode.late /\ mode.restores

\* A device that keeps to its duties (DESIGN 4.4), one refresh at a time and the new token
\* stored before its first use, is never taken for a thief, whatever answers are lost.
NoFalseReuse == removedBy = "reuse" => mode.late

\* When the device's session may end with a 401: its token expired, somebody removed it, it
\* stayed away for the whole window after a lost answer, or until the window of a restore was over.
Excused(t) ==
  \/ issued[t].exp <= now
  \/ device # issued[t].did /\ removedBy # "reuse"
  \/ rotatedAt # 0 /\ now >= rotatedAt + Grace
  \/ rotatedAt = 0 /\ graceUntil # 0 /\ now >= graceUntil

\* Lost answers and repeats alone never end a session: the session ends only with a 401 of
\* refresh (DESIGN.md:867), and a lost answer is covered for the whole window.
StaysSignedIn ==
  [][~mode.late => \A s \in Slot :
       /\ mine = s
       /\ requests[s].phase \notin {"free", "answered"}
       /\ requests'[s].phase = "answered"
       /\ requests'[s].token = 0
       => Excused(requests[s].token)]_vars

\* Once a copy was restored the server serves nobody with an epoch of the copy, whichever batch the start
\* died behind (DESIGN 3.15): every old cursor is refused.
ServedRotated == process = Up => stale = {}

\* A sign-out that runs late never ends a later sign-in of the same device (M4).
LateLogoutHarmless ==
  [][\A t \in logouts :
       LogoutRun(t) /\ device' # device => \A n \in Stored : issued[n].login <= issued[t].login]_vars
=============================================================================
