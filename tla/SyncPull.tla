------------------------------ MODULE SyncPull ------------------------------
(***************************************************************************)
(* What POST /sync promises a device that reads: the rows of one user, the *)
(* head that numbers their versions, and the devices that follow the rows  *)
(* with a cursor (src/db/heads.ts, modules/sync/cursor.ts, page.ts and the *)
(* read transaction of sync.service.ts).                                   *)
(*                                                                         *)
(* A row is abstracted to the seq of its last write (0: no row); a write   *)
(* transaction is abstracted to the set of rows it wrote.  SyncOps         *)
(* implements this module with the real op runner.                         *)
(***************************************************************************)
EXTENDS Integers, FiniteSets

CONSTANTS
  Client,      \* devices of the user
  Key,         \* rows of every table: <<table, primary key>>
  Table,       \* the tables of both streams
  TableOf,     \* Key -> Table
  Library,     \* the tables of the `library` stream; the others are `history`
  Removable,   \* rows the code deletes physically (playlist items, play events); the others keep a tombstone
  Streams,     \* the sets of streams devices ask for
  MaxSeq,      \* bound: the last seq a behaviour hands out
  MaxBatch,    \* bound: seqs spent by one write transaction
  MaxLimit,    \* bound: the largest page size a device asks for
  MaxEpoch     \* bound: epochs a behaviour uses

ASSUME KeyAssumption ==
  /\ IsFiniteSet(Key)
  /\ TableOf \in [Key -> Table]
  /\ Library \subseteq Table
  /\ Removable \subseteq Key
ASSUME BoundAssumption ==
  /\ MaxSeq \in Nat
  /\ MaxBatch \in Nat
  /\ MaxLimit \in Nat
  /\ MaxEpoch \in Nat
ASSUME StreamAssumption == Streams \subseteq {{"library"}, {"history"}, {"library", "history"}}

VARIABLES
  epoch,       \* sync_heads.epoch (a fresh number stands for 8 random hex characters)
  seq,         \* sync_heads.seq
  row,         \* row[k]: the seq column of the stored row, 0 when there is none
  backup,      \* the last copy of the database; epoch 0: none was made
  unpublished, \* authors of committed writes whose sync.changed is still to come
  req,         \* the request each device waits for, as far as the server got
  resp,        \* the response of an answered request
  cur,         \* the device's cursor; epoch 0 stands for ""
  copy,        \* copy[c][k]: the version of row k the device holds
  want,        \* the device has a reason to pull
  orphans,     \* devices with an abandoned request the server is still working on
  late         \* devices whose abandoned request committed after their last pull began

db == <<epoch, seq, row>>
device == <<req, resp, cur, copy, want>>
vars == <<epoch, seq, row, backup, unpublished, req, resp, cur, copy, want, orphans, late>>

Nothing == [k \in Key |-> 0]
Start == [epoch |-> 0, lib |-> 0, hist |-> 0]
Both == {"library", "history"}
History == Table \ Library
Keys(tables) == {k \in Key : TableOf[k] \in tables}

Cursor == [epoch : Nat, lib : Nat, hist : Nat]
Request == [phase : {"idle", "sent", "written", "answered", "gone"}, limit : Nat, streams : {Both} \cup Streams]
Response == [cursor : Cursor, got : [Key -> Nat], more : BOOLEAN]

Idle == [phase |-> "idle", limit |-> 1, streams |-> Both]
NoResponse == [cursor |-> Start, got |-> Nothing, more |-> FALSE]

Init ==
  /\ epoch = 1
  /\ seq = 0
  /\ row = Nothing
  /\ backup = [epoch |-> 0, seq |-> 0, row |-> Nothing]
  /\ unpublished = {}
  /\ req = [c \in Client |-> Idle]
  /\ resp = [c \in Client |-> NoResponse]
  /\ cur = [c \in Client |-> Start]
  /\ copy = [c \in Client |-> Nothing]
  /\ want = [c \in Client |-> TRUE]
  /\ orphans = {}
  /\ late = {}

-----------------------------------------------------------------------------
(***************************************************************************)
(* The page: page.ts readStream and readPage.                              *)
(***************************************************************************)

\* SELECT ... ORDER BY seq LIMIT n: page holds the n rows with the smallest seq.
IsFirst(page, rows, n) ==
  /\ page \subseteq rows
  /\ Cardinality(page) = IF Cardinality(rows) < n THEN Cardinality(rows) ELSE n
  /\ \A k \in page, j \in rows \ page : row[k] <= row[j]

\* Rows of some tables a reader at `after` has not seen: after < seq <= head.
Unseen(tables, after) == {k \in Keys(tables) : after < row[k] /\ row[k] <= seq}

\* Every table of the stream gives its first n unseen rows.
TableReads(tables, after, n) ==
  {read \in SUBSET Unseen(tables, after) :
     \A t \in tables : IsFirst(read \cap Keys({t}), Unseen({t}, after), n)}

\* Where the cursor part moves: the head when the stream is exhausted, else the last row taken.
Ends(taken, exhausted) ==
  IF exhausted \/ taken = {}
    THEN {seq}
    ELSE {row[k] : k \in {last \in taken : \A j \in taken : row[j] <= row[last]}}

StreamPage(taken, end, exhausted) == [taken |-> taken, end |-> end, exhausted |-> exhausted]

\* Of all the rows the tables gave, the first `budget` are the page.
Cut(read, budget) ==
  LET exhausted == Cardinality(read) <= budget
  IN UNION {{StreamPage(taken, end, exhausted) : end \in Ends(taken, exhausted)} :
            taken \in {page \in SUBSET read : IsFirst(page, read, budget)}}

\* Variant: every table gives `budget` rows, so a longer table looks exhausted.
StreamReadsNoLookahead(tables, after, budget) ==
  IF after >= seq THEN {StreamPage({}, seq, TRUE)}
  ELSE IF budget <= 0 THEN {StreamPage({}, after, FALSE)}
  ELSE UNION {Cut(read, budget) : read \in TableReads(tables, after, budget)}

\* Variant: a stream that got no budget counts as exhausted.
StreamReadsNoBudgetDone(tables, after, budget) ==
  IF after >= seq THEN {StreamPage({}, seq, TRUE)}
  ELSE IF budget <= 0 THEN {StreamPage({}, after, TRUE)}
  ELSE UNION {Cut(read, budget) : read \in TableReads(tables, after, budget + 1)}

\* readStream: every table is asked for one row more than the budget.
StreamReads(tables, after, budget) ==
  IF after >= seq THEN {StreamPage({}, seq, TRUE)}
  ELSE IF budget <= 0 THEN {StreamPage({}, after, FALSE)}
  ELSE UNION {Cut(read, budget) : read \in TableReads(tables, after, budget + 1)}

\* A stream that was not requested keeps its cursor part and says nothing about more.
Skipped(after) == {StreamPage({}, after, TRUE)}

\* parseCursor: another epoch, or a part beyond the head.
Invalid(cursor) ==
  /\ cursor # Start
  /\ cursor.epoch # epoch \/ cursor.lib > seq \/ cursor.hist > seq

-----------------------------------------------------------------------------
(***************************************************************************)
(* Write transactions.                                                     *)
(***************************************************************************)

\* The rows a transaction may leave: written ones carry its seqs, removed ones none.
Rows(top) ==
  {r \in [Key -> 0 .. top] :
     \A k \in Key : r[k] = row[k] \/ r[k] > seq \/ (r[k] = 0 /\ k \in Removable)}

\* applyOps under lockUser: the transaction writes rows with seqs of their own, removes
\* rows, and moves the head by bumpHead.  The journal and rows written twice use seqs
\* too, so the head may move further than the rows.  Every transaction that spent a
\* seq owes the other devices a sync.changed.
Commit(author) ==
  \E top \in seq .. MaxSeq :
    /\ top <= seq + MaxBatch
    /\ seq' = top
    /\ row' \in Rows(top)
    /\ \A j, k \in Key : row'[j] = row'[k] /\ row'[j] > seq => j = k
    /\ unpublished' = IF top = seq THEN unpublished ELSE unpublished \cup {author}

\* The write transaction of the request the device waits for; without ops there is none.
DeviceCommit(c) ==
  /\ req[c].phase = "sent"
  /\ ~Invalid(cur[c])
  /\ Commit(c)
  /\ req' = [req EXCEPT ![c].phase = "written"]
  /\ UNCHANGED <<epoch, backup, resp, cur, copy, want, orphans, late>>

\* The write transaction of a request the device gave up on: the server runs it to its end.
LateCommit(c) ==
  /\ c \in orphans
  /\ Commit(c)
  /\ orphans' \in {orphans, orphans \ {c}}
  /\ late' = IF seq' = seq THEN late ELSE late \cup {c}
  /\ UNCHANGED <<epoch, backup, device>>

\* Retention deletes rows without the lock, a seq or an event: it is no deletion for clients.
Retain(gone) ==
  /\ row' = [k \in Key |-> IF k \in gone THEN 0 ELSE row[k]]
  /\ UNCHANGED <<epoch, seq, backup, unpublished, device, orphans, late>>

\* publishCoalesced after the commit: every device but the author hears of it.
Publish(author) ==
  /\ author \in unpublished
  /\ unpublished' = unpublished \ {author}
  /\ want' = [c \in Client |-> want[c] \/ c # author]
  /\ UNCHANGED <<db, backup, req, resp, cur, copy, orphans, late>>

-----------------------------------------------------------------------------
(***************************************************************************)
(* A device: one request at a time.                                        *)
(***************************************************************************)

\* The user acts, the application comes to the foreground, the network returns, a timer fires.
Wake(c) ==
  /\ ~want[c]
  /\ want' = [want EXCEPT ![c] = TRUE]
  /\ UNCHANGED <<db, backup, unpublished, req, resp, cur, copy, orphans, late>>

Send(c, limit, streams) ==
  /\ req[c].phase = "idle"
  /\ want[c]
  /\ req' = [req EXCEPT ![c] = [phase |-> "sent", limit |-> limit, streams |-> streams]]
  \* a pull of one stream leaves the other to the next pull
  /\ want' = [want EXCEPT ![c] = streams # Both]
  /\ late' = late \ {c}
  /\ UNCHANGED <<db, backup, unpublished, resp, cur, copy, orphans>>

LibraryReads(c) ==
  IF "library" \in req[c].streams
    THEN StreamReads(Library, cur[c].lib, req[c].limit)
    ELSE Skipped(cur[c].lib)

\* The history stream gets what the library left of the page.
HistoryReads(c, lib) ==
  IF "history" \in req[c].streams
    THEN StreamReads(History, cur[c].hist, req[c].limit - Cardinality(lib.taken))
    ELSE Skipped(cur[c].hist)

\* The rows of one response by key, each its full current image.
ResponseRows(keys) == [k \in Key |-> IF k \in keys THEN row[k] ELSE 0]

\* The read transaction: head and rows of one snapshot.  `extra` are the rows the
\* response carries besides the page (touched keys, include, parents, tracks).
Answer(c, lib, hist, extra) ==
  /\ req[c].phase \in {"sent", "written"}
  /\ ~Invalid(cur[c])
  /\ resp' = [resp EXCEPT ![c] =
       [cursor |-> [epoch |-> epoch, lib |-> lib.end, hist |-> hist.end],
        got |-> ResponseRows(lib.taken \cup hist.taken \cup extra),
        more |-> ~lib.exhausted \/ ~hist.exhausted]]
  /\ req' = [req EXCEPT ![c].phase = "answered"]
  /\ UNCHANGED <<db, backup, unpublished, cur, copy, want, orphans, late>>

Read(c, extra) ==
  \E lib \in LibraryReads(c) : \E hist \in HistoryReads(c, lib) : Answer(c, lib, hist, extra)

\* 410 cursor_invalid, from either transaction.
Refuse(c) ==
  /\ req[c].phase \in {"sent", "written"}
  /\ Invalid(cur[c])
  /\ req' = [req EXCEPT ![c].phase = "gone"]
  /\ UNCHANGED <<db, backup, unpublished, resp, cur, copy, want, orphans, late>>

\* The device stores the rows and the cursor in one local transaction.
Deliver(c) ==
  /\ req[c].phase = "answered"
  /\ copy' = [copy EXCEPT ![c] =
       [k \in Key |-> IF resp[c].got[k] # 0 THEN resp[c].got[k] ELSE copy[c][k]]]
  /\ cur' = [cur EXCEPT ![c] = resp[c].cursor]
  /\ want' = [want EXCEPT ![c] = want[c] \/ resp[c].more]
  /\ req' = [req EXCEPT ![c] = Idle]
  /\ resp' = [resp EXCEPT ![c] = NoResponse]
  /\ UNCHANGED <<db, backup, unpublished, orphans, late>>

\* After 410 the device merges again from the empty cursor.
StartOver(c) ==
  /\ req[c].phase = "gone"
  /\ cur' = [cur EXCEPT ![c] = Start]
  /\ copy' = [copy EXCEPT ![c] = Nothing]
  /\ want' = [want EXCEPT ![c] = TRUE]
  /\ req' = [req EXCEPT ![c] = Idle]
  /\ UNCHANGED <<db, backup, unpublished, resp, orphans, late>>

\* Timeout, or the response is lost: the device tries again later.
Abandon(c) ==
  /\ req[c].phase # "idle"
  /\ req' = [req EXCEPT ![c] = Idle]
  /\ resp' = [resp EXCEPT ![c] = NoResponse]
  /\ want' = [want EXCEPT ![c] = TRUE]
  \* the server may be about to run the request, or never get it
  /\ orphans' \in IF req[c].phase = "sent" THEN {orphans, orphans \cup {c}} ELSE {orphans}
  /\ UNCHANGED <<db, backup, unpublished, cur, copy, late>>

-----------------------------------------------------------------------------
(***************************************************************************)
(* The process and the database file.                                      *)
(***************************************************************************)

\* The process dies: requests it had not answered fail, events it had not sent are
\* lost, and every device that reconnects its event stream pulls (system.connected).
Crashed ==
  /\ unpublished' = {}
  /\ orphans' = {}
  /\ req' = [c \in Client |-> IF req[c].phase \in {"sent", "written"} THEN Idle ELSE req[c]]
  /\ want' = [c \in Client |-> TRUE]
  /\ UNCHANGED <<resp, cur, copy, late>>

Crash ==
  /\ Crashed
  /\ UNCHANGED <<db, backup>>

TakeBackup ==
  /\ epoch < MaxEpoch
  /\ backup' = [epoch |-> epoch, seq |-> seq, row |-> row]
  /\ UNCHANGED <<db, unpublished, device, orphans, late>>

\* Variant: the restored copy keeps its epoch.
RestoreKeepsEpoch ==
  /\ backup.epoch # 0
  /\ epoch < MaxEpoch
  /\ epoch' = backup.epoch
  /\ seq' = backup.seq
  /\ row' = backup.row
  /\ Crashed
  /\ UNCHANGED backup

\* The server is stopped, the copy replaces the database, every epoch is rotated, the server starts.
Restore ==
  /\ backup.epoch # 0
  /\ epoch < MaxEpoch
  /\ epoch' = epoch + 1
  /\ seq' = backup.seq
  /\ row' = backup.row
  /\ Crashed
  /\ UNCHANGED backup

\* rotateUserEpoch: the running server gives the user a new epoch.
RotateEpoch ==
  /\ epoch < MaxEpoch
  /\ epoch' = epoch + 1
  /\ UNCHANGED <<seq, row, backup, unpublished, device, orphans, late>>

-----------------------------------------------------------------------------
Next ==
  \/ \E c \in Client : DeviceCommit(c) \/ LateCommit(c)
  \/ \E gone \in SUBSET Removable : Retain(gone)
  \/ \E c \in Client :
       \/ \E limit \in 1 .. MaxLimit, streams \in Streams : Send(c, limit, streams)
       \/ \E extra \in SUBSET Key : Read(c, extra)
       \/ Publish(c)
       \/ Wake(c)
       \/ Refuse(c)
       \/ Deliver(c)
       \/ StartOver(c)
       \/ Abandon(c)
  \/ Crash
  \/ TakeBackup
  \/ Restore
  \/ RotateEpoch

Spec == Init /\ [][Next]_vars

\* The loop of a device does not stop while it wants to pull.  It asks for both streams again
\* and again, and of these requests some are read and some answers arrive; the server sends
\* the events it owes.  Writes, losses, crashes and backups are never forced.
WholePull(c) == req[c].streams = Both

Loop(c) ==
  \/ Send(c, 1, Both)
  \/ \E extra \in SUBSET Key : Read(c, extra)
  \/ Refuse(c) \/ Deliver(c) \/ StartOver(c)

Fairness ==
  \A c \in Client :
    /\ WF_vars(Publish(c))
    /\ WF_vars(Loop(c))
    /\ SF_vars(Send(c, 1, Both))
    /\ SF_vars((WholePull(c) /\ \E extra \in SUBSET Key : Read(c, extra)) \/ Refuse(c))
    /\ SF_vars((WholePull(c) /\ Deliver(c)) \/ StartOver(c))

FairSpec == Spec /\ Fairness

-----------------------------------------------------------------------------
(***************************************************************************)
(* Properties                                                              *)
(***************************************************************************)

\* Every variable has its type (the shape of the head, rows, requests and cursors).
TypeOK ==
  /\ epoch \in Nat
  /\ seq \in Nat
  /\ row \in [Key -> Nat]
  /\ backup \in [epoch : Nat, seq : Nat, row : [Key -> Nat]]
  /\ unpublished \subseteq Client
  /\ req \in [Client -> Request]
  /\ resp \in [Client -> Response]
  /\ cur \in [Client -> Cursor]
  /\ copy \in [Client -> [Key -> Nat]]
  /\ want \in [Client -> BOOLEAN]
  /\ orphans \subseteq Client
  /\ late \subseteq Client

\* The seqs of stored rows are unique and never beyond the head: lockUser, next() and
\* bumpHead number the writes of one user (DESIGN 3.5), also in a restored copy.
Numbered(r, head) ==
  /\ \A k \in Key : r[k] <= head
  /\ \A j, k \in Key : r[j] = r[k] /\ r[j] # 0 => j = k
SeqsUnique == Numbered(row, seq) /\ Numbered(backup.row, backup.seq)

Part(cursor, k) == IF TableOf[k] \in Library THEN cursor.lib ELSE cursor.hist

\* The cursor loses no row: a device whose cursor has passed the seq of a stored row
\* holds that very version of it, whatever was written between its pages, and however
\* the page budget cut the tables and the two streams (readPage).
NoLostRow ==
  \A c \in Client : cur[c].epoch = epoch =>
    \A k \in Key : row[k] # 0 /\ row[k] <= Part(cur[c], k) => copy[c][k] = row[k]

\* A cursor of the current epoch is within the head, in the device and in a response on its
\* way: 410 cursor_invalid means that the epoch changed, never that a restored
\* head went back under a cursor that still looks valid (DESIGN 3.15).
CursorWithinHead ==
  \A c \in Client : \A cursor \in {cur[c], resp[c].cursor} :
    cursor.epoch = epoch => cursor.lib <= seq /\ cursor.hist <= seq

Current(c) ==
  /\ cur[c].epoch = epoch
  /\ \A k \in Key : row[k] # 0 => copy[c][k] = row[k]

\* No lost wake-up: when no event is owed, a device that waits for nothing and has no
\* reason to pull holds every row.  The one exception is a device whose own
\* abandoned request committed late: sync.changed skips its author.
QuietMeansCurrent ==
  unpublished = {} =>
    \A c \in Client \ late :
      req[c].phase = "idle" /\ ~want[c] /\ cur[c].epoch = epoch => Current(c)

\* Once the writes stop every device ends up with every row, through lost responses,
\* crashes, 410 and restored copies.  A device that rests with a cursor of an older epoch
\* (melogold sync rotate-epoch tells nobody) merges at its next pull.
RestsBehind(c) == req[c].phase = "idle" /\ ~want[c] /\ cur[c].epoch # epoch
Converges == <>[](\A c \in Client \ late : Current(c) \/ RestsBehind(c))
=============================================================================
