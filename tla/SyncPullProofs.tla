--------------------------- MODULE SyncPullProofs ---------------------------
(***************************************************************************)
(* Proofs about SyncPull for every value of its constants: types, the      *)
(* numbering of rows, that no cursor ever passes a row its device does not *)
(* hold, and that no device sleeps through a write.                        *)
(***************************************************************************)
EXTENDS SyncPull, FiniteSetTheorems, TLAPS

(***************************************************************************)
(* The inductive invariant.                                                *)
(***************************************************************************)

\* Epochs only grow, so a rotated one differs from every epoch a cursor still carries.
EpochsKnown ==
  /\ epoch >= 1
  /\ backup.epoch <= epoch
  /\ \A c \in Client : cur[c].epoch <= epoch /\ resp[c].cursor.epoch <= epoch

\* A response on its way will leave the device as NoLostRow asks.
ResponseComplete ==
  \A c \in Client : resp[c].cursor.epoch = epoch =>
    \A k \in Key : row[k] # 0 /\ row[k] <= Part(resp[c].cursor, k) =>
      IF resp[c].got[k] # 0 THEN resp[c].got[k] = row[k] ELSE copy[c][k] = row[k]

\* Only an answered request has a response: the others keep the empty one.
ResponseOfAnswered ==
  \A c \in Client : req[c].phase # "answered" => resp[c] = NoResponse

Passed ==
  /\ TypeOK
  /\ EpochsKnown
  /\ SeqsUnique
  /\ CursorWithinHead
  /\ NoLostRow
  /\ ResponseComplete
  /\ ResponseOfAnswered

\* An event is owed to the device.
Others(c) == \E a \in unpublished : a # c

\* What a device will have when its response is stored.
Held(c, k) == IF resp[c].got[k] # 0 THEN resp[c].got[k] ELSE copy[c][k]

\* A device has a reason to pull, or will have one, or asks for all there is, or has it, or an answer with it.
Covered(c) ==
  /\ req[c].phase = "idle" =>
       want[c] \/ Others(c) \/ cur[c].epoch # epoch \/ \A k \in Key : row[k] # 0 => copy[c][k] = row[k]
  /\ req[c].phase \in {"sent", "written"} => want[c] \/ req[c].streams = Both
  /\ req[c].phase = "answered" =>
       \/ want[c] \/ Others(c) \/ resp[c].more \/ resp[c].cursor.epoch # epoch
       \/ \A k \in Key : row[k] # 0 => Held(c, k) = row[k]

NoLostWakeup == \A c \in Client \ late : Covered(c)

IInv == Passed /\ NoLostWakeup

-----------------------------------------------------------------------------
(***************************************************************************)
(* The page.                                                               *)
(***************************************************************************)

\* Rows a reader has not seen form a finite set.
LEMMA UnseenFinite ==
  ASSUME NEW tables \in SUBSET Table, NEW after \in Nat
  PROVE  IsFiniteSet(Unseen(tables, after)) /\ Unseen(tables, after) \subseteq Keys(tables)
<1>1. Unseen(tables, after) \in SUBSET Key
  BY DEF Unseen, Keys
<1>2. IsFiniteSet(Unseen(tables, after))
  BY <1>1, KeyAssumption, FS_Subset
<1>. QED
  BY <1>2 DEF Unseen

\* ORDER BY seq LIMIT n over a finite set that fits is the whole set; otherwise it has n rows.
LEMMA FirstSize ==
  ASSUME NEW rows, IsFiniteSet(rows), NEW n \in Nat, NEW page, IsFirst(page, rows, n)
  PROVE  /\ IsFiniteSet(page)
         /\ Cardinality(page) \in Nat
         /\ Cardinality(rows) \in Nat
         /\ Cardinality(page) = Cardinality(rows) => page = rows
         /\ page # rows => Cardinality(page) = n
         /\ Cardinality(page) <= n
<1>1. page \in SUBSET rows
  BY DEF IsFirst
<1>2. Cardinality(rows) \in Nat
  BY FS_CardinalityType
<1>3. IsFiniteSet(page) /\ (Cardinality(page) = Cardinality(rows) => page = rows)
  BY <1>1, FS_Subset
<1>4. Cardinality(page) \in Nat
  BY <1>3, FS_CardinalityType
<1>5. Cardinality(page) = IF Cardinality(rows) < n THEN Cardinality(rows) ELSE n
  BY DEF IsFirst
<1>. QED
  BY <1>2, <1>3, <1>4, <1>5

\* What readStream returns: a page of unseen rows, and how the budget cut it.
LEMMA CutParts ==
  ASSUME NEW tables, NEW after, NEW budget, NEW r \in StreamReads(tables, after, budget)
  PROVE  /\ r.taken \in SUBSET Unseen(tables, after)
         /\ r.end \in {seq, after} \cup {row[k] : k \in Unseen(tables, after)}
         /\ r.exhausted \in BOOLEAN
         /\ \/ after >= seq
            \/ budget <= 0 /\ r.end = after
            \/ \E read \in TableReads(tables, after, budget + 1) :
                 /\ IsFirst(r.taken, read, budget)
                 /\ r.exhausted = (Cardinality(read) <= budget)
                 /\ r.end \in Ends(r.taken, r.exhausted)
<1>1. CASE after >= seq
  <2>1. StreamReads(tables, after, budget) = {StreamPage({}, seq, TRUE)}
    BY <1>1 DEF StreamReads
  <2>2. r = StreamPage({}, seq, TRUE)
    BY <2>1
  <2>3. r.taken = {} /\ r.end = seq /\ r.exhausted = TRUE
    BY <2>2 DEF StreamPage
  <2>. QED
    BY <1>1, <2>3
<1>2. CASE ~(after >= seq) /\ budget <= 0
  <2>1. StreamReads(tables, after, budget) = {StreamPage({}, after, FALSE)}
    BY <1>2 DEF StreamReads
  <2>2. r = StreamPage({}, after, FALSE)
    BY <2>1
  <2>3. r.taken = {} /\ r.end = after /\ r.exhausted = FALSE
    BY <2>2 DEF StreamPage
  <2>. QED
    BY <1>2, <2>3
<1>3. CASE ~(after >= seq) /\ ~(budget <= 0)
  <2>1. PICK read \in TableReads(tables, after, budget + 1) : r \in Cut(read, budget)
    BY <1>3 DEF StreamReads
  <2> DEFINE exhausted == Cardinality(read) <= budget
  <2>2. PICK taken \in SUBSET read :
          /\ IsFirst(taken, read, budget)
          /\ r \in {StreamPage(taken, end, exhausted) : end \in Ends(taken, exhausted)}
    BY <2>1 DEF Cut
  <2>3. PICK end \in Ends(taken, exhausted) : r = StreamPage(taken, end, exhausted)
    BY <2>2
  <2>4. r.taken = taken /\ r.end = end /\ r.exhausted = exhausted
    BY <2>3 DEF StreamPage
  <2>5. read \in SUBSET Unseen(tables, after)
    BY <2>1 DEF TableReads
  <2>6. end \in {seq, after} \cup {row[k] : k \in Unseen(tables, after)}
    <3>1. CASE exhausted \/ taken = {}
      BY <2>3, <3>1 DEF Ends
    <3>2. CASE ~(exhausted \/ taken = {})
      <4>1. PICK k \in taken : end = row[k]
        BY <2>3, <3>2 DEF Ends
      <4>. QED
        BY <4>1, <2>2, <2>5
    <3>. QED
      BY <3>1, <3>2
  <2>7. exhausted \in BOOLEAN
    OBVIOUS
  <2>. QED
    BY <2>1, <2>2, <2>3, <2>4, <2>5, <2>6, <2>7
<1>. QED
  BY <1>1, <1>2, <1>3

\* readStream returns every unseen row up to the cursor part it hands out, however the
\* tables and the budget cut the stream.
LEMMA PageIsComplete ==
  ASSUME TypeOK, SeqsUnique,
         NEW tables \in SUBSET Table, NEW after \in Nat, after <= seq, NEW budget \in Int,
         NEW r \in StreamReads(tables, after, budget)
  PROVE  /\ r.end \in Nat
         /\ r.end <= seq
         /\ r.taken \in SUBSET Keys(tables)
         /\ \A k \in Keys(tables) : after < row[k] /\ row[k] <= r.end => k \in r.taken
<1> DEFINE S == Unseen(tables, after)
<1>1. /\ row \in [Key -> Nat]
      /\ seq \in Nat
      /\ \A k \in Key : row[k] <= seq
      /\ \A j, k \in Key : row[j] = row[k] /\ row[j] # 0 => j = k
  BY DEF TypeOK, SeqsUnique, Numbered
<1>2. r \in IF after >= seq THEN {StreamPage({}, seq, TRUE)}
           ELSE IF budget <= 0 THEN {StreamPage({}, after, FALSE)}
           ELSE UNION {Cut(read, budget) : read \in TableReads(tables, after, budget + 1)}
  BY DEF StreamReads
<1>3. /\ IsFiniteSet(S)
      /\ S \subseteq Keys(tables)
      /\ S \subseteq Key
  BY UnseenFinite DEF Unseen, Keys
<1>4. /\ r.taken \in SUBSET S
      /\ r.end \in {seq, after} \cup {row[k] : k \in S}
      /\ r.exhausted \in BOOLEAN
  BY CutParts
<1>5. \A k \in S : row[k] \in Nat /\ row[k] <= seq /\ row[k] > after
  BY <1>1, <1>3 DEF Unseen
<1>6. r.end \in Nat /\ r.end <= seq
  BY <1>1, <1>4, <1>5
<1>7. SUFFICES ASSUME NEW k \in Keys(tables), after < row[k], row[k] <= r.end
               PROVE  k \in r.taken
  BY <1>3, <1>4, <1>6
<1>8. k \in S /\ k \in Key /\ TableOf[k] \in tables
  BY <1>1, <1>7 DEF Unseen, Keys
<1>9. CASE after >= seq
  BY <1>1, <1>7, <1>8, <1>9
<1>10. CASE after < seq /\ budget <= 0
  <2>1. r.end = after
    BY <1>1, <1>2, <1>10 DEF StreamPage
  <2>. QED
    BY <2>1, <1>1, <1>7, <1>8
<1>11. CASE after < seq /\ budget > 0
  <2>1. PICK read \in TableReads(tables, after, budget + 1) :
          /\ IsFirst(r.taken, read, budget)
          /\ r.exhausted = (Cardinality(read) <= budget)
          /\ r.end \in Ends(r.taken, r.exhausted)
    BY <1>1, <1>11, CutParts
  <2>2. read \in SUBSET S
    BY <2>1 DEF TableReads
  <2>3. IsFiniteSet(read) /\ Cardinality(read) \in Nat
    BY <2>2, <1>3, FS_Subset, FS_CardinalityType
  <2>4. budget \in Nat /\ budget + 1 \in Nat
    BY <1>11
  <2>5. /\ IsFiniteSet(r.taken)
        /\ Cardinality(r.taken) \in Nat
        /\ Cardinality(r.taken) <= budget
        /\ r.taken # read => Cardinality(r.taken) = budget
        /\ Cardinality(r.taken) = Cardinality(read) => r.taken = read
    BY <2>1, <2>3, <2>4, FirstSize
  <2>6. r.taken \subseteq read /\ \A i \in r.taken, j \in read \ r.taken : row[i] <= row[j]
    BY <2>1 DEF IsFirst
  <2>7. r.exhausted => r.taken = read
    <3>1. Cardinality(r.taken) = IF Cardinality(read) < budget THEN Cardinality(read) ELSE budget
      BY <2>1 DEF IsFirst
    <3>2. Cardinality(read) <= budget => Cardinality(r.taken) = Cardinality(read)
      BY <3>1, <2>3, <2>4
    <3>. QED
      BY <3>2, <2>1, <2>5
  <2>8. r.exhausted \/ \E m \in r.taken : r.end = row[m]
    <3>1. CASE r.taken = {}
      <4>1. Cardinality(r.taken) = 0
        BY <3>1, FS_EmptySet
      <4>2. r.taken = read
        BY <4>1, <2>5, <1>11
      <4>3. Cardinality(read) <= budget
        BY <4>1, <4>2, <2>4
      <4>. QED
        BY <4>3, <2>1
    <3>2. CASE r.taken # {}
      BY <3>2, <2>1 DEF Ends
    <3>. QED
      BY <3>1, <3>2
  <2> DEFINE t == TableOf[k]
             src == read \cap Keys({t})
             St == Unseen({t}, after)
  <2>9. t \in tables /\ {t} \in SUBSET Table /\ k \in St
    BY <1>7, <1>8 DEF Unseen, Keys
  <2>10. IsFirst(src, St, budget + 1)
    BY <2>1, <2>9 DEF TableReads
  <2>11. IsFiniteSet(St)
    BY <2>9, UnseenFinite
  <2>12. /\ src # St => Cardinality(src) = budget + 1
         /\ IsFiniteSet(src)
    BY <2>10, <2>11, <2>4, FirstSize
  <2>13. src \subseteq St /\ St \subseteq Key /\ \A j \in src, i \in St \ src : row[j] <= row[i]
    BY <2>10 DEF IsFirst, Unseen, Keys
  \* The table gave row k: otherwise budget + 1 rows before k would all be in the page.
  <2>14. k \in read
    <3>1. SUFFICES ASSUME k \notin read PROVE FALSE
      OBVIOUS
    <3>2. k \in St \ src
      BY <3>1, <2>9
    <3>3. Cardinality(src) = budget + 1
      BY <3>2, <2>12
    <3>4. src \in SUBSET read
      OBVIOUS
    <3>5. Cardinality(src) <= Cardinality(read)
      BY <3>4, <2>3, FS_Subset
    <3>6. ~(Cardinality(read) <= budget)
      BY <3>3, <3>5, <2>3, <2>4
    <3>7. PICK m \in r.taken : r.end = row[m]
      BY <3>6, <2>1, <2>8
    <3>8. m \in S /\ m \in Key
      BY <3>7, <2>6, <2>2, <1>3
    <3>9. \A j \in src : j \in r.taken
      <4>1. SUFFICES ASSUME NEW j \in src, j \notin r.taken PROVE FALSE
        OBVIOUS
      <4>2. j \in read /\ j \in Key /\ j \in S /\ j # k
        BY <4>1, <3>1, <2>2, <1>3
      <4>3. row[j] <= row[k]
        BY <4>1, <3>2, <2>13
      <4>4. row[m] <= row[j]
        BY <4>1, <4>2, <2>6
      <4>5. row[k] <= row[m]
        BY <3>7, <1>7
      <4>6. row[j] = row[k] /\ row[j] # 0
        BY <4>2, <4>3, <4>4, <4>5, <3>8, <1>5, <1>8
      <4>. QED
        BY <4>2, <4>6, <1>1, <1>8
    <3>10. src \in SUBSET r.taken
      BY <3>9
    <3>11. Cardinality(src) <= Cardinality(r.taken)
      BY <3>10, <2>5, FS_Subset
    <3>. QED
      BY <3>3, <3>11, <2>4, <2>5
  <2>15. CASE r.exhausted
    BY <2>15, <2>7, <2>14
  <2>16. CASE ~r.exhausted
    <3>1. PICK m \in r.taken : r.end = row[m]
      BY <2>16, <2>8
    <3>2. SUFFICES ASSUME k \notin r.taken PROVE FALSE
      OBVIOUS
    <3>3. m \in S /\ m \in Key
      BY <3>1, <2>6, <2>2, <1>3
    <3>4. row[m] <= row[k] /\ row[k] <= row[m]
      BY <3>1, <3>2, <2>6, <2>14, <1>7
    <3>5. row[m] = row[k] /\ row[m] # 0
      BY <3>3, <3>4, <1>5, <1>8
    <3>. QED
      BY <3>1, <3>2, <3>3, <3>5, <1>1, <1>8
  <2>. QED
    BY <2>15, <2>16
<1>. QED
  BY <1>1, <1>9, <1>10, <1>11

-----------------------------------------------------------------------------
(***************************************************************************)
(* Types.                                                                  *)
(***************************************************************************)

\* The initial requests, responses and cursors have their types.
LEMMA InitialTypes ==
  /\ Nothing \in [Key -> Nat]
  /\ Start \in Cursor
  /\ Idle \in Request
  /\ NoResponse \in Response
BY DEF Nothing, Start, Idle, NoResponse, Cursor, Request, Response, Both

\* A write transaction keeps the types of the head, the rows and the owed events.
LEMMA CommitTypes ==
  ASSUME TypeOK, NEW c \in Client, Commit(c)
  PROVE  seq' \in Nat /\ row' \in [Key -> Nat] /\ unpublished' \subseteq Client
<1>1. PICK top \in seq .. MaxSeq :
        /\ seq' = top
        /\ row' \in Rows(top)
        /\ unpublished' = IF top = seq THEN unpublished ELSE unpublished \cup {c}
  BY DEF Commit
<1>2. top \in Nat
  BY BoundAssumption DEF TypeOK
<1>3. row' \in [Key -> 0 .. top]
  BY <1>1 DEF Rows
<1>. QED
  BY <1>1, <1>2, <1>3 DEF TypeOK

\* What one stream adds to a response, asked for or not: its new cursor part is within the
\* head and every row between the old part and the new one was taken.
LEMMA StreamFacts ==
  ASSUME TypeOK, SeqsUnique,
         NEW tables \in SUBSET Table, NEW after \in Nat, after <= seq, NEW budget \in Int,
         NEW asked \in BOOLEAN,
         NEW r \in IF asked THEN StreamReads(tables, after, budget) ELSE Skipped(after)
  PROVE  /\ r.end \in Nat
         /\ r.end <= seq
         /\ r.exhausted \in BOOLEAN
         /\ IsFiniteSet(r.taken)
         /\ r.taken \in SUBSET Key
         /\ \A k \in Keys(tables) : after < row[k] /\ row[k] <= r.end => k \in r.taken
<1>1. row \in [Key -> Nat] /\ seq \in Nat
  BY DEF TypeOK
<1>2. CASE asked
  <2>1. r \in StreamReads(tables, after, budget)
    BY <1>2
  <2>2. /\ r.end \in Nat
        /\ r.end <= seq
        /\ r.taken \in SUBSET Keys(tables)
        /\ \A k \in Keys(tables) : after < row[k] /\ row[k] <= r.end => k \in r.taken
    BY <2>1, PageIsComplete
  <2>3. r.exhausted \in BOOLEAN
    BY <2>1, CutParts
  <2>4. r.taken \in SUBSET Key
    BY <2>2 DEF Keys
  <2>5. IsFiniteSet(r.taken)
    BY <2>4, KeyAssumption, FS_Subset
  <2>. QED
    BY <2>2, <2>3, <2>4, <2>5
<1>3. CASE ~asked
  <2>1. r = [taken |-> {}, end |-> after, exhausted |-> TRUE]
    BY <1>3 DEF Skipped, StreamPage
  <2>2. IsFiniteSet({})
    BY FS_EmptySet
  <2>3. \A k \in Keys(tables) : row[k] \in Nat
    BY <1>1 DEF Keys
  <2>. QED
    BY <1>1, <2>1, <2>2, <2>3
<1>. QED
  BY <1>2, <1>3

\* The response of the read transaction: its cursor is the head's, within it, and every row
\* between the device's cursor and the new one is in it with its current version.
LEMMA ReadFacts ==
  ASSUME TypeOK, SeqsUnique, NEW c \in Client, NEW extra \in SUBSET Key, Read(c, extra)
  PROVE  \E answer \in Response :
           /\ resp' = [resp EXCEPT ![c] = answer]
           /\ answer.cursor.epoch = epoch
           /\ answer.cursor.lib <= seq
           /\ answer.cursor.hist <= seq
           /\ \A k \in Key : answer.got[k] \in {0, row[k]}
           /\ \A k \in Key :
                Part(cur[c], k) < row[k] /\ row[k] <= Part(answer.cursor, k)
                  => answer.got[k] = row[k]
<1> DEFINE asksLib == "library" \in req[c].streams
           asksHist == "history" \in req[c].streams
<1>1. /\ cur[c] \in Cursor
      /\ row \in [Key -> Nat]
      /\ resp \in [Client -> Response]
      /\ epoch \in Nat
      /\ seq \in Nat
      /\ req[c].limit \in Nat
  BY DEF TypeOK, Request
<1>2. cur[c].lib \in Nat /\ cur[c].hist \in Nat
  BY <1>1 DEF Cursor
<1>a. PICK lib \in LibraryReads(c) : \E hist \in HistoryReads(c, lib) : Answer(c, lib, hist, extra)
  BY DEF Read
<1>3. PICK hist \in HistoryReads(c, lib) : Answer(c, lib, hist, extra)
  BY <1>a
<1>4. cur[c].lib <= seq /\ cur[c].hist <= seq
  <2>1. cur[c] = Start \/ (~(cur[c].lib > seq) /\ ~(cur[c].hist > seq))
    BY <1>3 DEF Answer, Invalid
  <2>. QED
    BY <2>1, <1>1, <1>2 DEF Start
<1>5. Library \in SUBSET Table /\ History \in SUBSET Table
  BY KeyAssumption DEF History
<1>6. /\ lib.end \in Nat
      /\ lib.end <= seq
      /\ lib.exhausted \in BOOLEAN
      /\ IsFiniteSet(lib.taken)
      /\ lib.taken \in SUBSET Key
      /\ \A k \in Keys(Library) : cur[c].lib < row[k] /\ row[k] <= lib.end => k \in lib.taken
  <2>1. req[c].limit \in Int /\ asksLib \in BOOLEAN
    BY <1>1
  <2>2. lib \in IF asksLib THEN StreamReads(Library, cur[c].lib, req[c].limit)
                          ELSE Skipped(cur[c].lib)
    BY <1>a DEF LibraryReads
  <2>. QED
    BY <2>1, <2>2, <1>2, <1>4, <1>5, StreamFacts
<1>7. resp' = [resp EXCEPT ![c] =
        [cursor |-> [epoch |-> epoch, lib |-> lib.end, hist |-> hist.end],
         got |-> [k \in Key |-> IF k \in lib.taken \cup hist.taken \cup extra THEN row[k] ELSE 0],
         more |-> ~lib.exhausted \/ ~hist.exhausted]]
  BY <1>3 DEF Answer, ResponseRows
<1>8. /\ hist.end \in Nat
      /\ hist.end <= seq
      /\ hist.exhausted \in BOOLEAN
      /\ hist.taken \in SUBSET Key
      /\ \A k \in Keys(History) : cur[c].hist < row[k] /\ row[k] <= hist.end => k \in hist.taken
  <2>1. Cardinality(lib.taken) \in Nat
    BY <1>6, FS_CardinalityType
  <2> DEFINE left == req[c].limit - Cardinality(lib.taken)
             after == cur[c].hist
  <2>2. left \in Int /\ asksHist \in BOOLEAN /\ after \in Nat /\ after <= seq
    BY <2>1, <1>1, <1>2, <1>4
  <2>3. hist \in IF asksHist THEN StreamReads(History, after, left) ELSE Skipped(after)
    BY <1>3 DEF HistoryReads
  <2> HIDE DEF left, after, asksHist
  <2>4. /\ hist.end \in Nat
        /\ hist.end <= seq
        /\ hist.exhausted \in BOOLEAN
        /\ hist.taken \in SUBSET Key
        /\ \A k \in Keys(History) : after < row[k] /\ row[k] <= hist.end => k \in hist.taken
    BY <2>2, <2>3, <1>5, StreamFacts
  <2>. QED
    BY <2>4 DEF after
<1> DEFINE got == [k \in Key |-> IF k \in lib.taken \cup hist.taken \cup extra THEN row[k] ELSE 0]
           answer == [cursor |-> [epoch |-> epoch, lib |-> lib.end, hist |-> hist.end],
                      got |-> got,
                      more |-> ~lib.exhausted \/ ~hist.exhausted]
<1>9. got \in [Key -> Nat]
  BY <1>1
<1>10. answer \in Response
  BY <1>1, <1>6, <1>8, <1>9 DEF Response, Cursor
<1>11. \A k \in Key : got[k] \in {0, row[k]}
  OBVIOUS
<1>12. ASSUME NEW k \in Key,
              Part(cur[c], k) < row[k],
              row[k] <= Part(answer.cursor, k)
       PROVE  got[k] = row[k]
  <2>1. CASE TableOf[k] \in Library
    <3>1. k \in Keys(Library)
      BY <2>1 DEF Keys
    <3>2. k \in lib.taken
      BY <3>1, <2>1, <1>6, <1>12 DEF Part
    <3>. QED
      BY <3>2
  <2>2. CASE TableOf[k] \notin Library
    <3>1. k \in Keys(History)
      BY <2>2, KeyAssumption DEF Keys, History
    <3>2. k \in hist.taken
      BY <3>1, <2>2, <1>8, <1>12 DEF Part
    <3>. QED
      BY <3>2
  <2>. QED
    BY <2>1, <2>2
<1>13. answer.cursor.epoch = epoch /\ answer.cursor.lib <= seq /\ answer.cursor.hist <= seq
  BY <1>6, <1>8
<1>. QED
  BY <1>7, <1>10, <1>11, <1>12, <1>13

-----------------------------------------------------------------------------
(***************************************************************************)
(* The invariant holds at the start and every action keeps it.             *)
(***************************************************************************)

\* The initial state satisfies the invariant.
LEMMA InitPassed == Init => Passed
<1> SUFFICES ASSUME Init PROVE Passed
  OBVIOUS
<1>1. TypeOK
  <2>1. /\ [epoch |-> 0, seq |-> 0, row |-> Nothing] \in [epoch : Nat, seq : Nat, row : [Key -> Nat]]
        /\ 1 \in Nat
        /\ 0 \in Nat
    BY InitialTypes
  <2>. QED
    BY <2>1, InitialTypes DEF Init, TypeOK
<1>2. EpochsKnown
  BY DEF Init, EpochsKnown, Start, NoResponse
<1>3. SeqsUnique
  BY DEF Init, SeqsUnique, Numbered, Nothing
<1>4. CursorWithinHead
  BY DEF Init, CursorWithinHead, Start, NoResponse
<1>5. NoLostRow /\ ResponseComplete
  BY DEF Init, NoLostRow, ResponseComplete, Nothing
<1>6. ResponseOfAnswered
  BY DEF Init, ResponseOfAnswered
<1>. QED
  BY <1>1, <1>2, <1>3, <1>4, <1>5, <1>6 DEF Passed

\* A step that touches neither the database nor what devices hold keeps the invariant.
LEMMA Frame ==
  ASSUME Passed, TypeOK', ResponseOfAnswered',
         UNCHANGED <<epoch, seq, row, backup, resp, cur, copy>>
  PROVE  Passed'
<1>1. EpochsKnown'
  BY DEF Passed, EpochsKnown
<1>2. SeqsUnique'
  BY DEF Passed, SeqsUnique, Numbered
<1>3. CursorWithinHead'
  BY DEF Passed, CursorWithinHead
<1>4. NoLostRow'
  BY DEF Passed, NoLostRow, Part
<1>5. ResponseComplete'
  BY DEF Passed, ResponseComplete, Part
<1>. QED
  BY <1>1, <1>2, <1>3, <1>4, <1>5 DEF Passed

\* A step that gives the user a fresh epoch makes every cursor and response harmless.
LEMMA FreshEpoch ==
  ASSUME Passed, TypeOK', ResponseOfAnswered', SeqsUnique',
         epoch' = epoch + 1,
         UNCHANGED <<backup, resp, cur>>
  PROVE  Passed'
<1>1. /\ epoch \in Nat
      /\ \A c \in Client : /\ cur[c].epoch \in Nat
                           /\ resp[c].cursor.epoch \in Nat
  BY DEF Passed, TypeOK, Cursor, Response
<1>2. /\ epoch >= 1
      /\ backup.epoch \in Nat
      /\ backup.epoch <= epoch
      /\ \A c \in Client : cur[c].epoch <= epoch /\ resp[c].cursor.epoch <= epoch
  BY DEF Passed, EpochsKnown, TypeOK
<1>3. \A c \in Client : cur'[c].epoch # epoch' /\ resp'[c].cursor.epoch # epoch'
  BY <1>1, <1>2
<1>4. EpochsKnown'
  BY <1>1, <1>2 DEF EpochsKnown
<1>5. CursorWithinHead'
  BY <1>3 DEF CursorWithinHead
<1>6. NoLostRow'
  BY <1>3 DEF NoLostRow
<1>7. ResponseComplete'
  BY <1>3 DEF ResponseComplete
<1>. QED
  BY <1>4, <1>5, <1>6, <1>7 DEF Passed

\* A step that changes rows only by fresh numbers above the old head, or by removing
\* them, keeps the invariant: no cursor of this epoch is beyond the old head.
LEMMA FreshRows ==
  ASSUME Passed, TypeOK', ResponseOfAnswered', SeqsUnique',
         seq' >= seq,
         \A k \in Key : row'[k] = row[k] \/ row'[k] = 0 \/ row'[k] > seq,
         UNCHANGED <<epoch, backup, resp, cur, copy>>
  PROVE  Passed'
<1>1. /\ seq \in Nat
      /\ seq' \in Nat
      /\ row \in [Key -> Nat]
      /\ row' \in [Key -> Nat]
      /\ \A c \in Client : /\ cur[c] \in Cursor
                           /\ resp[c].cursor \in Cursor
  BY DEF Passed, TypeOK, Response
<1>2. \A cursor \in Cursor : cursor.lib \in Nat /\ cursor.hist \in Nat
  BY DEF Cursor
<1>3. \A c \in Client, k \in Key :
        /\ cur[c].epoch = epoch => Part(cur[c], k) \in Nat /\ Part(cur[c], k) <= seq
        /\ resp[c].cursor.epoch = epoch =>
             Part(resp[c].cursor, k) \in Nat /\ Part(resp[c].cursor, k) <= seq
  BY <1>1, <1>2 DEF Passed, CursorWithinHead, Part
<1>4. EpochsKnown'
  BY DEF Passed, EpochsKnown
<1>5. CursorWithinHead'
  BY <1>1, <1>2 DEF Passed, CursorWithinHead
<1>6. NoLostRow'
  <2>1. SUFFICES ASSUME NEW c \in Client, cur[c].epoch = epoch,
                        NEW k \in Key, row'[k] # 0, row'[k] <= Part(cur[c], k)
                 PROVE  copy[c][k] = row'[k]
    BY DEF NoLostRow, Part
  <2>2. row'[k] = row[k]
    BY <2>1, <1>1, <1>3
  <2>. QED
    BY <2>1, <2>2 DEF Passed, NoLostRow
<1>7. ResponseComplete'
  <2>1. SUFFICES ASSUME NEW c \in Client, resp[c].cursor.epoch = epoch,
                        NEW k \in Key, row'[k] # 0, row'[k] <= Part(resp[c].cursor, k)
                 PROVE  IF resp[c].got[k] # 0 THEN resp[c].got[k] = row'[k]
                                              ELSE copy[c][k] = row'[k]
    BY DEF ResponseComplete, Part
  <2>2. row'[k] = row[k]
    BY <2>1, <1>1, <1>3
  <2>. QED
    BY <2>1, <2>2 DEF Passed, ResponseComplete
<1>. QED
  BY <1>4, <1>5, <1>6, <1>7 DEF Passed

\* A write transaction numbers its rows above the head and above each other.
LEMMA CommitNumbers ==
  ASSUME TypeOK, SeqsUnique, NEW c \in Client, Commit(c), UNCHANGED backup
  PROVE  /\ SeqsUnique'
         /\ seq' >= seq
         /\ \A k \in Key : row'[k] = row[k] \/ row'[k] = 0 \/ row'[k] > seq
<1>1. PICK top \in seq .. MaxSeq :
        /\ seq' = top
        /\ row' \in Rows(top)
        /\ \A j, k \in Key : row'[j] = row'[k] /\ row'[j] > seq => j = k
  BY DEF Commit
<1>2. /\ seq \in Nat
      /\ top \in Nat
      /\ seq' >= seq
  BY <1>1, BoundAssumption DEF TypeOK
<1>3. /\ row' \in [Key -> 0 .. top]
      /\ \A k \in Key : row'[k] = row[k] \/ row'[k] > seq \/ row'[k] = 0
  BY <1>1 DEF Rows
<1>4. /\ \A k \in Key : row[k] <= seq
      /\ \A j, k \in Key : row[j] = row[k] /\ row[j] # 0 => j = k
  BY DEF SeqsUnique, Numbered
<1>5. \A k \in Key : row'[k] \in Nat /\ row'[k] <= seq'
  BY <1>1, <1>2, <1>3
<1>6. ASSUME NEW j \in Key, NEW k \in Key, row'[j] = row'[k], row'[j] # 0 PROVE j = k
  <2>1. CASE row'[j] > seq
    BY <2>1, <1>1, <1>6
  <2>2. CASE ~(row'[j] > seq)
    <3>1. row'[j] = row[j] /\ row'[k] = row[k]
      BY <2>2, <1>3, <1>6
    <3>. QED
      BY <3>1, <1>4, <1>6
  <2>. QED
    BY <2>1, <2>2
<1>7. SeqsUnique'
  BY <1>5, <1>6 DEF SeqsUnique, Numbered
<1>. QED
  BY <1>2, <1>3, <1>7

-----------------------------------------------------------------------------
(***************************************************************************)
(* One lemma per kind of step.                                             *)
(***************************************************************************)

\* The write transaction of a request keeps the invariant.
LEMMA DeviceCommitStep ==
  ASSUME Passed, NEW c \in Client, DeviceCommit(c)
  PROVE  Passed'
<1>1. Commit(c) /\ UNCHANGED <<epoch, backup, resp, cur, copy, want, orphans, late>>
  BY DEF DeviceCommit
<1>2. TypeOK'
  <2>1. seq' \in Nat /\ row' \in [Key -> Nat] /\ unpublished' \subseteq Client
    BY <1>1, CommitTypes DEF Passed
  <2>2. req' \in [Client -> Request]
    BY DEF DeviceCommit, Passed, TypeOK, Request
  <2>. QED
    BY <1>1, <2>1, <2>2 DEF Passed, TypeOK
<1>3. ResponseOfAnswered'
  BY <1>1 DEF DeviceCommit, Passed, ResponseOfAnswered, TypeOK, Request
<1>. QED
  BY <1>1, <1>2, <1>3, CommitNumbers, FreshRows DEF Passed

\* So does the write transaction of an abandoned request.
LEMMA LateCommitStep ==
  ASSUME Passed, NEW c \in Client, LateCommit(c)
  PROVE  Passed'
<1>1. Commit(c) /\ UNCHANGED <<epoch, backup, req, resp, cur, copy, want>>
  BY DEF LateCommit, device
<1>2. TypeOK'
  <2>1. seq' \in Nat /\ row' \in [Key -> Nat] /\ unpublished' \subseteq Client
    BY <1>1, CommitTypes DEF Passed
  <2>2. orphans' \subseteq Client /\ late' \subseteq Client
    BY DEF LateCommit, Passed, TypeOK
  <2>. QED
    BY <1>1, <2>1, <2>2 DEF Passed, TypeOK
<1>3. ResponseOfAnswered'
  BY <1>1 DEF Passed, ResponseOfAnswered
<1>. QED
  BY <1>1, <1>2, <1>3, CommitNumbers, FreshRows DEF Passed

\* Retention removes rows without a seq.
LEMMA RetainStep ==
  ASSUME Passed, NEW gone \in SUBSET Key, Retain(gone)
  PROVE  Passed'
<1>1. /\ row' = [k \in Key |-> IF k \in gone THEN 0 ELSE row[k]]
      /\ UNCHANGED <<epoch, seq, backup, unpublished, req, resp, cur, copy, want, orphans, late>>
  BY DEF Retain, device
<1>2. row \in [Key -> Nat] /\ seq \in Nat
  BY DEF Passed, TypeOK
<1>3. row' \in [Key -> Nat] /\ \A k \in Key : row'[k] = row[k] \/ row'[k] = 0
  BY <1>1, <1>2
<1>4. TypeOK'
  BY <1>1, <1>3 DEF Passed, TypeOK
<1>5. SeqsUnique'
  BY <1>1, <1>2, <1>3 DEF Passed, SeqsUnique, Numbered
<1>6. ResponseOfAnswered'
  BY <1>1 DEF Passed, ResponseOfAnswered
<1>. QED
  BY <1>1, <1>2, <1>3, <1>4, <1>5, <1>6, FreshRows

\* The read transaction: the response it leaves is complete and within the head.
LEMMA ReadStep ==
  ASSUME Passed, NEW c \in Client, NEW extra \in SUBSET Key, Read(c, extra)
  PROVE  Passed'
<1>1. UNCHANGED <<epoch, seq, row, backup, unpublished, cur, copy, want, orphans, late>>
  BY DEF Read, Answer, db
<1>2. PICK answer \in Response :
        /\ resp' = [resp EXCEPT ![c] = answer]
        /\ answer.cursor.epoch = epoch
        /\ answer.cursor.lib <= seq
        /\ answer.cursor.hist <= seq
        /\ \A k \in Key : answer.got[k] \in {0, row[k]}
        /\ \A k \in Key :
             Part(cur[c], k) < row[k] /\ row[k] <= Part(answer.cursor, k)
               => answer.got[k] = row[k]
  BY ReadFacts DEF Passed
<1>3. /\ req' = [req EXCEPT ![c].phase = "answered"]
      /\ cur[c] = Start \/ cur[c].epoch = epoch
  BY DEF Read, Answer, Invalid
<1>4. /\ req \in [Client -> Request]
      /\ resp \in [Client -> Response]
      /\ row \in [Key -> Nat]
      /\ cur[c] \in Cursor
      /\ cur[c].lib \in Nat
      /\ cur[c].hist \in Nat
      /\ epoch \in Nat
  BY DEF Passed, TypeOK, Cursor
<1>5. /\ resp'[c] = answer
      /\ \A d \in Client \ {c} : resp'[d] = resp[d]
  BY <1>2, <1>4
<1>6. TypeOK'
  <2>1. req' \in [Client -> Request]
    BY <1>3, <1>4 DEF Request
  <2>2. resp' \in [Client -> Response]
    BY <1>2, <1>4
  <2>. QED
    BY <1>1, <2>1, <2>2 DEF Passed, TypeOK
<1>7. EpochsKnown'
  BY <1>1, <1>2, <1>4, <1>5 DEF Passed, EpochsKnown
<1>8. SeqsUnique'
  BY <1>1 DEF Passed, SeqsUnique, Numbered
<1>9. CursorWithinHead'
  BY <1>1, <1>2, <1>5 DEF Passed, CursorWithinHead
<1>10. NoLostRow'
  BY <1>1 DEF Passed, NoLostRow, Part
<1>11. ResponseComplete'
  <2>1. SUFFICES ASSUME NEW d \in Client, resp'[d].cursor.epoch = epoch,
                        NEW k \in Key, row[k] # 0, row[k] <= Part(resp'[d].cursor, k)
                 PROVE  IF resp'[d].got[k] # 0 THEN resp'[d].got[k] = row[k]
                                               ELSE copy[d][k] = row[k]
    BY <1>1 DEF ResponseComplete, Part
  <2>2. CASE d # c
    <3>1. resp'[d] = resp[d]
      BY <2>2, <1>5
    <3>. QED
      BY <3>1, <2>1 DEF Passed, ResponseComplete
  <2>3. CASE d = c
    <3>1. answer.got[k] \in {0, row[k]} /\ row[k] <= Part(answer.cursor, k)
      BY <2>1, <2>3, <1>2, <1>5
    <3>2. CASE Part(cur[c], k) < row[k]
      BY <3>1, <3>2, <2>1, <2>3, <1>2, <1>5
    <3>3. CASE ~(Part(cur[c], k) < row[k])
      <4>1. row[k] <= Part(cur[c], k)
        BY <3>3, <1>4 DEF Part
      <4>2. cur[c].epoch = epoch
        BY <4>1, <2>1, <1>3, <1>4 DEF Part, Start
      <4>3. copy[c][k] = row[k]
        BY <4>1, <4>2, <2>1 DEF Passed, NoLostRow
      <4>. QED
        BY <4>3, <3>1, <2>3, <1>5
    <3>. QED
      BY <3>2, <3>3
  <2>. QED
    BY <2>2, <2>3
<1>12. ResponseOfAnswered'
  <2>1. req'[c].phase = "answered" /\ \A d \in Client \ {c} : req'[d] = req[d]
    BY <1>3, <1>4 DEF Request
  <2>. QED
    BY <2>1, <1>5 DEF Passed, ResponseOfAnswered
<1>. QED
  BY <1>6, <1>7, <1>8, <1>9, <1>10, <1>11, <1>12 DEF Passed

\* Storing a response: the device holds what its new cursor has passed.
LEMMA DeliverStep ==
  ASSUME Passed, NEW c \in Client, Deliver(c)
  PROVE  Passed'
<1>1. /\ UNCHANGED <<epoch, seq, row, backup, unpublished, orphans, late>>
      /\ copy' = [copy EXCEPT ![c] =
           [k \in Key |-> IF resp[c].got[k] # 0 THEN resp[c].got[k] ELSE copy[c][k]]]
      /\ cur' = [cur EXCEPT ![c] = resp[c].cursor]
      /\ want' = [want EXCEPT ![c] = want[c] \/ resp[c].more]
      /\ req' = [req EXCEPT ![c] = Idle]
      /\ resp' = [resp EXCEPT ![c] = NoResponse]
  BY DEF Deliver, db
<1>2. /\ req \in [Client -> Request]
      /\ resp \in [Client -> Response]
      /\ cur \in [Client -> Cursor]
      /\ copy \in [Client -> [Key -> Nat]]
      /\ want \in [Client -> BOOLEAN]
      /\ resp[c].cursor \in Cursor
      /\ resp[c].got \in [Key -> Nat]
      /\ resp[c].more \in BOOLEAN
      /\ epoch \in Nat
      /\ seq \in Nat
  BY DEF Passed, TypeOK, Response
<1> DEFINE merged == [k \in Key |-> IF resp[c].got[k] # 0 THEN resp[c].got[k] ELSE copy[c][k]]
<1>3. merged \in [Key -> Nat]
  BY <1>2
<1>4. /\ cur'[c] = resp[c].cursor /\ copy'[c] = merged /\ resp'[c] = NoResponse
      /\ \A d \in Client \ {c} : cur'[d] = cur[d] /\ copy'[d] = copy[d] /\ resp'[d] = resp[d]
  BY <1>1, <1>2
<1>5. TypeOK'
  <2>1. req' \in [Client -> Request] /\ resp' \in [Client -> Response]
    BY <1>1, <1>2, InitialTypes
  <2>2. cur' \in [Client -> Cursor] /\ want' \in [Client -> BOOLEAN]
    BY <1>1, <1>2
  <2>3. copy' \in [Client -> [Key -> Nat]]
    BY <1>1, <1>2, <1>3
  <2>. QED
    BY <1>1, <2>1, <2>2, <2>3 DEF Passed, TypeOK
<1>6. EpochsKnown'
  BY <1>1, <1>2, <1>4 DEF Passed, EpochsKnown, NoResponse, Start
<1>7. SeqsUnique'
  BY <1>1 DEF Passed, SeqsUnique, Numbered
<1>8. CursorWithinHead'
  <2>1. NoResponse.cursor.lib = 0 /\ NoResponse.cursor.hist = 0
    BY DEF NoResponse, Start
  <2>. QED
    BY <1>1, <1>2, <1>4, <2>1 DEF Passed, CursorWithinHead
<1>9. NoLostRow'
  <2>1. SUFFICES ASSUME NEW d \in Client, cur'[d].epoch = epoch,
                        NEW k \in Key, row[k] # 0, row[k] <= Part(cur'[d], k)
                 PROVE  copy'[d][k] = row[k]
    BY <1>1 DEF NoLostRow, Part
  <2>2. CASE d # c
    BY <2>1, <2>2, <1>4 DEF Passed, NoLostRow
  <2>3. CASE d = c
    <3>1. IF resp[c].got[k] # 0 THEN resp[c].got[k] = row[k] ELSE copy[c][k] = row[k]
      BY <2>1, <2>3, <1>4 DEF Passed, ResponseComplete
    <3>2. copy'[c][k] = IF resp[c].got[k] # 0 THEN resp[c].got[k] ELSE copy[c][k]
      BY <1>4
    <3>. QED
      BY <3>1, <3>2, <2>3
  <2>. QED
    BY <2>2, <2>3
<1>10. ResponseComplete'
  <2>1. SUFFICES ASSUME NEW d \in Client, resp'[d].cursor.epoch = epoch,
                        NEW k \in Key, row[k] # 0, row[k] <= Part(resp'[d].cursor, k)
                 PROVE  IF resp'[d].got[k] # 0 THEN resp'[d].got[k] = row[k]
                                               ELSE copy'[d][k] = row[k]
    BY <1>1 DEF ResponseComplete, Part
  <2>2. d # c
    BY <2>1, <1>4 DEF Passed, EpochsKnown, NoResponse, Start
  <2>. QED
    BY <2>1, <2>2, <1>4 DEF Passed, ResponseComplete
<1>11. ResponseOfAnswered'
  <2>1. \A d \in Client \ {c} : req'[d] = req[d]
    BY <1>1, <1>2
  <2>. QED
    BY <2>1, <1>4 DEF Passed, ResponseOfAnswered
<1>. QED
  BY <1>5, <1>6, <1>7, <1>8, <1>9, <1>10, <1>11 DEF Passed

\* Starting over: the empty cursor has passed nothing.
LEMMA StartOverStep ==
  ASSUME Passed, NEW c \in Client, StartOver(c)
  PROVE  Passed'
<1>1. /\ UNCHANGED <<epoch, seq, row, backup, unpublished, resp, orphans, late>>
      /\ req[c].phase = "gone"
      /\ cur' = [cur EXCEPT ![c] = Start]
      /\ copy' = [copy EXCEPT ![c] = Nothing]
      /\ want' = [want EXCEPT ![c] = TRUE]
      /\ req' = [req EXCEPT ![c] = Idle]
  BY DEF StartOver, db
<1>2. /\ req \in [Client -> Request]
      /\ cur \in [Client -> Cursor]
      /\ copy \in [Client -> [Key -> Nat]]
      /\ want \in [Client -> BOOLEAN]
      /\ epoch >= 1
      /\ epoch \in Nat
  BY DEF Passed, TypeOK, EpochsKnown
<1>3. /\ cur'[c].epoch # epoch /\ cur'[c].epoch <= epoch
      /\ resp[c].cursor.epoch # epoch
      /\ \A d \in Client \ {c} : cur'[d] = cur[d] /\ copy'[d] = copy[d]
  BY <1>1, <1>2 DEF Passed, ResponseOfAnswered, NoResponse, Start
<1>4. TypeOK'
  <2>1. req' \in [Client -> Request] /\ cur' \in [Client -> Cursor]
    BY <1>1, <1>2, InitialTypes
  <2>2. copy' \in [Client -> [Key -> Nat]] /\ want' \in [Client -> BOOLEAN]
    BY <1>1, <1>2, InitialTypes
  <2>. QED
    BY <1>1, <2>1, <2>2 DEF Passed, TypeOK
<1>5. EpochsKnown'
  BY <1>1, <1>3 DEF Passed, EpochsKnown
<1>6. SeqsUnique'
  BY <1>1 DEF Passed, SeqsUnique, Numbered
<1>7. CursorWithinHead'
  BY <1>1, <1>3 DEF Passed, CursorWithinHead
<1>8. NoLostRow'
  BY <1>1, <1>3 DEF Passed, NoLostRow, Part
<1>9. ResponseComplete'
  BY <1>1, <1>3 DEF Passed, ResponseComplete, Part
<1>10. ResponseOfAnswered'
  <2>1. \A d \in Client \ {c} : req'[d] = req[d]
    BY <1>1, <1>2
  <2>. QED
    BY <2>1, <1>1 DEF Passed, ResponseOfAnswered
<1>. QED
  BY <1>4, <1>5, <1>6, <1>7, <1>8, <1>9, <1>10 DEF Passed

\* sync.changed only wakes devices.
LEMMA PublishStep ==
  ASSUME Passed, NEW c \in Client, Publish(c)
  PROVE  Passed'
<1>1. TypeOK' /\ UNCHANGED <<epoch, seq, row, backup, req, resp, cur, copy>>
  BY DEF Publish, db, Passed, TypeOK
<1>2. ResponseOfAnswered'
  BY <1>1 DEF Passed, ResponseOfAnswered
<1>. QED
  BY <1>1, <1>2, Frame

\* So does the user.
LEMMA WakeStep ==
  ASSUME Passed, NEW c \in Client, Wake(c)
  PROVE  Passed'
<1>1. TypeOK' /\ UNCHANGED <<epoch, seq, row, backup, req, resp, cur, copy>>
  BY DEF Wake, db, Passed, TypeOK
<1>2. ResponseOfAnswered'
  BY <1>1 DEF Passed, ResponseOfAnswered
<1>. QED
  BY <1>1, <1>2, Frame

\* A new request touches neither the rows nor the copies.
LEMMA SendStep ==
  ASSUME Passed, NEW c \in Client, NEW limit \in 1 .. MaxLimit, NEW streams \in Streams,
         Send(c, limit, streams)
  PROVE  Passed'
<1>1. /\ req \in [Client -> Request]
      /\ want \in [Client -> BOOLEAN]
      /\ limit \in Nat
      /\ UNCHANGED <<epoch, seq, row, backup, resp, cur, copy, orphans>>
  BY BoundAssumption DEF Passed, TypeOK, Send, db
<1>2. req' \in [Client -> Request]
  BY <1>1 DEF Send, Request
<1>3. TypeOK'
  BY <1>1, <1>2 DEF Passed, TypeOK, Send
<1>4. ResponseOfAnswered'
  BY <1>1 DEF Passed, ResponseOfAnswered, Send
<1>. QED
  BY <1>1, <1>3, <1>4, Frame

\* Neither does 410.
LEMMA RefuseStep ==
  ASSUME Passed, NEW c \in Client, Refuse(c)
  PROVE  Passed'
<1>1. UNCHANGED <<epoch, seq, row, backup, unpublished, resp, cur, copy, want, orphans, late>>
  BY DEF Refuse, db
<1>2. req' \in [Client -> Request]
  BY DEF Refuse, Passed, TypeOK, Request
<1>3. TypeOK'
  BY <1>1, <1>2 DEF Passed, TypeOK
<1>4. ResponseOfAnswered'
  BY <1>1 DEF Refuse, Passed, ResponseOfAnswered, TypeOK, Request
<1>. QED
  BY <1>1, <1>3, <1>4, Frame

\* Giving up on a request drops its response and nothing else that matters.
LEMMA AbandonStep ==
  ASSUME Passed, NEW c \in Client, Abandon(c)
  PROVE  Passed'
<1>1. /\ UNCHANGED <<epoch, seq, row, backup, unpublished, cur, copy, late>>
      /\ req' = [req EXCEPT ![c] = Idle]
      /\ resp' = [resp EXCEPT ![c] = NoResponse]
      /\ want' = [want EXCEPT ![c] = TRUE]
      /\ orphans' \subseteq Client
  BY DEF Abandon, db, Passed, TypeOK
<1>2. /\ req \in [Client -> Request]
      /\ resp \in [Client -> Response]
      /\ want \in [Client -> BOOLEAN]
      /\ epoch >= 1
      /\ epoch \in Nat
  BY DEF Passed, TypeOK, EpochsKnown
<1>3. /\ resp'[c] = NoResponse
      /\ NoResponse.cursor.epoch = 0
      /\ \A d \in Client \ {c} : resp'[d] = resp[d] /\ req'[d] = req[d]
  BY <1>1, <1>2 DEF NoResponse, Start
<1>4. TypeOK'
  <2>1. req' \in [Client -> Request] /\ resp' \in [Client -> Response]
    BY <1>1, <1>2, InitialTypes
  <2>. QED
    BY <1>1, <1>2, <2>1 DEF Passed, TypeOK
<1>5. EpochsKnown'
  BY <1>1, <1>2, <1>3 DEF Passed, EpochsKnown
<1>6. SeqsUnique'
  BY <1>1 DEF Passed, SeqsUnique, Numbered
<1>7. CursorWithinHead'
  BY <1>1, <1>2, <1>3 DEF Passed, CursorWithinHead
<1>8. NoLostRow'
  BY <1>1 DEF Passed, NoLostRow, Part
<1>9. ResponseComplete'
  BY <1>1, <1>2, <1>3 DEF Passed, ResponseComplete, Part
<1>10. ResponseOfAnswered'
  BY <1>3 DEF Passed, ResponseOfAnswered
<1>. QED
  BY <1>4, <1>5, <1>6, <1>7, <1>8, <1>9, <1>10 DEF Passed

\* A crash drops the requests the server had not answered.
LEMMA CrashedFacts ==
  ASSUME Passed, Crashed
  PROVE  /\ UNCHANGED <<resp, cur, copy, late>>
         /\ req' \in [Client -> Request]
         /\ want' \in [Client -> BOOLEAN]
         /\ unpublished' = {}
         /\ orphans' = {}
         /\ ResponseOfAnswered'
<1>1. req \in [Client -> Request]
  BY DEF Passed, TypeOK
<1>2. req' = [c \in Client |-> IF req[c].phase \in {"sent", "written"} THEN Idle ELSE req[c]]
  BY DEF Crashed
<1>3. req' \in [Client -> Request]
  BY <1>1, <1>2, InitialTypes
<1>4. ResponseOfAnswered'
  BY <1>2 DEF Crashed, Passed, ResponseOfAnswered
<1>. QED
  BY <1>3, <1>4 DEF Crashed

\* Crashes, backups, restores and rotated epochs keep the invariant.
LEMMA DatabaseStep ==
  ASSUME Passed, Crash \/ TakeBackup \/ Restore \/ RotateEpoch
  PROVE  Passed'
<1>1. /\ epoch \in Nat
      /\ seq \in Nat
      /\ row \in [Key -> Nat]
      /\ backup \in [epoch : Nat, seq : Nat, row : [Key -> Nat]]
  BY DEF Passed, TypeOK
<1>2. CASE Crash
  <2>1. UNCHANGED <<epoch, seq, row, backup>> /\ Crashed
    BY <1>2 DEF Crash, db
  <2>2. TypeOK'
    BY <2>1, CrashedFacts DEF Passed, TypeOK
  <2>. QED
    BY <2>1, <2>2, CrashedFacts, Frame
<1>3. CASE TakeBackup
  <2>1. /\ UNCHANGED <<epoch, seq, row, unpublished, req, resp, cur, copy, want, orphans, late>>
        /\ backup' = [epoch |-> epoch, seq |-> seq, row |-> row]
    BY <1>3 DEF TakeBackup, db, device
  <2>2. TypeOK'
    BY <1>1, <2>1 DEF Passed, TypeOK
  <2>3. EpochsKnown'
    BY <1>1, <2>1 DEF Passed, EpochsKnown
  <2>4. SeqsUnique'
    BY <2>1 DEF Passed, SeqsUnique, Numbered
  <2>5. CursorWithinHead'
    BY <2>1 DEF Passed, CursorWithinHead
  <2>6. NoLostRow'
    BY <2>1 DEF Passed, NoLostRow, Part
  <2>7. ResponseComplete'
    BY <2>1 DEF Passed, ResponseComplete, Part
  <2>8. ResponseOfAnswered'
    BY <2>1 DEF Passed, ResponseOfAnswered
  <2>. QED
    BY <2>2, <2>3, <2>4, <2>5, <2>6, <2>7, <2>8 DEF Passed
<1>4. CASE Restore
  <2>1. /\ epoch' = epoch + 1
        /\ seq' = backup.seq
        /\ row' = backup.row
        /\ Crashed
        /\ UNCHANGED backup
    BY <1>4 DEF Restore
  <2>2. TypeOK'
    BY <1>1, <2>1, CrashedFacts DEF Passed, TypeOK
  <2>3. SeqsUnique'
    BY <2>1 DEF Passed, SeqsUnique, Numbered
  <2>. QED
    BY <2>1, <2>2, <2>3, CrashedFacts, FreshEpoch
<1>5. CASE RotateEpoch
  <2>1. /\ epoch' = epoch + 1
        /\ UNCHANGED <<seq, row, backup, unpublished, req, resp, cur, copy, want, orphans, late>>
    BY <1>5 DEF RotateEpoch, device
  <2>2. TypeOK'
    BY <1>1, <2>1 DEF Passed, TypeOK
  <2>3. SeqsUnique'
    BY <2>1 DEF Passed, SeqsUnique, Numbered
  <2>4. ResponseOfAnswered'
    BY <2>1 DEF Passed, ResponseOfAnswered
  <2>. QED
    BY <2>1, <2>2, <2>3, <2>4, FreshEpoch
<1>. QED
  BY <1>2, <1>3, <1>4, <1>5

\* Every step of the system keeps the invariant.
LEMMA NextPassed == Passed /\ [Next]_vars => Passed'
<1> SUFFICES ASSUME Passed, [Next]_vars PROVE Passed'
  OBVIOUS
<1>1. ASSUME NEW c \in Client, DeviceCommit(c) \/ LateCommit(c) PROVE Passed'
  BY <1>1, DeviceCommitStep, LateCommitStep
<1>2. ASSUME NEW gone \in SUBSET Removable, Retain(gone) PROVE Passed'
  <2>1. gone \in SUBSET Key
    BY KeyAssumption
  <2>. QED
    BY <1>2, <2>1, RetainStep
<1>3. ASSUME NEW c \in Client, NEW limit \in 1 .. MaxLimit, NEW streams \in Streams,
             Send(c, limit, streams)
      PROVE  Passed'
  BY <1>3, SendStep
<1>4. ASSUME NEW c \in Client, NEW extra \in SUBSET Key, Read(c, extra) PROVE Passed'
  BY <1>4, ReadStep
<1>5. ASSUME NEW c \in Client, Publish(c) PROVE Passed'
  BY <1>5, PublishStep
<1>6. ASSUME NEW c \in Client, Wake(c) PROVE Passed'
  BY <1>6, WakeStep
<1>7. ASSUME NEW c \in Client, Refuse(c) PROVE Passed'
  BY <1>7, RefuseStep
<1>8. ASSUME NEW c \in Client, Deliver(c) PROVE Passed'
  BY <1>8, DeliverStep
<1>9. ASSUME NEW c \in Client, StartOver(c) PROVE Passed'
  BY <1>9, StartOverStep
<1>10. ASSUME NEW c \in Client, Abandon(c) PROVE Passed'
  BY <1>10, AbandonStep
<1>11. CASE Crash \/ TakeBackup \/ Restore \/ RotateEpoch
  BY <1>11, DatabaseStep
<1>12. CASE UNCHANGED vars
  <2>1. /\ UNCHANGED <<epoch, seq, row, backup, resp, cur, copy>>
        /\ TypeOK'
    BY <1>12 DEF vars, Passed, TypeOK
  <2>2. ResponseOfAnswered'
    BY <1>12 DEF vars, Passed, ResponseOfAnswered
  <2>. QED
    BY <2>1, <2>2, Frame
<1>. QED
  BY <1>1, <1>2, <1>3, <1>4, <1>5, <1>6, <1>7, <1>8, <1>9, <1>10, <1>11, <1>12 DEF Next

-----------------------------------------------------------------------------
(***************************************************************************)
(* Wake-ups.                                                               *)
(***************************************************************************)

\* A stream that is exhausted ends at the head.
LEMMA ExhaustedEnds ==
  ASSUME NEW tables, NEW after, NEW budget, NEW r \in StreamReads(tables, after, budget), r.exhausted
  PROVE  r.end = seq
<1>1. CASE after >= seq
  <2>1. r = StreamPage({}, seq, TRUE)
    BY <1>1 DEF StreamReads
  <2>. QED
    BY <2>1 DEF StreamPage
<1>2. CASE ~(after >= seq) /\ budget <= 0
  <2>1. r = StreamPage({}, after, FALSE)
    BY <1>2 DEF StreamReads
  <2>. QED
    BY <2>1 DEF StreamPage
<1>3. CASE ~(after >= seq) /\ ~(budget <= 0)
  <2>1. PICK read \in TableReads(tables, after, budget + 1) : r \in Cut(read, budget)
    BY <1>3 DEF StreamReads
  <2>2. PICK taken, exhausted : \E end \in Ends(taken, exhausted) : r = StreamPage(taken, end, exhausted)
    BY <2>1 DEF Cut
  <2>3. PICK end \in Ends(taken, exhausted) : r = StreamPage(taken, end, exhausted)
    BY <2>2
  <2>4. r.end = end /\ r.exhausted = exhausted
    BY <2>3 DEF StreamPage
  <2>. QED
    BY <2>3, <2>4 DEF Ends
<1>. QED
  BY <1>1, <1>2, <1>3

\* A response to a whole pull that promises no more has the head for its cursor.
LEMMA WholeAnswer ==
  ASSUME Passed, NEW c \in Client, NEW extra \in SUBSET Key, Read(c, extra), req[c].streams = Both, ~resp'[c].more
  PROVE  \A k \in Key : Part(resp'[c].cursor, k) = seq
<1>1. PICK lib \in LibraryReads(c) : \E hist \in HistoryReads(c, lib) : Answer(c, lib, hist, extra)
  BY DEF Read
<1>2. PICK hist \in HistoryReads(c, lib) : Answer(c, lib, hist, extra)
  BY <1>1
<1>3. resp \in [Client -> Response]
  BY DEF Passed, TypeOK
<1>4. /\ resp'[c].cursor = [epoch |-> epoch, lib |-> lib.end, hist |-> hist.end]
      /\ resp'[c].more = (~lib.exhausted \/ ~hist.exhausted)
  BY <1>2, <1>3 DEF Answer
<1>5. lib.exhausted /\ hist.exhausted
  BY <1>4
<1>6. lib \in StreamReads(Library, cur[c].lib, req[c].limit)
  BY DEF LibraryReads, Both
<1>7. hist \in StreamReads(History, cur[c].hist, req[c].limit - Cardinality(lib.taken))
  BY DEF HistoryReads, Both
<1>8. lib.end = seq /\ hist.end = seq
  BY <1>5, <1>6, <1>7, ExhaustedEnds
<1>. QED
  BY <1>4, <1>8 DEF Part

LEMMA InitCovered == Init => NoLostWakeup
BY DEF Init, NoLostWakeup, Covered, Idle

\* What changes for a device that does nothing: it is woken, an event for it is owed, or no row changed but to go.
LEMMA OthersCover ==
  ASSUME NEW c \in Client, Covered(c), req'[c] = req[c], resp'[c] = resp[c], cur'[c] = cur[c], copy'[c] = copy[c],
         UNCHANGED epoch, want[c] => want'[c],
         \/ want'[c]
         \/ Others(c)'
         \/ ~Others(c) /\ \A k \in Key : row'[k] # 0 => row'[k] = row[k]
  PROVE  Covered(c)'
BY DEF Covered, Held

\* A commit is owed to all but its author, or only removed rows.
LEMMA CommitOwed ==
  ASSUME TypeOK, SeqsUnique, NEW a \in Client, Commit(a), NEW c \in Client
  PROVE  /\ Others(c) => Others(c)'
         /\ \/ seq' # seq /\ (a # c => Others(c)')
            \/ seq' = seq /\ \A k \in Key : row'[k] # 0 => row'[k] = row[k]
<1>1. PICK top \in seq .. MaxSeq :
        /\ seq' = top
        /\ row' \in Rows(top)
        /\ unpublished' = IF top = seq THEN unpublished ELSE unpublished \cup {a}
  BY DEF Commit
<1>2. Others(c) => Others(c)'
  BY <1>1 DEF Others
<1>3. CASE top = seq
  <2>1. \A k \in Key : row'[k] \in 0 .. seq /\ (row'[k] = row[k] \/ row'[k] > seq \/ row'[k] = 0)
    BY <1>1, <1>3 DEF Rows
  <2>2. seq \in Nat
    BY DEF TypeOK
  <2>. QED
    BY <1>1, <1>2, <1>3, <2>1, <2>2
<1>4. CASE top # seq
  BY <1>1, <1>2, <1>4 DEF Others
<1>. QED
  BY <1>3, <1>4

LEMMA CommitsCover ==
  ASSUME Passed, NoLostWakeup, NEW a \in Client, DeviceCommit(a) \/ LateCommit(a)
  PROVE  NoLostWakeup'
<1>1. Commit(a) /\ UNCHANGED <<epoch, resp, cur, copy, want>> /\ TypeOK /\ SeqsUnique
  BY DEF DeviceCommit, LateCommit, device, Passed
<1>2. ASSUME NEW c \in Client, c \notin late', c # a \/ LateCommit(a) PROVE Covered(c)'
  <2>1. c \notin late
    BY <1>2 DEF DeviceCommit, LateCommit
  <2>2. Covered(c)
    BY <2>1 DEF NoLostWakeup
  <2>3. req'[c] = req[c]
    BY <1>2 DEF DeviceCommit, LateCommit, device, Passed, TypeOK
  <2>4. \/ Others(c)'
        \/ ~Others(c) /\ \A k \in Key : row'[k] # 0 => row'[k] = row[k]
    <3>1. c # a \/ seq' = seq
      BY <1>2 DEF LateCommit
    <3>. QED
      BY <1>1, <3>1, CommitOwed
  <2>. QED
    BY <1>1, <2>2, <2>3, <2>4, OthersCover
<1>3. ASSUME a \notin late', DeviceCommit(a) PROVE Covered(a)'
  <2>1. a \notin late /\ req[a].phase = "sent" /\ req[a] \in Request
    BY <1>3 DEF DeviceCommit, Passed, TypeOK
  <2>2. req'[a].phase = "written" /\ req'[a].streams = req[a].streams
    BY <1>3, <2>1 DEF DeviceCommit, Passed, TypeOK, Request
  <2>3. Covered(a)
    BY <2>1 DEF NoLostWakeup
  <2>. QED
    BY <1>1, <2>1, <2>2, <2>3 DEF Covered
<1>. QED
  BY <1>2, <1>3 DEF NoLostWakeup

\* An event that was owed to a device wakes it.
LEMMA PublishCovers ==
  ASSUME Passed, NoLostWakeup, NEW a \in Client, Publish(a)
  PROVE  NoLostWakeup'
<1>1. /\ unpublished' = unpublished \ {a} /\ want' = [c \in Client |-> want[c] \/ c # a]
      /\ UNCHANGED <<epoch, row, req, resp, cur, copy, late>>
  BY DEF Publish, db
<1>2. ASSUME NEW c \in Client, Covered(c) PROVE Covered(c)'
  <2>1. want[c] => want'[c]
    BY <1>1
  <2>2. want'[c] \/ (~Others(c) \/ Others(c)')
    BY <1>1 DEF Others
  <2>. QED
    BY <1>1, <1>2, <2>1, <2>2, OthersCover
<1>. QED
  BY <1>1, <1>2 DEF NoLostWakeup

\* The other devices see nothing of what one does.
LEMMA DeviceCovers ==
  ASSUME Passed, NoLostWakeup, NEW a \in Client, UNCHANGED <<epoch, row, unpublished>>, late' = late \/ late' = late \ {a},
         \A c \in Client \ {a} : /\ req'[c] = req[c] /\ resp'[c] = resp[c] /\ cur'[c] = cur[c]
                                 /\ copy'[c] = copy[c] /\ want'[c] = want[c],
         a \notin late' => Covered(a)'
  PROVE  NoLostWakeup'
<1>1. ASSUME NEW c \in Client \ {a}, c \notin late' PROVE Covered(c)'
  <2>1. Covered(c)
    BY <1>1 DEF NoLostWakeup
  <2>2. Others(c)' = Others(c)
    BY DEF Others
  <2>. QED
    BY <2>1, <2>2, OthersCover
<1>. QED
  BY <1>1 DEF NoLostWakeup

\* A device that has a reason to pull is covered.
LEMMA WantingCovered ==
  ASSUME NEW c \in Client, want'[c]
  PROVE  Covered(c)'
BY DEF Covered

LEMMA WakeCovers ==
  ASSUME Passed, NoLostWakeup, NEW a \in Client, Wake(a) \/ StartOver(a) \/ Abandon(a)
  PROVE  NoLostWakeup'
<1>1. want'[a] /\ UNCHANGED <<epoch, row, unpublished, late>>
  BY DEF Wake, StartOver, Abandon, db, Passed, TypeOK
<1>2. \A c \in Client \ {a} : /\ req'[c] = req[c] /\ resp'[c] = resp[c] /\ cur'[c] = cur[c]
                              /\ copy'[c] = copy[c] /\ want'[c] = want[c]
  BY DEF Wake, StartOver, Abandon, Passed, TypeOK
<1>. QED
  BY <1>1, <1>2, WantingCovered, DeviceCovers

LEMMA SendCovers ==
  ASSUME Passed, NoLostWakeup, NEW a \in Client, NEW limit \in 1 .. MaxLimit, NEW streams \in Streams,
         Send(a, limit, streams)
  PROVE  NoLostWakeup'
<1>1. /\ req' = [req EXCEPT ![a] = [phase |-> "sent", limit |-> limit, streams |-> streams]]
      /\ want' = [want EXCEPT ![a] = streams # Both] /\ late' = late \ {a}
      /\ UNCHANGED <<epoch, row, unpublished, resp, cur, copy>>
  BY DEF Send, db
<1>2. req'[a].phase = "sent" /\ req'[a].streams = streams /\ (want'[a] <=> streams # Both)
  BY <1>1 DEF Passed, TypeOK
<1>3. Covered(a)'
  BY <1>2 DEF Covered
<1>4. \A c \in Client \ {a} : req'[c] = req[c] /\ want'[c] = want[c]
  BY <1>1 DEF Passed, TypeOK
<1>. QED
  BY <1>1, <1>3, <1>4, DeviceCovers

LEMMA ReadCovers ==
  ASSUME Passed, NoLostWakeup, NEW a \in Client, NEW extra \in SUBSET Key, Read(a, extra)
  PROVE  NoLostWakeup'
<1>1. /\ req[a].phase \in {"sent", "written"} /\ req' = [req EXCEPT ![a].phase = "answered"]
      /\ UNCHANGED <<epoch, seq, row, unpublished, cur, copy, want, late>>
      /\ \E answer : resp' = [resp EXCEPT ![a] = answer]
  BY DEF Read, Answer, db
<1>2. req'[a].phase = "answered"
  BY <1>1 DEF Passed, TypeOK, Request
<1>3. \A c \in Client \ {a} : req'[c] = req[c] /\ resp'[c] = resp[c]
  BY <1>1 DEF Passed, TypeOK
<1>4. ASSUME a \notin late, ~want[a], ~resp'[a].more, resp'[a].cursor.epoch = epoch, NEW k \in Key, row[k] # 0
      PROVE  (IF resp'[a].got[k] # 0 THEN resp'[a].got[k] ELSE copy[a][k]) = row[k]
  <2>1. req[a].streams = Both
    BY <1>1, <1>4 DEF NoLostWakeup, Covered
  <2>2. Part(resp'[a].cursor, k) = seq
    BY <1>4, <2>1, WholeAnswer
  <2>3. row[k] <= seq
    BY DEF Passed, SeqsUnique, Numbered
  <2>4. ResponseComplete' /\ UNCHANGED <<epoch, row, copy>>
    BY <1>1, ReadStep DEF Passed
  <2>5. row[k] <= Part(resp'[a].cursor, k)
    BY <2>2, <2>3
  <2>. QED
    BY <1>4, <2>4, <2>5 DEF ResponseComplete, Part
<1>5. a \notin late' => Covered(a)'
  BY <1>1, <1>2, <1>4 DEF Covered, Held
<1>. QED
  BY <1>1, <1>3, <1>5, DeviceCovers

LEMMA RefuseCovers ==
  ASSUME Passed, NoLostWakeup, NEW a \in Client, Refuse(a)
  PROVE  NoLostWakeup'
<1>1. /\ req' = [req EXCEPT ![a].phase = "gone"]
      /\ UNCHANGED <<epoch, row, unpublished, resp, cur, copy, want, late>>
  BY DEF Refuse, db
<1>2. req'[a].phase = "gone" /\ \A c \in Client \ {a} : req'[c] = req[c]
  BY <1>1 DEF Passed, TypeOK, Request
<1>3. Covered(a)'
  BY <1>2 DEF Covered
<1>. QED
  BY <1>1, <1>2, <1>3, DeviceCovers

\* The response is stored: what it left out is to come, or nothing is.
LEMMA DeliverCovers ==
  ASSUME Passed, NoLostWakeup, NEW a \in Client, Deliver(a)
  PROVE  NoLostWakeup'
<1>1. /\ req[a].phase = "answered"
      /\ copy' = [copy EXCEPT ![a] = [k \in Key |-> IF resp[a].got[k] # 0 THEN resp[a].got[k] ELSE copy[a][k]]]
      /\ cur' = [cur EXCEPT ![a] = resp[a].cursor]
      /\ want' = [want EXCEPT ![a] = want[a] \/ resp[a].more]
      /\ req' = [req EXCEPT ![a] = Idle] /\ resp' = [resp EXCEPT ![a] = NoResponse]
      /\ UNCHANGED <<epoch, row, unpublished, late>>
  BY DEF Deliver, db
<1>2. /\ req'[a] = Idle /\ cur'[a] = resp[a].cursor /\ (want'[a] <=> want[a] \/ resp[a].more)
      /\ copy'[a] = [k \in Key |-> IF resp[a].got[k] # 0 THEN resp[a].got[k] ELSE copy[a][k]]
  BY <1>1 DEF Passed, TypeOK
<1>3. \A c \in Client \ {a} : /\ req'[c] = req[c] /\ resp'[c] = resp[c] /\ cur'[c] = cur[c]
                              /\ copy'[c] = copy[c] /\ want'[c] = want[c]
  BY <1>1 DEF Passed, TypeOK
<1>4. ASSUME a \notin late PROVE Covered(a)'
  <2>1. \/ want[a] \/ resp[a].more \/ Others(a) \/ resp[a].cursor.epoch # epoch
        \/ \A k \in Key : row[k] # 0 => copy'[a][k] = row[k]
    BY <1>1, <1>2, <1>4 DEF NoLostWakeup, Covered, Held
  <2>2. \/ want'[a] \/ Others(a)' \/ cur'[a].epoch # epoch'
        \/ \A k \in Key : row'[k] # 0 => copy'[a][k] = row'[k]
    BY <1>1, <1>2, <2>1 DEF Others
  <2>3. req'[a].phase = "idle"
    BY <1>2 DEF Idle
  <2>. QED
    BY <2>2, <2>3 DEF Covered, Held
<1>. QED
  BY <1>1, <1>3, <1>4, DeviceCovers

\* Retention, backups and rotated epochs take nothing from a device that it should be told of.
LEMMA DatabaseCovers ==
  ASSUME Passed, NoLostWakeup, (\E gone \in SUBSET Removable : Retain(gone)) \/ Crash \/ TakeBackup \/ Restore \/ RotateEpoch
  PROVE  NoLostWakeup'
<1>1. CASE \E gone \in SUBSET Removable : Retain(gone)
  <2>1. /\ \A k \in Key : row'[k] # 0 => row'[k] = row[k]
        /\ UNCHANGED <<epoch, unpublished, req, resp, cur, copy, want, late>>
    BY <1>1 DEF Retain, device
  <2>2. ASSUME NEW c \in Client, Covered(c) PROVE Covered(c)'
    <3>1. Others(c) => Others(c)'
      BY <2>1 DEF Others
    <3>. QED
      BY <2>1, <2>2, <3>1, OthersCover
  <2>. QED
    BY <2>1, <2>2 DEF NoLostWakeup
<1>2. CASE Crash \/ Restore
  <2>1. \A c \in Client : want'[c]
    BY <1>2 DEF Crash, Restore, Crashed
  <2>. QED
    BY <2>1, WantingCovered DEF NoLostWakeup
<1>3. CASE TakeBackup
  <2>1. UNCHANGED <<epoch, row, unpublished, req, resp, cur, copy, want, late>>
    BY <1>3 DEF TakeBackup, db, device
  <2>. QED
    BY <2>1 DEF NoLostWakeup, Covered, Others, Held
<1>4. CASE RotateEpoch
  <2>1. epoch' = epoch + 1 /\ UNCHANGED <<row, unpublished, req, resp, cur, copy, want, late>>
    BY <1>4 DEF RotateEpoch, device
  <2>2. ASSUME NEW c \in Client, Covered(c) PROVE Covered(c)'
    <3>1. cur[c].epoch # epoch' /\ resp[c].cursor.epoch # epoch'
      BY <2>1 DEF Passed, EpochsKnown, TypeOK, Cursor, Response
    <3>. QED
      BY <2>1, <2>2, <3>1 DEF Covered
  <2>. QED
    BY <2>1, <2>2 DEF NoLostWakeup
<1>. QED
  BY <1>1, <1>2, <1>3, <1>4

LEMMA NextCovers == Passed /\ NoLostWakeup /\ [Next]_vars => NoLostWakeup'
<1> SUFFICES ASSUME Passed, NoLostWakeup, [Next]_vars PROVE NoLostWakeup'
  OBVIOUS
<1>1. ASSUME NEW c \in Client, DeviceCommit(c) \/ LateCommit(c) PROVE NoLostWakeup'
  BY <1>1, CommitsCover
<1>2. ASSUME NEW c \in Client, NEW limit \in 1 .. MaxLimit, NEW streams \in Streams, Send(c, limit, streams)
      PROVE  NoLostWakeup'
  BY <1>2, SendCovers
<1>3. ASSUME NEW c \in Client, NEW extra \in SUBSET Key, Read(c, extra) PROVE NoLostWakeup'
  BY <1>3, ReadCovers
<1>4. ASSUME NEW c \in Client, Publish(c) PROVE NoLostWakeup'
  BY <1>4, PublishCovers
<1>5. ASSUME NEW c \in Client, Wake(c) \/ StartOver(c) \/ Abandon(c) PROVE NoLostWakeup'
  BY <1>5, WakeCovers
<1>6. ASSUME NEW c \in Client, Refuse(c) PROVE NoLostWakeup'
  BY <1>6, RefuseCovers
<1>7. ASSUME NEW c \in Client, Deliver(c) PROVE NoLostWakeup'
  BY <1>7, DeliverCovers
<1>8. CASE (\E gone \in SUBSET Removable : Retain(gone)) \/ Crash \/ TakeBackup \/ Restore \/ RotateEpoch
  BY <1>8, DatabaseCovers
<1>9. CASE UNCHANGED vars
  BY <1>9 DEF vars, NoLostWakeup, Covered, Others, Held
<1>. QED
  BY <1>1, <1>2, <1>3, <1>4, <1>5, <1>6, <1>7, <1>8, <1>9 DEF Next

-----------------------------------------------------------------------------
(***************************************************************************)
(* What holds of every behaviour, for every set of rows, devices and       *)
(* tables and every bound.                                                 *)
(***************************************************************************)

\* The inductive invariant holds of the head, the rows and the devices at all times.
THEOREM Invariance == Spec => []IInv
<1>1. Init => IInv
  BY InitPassed, InitCovered DEF IInv
<1>2. IInv /\ [Next]_vars => IInv'
  BY NextPassed, NextCovers DEF IInv
<1>. QED
  BY <1>1, <1>2, PTL DEF Spec

\* The head, rows, requests, responses and cursors of POST /sync keep their types.
THEOREM TypeCorrect == Spec => []TypeOK
<1>1. IInv => TypeOK
  BY DEF IInv, Passed
<1>. QED
  BY <1>1, Invariance, PTL

\* lockUser and bumpHead give every stored row a seq of its own, never beyond the head,
\* also in the copy a restore brings back.
THEOREM RowsNumbered == Spec => []SeqsUnique
<1>1. IInv => SeqsUnique
  BY DEF IInv, Passed
<1>. QED
  BY <1>1, Invariance, PTL

\* readPage loses nothing: a cursor never passes a stored row its device does not hold,
\* for any number of tables, rows, page sizes, interleaved writes, crashes and restores.
THEOREM NothingLost == Spec => []NoLostRow
<1>1. IInv => NoLostRow
  BY DEF IInv, Passed
<1>. QED
  BY <1>1, Invariance, PTL

\* parseCursor answers 410 only when the epoch changed: a cursor of the current epoch is
\* within the head, although a restore puts the head back.
THEOREM CursorsWithinHead == Spec => []CursorWithinHead
<1>1. IInv => CursorWithinHead
  BY DEF IInv, Passed
<1>. QED
  BY <1>1, Invariance, PTL

\* No lost wake-up: when no event is owed, a device that waits for nothing and has no reason to pull holds every row,
\* but for one whose own abandoned request committed late.
THEOREM QuietIsCurrent == Spec => []QuietMeansCurrent
<1>1. IInv => QuietMeansCurrent
  BY DEF IInv, NoLostWakeup, Covered, Others, Held, QuietMeansCurrent, Current
<1>. QED
  BY <1>1, Invariance, PTL
=============================================================================
