-------------------------------- MODULE Lyrics --------------------------------
(***************************************************************************)
(* The lyrics of one user (src/modules/lyrics): versions numbered by a     *)
(* counter of the user, PUT and DELETE of a version, and the devices that  *)
(* follow the versions page by page with POST /auth/me/lyrics/changes.     *)
(*                                                                         *)
(* Unlike the rows of POST /sync, the versions have neither a head nor an  *)
(* epoch: the counter is the largest stored rev.                           *)
(***************************************************************************)
EXTENDS Integers, FiniteSets

CONSTANTS
  Follower,  \* devices of the user
  Video,     \* tracks that may have lyrics
  Text,      \* contents of a version
  NoText,    \* no version, or a tombstone
  Replaces,  \* a client that takes an answer to `after` 0 for all there is, as a first load
  MaxRev,    \* bound: writes of a behaviour
  MaxLimit   \* bound: the largest page size a device asks for

ASSUME FiniteAssumption == IsFiniteSet(Follower) /\ IsFiniteSet(Video)
ASSUME TextAssumption == NoText \notin Text
ASSUME ClientAssumption == Replaces \in BOOLEAN
ASSUME BoundAssumption == MaxRev \in Nat /\ MaxLimit \in Nat

VARIABLES
  lyrics,      \* lyrics[v]: the user's version of a video; rev 0: none, NoText: a tombstone
  backup,      \* the rows of the last copy of the database
  unpublished, \* authors of committed writes whose lyrics.changed is still to come
  req,         \* the request each device waits for
  after,       \* the rev a device has reached
  copy,        \* the version of each video a device holds
  want,        \* the device has a reason to ask for changes
  stray,       \* writes a device gave up on that the server may still run
  late         \* devices such a write committed for after their last request for changes

lyricsVars == <<lyrics, backup, unpublished, req, after, copy, want, stray, late>>
device == <<req, after, copy, want>>

None == [rev |-> 0, text |-> NoText]
Stored == {v \in Video : lyrics[v].rev # 0}

NoRequest == [phase |-> "idle"]
PutRequest(v, text) == [phase |-> "put", video |-> v, text |-> text]

LyricsInit ==
  /\ lyrics = [v \in Video |-> None]
  /\ backup = [v \in Video |-> None]
  /\ unpublished = {}
  /\ req = [d \in Follower |-> NoRequest]
  /\ after = [d \in Follower |-> 0]
  /\ copy = [d \in Follower |-> [v \in Video |-> None]]
  /\ want = [d \in Follower |-> TRUE]
  /\ stray = {}
  /\ late = {}

-----------------------------------------------------------------------------
(***************************************************************************)
(* Writing a version: lyrics.service.ts writeLyrics.                       *)
(***************************************************************************)

\* maxUserRev: the largest rev of the user, 0 without lyrics.
MaxUserRev ==
  LET revs == {lyrics[v].rev : v \in Video}
  IN CHOOSE top \in revs \cup {0} : \A rev \in revs : rev <= top

\* A PUT of the stored content and a DELETE without a live version change nothing.
Unchanged(v, text) == lyrics[v].text = text

\* upsertUserLyrics: one row per video.
Upserted(v, version) == [lyrics EXCEPT ![v] = version]

\* Under lockUser: a changed version gets the next rev of the user, and an event is owed.
Write(d, v, text) ==
  IF Unchanged(v, text)
    THEN UNCHANGED <<lyrics, unpublished>>
    ELSE /\ lyrics' = Upserted(v, [rev |-> MaxUserRev + 1, text |-> text])
         /\ unpublished' = unpublished \cup {d}

\* The request commits.  PUT answers with the stored version, DELETE with nothing: the
\* device erases its text.
CommitVersion(d) ==
  /\ req[d].phase = "put"
  /\ Write(d, req[d].video, req[d].text)
  /\ LET v == req[d].video
         erased == [copy[d][v] EXCEPT !.text = NoText]
     IN req' = [req EXCEPT ![d] =
          [phase |-> "stored", video |-> v, row |-> IF req[d].text = NoText THEN erased ELSE lyrics'[v]]]
  /\ UNCHANGED <<backup, after, copy, want, stray, late>>

\* A write its device gave up on commits after all.
StrayCommit(s) ==
  /\ s \in stray
  /\ stray' = stray \ {s}
  /\ Write(s.dev, s.video, s.text)
  /\ late' = IF Unchanged(s.video, s.text) THEN late ELSE late \cup {s.dev}
  /\ UNCHANGED <<backup, device>>

\* publishCoalesced after the commit: every device but the author.
PublishLyrics(d) ==
  /\ d \in unpublished
  /\ unpublished' = unpublished \ {d}
  /\ want' = [c \in Follower |-> want[c] \/ c # d]
  /\ UNCHANGED <<lyrics, backup, req, after, copy, stray, late>>

-----------------------------------------------------------------------------
(***************************************************************************)
(* Reading the changes: listUserChanges and listMyLyricsChanges.           *)
(***************************************************************************)

\* rev > after; the first load skips tombstones.
ChangesAfter(from) ==
  {v \in Stored : lyrics[v].rev > from /\ (from = 0 => lyrics[v].text # NoText)}

\* ORDER BY rev LIMIT n.
FirstOf(videos, n) ==
  CHOOSE page \in SUBSET videos :
    /\ Cardinality(page) = IF Cardinality(videos) < n THEN Cardinality(videos) ELSE n
    /\ \A v \in page, u \in videos \ page : lyrics[v].rev < lyrics[u].rev

LastRev(page, from) ==
  IF page = {} THEN from
  ELSE lyrics[CHOOSE v \in page : \A u \in page : lyrics[u].rev <= lyrics[v].rev].rev

Answered(page, rev, more) ==
  [phase |-> "changes", got |-> [v \in Video |-> IF v \in page THEN lyrics[v] ELSE None],
   rev |-> rev, more |-> more]

Larger(a, b) == IF a < b THEN b ELSE a

\* Variant: the rev moves with the last page only.
PageStands(from, limit) ==
  LET page == FirstOf(ChangesAfter(from), limit)
      more == Cardinality(ChangesAfter(from)) > limit
      last == LastRev(page, from)
  IN Answered(page, IF more THEN from ELSE IF from = 0 THEN Larger(last, MaxUserRev) ELSE last, more)

\* Variant: a first load jumps to the counter although there is more.
PageJumps(from, limit) ==
  LET page == FirstOf(ChangesAfter(from), limit)
      more == Cardinality(ChangesAfter(from)) > limit
      last == LastRev(page, from)
  IN Answered(page, IF from = 0 THEN Larger(last, MaxUserRev) ELSE last, more)

\* One row more than the page says whether there are more; a first load without more
\* jumps over the tombstones it skipped.
Page(from, limit) ==
  LET page == FirstOf(ChangesAfter(from), limit)
      more == Cardinality(ChangesAfter(from)) > limit
      last == LastRev(page, from)
  IN Answered(page, IF from = 0 /\ ~more THEN Larger(last, MaxUserRev) ELSE last, more)

\* POST /auth/me/lyrics/changes, one read transaction.
Read(d) ==
  /\ req[d].phase = "ask"
  /\ req' = [req EXCEPT ![d] = Page(after[d], req[d].limit)]
  /\ UNCHANGED <<lyrics, backup, unpublished, after, copy, want, stray, late>>

-----------------------------------------------------------------------------
(***************************************************************************)
(* A device: one request at a time.                                        *)
(***************************************************************************)

\* The user saves or deletes the lyrics of a video.
Edit(d, v, text) ==
  /\ req[d].phase = "idle"
  /\ MaxUserRev + Cardinality({c \in Follower : req[c].phase = "put"}) + Cardinality(stray) < MaxRev
  /\ req' = [req EXCEPT ![d] = PutRequest(v, text)]
  /\ UNCHANGED <<lyrics, backup, unpublished, after, copy, want, stray, late>>

\* The answer of PUT is the stored version.
Saved(d) ==
  /\ req[d].phase = "stored"
  /\ copy' = [copy EXCEPT ![d][req[d].video] = req[d].row]
  /\ req' = [req EXCEPT ![d] = NoRequest]
  /\ UNCHANGED <<lyrics, backup, unpublished, after, want, stray, late>>

Ask(d, limit) ==
  /\ req[d].phase = "idle"
  /\ want[d]
  /\ req' = [req EXCEPT ![d] = [phase |-> "ask", limit |-> limit]]
  /\ want' = [want EXCEPT ![d] = FALSE]
  /\ late' = late \ {d}
  /\ UNCHANGED <<lyrics, backup, unpublished, after, copy, stray>>

\* `rev` of the answer is `after` of the next request; `more` asks for it at once.
DeliverPage(d) ==
  /\ req[d].phase = "changes"
  /\ LET kept == IF Replaces /\ after[d] = 0 THEN [v \in Video |-> None] ELSE copy[d]
     IN copy' = [copy EXCEPT ![d] =
          [v \in Video |-> IF req[d].got[v].rev # 0 THEN req[d].got[v] ELSE kept[v]]]
  /\ after' = [after EXCEPT ![d] = req[d].rev]
  /\ want' = [want EXCEPT ![d] = want[d] \/ req[d].more]
  /\ req' = [req EXCEPT ![d] = NoRequest]
  /\ UNCHANGED <<lyrics, backup, unpublished, stray, late>>

\* Timeout or a lost answer; a write may reach the server later.
Abandon(d) ==
  /\ req[d].phase # "idle"
  /\ req' = [req EXCEPT ![d] = NoRequest]
  /\ want' = [want EXCEPT ![d] = TRUE]
  /\ stray' \in IF req[d].phase = "put"
                  THEN {stray, stray \cup {[dev |-> d, video |-> req[d].video, text |-> req[d].text]}}
                  ELSE {stray}
  /\ UNCHANGED <<lyrics, backup, unpublished, after, copy, late>>

-----------------------------------------------------------------------------
\* The process dies, and with it the requests it had not answered; every device that
\* reconnects asks for changes (API.md:1073).
Crashed ==
  /\ unpublished' = {}
  /\ stray' = {}
  /\ req' = [d \in Follower |-> IF req[d].phase \in {"put", "ask"} THEN NoRequest ELSE req[d]]
  /\ want' = [d \in Follower |-> TRUE]
  /\ UNCHANGED <<after, copy, late>>

Crash == Crashed /\ UNCHANGED <<lyrics, backup>>

TakeBackup ==
  /\ backup' = lyrics
  /\ UNCHANGED <<lyrics, unpublished, device, stray, late>>

\* A restore puts the versions back; the epochs it rotates are those of POST /sync.
Restore ==
  /\ Crashed
  /\ lyrics' = backup
  /\ UNCHANGED backup

LyricsNext ==
  \/ \E d \in Follower :
       \/ \E v \in Video, text \in Text \cup {NoText} : Edit(d, v, text)
       \/ CommitVersion(d)
       \/ Saved(d)
       \/ \E limit \in 1 .. MaxLimit : Ask(d, limit)
       \/ Read(d)
       \/ DeliverPage(d)
       \/ Abandon(d)
       \/ PublishLyrics(d)
  \/ \E s \in stray : StrayCommit(s)
  \/ Crash

RestoreNext == LyricsNext \/ TakeBackup \/ Restore

LyricsSpec == LyricsInit /\ [][LyricsNext]_lyricsVars
RestoreSpec == LyricsInit /\ [][RestoreNext]_lyricsVars

\* A device keeps asking, with pages of one version, until it is told there are no more;
\* some of its requests reach the server and some answers arrive.
Loop(d) == Ask(d, 1) \/ Read(d) \/ DeliverPage(d)

LyricsFairness ==
  \A d \in Follower :
    /\ WF_lyricsVars(Loop(d)) /\ WF_lyricsVars(CommitVersion(d))
    /\ WF_lyricsVars(Saved(d)) /\ WF_lyricsVars(PublishLyrics(d))
    /\ SF_lyricsVars(Ask(d, 1)) /\ SF_lyricsVars(Read(d)) /\ SF_lyricsVars(DeliverPage(d))

LyricsFairSpec == LyricsSpec /\ LyricsFairness

-----------------------------------------------------------------------------
(***************************************************************************)
(* Properties                                                              *)
(***************************************************************************)

LyricsRow == [rev : 0 .. MaxRev, text : Text \cup {NoText}]
LyricsRequest ==
  {NoRequest}
  \cup {PutRequest(v, text) : v \in Video, text \in Text \cup {NoText}}
  \cup [phase : {"stored"}, video : Video, row : LyricsRow]
  \cup [phase : {"ask"}, limit : 1 .. MaxLimit]
  \cup [phase : {"changes"}, got : [Video -> LyricsRow], rev : 0 .. MaxRev, more : BOOLEAN]

\* Versions, requests and copies have their types.
LyricsTypeOK ==
  /\ lyrics \in [Video -> LyricsRow]
  /\ backup \in [Video -> LyricsRow]
  /\ unpublished \subseteq Follower
  /\ req \in [Follower -> LyricsRequest]
  /\ after \in [Follower -> 0 .. MaxRev]
  /\ copy \in [Follower -> [Video -> LyricsRow]]
  /\ want \in [Follower -> BOOLEAN]
  /\ stray \subseteq [dev : Follower, video : Video, text : Text \cup {NoText}]
  /\ late \subseteq Follower

TextShown(d, v) == copy[d][v].text

\* A device that has reached a version's rev shows that version: no page, tombstone skipped by
\* the first load, write between two pages or answer to a write of its own makes it pass one
\* (API.md:964).
NothingMissed ==
  \A d \in Follower, v \in Stored :
    lyrics[v].rev <= after[d] => TextShown(d, v) = lyrics[v].text

\* Once the user stops, every device ends up showing the server's lyrics (tombstones
\* included), page by page and in spite of lost answers, unless a write it gave up on ran late.
Converges ==
  <>[](\A d \in Follower : d \notin late => \A v \in Video : TextShown(d, v) = lyrics[v].text)
=============================================================================
