----------------------------- MODULE AccountProofs -----------------------------
(***************************************************************************)
(* Proofs about Account: for every set of names, passwords and machines,   *)
(* every limit and every bound.                                            *)
(*                                                                         *)
(* A task carries what its request read.  The invariant says how far what  *)
(* it read is still good when it is written: a hash or a code that the     *)
(* account still has is one of its current generation (Informed), and      *)
(* rows of an account there never was are not written (Known).             *)
(***************************************************************************)
EXTENDS Account, FiniteSetTheorems, TLAPS

Kinds == {"register", "login", "password", "rotate", "rotating", "recover", "delete", "reset", "revoke", "revoking",
          "inactive", "removing", "write"}

\* What a task carries.
Typed(t) ==
  /\ t.kind \in Kinds
  /\ t.kind = "register" => /\ t.login \in Logins /\ t.word \in Words /\ t.hwid \in Hwids
                            /\ t.by \in {"self", "admin"}
  /\ t.kind = "login" => /\ t.user \in UserId /\ t.hwid \in Hwids /\ t.rehash \in BOOLEAN
                         /\ t.hash \in [word : Words, salt : Int] /\ t.gen \in Nat
                         /\ t.rehash => t.hash.salt > 0
  /\ t.kind = "recover" => /\ t.user \in UserId /\ t.hwid \in Hwids /\ t.word \in Words
                           /\ t.code \in Nat /\ t.gen \in Nat
  /\ t.kind = "password" => t.user \in UserId /\ t.dev \in DeviceId /\ t.body.word \in Words
  /\ t.kind = "write" => t.user \in UserId
  /\ t.kind \in {"rotate", "rotating", "revoke", "revoking"} =>
       /\ t = [kind |-> t.kind, user |-> t.user, dev |-> t.dev, version |-> t.version, body |-> t.body]
       /\ t.user \in UserId /\ t.dev \in DeviceId
  /\ t.kind = "delete" => t.user \in UserId
  /\ t.kind = "reset" => t.user \in UserId /\ t.word \in Words
  /\ t.kind \in {"inactive", "removing"} =>
       /\ t = [kind |-> t.kind, user |-> t.user, dev |-> 0, found |-> t.found, at |-> t.at]
       /\ t.user \in UserId /\ t.found \subseteq DeviceId /\ t.at \in 0 .. now

\* The salt of a hash is that of the version of the credentials, made anew or not.
Salted == \A u \in UserId : Active(u) => /\ users[u].version > 0
                                         /\ users[u].hash.salt \in {users[u].version, -users[u].version}

\* The hash is older than the credentials.
Outdated(hash, version) == -version < hash.salt /\ hash.salt < version

\* What a login or a recovery read was of an account, and is of its generation as long as it is valid.
Informed(t) ==
  /\ t.kind \in {"login", "recover"} => users[t.user] # NoUser
  /\ t.kind = "login" /\ Active(t.user) =>
       /\ -users[t.user].version <= t.hash.salt /\ t.hash.salt <= users[t.user].version
       /\ t.gen = users[t.user].gen \/ Outdated(t.hash, users[t.user].version)
  /\ t.kind = "recover" /\ Active(t.user) =>
       /\ t.code <= users[t.user].code
       /\ t.gen = users[t.user].gen \/ t.code < users[t.user].code

\* Only active accounts have devices.
DevicesActive == \A d \in DeviceId : devices[d] # NoDevice => Active(devices[d].user)

\* The server remembers that an account was ever made.
Claimed == ~claimed => \A u \in UserId : users[u] = NoUser

\* The purge is at an account that was deleted.
Purging == purge # Idle => users[purge.user].state = "deleted"

IInv ==
  /\ TypeOK
  /\ \A t \in tasks : Typed(t) /\ Informed(t)
  /\ Salted
  /\ DevicesActive
  /\ Claimed
  /\ Purging
  /\ KeptOut
  /\ DevicesInOrder
  /\ NothingLeft

\* On SQLite one transaction has begun at most, and the devices it read are as it found them.
AsRead(t) == IF t.kind = "removing" THEN \A d \in t.found : IsInactive(d, t.at) ELSE devices[t.dev].user = t.user
Serial == ~overlap => (\A s, t \in Begun : s = t) /\ \A t \in Begun : AsRead(t)

-----------------------------------------------------------------------------
(* Rows of users and devices. *)

LEMMA Constants ==
  /\ DeviceLimit \in Nat /\ DeviceLimit > 0 /\ Batch \in Nat /\ Batch > 0 /\ Tables \in Nat /\ Tables > 0
  /\ RestrictHours \in Nat /\ Inactive \in Nat /\ Ttl \in Nat /\ MaxRows \in Nat /\ MaxUser \in Nat
  /\ MaxDevice \in Nat /\ MaxVersion \in Nat /\ MaxTime \in Nat /\ MaxRestarts \in Nat /\ MaxLoad \in Nat
BY AccountAssumption

ActiveUser ==
  [state : {"active"}, login : Logins, hash : [word : Words, salt : Int], version : Nat, code : Nat, gen : Nat]
AnyDevice ==
  [user : UserId, hwid : Hwids, via : {"register", "login", "link", "recovery"},
   created : 0 .. MaxTime, seen : 0 .. MaxTime, until : Nat, gen : Nat]

LEMMA UserIs ==
  /\ ActiveUser \subseteq User
  /\ \A r \in User : r.state = "active" => r \in ActiveUser
  /\ \A r \in User : r.state # "active" => r \in {NoUser, [state |-> "deleted"], Gone}
  /\ NoUser.state = "none" /\ NoUser \in User
  /\ Gone.state = "gone" /\ Gone \in User
  /\ [state |-> "deleted"] \in User
BY DEF User, ActiveUser, NoUser, Gone

LEMMA DeviceIs ==
  /\ AnyDevice \subseteq Device /\ NoDevice \in Device
  /\ \A r \in Device : r # NoDevice => r \in AnyDevice /\ r.user \in UserId
  /\ \A r \in AnyDevice : r # NoDevice
  /\ NoDevice.user = 0 /\ 0 \notin UserId
<1>1. 0 \notin UserId /\ NoDevice.user = 0
  BY DEF UserId, NoDevice
<1>2. \A r \in AnyDevice : r.user \in UserId
  BY DEF AnyDevice
<1>. QED
  BY <1>1, <1>2 DEF Device, AnyDevice

\* The devices of an account are devices of the table that are there.
LEMMA DevicesOfIs ==
  ASSUME TypeOK, NEW u \in UserId
  PROVE  /\ IsFiniteSet(DevicesOf(u)) /\ Cardinality(DevicesOf(u)) \in Nat
         /\ \A d \in DevicesOf(u) : d \in DeviceId /\ devices[d] # NoDevice
<1>1. IsFiniteSet(DeviceId)
  BY FS_Interval, Constants DEF DeviceId
<1>2. DevicesOf(u) \in SUBSET DeviceId
  BY DEF DevicesOf
<1>. QED
  BY <1>1, <1>2, FS_Subset, FS_CardinalityType, DeviceIs DEF DevicesOf

\* What becomes of a user's row.
Moved(old, new) ==
  /\ new \in User
  /\ old # NoUser => new # NoUser
  /\ new.state = "active" /\ old # NoUser =>
       /\ old.state = "active" /\ old.version <= new.version /\ old.code <= new.code
       /\ new.gen = old.gen \/ (old.version < new.version /\ old.code < new.code)

UsersMove == /\ users' = [u \in UserId |-> users'[u]]
             /\ \A u \in UserId : Moved(users[u], users'[u])

\* A device stays what it was or goes.
Kept(old, new) ==
  /\ new \in Device
  /\ new # NoDevice => old # NoDevice /\ new.user = old.user /\ new.hwid = old.hwid

DevicesKept ==
  /\ devices' = [d \in DeviceId |-> devices'[d]]
  /\ \A d \in DeviceId : Kept(devices[d], devices'[d])

LEMMA KeptTyped ==
  ASSUME DevicesKept
  PROVE  devices' \in [DeviceId -> Device]
BY DEF DevicesKept, Kept

LEMMA MovedTyped ==
  ASSUME UsersMove
  PROVE  users' \in [UserId -> User]
BY DEF UsersMove, Moved

\* No step that makes no device breaks the limit or makes one twice.
LEMMA KeptInOrder ==
  ASSUME TypeOK, DevicesInOrder, DevicesKept
  PROVE  DevicesInOrder'
<1>1. ASSUME NEW u \in UserId
      PROVE  Cardinality(DevicesOf(u)') <= DeviceLimit
  <2>1. DevicesOf(u)' \in SUBSET DevicesOf(u)
    BY DeviceIs DEF DevicesKept, Kept, DevicesOf
  <2>2. Cardinality(DevicesOf(u)') <= Cardinality(DevicesOf(u)) /\ IsFiniteSet(DevicesOf(u)')
    BY <2>1, DevicesOfIs, FS_Subset
  <2>3. Cardinality(DevicesOf(u)') \in Nat
    BY <2>2, FS_CardinalityType
  <2>. QED
    BY <2>2, <2>3, DevicesOfIs, Constants DEF DevicesInOrder
<1>2. ASSUME NEW d \in DeviceId, NEW e \in DeviceId, d # e, devices'[d] # NoDevice, devices'[d].user = devices'[e].user
      PROVE  devices'[d].hwid # devices'[e].hwid
  <2>1. devices'[e] # NoDevice
    BY <1>2, DeviceIs DEF DevicesKept, Kept
  <2>. QED
    BY <1>2, <2>1 DEF DevicesInOrder, DevicesKept, Kept
<1>. QED
  BY <1>1, <1>2 DEF DevicesInOrder

\* One more device than a step keeps.
LEMMA AddedInOrder ==
  ASSUME TypeOK, DevicesInOrder,
         NEW base \in [DeviceId -> Device], \A e \in DeviceId : Kept(devices[e], base[e]),
         NEW d \in DeviceId, base[d] = NoDevice, NEW row \in AnyDevice,
         devices' = [base EXCEPT ![d] = row],
         Cardinality({e \in DeviceId : base[e].user = row.user}) < DeviceLimit,
         \A e \in DeviceId : base[e].user = row.user => base[e].hwid # row.hwid
  PROVE  DevicesInOrder'
<1>. DEFINE Of(u) == {e \in DeviceId : base[e].user = u}
<1>1. ASSUME NEW u \in UserId
      PROVE  IsFiniteSet(Of(u)) /\ Cardinality(Of(u)) \in Nat /\ Cardinality(Of(u)) <= DeviceLimit
  <2>1. Of(u) \in SUBSET DevicesOf(u)
    BY DeviceIs DEF Kept, DevicesOf
  <2>2. Cardinality(Of(u)) <= Cardinality(DevicesOf(u)) /\ IsFiniteSet(Of(u))
    BY <2>1, DevicesOfIs, FS_Subset
  <2>3. Cardinality(Of(u)) \in Nat
    BY <2>2, FS_CardinalityType
  <2>. QED
    BY <2>2, <2>3, DevicesOfIs, Constants DEF DevicesInOrder
<1>2. row.user \in UserId /\ row # NoDevice
  BY DEF AnyDevice, NoDevice, UserId
<1>5. \A e \in DeviceId : devices'[e] = IF e = d THEN row ELSE base[e]
  OBVIOUS
<1>3. ASSUME NEW u \in UserId
      PROVE  Cardinality(DevicesOf(u)') <= DeviceLimit
  <2>1. CASE u = row.user
    <3>1. DevicesOf(u)' = Of(u) \cup {d}
      BY <1>5, <2>1 DEF DevicesOf
    <3>2. d \notin Of(u)
      BY DEF NoDevice, UserId
    <3>3. Cardinality(Of(u) \cup {d}) = Cardinality(Of(u)) + 1
      <4>. HIDE DEF Of
      <4>. QED
        BY <1>1, <3>2, FS_AddElement
    <3>4. Cardinality(Of(u)) < DeviceLimit
      BY <2>1
    <3>. QED
      <4>. HIDE DEF Of
      <4>. QED
        BY <1>1, <3>1, <3>3, <3>4, Constants
  <2>2. CASE u # row.user
    <3>1. DevicesOf(u)' = Of(u)
      BY <1>2, <1>5, <2>2, DeviceIs DEF DevicesOf
    <3>. QED
      BY <1>1, <3>1
  <2>. QED
    BY <2>1, <2>2
<1>4. ASSUME NEW e \in DeviceId, NEW f \in DeviceId, e # f, devices'[e] # NoDevice, devices'[e].user = devices'[f].user
      PROVE  devices'[e].hwid # devices'[f].hwid
  <2>1. CASE e = d
    BY <1>4, <2>1
  <2>2. CASE f = d
    BY <1>4, <2>2
  <2>3. CASE e # d /\ f # d
    <3>1. base[e] # NoDevice /\ base[e].user = base[f].user
      BY <1>4, <2>3
    <3>2. base[f] # NoDevice
      BY <3>1, DeviceIs
    <3>. QED
      BY <1>4, <2>3, <3>1, <3>2 DEF Kept, DevicesInOrder
  <2>. QED
    BY <2>1, <2>2, <2>3
<1>. QED
  BY <1>3, <1>4 DEF DevicesInOrder

-----------------------------------------------------------------------------
(* What steps have in common. *)

\* What a task read does not become wrong unnoticed: it is outdated then.
LEMMA TasksKeep ==
  ASSUME IInv, UsersMove, tasks' \subseteq tasks, now <= now', now' \in Nat
  PROVE  \A t \in tasks' : Typed(t)' /\ Informed(t)'
<1>. SUFFICES ASSUME NEW t \in tasks'
              PROVE  Typed(t)' /\ Informed(t)'
  OBVIOUS
<1>1. Typed(t) /\ Informed(t) /\ now \in Nat
  BY Constants DEF IInv, TypeOK
<1>2. Typed(t)'
  BY <1>1 DEF Typed
<1>3. CASE t.kind = "login"
  <2>1. t.user \in UserId /\ Moved(users[t.user], users'[t.user]) /\ users[t.user] \in User /\ users'[t.user] \in User
    BY <1>1, <1>3, MovedTyped DEF Typed, UsersMove, IInv, TypeOK
  <2>2. users[t.user] # NoUser /\ users'[t.user] # NoUser
    BY <1>1, <1>3, <2>1 DEF Informed, Moved
  <2>3. ASSUME Active(t.user)'
        PROVE  /\ Active(t.user)
               /\ users[t.user].version <= users'[t.user].version
               /\ users'[t.user].gen = users[t.user].gen \/ users[t.user].version < users'[t.user].version
    BY <2>1, <2>2, <2>3 DEF Moved, Active
  <2>4. ASSUME Active(t.user)'
        PROVE  /\ users[t.user].version \in Nat /\ users'[t.user].version \in Nat /\ t.hash.salt \in Int
               /\ users[t.user].gen \in Nat /\ users'[t.user].gen \in Nat
    BY <1>1, <1>3, <2>1, <2>3, <2>4, UserIs DEF Typed, Active, ActiveUser
  <2>. QED
    BY <1>1, <1>2, <1>3, <2>2, <2>3, <2>4 DEF Informed, Outdated
<1>4. CASE t.kind = "recover"
  <2>1. t.user \in UserId /\ Moved(users[t.user], users'[t.user]) /\ users[t.user] \in User /\ users'[t.user] \in User
    BY <1>1, <1>4, MovedTyped DEF Typed, UsersMove, IInv, TypeOK
  <2>2. users[t.user] # NoUser /\ users'[t.user] # NoUser
    BY <1>1, <1>4, <2>1 DEF Informed, Moved
  <2>3. ASSUME Active(t.user)'
        PROVE  /\ Active(t.user)
               /\ users[t.user].code <= users'[t.user].code
               /\ users'[t.user].gen = users[t.user].gen \/ users[t.user].code < users'[t.user].code
    BY <2>1, <2>2, <2>3 DEF Moved, Active
  <2>4. ASSUME Active(t.user)'
        PROVE  /\ users[t.user].code \in Nat /\ users'[t.user].code \in Nat /\ t.code \in Nat
               /\ users[t.user].gen \in Nat /\ users'[t.user].gen \in Nat
    BY <1>1, <1>4, <2>1, <2>3, <2>4, UserIs DEF Typed, Active, ActiveUser
  <2>. QED
    BY <1>1, <1>2, <1>4, <2>2, <2>3, <2>4 DEF Informed
<1>. QED
  BY <1>2, <1>3, <1>4 DEF Informed

\* The first half of a request: it carries what it read.
LEMMA BeginKeeps ==
  ASSUME IInv, NEW t, Begin(t), Typed(t), Informed(t)
  PROVE  IInv'
<1>1. UNCHANGED <<now, mode, overlap, restarts, claimed, users, devices, rows, purge>> /\ tasks' = tasks \cup {t}
  BY DEF Begin, environment, database
<1>2. \A r \in tasks' : Typed(r)' /\ Informed(r)'
  BY <1>1 DEF IInv, Typed, Informed, Active
<1>3. TypeOK' /\ Salted' /\ DevicesActive' /\ Claimed' /\ Purging' /\ KeptOut' /\ DevicesInOrder' /\ NothingLeft'
  BY <1>1 DEF IInv, TypeOK, Salted, DevicesActive, Claimed, Purging, KeptOut, DevicesInOrder, NothingLeft, Active, DevicesOf
<1>. QED
  BY <1>2, <1>3 DEF IInv

\* A transaction that read what it needs.
LEMMA ReadsKeeps ==
  ASSUME IInv, NEW t, NEW seen, Reads(t, seen), Typed(seen), seen.kind \notin {"login", "recover"}
  PROVE  IInv'
<1>1. /\ UNCHANGED <<now, mode, overlap, restarts, claimed, users, devices, rows, purge>>
      /\ tasks' \subseteq tasks \cup {seen}
  BY DEF Reads, environment, database
<1>2. \A r \in tasks' : Typed(r)' /\ Informed(r)'
  BY <1>1 DEF IInv, Typed, Informed, Active
<1>3. TypeOK' /\ Salted' /\ DevicesActive' /\ Claimed' /\ Purging' /\ KeptOut' /\ DevicesInOrder' /\ NothingLeft'
  BY <1>1 DEF IInv, TypeOK, Salted, DevicesActive, Claimed, Purging, KeptOut, DevicesInOrder, NothingLeft, Active, DevicesOf
<1>. QED
  BY <1>2, <1>3 DEF IInv

\* A device came in by what is valid now.
Good(d) == devices[d] # NoDevice => Active(devices[d].user) /\ devices[d].gen = users[devices[d].user].gen

\* The second half of a request, or a step without one.
LEMMA StepKeeps ==
  ASSUME IInv, tasks' \subseteq tasks, UNCHANGED environment, UNCHANGED <<rows, purge>>,
         claimed' \in BOOLEAN, claimed => claimed', claimed' \/ UNCHANGED users,
         UsersMove, \A u \in UserId : users'[u] = Gone => users[u] = Gone, Salted',
         devices' \in [DeviceId -> Device], \A d \in DeviceId : Good(d)', DevicesInOrder'
  PROVE  IInv'
<1>. USE DEF IInv
<1>1. now' = now /\ mode' = mode /\ overlap' = overlap /\ restarts' = restarts /\ now \in Nat
  BY Constants DEF environment, TypeOK
<1>2. TypeOK'
  BY <1>1, MovedTyped DEF TypeOK
<1>3. \A t \in tasks' : Typed(t)' /\ Informed(t)'
  BY <1>1, TasksKeep
<1>4. DevicesActive' /\ KeptOut'
  BY DEF DevicesActive, KeptOut, Good
<1>5. Claimed'
  BY DEF Claimed, UsersMove
<1>6. NothingLeft'
  BY DEF NothingLeft
<1>7. Purging'
  <2>1. ASSUME purge # Idle
        PROVE  users'[purge.user].state = "deleted"
    <3>1. purge.user \in UserId /\ users[purge.user].state = "deleted"
      BY <2>1 DEF TypeOK, Purging
    <3>2. users[purge.user] # NoUser /\ users[purge.user] # Gone /\ users[purge.user].state # "active"
      BY <3>1, UserIs
    <3>3. users'[purge.user] # NoUser /\ users'[purge.user] # Gone /\ users'[purge.user].state # "active" /\ users'[purge.user] \in User
      BY <3>1, <3>2 DEF UsersMove, Moved
    <3>. QED
      BY <3>3, UserIs
  <2>. QED
    BY <2>1 DEF Purging
<1>. QED
  BY <1>2, <1>3, <1>4, <1>5, <1>6, <1>7

-----------------------------------------------------------------------------
(* The rows that steps write. *)

LEMMA NowIs ==
  ASSUME TypeOK
  PROVE  now \in Nat /\ now + Ttl \in Nat /\ now \in 0 .. MaxTime
BY Constants DEF TypeOK

LEMMA NewDevice ==
  ASSUME TypeOK, NEW u \in UserId, NEW hwid \in Hwids, NEW via \in {"register", "login", "link", "recovery"}, NEW gen \in Nat
  PROVE  LET row == DeviceRow(u, hwid, via, gen)
         IN row \in AnyDevice /\ row # NoDevice /\ row \in Device /\ row.user = u /\ row.hwid = hwid /\ row.gen = gen /\ row.via = via
<1>. DEFINE row == DeviceRow(u, hwid, via, gen)
<1>1. row \in AnyDevice
  BY NowIs DEF DeviceRow, AnyDevice
<1>2. row.user = u /\ row.hwid = hwid /\ row.gen = gen /\ row.via = via
  BY DEF DeviceRow
<1>. QED
  BY <1>1, <1>2, DeviceIs

LEMMA ActiveIs ==
  ASSUME TypeOK, NEW u \in UserId, Active(u)
  PROVE  users[u] \in ActiveUser /\ users[u] # NoUser /\ users[u] # Gone
BY UserIs DEF TypeOK, Active

\* An account whose row an active one replaces moves on.
LEMMA OneMoves ==
  ASSUME TypeOK, Salted, NEW u \in UserId, NEW new \in User, new # NoUser, new # Gone,
         users' = [users EXCEPT ![u] = new],
         Moved(users[u], new),
         new.state = "active" => new.version > 0 /\ new.hash.salt \in {new.version, -new.version}
  PROVE  /\ UsersMove /\ Salted'
         /\ \A v \in UserId : users'[v] = Gone => users[v] = Gone
<1>1. \A v \in UserId : users'[v] = (IF v = u THEN new ELSE users[v]) /\ users[v] \in User
  BY DEF TypeOK
<1>2. \A r \in User : Moved(r, r)
  <2>1. ASSUME NEW r \in User
        PROVE  Moved(r, r)
    <3>1. r.state = "active" => r.version \in Nat /\ r.code \in Nat
      BY UserIs DEF ActiveUser
    <3>. QED
      BY <3>1 DEF Moved
  <2>. QED
    BY <2>1
<1>3. UsersMove
  BY <1>1, <1>2 DEF UsersMove, TypeOK
<1>4. Salted'
  BY <1>1 DEF Salted, Active
<1>. QED
  BY <1>1, <1>3, <1>4

LEMMA NoneMoves ==
  ASSUME TypeOK, Salted, users' = users
  PROVE  /\ UsersMove /\ Salted'
         /\ \A v \in UserId : users'[v] = Gone => users[v] = Gone
<1>1. \A r \in User : Moved(r, r)
  <2>1. ASSUME NEW r \in User
        PROVE  Moved(r, r)
    <3>1. r.state = "active" => r.version \in Nat /\ r.code \in Nat
      BY UserIs DEF ActiveUser
    <3>. QED
      BY <3>1 DEF Moved
  <2>. QED
    BY <2>1
<1>. QED
  BY <1>1 DEF UsersMove, Salted, Active, TypeOK

\* New credentials, with or without a new generation; a new code.
LEMMA NewCredentials ==
  ASSUME TypeOK, Salted, NEW u \in UserId, Active(u), NEW word \in Words
  PROVE  /\ Recredential(u, word) \in ActiveUser /\ Recovered(u, word) \in ActiveUser /\ NewCode(users[u]) \in ActiveUser
         /\ Moved(users[u], Recredential(u, word)) /\ Moved(users[u], Recovered(u, word)) /\ Moved(users[u], NewCode(users[u]))
         /\ Recredential(u, word).gen = users[u].gen /\ NewCode(users[u]).gen = users[u].gen
         /\ Recovered(u, word).gen = users[u].gen + 1
         /\ \A new \in {Recredential(u, word), Recovered(u, word), NewCode(users[u])} :
              new.version > 0 /\ new.hash.salt \in {new.version, -new.version}
<1>. PICK r \in ActiveUser : r = users[u]
  BY ActiveIs
<1>1. r.version \in Nat /\ r.code \in Nat /\ r.gen \in Nat /\ r.hash \in [word : Words, salt : Int] /\ r # NoUser
  BY ActiveIs DEF ActiveUser
<1>2. r.version > 0 /\ r.hash.salt \in {r.version, -r.version}
  BY DEF Salted
<1>3. PICK c : c = Recredential(u, word)
  OBVIOUS
<1>4. c \in ActiveUser /\ c.version = r.version + 1 /\ c.code = r.code /\ c.gen = r.gen /\ c.hash.salt = r.version + 1
  <2>1. PICK h : h = Hash(word, r.version + 1)
    OBVIOUS
  <2>2. h \in [word : Words, salt : Int] /\ h.salt = r.version + 1
    BY <1>1, <2>1 DEF Hash
  <2>3. c = [r EXCEPT !.hash = h, !.version = r.version + 1]
    BY <1>3, <2>1 DEF Recredential
  <2>4. r.version + 1 \in Nat
    BY <1>1
  <2>5. c \in ActiveUser
    BY <2>2, <2>3, <2>4 DEF ActiveUser
  <2>6. c.version = r.version + 1 /\ c.code = r.code /\ c.gen = r.gen /\ c.hash = h
    BY <2>3 DEF ActiveUser
  <2>. QED
    BY <2>2, <2>5, <2>6
<1>5. PICK n : n = NewCode(c)
  OBVIOUS
<1>6. n \in ActiveUser /\ n.version = c.version /\ n.code = r.code + 1 /\ n.gen = r.gen /\ n.hash = c.hash
  BY <1>1, <1>4, <1>5 DEF NewCode, ActiveUser
<1>7. PICK x : x = Recovered(u, word)
  OBVIOUS
<1>8. x = [n EXCEPT !.gen = @ + 1]
  BY <1>3, <1>5, <1>7 DEF Recovered
<1>9. x \in ActiveUser /\ x.version = c.version /\ x.code = r.code + 1 /\ x.gen = r.gen + 1 /\ x.hash = c.hash
  BY <1>1, <1>4, <1>6, <1>8 DEF ActiveUser
<1>10. PICK m : m = NewCode(r)
  OBVIOUS
<1>11. m \in ActiveUser /\ m.version = r.version /\ m.code = r.code + 1 /\ m.gen = r.gen /\ m.hash = r.hash
  BY <1>1, <1>10 DEF NewCode, ActiveUser
<1>12. \A y \in ActiveUser : y \in User /\ y # NoUser /\ y # Gone /\ y.state = "active"
  BY UserIs DEF ActiveUser
<1>13. Moved(r, c)
  BY <1>1, <1>4, <1>12 DEF Moved
<1>14. Moved(r, x)
  BY <1>1, <1>4, <1>9, <1>12 DEF Moved
<1>15. Moved(r, m)
  BY <1>1, <1>11, <1>12 DEF Moved
<1>. QED
  BY <1>1, <1>2, <1>3, <1>4, <1>7, <1>9, <1>10, <1>11, <1>13, <1>14, <1>15

LEMMA TaskIs ==
  ASSUME IInv, NEW t \in tasks
  PROVE  Typed(t) /\ Informed(t)
BY DEF IInv

\* Devices that stay with their generation stay good where the account keeps its own.
LEMMA StillGood ==
  ASSUME IInv, devices' \in [DeviceId -> Device],
         \A d \in DeviceId : devices'[d] # NoDevice =>
           /\ devices[d] # NoDevice /\ devices'[d].user = devices[d].user /\ devices'[d].gen = devices[d].gen
           /\ users'[devices[d].user].state = users[devices[d].user].state
           /\ users'[devices[d].user].gen = users[devices[d].user].gen
  PROVE  \A d \in DeviceId : Good(d)'
BY DEF IInv, DevicesActive, KeptOut, Good, Active

LEMMA RemovedIs ==
  ASSUME TypeOK, NEW u \in UserId, NEW ds
  PROVE  /\ Removed(u, ds) \in [DeviceId -> Device]
         /\ \A d \in DeviceId : Removed(u, ds)[d] \in {devices[d], NoDevice} /\ Kept(devices[d], Removed(u, ds)[d])
         /\ \A d \in DeviceId \cap ds : Removed(u, ds)[d].user # u
         /\ \A d \in DeviceId : Removed(u, ds)[d] # NoDevice => Removed(u, ds)[d] = devices[d]
<1>1. \A d \in DeviceId : devices[d] \in Device
  BY DEF TypeOK
<1>2. NoDevice \in Device /\ NoDevice.user # u
  BY DeviceIs
<1>. QED
  BY <1>1, <1>2 DEF Removed, Kept

\* A task whose transaction has begun is the one that was asked for.
LEMMA GoesOn ==
  ASSUME NEW t, Typed(t), NEW kind, NEW seen, seen = [t EXCEPT !.kind = kind],
         (t.kind = "rotate" /\ kind = "rotating") \/ (t.kind = "revoke" /\ kind = "revoking")
  PROVE  /\ Typed(seen) /\ seen.kind = kind
         /\ seen.user = t.user /\ seen.dev = t.dev /\ seen.body = t.body
<1>1. /\ t = [kind |-> t.kind, user |-> t.user, dev |-> t.dev, version |-> t.version, body |-> t.body]
      /\ t.user \in UserId /\ t.dev \in DeviceId /\ kind \in {"rotating", "revoking"}
  BY DEF Typed
<1>2. seen = [kind |-> kind, user |-> t.user, dev |-> t.dev, version |-> t.version, body |-> t.body]
  BY <1>1
<1>3. seen.kind = kind /\ seen.user = t.user /\ seen.dev = t.dev /\ seen.version = t.version /\ seen.body = t.body
  BY <1>2
<1>4. Typed(seen)
  BY <1>1, <1>2, <1>3 DEF Typed, Kinds
<1>. QED
  BY <1>3, <1>4

LEMMA LooksAgain ==
  ASSUME NEW t, Typed(t), t.kind = "inactive", NEW seen,
         seen = [t EXCEPT !.kind = "removing", !.found = StillInactive(t)]
  PROVE  /\ Typed(seen) /\ seen.kind = "removing" /\ seen.user = t.user
         /\ seen.found = StillInactive(t) /\ seen.at = t.at
<1>. PICK user, found, at : t = [kind |-> "inactive", user |-> user, dev |-> 0, found |-> found, at |-> at]
  BY DEF Typed
<1>. PICK still : still = StillInactive(t)
  OBVIOUS
<1>. PICK begun : begun = [t EXCEPT !.kind = "removing"]
  OBVIOUS
<1>1. user \in UserId /\ found \subseteq DeviceId /\ at \in 0 .. now /\ still \subseteq found
  BY DEF Typed, StillInactive
<1>2. begun = [kind |-> "removing", user |-> user, dev |-> 0, found |-> found, at |-> at]
  OBVIOUS
<1>3. seen = [begun EXCEPT !.found = still]
  OBVIOUS
<1>4. seen = [kind |-> "removing", user |-> user, dev |-> 0, found |-> still, at |-> at]
  BY <1>2, <1>3
<1>5. Typed(seen)
  BY <1>1, <1>4 DEF Typed, Kinds
<1>. QED
  BY <1>4, <1>5

\* A task that is refused.
LEMMA RefuseKeeps ==
  ASSUME IInv, NEW t, Done(t), Refuse
  PROVE  IInv'
<1>. USE DEF IInv
<1>1. tasks' \subseteq tasks /\ UNCHANGED environment /\ UNCHANGED <<claimed, users, devices, rows, purge>>
  BY DEF Done, Refuse, database
<1>2. UsersMove /\ Salted' /\ \A v \in UserId : users'[v] = Gone => users[v] = Gone
  BY <1>1, NoneMoves
<1>3. devices' \in [DeviceId -> Device] /\ DevicesInOrder'
  BY <1>1 DEF TypeOK, DevicesInOrder, DevicesOf
<1>4. \A d \in DeviceId : Good(d)'
  BY <1>1, <1>3, StillGood
<1>. QED
  BY <1>1, <1>2, <1>3, <1>4, StepKeeps DEF TypeOK

\* Devices go or stay as they were, users and credentials stay.
LEMMA RemovalKeeps ==
  ASSUME IInv, tasks' \subseteq tasks, UNCHANGED environment, UNCHANGED <<claimed, users, rows, purge>>,
         devices' \in [DeviceId -> Device], \A d \in DeviceId : Kept(devices[d], devices'[d]),
         \A d \in DeviceId : devices'[d] # NoDevice => devices'[d].gen = devices[d].gen
  PROVE  IInv'
<1>. USE DEF IInv
<1>1. UsersMove /\ Salted' /\ \A v \in UserId : users'[v] = Gone => users[v] = Gone
  BY NoneMoves
<1>2. DevicesInOrder'
  <2>1. DevicesKept
    BY DEF DevicesKept
  <2>. QED
    BY <2>1, KeptInOrder
<1>3. \A d \in DeviceId : Good(d)'
  BY StillGood DEF Kept
<1>. QED
  BY <1>1, <1>2, <1>3, StepKeeps DEF TypeOK

-----------------------------------------------------------------------------
(* Registration and login. *)

LEMMA RegisterKeeps ==
  ASSUME IInv, NEW t \in tasks, Register(t)
  PROVE  IInv'
<1>. USE DEF IInv
<1>1. t.kind = "register" /\ Done(t) /\ Typed(t)
  BY TaskIs DEF Register
<1>2. CASE Refuse
  BY <1>1, <1>2, RefuseKeeps
<1>3. ASSUME NEW u \in NextUser, NEW d \in FreshDevice,
             users' = [users EXCEPT ![u] = UserRow(t.login, t.word)],
             devices' = IF t.by = "admin" THEN devices
                        ELSE [devices EXCEPT ![d] = DeviceRow(u, t.hwid, "register", 1)],
             claimed' = TRUE, UNCHANGED <<rows, purge>>
      PROVE  IInv'
  <2>1. u \in UserId /\ users[u] = NoUser /\ d \in DeviceId /\ devices[d] = NoDevice
    BY DEF NextUser, FreshDevice, Taken
  <2>2. PICK new : new = UserRow(t.login, t.word)
    OBVIOUS
  <2>3. new \in ActiveUser /\ new.state = "active" /\ new.version = 1 /\ new.hash.salt = 1 /\ new.gen = 1
    BY <1>1, <2>2 DEF UserRow, Hash, ActiveUser, Typed
  <2>4. new \in User /\ new # NoUser /\ new # Gone /\ users' = [users EXCEPT ![u] = new]
    BY <1>3, <2>2, <2>3, UserIs
  <2>5. Moved(users[u], new)
    BY <2>1, <2>4 DEF Moved
  <2>12. new.version > 0 /\ new.hash.salt \in {new.version, -new.version}
    BY <2>3
  <2>6. UsersMove /\ Salted' /\ \A v \in UserId : users'[v] = Gone => users[v] = Gone
    BY <2>1, <2>4, <2>5, <2>12, OneMoves
  <2>7. \A e \in DeviceId : devices[e] # NoDevice => devices[e].user # u
    BY <2>1, UserIs DEF DevicesActive, Active
  <2>8. \A v \in UserId : v # u => users'[v] = users[v]
    BY <2>4 DEF TypeOK
  <2>11. users'[u] = new
    BY <2>1, <2>4 DEF TypeOK
  <2>9. CASE t.by = "admin"
    <3>1. devices' = devices
      BY <1>3, <2>9
    <3>2. devices' \in [DeviceId -> Device] /\ DevicesInOrder'
      BY <3>1 DEF TypeOK, DevicesInOrder, DevicesOf
    <3>3. \A e \in DeviceId : Good(e)'
      BY <2>7, <2>8, <3>1, <3>2, StillGood, DeviceIs DEF TypeOK
    <3>. QED
      BY <1>1, <1>3, <2>6, <3>2, <3>3, StepKeeps DEF Done
  <2>10. CASE t.by # "admin"
    <3>1. PICK row : row = DeviceRow(u, t.hwid, "register", 1)
      OBVIOUS
    <3>2. row \in AnyDevice /\ row \in Device /\ row.user = u /\ row.gen = 1
      BY <1>1, <2>1, <3>1, NewDevice DEF Typed
    <3>3. devices' = [devices EXCEPT ![d] = row] /\ devices \in [DeviceId -> Device]
      BY <1>3, <2>10, <3>1 DEF TypeOK
    <3>4. devices' \in [DeviceId -> Device]
      BY <3>2, <3>3
    <3>5. {e \in DeviceId : devices[e].user = row.user} = {}
      BY <2>1, <2>7, <3>2, DeviceIs
    <3>6. Cardinality({e \in DeviceId : devices[e].user = row.user}) < DeviceLimit
      BY <3>5, FS_EmptySet, Constants
    <3>7. \A e \in DeviceId : Kept(devices[e], devices[e])
      BY <3>3 DEF Kept
    <3>10. \A e \in DeviceId : devices[e].user = row.user => devices[e].hwid # row.hwid
      BY <3>5
    <3>8. DevicesInOrder'
      BY <2>1, <3>2, <3>3, <3>6, <3>7, <3>10, AddedInOrder
    <3>9. \A e \in DeviceId : Good(e)'
      <4>1. Good(d)'
        BY <2>1, <2>3, <2>11, <3>2, <3>3 DEF Good, Active
      <4>2. ASSUME NEW e \in DeviceId, e # d
            PROVE  Good(e)'
        BY <2>7, <2>8, <3>3, <4>2, DeviceIs DEF Good, Active, DevicesActive, KeptOut
      <4>. QED
        BY <4>1, <4>2
    <3>. QED
      BY <1>1, <1>3, <2>6, <3>4, <3>8, <3>9, StepKeeps DEF Done
  <2>. QED
    BY <2>9, <2>10
<1>. QED
  BY <1>2, <1>3 DEF Register

\* A device that comes in with the generation of its account.
LEMMA AddKeeps ==
  ASSUME IInv, tasks' \subseteq tasks, UNCHANGED environment, UNCHANGED <<rows, purge>>, claimed' = claimed,
         UsersMove, Salted', \A v \in UserId : users'[v] = Gone => users[v] = Gone,
         NEW u \in UserId, Active(u),
         \A v \in UserId : users'[v].state = users[v].state /\ users'[v].gen = users[v].gen,
         NEW hwid \in Hwids, NEW via \in {"login", "link"}, Known(u, hwid) = {}, CanSignIn(u, hwid),
         AddDevice(u, hwid, via, users[u].gen)
  PROVE  IInv'
<1>. USE DEF IInv
<1>1. PICK d \in FreshDevice : devices' = [devices EXCEPT ![d] = DeviceRow(u, hwid, via, users[u].gen)]
  BY DEF AddDevice
<1>2. d \in DeviceId /\ devices[d] = NoDevice
  BY DEF FreshDevice, Taken
<1>3. PICK row : row = DeviceRow(u, hwid, via, users[u].gen)
  OBVIOUS
<1>4. users[u].gen \in Nat
  BY ActiveIs DEF ActiveUser
<1>5. row \in AnyDevice /\ row \in Device /\ row.user = u /\ row.hwid = hwid /\ row.gen = users[u].gen
  BY <1>3, <1>4, NewDevice
<1>6. devices' = [devices EXCEPT ![d] = row] /\ devices \in [DeviceId -> Device]
  BY <1>1, <1>3 DEF TypeOK
<1>7. devices' \in [DeviceId -> Device]
  BY <1>5, <1>6
<1>8. \A e \in DeviceId : Kept(devices[e], devices[e])
  BY <1>6 DEF Kept
<1>9. Cardinality({e \in DeviceId : devices[e].user = row.user}) < DeviceLimit
  BY <1>5 DEF CanSignIn, DevicesOf
<1>10. \A e \in DeviceId : devices[e].user = row.user => devices[e].hwid # row.hwid
  BY <1>5 DEF Known, DevicesOf
<1>11. DevicesInOrder'
  BY <1>2, <1>5, <1>6, <1>8, <1>9, <1>10, AddedInOrder
<1>12. Good(d)'
  BY <1>2, <1>5, <1>6 DEF Good, Active
<1>13. ASSUME NEW e \in DeviceId, e # d
       PROVE  Good(e)'
  BY <1>6, <1>13, DeviceIs DEF Good, Active, DevicesActive, KeptOut
<1>14. claimed' \in BOOLEAN /\ (claimed' \/ UNCHANGED users)
  BY ActiveIs DEF TypeOK, Claimed
<1>. QED
  BY <1>7, <1>11, <1>12, <1>13, <1>14, StepKeeps

\* What is verified is current: the generation that was read is that of the account.
LEMMA VerifiedIsCurrent ==
  ASSUME IInv, NEW t \in tasks, t.kind = "login", StillVerified(t)
  PROVE  t.user \in UserId /\ Active(t.user) /\ t.gen = users[t.user].gen /\ t.hwid \in Hwids
<1>1. Typed(t) /\ Informed(t) /\ Active(t.user) /\ users[t.user].hash = t.hash
  BY TaskIs DEF StillVerified
<1>2. t.user \in UserId /\ t.hwid \in Hwids
  BY <1>1 DEF Typed
<1>3. users[t.user].version \in Nat /\ users[t.user].version > 0
  BY <1>1, <1>2, ActiveIs DEF IInv, Salted, ActiveUser
<1>4. t.hash.salt \in {users[t.user].version, -users[t.user].version}
  BY <1>1, <1>2 DEF IInv, Salted
<1>5. ~Outdated(t.hash, users[t.user].version)
  BY <1>3, <1>4 DEF Outdated
<1>. QED
  BY <1>1, <1>2, <1>5 DEF Informed

\* The hash made anew is of the same word, and nothing else of the account changes.
LEMMA RehashMoves ==
  ASSUME IInv, NEW t \in tasks, t.kind = "login", StillVerified(t),
         users' = IF t.rehash THEN Rehashed(t.user) ELSE users
  PROVE  /\ UsersMove /\ Salted' /\ \A v \in UserId : users'[v] = Gone => users[v] = Gone
         /\ \A v \in UserId : users'[v].state = users[v].state /\ users'[v].gen = users[v].gen
<1>. USE DEF IInv
<1>1. CASE ~t.rehash
  BY <1>1, NoneMoves
<1>2. CASE t.rehash
  <2>. DEFINE u == t.user
  <2>1. u \in UserId /\ Active(u)
    BY VerifiedIsCurrent
  <2>. PICK r \in ActiveUser : r = users[u]
    BY <2>1, ActiveIs
  <2>2. /\ r.hash \in [word : Words, salt : Int] /\ r.version \in Nat /\ r.code \in Nat /\ r.gen \in Nat
        /\ r.state = "active"
    BY DEF ActiveUser
  <2>3. PICK h : h = Hash(r.hash.word, -r.hash.salt)
    OBVIOUS
  <2>4. h \in [word : Words, salt : Int] /\ h.salt = -r.hash.salt
    BY <2>2, <2>3 DEF Hash
  <2>5. PICK new : new = [r EXCEPT !.hash = h]
    OBVIOUS
  <2>6. new \in ActiveUser
    BY <2>4, <2>5 DEF ActiveUser
  <2>7. new.version = r.version /\ new.code = r.code /\ new.gen = r.gen /\ new.hash = h /\ new.state = r.state
    BY <2>5 DEF ActiveUser
  <2>8. users' = [users EXCEPT ![u] = new]
    BY <1>2, <2>3, <2>5 DEF Rehashed
  <2>9. new \in User /\ new # NoUser /\ new # Gone
    BY <2>2, <2>6, <2>7, UserIs
  <2>10. Moved(users[u], new)
    BY <2>2, <2>7, <2>9 DEF Moved
  <2>11. new.version > 0 /\ new.hash.salt \in {new.version, -new.version}
    BY <2>1, <2>2, <2>4, <2>7 DEF Salted
  <2>12. UsersMove /\ Salted' /\ \A v \in UserId : users'[v] = Gone => users[v] = Gone
    BY <2>1, <2>8, <2>9, <2>10, <2>11, OneMoves
  <2>13. \A v \in UserId : users'[v] = (IF v = u THEN new ELSE users[v])
    BY <2>8 DEF TypeOK
  <2>. QED
    BY <2>7, <2>12, <2>13
<1>. QED
  BY <1>1, <1>2

LEMMA LoginKeeps ==
  ASSUME IInv, NEW t \in tasks, Login(t)
  PROVE  IInv'
<1>. USE DEF IInv
<1>1. t.kind = "login" /\ Done(t)
  BY DEF Login
<1>2. CASE Refuse
  BY <1>1, <1>2, RefuseKeeps
<1>3. ASSUME StillVerified(t), CanSignIn(t.user, t.hwid), SignIn(t.user, t.hwid, t.gen),
             users' = IF t.rehash THEN Rehashed(t.user) ELSE users,
             UNCHANGED <<claimed, rows, purge>>
      PROVE  IInv'
  <2>1. t.user \in UserId /\ Active(t.user) /\ t.gen = users[t.user].gen /\ t.hwid \in Hwids
    BY <1>1, <1>3, VerifiedIsCurrent
  <2>2. /\ UsersMove /\ Salted' /\ \A v \in UserId : users'[v] = Gone => users[v] = Gone
        /\ \A v \in UserId : users'[v].state = users[v].state /\ users'[v].gen = users[v].gen
    BY <1>1, <1>3, RehashMoves
  <2>3. tasks' \subseteq tasks /\ UNCHANGED environment
    BY <1>1 DEF Done
  <2>4. CASE Known(t.user, t.hwid) = {} /\ AddDevice(t.user, t.hwid, "login", t.gen)
    BY <1>3, <2>1, <2>2, <2>3, <2>4, AddKeeps
  <2>5. ASSUME NEW d \in Known(t.user, t.hwid),
               devices' = [devices EXCEPT ![d].seen = now, ![d].until = now + Ttl, ![d].gen = t.gen]
        PROVE  IInv'
    <3>1. d \in DeviceId /\ devices[d].user = t.user /\ devices[d] # NoDevice
      BY <2>1, <2>5, DeviceIs DEF Known, DevicesOf
    <3>. PICK r \in AnyDevice : r = devices[d]
      BY <3>1, DeviceIs DEF TypeOK
    <3>2. PICK new : new = [r EXCEPT !.seen = now, !.until = now + Ttl, !.gen = t.gen]
      OBVIOUS
    <3>3. t.gen \in Nat
      BY <2>1, ActiveIs DEF ActiveUser
    <3>4. new \in AnyDevice
      BY <3>2, <3>3, NowIs DEF AnyDevice
    <3>5. new.user = r.user /\ new.hwid = r.hwid /\ new.gen = t.gen
      BY <3>2 DEF AnyDevice
    <3>6. devices' = [devices EXCEPT ![d] = new]
      BY <2>5, <3>2
    <3>7. \A e \in DeviceId : devices'[e] = IF e = d THEN new ELSE devices[e]
      BY <3>6 DEF TypeOK
    <3>8. devices' \in [DeviceId -> Device] /\ new # NoDevice
      BY <3>4, <3>6, DeviceIs DEF TypeOK
    <3>9. DevicesInOrder'
      <4>1. DevicesKept
        BY <3>1, <3>5, <3>7, <3>8 DEF DevicesKept, Kept
      <4>. QED
        BY <4>1, KeptInOrder
    <3>10. \A e \in DeviceId : Good(e)'
      <4>1. ASSUME NEW e \in DeviceId, devices'[e] # NoDevice
            PROVE  Active(devices[e].user)' /\ devices'[e].gen = users'[devices'[e].user].gen
        <5>1. CASE e = d
          BY <2>1, <2>2, <3>1, <3>5, <3>7, <5>1 DEF Active
        <5>2. CASE e # d
          BY <2>2, <3>7, <4>1, <5>2, DeviceIs DEF Active, DevicesActive, KeptOut, TypeOK
        <5>. QED
          BY <5>1, <5>2
      <4>. QED
        BY <4>1 DEF Good
    <3>11. claimed' \in BOOLEAN /\ (claimed => claimed') /\ claimed'
      BY <1>3, <2>1, ActiveIs DEF TypeOK, Claimed
    <3>. QED
      BY <1>3, <2>2, <2>3, <3>8, <3>9, <3>10, <3>11, StepKeeps
  <2>. QED
    BY <1>3, <2>4, <2>5 DEF SignIn
<1>. QED
  BY <1>2, <1>3 DEF Login

-----------------------------------------------------------------------------
(* Credentials. *)

LEMMA ChangePasswordKeeps ==
  ASSUME IInv, NEW t \in tasks, ChangePassword(t)
  PROVE  IInv'
<1>. USE DEF IInv
<1>1. t.kind = "password" /\ Done(t) /\ Typed(t)
  BY TaskIs DEF ChangePassword
<1>2. CASE Refuse
  BY <1>1, <1>2, RefuseKeeps
<1>3. CASE MayChange(t) /\ ~Refuse
  <2>. DEFINE u == t.user
              kept == Removed(u, IF t.body.out THEN DeviceId \ {t.dev} ELSE {})
  <2>1. /\ users' = [users EXCEPT ![u] = Recredential(u, t.body.word)]
        /\ devices' = [kept EXCEPT ![t.dev].until = now + Ttl]
        /\ UNCHANGED <<claimed, rows, purge>>
    BY <1>3 DEF ChangePassword
  <2>2. u \in UserId /\ t.dev \in DeviceId /\ t.body.word \in Words /\ Active(u) /\ devices[t.dev].user = u
    BY <1>1, <1>3 DEF Typed, MayChange, Found, DevicesOf
  <2>3. PICK new : new = Recredential(u, t.body.word)
    OBVIOUS
  <2>4. /\ new \in ActiveUser /\ Moved(users[u], new) /\ new.gen = users[u].gen
        /\ new.version > 0 /\ new.hash.salt \in {new.version, -new.version}
    BY <2>2, <2>3, NewCredentials
  <2>5. new \in User /\ new.state = "active" /\ new # NoUser /\ new # Gone
    BY <2>4, UserIs DEF ActiveUser
  <2>6. UsersMove /\ Salted' /\ \A v \in UserId : users'[v] = Gone => users[v] = Gone
    BY <2>1, <2>2, <2>3, <2>4, <2>5, OneMoves
  <2>7. \A v \in UserId : users'[v].state = users[v].state /\ users'[v].gen = users[v].gen
    BY <2>1, <2>2, <2>3, <2>4, <2>5 DEF TypeOK, Active
  <2>8. /\ kept \in [DeviceId -> Device] /\ kept[t.dev] = devices[t.dev]
        /\ \A d \in DeviceId : kept[d] \in {devices[d], NoDevice}
    <3>. PICK ds : ds = IF t.body.out THEN DeviceId \ {t.dev} ELSE {}
      OBVIOUS
    <3>1. t.dev \notin ds
      OBVIOUS
    <3>2. kept = Removed(u, ds)
      OBVIOUS
    <3>3. Removed(u, ds)[t.dev] = devices[t.dev]
      BY <2>2, <3>1 DEF Removed
    <3>. QED
      BY <2>2, <3>2, <3>3, RemovedIs
  <2>. HIDE DEF kept
  <2>9. devices[t.dev] \in AnyDevice
    BY <2>2, DeviceIs DEF TypeOK
  <2>. PICK r \in AnyDevice : r = devices[t.dev]
    BY <2>9
  <2>10. PICK row : row = [r EXCEPT !.until = now + Ttl]
    OBVIOUS
  <2>11. row \in AnyDevice /\ row.user = r.user /\ row.hwid = r.hwid /\ row.gen = r.gen
    BY <2>10, NowIs DEF AnyDevice
  <2>12. \A d \in DeviceId : devices'[d] = IF d = t.dev THEN row ELSE kept[d]
    BY <2>1, <2>2, <2>8, <2>10
  <2>13. devices' \in [DeviceId -> Device]
    BY <2>1, <2>8, <2>10, <2>11, DeviceIs
  <2>14. \A d \in DeviceId : devices'[d] # NoDevice =>
            /\ devices[d] # NoDevice /\ devices'[d].user = devices[d].user
            /\ devices'[d].hwid = devices[d].hwid /\ devices'[d].gen = devices[d].gen
    BY <2>8, <2>9, <2>11, <2>12, DeviceIs
  <2>15. DevicesInOrder'
    <3>1. DevicesKept
      BY <2>13, <2>14 DEF DevicesKept, Kept
    <3>. QED
      BY <3>1, KeptInOrder
  <2>16. \A d \in DeviceId : Good(d)'
    BY <2>7, <2>13, <2>14, StillGood, DeviceIs DEF TypeOK
  <2>17. claimed' \in BOOLEAN /\ (claimed => claimed') /\ claimed'
    BY <2>1, <2>2, ActiveIs DEF TypeOK, Claimed
  <2>. QED
    BY <1>1, <2>1, <2>6, <2>13, <2>15, <2>16, <2>17, StepKeeps DEF Done
<1>. QED
  BY <1>2, <1>3 DEF ChangePassword

LEMMA RotateReadsKeeps ==
  ASSUME IInv, NEW t \in tasks, RotateReads(t)
  PROVE  IInv'
<1>1. t.kind = "rotate" /\ Typed(t)
  BY TaskIs DEF RotateReads
<1>2. CASE Done(t) /\ Refuse
  BY <1>2, RefuseKeeps
<1>3. ASSUME NEW seen, seen = [t EXCEPT !.kind = "rotating"], Reads(t, seen)
      PROVE  IInv'
  <2>1. Typed(seen) /\ seen.kind = "rotating"
    BY <1>1, <1>3, GoesOn
  <2>. QED
    BY <1>3, <2>1, ReadsKeeps
<1>. QED
  BY <1>2, <1>3 DEF RotateReads

LEMMA RotateKeeps ==
  ASSUME IInv, NEW t \in tasks, Rotate(t)
  PROVE  IInv'
<1>. USE DEF IInv
<1>1. t.kind = "rotating" /\ Done(t) /\ Typed(t)
  BY TaskIs DEF Rotate
<1>2. CASE Refuse
  BY <1>1, <1>2, RefuseKeeps
<1>3. CASE Active(t.user) /\ ~Refuse
  <2>. DEFINE u == t.user
  <2>1. users' = [users EXCEPT ![u] = NewCode(users[u])] /\ UNCHANGED <<claimed, devices, rows, purge>>
    BY <1>3 DEF Rotate
  <2>2. u \in UserId /\ Active(u)
    BY <1>1, <1>3 DEF Typed
  <2>3. PICK new : new = NewCode(users[u])
    OBVIOUS
  <2>4. PICK r \in ActiveUser : r = users[u]
    BY <2>2, ActiveIs
  <2>5. r.hash.word \in Words
    BY <2>4 DEF ActiveUser
  <2>6. /\ new \in ActiveUser /\ Moved(users[u], new) /\ new.gen = users[u].gen
        /\ new.version > 0 /\ new.hash.salt \in {new.version, -new.version}
    BY <2>2, <2>3, <2>5, NewCredentials
  <2>7. new \in User /\ new.state = "active" /\ new # NoUser /\ new # Gone
    BY <2>6, UserIs DEF ActiveUser
  <2>8. UsersMove /\ Salted' /\ \A v \in UserId : users'[v] = Gone => users[v] = Gone
    BY <2>1, <2>2, <2>3, <2>6, <2>7, OneMoves
  <2>9. \A v \in UserId : users'[v].state = users[v].state /\ users'[v].gen = users[v].gen
    BY <2>1, <2>2, <2>3, <2>6, <2>7 DEF TypeOK, Active
  <2>10. devices' \in [DeviceId -> Device] /\ DevicesInOrder'
    BY <2>1 DEF TypeOK, DevicesInOrder, DevicesOf
  <2>11. \A d \in DeviceId : Good(d)'
    BY <2>1, <2>9, <2>10, StillGood, DeviceIs DEF TypeOK
  <2>12. claimed' \in BOOLEAN /\ (claimed => claimed') /\ claimed'
    BY <2>1, <2>2, ActiveIs DEF TypeOK, Claimed
  <2>. QED
    BY <1>1, <2>1, <2>8, <2>10, <2>11, <2>12, StepKeeps DEF Done
<1>. QED
  BY <1>2, <1>3 DEF Rotate

\* An account all of whose devices go: what remains is of other accounts, which stay.
LEMMA OthersGood ==
  ASSUME IInv, NEW u \in UserId, \A v \in UserId : v # u => users'[v] = users[v],
         NEW d \in DeviceId, devices'[d] = Removed(u, DeviceId)[d]
  PROVE  Good(d)'
<1>1. devices'[d] # NoDevice => devices'[d] = devices[d] /\ devices[d].user # u /\ devices[d].user \in UserId
  BY RemovedIs, DeviceIs DEF IInv, TypeOK
<1>. QED
  BY <1>1 DEF Good, Active, IInv, DevicesActive, KeptOut

LEMMA RecoverKeeps ==
  ASSUME IInv, NEW t \in tasks, Recover(t)
  PROVE  IInv'
<1>. USE DEF IInv
<1>1. t.kind = "recover" /\ Done(t) /\ Typed(t) /\ Informed(t)
  BY TaskIs DEF Recover
<1>2. CASE Refuse
  BY <1>1, <1>2, RefuseKeeps
<1>3. ASSUME MayRecover(t), NEW d \in FreshDevice,
             users' = [users EXCEPT ![t.user] = Recovered(t.user, t.word)],
             devices' = [Removed(t.user, DeviceId) EXCEPT ![d] = DeviceRow(t.user, t.hwid, "recovery", t.gen + 1)],
             UNCHANGED <<claimed, rows, purge>>
      PROVE  IInv'
  <2>. DEFINE u == t.user
              kept == Removed(u, DeviceId)
  <2>1. d \in DeviceId /\ devices[d] = NoDevice
    BY DEF FreshDevice, Taken
  <2>2. u \in UserId /\ t.hwid \in Hwids /\ t.word \in Words /\ Active(u) /\ t.gen \in Nat
    BY <1>1, <1>3 DEF Typed, MayRecover
  <2>3. t.gen = users[u].gen
    <3>1. users[u].code \in Nat
      BY <2>2, ActiveIs DEF ActiveUser
    <3>. QED
      BY <1>1, <1>3, <2>2, <3>1 DEF Informed, MayRecover
  <2>4. PICK new : new = Recovered(u, t.word)
    OBVIOUS
  <2>5. /\ new \in ActiveUser /\ Moved(users[u], new) /\ new.gen = t.gen + 1
        /\ new.version > 0 /\ new.hash.salt \in {new.version, -new.version}
    BY <2>2, <2>3, <2>4, NewCredentials
  <2>6. new \in User /\ new.state = "active" /\ new # NoUser /\ new # Gone
    BY <2>5, UserIs DEF ActiveUser
  <2>7. UsersMove /\ Salted' /\ \A v \in UserId : users'[v] = Gone => users[v] = Gone
    BY <1>3, <2>2, <2>4, <2>5, <2>6, OneMoves
  <2>8. users'[u] = new /\ \A v \in UserId : v # u => users'[v] = users[v]
    BY <1>3, <2>2, <2>4 DEF TypeOK
  <2>9. PICK row : row = DeviceRow(u, t.hwid, "recovery", t.gen + 1)
    OBVIOUS
  <2>10. row \in AnyDevice /\ row \in Device /\ row.user = u /\ row.gen = t.gen + 1
    BY <2>2, <2>9, NewDevice
  <2>11. /\ kept \in [DeviceId -> Device] /\ kept[d] = NoDevice
         /\ \A e \in DeviceId : Kept(devices[e], kept[e]) /\ kept[e].user # u
    BY <2>1, <2>2, RemovedIs
  <2>. HIDE DEF kept
  <2>12. devices' = [kept EXCEPT ![d] = row]
    BY <1>3, <2>9 DEF kept
  <2>13. devices' \in [DeviceId -> Device]
    BY <2>10, <2>11, <2>12
  <2>14. DevicesInOrder'
    <3>1. {e \in DeviceId : kept[e].user = row.user} = {}
      BY <2>10, <2>11
    <3>2. Cardinality({e \in DeviceId : kept[e].user = row.user}) < DeviceLimit
      BY <3>1, FS_EmptySet, Constants
    <3>3. \A e \in DeviceId : kept[e].user = row.user => kept[e].hwid # row.hwid
      BY <2>10, <2>11
    <3>. QED
      BY <2>1, <2>10, <2>11, <2>12, <3>2, <3>3, AddedInOrder
  <2>15. ASSUME NEW e \in DeviceId
         PROVE  Good(e)'
    <3>1. CASE e = d
      BY <2>5, <2>6, <2>8, <2>10, <2>11, <2>12, <3>1 DEF Good, Active
    <3>2. CASE e # d
      <4>1. devices'[e] = Removed(u, DeviceId)[e]
        BY <2>11, <2>12, <3>2 DEF kept
      <4>. QED
        BY <2>2, <2>8, <4>1, OthersGood
    <3>. QED
      BY <3>1, <3>2
  <2>16. claimed' \in BOOLEAN /\ (claimed => claimed') /\ claimed'
    BY <1>3, <2>2, ActiveIs DEF TypeOK, Claimed
  <2>. QED
    BY <1>1, <1>3, <2>7, <2>13, <2>14, <2>15, <2>16, StepKeeps DEF Done
<1>. QED
  BY <1>2, <1>3 DEF Recover

\* All devices of an account go, and its row changes.
LEMMA ClearedKeeps ==
  ASSUME IInv, tasks' \subseteq tasks, UNCHANGED environment, UNCHANGED <<claimed, rows, purge>>,
         NEW u \in UserId, Active(u), NEW new \in User, new # NoUser, new # Gone, Moved(users[u], new),
         new.state = "active" => new.version > 0 /\ new.hash.salt \in {new.version, -new.version},
         users' = [users EXCEPT ![u] = new], devices' = Removed(u, DeviceId)
  PROVE  IInv'
<1>. USE DEF IInv
<1>1. UsersMove /\ Salted' /\ \A v \in UserId : users'[v] = Gone => users[v] = Gone
  BY OneMoves
<1>2. devices' \in [DeviceId -> Device] /\ \A d \in DeviceId : Kept(devices[d], devices'[d])
  BY RemovedIs
<1>3. DevicesInOrder'
  <2>1. DevicesKept
    BY <1>2 DEF DevicesKept
  <2>. QED
    BY <2>1, KeptInOrder
<1>4. \A v \in UserId : v # u => users'[v] = users[v]
  BY DEF TypeOK
<1>5. \A d \in DeviceId : Good(d)'
  BY <1>4, OthersGood
<1>6. claimed' \in BOOLEAN /\ (claimed => claimed') /\ claimed'
  BY ActiveIs DEF TypeOK, Claimed
<1>. QED
  BY <1>1, <1>2, <1>3, <1>5, <1>6, StepKeeps

LEMMA DeleteKeeps ==
  ASSUME IInv, NEW t \in tasks, Delete(t)
  PROVE  IInv'
<1>1. t.kind = "delete" /\ Done(t) /\ Typed(t)
  BY TaskIs DEF Delete
<1>2. CASE Refuse
  BY <1>1, <1>2, RefuseKeeps
<1>3. CASE MayDelete(t) /\ ~Refuse
  <2>1. /\ users' = [users EXCEPT ![t.user] = [state |-> "deleted"]]
        /\ devices' = Removed(t.user, DeviceId) /\ UNCHANGED <<claimed, rows, purge>>
    BY <1>3 DEF Delete
  <2>2. t.user \in UserId /\ Active(t.user)
    BY <1>1, <1>3 DEF Typed, MayDelete
  <2>3. PICK new : new = [state |-> "deleted"]
    OBVIOUS
  <2>4. new \in User /\ new.state = "deleted" /\ new # NoUser /\ new # Gone
    BY <2>3, UserIs
  <2>5. Moved(users[t.user], new)
    BY <2>4 DEF Moved
  <2>6. tasks' \subseteq tasks /\ UNCHANGED environment
    BY <1>1 DEF Done
  <2>. QED
    BY <2>1, <2>2, <2>3, <2>4, <2>5, <2>6, ClearedKeeps
<1>. QED
  BY <1>2, <1>3 DEF Delete

LEMMA ResetKeeps ==
  ASSUME IInv, NEW t \in tasks, Reset(t)
  PROVE  IInv'
<1>1. t.kind = "reset" /\ Done(t) /\ Typed(t)
  BY TaskIs DEF Reset
<1>2. CASE Refuse
  BY <1>1, <1>2, RefuseKeeps
<1>3. CASE MayReset(t) /\ ~Refuse
  <2>1. /\ users' = [users EXCEPT ![t.user] = Recovered(t.user, t.word)]
        /\ devices' = Removed(t.user, DeviceId) /\ UNCHANGED <<claimed, rows, purge>>
    BY <1>3 DEF Reset
  <2>2. t.user \in UserId /\ Active(t.user) /\ t.word \in Words
    BY <1>1, <1>3 DEF Typed, MayReset
  <2>3. PICK new : new = Recovered(t.user, t.word)
    OBVIOUS
  <2>4. /\ new \in ActiveUser /\ Moved(users[t.user], new)
        /\ new.version > 0 /\ new.hash.salt \in {new.version, -new.version}
    BY <2>2, <2>3, NewCredentials DEF IInv
  <2>5. new \in User /\ new # NoUser /\ new # Gone
    BY <2>4, UserIs DEF ActiveUser
  <2>6. tasks' \subseteq tasks /\ UNCHANGED environment
    BY <1>1 DEF Done
  <2>. QED
    BY <2>1, <2>2, <2>3, <2>4, <2>5, <2>6, ClearedKeeps
<1>. QED
  BY <1>2, <1>3 DEF Reset

-----------------------------------------------------------------------------
(* Devices. *)

LEMMA RevokeReadsKeeps ==
  ASSUME IInv, NEW t \in tasks, RevokeReads(t)
  PROVE  IInv'
<1>1. t.kind = "revoke" /\ Typed(t)
  BY TaskIs DEF RevokeReads
<1>2. CASE Done(t) /\ Refuse
  BY <1>2, RefuseKeeps
<1>3. ASSUME NEW seen, seen = [t EXCEPT !.kind = "revoking"], Reads(t, seen)
      PROVE  IInv'
  <2>1. Typed(seen) /\ seen.kind = "revoking"
    BY <1>1, <1>3, GoesOn
  <2>. QED
    BY <1>3, <2>1, ReadsKeeps
<1>. QED
  BY <1>2, <1>3 DEF RevokeReads

\* A transaction that only removes devices.
LEMMA TakesAwayKeeps ==
  ASSUME IInv, NEW t \in tasks, Done(t), NEW ds, devices' = Removed(t.user, ds), UNCHANGED <<claimed, users, rows, purge>>
  PROVE  IInv'
<1>1. \A d \in DeviceId : devices[d] \in Device /\ NoDevice \in Device
  BY DeviceIs DEF IInv, TypeOK
<1>2. /\ devices' \in [DeviceId -> Device] /\ \A d \in DeviceId : Kept(devices[d], devices'[d])
      /\ \A d \in DeviceId : devices'[d] # NoDevice => devices'[d].gen = devices[d].gen
  BY <1>1 DEF Removed, Kept
<1>. QED
  BY <1>2, RemovalKeeps DEF Done

LEMMA RevokeKeeps ==
  ASSUME IInv, NEW t \in tasks, Revoke(t)
  PROVE  IInv'
<1>. PICK ds : devices' = Removed(t.user, ds)
  BY DEF Revoke
<1>. QED
  BY TakesAwayKeeps DEF Revoke

LEMMA InactiveReadsKeeps ==
  ASSUME IInv, NEW t \in tasks, InactiveReads(t)
  PROVE  IInv'
<1>1. t.kind = "inactive" /\ Typed(t)
  BY TaskIs DEF InactiveReads
<1>2. CASE Done(t) /\ Refuse
  BY <1>2, RefuseKeeps
<1>3. ASSUME NEW seen, seen = [t EXCEPT !.kind = "removing", !.found = StillInactive(t)], Reads(t, seen)
      PROVE  IInv'
  <2>1. Typed(seen) /\ seen.kind = "removing"
    BY <1>1, <1>3, LooksAgain
  <2>. QED
    BY <1>3, <2>1, ReadsKeeps
<1>. QED
  BY <1>2, <1>3 DEF InactiveReads

LEMMA RemoveInactiveKeeps ==
  ASSUME IInv, NEW t \in tasks, RemoveInactive(t)
  PROVE  IInv'
<1>. PICK ds : devices' = Removed(t.user, ds)
  BY DEF RemoveInactive
<1>. QED
  BY TakesAwayKeeps DEF RemoveInactive

LEMMA SignOutKeeps ==
  ASSUME IInv, NEW d \in DeviceId, SignOut(d)
  PROVE  IInv'
<1>1. /\ devices' \in [DeviceId -> Device] /\ \A e \in DeviceId : Kept(devices[e], devices'[e])
      /\ \A e \in DeviceId : devices'[e] # NoDevice => devices'[e].gen = devices[e].gen
  BY DeviceIs DEF SignOut, Kept, IInv, TypeOK
<1>. QED
  BY <1>1, RemovalKeeps DEF SignOut

LEMMA UseKeeps ==
  ASSUME IInv, NEW d \in DeviceId, NEW refresh \in BOOLEAN, Use(d, refresh)
  PROVE  IInv'
<1>. PICK r \in AnyDevice : r = devices[d]
  BY DeviceIs DEF Use, Passed, IInv, TypeOK
<1>1. PICK until : until = IF refresh THEN now + Ttl ELSE r.until
  OBVIOUS
<1>2. until \in Nat
  BY <1>1, NowIs DEF IInv, AnyDevice
<1>3. PICK new : new = [r EXCEPT !.seen = now, !.until = until]
  OBVIOUS
<1>4. new \in AnyDevice
  BY <1>2, <1>3, NowIs DEF IInv, AnyDevice
<1>5. new.user = r.user /\ new.hwid = r.hwid /\ new.gen = r.gen
  BY <1>3 DEF AnyDevice
<1>6. devices' = [devices EXCEPT ![d] = new]
  BY <1>1, <1>3 DEF Use
<1>7. /\ devices' \in [DeviceId -> Device] /\ \A e \in DeviceId : Kept(devices[e], devices'[e])
      /\ \A e \in DeviceId : devices'[e] # NoDevice => devices'[e].gen = devices[e].gen
  BY <1>4, <1>5, <1>6, DeviceIs DEF Kept, IInv, TypeOK
<1>. QED
  BY <1>7, RemovalKeeps DEF Use

\* An approved link makes a device, or the one of the same machine anew.
LEMMA LinkedKeeps ==
  ASSUME IInv, NEW u \in UserId, NEW hwid \in Hwids, Linked(u, hwid)
  PROVE  IInv'
<1>1. CASE Known(u, hwid) = {} /\ AddDevice(u, hwid, "link", users[u].gen)
  <2>1. UsersMove /\ Salted' /\ \A v \in UserId : users'[v] = Gone => users[v] = Gone
    BY NoneMoves DEF Linked, IInv
  <2>. QED
    BY <1>1, <2>1, AddKeeps DEF Linked
<1>2. ASSUME NEW d \in Known(u, hwid), devices' = [devices EXCEPT ![d] = DeviceRow(u, hwid, "link", users[u].gen)]
      PROVE  IInv'
  <2>1. d \in DeviceId /\ devices[d] # NoDevice /\ devices[d].user = u /\ devices[d].hwid = hwid
    BY <1>2, DevicesOfIs DEF IInv, Known, DevicesOf
  <2>2. users[u].gen \in Nat /\ devices[d].gen = users[u].gen
    BY <2>1, ActiveIs DEF Linked, IInv, ActiveUser, KeptOut
  <2>3. PICK row : row = DeviceRow(u, hwid, "link", users[u].gen)
    OBVIOUS
  <2>4. row \in Device /\ row # NoDevice /\ row.user = u /\ row.hwid = hwid /\ row.gen = users[u].gen
    BY <2>2, <2>3, NewDevice DEF IInv
  <2>5. devices' = [devices EXCEPT ![d] = row]
    BY <1>2, <2>3
  <2>6. /\ devices' \in [DeviceId -> Device] /\ \A e \in DeviceId : Kept(devices[e], devices'[e])
        /\ \A e \in DeviceId : devices'[e] # NoDevice => devices'[e].gen = devices[e].gen
    BY <2>1, <2>2, <2>4, <2>5 DEF Kept, IInv, TypeOK
  <2>. QED
    BY <2>6, RemovalKeeps DEF Linked
<1>. QED
  BY <1>1, <1>2 DEF Linked

-----------------------------------------------------------------------------
(* The rows of an account, crashes and time. *)

\* Nothing moves but rows, the purge and time.
LEMMA RestKeeps ==
  ASSUME IInv, tasks' \subseteq tasks, UNCHANGED <<mode, overlap, claimed, users, devices>>,
         now' \in 0 .. MaxTime, now <= now', restarts' \in 0 .. MaxRestarts,
         rows' \in [UserId -> [1 .. Tables -> 0 .. MaxRows]], NothingLeft',
         purge' \in {Idle} \cup [user : UserId, table : 1 .. Tables + 1], Purging'
  PROVE  IInv'
<1>. USE DEF IInv
<1>1. UsersMove /\ Salted'
  BY NoneMoves
<1>2. \A t \in tasks' : Typed(t)' /\ Informed(t)'
  BY <1>1, TasksKeep, Constants
<1>3. TypeOK'
  BY DEF TypeOK
<1>4. DevicesActive' /\ Claimed' /\ KeptOut' /\ DevicesInOrder'
  BY DEF DevicesActive, Claimed, KeptOut, DevicesInOrder, DevicesOf, Active
<1>. QED
  BY <1>1, <1>2, <1>3, <1>4

LEMMA SameTime ==
  ASSUME TypeOK, UNCHANGED <<now, restarts>>
  PROVE  now' \in 0 .. MaxTime /\ now <= now' /\ restarts' \in 0 .. MaxRestarts
BY Constants DEF TypeOK

LEMMA WriteKeeps ==
  ASSUME IInv, NEW t \in tasks, Write(t)
  PROVE  IInv'
<1>. USE DEF IInv
<1>1. t.kind = "write" /\ Done(t) /\ Typed(t) /\ t.user \in UserId
  BY TaskIs DEF Write, Typed
<1>2. CASE Refuse
  BY <1>1, <1>2, RefuseKeeps
<1>3. CASE Row(t.user) /\ ~Refuse
  <2>1. PICK n \in 1 .. Tables :
          rows' = [rows EXCEPT ![t.user][n] = IF @ < MaxRows THEN @ + 1 ELSE @]
    BY <1>3 DEF Write
  <2>2. UNCHANGED <<claimed, users, devices, purge>> /\ UNCHANGED environment /\ tasks' \subseteq tasks
    BY <1>1, <1>3 DEF Write, Done
  <2>3. rows[t.user] \in [1 .. Tables -> 0 .. MaxRows] /\ rows[t.user][n] \in 0 .. MaxRows
    BY <1>1 DEF TypeOK
  <2>4. (IF rows[t.user][n] < MaxRows THEN rows[t.user][n] + 1 ELSE rows[t.user][n]) \in 0 .. MaxRows
    BY <2>3, Constants
  <2>5. rows' \in [UserId -> [1 .. Tables -> 0 .. MaxRows]]
    BY <1>1, <2>1, <2>4 DEF TypeOK
  <2>6. users[t.user] # Gone
    BY <1>3, UserIs DEF Row
  <2>7. NothingLeft'
    BY <2>1, <2>2, <2>6 DEF NothingLeft, TypeOK
  <2>8. Purging'
    BY <2>2 DEF Purging
  <2>9. now' \in 0 .. MaxTime /\ now <= now' /\ restarts' \in 0 .. MaxRestarts
    BY <2>2, SameTime DEF environment
  <2>10. purge' \in {Idle} \cup [user : UserId, table : 1 .. Tables + 1]
    BY <2>2 DEF TypeOK
  <2>. QED
    BY <2>2, <2>5, <2>7, <2>8, <2>9, <2>10, RestKeeps DEF environment
<1>. QED
  BY <1>2, <1>3 DEF Write

LEMMA PurgeIs ==
  ASSUME TypeOK, purge # Idle
  PROVE  purge \in [user : UserId, table : 1 .. Tables + 1] /\ purge.user \in UserId /\ purge.table \in 1 .. Tables + 1
BY DEF TypeOK

LEMMA PurgeStartsKeeps ==
  ASSUME IInv, NEW u \in UserId, PurgeStarts(u)
  PROVE  IInv'
<1>. USE DEF IInv
<1>1. purge' = [user |-> u, table |-> 1] /\ users[u].state = "deleted"
  BY DEF PurgeStarts
<1>2. purge' \in [user : UserId, table : 1 .. Tables + 1] /\ purge'.user = u
  BY <1>1, Constants
<1>3. UNCHANGED <<now, mode, overlap, restarts, claimed, users, devices, rows, tasks>>
  BY DEF PurgeStarts, environment, database
<1>4. Purging' /\ NothingLeft'
  BY <1>1, <1>2, <1>3 DEF Purging, NothingLeft
<1>5. now' \in 0 .. MaxTime /\ now <= now' /\ restarts' \in 0 .. MaxRestarts
  BY <1>3, SameTime
<1>6. rows' \in [UserId -> [1 .. Tables -> 0 .. MaxRows]]
  BY <1>3 DEF TypeOK
<1>. QED
  BY <1>2, <1>3, <1>4, <1>5, <1>6, RestKeeps

LEMMA PurgeBatchKeeps ==
  ASSUME IInv, PurgeBatch
  PROVE  IInv'
<1>. USE DEF IInv
<1>. DEFINE u == purge.user
            left == rows[u][purge.table]
            n == IF left < Batch THEN left ELSE Batch
<1>1. purge # Idle /\ purge.table <= Tables /\ rows' = [rows EXCEPT ![u][purge.table] = left - n]
  BY DEF PurgeBatch
<1>2. purge' = IF n < Batch THEN [purge EXCEPT !.table = purge.table + 1] ELSE purge
  BY DEF PurgeBatch
<1>3. UNCHANGED <<now, mode, overlap, restarts, claimed, users, devices, tasks>>
  BY DEF PurgeBatch, environment
<1>4. u \in UserId /\ purge.table \in 1 .. Tables /\ purge \in [user : UserId, table : 1 .. Tables + 1]
  BY <1>1, PurgeIs, Constants
<1>5. left \in 0 .. MaxRows /\ rows[u] \in [1 .. Tables -> 0 .. MaxRows]
  BY <1>4 DEF TypeOK
<1>6. left - n \in 0 .. MaxRows
  BY <1>5, Constants
<1>7. rows' \in [UserId -> [1 .. Tables -> 0 .. MaxRows]]
  BY <1>1, <1>4, <1>6 DEF TypeOK
<1>8. purge' \in [user : UserId, table : 1 .. Tables + 1] /\ purge'.user = u
  BY <1>2, <1>4, Constants
<1>9. users[u].state = "deleted" /\ users[u] # Gone
  BY <1>1, <1>4, UserIs DEF Purging
<1>10. Purging'
  BY <1>3, <1>8, <1>9 DEF Purging
<1>11. \A v \in UserId : v # u => rows'[v] = rows[v]
  BY <1>1 DEF TypeOK
<1>12. NothingLeft'
  BY <1>3, <1>9, <1>11 DEF NothingLeft
<1>13. now' \in 0 .. MaxTime /\ now <= now' /\ restarts' \in 0 .. MaxRestarts
  BY <1>3, SameTime
<1>. QED
  BY <1>3, <1>7, <1>8, <1>10, <1>12, <1>13, RestKeeps

\* The account goes with all it has; nobody is at it any more.
LEMMA PurgeEndsKeeps ==
  ASSUME IInv, PurgeEnds
  PROVE  IInv'
<1>. USE DEF IInv
<1>. DEFINE u == purge.user
<1>1. purge # Idle /\ users' = [users EXCEPT ![u] = Gone] /\ rows' = Cascade(u) /\ purge' = Idle
  BY DEF PurgeEnds
<1>2. UNCHANGED <<now, mode, overlap, restarts, claimed, devices, tasks>>
  BY DEF PurgeEnds, environment
<1>3. u \in UserId /\ users[u].state = "deleted" /\ users[u] # NoUser
  BY <1>1, PurgeIs, UserIs DEF Purging
<1>4. \A v \in UserId : users'[v] = IF v = u THEN Gone ELSE users[v]
  BY <1>1 DEF TypeOK
<1>5. \A r \in User : Moved(r, r)
  <2>1. ASSUME NEW r \in User
        PROVE  Moved(r, r)
    <3>1. r.state = "active" => r.version \in Nat /\ r.code \in Nat
      BY UserIs DEF ActiveUser
    <3>. QED
      BY <3>1 DEF Moved
  <2>. QED
    BY <2>1
<1>6. Gone # NoUser
  BY UserIs
<1>7. Moved(users[u], Gone)
  BY <1>3, <1>6, UserIs DEF Moved
<1>8. UsersMove
  BY <1>1, <1>4, <1>5, <1>7 DEF UsersMove, TypeOK
<1>9. \A t \in tasks' : Typed(t)' /\ Informed(t)'
  BY <1>2, <1>8, TasksKeep, NowIs
<1>10. rows' \in [UserId -> [1 .. Tables -> 0 .. MaxRows]] /\ \A m \in 1 .. Tables : rows'[u][m] = 0
  BY <1>1, <1>3, Constants DEF Cascade, TypeOK
<1>11. \A v \in UserId : v # u => rows'[v] = rows[v]
  BY <1>1 DEF Cascade, TypeOK
<1>12. NothingLeft'
  BY <1>4, <1>10, <1>11 DEF NothingLeft
<1>13. TypeOK'
  BY <1>1, <1>2, <1>8, <1>10, MovedTyped DEF TypeOK
<1>14. Salted' /\ Purging'
  BY <1>1, <1>4, UserIs DEF Salted, Active, Purging
<1>15. \A d \in DeviceId : devices[d] # NoDevice => devices[d].user \in UserId /\ devices[d].user # u
  BY <1>3, DeviceIs DEF DevicesActive, Active, TypeOK
<1>16. DevicesActive' /\ KeptOut'
  BY <1>2, <1>4, <1>15 DEF DevicesActive, KeptOut, Active
<1>17. Claimed' /\ DevicesInOrder'
  BY <1>2, <1>3, <1>4 DEF Claimed, DevicesInOrder, DevicesOf
<1>. QED
  BY <1>9, <1>12, <1>13, <1>14, <1>16, <1>17

LEMMA RestartKeeps ==
  ASSUME IInv, Restart
  PROVE  IInv'
<1>. USE DEF IInv
<1>1. UNCHANGED <<now, mode, overlap, claimed, users, devices, rows>> /\ tasks' = {} /\ purge' = Idle
  BY DEF Restart, database
<1>2. restarts' \in 0 .. MaxRestarts
  BY Constants DEF Restart, TypeOK
<1>3. Purging' /\ NothingLeft'
  BY <1>1 DEF Purging, NothingLeft
<1>4. now' \in 0 .. MaxTime /\ now <= now' /\ rows' \in [UserId -> [1 .. Tables -> 0 .. MaxRows]]
  BY <1>1, NowIs DEF TypeOK
<1>. QED
  BY <1>1, <1>2, <1>3, <1>4, RestKeeps

LEMMA TickKeeps ==
  ASSUME IInv, Tick
  PROVE  IInv'
<1>. USE DEF IInv
<1>1. UNCHANGED <<mode, overlap, restarts, claimed, users, devices, rows, tasks, purge>> /\ now' = now + 1
  BY DEF Tick, database
<1>2. now' \in 0 .. MaxTime /\ now <= now'
  BY <1>1, Constants DEF Tick, TypeOK
<1>3. Purging' /\ NothingLeft'
  BY <1>1 DEF Purging, NothingLeft
<1>4. /\ restarts' \in 0 .. MaxRestarts /\ rows' \in [UserId -> [1 .. Tables -> 0 .. MaxRows]]
      /\ purge' \in {Idle} \cup [user : UserId, table : 1 .. Tables + 1]
  BY <1>1 DEF TypeOK
<1>. QED
  BY <1>1, <1>2, <1>3, <1>4, RestKeeps

-----------------------------------------------------------------------------
(* The first halves: what a request or a job reads. *)

\* The guard let a device pass: its account is active.
LEMMA PassedIs ==
  ASSUME IInv, NEW d \in DeviceId, Passed(d)
  PROVE  devices[d].user \in UserId /\ Active(devices[d].user)
BY DeviceIs DEF Passed, IInv, TypeOK, DevicesActive

LEMMA RegisteringKeeps ==
  ASSUME IInv, NEW login \in Logins, NEW word \in Words, NEW hwid \in Hwids, NEW by \in {"self", "admin"},
         Registering(login, word, hwid, by)
  PROVE  IInv'
<1>. DEFINE t == [kind |-> "register", user |-> 0, dev |-> 0, login |-> login, word |-> word, hwid |-> hwid, by |-> by]
<1>1. Begin(t)
  BY DEF Registering
<1>2. Typed(t) /\ Informed(t)
  BY DEF Typed, Informed, Kinds
<1>. QED
  BY <1>1, <1>2, BeginKeeps

LEMMA LoggingInKeeps ==
  ASSUME IInv, NEW u \in UserId, NEW hwid \in Hwids, NEW rehash \in BOOLEAN, LoggingIn(u, hwid, rehash)
  PROVE  IInv'
<1>. PICK r \in ActiveUser : r = users[u] /\ r # NoUser
  BY ActiveIs DEF LoggingIn, IInv
<1>. PICK t : t = [kind |-> "login", user |-> u, dev |-> 0, hash |-> r.hash, rehash |-> rehash,
                   hwid |-> hwid, gen |-> r.gen]
  OBVIOUS
<1>1. Begin(t) /\ (rehash => r.hash.salt > 0)
  BY DEF LoggingIn
<1>2. /\ t.kind = "login" /\ t.user = u /\ t.hash = r.hash /\ t.rehash = rehash /\ t.hwid = hwid /\ t.gen = r.gen
      /\ r.hash \in [word : Words, salt : Int] /\ r.gen \in Nat /\ r.version \in Nat
  BY DEF ActiveUser
<1>3. Typed(t)
  BY <1>1, <1>2 DEF Typed, Kinds
<1>4. r.version > 0 /\ r.hash.salt \in {r.version, -r.version}
  BY DEF LoggingIn, IInv, Salted
<1>5. Informed(t)
  BY <1>2, <1>4 DEF Informed
<1>. QED
  BY <1>1, <1>3, <1>5, BeginKeeps

LEMMA RecoveringKeeps ==
  ASSUME IInv, NEW u \in UserId, NEW hwid \in Hwids, NEW word \in Words, Recovering(u, word, hwid)
  PROVE  IInv'
<1>. PICK r \in ActiveUser : r = users[u] /\ r # NoUser
  BY ActiveIs DEF Recovering, IInv
<1>. PICK t : t = [kind |-> "recover", user |-> u, dev |-> 0, code |-> r.code, word |-> word, hwid |-> hwid,
                   gen |-> r.gen]
  OBVIOUS
<1>1. Begin(t)
  BY DEF Recovering
<1>2. /\ t.kind = "recover" /\ t.user = u /\ t.code = r.code /\ t.word = word /\ t.hwid = hwid /\ t.gen = r.gen
      /\ r.code \in Nat /\ r.gen \in Nat
  BY DEF ActiveUser
<1>3. Typed(t)
  BY <1>2 DEF Typed, Kinds
<1>4. Informed(t)
  BY <1>2 DEF Informed
<1>. QED
  BY <1>1, <1>3, <1>4, BeginKeeps

LEMMA ResettingKeeps ==
  ASSUME IInv, NEW u \in UserId, NEW word \in Words, Resetting(u, word)
  PROVE  IInv'
<1>. DEFINE t == [kind |-> "reset", user |-> u, dev |-> 0, word |-> word]
<1>1. Begin(t)
  BY DEF Resetting
<1>2. Typed(t) /\ Informed(t)
  BY DEF Typed, Informed, Kinds
<1>. QED
  BY <1>1, <1>2, BeginKeeps

LEMMA DeletingKeeps ==
  ASSUME IInv, NEW u \in UserId, NEW d \in DeviceId \cup {0}, Deleting(u, d)
  PROVE  IInv'
<1>. DEFINE t == [kind |-> "delete", user |-> u, dev |-> d]
<1>1. Begin(t)
  BY DEF Deleting
<1>2. Typed(t) /\ Informed(t)
  BY DEF Typed, Informed, Kinds
<1>. QED
  BY <1>1, <1>2, BeginKeeps

LEMMA FindInactiveKeeps ==
  ASSUME IInv, NEW u \in UserId, FindInactive(u)
  PROVE  IInv'
<1>. PICK found : found = {d \in DevicesOf(u) : IsInactive(d, now)}
  OBVIOUS
<1>. DEFINE t == [kind |-> "inactive", user |-> u, dev |-> 0, found |-> found, at |-> now]
<1>1. Begin(t)
  BY DEF FindInactive
<1>2. now \in 0 .. now /\ found \subseteq DeviceId
  BY NowIs DEF IInv, DevicesOf
<1>3. Typed(t) /\ Informed(t)
  BY <1>2 DEF Typed, Informed, Kinds
<1>. QED
  BY <1>1, <1>3, BeginKeeps

LEMMA ChangingPasswordKeeps ==
  ASSUME IInv, NEW d \in DeviceId, NEW word \in Words, NEW out \in BOOLEAN, ChangingPassword(d, word, out)
  PROVE  IInv'
<1>. DEFINE t == Asking("password", d, [word |-> word, out |-> out])
<1>1. Begin(t) /\ devices[d].user \in UserId
  BY PassedIs DEF ChangingPassword
<1>2. Typed(t) /\ Informed(t)
  BY <1>1 DEF Typed, Informed, Kinds, Asking
<1>. QED
  BY <1>1, <1>2, BeginKeeps

\* Requests of a device that carry nothing but who asks.
LEMMA AskingKeeps ==
  ASSUME IInv, NEW d \in DeviceId, Passed(d), NEW kind \in {"rotate", "revoke", "write"}, NEW body,
         Begin(Asking(kind, d, body))
  PROVE  IInv'
<1>1. devices[d].user \in UserId
  BY PassedIs
<1>2. Typed(Asking(kind, d, body)) /\ Informed(Asking(kind, d, body))
  BY <1>1 DEF Typed, Informed, Kinds, Asking
<1>. QED
  BY <1>2, BeginKeeps

-----------------------------------------------------------------------------
(* The invariant. *)

LEMMA InitHolds ==
  ASSUME Init
  PROVE  IInv
<1>. USE DEF Init
<1>1. TypeOK
  <2>1. now \in 0 .. MaxTime /\ restarts \in 0 .. MaxRestarts /\ rows \in [UserId -> [1 .. Tables -> 0 .. MaxRows]]
    BY Constants
  <2>2. users \in [UserId -> User] /\ devices \in [DeviceId -> Device]
    BY UserIs, DeviceIs
  <2>. QED
    BY <2>1, <2>2 DEF TypeOK
<1>2. Salted /\ DevicesActive /\ Claimed /\ Purging /\ KeptOut
  BY UserIs DEF Salted, Active, DevicesActive, Claimed, Purging, KeptOut
<1>3. DevicesInOrder
  <2>1. ASSUME NEW u \in UserId
        PROVE  Cardinality(DevicesOf(u)) <= DeviceLimit
    <3>1. DevicesOf(u) = {}
      BY <1>1, DevicesOfIs
    <3>. QED
      BY <3>1, FS_EmptySet, Constants
  <2>2. \A d \in DeviceId : devices[d] = NoDevice
    OBVIOUS
  <2>. QED
    BY <2>1, <2>2 DEF DevicesInOrder
<1>4. NothingLeft
  BY DEF NothingLeft
<1>. QED
  BY <1>1, <1>2, <1>3, <1>4 DEF IInv

LEMMA CommitKeeps ==
  ASSUME IInv, NEW t \in tasks, Commits(t)
  PROVE  IInv'
BY RegisterKeeps, LoginKeeps, ChangePasswordKeeps, RotateReadsKeeps, RotateKeeps, RecoverKeeps, DeleteKeeps, ResetKeeps,
   RevokeReadsKeeps, RevokeKeeps, InactiveReadsKeeps, RemoveInactiveKeeps, WriteKeeps DEF Commits

LEMMA RequestKeeps ==
  ASSUME IInv, Requests
  PROVE  IInv'
<1>1. CASE \E login \in Logins, word \in Words, hwid \in Hwids, by \in {"self", "admin"} :
             Registering(login, word, hwid, by)
  BY <1>1, RegisteringKeeps
<1>2. CASE \E u \in UserId, hwid \in Hwids, rehash \in BOOLEAN : LoggingIn(u, hwid, rehash)
  BY <1>2, LoggingInKeeps
<1>3. CASE \E u \in UserId, hwid \in Hwids, word \in Words : Recovering(u, word, hwid)
  BY <1>3, RecoveringKeeps
<1>4. CASE \E u \in UserId, word \in Words : Resetting(u, word)
  BY <1>4, ResettingKeeps
<1>5. CASE \E u \in UserId, d \in DeviceId \cup {0} : Deleting(u, d)
  BY <1>5, DeletingKeeps
<1>6. CASE \E u \in UserId : FindInactive(u)
  BY <1>6, FindInactiveKeeps
<1>7. CASE \E d \in DeviceId, word \in Words, out \in BOOLEAN : ChangingPassword(d, word, out)
  BY <1>7, ChangingPasswordKeeps
<1>8. CASE \E d \in DeviceId, target \in DeviceId \cup {0}, verified \in BOOLEAN : Revoking(d, target, verified)
  BY <1>8, AskingKeeps DEF Revoking
<1>9. CASE \E d \in DeviceId : Rotating(d) \/ Writing(d)
  BY <1>9, AskingKeeps DEF Rotating, Writing
<1>. QED
  BY <1>1, <1>2, <1>3, <1>4, <1>5, <1>6, <1>7, <1>8, <1>9 DEF Requests

LEMMA DirectKeeps ==
  ASSUME IInv, Direct
  PROVE  IInv'
BY LinkedKeeps, UseKeeps, SignOutKeeps DEF Direct

LEMMA NextKeeps ==
  ASSUME IInv, [Next]_vars
  PROVE  IInv'
<1>1. CASE Requests
  BY <1>1, RequestKeeps
<1>2. CASE \E t \in tasks : Ready(t) /\ Commits(t)
  BY <1>2, CommitKeeps
<1>3. CASE PurgeStep
  BY <1>3, PurgeBatchKeeps, PurgeEndsKeeps, PurgeStartsKeeps DEF PurgeStep
<1>7. CASE Direct
  BY <1>7, DirectKeeps
<1>4. CASE Restart
  BY <1>4, RestartKeeps
<1>5. CASE Tick
  BY <1>5, TickKeeps
<1>6. CASE UNCHANGED vars
  <2>1. UNCHANGED <<now, mode, overlap, claimed, users, devices, rows, tasks, purge, restarts>>
    BY <1>6 DEF vars
  <2>2. Purging' /\ NothingLeft'
    BY <2>1 DEF IInv, Purging, NothingLeft
  <2>3. TypeOK' /\ \A t \in tasks' : Typed(t)' /\ Informed(t)'
    BY <2>1 DEF IInv, TypeOK, Typed, Informed, Active
  <2>4. Salted' /\ DevicesActive' /\ Claimed' /\ KeptOut' /\ DevicesInOrder'
    BY <2>1 DEF IInv, Salted, DevicesActive, Claimed, KeptOut, DevicesInOrder, DevicesOf, Active
  <2>. QED
    BY <2>2, <2>3, <2>4 DEF IInv
<1>. QED
  BY <1>1, <1>2, <1>3, <1>4, <1>5, <1>6, <1>7 DEF Next

\* The invariant on which the other theorems rest.
THEOREM Invariance == Spec => []IInv
<1>1. Init => IInv
  BY InitHolds
<1>2. IInv /\ [Next]_vars => IInv'
  BY NextKeeps
<1>. QED
  BY <1>1, <1>2, PTL DEF Spec

\* Rows of accounts and devices, the clock and the purge have their types, in whichever order requests, crashes
\* and the purge come.
THEOREM TypeCorrect == Spec => []TypeOK
<1>1. IInv => TypeOK
  BY DEF IInv
<1>. QED
  BY <1>1, Invariance, PTL

\* A recovery, or a reset by the administrator, leaves no device that came in by what was valid before it
\* (login step 5: the hash is compared again; resetCredentials compares the code).
THEOREM RecoveryKeepsOut == Spec => []KeptOut
<1>1. IInv => KeptOut
  BY DEF IInv
<1>. QED
  BY <1>1, Invariance, PTL

\* No account has more devices than MAX_DEVICES_PER_USER or one machine twice, however sign-ins, links and
\* recoveries meet.
THEOREM DevicesStayInOrder == Spec => []DevicesInOrder
<1>1. IInv => DevicesInOrder
  BY DEF IInv
<1>. QED
  BY <1>1, Invariance, PTL

\* Nothing of an account that was purged is left, whatever was written while the purge ran.
THEOREM PurgeLeavesNothing == Spec => []NothingLeft
<1>1. IInv => NothingLeft
  BY DEF IInv
<1>. QED
  BY <1>1, Invariance, PTL

-----------------------------------------------------------------------------
(* What a step may not do. *)

\* A request or a job begins with what no transaction has read yet.
LEMMA RequestsBegin ==
  ASSUME Requests
  PROVE  \E t : Begin(t) /\ t.kind \notin {"rotating", "revoking", "removing"}
<1>1. CASE \E login \in Logins, word \in Words, hwid \in Hwids, by \in {"self", "admin"} :
             Registering(login, word, hwid, by)
  BY <1>1 DEF Registering
<1>2. CASE \E u \in UserId, hwid \in Hwids, rehash \in BOOLEAN : LoggingIn(u, hwid, rehash)
  BY <1>2 DEF LoggingIn
<1>3. CASE \E u \in UserId, hwid \in Hwids, word \in Words : Recovering(u, word, hwid)
  BY <1>3 DEF Recovering
<1>4. CASE \E u \in UserId, word \in Words : Resetting(u, word)
  BY <1>4 DEF Resetting
<1>5. CASE \E u \in UserId, d \in DeviceId \cup {0} : Deleting(u, d)
  BY <1>5 DEF Deleting
<1>6. CASE \E u \in UserId : FindInactive(u)
  <2>1. PICK u \in UserId : FindInactive(u)
    BY <1>6
  <2>2. PICK found : Begin([kind |-> "inactive", user |-> u, dev |-> 0, found |-> found, at |-> now])
    BY <2>1 DEF FindInactive
  <2>. QED
    BY <2>2
<1>7. CASE \E d \in DeviceId, word \in Words, out \in BOOLEAN : ChangingPassword(d, word, out)
  BY <1>7 DEF ChangingPassword, Asking
<1>8. CASE \E d \in DeviceId, target \in DeviceId \cup {0}, verified \in BOOLEAN : Revoking(d, target, verified)
  BY <1>8 DEF Revoking, Asking
<1>9. CASE \E d \in DeviceId : Rotating(d) \/ Writing(d)
  BY <1>9 DEF Rotating, Writing, Asking
<1>. QED
  BY <1>1, <1>2, <1>3, <1>4, <1>5, <1>6, <1>7, <1>8, <1>9 DEF Requests

\* A task goes on as a transaction that has read what it needs, or it is done.
LEMMA CommitsEnd ==
  ASSUME NEW t, Commits(t)
  PROVE  \/ Done(t) /\ ~RotateReads(t) /\ ~RevokeReads(t) /\ ~InactiveReads(t)
         \/ (RotateReads(t) \/ RevokeReads(t) \/ InactiveReads(t)) /\ UNCHANGED <<database, purge, environment>>
BY DEF Commits, Register, Login, ChangePassword, RotateReads, Rotate, Recover, Delete, Reset, RevokeReads, Revoke,
   InactiveReads, RemoveInactive, Write, Reads, Done, Refuse

\* A transaction that begins is the one of a task that looked.
LEMMA WhoBegins ==
  ASSUME IInv, NEW t \in tasks, RotateReads(t) \/ RevokeReads(t) \/ InactiveReads(t), NEW s \in Begun', s \notin Begun
  PROVE  /\ tasks' = (tasks \ {t}) \cup {s} /\ t \notin Begun
         /\ AsRead(s) /\ (s.kind = "removing" => s.at \in 0 .. now)
<1>1. s \in tasks' /\ s \notin tasks /\ s.kind \in {"rotating", "revoking", "removing"}
  BY DEF Begun
<1>2. ASSUME NEW seen, Reads(t, seen)
      PROVE  seen = s /\ tasks' = (tasks \ {t}) \cup {s}
  BY <1>1, <1>2 DEF Reads
<1>3. Typed(t)
  BY TaskIs
<1>4. CASE RotateReads(t)
  <2>1. PICK seen : seen = [t EXCEPT !.kind = "rotating"]
    OBVIOUS
  <2>2. t.kind = "rotate" /\ Found(t.user, {t.dev}) /\ Reads(t, seen)
    BY <1>1, <1>4, <2>1 DEF RotateReads, MayRotate, Done
  <2>3. seen.kind = "rotating" /\ seen.dev = t.dev /\ seen.user = t.user
    BY <1>3, <2>1, <2>2, GoesOn
  <2>. QED
    BY <1>2, <2>2, <2>3 DEF Begun, AsRead, Found, DevicesOf
<1>5. CASE RevokeReads(t)
  <2>1. PICK seen : seen = [t EXCEPT !.kind = "revoking"]
    OBVIOUS
  <2>2. t.kind = "revoke" /\ Found(t.user, {t.dev, t.body.target} \ {0}) /\ Reads(t, seen)
    BY <1>1, <1>5, <2>1 DEF RevokeReads, MayRevoke, Done
  <2>3. seen.kind = "revoking" /\ seen.dev = t.dev /\ seen.user = t.user
    BY <1>3, <2>1, <2>2, GoesOn
  <2>4. t.dev \in DeviceId /\ t.dev # 0
    BY <1>3, <2>2 DEF Typed, DeviceId
  <2>. QED
    BY <1>2, <2>2, <2>3, <2>4 DEF Begun, AsRead, Found, DevicesOf
<1>6. CASE InactiveReads(t)
  <2>1. PICK seen : seen = [t EXCEPT !.kind = "removing", !.found = StillInactive(t)]
    OBVIOUS
  <2>2. t.kind = "inactive" /\ Reads(t, seen)
    BY <1>1, <1>6, <2>1 DEF InactiveReads, Done
  <2>3. seen.kind = "removing" /\ seen.found = StillInactive(t) /\ seen.at = t.at
    BY <1>3, <2>1, <2>2, LooksAgain
  <2>4. t.at \in 0 .. now
    BY <1>3, <2>2 DEF Typed
  <2>. QED
    BY <1>2, <2>2, <2>3, <2>4 DEF Begun, AsRead, StillInactive
<1>. QED
  BY <1>4, <1>5, <1>6

\* On SQLite a transaction that has begun is alone until it ends: nothing is written beside it.
LEMMA SerialKeeps ==
  ASSUME IInv, Serial, [Next]_vars
  PROVE  Serial'
<1>1. ASSUME Begun' = {}
      PROVE  Serial'
  BY <1>1 DEF Serial
<1>2. ASSUME Begun' \subseteq Begun, UNCHANGED <<overlap, devices>>
      PROVE  Serial'
  BY <1>2 DEF Serial, AsRead, IsInactive
<1>3. CASE Requests
  <2>1. PICK t : Begin(t) /\ t.kind \notin {"rotating", "revoking", "removing"}
    BY <1>3, RequestsBegin
  <2>. QED
    BY <1>2, <2>1 DEF Begin, Begun, environment, database
<1>4. CASE Alone /\ (Direct \/ PurgeStep)
  <2>1. tasks' = tasks /\ overlap' = overlap
    BY <1>4 DEF Direct, Linked, Use, SignOut, PurgeStep, PurgeStarts, PurgeBatch, PurgeEnds, environment
  <2>2. overlap \/ Begun' = {}
    BY <1>4, <2>1 DEF Alone, Begun
  <2>. QED
    BY <1>1, <2>1, <2>2 DEF Serial
<1>5. CASE \E t \in tasks : Ready(t) /\ Commits(t)
  <2>1. PICK t \in tasks : Ready(t) /\ Commits(t)
    BY <1>5
  <2>2. overlap \/ Begun \subseteq {t}
    BY <2>1 DEF Ready
  <2>3. CASE Done(t)
    <3>1. overlap' = overlap /\ tasks' = tasks \ {t}
      BY <2>3 DEF Done, environment
    <3>2. overlap \/ Begun' = {}
      BY <2>2, <3>1 DEF Begun
    <3>. QED
      BY <1>1, <3>1, <3>2 DEF Serial
  <2>4. CASE (RotateReads(t) \/ RevokeReads(t) \/ InactiveReads(t)) /\ UNCHANGED <<database, purge, environment>>
    <3>1. UNCHANGED <<overlap, devices>>
      BY <2>4 DEF database, environment
    <3>2. CASE Begun' \subseteq Begun
      BY <1>2, <3>1, <3>2
    <3>3. ASSUME NEW s \in Begun', s \notin Begun
          PROVE  Serial'
      <4>1. tasks' = (tasks \ {t}) \cup {s} /\ t \notin Begun /\ AsRead(s)
        BY <2>4, <3>3, WhoBegins
      <4>2. overlap \/ Begun' = {s}
        BY <2>2, <3>3, <4>1 DEF Begun
      <4>3. AsRead(s)'
        BY <3>1, <4>1 DEF AsRead, IsInactive
      <4>. QED
        BY <3>1, <4>2, <4>3 DEF Serial
    <3>. QED
      BY <3>2, <3>3
  <2>. QED
    BY <2>1, <2>3, <2>4, CommitsEnd
<1>6. CASE Restart
  BY <1>1, <1>6 DEF Restart, Begun
<1>7. CASE Tick \/ UNCHANGED vars
  BY <1>2, <1>7 DEF Tick, vars, database, Begun
<1>. QED
  BY <1>3, <1>4, <1>5, <1>6, <1>7 DEF Next

LEMMA SerialHolds == Spec => []Serial
<1>1. Init => Serial
  BY DEF Init, Serial, Begun
<1>2. IInv /\ Serial /\ [Next]_vars => Serial'
  BY SerialKeeps
<1>. QED
  BY <1>1, <1>2, Invariance, PTL DEF Spec

\* A step that begins or ends nothing, or a crash, writes no account and no device for a task that is gone.
LEMMA TasksGo ==
  ASSUME IInv, Next, NEW t \in tasks \ tasks'
  PROVE  Commits(t) \/ Restart
<1>1. CASE Requests
  <2>1. tasks \subseteq tasks'
    BY <1>1, RequestsBegin DEF Begin
  <2>. QED
    BY <2>1
<1>2. CASE \E r \in tasks : Ready(r) /\ Commits(r)
  <2>1. PICK r \in tasks : Commits(r)
    BY <1>2
  <2>2. tasks \ tasks' \subseteq {r}
    BY <2>1 DEF Commits, Register, Login, ChangePassword, RotateReads, Rotate, Recover, Delete, Reset, RevokeReads,
       Revoke, InactiveReads, RemoveInactive, Write, Done, Reads
  <2>. QED
    BY <2>1, <2>2
<1>3. CASE Direct \/ PurgeStep
  BY <1>3 DEF Direct, Linked, Use, SignOut, PurgeStep, PurgeStarts, PurgeBatch, PurgeEnds
<1>4. CASE Tick
  BY <1>4 DEF Tick
<1>. QED
  BY <1>1, <1>2, <1>3, <1>4 DEF Next

\* What has begun now is what a task read in this step.
LEMMA NewlyBegun ==
  ASSUME IInv, Next, NEW s \in Begun', s \notin Begun
  PROVE  AsRead(s) /\ (s.kind = "removing" => s.at \in 0 .. now)
<1>1. s \in tasks' /\ s \notin tasks /\ s.kind \in {"rotating", "revoking", "removing"}
  BY DEF Begun
<1>2. CASE Requests
  BY <1>1, <1>2, RequestsBegin DEF Begin
<1>3. CASE \E t \in tasks : Ready(t) /\ Commits(t)
  <2>1. PICK t \in tasks : Commits(t)
    BY <1>3
  <2>2. ~Done(t)
    BY <1>1 DEF Done
  <2>. QED
    BY <2>1, <2>2, CommitsEnd, WhoBegins
<1>4. CASE Direct \/ PurgeStep
  BY <1>1, <1>4 DEF Direct, Linked, Use, SignOut, PurgeStep, PurgeStarts, PurgeBatch, PurgeEnds
<1>5. CASE Restart \/ Tick
  BY <1>1, <1>5 DEF Restart, Tick
<1>. QED
  BY <1>2, <1>3, <1>4, <1>5 DEF Next

\* No transaction begins for a device that was removed while its request waited, and none changes a credential or
\* removes a device then (the guard let it pass; updatePassword, findDevice and readPair look again).  On SQLite one
\* that has begun still has its device; on PostgreSQL nothing keeps it there until the write.
THEOREM RemovedDevicesAreRefused == Spec => RemovedDoNothing
<1>. DEFINE Looks == \A t \in Begun' \ Begun : t.kind # "removing" => devices[t.dev].user = t.user
            Refused == \A t \in tasks \ tasks' :
                         /\ t.dev # 0 /\ devices[t.dev].user # t.user
                         /\ t.kind \in {"password", "rotate", "revoke"} \/ (~overlap /\ t.kind \in {"rotating", "revoking"})
                         => UNCHANGED <<users, devices>>
<1>1. IInv /\ [Next]_vars => Looks \/ UNCHANGED vars
  BY NewlyBegun DEF AsRead
<1>2. IInv /\ Serial /\ [Next]_vars => Refused \/ UNCHANGED vars
  <2>. SUFFICES ASSUME IInv, Serial, Next, NEW t \in tasks \ tasks', t.dev # 0, devices[t.dev].user # t.user,
                       t.kind \in {"password", "rotate", "revoke"} \/ (~overlap /\ t.kind \in {"rotating", "revoking"})
                PROVE  UNCHANGED <<users, devices>>
    OBVIOUS
  <2>1. CASE Restart
    BY <2>1 DEF Restart, database
  <2>2. CASE Commits(t) /\ t.kind \in {"password", "rotate", "revoke"}
    <3>1. ~Found(t.user, {t.dev})
      BY DEF Found, DevicesOf
    <3>2. ~MayChange(t)
      BY <3>1 DEF MayChange
    <3>3. ChangePassword(t) \/ RotateReads(t) \/ RevokeReads(t)
      BY <2>2 DEF Commits, Register, Login, Rotate, Recover, Delete, Reset, Revoke, InactiveReads, RemoveInactive, Write
    <3>. QED
      BY <3>2, <3>3 DEF ChangePassword, RotateReads, RevokeReads, Reads, Refuse, database
  <2>3. CASE ~overlap /\ t.kind \in {"rotating", "revoking"}
    BY <2>3 DEF Serial, Begun, AsRead
  <2>. QED
    BY <2>1, <2>2, <2>3, TasksGo
<1>. QED
  BY <1>1, <1>2, Invariance, SerialHolds, PTL DEF Spec, RemovedDoNothing

\* A device whose last use is older than at was not used since.
LEMMA InactiveIsUnused ==
  ASSUME IInv, NEW d \in DeviceId, NEW at \in 0 .. now, IsInactive(d, at)
  PROVE  Unused(d)
<1>1. devices[d].seen \in Nat /\ devices[d].until \in Nat /\ now \in Nat
  BY DeviceIs, NowIs, Constants DEF IInv, TypeOK, AnyDevice, IsInactive
<1>. QED
  BY <1>1, Constants DEF IsInactive, Unused

\* What the cleanup means to remove is inactive when its transaction reads (stillInactiveDevices), and it removes
\* nothing else; on SQLite a device it removes was not used until then.
THEOREM CleanupSparesTheUsed == Spec => UsedDevicesStay
<1>. DEFINE Looks == \A t \in Begun' \ Begun : t.kind = "removing" => \A d \in t.found : Unused(d)
            Spared == \A t \in tasks : RemoveInactive(t) =>
                        \A d \in DeviceId : devices[d] # NoDevice /\ devices'[d] = NoDevice =>
                          d \in t.found /\ (~overlap => Unused(d))
<1>1. IInv /\ [Next]_vars => Looks \/ UNCHANGED vars
  <2>. SUFFICES ASSUME IInv, Next, NEW t \in Begun' \ Begun, t.kind = "removing", NEW d \in t.found
                PROVE  Unused(d)
    OBVIOUS
  <2>1. IsInactive(d, t.at) /\ t.at \in 0 .. now
    BY NewlyBegun DEF AsRead
  <2>2. d \in DeviceId
    <3>1. t \in tasks' /\ Typed(t)'
      BY NextKeeps DEF Begun, IInv
    <3>. QED
      BY <3>1 DEF Typed
  <2>. QED
    BY <2>1, <2>2, InactiveIsUnused
<1>2. IInv /\ Serial => Spared
  <2>. SUFFICES ASSUME IInv, Serial, NEW t \in tasks, RemoveInactive(t), NEW d \in DeviceId,
                       devices[d] # NoDevice, devices'[d] = NoDevice
                PROVE  d \in t.found /\ (~overlap => Unused(d))
    OBVIOUS
  <2>1. d \in t.found /\ t.kind = "removing"
    BY DEF RemoveInactive, Removed
  <2>2. t.at \in 0 .. now
    BY <2>1, TaskIs DEF Typed
  <2>3. ~overlap => IsInactive(d, t.at)
    BY <2>1 DEF Serial, Begun, AsRead
  <2>. QED
    BY <2>1, <2>2, <2>3, InactiveIsUnused
<1>. QED
  BY <1>1, <1>2, Invariance, SerialHolds, PTL DEF Spec, UsedDevicesStay

\* A device that a request for registration makes belongs to the account that it makes.
LEMMA OnlyRegister ==
  ASSUME IInv, Next, NEW d \in DeviceId, devices[d] = NoDevice, devices'[d] # NoDevice, devices'[d].via = "register"
  PROVE  \E t \in tasks : Register(t) /\ MayRegister(t) /\ t.by # "admin"
<1>. USE DEF IInv
<1>1. ASSUME NEW u \in UserId, NEW hwid \in Hwids, NEW gen \in Nat, NEW via \in {"login", "link"}, AddDevice(u, hwid, via, gen)
      PROVE  FALSE
  <2>1. PICK e \in FreshDevice : devices' = [devices EXCEPT ![e] = DeviceRow(u, hwid, via, gen)]
    BY <1>1 DEF AddDevice
  <2>2. d = e
    BY <2>1 DEF FreshDevice, Taken, TypeOK
  <2>. QED
    BY <2>1, <2>2, NewDevice DEF FreshDevice, Taken, TypeOK
<1>2. ASSUME NEW e \in DeviceId, devices[e] # NoDevice, NEW new, devices' = [devices EXCEPT ![e] = new]
      PROVE  FALSE
  BY <1>2 DEF TypeOK
<1>3. ASSUME NEW u, NEW ds, devices'[d] = Removed(u, ds)[d]
      PROVE  FALSE
  BY <1>3 DEF Removed
<1>4. ~UNCHANGED devices
  OBVIOUS
<1>5. CASE Direct
  <2>1. CASE \E u \in UserId, hwid \in Hwids : Linked(u, hwid)
    <3>1. PICK u \in UserId, hwid \in Hwids : Linked(u, hwid)
      BY <2>1
    <3>2. users[u].gen \in Nat
      BY <3>1, ActiveIs DEF Linked, ActiveUser
    <3>3. ASSUME NEW e \in Known(u, hwid), devices' = [devices EXCEPT ![e] = DeviceRow(u, hwid, "link", users[u].gen)]
          PROVE  FALSE
      BY <1>2, <3>3, DevicesOfIs DEF Known
    <3>. QED
      BY <1>1, <3>1, <3>2, <3>3 DEF Linked
  <2>2. CASE \E e \in DeviceId, refresh \in BOOLEAN : Use(e, refresh)
    <3>1. PICK e \in DeviceId, refresh \in BOOLEAN : Use(e, refresh)
      BY <2>2
    <3>2. d # e
      BY <3>1 DEF Use, Passed
    <3>3. devices'[d] = devices[d]
      BY <3>1, <3>2 DEF Use, TypeOK
    <3>. QED
      BY <3>3
  <2>3. CASE \E e \in DeviceId : SignOut(e)
    BY <1>2, <2>3 DEF SignOut, Passed
  <2>. QED
    BY <1>5, <2>1, <2>2, <2>3 DEF Direct
<1>9. CASE Requests
  BY <1>4, <1>9, RequestsBegin DEF Begin, database
<1>6. CASE \E t \in tasks : Ready(t) /\ Commits(t)
  <2>1. PICK t \in tasks : Commits(t)
    BY <1>6
  <2>2. CASE Register(t)
    <3>1. MayRegister(t) /\ t.by # "admin"
      BY <1>4, <2>2 DEF Register, Refuse, database
    <3>. QED
      BY <2>2, <3>1
  <2>3. CASE Login(t)
    <3>1. t.user \in UserId /\ t.hwid \in Hwids /\ t.gen \in Nat
      BY <2>3, TaskIs DEF Login, Typed
    <3>2. SignIn(t.user, t.hwid, t.gen)
      BY <1>4, <2>3 DEF Login, Refuse, database
    <3>3. CASE AddDevice(t.user, t.hwid, "login", t.gen)
      BY <1>1, <3>1, <3>3
    <3>4. CASE \E e \in Known(t.user, t.hwid) :
                 devices' = [devices EXCEPT ![e].seen = now, ![e].until = now + Ttl, ![e].gen = t.gen]
      <4>1. PICK e \in Known(t.user, t.hwid) :
              devices' = [devices EXCEPT ![e].seen = now, ![e].until = now + Ttl, ![e].gen = t.gen]
        BY <3>4
      <4>2. e \in DeviceId /\ devices[e] # NoDevice
        BY <3>1, <4>1, DevicesOfIs DEF Known
      <4>3. devices'[d] = devices[d]
        BY <4>1, <4>2 DEF TypeOK
      <4>. QED
        BY <4>3
    <3>. QED
      BY <3>2, <3>3, <3>4 DEF SignIn
  <2>4. CASE ChangePassword(t)
    <3>1. /\ MayChange(t) /\ t.user \in UserId /\ t.dev \in DeviceId
          /\ devices' = [Removed(t.user, IF t.body.out THEN DeviceId \ {t.dev} ELSE {}) EXCEPT ![t.dev].until = now + Ttl]
      BY <1>4, <2>4, TaskIs DEF ChangePassword, Refuse, database, Typed
    <3>2. d # t.dev
      BY <3>1, DevicesOfIs DEF MayChange, Found
    <3>3. devices'[d] = Removed(t.user, IF t.body.out THEN DeviceId \ {t.dev} ELSE {})[d]
      BY <3>1, <3>2 DEF Removed
    <3>. QED
      BY <1>3, <3>3
  <2>5. CASE Recover(t)
    <3>1. t.user \in UserId /\ t.hwid \in Hwids /\ t.gen + 1 \in Nat
      BY <2>5, TaskIs DEF Recover, Typed
    <3>2. PICK e \in FreshDevice :
            devices' = [Removed(t.user, DeviceId) EXCEPT ![e] = DeviceRow(t.user, t.hwid, "recovery", t.gen + 1)]
      BY <1>4, <2>5 DEF Recover, Refuse, database
    <3>3. d = e
      BY <1>3, <3>2 DEF Removed
    <3>4. devices'[d] = DeviceRow(t.user, t.hwid, "recovery", t.gen + 1)
      BY <3>2, <3>3 DEF Removed
    <3>. QED
      BY <3>1, <3>4, NewDevice
  <2>8. CASE RotateReads(t) \/ RevokeReads(t) \/ InactiveReads(t)
    BY <1>4, <2>8 DEF RotateReads, RevokeReads, InactiveReads, Reads, Refuse, database
  <2>6. CASE Delete(t) \/ Reset(t) \/ Revoke(t) \/ RemoveInactive(t)
    <3>1. \E ds : devices' = Removed(t.user, ds)
      BY <1>4, <2>6 DEF Delete, Reset, Revoke, RemoveInactive, Refuse, database
    <3>. QED
      BY <1>3, <3>1
  <2>7. CASE Rotate(t) \/ Write(t)
    BY <1>4, <2>7 DEF Rotate, Write, Refuse, database
  <2>. QED
    BY <2>1, <2>2, <2>3, <2>4, <2>5, <2>6, <2>7, <2>8 DEF Commits
<1>7. CASE PurgeStep
  BY <1>4, <1>7 DEF PurgeStep, PurgeStarts, PurgeBatch, PurgeEnds, database
<1>8. CASE Restart \/ Tick
  BY <1>4, <1>8 DEF Restart, Tick, database
<1>. QED
  BY <1>5, <1>6, <1>7, <1>8, <1>9 DEF Next

\* In mode "first" nobody registers once an account was ever made, even when it is deleted and purged
\* (claimFirstUser: server_meta keeps first_user_id).
THEOREM FirstStaysAlone == Spec => FirstIsAlone
<1>. DEFINE First == mode = "first" /\ (\E d \in DeviceId : devices'[d] # devices[d] /\ devices'[d] # NoDevice
                                                  /\ devices'[d].via = "register" /\ devices[d] = NoDevice)
                       => \A u \in UserId : users[u] = NoUser
<1>1. IInv /\ [Next]_vars => First
  <2>. SUFFICES ASSUME IInv, [Next]_vars, mode = "first",
                       NEW d \in DeviceId, devices'[d] # devices[d], devices'[d] # NoDevice,
                       devices'[d].via = "register", devices[d] = NoDevice
                PROVE  \A u \in UserId : users[u] = NoUser
    OBVIOUS
  <2>1. Next
    BY DEF vars
  <2>2. PICK t \in tasks : Register(t) /\ MayRegister(t) /\ t.by # "admin"
    BY <2>1, OnlyRegister
  <2>3. t.by \in {"self", "admin"}
    BY <2>2, TaskIs DEF Typed, Register
  <2>4. ~claimed
    BY <2>2, <2>3 DEF MayRegister
  <2>. QED
    BY <2>4 DEF IInv, Claimed
<1>. QED
  BY <1>1, Invariance, PTL DEF Spec, FirstIsAlone

=============================================================================
