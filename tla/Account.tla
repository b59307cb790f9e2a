-------------------------------- MODULE Account --------------------------------
(***************************************************************************)
(* Accounts and their devices: registration, login, password change,       *)
(* recovery, deletion and its purge, revocation, the cleanup of devices    *)
(* nobody uses, and the commands of the administrator.                     *)
(*                                                                         *)
(* Every request reads and checks first (argon2 runs outside the           *)
(* transaction) and writes later, in a transaction that looks again.  Here *)
(* the first half puts a task, the second half takes it.  A request with a *)
(* wrong password ends in its first half and leaves no task; the tokens    *)
(* of a device are Refresh's, here only the expiry of the live one.        *)
(*                                                                         *)
(* A transaction that takes lockUser first, or decides with its first      *)
(* update, is one step.  A new recovery code, a revocation and the cleanup *)
(* read devices that others may write without that lock: they take two,    *)
(* and on PostgreSQL (read committed) something may come between.          *)
(***************************************************************************)
EXTENDS Integers, FiniteSets

CONSTANTS
  Logins, Words,  \* the names and the passwords users choose
  Hwids,          \* machines
  Modes,          \* REGISTRATION: "first" and "open"
  Overlaps,       \* PostgreSQL, whose transactions overlap, or SQLite, one write transaction at a time
  DeviceLimit,    \* MAX_DEVICES_PER_USER
  RestrictHours,       \* NEW_DEVICE_RESTRICT_HOURS
  Inactive,       \* DEVICE_INACTIVE_DAYS
  Ttl,            \* REFRESH_TOKEN_TTL_DAYS
  Batch,          \* DELETE_BATCH_ROWS
  Tables,         \* the number of PURGE_TABLES
  MaxRows,        \* bound: rows an account has of a table
  MaxUser, MaxDevice,    \* bounds: accounts ever made, devices at a time
  MaxVersion, MaxTime,   \* bounds: changes of credentials, the clock
  MaxRestarts, MaxLoad   \* bounds: crashes; accounts after the first, clock, crashes and requests under way together

ASSUME AccountAssumption ==
  /\ Modes \subseteq {"first", "open"} /\ Overlaps \subseteq BOOLEAN
  /\ {DeviceLimit, Batch, Tables} \subseteq Nat \ {0}
  /\ {RestrictHours, Inactive, Ttl, MaxRows, MaxUser, MaxDevice, MaxVersion, MaxTime, MaxRestarts, MaxLoad} \subseteq Nat

VARIABLES
  now,      \* the clock
  mode,     \* REGISTRATION of this server
  overlap,  \* whether its transactions overlap
  claimed,  \* whether server_meta has first_user_id
  users,    \* users, by id
  devices,  \* devices, by id
  rows,     \* rows of an account in each table that the purge empties
  tasks,    \* requests and job steps between their check and their write, or with a transaction that has begun
  purge,    \* the account the purge empties and the table it is at
  restarts  \* crashes so far

vars == <<now, mode, overlap, claimed, users, devices, rows, tasks, purge, restarts>>
environment == <<now, mode, overlap, restarts>>
database == <<claimed, users, devices, rows>>

UserId == 1 .. MaxUser
DeviceId == 1 .. MaxDevice

\* An argon2 hash is of a password, with a salt of its own.
Hash(word, salt) == [word |-> word, salt |-> salt]
NoUser == [state |-> "none"]
Gone == [state |-> "gone"]
\* gen counts the recoveries of an account: it is no column, KeptOut is about it.
UserRow(login, word) ==
  [state |-> "active", login |-> login, hash |-> Hash(word, 1), version |-> 1, code |-> 1, gen |-> 1]

NoDevice == [user |-> 0]
DeviceRow(u, hwid, via, gen) ==
  [user |-> u, hwid |-> hwid, via |-> via, created |-> now, seen |-> now, until |-> now + Ttl, gen |-> gen]

Idle == [user |-> 0, table |-> 0]

Active(u) == users[u].state = "active"
Row(u) == users[u].state \in {"active", "deleted"}
DevicesOf(u) == {d \in DeviceId : devices[d].user = u}
\* The caller and its target, read again inside the transaction: both are there and the user's.
Found(u, ds) == ds \subseteq DevicesOf(u)
LoginExists(login) == \E u \in UserId : Active(u) /\ users[u].login = login
NextUser == {u \in UserId : users[u] = NoUser /\ \A v \in 1 .. u - 1 : users[v] # NoUser}
\* The devices a task names.
Named(t) ==
  {t.dev} \cup (IF t.kind \in {"revoke", "revoking"} THEN {t.body.target} ELSE {})
          \cup (IF t.kind \in {"inactive", "removing"} THEN t.found ELSE {})
\* Ids are random; a removed device's id is not given again while a task may still name it.
Taken == {d \in DeviceId : devices[d] # NoDevice} \cup UNION {Named(t) : t \in tasks}
FreshDevice == {d \in DeviceId \ Taken : 1 .. d - 1 \subseteq Taken}

User ==
  {NoUser, [state |-> "deleted"], Gone} \cup
  [state : {"active"}, login : Logins, hash : [word : Words, salt : Int], version : Nat, code : Nat, gen : Nat]
Device ==
  {NoDevice} \cup
  [user : UserId, hwid : Hwids, via : {"register", "login", "link", "recovery"},
   created : 0 .. MaxTime, seen : 0 .. MaxTime, until : Nat, gen : Nat]

TypeOK ==
  /\ now \in 0 .. MaxTime /\ mode \in Modes /\ overlap \in Overlaps /\ claimed \in BOOLEAN /\ restarts \in 0 .. MaxRestarts
  /\ users \in [UserId -> User]
  /\ devices \in [DeviceId -> Device]
  /\ rows \in [UserId -> [1 .. Tables -> 0 .. MaxRows]]
  /\ purge \in {Idle} \cup [user : UserId, table : 1 .. Tables + 1]

Init ==
  /\ now = 0
  /\ mode \in Modes
  /\ overlap \in Overlaps
  /\ claimed = FALSE
  /\ users = [u \in UserId |-> NoUser]
  /\ devices = [d \in DeviceId |-> NoDevice]
  /\ rows = [u \in UserId |-> [t \in 1 .. Tables |-> 0]]
  /\ tasks = {}
  /\ purge = Idle
  /\ restarts = 0

\* What the instance has under way: the more of one, the less of another.
Load == Cardinality(tasks) + now + restarts + Cardinality({u \in UserId \ {1} : users[u] # NoUser})

\* A request passed its checks, or a job found its work.
Begin(t) ==
  /\ Load < MaxLoad /\ t \notin tasks
  /\ tasks' = tasks \cup {t}
  /\ UNCHANGED <<environment, database, purge>>

Done(t) == t \in tasks /\ tasks' = tasks \ {t} /\ UNCHANGED environment
\* An error: the transaction leaves nothing.
Refuse == UNCHANGED <<database, purge>>

\* The transaction has read and goes on as `seen`; what it writes comes later.
Reads(t, seen) ==
  t \in tasks /\ tasks' = (tasks \ {t}) \cup {seen} /\ UNCHANGED <<environment, database, purge>>
Begun == {t \in tasks : t.kind \in {"rotating", "revoking", "removing"}}

\* Who takes lockUser, and whose is taken.  A new recovery code and the revocation of one device do without.
Locks(t) ==
  \/ t.kind \in {"login", "password", "recover", "delete", "reset", "write", "inactive"}
  \/ (t.kind = "revoke" /\ t.body.target = 0)
Locked(u) ==
  \E t \in Begun : t.user = u /\ (t.kind = "revoking" => t.body.target = 0) /\ t.kind # "rotating"

\* SQLite has one writer: nothing is written beside a transaction that has begun.
Alone == overlap \/ Begun = {}
\* A task may take its next step.
Ready(t) == (overlap \/ Begun \subseteq {t}) /\ (Locks(t) => ~Locked(t.user))

-----------------------------------------------------------------------------
(* Registration and login. *)

Registering(login, word, hwid, by) ==
  /\ by = "self" => mode = "open" \/ ~claimed
  /\ ~LoginExists(login)
  /\ Begin([kind |-> "register", user |-> 0, dev |-> 0, login |-> login, word |-> word, hwid |-> hwid, by |-> by])

\* Variant: the gate's look at first_user_id is the only one.
MayRegisterOnce(t) == ~LoginExists(t.login)

\* claimFirstUser and insertUser: both inserts find what was committed meanwhile.
MayRegister(t) == (t.by = "self" => mode = "open" \/ ~claimed) /\ ~LoginExists(t.login)

\* createUserByAdmin makes no device.
Register(t) ==
  /\ t.kind = "register" /\ Done(t)
  /\ \/ ~MayRegister(t) /\ Refuse
     \/ MayRegister(t) /\ \E u \in NextUser, d \in FreshDevice :
          /\ users' = [users EXCEPT ![u] = UserRow(t.login, t.word)]
          /\ devices' = IF t.by = "admin" THEN devices
                        ELSE [devices EXCEPT ![d] = DeviceRow(u, t.hwid, "register", 1)]
          /\ claimed' = TRUE
          /\ UNCHANGED <<rows, purge>>

\* The password was verified against the hash that was read.
LoggingIn(u, hwid, rehash) ==
  /\ Active(u) /\ (rehash => users[u].hash.salt > 0)
  /\ Begin([kind |-> "login", user |-> u, dev |-> 0, hash |-> users[u].hash, rehash |-> rehash,
            hwid |-> hwid, gen |-> users[u].gen])

Known(u, hwid) == {d \in DevicesOf(u) : devices[d].hwid = hwid}
\* MAX_DEVICES_PER_USER is about new devices.
CanSignIn(u, hwid) == Known(u, hwid) # {} \/ Cardinality(DevicesOf(u)) < DeviceLimit

\* A device known by its hwid gets a new token family, a new one a row.
AddDevice(u, hwid, via, gen) ==
  \E d \in FreshDevice : devices' = [devices EXCEPT ![d] = DeviceRow(u, hwid, via, gen)]
SignIn(u, hwid, gen) ==
  \/ \E d \in Known(u, hwid) :
       devices' = [devices EXCEPT ![d].seen = now, ![d].until = now + Ttl, ![d].gen = gen]
  \/ Known(u, hwid) = {} /\ AddDevice(u, hwid, "login", gen)

\* Variant: the account is looked up again, not its password.
StillActive(t) == Active(t.user)

StillVerified(t) == Active(t.user) /\ users[t.user].hash = t.hash

\* The argon2 parameters changed: a login that succeeds leaves a hash made anew.
Rehashed(u) == [users EXCEPT ![u].hash = Hash(@.word, -@.salt)]

Login(t) ==
  /\ t.kind = "login" /\ Done(t)
  /\ \/ ~StillVerified(t) /\ Refuse
     \/ /\ StillVerified(t) /\ CanSignIn(t.user, t.hwid)
        /\ SignIn(t.user, t.hwid, t.gen)
        /\ users' = IF t.rehash THEN Rehashed(t.user) ELSE users
        /\ UNCHANGED <<claimed, rows, purge>>
     \/ StillVerified(t) /\ ~CanSignIn(t.user, t.hwid) /\ Refuse

\* Linking: an approved link makes a device, or makes the one of the same machine anew (upsertLinkedDevice).
Linked(u, hwid) ==
  /\ Active(u) /\ DevicesOf(u) # {} /\ CanSignIn(u, hwid)
  /\ ~Locked(u)
  /\ \/ \E d \in Known(u, hwid) : devices' = [devices EXCEPT ![d] = DeviceRow(u, hwid, "link", users[u].gen)]
     \/ Known(u, hwid) = {} /\ AddDevice(u, hwid, "link", users[u].gen)
  /\ UNCHANGED <<environment, claimed, users, rows, tasks, purge>>

-----------------------------------------------------------------------------
(* Credentials. *)

\* removeDevicesInTx, on the devices that are there and the user's.
Removed(u, ds) == [d \in DeviceId |-> IF d \in ds /\ devices[d].user = u THEN NoDevice ELSE devices[d]]

\* The guard let a device pass, with the auth_version of its token.
Asking(kind, d, body) ==
  [kind |-> kind, user |-> devices[d].user, dev |-> d, version |-> users[devices[d].user].version, body |-> body]
Passed(d) == devices[d] # NoDevice

Recredential(u, word) ==
  [users[u] EXCEPT !.hash = Hash(word, users[u].version + 1), !.version = @ + 1]
NewCode(user) == [user EXCEPT !.code = @ + 1]
Recovered(u, word) == [NewCode(Recredential(u, word)) EXCEPT !.gen = @ + 1]
Room(u) == users[u].version < MaxVersion /\ users[u].code < MaxVersion

\* The old password, where it is given, was verified.
ChangingPassword(d, word, out) ==
  /\ Passed(d) /\ Room(devices[d].user)
  /\ Begin(Asking("password", d, [word |-> word, out |-> out]))

\* The device is still there; updatePassword compares auth_version.
MayChange(t) ==
  /\ Active(t.user) /\ Found(t.user, {t.dev})
  /\ users[t.user].version = t.version

ChangePassword(t) ==
  /\ t.kind = "password" /\ Done(t)
  /\ \/ ~MayChange(t) /\ Refuse
     \/ /\ MayChange(t)
        /\ users' = [users EXCEPT ![t.user] = Recredential(t.user, t.body.word)]
        /\ devices' = [Removed(t.user, IF t.body.out THEN DeviceId \ {t.dev} ELSE {})
                         EXCEPT ![t.dev].until = now + Ttl]
        /\ UNCHANGED <<claimed, rows, purge>>

\* Variant: the account is there.
MayRotateAnyway(t) == Active(t.user)

\* The password was verified before; the transaction asks for the device.
MayRotate(t) == Active(t.user) /\ Found(t.user, {t.dev})

Rotating(d) == Passed(d) /\ Room(devices[d].user) /\ Begin(Asking("rotate", d, "none"))
RotateReads(t) ==
  /\ t.kind = "rotate"
  /\ \/ ~MayRotate(t) /\ Done(t) /\ Refuse
     \/ MayRotate(t) /\ Reads(t, [t EXCEPT !.kind = "rotating"])

\* replaceRecoveryCode asks for the account alone.
Rotate(t) ==
  /\ t.kind = "rotating" /\ Done(t)
  /\ \/ ~Active(t.user) /\ Refuse
     \/ /\ Active(t.user)
        /\ users' = [users EXCEPT ![t.user] = NewCode(@)]
        /\ UNCHANGED <<claimed, devices, rows, purge>>

\* The code matched the one that was read.
Recovering(u, word, hwid) ==
  /\ Active(u) /\ Room(u)
  /\ Begin([kind |-> "recover", user |-> u, dev |-> 0, code |-> users[u].code, word |-> word, hwid |-> hwid,
          gen |-> users[u].gen])

\* resetCredentials compares the code.
MayRecover(t) == Active(t.user) /\ users[t.user].code = t.code

Recover(t) ==
  /\ t.kind = "recover" /\ Done(t)
  /\ \/ ~MayRecover(t) /\ Refuse
     \/ MayRecover(t) /\ \E d \in FreshDevice :
          /\ users' = [users EXCEPT ![t.user] = Recovered(t.user, t.word)]
          /\ devices' = [Removed(t.user, DeviceId) EXCEPT ![d] = DeviceRow(t.user, t.hwid, "recovery", t.gen + 1)]
          /\ UNCHANGED <<claimed, rows, purge>>

\* POST /auth/me/delete, its password verified; the CLI asks for none.
Deleting(u, d) ==
  /\ Active(u) /\ (d # 0 => devices[d].user = u)
  /\ Begin([kind |-> "delete", user |-> u, dev |-> d])

\* markUserDeleted finds an account that is not deleted yet.
MayDelete(t) == Active(t.user)

\* The login is free at once; the rows go later.
Delete(t) ==
  /\ t.kind = "delete" /\ Done(t)
  /\ \/ ~MayDelete(t) /\ Refuse
     \/ /\ MayDelete(t)
        /\ users' = [users EXCEPT ![t.user] = [state |-> "deleted"]]
        /\ devices' = Removed(t.user, DeviceId)
        /\ UNCHANGED <<claimed, rows, purge>>

\* melogold user reset-password: no code, no device.
Resetting(u, word) ==
  Active(u) /\ Room(u) /\ Begin([kind |-> "reset", user |-> u, dev |-> 0, word |-> word])

\* adminResetCredentials compares no code: the account is there.
MayReset(t) == Active(t.user)

Reset(t) ==
  /\ t.kind = "reset" /\ Done(t)
  /\ \/ ~MayReset(t) /\ Refuse
     \/ /\ MayReset(t)
        /\ users' = [users EXCEPT ![t.user] = Recovered(t.user, t.word)]
        /\ devices' = Removed(t.user, DeviceId)
        /\ UNCHANGED <<claimed, rows, purge>>

-----------------------------------------------------------------------------
(* Devices. *)

Recent(d) == devices[d].via \notin {"register", "recovery"} /\ now < devices[d].created + RestrictHours
\* needsPasswordFor: a recent device is asked for the password before it acts on an older one.
NeedsPassword(me, d) == d # me /\ Recent(me) /\ devices[d].created < devices[me].created

Others(d) == DevicesOf(devices[d].user) \ {d}
Gate(me, targets, verified) == verified \/ \A d \in targets : ~NeedsPassword(me, d)

\* One device, or all others.
Revoking(d, target, verified) ==
  /\ Passed(d) /\ (target # 0 => devices[target].user = devices[d].user /\ target # d)
  /\ Gate(d, IF target = 0 THEN Others(d) ELSE {target}, verified)
  /\ Begin(Asking("revoke", d, [target |-> target, verified |-> verified]))

\* The transaction reads both devices again.
MayRevoke(t) ==
  /\ Found(t.user, {t.dev, t.body.target} \ {0})
  /\ Gate(t.dev, IF t.body.target = 0 THEN Others(t.dev) ELSE {t.body.target}, t.body.verified)

RevokeReads(t) ==
  /\ t.kind = "revoke"
  /\ \/ ~MayRevoke(t) /\ Done(t) /\ Refuse
     \/ MayRevoke(t) /\ Reads(t, [t EXCEPT !.kind = "revoking"])

\* What is still there of what was read goes; under lockUser no device is added to the others.
Revoke(t) ==
  /\ t.kind = "revoking" /\ Done(t)
  /\ devices' = Removed(t.user, IF t.body.target = 0 THEN DeviceId \ {t.dev} ELSE {t.body.target})
  /\ UNCHANGED <<claimed, users, rows, purge>>

\* The guard notes that a device was seen, a refresh also moves the expiry of its token.
Use(d, refresh) ==
  /\ Passed(d)
  /\ devices' = [devices EXCEPT ![d].seen = now, ![d].until = IF refresh THEN now + Ttl ELSE @]
  /\ devices' # devices
  /\ UNCHANGED <<environment, claimed, users, rows, tasks, purge>>

\* Logout, or the CLI's revoke-device.
SignOut(d) ==
  /\ Passed(d)
  /\ devices' = [devices EXCEPT ![d] = NoDevice]
  /\ UNCHANGED <<environment, claimed, users, rows, tasks, purge>>

\* inactiveCriteria: at is the time of the run.
IsInactive(d, at) == devices[d] # NoDevice /\ devices[d].seen < at - Inactive /\ devices[d].until <= at

FindInactive(u) ==
  LET found == {d \in DevicesOf(u) : IsInactive(d, now)}
  IN found # {} /\ Begin([kind |-> "inactive", user |-> u, dev |-> 0, found |-> found, at |-> now])

\* Variant: the candidates go as they were found.
AsFound(t) == t.found

\* stillInactiveDevices, under lockUser.
StillInactive(t) == {d \in t.found : IsInactive(d, t.at)}

InactiveReads(t) ==
  /\ t.kind = "inactive"
  /\ \/ ~Row(t.user) /\ Done(t) /\ Refuse
     \/ Row(t.user) /\ Reads(t, [t EXCEPT !.kind = "removing", !.found = StillInactive(t)])

\* lockUser holds back neither the guard nor a refresh.
RemoveInactive(t) ==
  /\ t.kind = "removing" /\ Done(t)
  /\ devices' = Removed(t.user, t.found)
  /\ UNCHANGED <<claimed, users, rows, purge>>

-----------------------------------------------------------------------------
(* The rows of an account, and their purge. *)

Writing(d) == Passed(d) /\ Begin(Asking("write", d, "none"))

\* POST /sync locks the head of the user; whether the account was deleted meanwhile it does not ask.
Write(t) ==
  /\ t.kind = "write" /\ Done(t)
  /\ \/ ~Row(t.user) /\ Refuse
     \/ /\ Row(t.user)
        /\ \E n \in 1 .. Tables : rows' = [rows EXCEPT ![t.user][n] = IF @ < MaxRows THEN @ + 1 ELSE @]
        /\ UNCHANGED <<claimed, users, devices, purge>>

PurgeStarts(u) ==
  /\ purge = Idle /\ users[u].state = "deleted"
  /\ purge' = [user |-> u, table |-> 1]
  /\ UNCHANGED <<environment, database, tasks>>

\* deleteInBatches: a batch that was not full is the table's last.
PurgeBatch ==
  LET u == purge.user
      n == IF rows[u][purge.table] < Batch THEN rows[u][purge.table] ELSE Batch
  IN /\ purge # Idle /\ purge.table <= Tables /\ ~Locked(u)
     /\ rows' = [rows EXCEPT ![u][purge.table] = @ - n]
     /\ purge' = IF n < Batch THEN [purge EXCEPT !.table = @ + 1] ELSE purge
     /\ UNCHANGED <<environment, claimed, users, devices, tasks>>

\* Variant: the tables are taken to be empty.
LeaveRows(u) == rows

\* ON DELETE CASCADE takes what was written behind the purge.
Cascade(u) == [rows EXCEPT ![u] = [n \in 1 .. Tables |-> 0]]

\* deleteDeletedUser: the head and the row of the account.
PurgeEnds ==
  /\ purge # Idle /\ purge.table > Tables /\ ~Locked(purge.user)
  /\ users' = [users EXCEPT ![purge.user] = Gone]
  /\ rows' = Cascade(purge.user)
  /\ purge' = Idle
  /\ UNCHANGED <<environment, claimed, devices, tasks>>

\* The process dies: what was under way is lost.
Restart ==
  /\ tasks # {} \/ purge # Idle
  /\ restarts < MaxRestarts /\ restarts' = restarts + 1
  /\ tasks' = {} /\ purge' = Idle
  /\ UNCHANGED <<now, mode, overlap, database>>

Tick == now < MaxTime /\ Load < MaxLoad /\ now' = now + 1 /\ UNCHANGED <<mode, overlap, restarts, database, tasks, purge>>

-----------------------------------------------------------------------------
Requests ==
  \/ \E login \in Logins, word \in Words, hwid \in Hwids, by \in {"self", "admin"} :
       Registering(login, word, hwid, by)
  \/ \E u \in UserId, hwid \in Hwids, rehash \in BOOLEAN : LoggingIn(u, hwid, rehash)
  \/ \E u \in UserId, hwid \in Hwids, word \in Words : Recovering(u, word, hwid)
  \/ \E u \in UserId, word \in Words : Resetting(u, word)
  \/ \E u \in UserId, d \in DeviceId \cup {0} : Deleting(u, d)
  \/ \E u \in UserId : FindInactive(u)
  \/ \E d \in DeviceId, word \in Words, out \in BOOLEAN : ChangingPassword(d, word, out)
  \/ \E d \in DeviceId, target \in DeviceId \cup {0}, verified \in BOOLEAN : Revoking(d, target, verified)
  \/ \E d \in DeviceId : Rotating(d) \/ Writing(d)

\* What writes without a check of its own before.
Direct ==
  \/ \E u \in UserId, hwid \in Hwids : Linked(u, hwid)
  \/ \E d \in DeviceId, refresh \in BOOLEAN : Use(d, refresh) \/ SignOut(d)

Commits(t) ==
  \/ Register(t) \/ Login(t)
  \/ ChangePassword(t) \/ RotateReads(t) \/ Rotate(t) \/ Recover(t) \/ Delete(t) \/ Reset(t)
  \/ RevokeReads(t) \/ Revoke(t) \/ InactiveReads(t) \/ RemoveInactive(t) \/ Write(t)

PurgeStep == PurgeBatch \/ PurgeEnds \/ \E u \in UserId : PurgeStarts(u)

Next ==
  \/ Requests
  \/ Alone /\ (Direct \/ PurgeStep)
  \/ \E t \in tasks : Ready(t) /\ Commits(t)
  \/ Restart \/ Tick

Spec == Init /\ [][Next]_vars

-----------------------------------------------------------------------------
(* Properties. *)

\* A recovery of the account, or a reset by the administrator, leaves no device that came in with what was valid
\* before it, not even one that was in the middle of logging in or recovering (login step 5, resetCredentials).
KeptOut == \A d \in DeviceId : devices[d] # NoDevice => devices[d].gen = users[devices[d].user].gen

Unused(d) == devices[d].seen < now - Inactive /\ devices[d].until <= now

\* No transaction begins for a device that was removed while its request waited, and none changes a credential or
\* removes a device then.  Only on PostgreSQL may one that has begun go on although its device was removed since: a
\* new recovery code and a revocation read the device without a lock on it.
RemovedDoNothing ==
  [][/\ \A t \in Begun' \ Begun : t.kind # "removing" => devices[t.dev].user = t.user
     /\ \A t \in tasks \ tasks' :
          /\ t.dev # 0 /\ devices[t.dev].user # t.user
          /\ t.kind \in {"password", "rotate", "revoke"} \/ (~overlap /\ t.kind \in {"rotating", "revoking"})
          => UNCHANGED <<users, devices>>]_vars

\* The cleanup removes no device that was used after it looked (stillInactiveDevices): what it means to remove is
\* inactive when its transaction reads, and on SQLite still when it writes.
UsedDevicesStay ==
  [][/\ \A t \in Begun' \ Begun : t.kind = "removing" => \A d \in t.found : Unused(d)
     /\ \A t \in tasks : RemoveInactive(t) =>
          \A d \in DeviceId : devices[d] # NoDevice /\ devices'[d] = NoDevice =>
            d \in t.found /\ (~overlap => Unused(d))]_vars

\* In mode "first" nobody registers once an account was ever made, even when it is deleted and purged.
FirstIsAlone ==
  [][mode = "first" /\ (\E d \in DeviceId : devices'[d] # devices[d] /\ devices'[d] # NoDevice /\ devices'[d].via = "register"
                                           /\ devices[d] = NoDevice)
       => \A u \in UserId : users[u] = NoUser]_vars

\* An account has no more devices than its limit, and none twice, whichever sign-ins, links and recoveries meet.
DevicesInOrder ==
  /\ \A u \in UserId : Cardinality(DevicesOf(u)) <= DeviceLimit
  /\ \A d, e \in DeviceId : d # e /\ devices[d] # NoDevice /\ devices[d].user = devices[e].user
                              => devices[d].hwid # devices[e].hwid

\* Nothing of a purged account is left, also what a request wrote behind the purge.
NothingLeft == \A u \in UserId : users[u] = Gone => \A n \in 1 .. Tables : rows[u][n] = 0
=============================================================================
