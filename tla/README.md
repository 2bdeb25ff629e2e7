# Verification of the Luna HSM emulator

TLA+ models of `luna-hsm-emulator` (paths below are under
`src/luna-hsm-emulator/`), the TLC runs that check them and the TLAPS proofs of
their main invariants. `PROJECT.json` lists every run, the source lines each
definition stands for, and the hazards the properties are aimed at.

## 1. The system

Python processes share one SQLite database: applications calling the PKCS#11
library (`pkcs11/api.py`), the LunaCM client shell (`cli/commands.py`) and the
LunaSH appliance shell (`cli/lunash_commands.py`).
Almost all administrative state is a few JSON documents in the table
`hsm_meta`, each loaded, changed and saved whole by its manager. Sessions and
logins live in the memory of the library.

| Component | State it keeps | Operations | Hard behaviour | What makes it correct |
|---|---|---|---|---|
| HA group, `hsm/deployment.py` | group record: members with state, role, sync status, network partition flag, retry count, firmware; tombstones; cursor | create, add, remove, fail, cut off, restore, recover, poll, route, synchronise, modes, retry budget | failures, recovery and polling in any order; stale sources; partial clones | one logical key store; deleted keys stay deleted; cut-off members take no part |
| HA client, `hsm/ha.py` | virtual sessions with one child per member, credential, logical handles, multipart context | every `C_` call on a virtual slot | failure between execute, tombstone and synchronise; retry only of non-mutating calls | a mutation happens once; a handle means the same key after failover |
| Cloning, `hsm/domain.py`, `hsm/sks.py` | domains per partition, master keys | add, delete, relabel a domain; clone, SKS extract and insert | partial clones at a full slot; dangling primary domain | sound domain lists; objects never end up among domains none of which they had; a rollover orphans nothing |
| Authentication, `hsm/auth.py` | login of each session, epoch seen; per role PIN, attempts, lock | login, logout, set and change a PIN | sessions that outlive a tamper; a counter read before the PIN is verified and written after | authority ends with the device event that ends it |
| Sessions, `hsm/session.py`, `pkcs11/api.py` | open sessions, operation state | open, close, close all, device check, object calls | sessions that outlive a reboot; calls of several processes; the limit of 32 | no call runs in a dead session |
| Activation and PED, `hsm/activation.py`, `hsm/ped.py` | per role challenge, cached quorum, auto-activation flag; power, tamper, epoch; key sets | challenge create, change, reset; authenticate; deactivate; power off, reboot, tamper, clear | cache across power loss of up to two hours, tamper, policy changes | no login without a quorum unless one is still vouched for |
| Tokens and partitions, `hsm/token.py`, `hsm/lifecycle.py`, `hsm/hsm_state.py` | partitions, role states, policies, templates, HSM state | create, delete, initialise; role init, reset, activate, deactivate | slot numbers reused with the documents of the last partition; failure half-way | what an erasure made useless stays useless to the slot's next user; a partition reported ready has its domain |
| Policies, `hsm/policies.py` | catalog | validate, templates | destructive changes, two destructive policies that exclude each other, templates | erasure in order with the documents; a change of policies 22 and 23 ends what they allowed |
| Key store and database, `hsm/keystore.py`, `storage/db.py` | objects, metadata, audit rows | object CRUD, quota, export, import | statements of several processes interleave between reading and writing | an object keeps its handle; the quota is exceeded by what the other processes were about to store at most |
| Audit, `hsm/audit.py` | hash-chained rows | log, verify, clear | two processes appending | the chain verifies (it does not, see the findings) |
| Connections, `hsm/connections.py` | server certificate, NTLS links, STC identities and links, the counters of their numbers | create, connect, disconnect, restore, delete, convert, new certificate | a number outlives its identity; a shell stopped between the saves of a command | a number means one identity; a replaced certificate takes its links down; a conversion cuts nobody off |
| Appliance, `hsm/appliance.py` | users, clients, services, STC settings, HSM officer | user and client administration, services | accounts disabled, deleted and given other roles by each other, while terminals act on the account they remember | who is logged in decides what the commands on connections may do |
| HSM, `hsm/hsm_state.py`, the HSM commands | initialized, way of authenticating, officer's password, failed logins | init, login, zeroize, factory reset, HSM policy, firmware | the HSM's and the PED's documents are saved apart; the attempts of all terminals count together | both documents agree; the third wrong password zeroizes; what is erased stays erased |
| Backup HSM, `hsm/backup.py` | secure transport state, PIN, firmware, backup partitions | recover, initialize, log in, back up, restore, upgrade, roll back, factory reset | partial restoration; objects kept by label; a rollback stopped half-way | a restoration returns what was last backed up; a rollback erases |

Not state machines, and not modelled: parsing, paging and wording of the shells
(`cli/`), constants and templates of objects and mechanisms
(`pkcs11/objects.py`, `mechanisms.py`, `constants.py`) and the wrappers of the
cryptographic library (`crypto/`), which are pure functions over bytes.

## 2. Modules

| Module | Models | Notes |
|---|---|---|
| `LogicalKeyStore` | what the virtual slot promises (`src/README.md`, "High Availability") | the abstract specification `HAGroup` refines |
| `HAGroup` | `hsm/deployment.py` with the calls of `hsm/ha.py` and the `ha`/`hagroup` commands | the composition of group record, key stores and client |
| `PartitionAccess` | `hsm/auth.py`, `hsm/activation.py`, the session calls of `pkcs11/api.py`, the role and policy operations of `hsm/token.py` | several client processes, one partition with a Partition SO |
| `LunaShell` | the appliance's accounts, logins and service settings: `hsm/appliance.py` and the LunaSH commands over it | several terminals |
| `Network` | `hsm/connections.py` and client registration | extends `LunaShell`: who is logged in decides what a command may do |
| `Partitions` | partitions, lifecycle, domains, policies, templates, SKS: `hsm/token.py`, `lifecycle.py`, `domain.py`, `sks.py`, `policies.py` and both shells' commands | one row and several documents per slot |
| `Backup` | `hsm/backup.py`, LunaCM's `backup`, LunaSH's `token backup` | extends `Partitions`, whose objects it copies |
| `HsmAdmin` | the HSM's officer, zeroization, factory reset and the PED: `hsm/hsm_state.py`, `hsm/ped.py` | extends `Backup`; its `Next` is the composition of all three |
| `Storage` | `storage/db.py`, `hsm/keystore.py`, `hsm/audit.py` as the object calls of `pkcs11/api.py` use them | statement by statement, several processes |
| `MCHAGroup`, `MCPartitionAccess`, `MCNetwork`, `MCHsmAdmin`, `MCStorage` | instances for TLC | `MCNetwork` and `MCHsmAdmin` explore one group of commands at a time, see section 3 |
| `HAGroupProofs`, `HAStoreProofs` | theorems about `HAGroup` | the second extends the first: what holds under every hazard, and what one service needs |
| `PartitionAccessProofs`, `NetworkProofs`, `StorageProofs` | theorems about one module each | section 4 |
| `HsmAdminProofs`, `DomainProofs`, `BackupProofs` | theorems about `HsmAdmin` | officer, PED and erasures; domains and readiness; types, restorations and rollovers (extends `DomainProofs`) |

### HAGroup

State: `members`, `member`, `group` and `deleted` are the JSON record of the
group; `store` and `policy` are what the database holds per slot; `call` is the
application's call between two database commits. `top` and `cur` are history:
how often each key was written, and which write the application made last.

Actions: one per command of LunaSH/LunaCM (`CreateGroup`, `AddMember`,
`AddMemberSync`, `RemoveMember`, `SetMode`, `SetRecoveryMode`, `SetRetry`,
`SetInterval`, `SetFirmware`, `SetPolicy`, `FailMember`, `PartitionMember`,
`RestoreMember`, `RecoverMember`, `SynchronizeGroup`, `RouteOperation`) and one
per commit of a call: `CallBegin` chooses the members to poll, `CallPoll`
recovers one of them (`CallPollFails` when it is no member any more), `CallAnswer` / `CallDeviceError` / `CallWrite` /
`CallDestroy` routes and executes (`CallRoute` is the routing on its own, where
another shell can tell it from the execution), `CallRecord` writes the tombstone, `CallSync`
replicates. `Crash` stops the client between two commits, or during a
replication with any part of it done. `DirectWrite` is an application that uses
a member slot and not the virtual one.

The constant `Hazards` says what the environment may do; with `Hazards = {}`
one member stays in service, the client does not crash, nobody writes behind the
group, no slot is full and commands and calls take turns. With `"shell"` another
shell runs its commands between any two commits of a call, because nothing in the
code locks the database meanwhile: the executing member can fail, leave or be cut
off before the tombstone or the replication, and the group can be deleted under
the call. The hazards are separate because they break different promises, and the
runs show which.

Abstractions. A key is its cloning identity; the copy a slot holds is the number
of the write it comes from, so "newer" is visible. All keys are cloned under one
policy fingerprint; the members' cloning domains are fixed and equal
(`Partitions` models how domains come to match). The statistics of a group
(operation counters, timestamps, messages) are dropped; `retry_attempts`
saturates at `MaxRetry`, which is not below any budget an operator selects. The
state `standby` of the code's tests for "in service" is never assigned by the
code, so in service means `active`. With a poll interval of 0 a call always
polls, otherwise whether enough time has passed is nondeterministic. The slot
that keeps a multipart operation is left out: a multipart call is a `use`.
A command is one step, `network partition` and `restore` included, which save the
record twice (set the flag, then fail or recover the member); so is the choice of a
member from the eligible ones with the save of the route. There is one
application, so calls of two clients do not overlap.

### PartitionAccess

State: `device` is the power, tamper and off_since of the activation document,
`chal` its entries for the partition's roles, `role` the PIN columns of the
partition with the role's activation, `policy` the policies 15, 20, 22 and 23 and
`max_login_attempts` (`policy.attempts`). Per client process, `lib` is the
library, `session` the session manager and `login` the login manager, which is
`AuthManager._sessions`. `checking` holds the PIN logins under way: what they read of
the role before they verify the PIN (`LoginBegin`) and write back after it
(`LoginEnd`), whatever other processes did in between. A process is sequential, so
its own next call waits (`Idle`).

The epoch is the interesting part. A device event increments it in the
database; the library compares it at each wrapped call (`_check_device`), the
login manager at each login check (`_check_epoch`), each with its own copy. The
model keeps no number: `current` and `seen` say whether a copy is the device's
epoch, an event makes every copy old, and each action applies what the check it
starts with does (`Sessions`, `Kept`, `Logins`).

The history variables say what the properties need: `vouched` (a quorum was
presented and nothing that ends it has happened), `covered` (auto-activation was
on at the last login and ever since), `dark` (off for more than two hours),
`fresh` and `valid` (session and login are later than the last event), `guesses`
(wrong secrets since the last success or reset). They are set by what happened, not
by what the code recorded of it: `TimePasses` sets `dark`, whatever the clock of
the code says.

Abstractions. Secrets are right or wrong, a quorum is presented or not; their
length and character rules only refuse calls. Elapsed time is within two hours
or beyond. The partition exists throughout. `Occasions` says which unusual
things happen besides tampers, so that a run can say what holds without them.
Every operation but a PIN login is one step although a process may be interrupted
between loading and saving a document, the verification of a challenge included:
nothing protects a document from two processes that overlap (listed as a hazard in
`PROJECT.json`).

### LunaShell and Network

State: `account` (name to role, password, enabled), `service`, `bound` and
`stcConfig` are documents; `me` is what each terminal remembers of the account it
logged in to, as it was then, which is what `_require_login` and the role checks
look at even after the account was changed. `clients` is the client register,
`db` the documents of NTLS links, STC identities, STC links, their two counters
and the server certificate.

Every command is an action with the check of the role it starts with. A command
that saves several documents goes through `Commit`: it either saves all, or, with
`Stops`, what it had saved when the shell was stopped; `torn` remembers whether a
counter was left behind its list, `stale` the links that were up when a shell was
stopped between a new certificate and the links. An NTLS link
carries the certificate it was connected under and an STC link the names it was
made for, both history.

Abstractions. `ping` and the display commands are left out; certificates are
numbers, and registering a client is a member of `clients`. Host name, network
settings, time, SNMP, syslog and the log files are settings that nothing else
reads.

### Partitions, Backup and HsmAdmin

State: `db` has one field per document or table that is keyed by slot: `part` (the
row), `obj` (its token objects), `life` (lifecycle entry), `dom` (own or
inherited domain, and the list of extended domains), `pol` (policies), `sks`
(primary and rollover master key), besides the HSM's domain, templates and
firmware. Deleting a row does not delete all of them, which is why they are
separate. `shell` is what a terminal keeps for itself: the SO login of LunaSH, the
backup device and its login. `blobs` are extracted objects kept outside; `dead`,
history, those an erasure that ended should have made useless. `bk` is the backup
HSM's document; `kept` and `report` are history: what the last backups of each
domain reported, and what the last command did. `admin` holds the HSM's document
and the PED's.

Every command of both shells that saves something about these is an action:
creation, deletion, initialization, roles, clearing, policies, templates,
firmware, domains, cloning, SKS extraction, insertion and rollover, the backup
commands, HSM initialization, login, zeroization, factory reset, the PED's
connection, key sets, duplication and loss of copies. `Commit` and `CommitAll`
are the saves: the final documents, or with `Stops` one of the intermediate ones,
in the order of the code, and the leftovers that matter are recorded in `torn`, or,
for an initialization or factory reset stopped between the HSM's document and the
PED's, in `split`.
Zeroization and factory reset go through the partitions slot by slot, so a stop
leaves some erased.

Abstractions. A key has a label, is private or secret, and is otherwise opaque. Of
the policy catalog the model keeps 0, 1, 4, 43 and 44: private and secret key
cloning with their exclusion, an ordinary destructive one, one whose number is not
its place in the catalog, and the one that governs extended domains. Roles of a
partition are those of `PartitionAccess`; here a command is open to whoever may
hold the login it asks for. Terminals are logged in to the appliance as `admin`.

### Storage

One action per statement of `C_CreateObject`, `C_CopyObject`, the key generation
calls, `C_DestroyObject` and logging: count, read of the largest handle, insert,
delete, read of the last hash, insert of the entry. `call` is where a process is
and what it has read. A hash stands for the whole chain hashed into it. Each
statement is a transaction of SQLite, so nothing smaller can be interleaved.

## 3. Runs

| Run | Question | Result |
|---|---|---|
| `HAGroupCalm` | While one member stays in service and one shell is in use, can failures, cuts, recoveries and re-additions of three members, in both routing modes, lose or bring back anything? | No: `OneCopy`, `DestroyedStaysDestroyed` and `IsolatedUntouched` hold, and the group implements `LogicalKeyStore` (`LooksLikeOneStore`) |
| `HAGroupRecovery` | Does a recoverable member come back by the application's calls alone? | Yes, under the fairness below |
| `HAGroupHazards` | What holds whatever happens, another shell in the middle of a call included? | Types, cut-off members out of service, tombstones and clean returns |
| `HAGroupOutage` | Expected violation: if all up-to-date members are out, or another shell synchronises before a write is replicated, is anything overwritten by an older copy? | Yes: the source of a synchronisation is the first member in service, whatever its sync status (finding) |
| `AccessPassword` | PIN roles, two clients with two sessions, tampers: does authority end with the event, do the library and the login manager agree, and do logins that overlap leave a lock alone? | All six properties hold |
| `AccessPed` | Is a cached quorum always vouched for, with power losses short and long, tampers, policy changes, templates and PINs set in between, and do challenges lock in time? | Yes, for a Crypto Officer and a Limited Crypto Officer |
| `AccessOverlap` | Expected violation: does the wrong PIN that reaches policy 20 lock the role when two clients try at once? | No: both read the same counter, and two wrong PINs count once (finding) |
| `Network` | Do numbers keep their meaning, links their certificate and clients their access, with a shell stopped between any two saves? | Yes, all five; links up at a stop between a new certificate and the links are the exception the property names |
| `HsmAdmin` | Do partitions, domains, master keys, the HSM's officer, the PED and backups keep their promises with a shell stopped between any two saves? | Yes, all eleven |
| `Storage` | Two processes that create, copy, generate, destroy and log at once: does a handle keep its object, and by how much is the quota exceeded? | Handles hold; the quota is exceeded by one object per other process |
| `StorageAudit` | Expected violation: does the audit chain verify? | No: two entries get the same predecessor (finding) |
| `StorageHandles` | Expected violation: does a creation return the handle of its object? | No: it returns the one it read first (finding) |

Bounds. `HAGroup` has two or three slots and one or two keys: every rule of the
code concerns a source, a target and possibly a third member whose presence
changes which is first; keys interact only through the order of a clone. Two
writes of a key tell "current", "one behind" and "never had it" apart; a retry
budget of one tells "left", "used up" and "no limit" apart.
`PartitionAccess` has one or two clients, one or two session handles, two or three
roles and a limit of 2: two clients lock a role while the other verifies a PIN for
it, two handles of one client are needed for role conflicts and for a close that
leaves another session, and a counter is below, at and, with overlapping logins,
above the limit. Limits that move are in the theorems.
`Network` has two terminals, two clients and a slot: identity and link numbers
clash between two clients already; `MaxId = 4` lets both clients' identities be
deleted and made again, `MaxCert = 3` is a renewal that is stopped and another that
completes. `MCNetwork` explores four groups of commands (accounts, settings,
links, certificates) from states each is about: the
documents of one group are not read by the commands of another, apart from the
login, which is part of each group's initial state.
`HsmAdmin` has two slots, so a partition can be cloned, inherit and be erased
before or after another; five domains, so a list of three can be full while two
more exist; three master keys, for a rollover with one to come; two PED key sets
of two shares and copies. `MCHsmAdmin` explores six groups of commands (`Foci`:
domains, keys, policies, officer, ped, backup). Within a group the other commands
are left out although they could be interleaved; the theorems of section 4 are
about the unrestricted `Spec` and cover the mixture for the properties they name.
After a stop that left an entry behind its partition or the attempts used up only a
logout is tried; after one between the documents of the HSM and the PED everything.
`Storage` has two processes and a quota of two: room for one is where both count.

Deadlock is checked in every run.

What the constants show beyond the runs. With `Hazards = {"crash"}`
`DestroyedStaysDestroyed` fails: the destroy is committed before its tombstone, and
a client that stops in between lets the next synchronisation bring the key back.
With `{"shell"}` alone `OneCopy` fails: the executing member is failed before its
replication, the call returns success, and nothing but a later synchronisation
brings the write to the others. That at most one member is active in active-standby
mode is no property of the code: setting the mode while the first member is out of
service gives it the role all the same, and so do recovery by hand and routing past
an incompatible member. With `Occasions = {"power", "prompt"}`
`SessionsEndWithDevice` fails for the Limited Crypto Officer, whose credential is
prompted for between two checks of the device. With one client
and one limit `LockedAtPolicyLimit` holds. A limit lowered while a PIN is verified
breaks it as well as a second client, and so does `{"template"}`, since a template
sets policy 20 and not the limit the lockout of a PIN reads. With two clients
`AttemptsBounded` fails for PINs for the reason it does.

Fairness. `FairSpec` asks that the application keeps making calls
(`WF(Begin)`) and that a call once begun goes on (`WF(Proceed)`): polling has no
timer or thread of its own, `poll_ha_recovery` runs at the beginning of a call,
so nothing less gives recovery and the code promises it only to a client that
calls. The property assumes that the member is reachable, compatible, in
automatic mode and within its budget from some point on (`Recoverable`). The other
modules have no liveness property: nothing in them happens by itself.

Met while modelling, and modelled as the code does it. A locked or deactivated role
is restored by every way of setting a PIN: `C_InitPIN` on any open session sets the
Crypto Officer's, and `change_pin` with the old PIN any, without the Partition SO to
whom the emulator's README gives role administration. A backup keeps its objects by
label, so of the two keys of a pair, which have one, it holds one although it
reports both. Any logged-in user of the appliance may set the password of `admin`.
LunaSH `partition init`
announces that the contents are destroyed, but `init_token` keeps the objects
when the domain does not change; a re-initialization with another domain is
refused after the owner's credential has already changed. A destructive change by
a template is recognised by the policy's place in the catalog, so it may keep the
objects, and a template can turn on both policies that exclude each other.
Deleting a partition leaves its policies, domain and master key to the slot's next
one, and a factory reset the policies. The officer's login is remembered per
process: another terminal that zeroizes does not end it. A list of domains need
not have a primary one after that one was deleted, and two partitions that inherit
can never clone to each other. STC connects without looking at the identities. A
backup HSM's login survives a factory reset from another shell, which can then
back up to a device in secure transport; the number of backup partitions is not
limited when backing up; an older firmware is accepted as an upgrade and erases
nothing. The second store of a key pair may fail and leave the private key behind.

## 4. Proofs

Every theorem below is about the unrestricted `Spec` of its module, for all
values of the constants that satisfy the named assumptions; TLC evaluates those in
the runs.

### HA group (`HAGroupProofs`, `HAStoreProofs`; `HAAssumption`)

| Theorem | Statement |
|---|---|
| `TypeCorrect` | `Spec => []TypeOK` |
| `CutOffOutOfService` | `Spec => []IsolatedOutOfService` |
| `TombstonesAlwaysHold` | `Spec => TombstonesHold` |
| `AlwaysReturnsClean` | `Spec => ReturnsClean` |
| `AlwaysIsolatedUntouched` | `Spec => IsolatedUntouched`, if `"direct" \notin Hazards` |
| `AlwaysOneCopy` | `Spec => []OneCopy`, if `Calm` |
| `AlwaysDestroyedStaysDestroyed` | `Spec => DestroyedStaysDestroyed`, if `Calm` |
| `NeverOlderInService` | `Spec => NeverOlder`, if `Calm` |
| `ImplementsOneStore` | `Spec => LooksLikeOneStore`, if `Calm` |

The inductive invariant `Inv` is `TypeOK`, `IsolatedOutOfService`, `CallKeys` (a call
that names a key names one of `Keys`) and `OneShell`: without another shell the member
that executes a mutation stays in service to the end of its replication, which the
theorems under `Calm` need. The first five theorems hold with another shell too:
nothing in them depends on what stays true between two commits of a call.
`IsolatedOutOfService` is carried by the member table as `MemOK`: each operator
the handlers are made of (`Recover`, `Synchronize`, `Fail`, routing) takes a table
with `MemOK` to one with `MemOK`, by a lemma each, so a handler that applies two
of them one after the other keeps it too.

`TombstonesHold` rests on two more notions. `Derived`: a table of key
stores is derived from another when each copy comes from a copy of the same key
and no slot gains a tombstoned key; purging, cloning from a purged source,
recovery and synchronisation all yield derived tables. `Written`, a second
inductive invariant: a key that some slot holds, or that has a tombstone, has
been written, so a creation, which takes a fresh identity, never meets a
tombstone.

`ReturnsClean` and `IsolatedUntouched` compare a member before and after one step,
and a step may poll, recover and synchronise several members in turn. Both follow
from a lemma per operator that says which members it lets return and what it leaves
them, composed over the steps of a handler.

The last four theorems, about one service, need an assumption on the environment.
`Calm` is `Hazards = {}` with policies that allow cloning: one
member stays in service, the client does not crash, nobody writes to a member slot
directly, no slot is full, no member is added bare, no group is created over
used slots and no second shell interferes with a call. Each of these breaks `OneCopy` on its own in TLC's small instance, so
none can be left out; failures, cuts, recoveries, polls, removals, re-additions,
device errors in the middle of a call, and changes of routing and recovery mode
at any time all remain. `OneCopy` speaks only of the time between calls and is not inductive.
`StoreInv` follows a call through its commits:

- `Agreed`: before a mutation every member in service holds what the application
  last wrote (`cur`); from the mutation to the end of its replication the member
  that executed it does;
- `Buried`: a stale copy of a destroyed key, in whichever slot, has a tombstone,
  or gets it in the next commit of the call. A member that was away, or that joins
  again, therefore loses the key before it is cloned to or from;
- `Dated`: no copy is newer than the last write, and the current one is the last;
- `Due`: the members a call has still to poll are out of service, so the poll
  recovers them from one that is in service;
- `Serving`, `Fresh`: a group has a member in service, and nothing was written
  before the first group.

From `StoreInv` the refinement `ImplementsOneStore` is short: with it `View`, the
contents of a member in service, is `cur`, and every step writes one key, destroys
one key or leaves `cur` alone.

### Access (`PartitionAccessProofs`; `AccessAssumption`)

| Theorem | Statement |
|---|---|
| `AccessTypeCorrect` | `Spec => []TypeOK` |
| `AuthorityAlwaysCurrent` | `Spec => []AuthorityIsCurrent` |
| `CacheCorrect` | `Spec => [](QuorumVouched /\ ArmedIsCached)` |
| `ArmedAlwaysCached` | `Spec => []ArmedIsCached` |
| `OneRoleAtATime` | `Spec => []OneRole` |
| `StateAgrees` | `Spec => []ReportedState` |
| `SessionsAlwaysEnd` | `Spec => []SessionsEndWithDevice`, if `"prompt" \notin Occasions` |
| `AttemptsAlwaysBounded` | `Spec => []AttemptsBounded`, if `OneClient` |
| `LocksAlwaysStay` | `Spec => LockStays` |

`AuthorityIsCurrent` is inductive given the types, because it speaks of what the
login manager would report (`Logins`) and not of what it stores: an event makes
every stored login unreported at once, and each action that records the new epoch
first applies `Logins`. `QuorumVouched` is not inductive: what a power loss keeps
depends on `armed`, so `CacheInv` adds that an armed role is cached, unlocked,
under both policies (`ArmedIsCached`) and covered since its login
(`ArmedCovered`), and that the clock of a loss is the true one (`Clock`).

`OneRole`, `ReportedState` and `SessionsEndWithDevice` relate two tables of a
client that learn of an event at different calls. The invariants `SessionsOf`,
`AgreeOf`, `OneRoleOf` and `FreshOf` state the relation between the stored tables
for one client, under the condition that its copy of the epoch is current; they
are stated for a client, so that a step needs them only for the one that moves
and an event only the general fact that no copy is current. The hypothesis of
`SessionsAlwaysEnd` is necessary: see "what the constants show". `Waiting` says what a
PIN login under way may rely on when it ends: a client verifies one PIN at a time,
its session stays open until the library notices an event, and no other role of the
client was logged in meanwhile.
`AttemptsBounded` speaks of guesses and the code counts attempts; `Counting` links
them: with one client the guesses of a PIN are at most the role's attempts, which
stay within a limit (`PinsCounted`), and those of a challenge the same as long as one
is set (`ChallengesCounted`), also while the limit moves or the role is reset in the
middle of a verification (`Within`). `OneClient` is necessary: logins of two clients
overlap and lose counts (`AccessOverlap`). `LockStays` has no such hypothesis: whatever
a login read before the role was locked, it writes the lock only to set it.

### Network (`NetworkProofs`; `ShellAssumption`, `AccountAssumption`, `NetworkAssumption`)

| Theorem | Statement |
|---|---|
| `NetworkTypeCorrect` | `Spec => []TypeOK` |
| `LinksUnique` | `Spec => []OneLinkPerPair` |
| `NumbersKeepMeaning` | `Spec => []IdentityMeansOne` |
| `CertificateCurrent` | `Spec => []ServedUnderCurrentCert` |
| `ConversionNeverCuts` | `Spec => ConversionKeepsAccess` |

The inductive invariant `NInv` is the shell's types, the client register and `Held`. `Held` says of the documents, also of those that a stopped
command leaves, that pairs have one link (`Pairs`), that every number in use is
below its counter and means what it meant (`Sound`, unless a counter was lost), and
that connected links are of the current certificate or were up at a stop between a
new one and the links (`Current`). `IdentityMeansOne` is not inductive: without the counters
nothing forbids a new identity from taking a deleted one's number. A lemma per
command shows `Held` of the final and of each intermediate document, and one lemma
about `Commit` combines them. `ConversionNeverCuts` needs no invariant beyond the
types: each document a conversion can be stopped at is shown to hold the old link
or the new one of the client and the partition.

### HSM, partitions and backup (`PartitionsAssumption`, `NoneAssumption`, `BackupAssumption`, `HsmAdminAssumption`)

| Theorem | Module | Statement |
|---|---|---|
| `ModesAlwaysAgree` | `HsmAdminProofs` | `Spec => []ModesAgree` |
| `ThirdFailureZeroizes` | `HsmAdminProofs` | `Spec => []LockedOutZeroized` |
| `LostQuorumStaysLost` | `HsmAdminProofs` | `Spec => LostForGood` |
| `ErasedStaysErased` | `HsmAdminProofs` | `Spec => []ErasedForGood` |
| `RollbackAlwaysErases` | `HsmAdminProofs` | `Spec => RollbackErases` |
| `DomainListAlwaysSound` | `DomainProofs` | `Spec => []DomainListSound` |
| `ReadyAlwaysHasDomain` | `DomainProofs` | `Spec => []ReadyHasDomain` |
| `ObjectsAlwaysKeepADomain` | `DomainProofs` | `Spec => ObjectsKeepADomain` |
| `AdminTypeCorrect` | `BackupProofs` | `Spec => []TypeOK` |
| `RestoreIsComplete` | `BackupProofs` | `Spec => []RestoreReturnsLast` |
| `RolloverOrphansNothing` | `BackupProofs` | `Spec => BlobsSurviveRollover` |

`AdminInv` is `Shape` (the documents of the HSM and the PED, with key sets whose
quorum is not above their shares), `ModesAgree` and `LockedOutZeroized`; it also
uses that `torn` only grows. `ModesAgree` lets the documents disagree only while `split`:
the lemma about each command shows what it does to `split` in its result and at
each stop, and only an initialization or factory reset sets it. `LostForGood` follows from `Wears`: no step gives a
copy to a share that has none, and a key set's number is never used again.

`ErasedForGood` speaks of the keys partitions have. `EraseInv` adds that the numbers
of all master keys in use and in blobs are below the next one, and that no live
master key is a dead blob's; `From` is the relation between two documents under
which this is kept (every key of the second is one of the first, or new), and each
command, with each document it can be stopped at, is shown to be in it.
`RollbackErases` needs of the documents only that all fields are there (`Filed`); each
command then keeps the firmware, upgrades it or leaves no backups
(`FirmwareStep`).

`DomainListSound` looks at partitions with a list; its invariant `ListsOK` also
says that one that inherits has an empty list, because it may get a list again. A
lemma about each way of making a list from another (add, delete, relabel, make
primary, collapse) shows that a good one stays good.

`ReadyHasDomain` is not inductive: what a partition's entry says of its domain
also depends on what an earlier partition of the slot left there. `Sound` says that
no slot without a partition has an entry, that a partition without an entry is not
initialized (its entry would be made up from that flag), and that an entry which
claims a domain has one. `Typed` gives the fields the documents have and that
a slot without a partition has no objects. `Follows` is what a command may make of the
documents, `Stopped` what it may have saved of them when its shell is stopped: both
keep the types and one of the domains of any objects that stay (`Keeps`);
`Follows` keeps `Sound`, `Stopped` keeps it or leaves an orphaned entry, which
`torn` records. Each command is shown to be within the two, and
`ObjectsKeepADomain` is then `Keeps` of every step. The collapse of a list of domains
needs the original of `ListsOK`.

The type invariant is last because it is not inductive without the others: that an
entry made up for a partition has a type, or that a collapsed list gives a domain,
follows from `ReadyInv`. `TypeInv` is `ReadyInv` with `PartTyped`, `BackupTyped` and
`AdminTyped`; `SplitOK` adds the history variable. Policies have the values `PolicyValues`: `validate_template` checks
numbers and exclusion and no values, so a custom template may set any.

`RestoreReturnsLast` compares an object store with what earlier commands reported.
`Covered` is the missing link: what a domain was last backed up with is in the
first backup partition of the domain. A backup writes to that one because
`backup_objects` takes the first it finds, appended partitions come after it, and
only a reset removes one. That a domain with a backup partition has a first one is
the least number principle, taken from `WellFoundedInduction`.

`BlobsSurviveRollover` compares two documents. `KeptAt` is the part of them that
opening a blob depends on: a slot of version 1 keeps that version and its master key,
or its partition goes. Every command but three keeps it at every slot (`KeysKept`), in
its result and in each document it can be stopped at, in particular the creation of
a missing master key, which any use of one may make first (`WithSmk`). Cloning and the
end of a rollover leave a slot the primary key of some partition alone
(`Superseded`), and a start moves the primary key to the rollover. That a start loses
nothing needs the type of the blobs: they are made under keys numbered from 1, so 0,
the rollover there was not, opened none.

### Storage (`StorageProofs`; `StorageAssumption`)

| Theorem | Statement |
|---|---|
| `HandlesKept` | `Spec => HandleKeepsObject` |
| `QuotaBounded` | `Spec => []QuotaOverrun` |

The bound on the quota is not inductive: it needs how many processes have already
counted. `QInv` says that objects and processes past the count (`Reserved`)
together are at most `MaxObjects + |Processes| - 1`, because whoever counts finds
room for itself.

### Only model-checked

`RecoveryReturns`, which is a liveness property under fairness and out of the
prover's reach. The four violated properties have
counterexamples; of them `NeverOlder` is proved for groups of which a member stays
in service and that one shell uses (`NeverOlderInService`).

## 5. Not modelled

- **Child sessions of a virtual slot** (`hsm/ha.py`): stored credentials, logical
  handles, partial close, the slot that keeps a multipart operation. `HAGroup` has
  one application with one virtual session; what a failover does to its keys is
  modelled, what it does to its handles is not.
- **Overlapping commands**: every manager loads a whole document and saves it
  later. Two terminals that overlap lose each other's changes in any order, so no
  property of the documents survives; commands are interleaved whole, and only
  stopped between their saves. `Storage` is the exception, because its statements
  are transactions.
- **Limit of 32 sessions, find and multipart state, cryptographic calls**
  (`hsm/session.py`, `pkcs11/api.py`): per process and sequential.
- **Legacy partitions' roles** in `PartitionAccess`: partitions without a Partition
  SO, where the HSM's officer is the superior.
- **Key secrets and PINs of PED keys, white and grey key sets** (`hsm/ped.py`):
  content nothing else reads.
- **The rest of the policy catalog**: same rules as the policies that are modelled.
- **Appliance settings that nothing reads**: host name, time, SNMP, network, logs.
- **Export and import of the database** (`hsm_emulator.py`, `storage/db.py`): a
  failed import leaves its deletes pending in the process's transaction, which
  needs the transaction and not its statements.
- **Encryption at rest, cryptography, mechanisms, object templates** (`crypto/`,
  `pkcs11/objects.py`, `mechanisms.py`, `constants.py`): pure functions and tables.
- **Parsing, help, paging and wording of the shells** (`cli/`): terminal I/O.
