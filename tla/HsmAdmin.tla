------------------------------ MODULE HsmAdmin ------------------------------
(***************************************************************************)
(* The HSM over its partitions (hsm/hsm_state.py, hsm/ped.py and the HSM   *)
(* commands of both shells): initialization, the Security Officer's login  *)
(* and lockout, zeroization and factory reset, and the key sets of the     *)
(* PED.  The HSM's own state and the PED's are two documents that both     *)
(* hold the way the HSM authenticates; whether the Security Officer is     *)
(* logged in is kept by each terminal for itself.  Terminals are logged in *)
(* to the appliance as "admin" (LunaShell models those accounts).          *)
(***************************************************************************)
EXTENDS Backup

CONSTANTS
  MaxSets,    \* bound: PED key sets ever made
  MaxShares,  \* bound: shares of a key set
  MaxCopies   \* bound: active copies of a share

\* A share is made with one copy.
ASSUME HsmAdminAssumption ==
  {MaxSets, MaxShares, MaxCopies} \subseteq Nat /\ MaxCopies # 0

VARIABLES
  admin,   \* the documents: hsm (hsm_state), ped (ped_state), policy, nextSet
  split    \* an initialization or a reset was stopped halfway, none completed since (history)

vars == <<partVars, backupVars, admin, split>>

Modes == {"password", "ped"}

MaxAttempts == 3

Colors == {"blue", "orange"}

\* shares: share -> how many active copies it has
KeySet == [id : Nat, type : Colors, m : Nat, shares : UNION {[1..n -> Nat] : n \in 1..MaxShares}]

\* zeroized is the opposite of initialized.
FactoryHsm == [init |-> FALSE, mode |-> "password", pin |-> None, failed |-> 0]

FactoryPed == [mode |-> "password", conn |-> FALSE, sets |-> {}]

\* policy: the setting of a destructive HSM policy.
AdminInit ==
  /\ admin = [hsm |-> FactoryHsm, ped |-> FactoryPed, policy |-> 1, nextSet |-> 1]
  /\ split = FALSE

AdminTypeOK ==
  /\ admin.hsm \in [init : BOOLEAN, mode : Modes, pin : Pins \cup {None}, failed : Nat]
  /\ admin.ped.mode \in Modes /\ admin.ped.conn \in BOOLEAN
  /\ \A k \in admin.ped.sets :
       /\ k.id \in 1..MaxSets /\ k.type \in Colors
       /\ k.m >= 1 /\ k.m <= Cardinality(DOMAIN k.shares)
       /\ \A i \in DOMAIN k.shares : k.shares[i] \in 0..MaxCopies
  /\ admin.policy \in 0..1
  /\ torn \subseteq {"entry", "lockout"}
  /\ split \in BOOLEAN

Disagree(a) == a.hsm.mode # a.ped.mode

\* Both groups of documents; erase: did the command erase every partition?
CommitAll(t, d, a, loggedIn, partial, erase) ==
  /\ UNCHANGED blobs
  /\ \/ /\ db' = d /\ admin' = a
        /\ shell' = [shell EXCEPT ![t].so = loggedIn]
        /\ dead' = IF erase THEN blobs ELSE dead
        /\ UNCHANGED torn
     \/ /\ Stops
        /\ \E p \in partial : db' = p[1] /\ admin' = p[2]
        /\ shell' = [shell EXCEPT ![t] = Fresh]
        /\ torn' = torn \cup Orphans(db')
                        \cup (IF admin'.hsm.failed >= MaxAttempts THEN {"lockout"} ELSE {})
        /\ UNCHANGED dead

SaveAfter(t, first, a, loggedIn) ==
  CommitAll(t, db, a, loggedIn, {<<db, first>>}, FALSE) /\ UNCHANGED split

SaveAdmin(t, a, loggedIn) == CommitAll(t, db, a, loggedIn, {}, FALSE) /\ UNCHANGED split

\* An initialization or a reset, which would end in a.
Halfway(a) == split' = (admin' # a /\ (split \/ Disagree(admin')))

(***************************************************************************)
(* The PED                                                                 *)
(***************************************************************************)
Available(k) == Cardinality({i \in DOMAIN k.shares : k.shares[i] > 0})

Quorum(color) == \E k \in admin.ped.sets : k.type = color /\ Available(k) >= k.m

\* A remote PED takes a quorum of Orange keys.
ConnectPed(t, remote) ==
  /\ remote => Quorum("orange")
  /\ SaveAdmin(t, [admin EXCEPT !.ped.conn = TRUE], shell[t].so)

DisconnectPed(t) == SaveAdmin(t, [admin EXCEPT !.ped.conn = FALSE], shell[t].so)

CreateKeySet(t, color, m, n) ==
  /\ admin.ped.conn
  /\ m >= 1 /\ m <= n
  /\ admin.nextSet <= MaxSets
  /\ SaveAdmin(t, [admin EXCEPT
         !.ped.sets = @ \cup {[id |-> admin.nextSet, type |-> color, m |-> m,
                               shares |-> [i \in 1..n |-> 1]]},
         !.nextSet = @ + 1], shell[t].so)

WithShare(k, i, copies) ==
  [admin EXCEPT !.ped.sets = (@ \ {k}) \cup {[k EXCEPT !.shares[i] = copies]}]

\* A lost copy serves as well.
MutantDuplicateKey(t, k, i) ==
  /\ admin.ped.conn /\ k.shares[i] < MaxCopies
  /\ SaveAdmin(t, WithShare(k, i, k.shares[i] + 1), shell[t].so)

\* From an active copy of the share.
DuplicateKey(t, k, i) ==
  /\ admin.ped.conn /\ k.shares[i] \in 1..(MaxCopies - 1)
  /\ SaveAdmin(t, WithShare(k, i, k.shares[i] + 1), shell[t].so)

LoseKey(t, k, i) ==
  /\ k.shares[i] > 0
  /\ SaveAdmin(t, WithShare(k, i, k.shares[i] - 1), shell[t].so)

(***************************************************************************)
(* Erasing                                                                 *)
(***************************************************************************)
ZeroizedPed(a) ==
  [a EXCEPT !.ped.conn = FALSE, !.ped.sets = {k \in @ : k.type = "orange"}]

ZeroizedHsm(a) == [a EXCEPT !.hsm.init = FALSE, !.hsm.pin = None, !.hsm.failed = 0]

\* The partitions, the PED, the HSM's state.  a: the documents as they are when
\* it begins.
ZeroizeFrom(t, a) ==
  LET gone == ZeroizedPed(a) IN
  /\ CommitAll(t, Erased(db), ZeroizedHsm(gone), FALSE,
               (HalfErased(db) \X {a}) \cup ({Erased(db)} \X {a, gone}), TRUE)
  /\ UNCHANGED split

Zeroize(t) == ZeroizeFrom(t, admin)

FactoryReset(t) ==
  LET ped == [admin EXCEPT !.ped = FactoryPed]
      hsm == [ped EXCEPT !.hsm = FactoryHsm]
      end == [Erased(db) EXCEPT !.hsmDomain = None]
      all == [hsm EXCEPT !.policy = 1] IN
  /\ CommitAll(t, end, all, FALSE,
               (HalfErased(db) \X {admin}) \cup ({Erased(db)} \X {admin, ped, hsm})
                 \cup {<<end, hsm>>}, TRUE)
  /\ Halfway(all)

\* A destructive policy erases the partitions when its value changes; the
\* Security Officer stays logged in.
ChangeHsmPolicy(t, v) ==
  LET saved == [admin EXCEPT !.policy = v] IN
  /\ shell[t].so
  /\ IF v = admin.policy THEN SaveAdmin(t, saved, TRUE)
     ELSE CommitAll(t, Erased(db), saved, TRUE, HalfErased(db) \X {saved}, TRUE) /\ UNCHANGED split

(***************************************************************************)
(* Initialization                                                          *)
(***************************************************************************)
\* An HSM that is initialized keeps its way of authenticating and its officer,
\* whatever the command line says.
InitializedHsm(h, mode, pin) ==
  IF h.init THEN [h EXCEPT !.failed = 0]
  ELSE [init |-> TRUE, mode |-> mode, pin |-> IF mode = "password" THEN pin ELSE None, failed |-> 0]

\* The PED document follows the command line.
MutantPedMode(h, mode) == mode

PedMode(h, mode) == IF h.init THEN h.mode ELSE mode

\* Without a password the command fails after it has erased the partitions.
HsmInit(t, mode, pin) ==
  LET h == admin.hsm
      hsm == [admin EXCEPT !.hsm = InitializedHsm(h, mode, pin)]
      ped == [hsm EXCEPT !.ped.mode = PedMode(h, mode),
                         !.ped.conn = @ /\ PedMode(h, mode) = "ped"] IN
  /\ h.init => shell[t].so
  /\ IF ~h.init /\ mode = "password" /\ pin = None
     THEN /\ CommitAll(t, Erased(db), admin, shell[t].so, HalfErased(db) \X {admin}, TRUE)
          /\ UNCHANGED split
     ELSE /\ CommitAll(t, Erased(db), ped, FALSE,
                       (HalfErased(db) \X {admin}) \cup ({Erased(db)} \X {admin, hsm}), TRUE)
          /\ Halfway(ped)

\* Declining the confirmation ends the Security Officer's login.
HsmInitAborted(t) == (admin.hsm.init => shell[t].so) /\ SaveAdmin(t, admin, FALSE)

(***************************************************************************)
(* The Security Officer                                                    *)
(***************************************************************************)
First(s) == Present(s) /\ \A r \in Slots : Present(r) => s <= r

\* An HSM that is not initialized takes the owner of its first partition for
\* its Security Officer (a migration of older databases).
Migrated ==
  IF ~admin.hsm.init /\ \E s \in Slots : First(s) /\ db.part[s].po # None
  THEN [admin EXCEPT !.hsm.init = TRUE, !.hsm.mode = "password",
                     !.hsm.pin = db.part[CHOOSE s \in Slots : First(s)].po]
  ELSE admin

\* The third attempt counts and nothing more.
MutantFailed(t, a) == SaveAfter(t, a, [a EXCEPT !.hsm.failed = @ + 1], shell[t].so)

\* A wrong password counts; the third zeroizes the HSM, after the count is saved.
Failed(t, a) ==
  LET counted == [a EXCEPT !.hsm.failed = @ + 1] IN
  IF counted.hsm.failed < MaxAttempts THEN SaveAfter(t, a, counted, shell[t].so)
  ELSE ZeroizeFrom(t, counted)

HsmLogin(t, pin) ==
  LET a == Migrated IN
  /\ ~shell[t].so
  /\ admin.ped.mode = "password"
  /\ IF ~a.hsm.init \/ a.hsm.mode # "password" THEN SaveAdmin(t, a, FALSE)
     ELSE IF pin = a.hsm.pin THEN SaveAfter(t, a, [a EXCEPT !.hsm.failed = 0], TRUE)
     ELSE Failed(t, a)

HsmLoginPed(t) ==
  /\ ~shell[t].so
  /\ admin.ped.mode = "ped" /\ admin.ped.conn /\ Quorum("blue")
  /\ SaveAdmin(t, admin, TRUE)

\* Also what a restart of the appliance does for the terminal that asks for it.
HsmLogout(t) == SaveAdmin(t, admin, FALSE)

(***************************************************************************)
(* The commands                                                            *)
(***************************************************************************)
HsmCommand(t) ==
  \/ \E pin \in Pins : HsmLogin(t, pin)
  \/ HsmLoginPed(t) \/ HsmLogout(t)
  \/ \E mode \in Modes, pin \in Pins \cup {None} : HsmInit(t, mode, pin)
  \/ HsmInitAborted(t) \/ FactoryReset(t) \/ Zeroize(t)
  \/ \E v \in 0..1 : ChangeHsmPolicy(t, v)

PedCommand(t) ==
  DisconnectPed(t) \/ \E remote \in BOOLEAN : ConnectPed(t, remote)

PedKey(t) ==
  \/ \E color \in Colors, m, n \in 1..MaxShares : CreateKeySet(t, color, m, n)
  \/ \E k \in admin.ped.sets : \E i \in DOMAIN k.shares : DuplicateKey(t, k, i) \/ LoseKey(t, k, i)

PartitionStep(t) ==
  \/ LunaShPartition(t) \/ LunaShContents(t) \/ LunaShDomain(t) \/ LunaCmPartition(t)
  \/ LunaCmSmk(t) \/ LunaCmDomain(t) \/ LunaCmPolicy(t) \/ TemplateCommand(t)
  \/ Application(t) \/ FirmwareCommand(t)

Init == PartInit /\ BackupInitState /\ AdminInit

Next ==
  \E t \in Terminals :
    \/ PartitionStep(t) /\ NoBackup /\ UNCHANGED <<admin, split>>
    \/ BackupCommand(t) /\ UNCHANGED <<admin, split>>
    \/ (HsmCommand(t) \/ PedCommand(t) \/ PedKey(t)) /\ NoBackup

Spec == Init /\ [][Next]_vars

(***************************************************************************)
(* Properties                                                              *)
(***************************************************************************)
TypeOK == PartTypeOK /\ BackupTypeOK /\ AdminTypeOK

\* The HSM's document and the PED's agree on how the Security Officer
\* authenticates.  Only an "hsm init" or a factory reset that is stopped
\* between its saves makes them disagree, never a login, a migration or a
\* zeroization, stopped or not; and the next "hsm init" or factory reset that
\* is completed makes them agree, whatever it starts from.
ModesAgree == Disagree(admin) => split

\* Three wrong passwords, from whichever terminals and with whatever between
\* them, and the HSM is zeroized: no HSM waits with its attempts used up, unless
\* the shell was stopped between counting and erasing.
LockedOutZeroized == "lockout" \notin torn => admin.hsm.failed < MaxAttempts

\* A key set whose quorum cannot be met any more never becomes usable again: a
\* share without an active copy has nothing to be duplicated from.
LostForGood ==
  [][\A k \in admin.ped.sets, l \in admin'.ped.sets :
       k.id = l.id /\ Available(k) < k.m => Available(l) < l.m]_vars
=============================================================================
