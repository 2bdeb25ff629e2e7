------------------------------- MODULE Backup -------------------------------
(***************************************************************************)
(* The backup HSM (hsm/backup.py, LunaCM's "backup" commands and LunaSH's  *)
(* "token backup"): secure transport, initialization, its backup           *)
(* partitions, backup of a partition's objects and their restoration, its  *)
(* firmware and factory reset.  Its documents are in the same database as  *)
(* the partitions; that it is plugged in and who is logged in is known to  *)
(* each shell alone (Partitions!shell).                                    *)
(***************************************************************************)
EXTENDS Partitions, Sequences

CONSTANTS
  LabelOf,      \* key -> its label; both keys of a pair have the same
  MaxBackups    \* partitions the backup HSM has room for (BACKUP_MAX_PARTITIONS)

ASSUME BackupAssumption == MaxBackups \in Nat

VARIABLES
  bk,       \* the documents
  kept,     \* domain -> label -> the object last reported as backed up (history)
  report    \* what the last command, if it was a backup or a restore, reported (history)

backupVars == <<bk, kept, report>>

Origins == Domains \cup {None}   \* a partition without a domain names None

KeyLabels == {LabelOf[k] : k \in Keys}

\* objs: label -> object; a label is there once.
BackupPartition == [domain : Origins, objs : UNION {[ls -> Keys] : ls \in SUBSET KeyLabels}]

NoObjects == [l \in {} |-> None]

FactoryBackup == [stm |-> "secure", pin |-> None, fw |-> "new", prev |-> None, parts |-> <<>>]

Nothing == [what |-> "nothing", slot |-> None, domain |-> None]

BackupInitState ==
  bk = FactoryBackup /\ kept = [d \in Origins |-> NoObjects] /\ report = Nothing

BackupTypeOK ==
  /\ bk.stm \in {"secure", "initialized", "active"} /\ bk.pin \in Pins \cup {None}
  /\ bk.fw \in Firmwares /\ bk.prev \in Firmwares \cup {None}
  /\ \A i \in DOMAIN bk.parts : bk.parts[i] \in BackupPartition
  /\ \A t \in Terminals : shell[t].backup => shell[t].plugged

\* The backup HSM's saves; own: what the shell then knows of it.
BackupCommit(t, final, own, partial) ==
  /\ UNCHANGED <<db, blobs, dead, torn>>
  /\ \/ bk' = final /\ shell' = [shell EXCEPT ![t] = own]
     \/ Stops /\ bk' \in partial /\ shell' = [shell EXCEPT ![t] = Fresh]

Quiet == report' = Nothing /\ UNCHANGED kept

NoBackup == Quiet /\ UNCHANGED bk

Plugged(t) == [shell[t] EXCEPT !.plugged = TRUE]

BackupConnect(t) == BackupCommit(t, bk, Plugged(t), {}) /\ Quiet

BackupDisconnect(t) ==
  BackupCommit(t, bk, [shell[t] EXCEPT !.plugged = FALSE, !.backup = FALSE], {}) /\ Quiet

StmRecover(t) ==
  /\ shell[t].plugged /\ bk.stm = "secure"
  /\ BackupCommit(t, [bk EXCEPT !.stm = "initialized"], shell[t], {}) /\ Quiet

\* The PIN, then the state.  LunaSH connects the device first, LunaCM wants it
\* connected.
BackupInit(t, pin) ==
  LET set == [bk EXCEPT !.pin = pin] IN
  /\ bk.stm = "initialized"
  /\ BackupCommit(t, [set EXCEPT !.stm = "active"], Plugged(t), {set}) /\ Quiet

\* However often it is tried.
BackupLogin(t, pin) ==
  /\ bk.stm = "active" /\ pin = bk.pin
  /\ BackupCommit(t, bk, [Plugged(t) EXCEPT !.backup = TRUE], {}) /\ Quiet

BackupLogout(t) == BackupCommit(t, bk, [shell[t] EXCEPT !.backup = FALSE], {}) /\ Quiet

WithPartition(d) == [bk EXCEPT !.parts = Append(@, [domain |-> d, objs |-> NoObjects])]

\* A domain may get a second partition; only the first is used.
CreateBackupPartition(t, d) ==
  /\ shell[t].backup /\ Len(bk.parts) < MaxBackups
  /\ BackupCommit(t, WithPartition(d), shell[t], {}) /\ Quiet

Found(b, d) == {i \in DOMAIN b.parts : b.parts[i].domain = d}

FirstFor(b, d) == CHOOSE i \in Found(b, d) : \A j \in Found(b, d) : i <= j

Merged(new, old) ==
  [l \in DOMAIN new \cup DOMAIN old |-> IF l \in DOMAIN new THEN new[l] ELSE old[l]]

\* Of objects with one label, the last in the order of their handles, which is
\* any of them here.
ByLabel(ks) == {f \in [{LabelOf[k] : k \in ks} -> ks] : \A l \in DOMAIN f : LabelOf[f[l]] = l}

\* A partition of its own for every backup.
MutantTarget(d) == WithPartition(d)

Target(d) == IF Found(bk, d) = {} THEN WithPartition(d) ELSE bk

\* The whole document is saved at the end; the room for partitions is not looked
\* at.  ls: the labels asked for.
BackupObjects(t, s, d, ls) ==
  LET clonable == {k \in db.obj[s] : LabelOf[k] \in ls /\ Clonable(db, s, k)} IN
  /\ shell[t].backup /\ Present(s) /\ d = DomainOf(db, s)
  /\ clonable # {}
  /\ \E copy \in ByLabel(clonable) :
       LET b == Target(d)
           i == IF b = bk THEN FirstFor(b, d) ELSE Len(b.parts) IN
       /\ BackupCommit(t, [b EXCEPT !.parts[i].objs = Merged(copy, @)], shell[t], {})
       /\ kept' = [kept EXCEPT ![d] = Merged(copy, @)]
       /\ report' = [what |-> IF ls = KeyLabels THEN "backed up" ELSE "nothing",
                     slot |-> s, domain |-> d]

Objects(byLabel) == {byLabel[l] : l \in DOMAIN byLabel}

\* What may become of objs when all of copy is restored: an object with a
\* restored label, one for each, is overwritten, whatever its class.
Overwritten(objs, copy) ==
  {(objs \ Objects(lost)) \cup Objects(copy)
    : lost \in ByLabel({k \in objs : LabelOf[k] \in DOMAIN copy})}

\* Each object is saved on its own: a full partition, like a stopped shell, ends
\* it half way.
RestoreObjects(t, s, d, ls) ==
  /\ shell[t].backup /\ Present(s) /\ d = DomainOf(db, s)
  /\ Found(bk, d) # {}
  /\ LET all  == bk.parts[FirstFor(bk, d)].objs
         copy == [l \in DOMAIN all \cap ls |-> all[l]]
         half == UNION {Overwritten(db.obj[s], [l \in part |-> copy[l]])
                        : part \in SUBSET DOMAIN copy} IN
     /\ DOMAIN copy # {}
     /\ UNCHANGED <<bk, kept, blobs, dead, torn>>
     /\ \/ /\ \E objs \in Overwritten(db.obj[s], copy) : db' = [db EXCEPT !.obj[s] = objs]
           /\ report' = [what |-> IF ls = KeyLabels THEN "restored" ELSE "nothing",
                         slot |-> s, domain |-> d]
           /\ UNCHANGED shell
        \/ /\ \E objs \in half : db' = [db EXCEPT !.obj[s] = objs]
           /\ report' = Nothing
           /\ \/ UNCHANGED shell
              \/ Stops /\ shell' = [shell EXCEPT ![t] = Fresh]

\* Any version but the one installed, an older one too.
UpgradeBackupFirmware(t, v) ==
  LET reserved == [bk EXCEPT !.prev = bk.fw] IN
  /\ shell[t].plugged /\ shell[t].backup /\ v # bk.fw
  /\ BackupCommit(t, [reserved EXCEPT !.fw = v], shell[t], {reserved}) /\ Quiet

Forgotten == kept' = [d \in Origins |-> NoObjects] /\ report' = Nothing

\* The firmware first.
MutantRollbackBackupFirmware(t) ==
  LET back == [bk EXCEPT !.fw = bk.prev] IN
  /\ shell[t].plugged /\ shell[t].backup /\ bk.prev \notin {None, bk.fw}
  /\ BackupCommit(t, [back EXCEPT !.parts = <<>>, !.prev = None], shell[t], {back})
  /\ Forgotten

RollbackBackupFirmware(t) ==
  LET erased == [bk EXCEPT !.parts = <<>>]
      back   == [erased EXCEPT !.fw = bk.prev] IN
  /\ shell[t].plugged /\ shell[t].backup /\ bk.prev \notin {None, bk.fw}
  /\ BackupCommit(t, [back EXCEPT !.prev = None], shell[t], {erased, back})
  /\ Forgotten

\* No login is asked for; other shells keep theirs.
BackupFactoryReset(t) ==
  LET erased   == [bk EXCEPT !.parts = <<>>]
      firmware == [erased EXCEPT !.fw = "new"]
      reserve  == [firmware EXCEPT !.prev = None]
      sealed   == [reserve EXCEPT !.stm = "secure"] IN
  /\ shell[t].plugged
  /\ BackupCommit(t, FactoryBackup, [shell[t] EXCEPT !.backup = FALSE],
                  {erased, firmware, reserve, sealed})
  /\ Forgotten

(***************************************************************************)
(* The commands                                                            *)
(***************************************************************************)
LunaCmBackup(t) ==
  /\ shell[t].plugged
  /\ \/ \E s \in Slots, ls \in {KeyLabels} \cup {{l} : l \in KeyLabels} :
          LET d == IF Present(s) THEN DomainOf(db, s) ELSE None IN
          BackupObjects(t, s, d, ls) \/ RestoreObjects(t, s, d, ls)
     \/ \E d \in Domains : CreateBackupPartition(t, d)
     \/ \E pin \in Pins : BackupInit(t, pin) \/ BackupLogin(t, pin)
     \/ BackupFactoryReset(t) \/ BackupLogout(t)

LunaCmBackupDevice(t) ==
  \/ BackupConnect(t) \/ BackupDisconnect(t) \/ StmRecover(t)
  \/ \E v \in Firmwares : UpgradeBackupFirmware(t, v)
  \/ RollbackBackupFirmware(t)

LunaShTokenBackup(t) ==
  \/ \E pin \in Pins : BackupInit(t, pin) \/ BackupLogin(t, pin)
  \/ BackupLogout(t) \/ BackupFactoryReset(t)

BackupCommand(t) == LunaCmBackup(t) \/ LunaCmBackupDevice(t) \/ LunaShTokenBackup(t)

(***************************************************************************)
(* Properties                                                              *)
(***************************************************************************)
\* Firmware that goes back without a reserve (a rollback or a factory reset,
\* stopped anywhere) finds no backups made under the firmware it replaces
\* (backup.py:647, "all backups are erased").
RollbackErases ==
  [][bk'.fw # bk.fw /\ bk'.prev # bk.fw => bk'.parts = <<>>]_<<bk, shell>>

\* A restoration that reports success has brought back, label by label, what
\* backups of that domain last reported, whichever partition, shell and order
\* they were made in and whatever partitions of that domain were added.
RestoreReturnsLast ==
  report.what = "restored" =>
    \A l \in DOMAIN kept[report.domain] : kept[report.domain][l] \in db.obj[report.slot]
=============================================================================
