---------------------------- MODULE BackupProofs ----------------------------
(***************************************************************************)
(* Proofs about all the documents of HsmAdmin: their types, that the       *)
(* backup HSM brings back what was backed up last, and that a rollover of  *)
(* a master key orphans nothing.  For any terminals, slots, domains, keys  *)
(* and labels, and with shells stopped between their saves.                *)
(***************************************************************************)
EXTENDS DomainProofs, WellFoundedInduction

-----------------------------------------------------------------------------
(* What the partitions' documents hold besides partitions and domains.     *)

MasterKey == [primary : 1..MaxSmk, rollover : 0..MaxSmk]

\* What extraction makes: a blob names a master key there was.
MadeBlob == [smk : Nat \ {0}, key : Keys]

Contents(d) ==
  /\ Documents \subseteq DOMAIN d
  /\ d.obj \in [Slots -> SUBSET Keys]
  /\ d.pol \in [Slots -> [Policies -> PolicyValues]]
  /\ d.sks \in [Slots -> MasterKey \cup {None}]
  /\ d.nextSmk \in 1..(MaxSmk + 1)
  /\ d.templates \subseteq CustomTemplates

\* e differs from d in other documents.
Untouched(d, e) ==
  /\ Documents \subseteq DOMAIN e
  /\ e.obj = d.obj /\ e.pol = d.pol /\ e.sks = d.sks /\ e.nextSmk = d.nextSmk
  /\ e.templates = d.templates

ShellsTyped ==
  /\ shell \in [Terminals -> [so : BOOLEAN, plugged : BOOLEAN, backup : BOOLEAN]]
  /\ \A t \in Terminals : shell[t].backup => shell[t].plugged

PartTyped ==
  /\ Contents(db) /\ ShellsTyped
  /\ blobs \subseteq MadeBlob /\ dead \subseteq blobs
  /\ torn \subseteq {"entry", "lockout"}

LEMMA UntouchedContents ==
  ASSUME NEW d, NEW e, Contents(d), Untouched(d, e)
  PROVE  Contents(e)
BY DEF Contents, Untouched

LEMMA Restarted ==
  ASSUME ShellsTyped, NEW t \in Terminals, shell' = [shell EXCEPT ![t] = Fresh]
  PROVE  ShellsTyped'
BY DEF ShellsTyped, Fresh

LEMMA CommitTyped ==
  ASSUME PartTyped, NEW t \in Terminals, NEW final, NEW partial, Commit(t, final, partial),
         Contents(final), \A p \in partial : Contents(p)
  PROVE  PartTyped'
<1>1. Contents(db')
  BY DEF Commit
<1>2. Contents(db)'
  BY <1>1 DEF Contents
<1>3. ShellsTyped'
  BY Restarted DEF Commit, PartTyped, ShellsTyped
<1>4. torn' \subseteq {"entry", "lockout"}
  <2>1. Orphans(db') \subseteq {"entry"}
    BY DEF Orphans
  <2> QED BY <2>1 DEF Commit, PartTyped
<1> QED BY <1>2, <1>3, <1>4 DEF Commit, PartTyped

LEMMA CommitUntouched ==
  ASSUME PartTyped, NEW t \in Terminals, NEW final, NEW partial, Commit(t, final, partial),
         Untouched(db, final), \A p \in partial : Untouched(db, p)
  PROVE  PartTyped'
BY UntouchedContents, CommitTyped DEF PartTyped

\* The objects of a slot replaced by other keys.
LEMMA StoredContents ==
  ASSUME NEW d, Contents(d), NEW s, NEW objs \in SUBSET Keys
  PROVE  Contents([d EXCEPT !.obj[s] = objs])
BY DEF Contents, Documents

LEMMA ErasingContents ==
  ASSUME NEW d, Contents(d), NEW s \in Slots
  PROVE  \A e \in Erasing(d, s) : Contents(e)
<1> SUFFICES ASSUME NEW left \in SUBSET d.obj[s]
             PROVE  Contents([d EXCEPT !.obj[s] = left])
  BY DEF Erasing
<1>1. left \in SUBSET Keys
  BY DEF Contents
<1> QED BY <1>1, StoredContents

\* A master key of its own, if there is a number left for one.
LEMMA WithSmkContents ==
  ASSUME NEW d, Contents(d), NEW s \in Slots, WithSmk(d, s).nextSmk <= MaxSmk + 1
  PROVE  Contents(WithSmk(d, s)) /\ WithSmk(d, s).sks[s] \in MasterKey
<1>0. MaxSmk \in Nat
  BY PartitionsAssumption
<1>1. CASE d.sks[s] # None
  BY <1>1 DEF WithSmk, Contents
<1>2. CASE d.sks[s] = None
  <2> DEFINE e == [d EXCEPT !.sks[s] = [primary |-> d.nextSmk, rollover |-> 0], !.nextSmk = @ + 1]
  <2>1. WithSmk(d, s) = e
    BY <1>2 DEF WithSmk
  <2>2. /\ Documents \subseteq DOMAIN e /\ e.obj = d.obj /\ e.pol = d.pol /\ e.templates = d.templates
        /\ e.sks = [d.sks EXCEPT ![s] = [primary |-> d.nextSmk, rollover |-> 0]]
        /\ e.nextSmk = d.nextSmk + 1
    BY DEF Contents, Documents
  <2> HIDE DEF e
  <2>3. d.nextSmk \in 1..MaxSmk
    BY <1>0, <2>1, <2>2 DEF Contents
  <2>4. [primary |-> d.nextSmk, rollover |-> 0] \in MasterKey
    BY <1>0, <2>3 DEF MasterKey
  <2> QED BY <1>0, <2>1, <2>2, <2>3, <2>4 DEF Contents
<1> QED BY <1>1, <1>2

LEMMA EntriesTyped ==
  ASSUME PartTyped, NEW t \in Terminals
  PROVE  /\ \A n, type, v : CreatePartition(t, n, type, v) => PartTyped'
         /\ \A s \in Slots : DeletePartition(t, s) => PartTyped'
         /\ \A s, on : SetPartitionActive(t, s, on) => PartTyped'
         /\ \A s : InitRole(t, s) => PartTyped'
<1>0. Contents(db) /\ Documents \subseteq DOMAIN db
  BY DEF PartTyped, Contents
<1>1. ASSUME NEW n, NEW type, NEW v, CreatePartition(t, n, type, v) PROVE PartTyped'
  <2>1. PICK r, s, e : LET inserted == [db EXCEPT !.part[s] = r] IN
          \/ Commit(t, [inserted EXCEPT !.life[s] = e], {inserted})
          \/ Commit(t, inserted, {})
    BY <1>1 DEF CreatePartition
  <2> DEFINE inserted == [db EXCEPT !.part[s] = r]
             registered == [inserted EXCEPT !.life[s] = e]
  <2>2. Untouched(db, inserted) /\ Untouched(db, registered)
    BY <1>0 DEF Untouched, Documents
  <2>3. Commit(t, registered, {inserted}) \/ Commit(t, inserted, {})
    BY <2>1
  <2> HIDE DEF inserted, registered
  <2> QED BY <2>2, <2>3, CommitUntouched
<1>2. ASSUME NEW s \in Slots, DeletePartition(t, s) PROVE PartTyped'
  <2> DEFINE gone == [db EXCEPT !.part[s] = None, !.obj[s] = {}]
             final == [gone EXCEPT !.life[s] = None]
  <2>1. Contents(gone)
    BY <1>0 DEF Contents, Documents
  <2>2. Commit(t, final, {gone})
    BY <1>2 DEF DeletePartition
  <2> HIDE DEF gone
  <2>3. Untouched(gone, final)
    BY <2>1 DEF Untouched, Contents, Documents
  <2> HIDE DEF final
  <2> QED BY <2>1, <2>2, <2>3, UntouchedContents, CommitTyped
<1>3. ASSUME NEW s, NEW on, SetPartitionActive(t, s, on) PROVE PartTyped'
  <2> DEFINE final == [db EXCEPT !.life[s] = [EntryOf(db, s) EXCEPT !.active = on]]
  <2>1. Untouched(db, final)
    BY <1>0 DEF Untouched, Documents
  <2>2. Commit(t, final, {})
    BY <1>3 DEF SetPartitionActive
  <2> HIDE DEF final
  <2> QED BY <2>1, <2>2, CommitUntouched
<1>4. ASSUME NEW s, InitRole(t, s) PROVE PartTyped'
  <2> DEFINE final == [db EXCEPT !.part[s].co = TRUE]
  <2>1. Untouched(db, final)
    BY <1>0 DEF Untouched, Documents
  <2>2. Commit(t, final, {})
    BY <1>4 DEF InitRole
  <2> HIDE DEF final
  <2> QED BY <2>1, <2>2, CommitUntouched
<1> QED BY <1>1, <1>2, <1>3, <1>4

LEMMA ObjectsTyped ==
  ASSUME PartTyped, NEW t \in Terminals
  PROVE  /\ \A s \in Slots, k \in Keys : CreateObject(t, s, k) => PartTyped'
         /\ \A s \in Slots : ClearPartition(t, s) => PartTyped'
         /\ \A r, s \in Slots : ClonePartition(t, r, s) => PartTyped'
<1>0. Contents(db) /\ \A s \in Slots : db.obj[s] \in SUBSET Keys
  BY DEF PartTyped, Contents
<1>1. ASSUME NEW s \in Slots, NEW k \in Keys, CreateObject(t, s, k) PROVE PartTyped'
  <2>1. Commit(t, [db EXCEPT !.obj[s] = db.obj[s] \cup {k}], {})
    BY <1>1 DEF CreateObject
  <2>2. db.obj[s] \cup {k} \in SUBSET Keys
    BY <1>0
  <2>3. Contents([db EXCEPT !.obj[s] = db.obj[s] \cup {k}])
    BY <1>0, <2>2, StoredContents
  <2> QED BY <2>1, <2>3, CommitTyped
<1>2. ASSUME NEW s \in Slots, ClearPartition(t, s) PROVE PartTyped'
  <2>1. Commit(t, [db EXCEPT !.obj[s] = {}], Erasing(db, s))
    BY <1>2 DEF ClearPartition
  <2>2. Contents([db EXCEPT !.obj[s] = {}])
    BY <1>0, StoredContents
  <2> QED BY <1>0, <2>1, <2>2, ErasingContents, CommitTyped
<1>3. ASSUME NEW r \in Slots, NEW s \in Slots, ClonePartition(t, r, s) PROVE PartTyped'
  <2>1. PICK ks \in SUBSET db.obj[r] : Commit(t, [db EXCEPT !.obj[s] = db.obj[s] \cup ks], {})
    BY <1>3 DEF ClonePartition
  <2>2. db.obj[s] \cup ks \in SUBSET Keys
    BY <1>0
  <2>3. Contents([db EXCEPT !.obj[s] = db.obj[s] \cup ks])
    BY <1>0, <2>2, StoredContents
  <2> QED BY <2>1, <2>3, CommitTyped
<1> QED BY <1>1, <1>2, <1>3

LEMMA MasterKeysTyped ==
  ASSUME PartTyped, NEW t \in Terminals, NEW s \in Slots
  PROVE  /\ \A r \in Slots : CloneSmk(t, r, s) => PartTyped'
         /\ RolloverStart(t, s) \/ RolloverEnd(t, s) => PartTyped'
         /\ \A k \in Keys : Extract(t, s, k) => PartTyped'
         /\ \A b \in blobs : Insert(t, s, b) => PartTyped'
<1>0. Contents(db) /\ MaxSmk \in Nat
  BY PartitionsAssumption DEF PartTyped
<1>1. ASSUME NEW d, Contents(d), NEW k \in MasterKey
      PROVE  Contents([d EXCEPT !.sks[s] = k])
  BY <1>1 DEF Contents, Documents
<1>2. ASSUME NEW r \in Slots, CloneSmk(t, r, s) PROVE PartTyped'
  <2> DEFINE d == WithSmk(db, r)
             k == [primary |-> d.sks[r].primary, rollover |-> 0]
  <2>1. Commit(t, [d EXCEPT !.sks[s] = k], {d}) /\ d.nextSmk <= MaxSmk + 1
    BY <1>2 DEF CloneSmk
  <2>2. Contents(d) /\ d.sks[r] \in MasterKey
    BY <1>0, <2>1, WithSmkContents
  <2> HIDE DEF d
  <2>3. k \in MasterKey
    BY <1>0, <2>2 DEF MasterKey
  <2> HIDE DEF k
  <2> QED BY <1>1, <2>1, <2>2, <2>3, CommitTyped
<1>3. ASSUME RolloverStart(t, s) \/ RolloverEnd(t, s) PROVE PartTyped'
  <2> DEFINE d == WithSmk(db, s)
             started == [d EXCEPT !.sks[s] = [primary |-> d.nextSmk, rollover |-> d.sks[s].primary],
                                  !.nextSmk = @ + 1]
             ended == [d EXCEPT !.sks[s].rollover = 0]
  <2>1. /\ \/ Commit(t, d, {})
           \/ Commit(t, started, {d}) /\ d.nextSmk <= MaxSmk
           \/ Commit(t, ended, {d})
        /\ d.nextSmk <= MaxSmk + 1
    <3>1. CASE RolloverStart(t, s)
      <4>1. /\ Commit(t, d, {}) \/ Commit(t, started, {d})
            /\ d.nextSmk <= MaxSmk
        BY <3>1 DEF RolloverStart
      <4>2. d.nextSmk \in Nat
        BY <1>0 DEF Contents, WithSmk, Documents
      <4> HIDE DEF d, started
      <4> QED BY <1>0, <4>1, <4>2
    <3>2. CASE RolloverEnd(t, s)
      BY <3>2 DEF RolloverEnd
    <3> QED BY <1>3, <3>1, <3>2
  <2>2. Contents(d) /\ d.sks[s] \in MasterKey
    BY <1>0, <2>1, WithSmkContents
  <2> HIDE DEF d
  <2>3. ASSUME d.nextSmk <= MaxSmk PROVE Contents(started)
    <3>1. [primary |-> d.nextSmk, rollover |-> d.sks[s].primary] \in MasterKey
      BY <1>0, <2>2, <2>3 DEF MasterKey, Contents
    <3>2. /\ Documents \subseteq DOMAIN started
          /\ started.obj = d.obj /\ started.pol = d.pol /\ started.templates = d.templates
          /\ started.sks = [d.sks EXCEPT ![s] = [primary |-> d.nextSmk, rollover |-> d.sks[s].primary]]
          /\ started.nextSmk = d.nextSmk + 1
      BY <2>2 DEF Contents, Documents
    <3> HIDE DEF started
    <3> QED BY <1>0, <2>2, <2>3, <3>1, <3>2 DEF Contents
  <2>4. Contents(ended)
    <3>1. [d.sks[s] EXCEPT !.rollover = 0] \in MasterKey
      BY <1>0, <2>2 DEF MasterKey
    <3>2. ended = [d EXCEPT !.sks[s] = [d.sks[s] EXCEPT !.rollover = 0]]
      OBVIOUS
    <3> HIDE DEF ended
    <3> QED BY <1>1, <2>2, <3>1, <3>2
  <2> HIDE DEF started, ended
  <2> QED BY <2>1, <2>2, <2>3, <2>4, CommitTyped
<1>4. ASSUME NEW k \in Keys, Extract(t, s, k) PROVE PartTyped'
  <2>1. /\ db' = WithSmk(db, s) /\ WithSmk(db, s).nextSmk <= MaxSmk + 1
        /\ blobs' = blobs \cup {[smk |-> db'.sks[s].primary, key |-> k]}
        /\ UNCHANGED <<shell, dead, torn>>
    BY <1>4 DEF Extract
  <2>2. Contents(db') /\ db'.sks[s] \in MasterKey
    BY <1>0, <2>1, WithSmkContents
  <2>3. Contents(db)'
    BY <2>2 DEF Contents
  <2>4. [smk |-> db'.sks[s].primary, key |-> k] \in MadeBlob
    BY <1>0, <2>2 DEF MasterKey, MadeBlob
  <2> QED BY <2>1, <2>3, <2>4 DEF PartTyped, ShellsTyped
<1>5. ASSUME NEW b \in blobs, Insert(t, s, b) PROVE PartTyped'
  <2> DEFINE d == WithSmk(db, s)
  <2>1. /\ Commit(t, [d EXCEPT !.obj[s] = d.obj[s] \cup {b.key}], {d}) \/ Commit(t, d, {d})
        /\ d.nextSmk <= MaxSmk + 1
    BY <1>5 DEF Insert
  <2>2. Contents(d)
    BY <1>0, <2>1, WithSmkContents
  <2> HIDE DEF d
  <2>3. d.obj[s] \cup {b.key} \in SUBSET Keys
    BY <2>2 DEF Contents, PartTyped, MadeBlob
  <2>4. Contents([d EXCEPT !.obj[s] = d.obj[s] \cup {b.key}])
    BY <2>2, <2>3, StoredContents
  <2> QED BY <2>1, <2>2, <2>4, CommitTyped
<1> QED BY <1>2, <1>3, <1>4, <1>5

LEMMA PoliciesTyped ==
  ASSUME PartTyped, NEW t \in Terminals
  PROVE  /\ \A tm \in CustomTemplates : CreateTemplate(t, tm) => PartTyped'
         /\ \A tm : DeleteTemplate(t, tm) => PartTyped'
         /\ \A s \in Slots, tm \in Predefined \cup db.templates : ApplyTemplate(t, s, tm) => PartTyped'
         /\ \A s \in Slots, p \in Policies, v \in 0..1 : ChangePolicy(t, s, p, v) => PartTyped'
         /\ \A v : InstallFirmware(t, v) => PartTyped'
<1>0. Contents(db) /\ Documents \subseteq DOMAIN db
  BY DEF PartTyped, Contents
<1>1. ASSUME NEW tm \in CustomTemplates, CreateTemplate(t, tm) PROVE PartTyped'
  <2> DEFINE more == [db EXCEPT !.templates = @ \cup {tm}]
  <2>1. Contents(more)
    BY <1>0 DEF Contents, Documents
  <2>2. Commit(t, more, {})
    BY <1>1 DEF CreateTemplate
  <2> HIDE DEF more
  <2> QED BY <2>1, <2>2, CommitTyped
<1>2. ASSUME NEW tm, DeleteTemplate(t, tm) PROVE PartTyped'
  <2> DEFINE less == [db EXCEPT !.templates = @ \ {tm}]
  <2>1. Contents(less)
    BY <1>0 DEF Contents, Documents
  <2>2. Commit(t, less, {})
    BY <1>2 DEF DeleteTemplate
  <2> HIDE DEF less
  <2> QED BY <2>1, <2>2, CommitTyped
<1>3. ASSUME NEW s \in Slots, NEW settings \in [Policies -> PolicyValues]
      PROVE  Contents([db EXCEPT !.pol[s] = settings])
  BY <1>0 DEF Contents, Documents
<1>4. ASSUME NEW s \in Slots, NEW tm \in Predefined \cup db.templates, ApplyTemplate(t, s, tm)
      PROVE  PartTyped'
  <2> DEFINE settings == [p \in Policies |-> IF p \in DOMAIN tm THEN tm[p] ELSE db.pol[s][p]]
             saved == [db EXCEPT !.pol[s] = settings]
  <2>1. \/ Commit(t, [saved EXCEPT !.obj[s] = {}], Erasing(saved, s))
        \/ Commit(t, saved, {})
    BY <1>4 DEF ApplyTemplate
  <2>2. \A p \in DOMAIN tm : tm[p] \in PolicyValues
    <3>1. CASE tm \in Predefined
      BY <3>1 DEF Predefined, PolicyValues
    <3>2. CASE tm \in CustomTemplates
      BY <3>2 DEF PolicyValues
    <3> QED BY <1>0, <3>1, <3>2 DEF Contents
  <2>3. settings \in [Policies -> PolicyValues]
    BY <1>0, <2>2 DEF Contents
  <2> HIDE DEF settings
  <2>4. Contents(saved)
    BY <1>3, <2>3
  <2> HIDE DEF saved
  <2>5. Contents([saved EXCEPT !.obj[s] = {}]) /\ \A e \in Erasing(saved, s) : Contents(e)
    BY <2>4, StoredContents, ErasingContents
  <2> QED BY <2>1, <2>4, <2>5, CommitTyped
<1>5. ASSUME NEW s \in Slots, NEW p, NEW v \in 0..1, ChangePolicy(t, s, p, v) PROVE PartTyped'
  <2> DEFINE settings == [db.pol[s] EXCEPT ![p] = v]
             saved == [db EXCEPT !.pol[s][p] = v]
             alone == IF p = 44 /\ db.pol[s][p] = 1 /\ v = 0 THEN Collapsed(saved, s) ELSE saved
  <2>1. \/ Commit(t, [alone EXCEPT !.obj[s] = {}], Erasing(alone, s))
        \/ Commit(t, alone, {saved})
    BY <1>5 DEF ChangePolicy
  <2>2. settings \in [Policies -> PolicyValues] /\ saved = [db EXCEPT !.pol[s] = settings]
    BY <1>0 DEF Contents, PolicyValues
  <2> HIDE DEF settings, saved
  <2>3. Contents(saved)
    BY <1>3, <2>2
  <2>4. Contents(alone)
    <3>1. CASE alone = saved
      BY <2>3, <3>1
    <3>2. CASE alone = Collapsed(saved, s)
      <4>1. alone = saved \/ \E x : alone = [saved EXCEPT !.dom[s] = x]
        BY <3>2 DEF Collapsed
      <4>2. Untouched(saved, alone)
        BY <2>3, <4>1 DEF Untouched, Contents, Documents
      <4> QED BY <2>3, <4>2, UntouchedContents
    <3> QED BY <3>1, <3>2
  <2> HIDE DEF alone
  <2>5. Contents([alone EXCEPT !.obj[s] = {}]) /\ \A e \in Erasing(alone, s) : Contents(e)
    BY <2>4, StoredContents, ErasingContents
  <2> QED BY <2>1, <2>3, <2>4, <2>5, CommitTyped
<1>6. ASSUME NEW v, InstallFirmware(t, v) PROVE PartTyped'
  <2> DEFINE part == [db EXCEPT !.firmware.current = v]
             final == [db EXCEPT !.firmware = [current |-> v, last |-> db.firmware.current]]
  <2>1. Untouched(db, part) /\ Untouched(db, final)
    BY <1>0 DEF Untouched, Documents
  <2>2. Commit(t, final, {part})
    BY <1>6 DEF InstallFirmware
  <2> HIDE DEF part, final
  <2> QED BY <2>1, <2>2, CommitUntouched
<1> QED BY <1>1, <1>2, <1>4, <1>5, <1>6

LEMMA DomainsTyped ==
  ASSUME PartTyped, NEW t \in Terminals
  PROVE  /\ ShowDomain(t) => PartTyped'
         /\ \A s \in Slots : \A c : SetPartitionDomain(t, s, c) => PartTyped'
         /\ \A d : SetHsmDomain(t, d) => PartTyped'
         /\ \A s, d, label, primary : AddDomain(t, s, d, label, primary) => PartTyped'
         /\ \A s, label : DeleteDomain(t, s, label) => PartTyped'
         /\ \A s, old, label, primary : ChangeDomainLabel(t, s, old, label, primary) => PartTyped'
<1>0. Contents(db) /\ Documents \subseteq DOMAIN db /\ Untouched(db, db)
  BY DEF PartTyped, Contents, Untouched
<1>1. Untouched(db, WithHsmDomain(db))
  BY <1>0 DEF Untouched, Documents, WithHsmDomain
<1>2. ASSUME ShowDomain(t) PROVE PartTyped'
  BY <1>1, <1>2, CommitUntouched DEF ShowDomain
<1>3. ASSUME NEW s \in Slots, NEW c, SetPartitionDomain(t, s, c) PROVE PartTyped'
  <2> DEFINE base == IF c = None THEN WithHsmDomain(db) ELSE db
             new == IF c = None THEN base.hsmDomain ELSE c
             erased == ClearedFor(base, s, new)
             x == IF c = None THEN Inherited ELSE Explicit(new)
             final == [erased EXCEPT !.dom[s] = x]
  <2>1. Commit(t, final, {base, erased})
    BY <1>3 DEF SetPartitionDomain
  <2>2. Contents(base)
    BY <1>0, <1>1, UntouchedContents
  <2> HIDE DEF base, new, x
  <2>3. Contents(erased)
    BY <2>2, StoredContents DEF ClearedFor
  <2> HIDE DEF erased
  <2>4. Untouched(erased, final)
    BY <2>3 DEF Untouched, Contents, Documents
  <2> HIDE DEF final
  <2> QED BY <2>1, <2>2, <2>3, <2>4, UntouchedContents, CommitTyped
<1>4. ASSUME NEW d, SetHsmDomain(t, d) PROVE PartTyped'
  <2> DEFINE Affected(s) == Present(s) /\ Inherits(db, s) /\ db.hsmDomain # d
             objs == [s \in Slots |-> IF Affected(s) THEN {} ELSE db.obj[s]]
             erased == [db EXCEPT !.obj = objs]
             final == [erased EXCEPT !.hsmDomain = d]
  <2>1. Commit(t, final, {erased})
    BY <1>4 DEF SetHsmDomain
  <2>2. objs \in [Slots -> SUBSET Keys]
    BY <1>0 DEF Contents
  <2> HIDE DEF objs
  <2>3. Contents(erased)
    BY <1>0, <2>2 DEF Contents, Documents
  <2> HIDE DEF erased
  <2>4. Untouched(erased, final)
    BY <2>3 DEF Untouched, Contents, Documents
  <2> HIDE DEF final
  <2> QED BY <2>1, <2>3, <2>4, UntouchedContents, CommitTyped
<1>5. ASSUME NEW s, NEW list, NEW id, Commit(t, [db EXCEPT !.dom[s].list = list, !.dom[s].id = id], {})
      PROVE  PartTyped'
  <2> DEFINE final == [db EXCEPT !.dom[s].list = list, !.dom[s].id = id]
  <2>1. Untouched(db, final)
    BY <1>0 DEF Untouched, Documents
  <2>2. Commit(t, final, {})
    BY <1>5
  <2> HIDE DEF final
  <2> QED BY <2>1, <2>2, CommitUntouched
<1>6. ASSUME NEW s, NEW list, Commit(t, [db EXCEPT !.dom[s].list = list], {}) PROVE PartTyped'
  <2> DEFINE final == [db EXCEPT !.dom[s].list = list]
  <2>1. Untouched(db, final)
    BY <1>0 DEF Untouched, Documents
  <2>2. Commit(t, final, {})
    BY <1>6
  <2> HIDE DEF final
  <2> QED BY <2>1, <2>2, CommitUntouched
<1>7. ASSUME NEW s, NEW d, NEW label, NEW primary, AddDomain(t, s, d, label, primary) PROVE PartTyped'
  <2>1. \E list, id : Commit(t, [db EXCEPT !.dom[s].list = list, !.dom[s].id = id], {})
    BY <1>7 DEF AddDomain
  <2> QED BY <1>5, <2>1
<1>8. ASSUME NEW s, NEW label, DeleteDomain(t, s, label) PROVE PartTyped'
  <2>1. \E list : Commit(t, [db EXCEPT !.dom[s].list = list], {})
    BY <1>8 DEF DeleteDomain
  <2> QED BY <1>6, <2>1
<1>9. ASSUME NEW s, NEW old, NEW label, NEW primary, ChangeDomainLabel(t, s, old, label, primary)
      PROVE  PartTyped'
  <2>1. \E list, id : Commit(t, [db EXCEPT !.dom[s].list = list, !.dom[s].id = id], {})
    BY <1>9 DEF ChangeDomainLabel
  <2> QED BY <1>5, <2>1
<1> QED BY <1>2, <1>3, <1>4, <1>7, <1>8, <1>9

LEMMA InitTokenTyped ==
  ASSUME PartTyped, NEW t \in Terminals, NEW s \in Slots, NEW pin, NEW dm, InitToken(t, s, pin, dm)
  PROVE  PartTyped'
<1> DEFINE cred == Credential(db, s, pin)
           set  == [cred EXCEPT !.part[s].initialized = TRUE]
           dom  == [set EXCEPT !.dom[s] = Explicit(dm)]
           done == [dom EXCEPT !.life[s].domain = TRUE]
           all  == IF V1(done, s) THEN WithSmk(done, s) ELSE done
<1>0. Contents(db) /\ MaxSmk \in Nat
  BY PartitionsAssumption DEF PartTyped
<1>1. /\ Commit(t, set, {cred}) \/ Commit(t, all, {cred, set, dom, done})
      /\ db.nextSmk <= MaxSmk
  BY DEF InitToken
<1>2. Untouched(db, cred)
  <2> DEFINE touched == [db EXCEPT !.life[s] = EntryOf(db, s)]
  <2>1. \/ cred = [touched EXCEPT !.part[s].co = TRUE]
        \/ cred = [touched EXCEPT !.part[s].po = pin]
    BY DEF Credential
  <2>2. Untouched(db, touched)
    BY <1>0 DEF Untouched, Contents, Documents
  <2> HIDE DEF cred, touched
  <2> QED BY <2>1, <2>2 DEF Untouched, Documents
<1> HIDE DEF cred
<1>3. Untouched(db, set)
  BY <1>2 DEF Untouched, Documents
<1> HIDE DEF set
<1>4. Untouched(db, dom)
  BY <1>3 DEF Untouched, Documents
<1> HIDE DEF dom
<1>5. Untouched(db, done)
  BY <1>4 DEF Untouched, Documents
<1> HIDE DEF done
<1>6. Contents(cred) /\ Contents(set) /\ Contents(dom) /\ Contents(done)
  BY <1>0, <1>2, <1>3, <1>4, <1>5, UntouchedContents
<1>7. Contents(all)
  <2>1. WithSmk(done, s).nextSmk <= MaxSmk + 1
    BY <1>0, <1>1, <1>5, <1>6 DEF WithSmk, Contents, Untouched, Documents
  <2> QED BY <1>6, <2>1, WithSmkContents
<1> HIDE DEF all
<1> QED BY <1>1, <1>6, <1>7, CommitTyped

LEMMA PartitionStepTyped ==
  ASSUME PartTyped, NEW t \in Terminals, PartitionStep(t)
  PROVE  PartTyped'
<1>1. CASE LunaShPartition(t) \/ LunaCmPartition(t)
  BY <1>1, EntriesTyped, ObjectsTyped, InitTokenTyped
     DEF LunaShPartition, LunaCmPartition, InitPartition
<1>2. CASE LunaShContents(t) \/ LunaCmPolicy(t) \/ TemplateCommand(t)
  <2>1. CASE LunaShContents(t)
    BY <2>1, ObjectsTyped, PoliciesTyped DEF LunaShContents
  <2>2. CASE LunaCmPolicy(t)
    BY <2>2, PoliciesTyped DEF LunaCmPolicy
  <2>3. CASE TemplateCommand(t)
    BY <2>3, PoliciesTyped DEF TemplateCommand
  <2> QED BY <1>2, <2>1, <2>2, <2>3
<1>3. CASE LunaShDomain(t) \/ LunaCmDomain(t)
  BY <1>3, DomainsTyped DEF LunaShDomain, LunaCmDomain
<1>4. CASE LunaCmSmk(t)
  BY <1>4, MasterKeysTyped DEF LunaCmSmk
<1>5. CASE Application(t)
  BY <1>5, EntriesTyped, ObjectsTyped, MasterKeysTyped DEF Application
<1>6. CASE FirmwareCommand(t)
  BY <1>6, PoliciesTyped DEF FirmwareCommand, RollbackFirmware
<1> QED BY <1>1, <1>2, <1>3, <1>4, <1>5, <1>6 DEF PartitionStep

-----------------------------------------------------------------------------
(* The HSM's documents and the PED's.                                      *)

MadeSet(k) ==
  /\ k.id \in 1..MaxSets
  /\ k.m >= 1 /\ k.m <= Cardinality(DOMAIN k.shares)
  /\ \A i \in DOMAIN k.shares : k.shares[i] \in 0..MaxCopies

HsmDoc == [init : BOOLEAN, mode : Modes, pin : Pins \cup {None}, failed : Nat]

PedDoc == [mode : Modes, conn : BOOLEAN, sets : SUBSET {k \in KeySet : MadeSet(k)}]

AdminDocs == [hsm : HsmDoc, ped : PedDoc, policy : 0..1, nextSet : 1..(MaxSets + 1)]

AdminTyped == admin \in AdminDocs

LEMMA CommitAllTyped ==
  ASSUME PartTyped, NEW t \in Terminals, NEW d, NEW a, NEW loggedIn \in BOOLEAN, NEW partial,
         NEW erase \in BOOLEAN, CommitAll(t, d, a, loggedIn, partial, erase),
         Contents(d), a \in AdminDocs, \A p \in partial : Contents(p[1]) /\ p[2] \in AdminDocs
  PROVE  PartTyped' /\ AdminTyped'
<1>1. Contents(db') /\ admin' \in AdminDocs
  BY DEF CommitAll
<1>2. Contents(db)' /\ AdminTyped'
  BY <1>1 DEF Contents, AdminTyped
<1>3. ShellsTyped'
  <2>1. CASE shell' = [shell EXCEPT ![t].so = loggedIn]
    BY <2>1 DEF PartTyped, ShellsTyped
  <2> QED BY <2>1, Restarted DEF CommitAll, PartTyped
<1>4. torn' \subseteq {"entry", "lockout"}
  <2>1. Orphans(db') \subseteq {"entry"}
    BY DEF Orphans
  <2> QED BY <2>1 DEF CommitAll, PartTyped
<1> QED BY <1>2, <1>3, <1>4 DEF CommitAll, PartTyped

LEMMA SaveTyped ==
  ASSUME PartTyped, NEW t \in Terminals, NEW first, NEW a \in AdminDocs, NEW loggedIn \in BOOLEAN,
         \/ SaveAdmin(t, a, loggedIn)
         \/ first \in AdminDocs /\ SaveAfter(t, first, a, loggedIn)
  PROVE  PartTyped' /\ AdminTyped'
<1>1. Contents(db)
  BY DEF PartTyped
<1>2. ASSUME NEW partial, CommitAll(t, db, a, loggedIn, partial, FALSE),
             \A p \in partial : p = <<db, first>> /\ first \in AdminDocs
      PROVE  PartTyped' /\ AdminTyped'
  <2>1. \A p \in partial : Contents(p[1]) /\ p[2] \in AdminDocs
    BY <1>1, <1>2
  <2> QED BY <1>1, <1>2, <2>1, CommitAllTyped
<1>3. CASE SaveAdmin(t, a, loggedIn)
  <2>1. PICK partial : partial = {} /\ CommitAll(t, db, a, loggedIn, partial, FALSE)
    BY <1>3 DEF SaveAdmin
  <2>2. CommitAll(t, db, a, loggedIn, partial, FALSE)
    BY <2>1
  <2>3. \A p \in partial : p = <<db, first>> /\ first \in AdminDocs
    BY <2>1
  <2> QED BY <1>2, <2>2, <2>3
<1>4. CASE first \in AdminDocs /\ SaveAfter(t, first, a, loggedIn)
  <2>1. PICK partial : partial = {<<db, first>>} /\ CommitAll(t, db, a, loggedIn, partial, FALSE)
    BY <1>4 DEF SaveAfter
  <2>2. CommitAll(t, db, a, loggedIn, partial, FALSE)
    BY <2>1
  <2>3. \A p \in partial : p = <<db, first>> /\ first \in AdminDocs
    BY <1>4, <2>1
  <2> QED BY <1>2, <2>2, <2>3
<1> QED BY <1>3, <1>4

LEMMA PedTyped ==
  ASSUME PartTyped, AdminTyped, NEW t \in Terminals, PedCommand(t) \/ PedKey(t)
  PROVE  PartTyped' /\ AdminTyped'
<1>0. shell[t].so \in BOOLEAN /\ MaxCopies \in Nat /\ MaxSets \in Nat /\ MaxCopies # 0
  BY HsmAdminAssumption DEF PartTyped, ShellsTyped
<1>1. ASSUME NEW on \in BOOLEAN, SaveAdmin(t, [admin EXCEPT !.ped.conn = on], shell[t].so)
      PROVE  PartTyped' /\ AdminTyped'
  <2>1. [admin EXCEPT !.ped.conn = on] \in AdminDocs
    BY DEF AdminTyped, AdminDocs, PedDoc
  <2> QED BY <1>0, <1>1, <2>1, SaveTyped
<1>2. ASSUME NEW color \in Colors, NEW m \in 1..MaxShares, NEW n \in 1..MaxShares,
             CreateKeySet(t, color, m, n)
      PROVE  PartTyped' /\ AdminTyped'
  <2> DEFINE k == [id |-> admin.nextSet, type |-> color, m |-> m, shares |-> [i \in 1..n |-> 1]]
             a == [admin EXCEPT !.ped.sets = @ \cup {k}, !.nextSet = @ + 1]
  <2>1. m <= n /\ admin.nextSet <= MaxSets /\ SaveAdmin(t, a, shell[t].so)
    BY <1>2 DEF CreateKeySet
  <2>2. k \in KeySet
    BY DEF KeySet, AdminTyped, AdminDocs
  <2>3. Cardinality(1..n) = n
    BY FS_Interval
  <2>4. MadeSet(k)
    BY <1>0, <2>1, <2>3 DEF MadeSet, AdminTyped, AdminDocs
  <2> HIDE DEF k
  <2>5. admin.nextSet + 1 \in 1..(MaxSets + 1)
    BY <1>0, <2>1 DEF AdminTyped, AdminDocs
  <2>6. a \in AdminDocs
    BY <2>2, <2>4, <2>5 DEF AdminTyped, AdminDocs, PedDoc
  <2> HIDE DEF a
  <2> QED BY <1>0, <2>1, <2>6, SaveTyped
<1>3. ASSUME NEW k \in admin.ped.sets, NEW i \in DOMAIN k.shares, NEW copies \in 0..MaxCopies,
             SaveAdmin(t, WithShare(k, i, copies), shell[t].so)
      PROVE  PartTyped' /\ AdminTyped'
  <2> DEFINE l == [k EXCEPT !.shares[i] = copies]
  <2>1. k \in KeySet /\ MadeSet(k)
    BY DEF AdminTyped, AdminDocs, PedDoc
  <2>2. PICK n \in 1..MaxShares : k.shares \in [1..n -> Nat]
    BY <2>1 DEF KeySet
  <2>3. l.shares \in [1..n -> Nat] /\ l.shares = [k.shares EXCEPT ![i] = copies]
    BY <2>1, <2>2 DEF KeySet
  <2>4. l \in KeySet
    BY <2>1, <2>2, <2>3 DEF KeySet
  <2>5. DOMAIN l.shares = DOMAIN k.shares /\ l.id = k.id /\ l.m = k.m
    BY <2>1, <2>3 DEF KeySet
  <2>6. MadeSet(l)
    BY <2>1, <2>3, <2>5 DEF MadeSet
  <2> HIDE DEF l
  <2>7. [admin EXCEPT !.ped.sets = (admin.ped.sets \ {k}) \cup {l}] \in AdminDocs
    BY <2>4, <2>6 DEF AdminTyped, AdminDocs, PedDoc
  <2>8. WithShare(k, i, copies) \in AdminDocs
    BY <2>7 DEF WithShare, l
  <2> QED BY <1>0, <1>3, <2>8, SaveTyped
<1>4. \A k \in admin.ped.sets : \A i \in DOMAIN k.shares : k.shares[i] \in 0..MaxCopies
  BY DEF AdminTyped, AdminDocs, PedDoc, MadeSet
<1>5. ASSUME NEW k \in admin.ped.sets, NEW i \in DOMAIN k.shares, DuplicateKey(t, k, i) \/ LoseKey(t, k, i)
      PROVE  \E copies \in 0..MaxCopies : SaveAdmin(t, WithShare(k, i, copies), shell[t].so)
  <2>1. k.shares[i] \in 0..MaxCopies
    BY <1>4
  <2>2. CASE DuplicateKey(t, k, i)
    BY <1>0, <2>1, <2>2 DEF DuplicateKey
  <2>3. CASE LoseKey(t, k, i)
    BY <1>0, <2>1, <2>3 DEF LoseKey
  <2> QED BY <1>5, <2>2, <2>3
<1> QED BY <1>1, <1>2, <1>3, <1>5 DEF PedCommand, PedKey, ConnectPed, DisconnectPed

\* What an erasure of all partitions leaves, completed or not.
LEMMA ErasedContents ==
  ASSUME PartTyped
  PROVE  /\ Contents(Erased(db))
         /\ Contents([Erased(db) EXCEPT !.hsmDomain = None])
         /\ \A e \in HalfErased(db) : Contents(e)
<1>0. Contents(db) /\ Documents \subseteq DOMAIN db
  BY DEF PartTyped, Contents
<1>1. /\ Empty.obj = [s \in Slots |-> {}] /\ Empty.sks = [s \in Slots |-> None]
      /\ Empty.obj \in [Slots -> SUBSET Keys] /\ Empty.sks \in [Slots -> MasterKey \cup {None}]
  BY DEF Empty
<1>2. Contents(Erased(db))
  BY <1>0, <1>1 DEF Erased, Contents, Documents
<1>3. Untouched(Erased(db), [Erased(db) EXCEPT !.hsmDomain = None])
  BY <1>2 DEF Untouched, Contents, Documents
<1>4. ASSUME NEW e \in HalfErased(db) PROVE Contents(e)
  <2> DEFINE all == [db EXCEPT !.part = Empty.part, !.obj = Empty.obj, !.dom = Empty.dom]
             last == [all EXCEPT !.life = Empty.life]
  <2>1. \/ e = all \/ e = last
        \/ \E gone \in SUBSET Slots :
             e = [db EXCEPT !.part = [s \in Slots |-> IF s \in gone THEN None ELSE db.part[s]],
                            !.obj = [s \in Slots |-> IF s \in gone THEN {} ELSE db.obj[s]]]
    BY <1>4 DEF HalfErased
  <2>2. Contents(all)
    BY <1>0, <1>1 DEF Contents, Documents
  <2> HIDE DEF all
  <2>3. Untouched(all, last)
    BY <2>2 DEF Untouched, Contents, Documents
  <2> HIDE DEF last
  <2>4. ASSUME NEW rows, NEW gone \in SUBSET Slots,
               e = [db EXCEPT !.part = rows,
                              !.obj = [s \in Slots |-> IF s \in gone THEN {} ELSE db.obj[s]]]
        PROVE  Contents(e)
    <3> DEFINE objs == [s \in Slots |-> IF s \in gone THEN {} ELSE db.obj[s]]
    <3>1. objs \in [Slots -> SUBSET Keys]
      BY <1>0 DEF Contents
    <3>2. e = [db EXCEPT !.part = rows, !.obj = objs]
      BY <2>4
    <3> HIDE DEF objs
    <3> QED BY <1>0, <3>1, <3>2 DEF Contents, Documents
  <2> QED BY <2>1, <2>2, <2>3, <2>4, UntouchedContents
<1> QED BY <1>2, <1>3, <1>4, UntouchedContents

LEMMA ErasureTyped ==
  ASSUME PartTyped, AdminTyped, NEW t \in Terminals
  PROVE  /\ \A a \in AdminDocs : ZeroizeFrom(t, a) => PartTyped' /\ AdminTyped'
         /\ FactoryReset(t) => PartTyped' /\ AdminTyped'
         /\ \A v \in 0..1 : ChangeHsmPolicy(t, v) => PartTyped' /\ AdminTyped'
         /\ \A mode \in Modes, pin \in Pins \cup {None} : HsmInit(t, mode, pin) => PartTyped' /\ AdminTyped'
<1>0. /\ Contents(Erased(db)) /\ Contents([Erased(db) EXCEPT !.hsmDomain = None])
      /\ \A e \in HalfErased(db) : Contents(e)
      /\ shell[t].so \in BOOLEAN
  BY ErasedContents DEF PartTyped, ShellsTyped
<1>1. ASSUME NEW as \in SUBSET AdminDocs, NEW bs \in SUBSET AdminDocs
      PROVE  \A p \in (HalfErased(db) \X as) \cup ({Erased(db)} \X bs) :
               Contents(p[1]) /\ p[2] \in AdminDocs
  BY <1>0
<1>2. ASSUME NEW a \in AdminDocs, ZeroizeFrom(t, a) PROVE PartTyped' /\ AdminTyped'
  <2> DEFINE gone == ZeroizedPed(a)
  <2>1. CommitAll(t, Erased(db), ZeroizedHsm(gone), FALSE,
                  (HalfErased(db) \X {a}) \cup ({Erased(db)} \X {a, gone}), TRUE)
    BY <1>2 DEF ZeroizeFrom
  <2>2. gone \in AdminDocs
    BY DEF ZeroizedPed, AdminDocs, PedDoc
  <2> HIDE DEF gone
  <2>3. ZeroizedHsm(gone) \in AdminDocs
    BY <2>2 DEF ZeroizedHsm, AdminDocs, HsmDoc
  <2>4. {a} \in SUBSET AdminDocs /\ {a, gone} \in SUBSET AdminDocs
    BY <2>2
  <2>5. \A p \in (HalfErased(db) \X {a}) \cup ({Erased(db)} \X {a, gone}) :
          Contents(p[1]) /\ p[2] \in AdminDocs
    BY <1>1, <2>4
  <2> QED BY <1>0, <2>1, <2>3, <2>5, CommitAllTyped
<1>3. FactoryHsm \in HsmDoc /\ FactoryPed \in PedDoc
  BY DEF FactoryHsm, HsmDoc, FactoryPed, PedDoc, Modes
<1>4. ASSUME FactoryReset(t) PROVE PartTyped' /\ AdminTyped'
  <2> DEFINE ped == [admin EXCEPT !.ped = FactoryPed]
             hsm == [ped EXCEPT !.hsm = FactoryHsm]
             a == [hsm EXCEPT !.policy = 1]
             end == [Erased(db) EXCEPT !.hsmDomain = None]
             partial == (HalfErased(db) \X {admin}) \cup ({Erased(db)} \X {admin, ped, hsm})
                          \cup {<<end, hsm>>}
  <2>1. CommitAll(t, end, a, FALSE, partial, TRUE)
    BY <1>4 DEF FactoryReset
  <2>2. ped \in AdminDocs /\ admin \in AdminDocs
    BY <1>3 DEF AdminDocs, AdminTyped
  <2> HIDE DEF ped
  <2>3. hsm \in AdminDocs
    BY <1>3, <2>2 DEF AdminDocs
  <2> HIDE DEF hsm
  <2>4. a \in AdminDocs
    BY <2>3 DEF AdminDocs
  <2> HIDE DEF a
  <2>5. Contents(end)
    BY <1>0
  <2> HIDE DEF end
  <2>6. \A p \in partial : Contents(p[1]) /\ p[2] \in AdminDocs
    <3>1. {admin} \in SUBSET AdminDocs /\ {admin, ped, hsm} \in SUBSET AdminDocs
      BY <2>2, <2>3
    <3>2. \A p \in {<<end, hsm>>} : Contents(p[1]) /\ p[2] \in AdminDocs
      BY <2>3, <2>5
    <3> QED BY <1>1, <3>1, <3>2
  <2> HIDE DEF partial
  <2> QED BY <2>1, <2>4, <2>5, <2>6, CommitAllTyped
<1>5. ASSUME NEW v \in 0..1, ChangeHsmPolicy(t, v) PROVE PartTyped' /\ AdminTyped'
  <2> DEFINE saved == [admin EXCEPT !.policy = v]
  <2>1. \/ SaveAdmin(t, saved, TRUE)
        \/ CommitAll(t, Erased(db), saved, TRUE, HalfErased(db) \X {saved}, TRUE)
    BY <1>5 DEF ChangeHsmPolicy
  <2>2. saved \in AdminDocs
    BY DEF AdminTyped, AdminDocs
  <2> HIDE DEF saved
  <2>3. \A p \in HalfErased(db) \X {saved} : Contents(p[1]) /\ p[2] \in AdminDocs
    BY <1>0, <2>2
  <2> QED BY <1>0, <2>1, <2>2, <2>3, SaveTyped, CommitAllTyped
<1>6. ASSUME NEW mode \in Modes, NEW pin \in Pins \cup {None}, HsmInit(t, mode, pin)
      PROVE  PartTyped' /\ AdminTyped'
  <2> DEFINE h == admin.hsm
             hsm == [admin EXCEPT !.hsm = InitializedHsm(h, mode, pin)]
             ped == [hsm EXCEPT !.ped.mode = PedMode(h, mode),
                                !.ped.conn = @ /\ PedMode(h, mode) = "ped"]
  <2>1. \/ CommitAll(t, Erased(db), admin, shell[t].so, HalfErased(db) \X {admin}, TRUE)
        \/ CommitAll(t, Erased(db), ped, FALSE,
                     (HalfErased(db) \X {admin}) \cup ({Erased(db)} \X {admin, hsm}), TRUE)
    BY <1>6 DEF HsmInit
  <2>2. h \in HsmDoc /\ admin \in AdminDocs
    BY DEF AdminTyped, AdminDocs
  <2>3. InitializedHsm(h, mode, pin) \in HsmDoc /\ PedMode(h, mode) \in Modes
    BY <2>2 DEF InitializedHsm, PedMode, HsmDoc
  <2> HIDE DEF h
  <2>4. hsm \in AdminDocs
    BY <2>2, <2>3 DEF AdminDocs
  <2> HIDE DEF hsm
  <2>5. ped \in AdminDocs
    BY <2>3, <2>4 DEF AdminDocs, PedDoc
  <2> HIDE DEF ped
  <2>6. \A p \in HalfErased(db) \X {admin} : Contents(p[1]) /\ p[2] \in AdminDocs
    BY <1>0, <2>2
  <2>7. {admin} \in SUBSET AdminDocs /\ {admin, hsm} \in SUBSET AdminDocs
    BY <2>2, <2>4
  <2>8. \A p \in (HalfErased(db) \X {admin}) \cup ({Erased(db)} \X {admin, hsm}) :
          Contents(p[1]) /\ p[2] \in AdminDocs
    BY <1>1, <2>7
  <2> QED BY <1>0, <2>1, <2>2, <2>5, <2>6, <2>8, CommitAllTyped
<1> QED BY <1>2, <1>4, <1>5, <1>6

LEMMA HsmCommandTyped ==
  ASSUME PartTyped, AdminTyped, db.part \in [Slots -> Partition \cup {None}],
         NEW t \in Terminals, HsmCommand(t)
  PROVE  PartTyped' /\ AdminTyped'
<1>0. shell[t].so \in BOOLEAN /\ admin \in AdminDocs
  BY DEF PartTyped, ShellsTyped, AdminTyped
<1>1. CASE HsmLoginPed(t) \/ HsmLogout(t) \/ HsmInitAborted(t)
  BY <1>0, <1>1, SaveTyped DEF HsmLoginPed, HsmLogout, HsmInitAborted
<1>2. ASSUME NEW pin \in Pins, HsmLogin(t, pin) PROVE PartTyped' /\ AdminTyped'
  <2> DEFINE a == Migrated
             counted == [a EXCEPT !.hsm.failed = @ + 1]
             cleared == [a EXCEPT !.hsm.failed = 0]
  <2>1. a \in AdminDocs
    <3>1. CASE a = admin
      BY <1>0, <3>1
    <3>2. CASE \E s \in Slots : First(s) /\ db.part[s].po # None
      <4> DEFINE s == CHOOSE s \in Slots : First(s)
      <4>1. s \in Slots /\ First(s)
        BY <3>2
      <4> HIDE DEF s
      <4>2. db.part[s] \in Partition
        BY <4>1 DEF First, Present
      <4>3. db.part[s].po \in Pins \cup {None}
        BY <4>2 DEF Partition
      <4>4. [admin EXCEPT !.hsm.init = TRUE, !.hsm.mode = "password", !.hsm.pin = db.part[s].po]
              \in AdminDocs
        BY <1>0, <4>3 DEF AdminDocs, HsmDoc, Modes
      <4>5. a = admin \/ a = [admin EXCEPT !.hsm.init = TRUE, !.hsm.mode = "password",
                                           !.hsm.pin = db.part[s].po]
        BY DEF Migrated, s
      <4> QED BY <1>0, <4>4, <4>5
    <3> QED BY <3>1, <3>2 DEF Migrated
  <2>2. \/ SaveAdmin(t, a, FALSE)
        \/ SaveAfter(t, a, cleared, TRUE)
        \/ SaveAfter(t, a, counted, shell[t].so)
        \/ ZeroizeFrom(t, counted)
    BY <1>2 DEF HsmLogin, Failed
  <2> HIDE DEF a
  <2>3. counted \in AdminDocs /\ cleared \in AdminDocs
    BY <2>1 DEF AdminDocs, HsmDoc
  <2> HIDE DEF counted, cleared
  <2> QED BY <1>0, <2>1, <2>2, <2>3, SaveTyped, ErasureTyped
<1>3. CASE \/ FactoryReset(t) \/ Zeroize(t)
           \/ \E mode \in Modes, pin \in Pins \cup {None} : HsmInit(t, mode, pin)
           \/ \E v \in 0..1 : ChangeHsmPolicy(t, v)
  BY <1>0, <1>3, ErasureTyped DEF Zeroize
<1> QED BY <1>1, <1>2, <1>3 DEF HsmCommand

-----------------------------------------------------------------------------
(* The backup HSM's documents.                                             *)

BackupDocs ==
  [stm : {"secure", "initialized", "active"}, pin : Pins \cup {None}, fw : Firmwares,
   prev : Firmwares \cup {None}, parts : Seq(BackupPartition)]

BackupTyped == bk \in BackupDocs

OwnTyped(own) ==
  own \in [so : BOOLEAN, plugged : BOOLEAN, backup : BOOLEAN] /\ (own.backup => own.plugged)

LEMMA BackupCommitTyped ==
  ASSUME PartTyped, BackupTyped, NEW t \in Terminals, NEW final, NEW own, NEW partial,
         BackupCommit(t, final, own, partial),
         final \in BackupDocs, OwnTyped(own), partial \subseteq BackupDocs
  PROVE  PartTyped' /\ BackupTyped'
<1>1. ShellsTyped'
  BY Restarted DEF BackupCommit, PartTyped, ShellsTyped, OwnTyped
<1>2. UNCHANGED <<db, blobs, dead, torn>> /\ bk' \in BackupDocs
  BY DEF BackupCommit
<1> QED BY <1>1, <1>2 DEF PartTyped, BackupTyped, Contents

LEMMA NewPartition ==
  ASSUME BackupTyped, NEW d \in Origins
  PROVE  WithPartition(d) \in BackupDocs
<1>1. [domain |-> d, objs |-> NoObjects] \in BackupPartition
  <2>1. NoObjects \in [{} -> Keys] /\ {} \in SUBSET KeyLabels
    BY DEF NoObjects
  <2> QED BY <2>1 DEF BackupPartition
<1> QED BY <1>1 DEF WithPartition, BackupTyped, BackupDocs

LEMMA MergedObjects ==
  ASSUME NEW new, NEW old, NEW P, NEW Q, P \subseteq KeyLabels, Q \subseteq KeyLabels,
         new \in [P -> Keys], old \in [Q -> Keys]
  PROVE  Merged(new, old) \in [P \cup Q -> Keys]
BY DEF Merged

LEMMA BackupObjectsTyped ==
  ASSUME PartTyped, BackupTyped, NEW t \in Terminals, NEW s \in Slots, NEW d \in Origins, NEW ls,
         BackupObjects(t, s, d, ls)
  PROVE  PartTyped' /\ BackupTyped'
<1> DEFINE clonable == {k \in db.obj[s] : LabelOf[k] \in ls /\ Clonable(db, s, k)}
           b == Target(d)
           i == IF b = bk THEN FirstFor(b, d) ELSE Len(b.parts)
<1>1. PICK copy \in ByLabel(clonable) :
        BackupCommit(t, [b EXCEPT !.parts[i].objs = Merged(copy, b.parts[i].objs)], shell[t], {})
  BY DEF BackupObjects
<1>2. clonable \subseteq Keys
  BY DEF PartTyped, Contents
<1> HIDE DEF clonable
<1> DEFINE P == {LabelOf[k] : k \in clonable}
<1>3. P \subseteq KeyLabels /\ copy \in [P -> Keys]
  BY <1>1, <1>2 DEF ByLabel, KeyLabels
<1> HIDE DEF P
<1>4. b \in BackupDocs
  BY NewPartition DEF Target, BackupTyped
<1> HIDE DEF b, i
<1> DEFINE final == [b EXCEPT !.parts[i].objs = Merged(copy, b.parts[i].objs)]
<1>5. final \in BackupDocs
  <2>1. CASE i \in DOMAIN b.parts
    <3>1. b.parts \in Seq(BackupPartition) /\ b.parts[i] \in BackupPartition
      BY <1>4, <2>1 DEF BackupDocs
    <3>2. PICK Q \in SUBSET KeyLabels : b.parts[i].objs \in [Q -> Keys]
      BY <3>1 DEF BackupPartition
    <3>3. Merged(copy, b.parts[i].objs) \in [P \cup Q -> Keys]
      BY <1>3, <3>2, MergedObjects
    <3>4. P \cup Q \in SUBSET KeyLabels
      BY <1>3
    <3>5. [b.parts[i] EXCEPT !.objs = Merged(copy, b.parts[i].objs)] \in BackupPartition
      BY <3>1, <3>3, <3>4 DEF BackupPartition
    <3> DEFINE p == [b.parts[i] EXCEPT !.objs = Merged(copy, b.parts[i].objs)]
    <3>6. [b.parts EXCEPT ![i].objs = Merged(copy, b.parts[i].objs)] = [b.parts EXCEPT ![i] = p]
      OBVIOUS
    <3>7. p \in BackupPartition
      BY <3>5
    <3> HIDE DEF p
    <3>8. [b.parts EXCEPT ![i] = p] \in Seq(BackupPartition)
      BY <2>1, <3>1, <3>7
    <3> QED BY <1>4, <3>6, <3>8 DEF BackupDocs
  <2>2. CASE i \notin DOMAIN b.parts
    <3>1. [b.parts EXCEPT ![i].objs = Merged(copy, b.parts[i].objs)] = b.parts
      BY <1>4, <2>2 DEF BackupDocs
    <3>2. final = b
      BY <1>4, <3>1 DEF BackupDocs
    <3> QED BY <1>4, <3>2
  <2> QED BY <2>1, <2>2
<1>6. OwnTyped(shell[t])
  BY DEF PartTyped, ShellsTyped, OwnTyped
<1>7. BackupCommit(t, final, shell[t], {})
  BY <1>1
<1> HIDE DEF final
<1> QED BY <1>5, <1>6, <1>7, BackupCommitTyped

\* Restored objects are those of the backup; what they take the place of goes.
LEMMA OverwrittenObjects ==
  ASSUME NEW objs, NEW copy, NEW new \in Overwritten(objs, copy)
  PROVE  Objects(copy) \subseteq new /\ new \subseteq objs \cup Objects(copy)
BY DEF Overwritten

LEMMA RestoreObjectsTyped ==
  ASSUME PartTyped, BackupTyped, NEW t \in Terminals, NEW s \in Slots, NEW d, NEW ls,
         RestoreObjects(t, s, d, ls), FirstFor(bk, d) \in DOMAIN bk.parts
  PROVE  PartTyped' /\ BackupTyped'
<1> DEFINE all == bk.parts[FirstFor(bk, d)].objs
           copy == [l \in DOMAIN all \cap ls |-> all[l]]
<1>1. PICK part \in SUBSET DOMAIN copy :
        \E objs \in Overwritten(db.obj[s], [l \in part |-> copy[l]]) :
          db' = [db EXCEPT !.obj[s] = objs]
  <2> DEFINE Restored(part) == [l \in part |-> copy[l]]
  <2>1. \/ \E objs \in Overwritten(db.obj[s], copy) : db' = [db EXCEPT !.obj[s] = objs]
        \/ \E objs \in UNION {Overwritten(db.obj[s], Restored(part)) : part \in SUBSET DOMAIN copy} :
             db' = [db EXCEPT !.obj[s] = objs]
    BY DEF RestoreObjects
  <2>2. Restored(DOMAIN copy) = copy /\ DOMAIN copy \in SUBSET DOMAIN copy
    OBVIOUS
  <2> HIDE DEF copy, Restored
  <2>3. \E part \in SUBSET DOMAIN copy : \E objs \in Overwritten(db.obj[s], Restored(part)) :
          db' = [db EXCEPT !.obj[s] = objs]
    BY <2>1, <2>2
  <2> QED BY <2>3 DEF Restored
<1>a. PICK objs \in Overwritten(db.obj[s], [l \in part |-> copy[l]]) :
        db' = [db EXCEPT !.obj[s] = objs]
  BY <1>1
<1>2. bk.parts[FirstFor(bk, d)] \in BackupPartition
  BY DEF BackupTyped, BackupDocs
<1>3. \A l \in DOMAIN all : all[l] \in Keys
  BY <1>2 DEF BackupPartition
<1> HIDE DEF all
<1>4. part \subseteq DOMAIN copy /\ \A l \in DOMAIN copy : copy[l] \in Keys
  BY <1>3
<1> HIDE DEF copy
<1>5. objs \in SUBSET Keys
  <2>1. objs \subseteq db.obj[s] \cup Objects([l \in part |-> copy[l]])
    BY <1>a, OverwrittenObjects
  <2>2. db.obj[s] \subseteq Keys
    BY DEF PartTyped, Contents
  <2>3. Objects([l \in part |-> copy[l]]) \subseteq Keys
    BY <1>4 DEF Objects
  <2> QED BY <2>1, <2>2, <2>3
<1>6. Contents(db')
  BY <1>a, <1>5, StoredContents DEF PartTyped
<1>7. Contents(db)'
  BY <1>6 DEF Contents
<1>8. /\ UNCHANGED <<bk, blobs, dead, torn>>
      /\ UNCHANGED shell \/ shell' = [shell EXCEPT ![t] = Fresh]
  BY DEF RestoreObjects
<1>9. ShellsTyped'
  BY <1>8, Restarted DEF PartTyped, ShellsTyped
<1> QED BY <1>7, <1>8, <1>9 DEF PartTyped, BackupTyped

\* A set of numbers that is not empty has a least one.
LEMMA LeastNumber ==
  ASSUME NEW S \in SUBSET Nat, S # {}
  PROVE  \E i \in S : \A j \in S : i <= j
<1> DEFINE R == {ss \in Nat \X Nat : ss[1] < ss[2]}
<1>1. IsWellFoundedOn(R, Nat)
  BY NatLessThanWellFounded DEF OpToRel
<1>2. \A i, j \in Nat : i < j => <<i, j>> \in R
  OBVIOUS
<1> HIDE DEF R
<1>3. PICK i \in S : \A j \in S : ~(<<j, i>> \in R)
  BY <1>1, WFMin
<1>4. \A j \in S : ~(j < i)
  BY <1>2, <1>3
<1> QED BY <1>4

\* The partition of a domain that is used, if there is one.
LEMMA FirstFound ==
  ASSUME NEW b \in BackupDocs, NEW d, Found(b, d) # {}
  PROVE  FirstFor(b, d) \in Found(b, d) /\ \A j \in Found(b, d) : FirstFor(b, d) <= j
<1>1. Found(b, d) \in SUBSET Nat
  BY DEF Found, BackupDocs
<1>2. \E i \in Found(b, d) : \A j \in Found(b, d) : i <= j
  BY <1>1, LeastNumber
<1> QED BY <1>2 DEF FirstFor

LEMMA OriginsOf ==
  ASSUME Typed(db), NEW s \in Slots
  PROVE  DomainOf(db, s) \in Origins
BY DEF Typed, DomainOf, Setting, Origins

LEMMA DevicesTyped ==
  ASSUME PartTyped, BackupTyped, NEW t \in Terminals
  PROVE  /\ BackupConnect(t) \/ BackupDisconnect(t) \/ BackupLogout(t) => PartTyped' /\ BackupTyped'
         /\ \A pin \in Pins : BackupInit(t, pin) \/ BackupLogin(t, pin) => PartTyped' /\ BackupTyped'
         /\ StmRecover(t) \/ BackupFactoryReset(t) => PartTyped' /\ BackupTyped'
         /\ \A d \in Domains : CreateBackupPartition(t, d) => PartTyped' /\ BackupTyped'
         /\ \A v \in Firmwares : UpgradeBackupFirmware(t, v) => PartTyped' /\ BackupTyped'
         /\ RollbackBackupFirmware(t) => PartTyped' /\ BackupTyped'
<1>0. bk \in BackupDocs /\ FactoryBackup \in BackupDocs
  BY DEF BackupTyped, BackupDocs, FactoryBackup, Firmwares
<1>1. /\ OwnTyped(shell[t]) /\ OwnTyped(Plugged(t)) /\ OwnTyped([Plugged(t) EXCEPT !.backup = TRUE])
      /\ OwnTyped([shell[t] EXCEPT !.plugged = FALSE, !.backup = FALSE])
      /\ OwnTyped([shell[t] EXCEPT !.backup = FALSE])
  BY DEF PartTyped, ShellsTyped, OwnTyped, Plugged
<1>2. \A own : OwnTyped(own) /\ BackupCommit(t, bk, own, {}) => PartTyped' /\ BackupTyped'
  BY <1>0, BackupCommitTyped
<1>3. CASE BackupConnect(t) \/ BackupDisconnect(t) \/ BackupLogout(t) \/ \E pin : BackupLogin(t, pin)
  BY <1>1, <1>2, <1>3 DEF BackupConnect, BackupDisconnect, BackupLogout, BackupLogin
<1>4. ASSUME NEW pin \in Pins, BackupInit(t, pin) PROVE PartTyped' /\ BackupTyped'
  <2> DEFINE set == [bk EXCEPT !.pin = pin]
             final == [set EXCEPT !.stm = "active"]
  <2>1. BackupCommit(t, final, Plugged(t), {set})
    BY <1>4 DEF BackupInit
  <2>2. set \in BackupDocs /\ final \in BackupDocs
    BY <1>0 DEF BackupDocs
  <2> HIDE DEF set, final
  <2>3. {set} \subseteq BackupDocs
    BY <2>2
  <2> QED BY <1>1, <2>1, <2>2, <2>3, BackupCommitTyped
<1>5. ASSUME StmRecover(t) PROVE PartTyped' /\ BackupTyped'
  <2> DEFINE final == [bk EXCEPT !.stm = "initialized"]
  <2>1. BackupCommit(t, final, shell[t], {})
    BY <1>5 DEF StmRecover
  <2>2. final \in BackupDocs
    BY <1>0 DEF BackupDocs
  <2> HIDE DEF final
  <2> QED BY <1>1, <2>1, <2>2, BackupCommitTyped
<1>6. ASSUME NEW d \in Domains, CreateBackupPartition(t, d) PROVE PartTyped' /\ BackupTyped'
  <2>1. WithPartition(d) \in BackupDocs
    BY NewPartition DEF Origins
  <2>2. BackupCommit(t, WithPartition(d), shell[t], {})
    BY <1>6 DEF CreateBackupPartition
  <2> QED BY <1>1, <2>1, <2>2, BackupCommitTyped
<1>7. ASSUME NEW v \in Firmwares, UpgradeBackupFirmware(t, v) PROVE PartTyped' /\ BackupTyped'
  <2> DEFINE reserved == [bk EXCEPT !.prev = bk.fw]
             final == [reserved EXCEPT !.fw = v]
  <2>1. BackupCommit(t, final, shell[t], {reserved})
    BY <1>7 DEF UpgradeBackupFirmware
  <2>2. reserved \in BackupDocs /\ final \in BackupDocs
    BY <1>0 DEF BackupDocs
  <2> HIDE DEF reserved, final
  <2>3. {reserved} \subseteq BackupDocs
    BY <2>2
  <2> QED BY <1>1, <2>1, <2>2, <2>3, BackupCommitTyped
<1>8. [bk EXCEPT !.parts = <<>>] \in BackupDocs
  <2> DEFINE none == <<>>
  <2>1. none \in Seq(BackupPartition)
    OBVIOUS
  <2> HIDE DEF none
  <2>2. [bk EXCEPT !.parts = none] \in BackupDocs
    BY <1>0, <2>1 DEF BackupDocs
  <2> QED BY <2>2 DEF none
<1>9. ASSUME RollbackBackupFirmware(t) PROVE PartTyped' /\ BackupTyped'
  <2> DEFINE erased == [bk EXCEPT !.parts = <<>>]
             back == [erased EXCEPT !.fw = bk.prev]
             final == [back EXCEPT !.prev = None]
  <2>1. BackupCommit(t, final, shell[t], {erased, back}) /\ bk.prev \in Firmwares
    BY <1>0, <1>9 DEF RollbackBackupFirmware, BackupDocs
  <2>2. erased \in BackupDocs
    BY <1>8
  <2> HIDE DEF erased
  <2>3. back \in BackupDocs /\ final \in BackupDocs
    BY <2>1, <2>2 DEF BackupDocs
  <2> HIDE DEF back, final
  <2>4. {erased, back} \subseteq BackupDocs
    BY <2>2, <2>3
  <2> QED BY <1>1, <2>1, <2>3, <2>4, BackupCommitTyped
<1>10. ASSUME BackupFactoryReset(t) PROVE PartTyped' /\ BackupTyped'
  <2> DEFINE erased == [bk EXCEPT !.parts = <<>>]
             firmware == [erased EXCEPT !.fw = "new"]
             reserve == [firmware EXCEPT !.prev = None]
             sealed == [reserve EXCEPT !.stm = "secure"]
  <2>1. BackupCommit(t, FactoryBackup, [shell[t] EXCEPT !.backup = FALSE],
                     {erased, firmware, reserve, sealed})
    BY <1>10 DEF BackupFactoryReset
  <2>2. erased \in BackupDocs
    BY <1>8
  <2> HIDE DEF erased
  <2>3. firmware \in BackupDocs /\ reserve \in BackupDocs /\ sealed \in BackupDocs
    BY <2>2 DEF BackupDocs, Firmwares
  <2> HIDE DEF firmware, reserve, sealed
  <2>4. {erased, firmware, reserve, sealed} \subseteq BackupDocs
    BY <2>2, <2>3
  <2> QED BY <1>0, <1>1, <2>1, <2>4, BackupCommitTyped
<1> QED BY <1>3, <1>4, <1>5, <1>6, <1>7, <1>9, <1>10

LEMMA BackupCommandTyped ==
  ASSUME PartTyped, BackupTyped, Typed(db), NEW t \in Terminals, BackupCommand(t)
  PROVE  PartTyped' /\ BackupTyped'
<1>1. ASSUME NEW s \in Slots, NEW d, NEW ls, BackupObjects(t, s, d, ls) PROVE PartTyped' /\ BackupTyped'
  <2>1. d \in Origins
    BY <1>1, OriginsOf DEF BackupObjects
  <2> QED BY <1>1, <2>1, BackupObjectsTyped
<1>2. ASSUME NEW s \in Slots, NEW d, NEW ls, RestoreObjects(t, s, d, ls) PROVE PartTyped' /\ BackupTyped'
  <2>1. Found(bk, d) # {}
    BY <1>2 DEF RestoreObjects
  <2>2. FirstFor(bk, d) \in DOMAIN bk.parts
    BY <2>1, FirstFound DEF BackupTyped, Found
  <2> QED BY <1>2, <2>2, RestoreObjectsTyped
<1>3. CASE LunaCmBackup(t)
  BY <1>1, <1>2, <1>3, DevicesTyped DEF LunaCmBackup
<1>4. CASE LunaCmBackupDevice(t)
  BY <1>4, DevicesTyped DEF LunaCmBackupDevice
<1>5. CASE LunaShTokenBackup(t)
  BY <1>5, DevicesTyped DEF LunaShTokenBackup
<1> QED BY <1>3, <1>4, <1>5 DEF BackupCommand

-----------------------------------------------------------------------------
(* The types.                                                              *)

TypeInv == ReadyInv /\ PartTyped /\ BackupTyped /\ AdminTyped

LEMMA TypeStart == Init => TypeInv
<1> SUFFICES ASSUME Init PROVE PartTyped /\ BackupTyped /\ AdminTyped
  BY ReadyStart DEF TypeInv
<1>1. Contents(Empty)
  <2>1. /\ Empty.obj = [s \in Slots |-> {}] /\ Empty.pol = [s \in Slots |-> Default]
        /\ Empty.sks = [s \in Slots |-> None] /\ Empty.nextSmk = 1 /\ Empty.templates = {}
        /\ Documents \subseteq DOMAIN Empty
    BY DEF Empty, Documents
  <2>2. Default \in [Policies -> PolicyValues]
    BY DEF Default, PolicyValues
  <2>3. 1 \in 1..(MaxSmk + 1)
    <3>1. MaxSmk \in Nat
      BY PartitionsAssumption DEF PartitionsAssumption
    <3> QED BY <3>1
  <2> QED BY <2>1, <2>2, <2>3 DEF Contents
<1>2. PartTyped
  BY <1>1 DEF Init, PartInit, PartTyped, ShellsTyped, Fresh
<1>3. BackupTyped
  BY DEF Init, BackupInitState, FactoryBackup, BackupTyped, BackupDocs, Firmwares
<1>4. AdminTyped
  <2>1. 1 \in 1..(MaxSets + 1)
    BY HsmAdminAssumption
  <2> QED BY <2>1 DEF Init, AdminInit, FactoryHsm, FactoryPed, AdminTyped, AdminDocs, HsmDoc, PedDoc, Modes
<1> QED BY <1>2, <1>3, <1>4

LEMMA TypeStep ==
  ASSUME TypeInv, [Next]_vars
  PROVE  TypeInv'
<1>0. ReadyInv' /\ Typed(db) /\ db.part \in [Slots -> Partition \cup {None}]
  BY ReadyStep DEF TypeInv, ReadyInv, Typed
<1>1. ASSUME NEW t \in Terminals, PartitionStep(t), UNCHANGED <<bk, admin>> PROVE TypeInv'
  BY <1>0, <1>1, PartitionStepTyped DEF TypeInv, BackupTyped, AdminTyped
<1>2. ASSUME NEW t \in Terminals, BackupCommand(t), UNCHANGED admin PROVE TypeInv'
  BY <1>0, <1>2, BackupCommandTyped DEF TypeInv, AdminTyped
<1>3. ASSUME NEW t \in Terminals, HsmCommand(t) \/ PedCommand(t) \/ PedKey(t), UNCHANGED bk PROVE TypeInv'
  BY <1>0, <1>3, HsmCommandTyped, PedTyped DEF TypeInv, BackupTyped
<1>4. CASE UNCHANGED vars
  BY <1>0, <1>4
     DEF vars, partVars, backupVars, TypeInv, PartTyped, ShellsTyped, Contents, BackupTyped, AdminTyped
<1> QED BY <1>1, <1>2, <1>3, <1>4 DEF Next, NoBackup

SplitOK == split \in BOOLEAN

\* Only an initialization and a reset set split, to a truth value.
LEMMA SplitTyped ==
  ASSUME split \in BOOLEAN, [Next]_vars
  PROVE  split' \in BOOLEAN
<1>1. ASSUME NEW a, Halfway(a) PROVE split' \in BOOLEAN
  BY <1>1 DEF Halfway
<1>2. ASSUME NEW t, HsmCommand(t) PROVE split' \in BOOLEAN
  <2>1. CASE FactoryReset(t)
    BY <1>1, <2>1 DEF FactoryReset
  <2>2. ASSUME NEW mode, NEW pin, HsmInit(t, mode, pin) PROVE split' \in BOOLEAN
    BY <1>1, <2>2 DEF HsmInit
  <2>3. ASSUME NEW pin, HsmLogin(t, pin) PROVE split' \in BOOLEAN
    BY <2>3 DEF HsmLogin, Failed, ZeroizeFrom, SaveAdmin, SaveAfter
  <2>4. ASSUME NEW v, ChangeHsmPolicy(t, v) PROVE split' \in BOOLEAN
    BY <2>4 DEF ChangeHsmPolicy, SaveAdmin
  <2>5. CASE HsmLoginPed(t) \/ HsmLogout(t) \/ HsmInitAborted(t) \/ Zeroize(t)
    BY <2>5 DEF HsmLoginPed, HsmLogout, HsmInitAborted, Zeroize, ZeroizeFrom, SaveAdmin
  <2> QED BY <1>2, <2>1, <2>2, <2>3, <2>4, <2>5 DEF HsmCommand
<1>3. ASSUME NEW t, PedCommand(t) \/ PedKey(t) PROVE split' \in BOOLEAN
  BY <1>3 DEF PedCommand, ConnectPed, DisconnectPed, PedKey, CreateKeySet, DuplicateKey, LoseKey,
              SaveAdmin
<1> QED BY <1>2, <1>3 DEF Next, vars

LEMMA SpecTypes == Spec => []TypeInv
<1>1. TypeInv /\ [Next]_vars => TypeInv'
  BY TypeStep
<1> QED BY TypeStart, <1>1, PTL DEF Spec

\* The documents of the HSM, of its partitions, of the PED and of the backup HSM
\* always hold what the commands write to them, through erasure, stopped
\* commands and the backup HSM's resets; no object is left in a slot without a
\* partition (token.py delete_partition), no shell is logged in to a backup HSM
\* that it is not connected to (backup.py login, disconnect).
THEOREM AdminTypeCorrect == Spec => []TypeOK
<1>1. ASSUME TypeInv, split \in BOOLEAN PROVE TypeOK
  <2>1. PartTypeOK
    <3>1. \A s \in Slots : /\ db.obj[s] \subseteq Keys
                           /\ db.obj[s] # {} => db.part[s] # None
      BY <1>1 DEF TypeInv, PartTyped, Contents, ReadyInv, Typed
    <3>2. \A s \in Slots : db.dom[s] # None => /\ db.dom[s].inherit \in BOOLEAN
                                               /\ db.dom[s].id \in Domains \cup {None}
                                               /\ db.dom[s].list \subseteq DomainEntry
      BY <1>1 DEF TypeInv, ReadyInv, Typed, Setting
    <3>3. /\ db.part \in [Slots -> Partition \cup {None}] /\ db.life \in [Slots -> Entry \cup {None}]
          /\ db.hsmDomain \in Domains \cup {None}
      BY <1>1 DEF TypeInv, ReadyInv, Typed
    <3>4. /\ db.pol \in [Slots -> [Policies -> PolicyValues]]
          /\ db.sks \in [Slots -> [primary : 1..MaxSmk, rollover : 0..MaxSmk] \cup {None}]
          /\ db.templates \subseteq CustomTemplates
      BY <1>1 DEF TypeInv, PartTyped, Contents, MasterKey
    <3>5. /\ shell \in [Terminals -> [so : BOOLEAN, plugged : BOOLEAN, backup : BOOLEAN]]
          /\ blobs \subseteq Blob /\ dead \subseteq blobs
      BY <1>1 DEF TypeInv, PartTyped, ShellsTyped, MadeBlob, Blob
    <3> QED BY <3>1, <3>2, <3>3, <3>4, <3>5 DEF PartTypeOK
  <2>2. BackupTypeOK
    BY <1>1 DEF TypeInv, BackupTyped, BackupDocs, PartTyped, ShellsTyped, BackupTypeOK
  <2>3. AdminTypeOK
    <3>1. admin.hsm \in HsmDoc /\ admin.policy \in 0..1
      BY <1>1 DEF TypeInv, AdminTyped, AdminDocs
    <3>2. /\ admin.ped.mode \in Modes /\ admin.ped.conn \in BOOLEAN
          /\ \A k \in admin.ped.sets : k \in KeySet /\ MadeSet(k)
      BY <1>1 DEF TypeInv, AdminTyped, AdminDocs, PedDoc
    <3>3. \A k \in admin.ped.sets : k.type \in Colors
      BY <3>2 DEF KeySet
    <3> QED BY <1>1, <3>1, <3>2, <3>3 DEF TypeInv, PartTyped, HsmDoc, MadeSet, AdminTypeOK
  <2> QED BY <2>1, <2>2, <2>3 DEF TypeOK
<1>2. TypeInv /\ SplitOK => TypeOK
  BY <1>1 DEF SplitOK
<1>3. Init => SplitOK
  BY DEF Init, AdminInit, SplitOK
<1>4. SplitOK /\ [Next]_vars => SplitOK'
  BY SplitTyped DEF SplitOK
<1> QED BY <1>2, <1>3, <1>4, SpecTypes, PTL DEF Spec

-----------------------------------------------------------------------------
(* What is restored.  Per domain, everything reported as backed up is in the *)
(* first partition of the domain, the one that is used; later partitions of  *)
(* the domain do not become the first, and no saved backup loses a label.    *)

Held(b, d) == b.parts[FirstFor(b, d)].objs

CoveredBy(b, k) ==
  \A d \in Origins : \A l \in DOMAIN k[d] :
    Found(b, d) # {} /\ l \in DOMAIN Held(b, d) /\ Held(b, d)[l] = k[d][l]

Covered == DOMAIN kept = Origins /\ CoveredBy(bk, kept)

RestoreInv == TypeInv /\ Covered /\ RestoreReturnsLast

LEMMA CoveredNext ==
  ASSUME NEW b, NEW k, CoveredBy(b, k), bk' = b, kept' = k, DOMAIN k = Origins
  PROVE  Covered'
<1>1. CoveredBy(bk', kept')
  OBVIOUS
<1>2. CoveredBy(bk, kept)'
  BY <1>1 DEF CoveredBy, Held, Found, FirstFor
<1> QED BY <1>2 DEF Covered

LEMMA SameFirst ==
  ASSUME NEW b, NEW c, NEW d, Found(b, d) = Found(c, d)
  PROVE  FirstFor(b, d) = FirstFor(c, d)
BY DEF FirstFor

LEMMA SamePartitions ==
  ASSUME NEW k, CoveredBy(bk, k), NEW b, b.parts = bk.parts
  PROVE  CoveredBy(b, k)
<1>1. \A d : Found(b, d) = Found(bk, d)
  BY DEF Found
<1>2. \A d : FirstFor(b, d) = FirstFor(bk, d)
  BY <1>1, SameFirst
<1>3. \A d : Held(b, d) = Held(bk, d)
  BY <1>2 DEF Held
<1> QED BY <1>1, <1>3 DEF CoveredBy

\* Of two least numbers there is one.
LEMMA FirstIs ==
  ASSUME NEW b \in BackupDocs, NEW d, NEW i \in Found(b, d), \A j \in Found(b, d) : i <= j
  PROVE  FirstFor(b, d) = i
<1>1. FirstFor(b, d) \in Found(b, d) /\ FirstFor(b, d) <= i
  BY FirstFound
<1>2. i <= FirstFor(b, d)
  BY <1>1
<1>3. Found(b, d) \subseteq Nat
  BY DEF Found, BackupDocs
<1>4. i \in Nat /\ FirstFor(b, d) \in Nat
  BY <1>1, <1>3
<1> QED BY <1>1, <1>2, <1>4

LEMMA AddedPartition ==
  ASSUME BackupTyped, NEW d \in Origins
  PROVE  /\ WithPartition(d).parts = Append(bk.parts, [domain |-> d, objs |-> NoObjects])
         /\ Len(WithPartition(d).parts) = Len(bk.parts) + 1
         /\ \A e : Found(WithPartition(d), e)
                     = Found(bk, e) \cup (IF e = d THEN {Len(bk.parts) + 1} ELSE {})
         /\ \A i \in DOMAIN bk.parts : WithPartition(d).parts[i] = bk.parts[i]
<1> DEFINE new == [domain |-> d, objs |-> NoObjects]
           n == Len(bk.parts)
<1>1. bk.parts \in Seq(BackupPartition) /\ n \in Nat /\ DOMAIN bk.parts = 1..n
  BY DEF BackupTyped, BackupDocs
<1>2. WithPartition(d).parts = Append(bk.parts, new)
  BY DEF WithPartition, BackupTyped, BackupDocs
<1>3. new.domain = d
  OBVIOUS
<1> HIDE DEF new
<1> DEFINE more == Append(bk.parts, new)
<1>4. /\ Len(more) = n + 1 /\ DOMAIN more = 1..(n + 1)
      /\ \A i \in 1..n : more[i] = bk.parts[i]
      /\ more[n + 1] = new
  BY <1>1
<1> HIDE DEF more, n
<1>5. ASSUME NEW e
      PROVE  {i \in DOMAIN more : more[i].domain = e}
               = {i \in DOMAIN bk.parts : bk.parts[i].domain = e} \cup (IF e = d THEN {n + 1} ELSE {})
  <2>1. DOMAIN more = DOMAIN bk.parts \cup {n + 1} /\ n + 1 \notin DOMAIN bk.parts
    BY <1>1, <1>4
  <2>2. \A i \in DOMAIN bk.parts : more[i] = bk.parts[i]
    BY <1>1, <1>4
  <2>3. more[n + 1].domain = d
    BY <1>3, <1>4
  <2>4. CASE e = d
    BY <2>1, <2>2, <2>3, <2>4
  <2>5. CASE e # d
    BY <2>1, <2>2, <2>3, <2>5
  <2> QED BY <2>4, <2>5
<1> QED BY <1>1, <1>2, <1>4, <1>5 DEF Found, n, more, new

LEMMA CoveredAdded ==
  ASSUME BackupTyped, NEW d \in Origins, NEW k, CoveredBy(bk, k)
  PROVE  CoveredBy(WithPartition(d), k)
<1> DEFINE b == WithPartition(d)
           n == Len(bk.parts)
<1>1. b \in BackupDocs
  BY NewPartition
<1>2. n \in Nat /\ DOMAIN bk.parts = 1..n
  BY DEF BackupTyped, BackupDocs
<1> HIDE DEF b
<1> SUFFICES ASSUME NEW e \in Origins, NEW l \in DOMAIN k[e]
             PROVE  Found(b, e) # {} /\ l \in DOMAIN Held(b, e) /\ Held(b, e)[l] = k[e][l]
  BY DEF CoveredBy, b
<1>3. Found(bk, e) # {} /\ l \in DOMAIN Held(bk, e) /\ Held(bk, e)[l] = k[e][l]
  BY DEF CoveredBy
<1> DEFINE i == FirstFor(bk, e)
<1>4. i \in Found(bk, e) /\ \A j \in Found(bk, e) : i <= j
  BY <1>3, FirstFound DEF BackupTyped
<1>5. i \in 1..n
  BY <1>2, <1>4 DEF Found
<1>6. Found(b, e) = Found(bk, e) \cup (IF e = d THEN {n + 1} ELSE {})
  BY AddedPartition DEF b
<1> HIDE DEF i, n
<1>7. i \in Found(b, e) /\ \A j \in Found(b, e) : i <= j
  <2>1. i <= n + 1
    BY <1>2, <1>5
  <2> QED BY <1>4, <1>6, <2>1
<1>8. FirstFor(b, e) = i
  BY <1>1, <1>7, FirstIs
<1>9. b.parts[i] = bk.parts[i]
  BY <1>2, <1>5, AddedPartition DEF b
<1>10. Held(b, e) = Held(bk, e)
  BY <1>8, <1>9 DEF Held, i
<1> QED BY <1>3, <1>7, <1>10

\* A backup into the first partition of a domain.
LEMMA CoveredMerged ==
  ASSUME NEW b \in BackupDocs, NEW d \in Origins, NEW k, DOMAIN k = Origins, CoveredBy(b, k),
         Found(b, d) # {}, NEW copy
  PROVE  CoveredBy([b EXCEPT !.parts[FirstFor(b, d)].objs = Merged(copy, @)],
                   [k EXCEPT ![d] = Merged(copy, @)])
<1> DEFINE i == FirstFor(b, d)
           c == [b EXCEPT !.parts[i].objs = Merged(copy, @)]
           m == [k EXCEPT ![d] = Merged(copy, @)]
<1>1. i \in DOMAIN b.parts /\ b.parts[i].domain = d
  BY FirstFound DEF Found
<1>2. b.parts \in Seq(BackupPartition)
  BY DEF BackupDocs
<1>3. b.parts[i] \in BackupPartition
  BY <1>1, <1>2
<1>4. /\ DOMAIN c.parts = DOMAIN b.parts
      /\ c.parts[i].domain = d /\ c.parts[i].objs = Merged(copy, b.parts[i].objs)
      /\ \A j \in DOMAIN b.parts : j # i => c.parts[j] = b.parts[j]
  <2>1. c.parts = [b.parts EXCEPT ![i].objs = Merged(copy, b.parts[i].objs)]
    BY DEF BackupDocs
  <2>2. c.parts[i] = [b.parts[i] EXCEPT !.objs = Merged(copy, b.parts[i].objs)]
    BY <1>1, <2>1
  <2> QED BY <1>1, <1>3, <2>1, <2>2 DEF BackupPartition
<1>5. \A e : Found(c, e) = Found(b, e)
  BY <1>1, <1>4 DEF Found
<1>6. \A e : FirstFor(c, e) = FirstFor(b, e)
  BY <1>5, SameFirst
<1>7. Held(c, d) = Merged(copy, Held(b, d)) /\ m[d] = Merged(copy, k[d])
  BY <1>4, <1>6 DEF Held
<1>8. ASSUME NEW e \in Origins, e # d, Found(b, e) # {}
      PROVE  Held(c, e) = Held(b, e) /\ m[e] = k[e]
  <2>1. FirstFor(b, e) \in DOMAIN b.parts /\ b.parts[FirstFor(b, e)].domain = e
    BY <1>8, FirstFound DEF Found
  <2>2. FirstFor(b, e) # i
    BY <1>1, <1>8, <2>1
  <2> QED BY <1>4, <1>6, <1>8, <2>1, <2>2 DEF Held
<1>9. \A e \in Origins : e # d => m[e] = k[e]
  OBVIOUS
<1> HIDE DEF i, c, m
<1> SUFFICES ASSUME NEW e \in Origins, NEW l \in DOMAIN m[e]
             PROVE  Found(c, e) # {} /\ l \in DOMAIN Held(c, e) /\ Held(c, e)[l] = m[e][l]
  BY DEF CoveredBy, c, m, i
<1>10. CASE e = d
  <2>1. l \in DOMAIN copy \cup DOMAIN k[d]
    BY <1>7, <1>10 DEF Merged
  <2>2. l \in DOMAIN k[d] => l \in DOMAIN Held(b, d) /\ Held(b, d)[l] = k[d][l]
    BY DEF CoveredBy
  <2>3. l \in DOMAIN Merged(copy, Held(b, d))
    BY <2>1, <2>2 DEF Merged
  <2>4. Merged(copy, Held(b, d))[l] = Merged(copy, k[d])[l]
    BY <2>1, <2>2 DEF Merged
  <2> QED BY <1>5, <1>7, <1>10, <2>3, <2>4
<1>11. CASE e # d
  <2>1. l \in DOMAIN k[e]
    BY <1>9, <1>11
  <2>2. Found(b, e) # {} /\ l \in DOMAIN Held(b, e) /\ Held(b, e)[l] = k[e][l]
    BY <2>1 DEF CoveredBy
  <2>3. Held(c, e) = Held(b, e) /\ m[e] = k[e]
    BY <1>8, <1>11, <2>2
  <2> QED BY <1>5, <2>2, <2>3
<1> QED BY <1>10, <1>11

\* A partition of that domain is there; what is copied is covered then.
LEMMA BackupObjectsCovered ==
  ASSUME BackupTyped, Covered, NEW t \in Terminals, NEW s \in Slots, NEW d \in Origins, NEW ls,
         BackupObjects(t, s, d, ls)
  PROVE  Covered' /\ (report'.what # "restored")
<1> DEFINE b == Target(d)
           i == IF b = bk THEN FirstFor(b, d) ELSE Len(b.parts)
<1>1. PICK copy :
        /\ BackupCommit(t, [b EXCEPT !.parts[i].objs = Merged(copy, @)], shell[t], {})
        /\ kept' = [kept EXCEPT ![d] = Merged(copy, @)]
        /\ report' = [what |-> IF ls = KeyLabels THEN "backed up" ELSE "nothing",
                      slot |-> s, domain |-> d]
  BY DEF BackupObjects
<1>2. b \in BackupDocs /\ CoveredBy(b, kept)
  BY NewPartition, CoveredAdded DEF Target, BackupTyped, Covered
<1>3. Found(b, d) # {} /\ i = FirstFor(b, d)
  <2>1. CASE Found(bk, d) # {}
    BY <2>1 DEF Target
  <2>2. CASE Found(bk, d) = {}
    <3> DEFINE n == Len(bk.parts)
    <3>1. n \in Nat
      BY DEF BackupTyped, BackupDocs
    <3>2. Len(WithPartition(d).parts) = n + 1
      BY AddedPartition
    <3>3. b = WithPartition(d)
      BY <2>2 DEF Target
    <3> HIDE DEF b
    <3>4. b # bk
      BY <3>1, <3>2, <3>3
    <3>5. Found(b, d) = {n + 1}
      BY <2>2, <3>3, AddedPartition
    <3> HIDE DEF n
    <3>6. FirstFor(b, d) = n + 1
      BY <1>2, <3>1, <3>5, FirstIs
    <3> QED BY <3>2, <3>3, <3>4, <3>5, <3>6
  <2> QED BY <2>1, <2>2
<1> HIDE DEF b, i
<1>4. bk' = [b EXCEPT !.parts[FirstFor(b, d)].objs = Merged(copy, @)]
  BY <1>1, <1>3 DEF BackupCommit
<1>5. CoveredBy(bk', kept')
  BY <1>1, <1>2, <1>3, <1>4, CoveredMerged DEF Covered
<1>6. DOMAIN kept' = Origins
  BY <1>1 DEF Covered
<1>7. Covered'
  BY <1>5, <1>6, CoveredNext
<1>8. report'.what # "restored"
  BY <1>1
<1> QED BY <1>7, <1>8

\* Every label of the domain's backup comes back, and with it what was reported.
LEMMA RestoreObjectsReturns ==
  ASSUME Covered, DOMAIN db.obj = Slots, "obj" \in DOMAIN db, BackupTyped,
         NEW t \in Terminals, NEW s \in Slots, NEW d \in Origins, NEW ls,
         RestoreObjects(t, s, d, ls)
  PROVE  RestoreReturnsLast' /\ UNCHANGED <<bk, kept>>
<1> DEFINE all == Held(bk, d)
           copy == [l \in DOMAIN all \cap ls |-> all[l]]
<1>1. UNCHANGED <<bk, kept>>
  BY DEF RestoreObjects
<1>2. CASE report'.what # "restored"
  BY <1>1, <1>2 DEF RestoreReturnsLast
<1>3. CASE report'.what = "restored"
  <2>1. /\ \E objs \in Overwritten(db.obj[s], copy) : db' = [db EXCEPT !.obj[s] = objs]
        /\ report' = [what |-> IF ls = KeyLabels THEN "restored" ELSE "nothing",
                      slot |-> s, domain |-> d]
    BY <1>3 DEF RestoreObjects, Held, Nothing
  <2>2. ls = KeyLabels /\ report'.slot = s /\ report'.domain = d
    BY <1>3, <2>1
  <2>3. PICK objs \in Overwritten(db.obj[s], copy) : db' = [db EXCEPT !.obj[s] = objs]
    BY <2>1
  <2>4. db'.obj[s] = objs
    BY <2>3
  <2>5. Objects(copy) \subseteq db'.obj[s]
    BY <2>3, <2>4, OverwrittenObjects
  <2>6. Found(bk, d) # {}
    BY DEF RestoreObjects
  <2>7. DOMAIN all \subseteq KeyLabels
    <3>1. bk.parts[FirstFor(bk, d)] \in BackupPartition
      BY <2>6, FirstFound DEF BackupTyped, BackupDocs, Found
    <3> QED BY <3>1 DEF BackupPartition, Held
  <2>8. \A l \in DOMAIN kept[d] : l \in DOMAIN all /\ all[l] = kept[d][l]
    BY DEF Covered, CoveredBy
  <2> HIDE DEF all
  <2>9. \A l \in DOMAIN kept[d] : l \in DOMAIN copy /\ copy[l] = kept[d][l]
    BY <2>2, <2>7, <2>8
  <2> HIDE DEF copy
  <2>10. \A l \in DOMAIN kept[d] : kept[d][l] \in db'.obj[s]
    BY <2>5, <2>9 DEF Objects
  <2> QED BY <1>1, <2>2, <2>10 DEF RestoreReturnsLast
<1> QED BY <1>1, <1>2, <1>3

\* The other commands keep the partitions, add one, or forget them all.
LEMMA DevicesCovered ==
  ASSUME BackupTyped, Covered, NEW t \in Terminals,
         \/ BackupConnect(t) \/ BackupDisconnect(t) \/ BackupLogout(t)
         \/ StmRecover(t) \/ BackupFactoryReset(t) \/ RollbackBackupFirmware(t)
         \/ \E pin \in Pins : BackupInit(t, pin) \/ BackupLogin(t, pin)
         \/ \E d \in Domains : CreateBackupPartition(t, d)
         \/ \E v \in Firmwares : UpgradeBackupFirmware(t, v)
  PROVE  Covered' /\ report' = Nothing
<1>0. DOMAIN kept = Origins /\ CoveredBy(bk, kept) /\ bk \in BackupDocs
  BY DEF Covered, BackupTyped
<1>1. ASSUME Quiet, bk'.parts = bk.parts PROVE Covered' /\ report' = Nothing
  <2>1. CoveredBy(bk', kept)
    BY <1>0, <1>1, SamePartitions
  <2>2. kept' = kept /\ report' = Nothing
    BY <1>1 DEF Quiet
  <2> QED BY <1>0, <2>1, <2>2, CoveredNext
<1>2. ASSUME Forgotten PROVE Covered' /\ report' = Nothing
  BY <1>2 DEF Forgotten, NoObjects, Covered, CoveredBy
<1>3. CASE \/ BackupConnect(t) \/ BackupDisconnect(t) \/ BackupLogout(t)
           \/ \E pin \in Pins : BackupLogin(t, pin)
  <2>1. bk' = bk /\ Quiet
    BY <1>3 DEF BackupConnect, BackupDisconnect, BackupLogout, BackupLogin, BackupCommit
  <2> QED BY <1>1, <2>1
<1>4. CASE StmRecover(t)
  <2>1. bk' = [bk EXCEPT !.stm = "initialized"] /\ Quiet
    BY <1>4 DEF StmRecover, BackupCommit
  <2>2. bk'.parts = bk.parts
    BY <1>0, <2>1 DEF BackupDocs
  <2> QED BY <1>1, <2>1, <2>2
<1>5. ASSUME NEW pin \in Pins, BackupInit(t, pin) PROVE Covered' /\ report' = Nothing
  <2> DEFINE set == [bk EXCEPT !.pin = pin]
             final == [set EXCEPT !.stm = "active"]
  <2>1. bk' \in {set, final} /\ Quiet
    BY <1>5 DEF BackupInit, BackupCommit
  <2>2. set.parts = bk.parts /\ final.parts = bk.parts
    BY <1>0 DEF BackupDocs
  <2> HIDE DEF set, final
  <2> QED BY <1>1, <2>1, <2>2
<1>6. ASSUME NEW v \in Firmwares, UpgradeBackupFirmware(t, v) PROVE Covered' /\ report' = Nothing
  <2> DEFINE reserved == [bk EXCEPT !.prev = bk.fw]
             final == [reserved EXCEPT !.fw = v]
  <2>1. bk' \in {reserved, final} /\ Quiet
    BY <1>6 DEF UpgradeBackupFirmware, BackupCommit
  <2>2. reserved.parts = bk.parts /\ final.parts = bk.parts
    BY <1>0 DEF BackupDocs
  <2> HIDE DEF reserved, final
  <2> QED BY <1>1, <2>1, <2>2
<1>7. ASSUME NEW d \in Domains, CreateBackupPartition(t, d) PROVE Covered' /\ report' = Nothing
  <2>1. bk' = WithPartition(d) /\ kept' = kept /\ report' = Nothing
    BY <1>7 DEF CreateBackupPartition, BackupCommit, Quiet
  <2>2. CoveredBy(bk', kept)
    BY <1>0, <2>1, CoveredAdded DEF Origins
  <2> QED BY <1>0, <2>1, <2>2, CoveredNext
<1>8. CASE BackupFactoryReset(t) \/ RollbackBackupFirmware(t)
  BY <1>2, <1>8 DEF BackupFactoryReset, RollbackBackupFirmware
<1> QED BY <1>3, <1>4, <1>5, <1>6, <1>7, <1>8

LEMMA BackupCommandCovered ==
  ASSUME TypeInv, Covered, NEW t \in Terminals, BackupCommand(t)
  PROVE  Covered' /\ RestoreReturnsLast'
<1>0. Typed(db) /\ BackupTyped /\ DOMAIN db.obj = Slots /\ "obj" \in DOMAIN db
  BY DEF TypeInv, ReadyInv, PartTyped, Contents, Documents
<1>1. ASSUME NEW s \in Slots, NEW d, NEW ls, BackupObjects(t, s, d, ls)
      PROVE  Covered' /\ RestoreReturnsLast'
  <2>1. d \in Origins
    BY <1>0, <1>1, OriginsOf DEF BackupObjects
  <2> QED BY <1>0, <1>1, <2>1, BackupObjectsCovered DEF RestoreReturnsLast
<1>2. ASSUME NEW s \in Slots, NEW d, NEW ls, RestoreObjects(t, s, d, ls)
      PROVE  Covered' /\ RestoreReturnsLast'
  <2>1. d \in Origins
    BY <1>0, <1>2, OriginsOf DEF RestoreObjects
  <2>2. RestoreReturnsLast' /\ bk' = bk /\ kept' = kept
    BY <1>0, <1>2, <2>1, RestoreObjectsReturns
  <2>3. Covered'
    BY <2>2, CoveredNext DEF Covered
  <2> QED BY <2>2, <2>3
<1>3. ASSUME \/ BackupConnect(t) \/ BackupDisconnect(t) \/ BackupLogout(t)
             \/ StmRecover(t) \/ BackupFactoryReset(t) \/ RollbackBackupFirmware(t)
             \/ \E pin \in Pins : BackupInit(t, pin) \/ BackupLogin(t, pin)
             \/ \E d \in Domains : CreateBackupPartition(t, d)
             \/ \E v \in Firmwares : UpgradeBackupFirmware(t, v)
      PROVE  Covered' /\ RestoreReturnsLast'
  <2>1. Covered' /\ report' = Nothing
    BY <1>0, <1>3, DevicesCovered
  <2> QED BY <2>1 DEF RestoreReturnsLast, Nothing
<1>4. CASE LunaCmBackup(t)
  BY <1>1, <1>2, <1>3, <1>4 DEF LunaCmBackup
<1>5. CASE LunaCmBackupDevice(t)
  BY <1>3, <1>5 DEF LunaCmBackupDevice
<1>6. CASE LunaShTokenBackup(t)
  BY <1>3, <1>6 DEF LunaShTokenBackup
<1> QED BY <1>4, <1>5, <1>6 DEF BackupCommand

LEMMA RestoreStart == Init => RestoreInv
<1> SUFFICES ASSUME Init PROVE Covered /\ RestoreReturnsLast
  BY TypeStart DEF RestoreInv
<1>1. kept = [d \in Origins |-> NoObjects] /\ report = Nothing
  BY DEF Init, BackupInitState
<1> QED BY <1>1 DEF NoObjects, Nothing, Covered, CoveredBy, RestoreReturnsLast

LEMMA RestoreStep ==
  ASSUME RestoreInv, [Next]_vars
  PROVE  RestoreInv'
<1>0. /\ TypeInv' /\ TypeInv /\ Covered /\ RestoreReturnsLast
      /\ CoveredBy(bk, kept) /\ DOMAIN kept = Origins
  BY TypeStep DEF RestoreInv, Covered
<1>1. ASSUME NoBackup PROVE Covered' /\ RestoreReturnsLast'
  <2>1. bk' = bk /\ kept' = kept /\ report' = Nothing
    BY <1>1 DEF NoBackup, Quiet
  <2>2. Covered'
    BY <1>0, <2>1, CoveredNext
  <2> QED BY <2>1, <2>2 DEF Nothing, RestoreReturnsLast
<1>2. ASSUME NEW t \in Terminals, BackupCommand(t) PROVE Covered' /\ RestoreReturnsLast'
  BY <1>0, <1>2, BackupCommandCovered
<1>3. ASSUME UNCHANGED vars PROVE Covered' /\ RestoreReturnsLast'
  <2>1. bk' = bk /\ kept' = kept /\ report' = report /\ db' = db
    BY <1>3 DEF vars, partVars, backupVars
  <2>2. Covered'
    BY <1>0, <2>1, CoveredNext
  <2>3. RestoreReturnsLast'
    BY <1>0, <2>1 DEF RestoreReturnsLast
  <2> QED BY <2>2, <2>3
<1>4. Covered' /\ RestoreReturnsLast'
  BY <1>1, <1>2, <1>3 DEF Next
<1> QED BY <1>0, <1>4 DEF RestoreInv

\* A restoration that reports success has brought back, label by label, what
\* backups of that domain last reported, whatever happened in between: backups of
\* other partitions of the domain, a second backup partition for it, other
\* shells, stopped commands, firmware (backup.py backup_objects :330-440,
\* restore_objects :442-515).
THEOREM RestoreIsComplete == Spec => []RestoreReturnsLast
<1>1. RestoreInv /\ [Next]_vars => RestoreInv'
  BY RestoreStep
<1>2. RestoreInv => RestoreReturnsLast
  BY DEF RestoreInv
<1> QED BY RestoreStart, <1>1, <1>2, PTL DEF Spec

-----------------------------------------------------------------------------
(* Rollovers of master keys.                                               *)

\* A master key that opens blobs in d still does in e, unless the partition went.
KeptAt(d, e, s) ==
  V1(d, s) => \/ e.part[s] = None
              \/ /\ e.life[s] # None /\ e.life[s].version = 1
                 /\ d.sks[s] # None => e.sks[s] = d.sks[s]

KeysKept(d, e) == \A s \in Slots : KeptAt(d, e, s)

\* e differs from d in other documents.
SameKeys(d, e) ==
  Documents \subseteq DOMAIN e /\ e.part = d.part /\ e.life = d.life /\ e.sks = d.sks

\* What was put in a slot's place: the master key another partition is known by.
Superseded(s) ==
  \E r \in Slots : db'.sks[s].rollover = 0 /\ db'.sks[s].primary = WithSmk(db, r).sks[r].primary

SurvivesAt(s) ==
  \A b \in blobs : Opens(db, s, b) /\ ~Opens(db', s, b) => db'.part[s] = None \/ Superseded(s)

LEMMA EntryOfV1 ==
  ASSUME NEW d, NEW s, V1(d, s)
  PROVE  d.part[s] # None /\ d.life[s] # None /\ d.life[s].version = 1 /\ EntryOf(d, s) = d.life[s]
BY DEF V1, EntryOf

LEMMA SameKept ==
  ASSUME NEW d, NEW e, SameKeys(d, e)
  PROVE  KeysKept(d, e)
BY EntryOfV1 DEF SameKeys, KeysKept, KeptAt

LEMMA KeptThenSame ==
  ASSUME NEW d, NEW e, NEW f, KeysKept(d, e), SameKeys(e, f)
  PROVE  KeysKept(d, f)
BY DEF SameKeys, KeysKept, KeptAt

LEMMA KeptSurvives ==
  ASSUME NEW s, KeptAt(db, db', s)
  PROVE  SurvivesAt(s)
<1> SUFFICES ASSUME NEW b \in blobs, Opens(db, s, b), db'.part[s] # None
             PROVE  Opens(db', s, b)
  BY DEF SurvivesAt
<1>1. V1(db, s) /\ db.sks[s] # None /\ b.smk \in {db.sks[s].primary, db.sks[s].rollover}
  BY DEF Opens
<1>2. db'.life[s] # None /\ db'.life[s].version = 1 /\ db'.sks[s] = db.sks[s]
  BY <1>1 DEF KeptAt
<1>3. V1(db', s)
  BY <1>2 DEF V1, EntryOf
<1> QED BY <1>1, <1>2, <1>3 DEF Opens

LEMMA CommitKept ==
  ASSUME NEW t, NEW final, NEW partial, Commit(t, final, partial),
         KeysKept(db, final), \A p \in partial : KeysKept(db, p)
  PROVE  KeysKept(db, db')
BY DEF Commit

LEMMA CommitSameKeys ==
  ASSUME NEW t, NEW final, NEW partial, Commit(t, final, partial),
         SameKeys(db, final), \A p \in partial : SameKeys(db, p)
  PROVE  KeysKept(db, db')
BY SameKept, CommitKept

LEMMA ErasingSameKeys ==
  ASSUME NEW d, NEW s, SameKeys(db, d)
  PROVE  \A e \in Erasing(d, s) : SameKeys(db, e)
<1> SUFFICES ASSUME NEW left, NEW e, e = [d EXCEPT !.obj[s] = left] PROVE SameKeys(db, e)
  BY DEF Erasing
<1> QED BY DEF SameKeys, Documents

LEMMA ObjectsKept ==
  ASSUME PartTyped, NEW t
  PROVE  /\ \A s, k : CreateObject(t, s, k) => KeysKept(db, db')
         /\ \A s : ClearPartition(t, s) => KeysKept(db, db')
         /\ \A r, s : ClonePartition(t, r, s) => KeysKept(db, db')
<1> USE DEF SameKeys, Documents
<1>0. SameKeys(db, db)
  BY DEF PartTyped, Contents, Documents
<1>1. ASSUME NEW s, NEW k, CreateObject(t, s, k) PROVE KeysKept(db, db')
  <2> DEFINE final == [db EXCEPT !.obj[s] = @ \cup {k}]
  <2>1. SameKeys(db, final)
    BY <1>0
  <2>2. Commit(t, final, {})
    BY <1>1 DEF CreateObject
  <2> HIDE DEF SameKeys, Documents, final
  <2> QED BY <1>0, <2>1, <2>2, CommitSameKeys
<1>2. ASSUME NEW s, ClearPartition(t, s) PROVE KeysKept(db, db')
  <2> DEFINE final == [db EXCEPT !.obj[s] = {}]
  <2>1. SameKeys(db, final) /\ \A e \in Erasing(db, s) : SameKeys(db, e)
    BY <1>0, ErasingSameKeys
  <2>2. Commit(t, final, Erasing(db, s))
    BY <1>2 DEF ClearPartition
  <2> HIDE DEF SameKeys, Documents, final
  <2> QED BY <1>0, <2>1, <2>2, CommitSameKeys
<1>3. ASSUME NEW r, NEW s, ClonePartition(t, r, s) PROVE KeysKept(db, db')
  <2>1. PICK ks : Commit(t, [db EXCEPT !.obj[s] = @ \cup ks], {})
    BY <1>3 DEF ClonePartition
  <2> DEFINE final == [db EXCEPT !.obj[s] = @ \cup ks]
  <2>2. SameKeys(db, final)
    BY <1>0
  <2>3. Commit(t, final, {})
    BY <2>1
  <2> HIDE DEF SameKeys, Documents, final
  <2> QED BY <2>2, <2>3, CommitSameKeys
<1> QED BY <1>1, <1>2, <1>3

LEMMA DomainsKept ==
  ASSUME PartTyped, NEW t
  PROVE  /\ ShowDomain(t) => KeysKept(db, db')
         /\ \A s, c : SetPartitionDomain(t, s, c) => KeysKept(db, db')
         /\ \A d : SetHsmDomain(t, d) => KeysKept(db, db')
         /\ \A s, d, l, pr : AddDomain(t, s, d, l, pr) => KeysKept(db, db')
         /\ \A s, l : DeleteDomain(t, s, l) => KeysKept(db, db')
         /\ \A s, old, l, pr : ChangeDomainLabel(t, s, old, l, pr) => KeysKept(db, db')
<1> USE DEF SameKeys, Documents
<1>0. SameKeys(db, db) /\ SameKeys(db, WithHsmDomain(db))
  BY DEF PartTyped, Contents, Documents, WithHsmDomain
<1>1. ASSUME ShowDomain(t) PROVE KeysKept(db, db')
  <2> HIDE DEF SameKeys, Documents
  <2> QED BY <1>0, <1>1, CommitSameKeys DEF ShowDomain
<1>2. ASSUME NEW s, NEW c, SetPartitionDomain(t, s, c) PROVE KeysKept(db, db')
  <2> DEFINE base == IF c = None THEN WithHsmDomain(db) ELSE db
             new == IF c = None THEN base.hsmDomain ELSE c
             erased == ClearedFor(base, s, new)
             final == [erased EXCEPT !.dom[s] = IF c = None THEN Inherited ELSE Explicit(new)]
  <2>1. SameKeys(db, base)
    BY <1>0
  <2> HIDE DEF base, new
  <2>2. SameKeys(db, erased)
    BY <2>1 DEF ClearedFor
  <2> HIDE DEF erased
  <2>3. SameKeys(db, final)
    BY <2>2
  <2>4. Commit(t, final, {base, erased})
    BY <1>2 DEF SetPartitionDomain, base, new, erased
  <2> HIDE DEF final, SameKeys
  <2> QED BY <2>1, <2>2, <2>3, <2>4, CommitSameKeys
<1>3. ASSUME NEW d, SetHsmDomain(t, d) PROVE KeysKept(db, db')
  <2>1. PICK objs : LET erased == [db EXCEPT !.obj = objs] IN
          Commit(t, [erased EXCEPT !.hsmDomain = d], {erased})
    BY <1>3 DEF SetHsmDomain
  <2> DEFINE erased == [db EXCEPT !.obj = objs]
             final == [erased EXCEPT !.hsmDomain = d]
  <2>2. SameKeys(db, erased) /\ SameKeys(db, final)
    BY <1>0
  <2>3. Commit(t, final, {erased})
    BY <2>1
  <2> HIDE DEF SameKeys, Documents, erased, final
  <2> QED BY <2>2, <2>3, CommitSameKeys
<1>4. ASSUME NEW s, NEW d, NEW l, NEW pr, AddDomain(t, s, d, l, pr) PROVE KeysKept(db, db')
  <2>1. PICK list, id : Commit(t, [db EXCEPT !.dom[s].list = list, !.dom[s].id = id], {})
    BY <1>4 DEF AddDomain
  <2> DEFINE final == [db EXCEPT !.dom[s].list = list, !.dom[s].id = id]
  <2>2. SameKeys(db, final)
    BY <1>0
  <2>3. Commit(t, final, {})
    BY <2>1
  <2> HIDE DEF SameKeys, Documents, final
  <2> QED BY <2>2, <2>3, CommitSameKeys
<1>5. ASSUME NEW s, NEW l, DeleteDomain(t, s, l) PROVE KeysKept(db, db')
  <2>1. PICK e : Commit(t, [db EXCEPT !.dom[s].list = @ \ {e}], {})
    BY <1>5 DEF DeleteDomain
  <2> DEFINE final == [db EXCEPT !.dom[s].list = @ \ {e}]
  <2>2. SameKeys(db, final)
    BY <1>0
  <2>3. Commit(t, final, {})
    BY <2>1
  <2> HIDE DEF SameKeys, Documents, final
  <2> QED BY <2>2, <2>3, CommitSameKeys
<1>6. ASSUME NEW s, NEW old, NEW l, NEW pr, ChangeDomainLabel(t, s, old, l, pr) PROVE KeysKept(db, db')
  <2>1. PICK list, id : Commit(t, [db EXCEPT !.dom[s].list = list, !.dom[s].id = id], {})
    BY <1>6 DEF ChangeDomainLabel
  <2> DEFINE final == [db EXCEPT !.dom[s].list = list, !.dom[s].id = id]
  <2>2. SameKeys(db, final)
    BY <1>0
  <2>3. Commit(t, final, {})
    BY <2>1
  <2> HIDE DEF SameKeys, Documents, final
  <2> QED BY <2>2, <2>3, CommitSameKeys
<1> QED BY <1>1, <1>2, <1>3, <1>4, <1>5, <1>6

LEMMA PoliciesKept ==
  ASSUME PartTyped, NEW t
  PROVE  /\ \A s, p, v : ChangePolicy(t, s, p, v) => KeysKept(db, db')
         /\ \A tm : CreateTemplate(t, tm) \/ DeleteTemplate(t, tm) => KeysKept(db, db')
         /\ \A s, tm : ApplyTemplate(t, s, tm) => KeysKept(db, db')
         /\ \A v : InstallFirmware(t, v) => KeysKept(db, db')
<1> USE DEF SameKeys, Documents
<1>0. SameKeys(db, db)
  BY DEF PartTyped, Contents, Documents
<1>1. ASSUME NEW s, NEW p, NEW v, ChangePolicy(t, s, p, v) PROVE KeysKept(db, db')
  <2> DEFINE saved == [db EXCEPT !.pol[s][p] = v]
             alone == IF p = 44 /\ db.pol[s][p] = 1 /\ v = 0 THEN Collapsed(saved, s) ELSE saved
             final == [alone EXCEPT !.obj[s] = {}]
  <2>1. SameKeys(db, saved)
    BY <1>0
  <2> HIDE DEF saved
  <2>2. SameKeys(db, Collapsed(saved, s))
    BY <2>1 DEF Collapsed
  <2>3. SameKeys(db, alone)
    BY <2>1, <2>2
  <2> HIDE DEF alone
  <2>4. SameKeys(db, final) /\ \A e \in Erasing(alone, s) : SameKeys(db, e)
    BY <2>3, ErasingSameKeys
  <2>5. Commit(t, final, Erasing(alone, s)) \/ Commit(t, alone, {saved})
    BY <1>1 DEF ChangePolicy, alone, saved
  <2> HIDE DEF final, SameKeys
  <2> QED BY <2>1, <2>3, <2>4, <2>5, CommitSameKeys
<1>2. ASSUME NEW tm, CreateTemplate(t, tm) \/ DeleteTemplate(t, tm) PROVE KeysKept(db, db')
  <2> DEFINE more == [db EXCEPT !.templates = @ \cup {tm}]
             less == [db EXCEPT !.templates = @ \ {tm}]
  <2>1. SameKeys(db, more) /\ SameKeys(db, less)
    BY <1>0
  <2>2. Commit(t, more, {}) \/ Commit(t, less, {})
    BY <1>2 DEF CreateTemplate, DeleteTemplate
  <2> HIDE DEF SameKeys, Documents, more, less
  <2> QED BY <1>0, <2>1, <2>2, CommitSameKeys
<1>3. ASSUME NEW s, NEW tm, ApplyTemplate(t, s, tm) PROVE KeysKept(db, db')
  <2>1. PICK settings : LET saved == [db EXCEPT !.pol[s] = settings] IN
          Commit(t, [saved EXCEPT !.obj[s] = {}], Erasing(saved, s)) \/ Commit(t, saved, {})
    BY <1>3 DEF ApplyTemplate
  <2> DEFINE saved == [db EXCEPT !.pol[s] = settings]
             final == [saved EXCEPT !.obj[s] = {}]
  <2>2. SameKeys(db, saved) /\ SameKeys(db, final)
    BY <1>0
  <2>3. Commit(t, final, Erasing(saved, s)) \/ Commit(t, saved, {})
    BY <2>1
  <2> HIDE DEF SameKeys, Documents, saved, final
  <2>4. \A e \in Erasing(saved, s) : SameKeys(db, e)
    BY <2>2, ErasingSameKeys
  <2> QED BY <2>2, <2>3, <2>4, CommitSameKeys
<1>4. ASSUME NEW v, InstallFirmware(t, v) PROVE KeysKept(db, db')
  <2> DEFINE part == [db EXCEPT !.firmware.current = v]
             final == [db EXCEPT !.firmware = [current |-> v, last |-> db.firmware.current]]
  <2>1. SameKeys(db, part) /\ SameKeys(db, final)
    BY <1>0
  <2>2. Commit(t, final, {part})
    BY <1>4 DEF InstallFirmware
  <2> HIDE DEF SameKeys, Documents, part, final
  <2> QED BY <1>0, <2>1, <2>2, CommitSameKeys
<1> QED BY <1>1, <1>2, <1>3, <1>4

LEMMA EntriesKept ==
  ASSUME Typed(db), NEW t
  PROVE  /\ \A n, type, v : CreatePartition(t, n, type, v) => KeysKept(db, db')
         /\ \A s \in Slots : DeletePartition(t, s) => KeysKept(db, db')
         /\ \A s \in Slots, on \in BOOLEAN : SetPartitionActive(t, s, on) => KeysKept(db, db')
         /\ \A s \in Slots : InitRole(t, s) => KeysKept(db, db')
<1>0. /\ db.part \in [Slots -> Partition \cup {None}] /\ db.life \in [Slots -> Entry \cup {None}]
      /\ Documents \subseteq DOMAIN db
  BY DEF Typed
<1>1. ASSUME NEW n, NEW type, NEW v, CreatePartition(t, n, type, v) PROVE KeysKept(db, db')
  <2> DEFINE s == CHOOSE s \in FreeSlots : \A r \in FreeSlots : s <= r
  <2>1. PICK row, entry : LET inserted == [db EXCEPT !.part[s] = row] IN
          \/ Commit(t, [inserted EXCEPT !.life[s] = entry], {inserted})
          \/ Commit(t, inserted, {})
    BY <1>1 DEF CreatePartition
  <2>2. s \in FreeSlots
    <3>1. FreeSlots \in SUBSET Nat
      BY PartitionsAssumption DEF FreeSlots
    <3>2. FreeSlots # {}
      BY <1>1 DEF CreatePartition
    <3>3. \E q \in FreeSlots : \A r \in FreeSlots : q <= r
      BY <3>1, <3>2, LeastNumber
    <3> QED BY <3>3
  <2> DEFINE inserted == [db EXCEPT !.part[s] = row]
             registered == [inserted EXCEPT !.life[s] = entry]
  <2>3. Commit(t, registered, {inserted}) \/ Commit(t, inserted, {})
    BY <2>1
  <2> HIDE DEF s
  <2>4. s \in Slots /\ db.part[s] = None
    BY <2>2 DEF FreeSlots, Present
  <2>5. /\ inserted.part = [db.part EXCEPT ![s] = row] /\ inserted.life = db.life
        /\ inserted.sks = db.sks
        /\ registered.part = [db.part EXCEPT ![s] = row]
        /\ registered.life = [db.life EXCEPT ![s] = entry] /\ registered.sks = db.sks
    BY <1>0 DEF Documents
  <2> HIDE DEF inserted, registered
  <2>6. ~V1(db, s)
    BY <2>4 DEF V1
  <2>7. ASSUME NEW r \in Slots PROVE KeptAt(db, inserted, r) /\ KeptAt(db, registered, r)
    <3>1. CASE r = s
      BY <2>6, <3>1 DEF KeptAt
    <3>2. CASE r # s
      <4>1. /\ inserted.life[r] = db.life[r] /\ inserted.sks[r] = db.sks[r]
            /\ registered.life[r] = db.life[r] /\ registered.sks[r] = db.sks[r]
        BY <1>0, <2>5, <3>2
      <4> QED BY <4>1, EntryOfV1 DEF KeptAt
    <3> QED BY <3>1, <3>2
  <2> QED BY <2>3, <2>7, CommitKept DEF KeysKept
<1>2. ASSUME NEW s \in Slots, DeletePartition(t, s) PROVE KeysKept(db, db')
  <2> DEFINE gone == [db EXCEPT !.part[s] = None, !.obj[s] = {}]
             final == [gone EXCEPT !.life[s] = None]
  <2>1. Commit(t, final, {gone})
    BY <1>2 DEF DeletePartition
  <2>2. /\ gone.part = [db.part EXCEPT ![s] = None] /\ gone.life = db.life /\ gone.sks = db.sks
        /\ final.part = [db.part EXCEPT ![s] = None]
        /\ final.life = [db.life EXCEPT ![s] = None] /\ final.sks = db.sks
    BY <1>0 DEF Documents
  <2> HIDE DEF gone, final
  <2>3. ASSUME NEW r \in Slots PROVE KeptAt(db, gone, r) /\ KeptAt(db, final, r)
    <3>1. CASE r = s
      <4>1. gone.part[r] = None /\ final.part[r] = None
        BY <1>0, <2>2, <3>1
      <4> QED BY <4>1 DEF KeptAt
    <3>2. CASE r # s
      <4>1. /\ gone.life[r] = db.life[r] /\ gone.sks[r] = db.sks[r]
            /\ final.life[r] = db.life[r] /\ final.sks[r] = db.sks[r]
        BY <1>0, <2>2, <3>2
      <4> QED BY <4>1, EntryOfV1 DEF KeptAt
    <3> QED BY <3>1, <3>2
  <2> QED BY <2>1, <2>3, CommitKept DEF KeysKept
<1>3. ASSUME NEW s \in Slots, NEW on \in BOOLEAN, SetPartitionActive(t, s, on) PROVE KeysKept(db, db')
  <2> DEFINE entry == [EntryOf(db, s) EXCEPT !.active = on]
             final == [db EXCEPT !.life[s] = entry]
  <2>1. Commit(t, final, {}) /\ db.part[s] # None
    BY <1>3 DEF SetPartitionActive, Present
  <2>2. entry.version = EntryOf(db, s).version /\ entry # None
    <3>1. EntryOf(db, s) \in Entry
      BY <2>1, EntryThere
    <3>2. entry \in Entry
      BY <3>1 DEF Entry
    <3> QED BY <3>1, <3>2, NoneAssumption DEF Entry
  <2>3. final.life = [db.life EXCEPT ![s] = entry] /\ final.sks = db.sks
    BY <1>0 DEF Documents
  <2> HIDE DEF entry, final
  <2>4. ASSUME NEW r \in Slots PROVE KeptAt(db, final, r)
    BY <1>0, <2>2, <2>3, EntryOfV1 DEF KeptAt
  <2> QED BY <2>1, <2>4, CommitKept DEF KeysKept
<1>4. ASSUME NEW s \in Slots, InitRole(t, s) PROVE KeysKept(db, db')
  <2> DEFINE final == [db EXCEPT !.part[s].co = TRUE]
  <2>1. Commit(t, final, {})
    BY <1>4 DEF InitRole
  <2>2. final.life = db.life /\ final.sks = db.sks
    BY <1>0 DEF Documents
  <2> HIDE DEF final
  <2>3. KeysKept(db, final)
    BY <2>2, EntryOfV1 DEF KeysKept, KeptAt
  <2> QED BY <2>1, <2>3, CommitKept
<1> QED BY <1>1, <1>2, <1>3, <1>4

LEMMA WithSmkKept ==
  ASSUME NEW d, Contents(d), NEW s \in Slots
  PROVE  LET e == WithSmk(d, s) IN
         /\ e.part = d.part /\ e.life = d.life /\ Contents(d)
         /\ \A r \in Slots : d.sks[r] # None => e.sks[r] = d.sks[r]
         /\ DOMAIN e.sks = Slots /\ Documents \subseteq DOMAIN e
<1>1. CASE d.sks[s] # None
  BY <1>1 DEF WithSmk, Contents
<1>2. CASE d.sks[s] = None
  <2> DEFINE e == [d EXCEPT !.sks[s] = [primary |-> d.nextSmk, rollover |-> 0], !.nextSmk = @ + 1]
  <2>1. /\ e.part = d.part /\ e.life = d.life /\ Documents \subseteq DOMAIN e
        /\ e.sks = [d.sks EXCEPT ![s] = [primary |-> d.nextSmk, rollover |-> 0]]
    BY DEF Contents, Documents
  <2>2. WithSmk(d, s) = e
    BY <1>2 DEF WithSmk
  <2> HIDE DEF e
  <2> QED BY <1>2, <2>1, <2>2 DEF Contents
<1> QED BY <1>1, <1>2

LEMMA InitTokenKept ==
  ASSUME PartTyped, Typed(db), NEW t, NEW s \in Slots, NEW pin \in Pins, NEW dm, InitToken(t, s, pin, dm)
  PROVE  KeysKept(db, db')
<1> DEFINE cred == Credential(db, s, pin)
           set  == [cred EXCEPT !.part[s].initialized = TRUE]
           dom  == [set EXCEPT !.dom[s] = Explicit(dm)]
           done == [dom EXCEPT !.life[s].domain = TRUE]
           all  == IF V1(done, s) THEN WithSmk(done, s) ELSE done
           entry == EntryOf(db, s)
           claimed == [entry EXCEPT !.domain = TRUE]
<1>0. Contents(db) /\ Documents \subseteq DOMAIN db
  BY DEF PartTyped, Contents
<1>1. /\ db.part[s] # None
      /\ Commit(t, set, {cred}) \/ Commit(t, all, {cred, set, dom, done})
  BY DEF InitToken, Present
<1>2. entry \in Entry /\ claimed \in Entry /\ claimed.version = entry.version
  <2>1. entry \in Entry
    BY <1>1, EntryThere
  <2> HIDE DEF entry
  <2> QED BY <2>1 DEF Entry
<1>3. /\ cred.life = [db.life EXCEPT ![s] = entry] /\ Untouched(db, cred)
  <2> DEFINE touched == [db EXCEPT !.life[s] = entry]
  <2>1. \/ cred = [touched EXCEPT !.part[s].co = TRUE]
        \/ cred = [touched EXCEPT !.part[s].po = pin]
    BY DEF Credential
  <2>2. touched.life = [db.life EXCEPT ![s] = entry] /\ Untouched(db, touched)
    BY <1>0 DEF Untouched, Documents
  <2> HIDE DEF cred, touched, entry
  <2> QED BY <2>1, <2>2 DEF Untouched, Documents
<1> HIDE DEF cred
<1>4. set.life = cred.life /\ Untouched(db, set)
  BY <1>3 DEF Untouched, Documents
<1> HIDE DEF set
<1>5. dom.life = cred.life /\ Untouched(db, dom)
  BY <1>4 DEF Untouched, Documents
<1> HIDE DEF dom
<1>6. done.life = [db.life EXCEPT ![s] = claimed] /\ Untouched(db, done)
  <2>1. /\ done.life = [dom.life EXCEPT ![s] = [dom.life[s] EXCEPT !.domain = TRUE]]
        /\ Untouched(db, done)
    BY <1>5 DEF Untouched, Documents
  <2>2. db.life \in [Slots -> Entry \cup {None}]
    BY DEF Typed
  <2>3. dom.life = [db.life EXCEPT ![s] = entry] /\ dom.life[s] = entry
    BY <1>3, <1>5, <2>2
  <2> HIDE DEF done, entry
  <2> QED BY <2>1, <2>2, <2>3
<1> HIDE DEF done, entry, claimed
<1>7. entry # None /\ claimed # None
  BY <1>2, NoneAssumption
<1>8. ASSUME NEW e, NEW x \in {entry, claimed}, e.life = [db.life EXCEPT ![s] = x],
             \A r \in Slots : db.sks[r] # None => e.sks[r] = db.sks[r]
      PROVE  KeysKept(db, e)
  <2>1. x # None /\ x.version = entry.version
    BY <1>2, <1>7, <1>8
  <2>2. V1(db, s) => entry.version = 1
    BY DEF V1, entry
  <2>3. ASSUME NEW r \in Slots PROVE KeptAt(db, e, r)
    <3>1. CASE r = s
      <4>1. e.life[r] = x
        BY <1>8, <3>1 DEF Typed
      <4> QED BY <1>8, <2>1, <2>2, <3>1, <4>1 DEF KeptAt
    <3>2. CASE r # s
      <4>1. e.life[r] = db.life[r]
        BY <1>8, <3>2 DEF Typed
      <4> QED BY <1>8, <4>1, EntryOfV1 DEF KeptAt
    <3> QED BY <3>1, <3>2
  <2> QED BY <2>3 DEF KeysKept
<1>9. KeysKept(db, cred) /\ KeysKept(db, set) /\ KeysKept(db, dom) /\ KeysKept(db, done)
  BY <1>3, <1>4, <1>5, <1>6, <1>8 DEF Untouched
<1>10. KeysKept(db, all)
  <2>1. Contents(done) /\ done.sks = db.sks
    BY <1>0, <1>6, UntouchedContents DEF Untouched
  <2>2. /\ WithSmk(done, s).life = done.life
        /\ \A r \in Slots : done.sks[r] # None => WithSmk(done, s).sks[r] = done.sks[r]
    BY <2>1, WithSmkKept
  <2>3. KeysKept(db, WithSmk(done, s))
    BY <1>6, <1>8, <2>1, <2>2
  <2> QED BY <1>9, <2>3
<1> HIDE DEF all
<1> QED BY <1>1, <1>9, <1>10, CommitKept

\* The four commands that make or move master keys.
LEMMA MasterKeysSurvive ==
  ASSUME PartTyped, NEW t, NEW s \in Slots
  PROVE  /\ \A r \in Slots : CloneSmk(t, r, s) => \A q \in Slots : SurvivesAt(q)
         /\ RolloverStart(t, s) => \A q \in Slots : SurvivesAt(q)
         /\ RolloverEnd(t, s) => \A q \in Slots : SurvivesAt(q)
         /\ \A k : Extract(t, s, k) => KeysKept(db, db')
         /\ \A b : Insert(t, s, b) => KeysKept(db, db')
<1>0. Contents(db) /\ Documents \subseteq DOMAIN db
  BY DEF PartTyped, Contents
<1> DEFINE With(r) == WithSmk(db, r)
<1>1. ASSUME NEW r \in Slots
      PROVE  /\ KeysKept(db, With(r)) /\ With(r).life = db.life /\ With(r).part = db.part
             /\ \A q \in Slots : db.sks[q] # None => With(r).sks[q] = db.sks[q]
             /\ DOMAIN With(r).sks = Slots /\ Documents \subseteq DOMAIN With(r)
  <2>1. /\ With(r).life = db.life /\ With(r).part = db.part
        /\ \A q \in Slots : db.sks[q] # None => With(r).sks[q] = db.sks[q]
        /\ DOMAIN With(r).sks = Slots /\ Documents \subseteq DOMAIN With(r)
    BY <1>0, WithSmkKept
  <2>2. KeysKept(db, With(r))
    BY <2>1, EntryOfV1 DEF KeysKept, KeptAt
  <2> QED BY <2>1, <2>2
<1> HIDE DEF With
\* A master key k saved for s on top of the others.
<1>2. ASSUME NEW r \in Slots, NEW final, NEW k,
             Commit(t, final, {With(r)}), final.part = With(r).part, final.life = With(r).life,
             final.sks = [With(r).sks EXCEPT ![s] = k],
             db' = final => SurvivesAt(s)
      PROVE  \A q \in Slots : SurvivesAt(q)
  <2> SUFFICES ASSUME NEW q \in Slots PROVE SurvivesAt(q)
    OBVIOUS
  <2>1. db' = final \/ db' = With(r)
    BY <1>2 DEF Commit
  <2>2. CASE db' = With(r)
    <3>1. KeptAt(db, db', q)
      BY <1>1, <2>2 DEF KeysKept
    <3> QED BY <3>1, KeptSurvives
  <2>3. CASE db' = final /\ q # s
    <3>1. final.sks[q] = With(r).sks[q] /\ KeptAt(db, With(r), q)
      BY <1>1, <1>2, <2>3 DEF KeysKept
    <3>2. KeptAt(db, db', q)
      BY <1>2, <2>3, <3>1 DEF KeptAt
    <3> QED BY <3>2, KeptSurvives
  <2> QED BY <1>2, <2>1, <2>2, <2>3
\* Without a rollover, and by another's primary key or its own.
<1>3. ASSUME NEW r \in Slots, NEW final, NEW k, final.sks = [With(r).sks EXCEPT ![s] = k],
             k.rollover = 0, k.primary = With(r).sks[r].primary
      PROVE  db' = final => SurvivesAt(s)
  <2>1. final.sks[s] = k
    BY <1>1, <1>3
  <2>2. db' = final => Superseded(s)
    BY <1>3, <2>1 DEF Superseded, With
  <2> QED BY <2>2 DEF SurvivesAt
<1>4. ASSUME NEW r \in Slots, CloneSmk(t, r, s) PROVE \A q \in Slots : SurvivesAt(q)
  <2> DEFINE k == [primary |-> With(r).sks[r].primary, rollover |-> 0]
             final == [With(r) EXCEPT !.sks[s] = k]
  <2>1. Commit(t, final, {With(r)})
    BY <1>4 DEF CloneSmk, With
  <2>2. k.rollover = 0 /\ k.primary = With(r).sks[r].primary
    OBVIOUS
  <2> HIDE DEF k
  <2>3. /\ final.part = With(r).part /\ final.life = With(r).life
        /\ final.sks = [With(r).sks EXCEPT ![s] = k]
    BY <1>1 DEF Documents
  <2> HIDE DEF final
  <2>4. db' = final => SurvivesAt(s)
    BY <1>3, <2>2, <2>3
  <2> QED BY <1>2, <2>1, <2>3, <2>4
<1>5. ASSUME RolloverEnd(t, s) PROVE \A q \in Slots : SurvivesAt(q)
  <2> DEFINE k == [With(s).sks[s] EXCEPT !.rollover = 0]
             final == [With(s) EXCEPT !.sks[s] = k]
  <2>1. Commit(t, final, {With(s)}) /\ With(s).nextSmk <= MaxSmk + 1
    BY <1>5 DEF RolloverEnd, With
  <2>2. k.rollover = 0 /\ k.primary = With(s).sks[s].primary
    <3>1. With(s).sks[s] \in MasterKey
      BY <1>0, <2>1, WithSmkContents DEF With
    <3> QED BY <3>1 DEF MasterKey
  <2> HIDE DEF k
  <2>3. /\ final.part = With(s).part /\ final.life = With(s).life
        /\ final.sks = [With(s).sks EXCEPT ![s] = k]
    BY <1>1 DEF Documents
  <2> HIDE DEF final
  <2>4. db' = final => SurvivesAt(s)
    BY <1>3, <2>2, <2>3
  <2> QED BY <1>2, <2>1, <2>3, <2>4
<1>6. ASSUME RolloverStart(t, s) PROVE \A q \in Slots : SurvivesAt(q)
  <2> DEFINE d == With(s)
             k == [primary |-> d.nextSmk, rollover |-> d.sks[s].primary]
             final == [d EXCEPT !.sks[s] = k, !.nextSmk = @ + 1]
  <2>1. CASE d.sks[s].rollover # 0
    <3>1. Commit(t, d, {})
      BY <1>6, <2>1 DEF RolloverStart, With
    <3>2. KeysKept(db, db')
      BY <1>1, <3>1, CommitKept
    <3> QED BY <3>2, KeptSurvives DEF KeysKept
  <2>2. CASE d.sks[s].rollover = 0
    <3>1. Commit(t, final, {d})
      BY <1>6, <2>2 DEF RolloverStart, With
    <3>2. /\ final.part = d.part /\ final.life = d.life /\ final.sks = [d.sks EXCEPT ![s] = k]
      BY <1>1 DEF Documents
    <3>3. k.rollover = d.sks[s].primary
      OBVIOUS
    <3>0. k \in Smk
      <4>1. MaxSmk \in Nat /\ d.nextSmk <= MaxSmk
        BY <1>6, PartitionsAssumption DEF RolloverStart, With
      <4>2. d.nextSmk \in Nat
        BY <1>0 DEF Contents, WithSmk, Documents, With
      <4>3. d.nextSmk <= MaxSmk + 1
        BY <4>1, <4>2
      <4>4. d.sks[s] \in MasterKey
        BY <1>0, <4>3, WithSmkContents DEF With
      <4> HIDE DEF d
      <4> QED BY <4>1, <4>2, <4>4 DEF MasterKey, Smk
    <3> HIDE DEF k, final
    <3>4. ASSUME db' = final PROVE SurvivesAt(s)
      <4> SUFFICES ASSUME NEW b \in blobs, Opens(db, s, b) PROVE Opens(db', s, b)
        BY DEF SurvivesAt
      <4>1. b.smk # 0
        BY DEF PartTyped, MadeBlob
      <4>2. V1(db, s) /\ db.sks[s] # None /\ b.smk \in {db.sks[s].primary, db.sks[s].rollover}
        BY DEF Opens
      <4>3. d.sks[s] = db.sks[s]
        BY <1>1, <4>2
      <4>4. b.smk = k.rollover
        BY <2>2, <3>3, <4>1, <4>2, <4>3
      <4>5. db'.sks[s] = k
        BY <1>1, <3>2, <3>4
      <4>6. db'.part = db.part /\ db'.life = db.life
        BY <1>1, <3>2, <3>4
      <4>7. V1(db', s)
        BY <4>2, <4>6 DEF V1, EntryOf
      <4>8. k # None
        BY <3>0, NoneAssumption
      <4> QED BY <4>4, <4>5, <4>7, <4>8 DEF Opens
    <3> HIDE DEF d
    <3> QED BY <1>2, <3>1, <3>2, <3>4 DEF d
  <2> QED BY <2>1, <2>2
<1>7. ASSUME NEW k, Extract(t, s, k) PROVE KeysKept(db, db')
  <2>1. db' = With(s)
    BY <1>7 DEF Extract, With
  <2> QED BY <1>1, <2>1
<1>8. ASSUME NEW b, Insert(t, s, b) PROVE KeysKept(db, db')
  <2> DEFINE final == [With(s) EXCEPT !.obj[s] = @ \cup {b.key}]
  <2>1. Commit(t, final, {With(s)}) \/ Commit(t, With(s), {With(s)})
    BY <1>8 DEF Insert, With
  <2>2. SameKeys(With(s), final)
    BY <1>1 DEF SameKeys, Documents
  <2> HIDE DEF final
  <2>3. KeysKept(db, final) /\ KeysKept(db, With(s))
    BY <1>1, <2>2, KeptThenSame
  <2> QED BY <2>1, <2>3, CommitKept
<1> QED BY <1>4, <1>5, <1>6, <1>7, <1>8

\* An erasure takes the partitions with their master keys, completed or not.
LEMMA ErasedKept ==
  ASSUME Typed(db)
  PROVE  /\ KeysKept(db, db) /\ KeysKept(db, Erased(db))
         /\ KeysKept(db, [Erased(db) EXCEPT !.hsmDomain = None])
         /\ \A e \in HalfErased(db) : KeysKept(db, e)
<1>0. Documents \subseteq DOMAIN db /\ Empty.part = [s \in Slots |-> None]
  BY DEF Typed, Empty
<1>1. KeysKept(db, db)
  BY EntryOfV1 DEF KeysKept, KeptAt
<1>2. ASSUME NEW e, e.part = Empty.part PROVE KeysKept(db, e)
  BY <1>0, <1>2 DEF KeysKept, KeptAt
<1> DEFINE end == [Erased(db) EXCEPT !.hsmDomain = None]
<1>3. Erased(db).part = Empty.part /\ end.part = Empty.part
  BY <1>0 DEF Erased, Documents
<1>4. ASSUME NEW e \in HalfErased(db) PROVE KeysKept(db, e)
  <2> DEFINE all == [db EXCEPT !.part = Empty.part, !.obj = Empty.obj, !.dom = Empty.dom]
             last == [all EXCEPT !.life = Empty.life]
  <2>1. \/ e = all \/ e = last
        \/ \E gone \in SUBSET Slots : \E objs :
             e = [db EXCEPT !.part = [s \in Slots |-> IF s \in gone THEN None ELSE db.part[s]],
                            !.obj = objs]
    BY <1>4 DEF HalfErased
  <2>2. all.part = Empty.part /\ last.part = Empty.part
    BY <1>0 DEF Documents
  <2>3. ASSUME NEW rows, NEW objs, e = [db EXCEPT !.part = rows, !.obj = objs]
        PROVE  KeysKept(db, e)
    <3>1. e.life = db.life /\ e.sks = db.sks
      BY <1>0, <2>3 DEF Documents
    <3> QED BY <3>1, EntryOfV1 DEF KeysKept, KeptAt
  <2> HIDE DEF all, last
  <2> QED BY <1>2, <2>1, <2>2, <2>3
<1> QED BY <1>1, <1>2, <1>3, <1>4

LEMMA CommitAllKept ==
  ASSUME NEW t, NEW d, NEW a, NEW loggedIn, NEW partial, NEW erase,
         CommitAll(t, d, a, loggedIn, partial, erase),
         KeysKept(db, d), \A p \in partial : KeysKept(db, p[1])
  PROVE  KeysKept(db, db')
BY DEF CommitAll

LEMMA SaveKept ==
  ASSUME Typed(db), NEW t, NEW a, NEW first, NEW loggedIn,
         SaveAdmin(t, a, loggedIn) \/ SaveAfter(t, first, a, loggedIn)
  PROVE  KeysKept(db, db')
<1>1. UNCHANGED db
  BY DEF SaveAdmin, SaveAfter, CommitAll
<1> QED BY <1>1, ErasedKept

LEMMA EraseKept ==
  ASSUME Typed(db), NEW t,
         \/ \E a : ZeroizeFrom(t, a)
         \/ FactoryReset(t)
         \/ \E mode, pin : HsmInit(t, mode, pin)
         \/ \E v : ChangeHsmPolicy(t, v)
  PROVE  KeysKept(db, db')
<1> DEFINE end == [Erased(db) EXCEPT !.hsmDomain = None]
<1>1. /\ KeysKept(db, Erased(db)) /\ KeysKept(db, end)
      /\ \A e \in HalfErased(db) : KeysKept(db, e)
  BY ErasedKept
<1> HIDE DEF end
<1>2. ASSUME NEW as, NEW bs
      PROVE  \A p \in (HalfErased(db) \X as) \cup ({Erased(db)} \X bs) : KeysKept(db, p[1])
  BY <1>1
<1>3. ASSUME NEW a, ZeroizeFrom(t, a) PROVE KeysKept(db, db')
  <2> DEFINE gone == ZeroizedPed(a)
  <2>1. CommitAll(t, Erased(db), ZeroizedHsm(gone), FALSE,
                  (HalfErased(db) \X {a}) \cup ({Erased(db)} \X {a, gone}), TRUE)
    BY <1>3 DEF ZeroizeFrom
  <2> HIDE DEF gone
  <2>2. \A p \in (HalfErased(db) \X {a}) \cup ({Erased(db)} \X {a, gone}) : KeysKept(db, p[1])
    BY <1>2
  <2> QED BY <1>1, <2>1, <2>2, CommitAllKept
<1>4. CASE FactoryReset(t)
  <2>1. PICK as, bs, last, f :
          CommitAll(t, end, f, FALSE,
                    (HalfErased(db) \X as) \cup ({Erased(db)} \X bs) \cup {<<end, last>>}, TRUE)
    BY <1>4 DEF FactoryReset, end
  <2>2. \A p \in (HalfErased(db) \X as) \cup ({Erased(db)} \X bs) \cup {<<end, last>>} :
          KeysKept(db, p[1])
    <3>1. \A p \in {<<end, last>>} : KeysKept(db, p[1])
      BY <1>1
    <3> QED BY <1>2, <3>1
  <2> QED BY <1>1, <2>1, <2>2, CommitAllKept
<1>5. ASSUME NEW mode, NEW pin, HsmInit(t, mode, pin) PROVE KeysKept(db, db')
  <2>1. \A p \in HalfErased(db) \X {admin} : KeysKept(db, p[1])
    BY <1>1
  <2>2. \/ CommitAll(t, Erased(db), admin, shell[t].so, HalfErased(db) \X {admin}, TRUE)
        \/ \E f, bs : CommitAll(t, Erased(db), f, FALSE,
                                (HalfErased(db) \X {admin}) \cup ({Erased(db)} \X bs), TRUE)
    BY <1>5 DEF HsmInit
  <2>3. CASE CommitAll(t, Erased(db), admin, shell[t].so, HalfErased(db) \X {admin}, TRUE)
    BY <1>1, <2>1, <2>3, CommitAllKept
  <2>4. ASSUME NEW f, NEW bs, CommitAll(t, Erased(db), f, FALSE,
                (HalfErased(db) \X {admin}) \cup ({Erased(db)} \X bs), TRUE)
        PROVE  KeysKept(db, db')
    <3>1. \A p \in (HalfErased(db) \X {admin}) \cup ({Erased(db)} \X bs) : KeysKept(db, p[1])
      BY <1>2
    <3> QED BY <1>1, <2>4, <3>1, CommitAllKept
  <2> QED BY <2>2, <2>3, <2>4
<1>6. ASSUME NEW v, ChangeHsmPolicy(t, v) PROVE KeysKept(db, db')
  <2> DEFINE saved == [admin EXCEPT !.policy = v]
  <2>1. \A p \in HalfErased(db) \X {saved} : KeysKept(db, p[1])
    BY <1>1
  <2>2. \/ SaveAdmin(t, saved, TRUE)
        \/ CommitAll(t, Erased(db), saved, TRUE, HalfErased(db) \X {saved}, TRUE)
    BY <1>6 DEF ChangeHsmPolicy
  <2> HIDE DEF saved
  <2> QED BY <1>1, <2>1, <2>2, SaveKept, CommitAllKept
<1> QED BY <1>3, <1>4, <1>5, <1>6

LEMMA HsmStepKept ==
  ASSUME Typed(db), NEW t, HsmCommand(t) \/ PedCommand(t) \/ PedKey(t)
  PROVE  KeysKept(db, db')
<1>1. CASE PedCommand(t) \/ PedKey(t)
  BY <1>1, SaveKept
     DEF PedCommand, PedKey, ConnectPed, DisconnectPed, CreateKeySet, DuplicateKey, LoseKey
<1>2. CASE HsmLoginPed(t) \/ HsmLogout(t) \/ HsmInitAborted(t)
  BY <1>2, SaveKept DEF HsmLoginPed, HsmLogout, HsmInitAborted
<1>3. ASSUME NEW pin, HsmLogin(t, pin) PROVE KeysKept(db, db')
  <2> DEFINE a == Migrated
  <2>1. \/ SaveAdmin(t, a, FALSE)
        \/ SaveAfter(t, a, [a EXCEPT !.hsm.failed = 0], TRUE)
        \/ Failed(t, a)
    BY <1>3 DEF HsmLogin
  <2> HIDE DEF a
  <2>2. CASE Failed(t, a)
    BY <2>2, SaveKept, EraseKept DEF Failed
  <2> QED BY <2>1, <2>2, SaveKept
<1>4. CASE \/ FactoryReset(t) \/ Zeroize(t)
           \/ \E mode, pin : HsmInit(t, mode, pin)
           \/ \E v : ChangeHsmPolicy(t, v)
  BY <1>4, EraseKept DEF Zeroize
<1> QED BY <1>1, <1>2, <1>3, <1>4 DEF HsmCommand

LEMMA BackupStepKept ==
  ASSUME Typed(db), NEW t, BackupCommand(t)
  PROVE  KeysKept(db, db')
<1>1. ASSUME UNCHANGED db PROVE KeysKept(db, db')
  BY <1>1, ErasedKept
<1>2. ASSUME NEW s, NEW d, NEW ls, RestoreObjects(t, s, d, ls) PROVE KeysKept(db, db')
  <2>1. PICK objs : db' = [db EXCEPT !.obj[s] = objs]
    BY <1>2 DEF RestoreObjects
  <2>2. SameKeys(db, db')
    BY <2>1 DEF Typed, SameKeys, Documents
  <2> QED BY <2>2, SameKept
<1>3. ASSUME NEW s, NEW d, NEW ls, BackupObjects(t, s, d, ls) PROVE KeysKept(db, db')
  BY <1>1, <1>3 DEF BackupObjects, BackupCommit
<1>4. CASE \/ \E d \in Domains : CreateBackupPartition(t, d)
           \/ \E pin \in Pins : BackupInit(t, pin) \/ BackupLogin(t, pin)
           \/ BackupFactoryReset(t) \/ BackupLogout(t)
  BY <1>1, <1>4 DEF CreateBackupPartition, BackupInit, BackupLogin, BackupFactoryReset,
                    BackupLogout, BackupCommit
<1>5. CASE LunaCmBackupDevice(t)
  BY <1>1, <1>5 DEF LunaCmBackupDevice, BackupConnect, BackupDisconnect, StmRecover,
                    UpgradeBackupFirmware, RollbackBackupFirmware, BackupCommit
<1> QED BY <1>2, <1>3, <1>4, <1>5 DEF BackupCommand, LunaCmBackup, LunaShTokenBackup

LEMMA PartitionStepSurvives ==
  ASSUME PartTyped, Typed(db), NEW t \in Terminals, PartitionStep(t)
  PROVE  \A s \in Slots : SurvivesAt(s)
<1>1. ASSUME KeysKept(db, db') PROVE \A s \in Slots : SurvivesAt(s)
  BY <1>1, KeptSurvives DEF KeysKept
<1>2. CASE LunaShPartition(t) \/ LunaCmPartition(t)
  <2>1. CASE LunaShPartition(t)
    BY <1>1, <2>1, EntriesKept, InitTokenKept DEF LunaShPartition
  <2>2. CASE LunaCmPartition(t)
    BY <1>1, <2>2, EntriesKept, ObjectsKept, InitTokenKept DEF LunaCmPartition, InitPartition
  <2> QED BY <1>2, <2>1, <2>2
<1>3. CASE LunaShContents(t) \/ LunaCmPolicy(t) \/ TemplateCommand(t)
  BY <1>1, <1>3, ObjectsKept, PoliciesKept DEF LunaShContents, LunaCmPolicy, TemplateCommand
<1>4. CASE LunaShDomain(t) \/ LunaCmDomain(t)
  BY <1>1, <1>4, DomainsKept DEF LunaShDomain, LunaCmDomain
<1>5. CASE LunaCmSmk(t)
  BY <1>5, MasterKeysSurvive DEF LunaCmSmk
<1>6. CASE Application(t)
  BY <1>1, <1>6, EntriesKept, ObjectsKept, MasterKeysSurvive DEF Application
<1>7. CASE FirmwareCommand(t)
  BY <1>1, <1>7, PoliciesKept DEF FirmwareCommand, RollbackFirmware
<1> QED BY <1>2, <1>3, <1>4, <1>5, <1>6, <1>7 DEF PartitionStep

\* A rollover orphans nothing: what a partition could open it opens until its
\* rollover is ended, another master key is cloned over its own, or it goes
\* (sks.py rollover_start, rollover_end, clone_smk; erasures and stopped
\* commands included).
THEOREM RolloverOrphansNothing == Spec => BlobsSurviveRollover
<1>1. ASSUME TypeInv, [Next]_vars PROVE \A s \in Slots : SurvivesAt(s)
  <2>1. PartTyped /\ Typed(db)
    BY <1>1 DEF TypeInv, ReadyInv
  <2>2. ASSUME KeysKept(db, db') PROVE \A s \in Slots : SurvivesAt(s)
    BY <2>2, KeptSurvives DEF KeysKept
  <2>3. CASE UNCHANGED vars
    <3>1. UNCHANGED db
      BY <2>3 DEF vars, partVars
    <3> QED BY <2>1, <2>2, <3>1, ErasedKept
  <2>4. ASSUME NEW t \in Terminals,
               PartitionStep(t) \/ BackupCommand(t) \/ HsmCommand(t) \/ PedCommand(t) \/ PedKey(t)
        PROVE  \A s \in Slots : SurvivesAt(s)
    BY <2>1, <2>2, <2>4, PartitionStepSurvives, BackupStepKept, HsmStepKept
  <2> QED BY <1>1, <2>3, <2>4 DEF Next
<1>2. ASSUME TypeInv, [Next]_vars
      PROVE  [\A s \in Slots, b \in blobs : Opens(db, s, b) /\ ~Opens(db', s, b) =>
                \/ db'.part[s] = None
                \/ \E r \in Slots : /\ db'.sks[s].rollover = 0
                                    /\ db'.sks[s].primary = WithSmk(db, r).sks[r].primary]_partVars
  BY <1>1, <1>2 DEF SurvivesAt, Superseded
<1> QED BY <1>2, SpecTypes, PTL DEF Spec, BlobsSurviveRollover

=============================================================================
