----------------------------- MODULE Partitions -----------------------------
(***************************************************************************)
(* Partitions and what is kept for each of their slots (hsm/token.py,      *)
(* hsm/lifecycle.py, hsm/domain.py, hsm/sks.py and hsm/policies.py): the   *)
(* partition's row, its objects, its lifecycle entry, its cloning domains, *)
(* its policies and its SKS master key.  All but row and objects are       *)
(* documents found by the slot's number, which a later partition may get.  *)
(* Each is saved on its own; a shell stopped between two saves leaves the  *)
(* earlier ones behind.  Logins of partition roles are PartitionAccess's;  *)
(* here a command is open to whoever may hold the login it asks for.       *)
(***************************************************************************)
EXTENDS Integers, FiniteSets

CONSTANTS
  Terminals,    \* running shells
  Slots,        \* slot numbers, as many as the HSM holds partitions
  Names,        \* partition names
  Pins,         \* credentials of a partition's owner
  Domains,      \* cloning domains
  OwnDomain,    \* the domain the HSM makes for itself when it has none
  Labels,       \* labels of domains, "" among them
  Keys,         \* keys, each with a label of its own
  Private,      \* those that are private keys; the others are secret keys
  CustomTemplates,  \* policy templates anyone creates
  None,         \* nothing there
  MaxSmk,       \* bound: SKS master keys ever made
  Stops         \* may a shell be stopped between two saves?

ASSUME PartitionsAssumption ==
  /\ Slots \subseteq Nat /\ Slots # {} /\ IsFiniteSet(Slots)
  /\ OwnDomain \in Domains /\ "" \in Labels /\ Private \subseteq Keys
  /\ MaxSmk \in Nat /\ Stops \in BOOLEAN
  /\ None \notin Domains /\ None \notin Pins

VARIABLES
  db,      \* the documents
  shell,   \* terminal -> what it keeps for itself
  blobs,   \* objects extracted under an SKS master key, kept outside
  dead,    \* those of them a completed erasure should have made useless (history)
  torn     \* what a stopped command left half done (history)

partVars == <<db, shell, blobs, dead, torn>>

\* The policies that other parts of this module look at, and 43, whose place in
\* the catalog is not the one its number names.
Policies == {0, 1, 4, 43, 44}

Default == [p \in Policies |-> IF p \in {0, 4, 43} THEN 1 ELSE 0]

DestructiveOn == {0, 1, 4, 43}

\* The predefined templates, as far as Policies goes.
Predefined ==
  { [p \in {} |-> 0],
    [p \in {0, 1, 4, 43} |-> IF p \in {0, 4} THEN 1 ELSE 0],
    [p \in {0, 1} |-> IF p = 0 THEN 1 ELSE 0],
    [p \in {0, 1, 4} |-> IF p = 0 THEN 0 ELSE 1],
    [p \in {0, 1, 4} |-> IF p = 1 THEN 0 ELSE 1] }

Firmwares == {"old", "new"}

\* Off, on, and whatever a custom template says, which nobody looks at.
PolicyValues == 0..1 \cup UNION {{tm[p] : p \in DOMAIN tm} : tm \in CustomTemplates}

\* 43 and 44 came with later firmware.
Supported(d, p) == d.firmware.current = "new" \/ p \notin {43, 44}

Partition == [name : Names, initialized : BOOLEAN, po : Pins \cup {None}, co : BOOLEAN]

Entry == [type : {"PPSO", "LEGACY"}, version : 0..1, active : BOOLEAN, domain : BOOLEAN]

DomainEntry == [domain : Domains, label : Labels, primary : BOOLEAN, original : BOOLEAN]

Setting == [inherit : BOOLEAN, id : Domains \cup {None}, list : SUBSET DomainEntry]

Smk == [primary : Nat, rollover : Nat]   \* rollover 0: none

Blob == [smk : Nat, key : Keys]

\* Nothing that is there is taken for missing.
ASSUME NoneAssumption ==
  None \notin Partition /\ None \notin Entry /\ None \notin Setting /\ None \notin Smk

Empty ==
  [part |-> [s \in Slots |-> None], life |-> [s \in Slots |-> None],
   dom |-> [s \in Slots |-> None], obj |-> [s \in Slots |-> {}],
   pol |-> [s \in Slots |-> Default], sks |-> [s \in Slots |-> None], nextSmk |-> 1,
   hsmDomain |-> None, templates |-> {}, firmware |-> [current |-> "new", last |-> None]]

\* A shell that has just started: so: logged in as HSM SO; plugged: the backup
\* HSM connected; backup: logged in to it.
Fresh == [so |-> FALSE, plugged |-> FALSE, backup |-> FALSE]

PartInit == db = Empty /\ shell = [t \in Terminals |-> Fresh] /\ blobs = {} /\ dead = {} /\ torn = {}

PartTypeOK ==
  /\ db.part \in [Slots -> Partition \cup {None}]
  /\ db.life \in [Slots -> Entry \cup {None}]
  /\ \A s \in Slots :
       /\ db.dom[s] # None => /\ db.dom[s].inherit \in BOOLEAN
                              /\ db.dom[s].id \in Domains \cup {None}
                              /\ db.dom[s].list \subseteq DomainEntry
       /\ db.obj[s] \subseteq Keys
       /\ db.obj[s] # {} => db.part[s] # None
  /\ db.pol \in [Slots -> [Policies -> PolicyValues]]
  /\ db.sks \in [Slots -> [primary : 1..MaxSmk, rollover : 0..MaxSmk] \cup {None}]
  /\ db.hsmDomain \in Domains \cup {None}
  /\ db.templates \subseteq CustomTemplates
  /\ shell \in [Terminals -> [so : BOOLEAN, plugged : BOOLEAN, backup : BOOLEAN]]
  /\ blobs \subseteq Blob /\ dead \subseteq blobs

\* The lifecycle entry of a partition that is gone.
Orphans(d) == IF \E s \in Slots : d.part[s] = None /\ d.life[s] # None THEN {"entry"} ELSE {}

\* A command's saves: all of them, or those before the shell was stopped.
Commit(t, final, partial) ==
  /\ UNCHANGED <<blobs, dead>>
  /\ \/ db' = final /\ UNCHANGED <<shell, torn>>
     \/ /\ Stops
        /\ db' \in partial
        /\ shell' = [shell EXCEPT ![t] = Fresh]
        /\ torn' = torn \cup Orphans(db')

Present(s) == db.part[s] # None

Populated(d, s) == d.obj[s] # {}

(***************************************************************************)
(* Lifecycle                                                               *)
(***************************************************************************)
\* A slot without an entry (its registration never happened) counts as PPSO,
\* version 0.
EntryOf(d, s) ==
  IF d.life[s] # None THEN d.life[s]
  ELSE [type |-> "PPSO", version |-> 0, active |-> TRUE, domain |-> d.part[s].initialized]

Ready(d, s) ==
  LET e == EntryOf(d, s)
      p == d.part[s] IN
  /\ p.initialized /\ e.active /\ e.domain
  /\ p.co /\ (e.type = "PPSO" => p.po # None)

FreeSlots == {s \in Slots : ~Present(s)}

\* The row is inserted before the version is looked at.
CreatePartition(t, n, type, version) ==
  LET s == CHOOSE s \in FreeSlots : \A r \in FreeSlots : s <= r
      inserted == [db EXCEPT !.part[s] = [name |-> n, initialized |-> FALSE,
                                          po |-> None, co |-> FALSE]]
      registered == [inserted EXCEPT !.life[s] = [type |-> type, version |-> version,
                                                  active |-> TRUE, domain |-> FALSE]] IN
  /\ \A r \in Slots : Present(r) => db.part[r].name # n
  /\ FreeSlots # {}
  /\ IF version \in {0, 1} THEN Commit(t, registered, {inserted}) ELSE Commit(t, inserted, {})

\* The objects stay behind.
MutantDeletePartition(t, s) ==
  Present(s) /\ Commit(t, [db EXCEPT !.part[s] = None, !.life[s] = None], {})

\* Domains, policies and master key of the slot stay.
DeletePartition(t, s) ==
  LET gone == [db EXCEPT !.part[s] = None, !.obj[s] = {}] IN
  /\ Present(s)
  /\ Commit(t, [gone EXCEPT !.life[s] = None], {gone})

SetPartitionActive(t, s, on) ==
  /\ Present(s)
  /\ Commit(t, [db EXCEPT !.life[s] = [EntryOf(db, s) EXCEPT !.active = on]], {})

\* The credential of the Crypto Officer, set by the partition's owner.
InitRole(t, s) ==
  /\ Present(s)
  /\ EntryOf(db, s).type = "PPSO" /\ db.part[s].po # None /\ ~db.part[s].co
  /\ Commit(t, [db EXCEPT !.part[s].co = TRUE], {})

(***************************************************************************)
(* Objects                                                                 *)
(***************************************************************************)
\* What an application does with the Crypto Officer's login.
CreateObject(t, s, k) ==
  /\ Present(s) /\ db.part[s].co
  /\ Commit(t, [db EXCEPT !.obj[s] = @ \cup {k}], {})

\* Objects go one at a time.
Erasing(d, s) == {[d EXCEPT !.obj[s] = left] : left \in SUBSET d.obj[s]}

ClearPartition(t, s) ==
  /\ Present(s)
  /\ Commit(t, [db EXCEPT !.obj[s] = {}], Erasing(db, s))

(***************************************************************************)
(* Cloning domains                                                         *)
(***************************************************************************)
Explicit(d) ==
  [inherit |-> FALSE, id |-> d,
   list |-> {[domain |-> d, label |-> "", primary |-> TRUE, original |-> TRUE]}]

\* The list of a partition that inherits is empty.
Inherited == [inherit |-> TRUE, id |-> None, list |-> {}]

WithHsmDomain(d) == IF d.hsmDomain = None THEN [d EXCEPT !.hsmDomain = OwnDomain] ELSE d

Inherits(d, s) == d.dom[s] # None /\ d.dom[s].inherit

DomainOf(d, s) ==
  IF d.dom[s] = None THEN None
  ELSE IF d.dom[s].inherit THEN d.hsmDomain ELSE d.dom[s].id

Listed(d, s) == IF d.dom[s] = None THEN {} ELSE {e.domain : e \in d.dom[s].list}

SharesDomain(d, r, s) == Listed(d, r) \cap Listed(d, s) # {}

ShowDomain(t) == Commit(t, WithHsmDomain(db), {})

\* Only objects that are to lose their domain are erased.
MutantClearedFor(d, s, new) == d

ClearedFor(d, s, new) ==
  IF DomainOf(d, s) # new THEN [d EXCEPT !.obj[s] = {}] ELSE d

\* Refused for a populated partition unless its erasure is confirmed.
SetPartitionDomain(t, s, choice) ==
  LET inherit == choice = None
      base == IF inherit THEN WithHsmDomain(db) ELSE db
      new  == IF inherit THEN base.hsmDomain ELSE choice
      erased == ClearedFor(base, s, new) IN
  /\ Present(s)
  /\ Commit(t, [erased EXCEPT !.dom[s] = IF inherit THEN Inherited ELSE Explicit(new)],
            {base, erased})

\* Every partition that inherits is erased with the domain's change.
SetHsmDomain(t, new) ==
  LET Affected(s) == Present(s) /\ Inherits(db, s) /\ db.hsmDomain # new
      erased == [db EXCEPT !.obj = [s \in Slots |-> IF Affected(s) THEN {} ELSE @[s]]] IN
  Commit(t, [erased EXCEPT !.hsmDomain = new], {erased})

Extended(d, s) == d.pol[s][44] = 1

AddDomain(t, s, new, label, primary) ==
  LET list == db.dom[s].list
      kept == IF primary THEN {[e EXCEPT !.primary = FALSE] : e \in list} ELSE list IN
  /\ Present(s) /\ Extended(db, s)
  /\ db.dom[s] # None /\ ~db.dom[s].inherit
  /\ Cardinality(list) < 3
  /\ \A e \in list : e.domain # new /\ e.label # label
  /\ Commit(t, [db EXCEPT
         !.dom[s].list = kept \cup {[domain |-> new, label |-> label,
                                     primary |-> primary, original |-> FALSE]},
         !.dom[s].id = IF primary THEN new ELSE @], {})

\* Only the original is spared: the primary may go, and the partition's domain
\* is then one its list no longer has.
DeleteDomain(t, s, label) ==
  /\ Present(s) /\ Extended(db, s) /\ db.dom[s] # None
  /\ \E e \in db.dom[s].list :
       /\ e.label = label /\ ~e.original
       /\ Commit(t, [db EXCEPT !.dom[s].list = @ \ {e}], {})

\* Another domain's label accepted.
MutantTaken(list, e, label) == FALSE

Taken(list, e, label) == \E f \in list \ {e} : f.label = label

ChangeDomainLabel(t, s, old, label, primary) ==
  /\ Present(s) /\ Extended(db, s) /\ db.dom[s] # None
  /\ label # ""
  /\ \E e \in db.dom[s].list :
       LET rest == db.dom[s].list \ {e} IN
       /\ e.label = old /\ ~Taken(db.dom[s].list, e, label)
       /\ Commit(t, [db EXCEPT
              !.dom[s].list = {[f EXCEPT !.primary = @ /\ ~primary] : f \in rest}
                                \cup {[e EXCEPT !.label = label, !.primary = @ \/ primary]},
              !.dom[s].id = IF primary THEN e.domain ELSE @], {})

Clonable(d, s, k) == d.pol[s][IF k \in Private THEN 0 ELSE 4] = 1

\* One object after the other; a quota that is reached ends it, too.
ClonePartition(t, r, s) ==
  /\ r # s /\ Present(r) /\ Present(s)
  /\ SharesDomain(db, r, s)
  /\ \E ks \in SUBSET {k \in db.obj[r] : Clonable(db, r, k) /\ Clonable(db, s, k)} :
       Commit(t, [db EXCEPT !.obj[s] = @ \cup ks], {})

(***************************************************************************)
(* SKS master keys                                                         *)
(***************************************************************************)
V1(d, s) == d.part[s] # None /\ EntryOf(d, s).version = 1

WithSmk(d, s) ==
  IF d.sks[s] # None THEN d
  ELSE [d EXCEPT !.sks[s] = [primary |-> d.nextSmk, rollover |-> 0], !.nextSmk = @ + 1]

Opens(d, s, b) == V1(d, s) /\ d.sks[s] # None /\ b.smk \in {d.sks[s].primary, d.sks[s].rollover}

CloneSmk(t, r, s) ==
  LET source == WithSmk(db, r) IN
  /\ V1(db, r) /\ V1(db, s) /\ SharesDomain(db, r, s)
  /\ source.nextSmk <= MaxSmk + 1
  /\ Commit(t, [source EXCEPT !.sks[s] = [primary |-> source.sks[r].primary, rollover |-> 0]],
            {source})

\* A rollover that has not ended is no obstacle.
MutantRolloverStart(t, s) ==
  LET d == WithSmk(db, s) IN
  /\ V1(db, s) /\ d.nextSmk <= MaxSmk
  /\ Commit(t, [d EXCEPT !.sks[s] = [primary |-> d.nextSmk, rollover |-> d.sks[s].primary],
                         !.nextSmk = @ + 1], {d})

RolloverStart(t, s) ==
  LET d == WithSmk(db, s) IN
  /\ V1(db, s) /\ d.nextSmk <= MaxSmk
  /\ IF d.sks[s].rollover # 0 THEN Commit(t, d, {})
     ELSE Commit(t, [d EXCEPT !.sks[s] = [primary |-> d.nextSmk, rollover |-> d.sks[s].primary],
                              !.nextSmk = @ + 1], {d})

RolloverEnd(t, s) ==
  LET d == WithSmk(db, s) IN
  /\ V1(db, s) /\ d.nextSmk <= MaxSmk + 1
  /\ Commit(t, [d EXCEPT !.sks[s].rollover = 0], {d})

Extract(t, s, k) ==
  LET d == WithSmk(db, s) IN
  /\ V1(db, s) /\ k \in db.obj[s] /\ d.nextSmk <= MaxSmk + 1
  /\ db' = d
  /\ blobs' = blobs \cup {[smk |-> d.sks[s].primary, key |-> k]}
  /\ UNCHANGED <<shell, dead, torn>>

\* A blob the partition cannot open leaves it with a master key all the same.
Insert(t, s, b) ==
  LET d == WithSmk(db, s) IN
  /\ V1(db, s) /\ d.nextSmk <= MaxSmk + 1
  /\ Commit(t, IF Opens(d, s, b) THEN [d EXCEPT !.obj[s] = @ \cup {b.key}] ELSE d, {d})

(***************************************************************************)
(* Initialization                                                          *)
(***************************************************************************)
\* The domain counts as initialized with the credential.
MutantCredential(d, s, pin) ==
  IF EntryOf(d, s).type = "LEGACY"
  THEN [d EXCEPT !.part[s].co = TRUE, !.life[s] = [EntryOf(d, s) EXCEPT !.domain = TRUE]]
  ELSE [d EXCEPT !.part[s].po = pin, !.life[s] = [EntryOf(d, s) EXCEPT !.domain = TRUE]]

\* The first credential is the owner's, or the Crypto Officer's where there is
\* no owner.
Credential(d, s, pin) ==
  LET touched == [d EXCEPT !.life[s] = EntryOf(d, s)] IN
  IF EntryOf(d, s).type = "LEGACY" THEN [touched EXCEPT !.part[s].co = TRUE]
  ELSE [touched EXCEPT !.part[s].po = pin]

\* A populated partition refuses another domain, when its credential is new
\* already; with the same domain its objects stay.
InitToken(t, s, pin, domain) ==
  LET cred == Credential(db, s, pin)
      set  == [cred EXCEPT !.part[s].initialized = TRUE]
      dom  == [set EXCEPT !.dom[s] = Explicit(domain)]
      done == [dom EXCEPT !.life[s].domain = TRUE]
      all  == IF V1(done, s) THEN WithSmk(done, s) ELSE done IN
  /\ Present(s) /\ db.nextSmk <= MaxSmk
  /\ IF Populated(db, s) /\ DomainOf(db, s) # domain THEN Commit(t, set, {cred})
     ELSE Commit(t, all, {cred, set, dom, done})

InitPartition(t, s, pin, domain) ==
  Present(s) /\ ~db.part[s].initialized /\ InitToken(t, s, pin, domain)

(***************************************************************************)
(* Policies                                                                *)
(***************************************************************************)
Destructive(p, old, new) ==
  \/ p \in {0, 1} /\ new = 1
  \/ p \in DestructiveOn /\ old = 0 /\ new = 1

Excluded(d, s, p, v) == v = 1 /\ p \in {0, 1} /\ d.pol[s][1 - p] = 1

\* Extended domain management off: the original domain alone is left.
Collapsed(d, s) ==
  IF d.dom[s] = None \/ Listed(d, s) = {} THEN d
  ELSE LET e == CHOOSE e \in d.dom[s].list : e.original IN
       [d EXCEPT !.dom[s] = [inherit |-> FALSE, id |-> e.domain,
                             list |-> {[e EXCEPT !.primary = TRUE]}]]

ChangePolicy(t, s, p, v) ==
  LET old == db.pol[s][p]
      saved == [db EXCEPT !.pol[s][p] = v]
      alone == IF p = 44 /\ old = 1 /\ v = 0 THEN Collapsed(saved, s) ELSE saved IN
  /\ Present(s) /\ Supported(db, p) /\ ~Excluded(db, s, p, v)
  /\ IF Destructive(p, old, v) THEN Commit(t, [alone EXCEPT !.obj[s] = {}], Erasing(alone, s))
     ELSE Commit(t, alone, {saved})

\* Cloning and wrapping are compared within the template only.
ValidTemplate(d, tm) ==
  /\ ~({0, 1} \subseteq DOMAIN tm /\ tm[0] = 1 /\ tm[1] = 1)
  /\ \A p \in DOMAIN tm : Supported(d, p)

CreateTemplate(t, tm) ==
  /\ ValidTemplate(db, tm)
  /\ Commit(t, [db EXCEPT !.templates = @ \cup {tm}], {})

DeleteTemplate(t, tm) == Commit(t, [db EXCEPT !.templates = @ \ {tm}], {})

\* What a template's change destroys is looked up at the place in the catalog
\* its number names, which for 43 and 44 is behind the end.
TemplateErases(d, s, tm) ==
  \E p \in DOMAIN tm : p < 8 /\ p \in DestructiveOn /\ d.pol[s][p] = 0 /\ tm[p] = 1

ApplyTemplate(t, s, tm) ==
  LET saved == [db EXCEPT !.pol[s] = [p \in Policies |-> IF p \in DOMAIN tm THEN tm[p] ELSE @[p]]] IN
  /\ Present(s) /\ ValidTemplate(db, tm)
  /\ IF TemplateErases(db, s, tm) THEN Commit(t, [saved EXCEPT !.obj[s] = {}], Erasing(saved, s))
     ELSE Commit(t, saved, {})

(***************************************************************************)
(* Firmware.  Rolling back is an upgrade to the version before the last.   *)
(***************************************************************************)
InstallFirmware(t, v) ==
  /\ v # db.firmware.current
  /\ Commit(t, [db EXCEPT !.firmware = [current |-> v, last |-> db.firmware.current]],
            {[db EXCEPT !.firmware.current = v]})

RollbackFirmware(t) == db.firmware.last # None /\ InstallFirmware(t, db.firmware.last)

(***************************************************************************)
(* Erasing every application partition                                     *)
(***************************************************************************)
\* The master keys forgotten.
MutantErased(d) ==
  [d EXCEPT !.part = Empty.part, !.obj = Empty.obj, !.dom = Empty.dom, !.life = Empty.life]

\* Policies stay with the slots' numbers.
Erased(d) ==
  [d EXCEPT !.part = Empty.part, !.obj = Empty.obj, !.dom = Empty.dom, !.life = Empty.life,
            !.sks = Empty.sks]

HalfErased(d) ==
  LET rows == {[d EXCEPT !.part = [s \in Slots |-> IF s \in gone THEN None ELSE @[s]],
                         !.obj = [s \in Slots |-> IF s \in gone THEN {} ELSE @[s]]]
                : gone \in SUBSET Slots}
      all == [d EXCEPT !.part = Empty.part, !.obj = Empty.obj, !.dom = Empty.dom] IN
  rows \cup {all, [all EXCEPT !.life = Empty.life]}

(***************************************************************************)
(* The partition commands of the two shells                                *)
(***************************************************************************)
LunaShPartition(t) ==
  /\ shell[t].so
  /\ \/ \E n \in Names, v \in 0..2 : CreatePartition(t, n, "PPSO", v)
     \/ \E s \in Slots :
          \/ DeletePartition(t, s)
          \/ \E pin \in Pins, d \in Domains \ {OwnDomain} : InitToken(t, s, pin, d)
          \/ \E on \in BOOLEAN : SetPartitionActive(t, s, on)

\* The policy command takes the first partition whatever it is given.
LunaShContents(t) ==
  /\ shell[t].so
  /\ \E s \in Slots :
       \/ ClearPartition(t, s)
       \/ \E r \in Slots : ClonePartition(t, s, r)
       \/ /\ \A r \in Slots : Present(r) => s <= r
          /\ \E p \in Policies, v \in 0..1 : ChangePolicy(t, s, p, v)

LunaShDomain(t) ==
  \/ ShowDomain(t)
  \/ /\ shell[t].so
     /\ \E d \in Domains \ {OwnDomain} :
          SetHsmDomain(t, d) \/ \E s \in Slots : SetPartitionDomain(t, s, d)
  \/ shell[t].so /\ \E s \in Slots : SetPartitionDomain(t, s, None)

LunaCmPartition(t) ==
  \/ \E n \in Names, type \in {"PPSO", "LEGACY"} : CreatePartition(t, n, type, 0)
  \/ \E s \in Slots, pin \in Pins, d \in Domains \ {OwnDomain} : InitPartition(t, s, pin, d)
  \/ \E s \in Slots : ClearPartition(t, s) \/ \E r \in Slots : ClonePartition(t, r, s)

LunaCmSmk(t) ==
  \E s \in Slots :
    \/ RolloverStart(t, s) \/ RolloverEnd(t, s)
    \/ \E r \in Slots : CloneSmk(t, r, s)

\* Adding, deleting and renaming ask for the owner's login.
LunaCmDomain(t) ==
  \E s \in Slots :
    \/ \E d \in (Domains \ {OwnDomain}) \cup {None} : SetPartitionDomain(t, s, d)
    \/ /\ Present(s) /\ db.part[s].po # None
       /\ \E l \in Labels :
            \/ DeleteDomain(t, s, l)
            \/ \E d \in Domains \ {OwnDomain}, pr \in BOOLEAN : AddDomain(t, s, d, l, pr)
            \/ \E old \in Labels, pr \in BOOLEAN : ChangeDomainLabel(t, s, old, l, pr)

LunaCmPolicy(t) ==
  \E s \in Slots, p \in Policies, v \in 0..1 : ChangePolicy(t, s, p, v)

TemplateCommand(t) ==
  \/ \E tm \in CustomTemplates : CreateTemplate(t, tm) \/ DeleteTemplate(t, tm)
  \/ \E s \in Slots, tm \in Predefined \cup db.templates : ApplyTemplate(t, s, tm)

Application(t) ==
  \E s \in Slots :
    \/ InitRole(t, s)
    \/ \E k \in Keys : CreateObject(t, s, k) \/ Extract(t, s, k)
    \/ \E b \in blobs : Insert(t, s, b)

FirmwareCommand(t) ==
  shell[t].so /\ (RollbackFirmware(t) \/ \E v \in Firmwares : InstallFirmware(t, v))

(***************************************************************************)
(* Properties                                                              *)
(***************************************************************************)
\* However domains were added, deleted, renamed, made primary and collapsed:
\* at most three, each domain and each label once, one of them the original
\* the partition can fall back to, and never two primaries.
DomainListSound ==
  \A s \in Slots : db.dom[s] # None /\ ~db.dom[s].inherit =>
    LET list == db.dom[s].list IN
    /\ Cardinality(list) \in 1..3
    /\ \A e, f \in list :
         e = f \/ (e.domain # f.domain /\ e.label # f.label /\ ~(e.primary /\ f.primary))
    /\ \E e \in list : e.original /\ \A f \in list : f.original => f = e

\* The lifecycle reports a partition READY only when its cloning domain is set,
\* although the credential, the flag and the domain are separate saves and an
\* initialization may be refused or stopped between them, and slots are used
\* again; unless a stopped deletion left its entry to a later partition.
ReadyHasDomain ==
  "entry" \notin torn =>
    \A s \in Slots : Present(s) /\ Ready(db, s) => DomainOf(db, s) # None

\* A blob a partition could open stays open to it through a rollover, until the
\* rollover is ended or a partition's master key is cloned over it (either
\* leaves the primary key of some partition alone), or the partition goes.
BlobsSurviveRollover ==
  [][\A s \in Slots, b \in blobs : Opens(db, s, b) /\ ~Opens(db', s, b) =>
       \/ db'.part[s] = None
       \/ \E r \in Slots : /\ db'.sks[s].rollover = 0
                           /\ db'.sks[s].primary = WithSmk(db, r).sks[r].primary]_partVars

\* What was extracted before an erasure ended is of no use after it: no
\* partition made later, in whichever slot, opens it.
ErasedForGood == \A b \in dead, s \in Slots : ~Opens(db, s, b)

\* Objects never find themselves among domains none of which they had: a
\* partition that changes its domain gives up its objects, also by way of
\* inheriting and of the HSM's own change.
ObjectsKeepADomain ==
  [][\A s \in Slots : db.obj[s] \cap db'.obj[s] # {} /\ DomainOf(db, s) # None =>
       (Listed(db, s) \cup {DomainOf(db, s)})
         \cap (Listed(db', s) \cup {DomainOf(db', s)}) # {}]_partVars
=============================================================================
