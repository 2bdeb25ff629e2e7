---------------------------- MODULE DomainProofs ----------------------------
(***************************************************************************)
(* Proofs about the cloning domains of HsmAdmin's partitions: their lists  *)
(* are sound, a partition that is ready has a domain, and objects keep one *)
(* of theirs.  For any terminals, slots, domains and labels, and with      *)
(* shells stopped between their saves.                                     *)
(***************************************************************************)
EXTENDS HsmAdmin, FiniteSetTheorems, TLAPS

-----------------------------------------------------------------------------
(* Lists of domains.                                                       *)

Distinct(list) ==
  \A e, f \in list :
    e = f \/ (e.domain # f.domain /\ e.label # f.label /\ ~(e.primary /\ f.primary))

OneOriginal(list) == \E e \in list : e.original /\ \A f \in list : f.original => f = e

GoodList(list) ==
  /\ list \subseteq DomainEntry
  /\ IsFiniteSet(list) /\ Cardinality(list) \in 1..3
  /\ Distinct(list) /\ OneOriginal(list)

LEMMA FirstDomain ==
  ASSUME NEW d \in Domains
  PROVE  /\ GoodList(Explicit(d).list) /\ Explicit(d).inherit = FALSE
         /\ DOMAIN Explicit(d) = {"inherit", "id", "list"}
<1> DEFINE e == [domain |-> d, label |-> "", primary |-> TRUE, original |-> TRUE]
<1>1. Explicit(d) = [inherit |-> FALSE, id |-> d, list |-> {e}]
  BY DEF Explicit
<1>2. e \in DomainEntry /\ e.original
  BY PartitionsAssumption DEF DomainEntry
<1> HIDE DEF e
<1>3. IsFiniteSet({e}) /\ Cardinality({e}) = 1
  BY FS_Singleton
<1>4. GoodList({e})
  BY <1>2, <1>3 DEF GoodList, Distinct, OneOriginal
<1> QED BY <1>1, <1>4

\* g: what becomes of each entry; none becomes primary that was not.
LEMMA Relisted ==
  ASSUME NEW list, list \subseteq DomainEntry, IsFiniteSet(list), Distinct(list),
         NEW g \in [list -> DomainEntry],
         \A e \in list : /\ g[e].domain = e.domain /\ g[e].label = e.label
                         /\ g[e].original = e.original
                         /\ g[e].primary => e.primary
  PROVE  LET others == {g[e] : e \in list} IN
         /\ others \subseteq DomainEntry
         /\ IsFiniteSet(others) /\ Cardinality(others) <= Cardinality(list)
         /\ Distinct(others)
<1> DEFINE others == {g[e] : e \in list}
<1>1. others \subseteq DomainEntry
  OBVIOUS
<1>2. g \in Surjection(list, others)
  BY DEF Surjection
<1>3. IsFiniteSet(others) /\ Cardinality(others) <= Cardinality(list)
  <2> HIDE DEF others
  <2> QED BY <1>2, FS_Surjection
<1>4. Distinct(others)
  <2> SUFFICES ASSUME NEW x \in list, NEW y \in list, g[x] # g[y]
               PROVE  /\ g[x].domain # g[y].domain /\ g[x].label # g[y].label
                      /\ ~(g[x].primary /\ g[y].primary)
    BY DEF Distinct
  <2>1. x # y
    OBVIOUS
  <2> QED BY <2>1 DEF Distinct
<1> QED BY <1>1, <1>3, <1>4

\* A list that had room, and an entry that shares nothing with it.
LEMMA Extension ==
  ASSUME NEW list, list \subseteq DomainEntry, IsFiniteSet(list), Cardinality(list) < 3,
         Distinct(list),
         NEW e \in DomainEntry, \A f \in list : /\ f.domain # e.domain /\ f.label # e.label
                                                /\ ~(e.primary /\ f.primary),
         OneOriginal(list \cup {e})
  PROVE  GoodList(list \cup {e})
<1>1. Cardinality(list) \in Nat
  BY FS_CardinalityType
<1>2. e \notin list
  OBVIOUS
<1>3. IsFiniteSet(list \cup {e}) /\ Cardinality(list \cup {e}) = Cardinality(list) + 1
  BY <1>2, FS_AddElement
<1>4. Distinct(list \cup {e})
  BY DEF Distinct
<1> QED BY <1>1, <1>3, <1>4 DEF GoodList

LEMMA AddedDomain ==
  ASSUME NEW list, GoodList(list), Cardinality(list) < 3,
         NEW d \in Domains, NEW label \in Labels, NEW primary \in BOOLEAN,
         \A e \in list : e.domain # d /\ e.label # label
  PROVE  LET others == IF primary THEN {[e EXCEPT !.primary = FALSE] : e \in list} ELSE list
         IN  GoodList(others \cup {[domain |-> d, label |-> label, primary |-> primary,
                                    original |-> FALSE]})
<1> DEFINE new == [domain |-> d, label |-> label, primary |-> primary, original |-> FALSE]
           g == [e \in list |-> [e EXCEPT !.primary = FALSE]]
           others == {g[e] : e \in list}
<1>1. /\ list \subseteq DomainEntry /\ IsFiniteSet(list) /\ Cardinality(list) \in Nat
      /\ Distinct(list) /\ OneOriginal(list)
  BY DEF GoodList
<1>2. /\ new \in DomainEntry /\ new.domain = d /\ new.label = label
      /\ new.primary = primary /\ new.original = FALSE
  BY DEF DomainEntry
<1>3. \A e \in list : /\ g[e] \in DomainEntry
                      /\ g[e].domain = e.domain /\ g[e].label = e.label
                      /\ g[e].original = e.original /\ ~g[e].primary
  BY <1>1 DEF DomainEntry
<1>4. others = {[e EXCEPT !.primary = FALSE] : e \in list} /\ g \in [list -> DomainEntry]
  BY <1>3
<1> HIDE DEF new, g
<1>5. CASE ~primary
  <2>1. OneOriginal(list \cup {new})
    BY <1>1, <1>2 DEF OneOriginal
  <2> QED BY <1>1, <1>2, <1>5, <2>1, Extension DEF new
<1>6. CASE primary
  <2>1. /\ others \subseteq DomainEntry
        /\ IsFiniteSet(others) /\ Cardinality(others) <= Cardinality(list)
        /\ Distinct(others)
    BY <1>1, <1>3, <1>4, Relisted
  <2>2. \A f \in others : /\ f.domain # new.domain /\ f.label # new.label
                          /\ ~(new.primary /\ f.primary)
    BY <1>2, <1>3
  <2>3. OneOriginal(others \cup {new})
    <3>1. PICK o \in list : o.original /\ \A f \in list : f.original => f = o
      BY <1>1 DEF OneOriginal
    <3>2. g[o].original /\ g[o] \in others
      BY <1>3, <3>1
    <3>3. \A f \in others \cup {new} : f.original => f = g[o]
      BY <1>2, <1>3, <3>1
    <3> QED BY <3>2, <3>3 DEF OneOriginal
  <2>4. Cardinality(others) < 3
    BY <1>1, <2>1, FS_CardinalityType
  <2>5. GoodList(others \cup {new})
    <3> HIDE DEF others
    <3> QED BY <1>2, <2>1, <2>2, <2>3, <2>4, Extension
  <2> QED BY <1>4, <1>6, <2>5 DEF new
<1> QED BY <1>5, <1>6

\* Never the original.
LEMMA DeletedDomain ==
  ASSUME NEW list, GoodList(list), NEW e \in list, ~e.original
  PROVE  GoodList(list \ {e})
<1>1. PICK o \in list : o.original /\ \A f \in list : f.original => f = o
  BY DEF GoodList, OneOriginal
<1>2. o \in list \ {e}
  BY <1>1
<1>3. /\ IsFiniteSet(list \ {e}) /\ Cardinality(list \ {e}) = Cardinality(list) - 1
  BY FS_RemoveElement DEF GoodList
<1>4. Cardinality(list \ {e}) # 0
  BY <1>2, <1>3, FS_EmptySet
<1>5. OneOriginal(list \ {e})
  BY <1>1, <1>2 DEF OneOriginal
<1>6. Distinct(list \ {e})
  BY DEF GoodList, Distinct
<1> QED BY <1>3, <1>4, <1>5, <1>6 DEF GoodList

\* The entry that is left alone when extended management is switched off.
LEMMA CollapsedList ==
  ASSUME NEW list, GoodList(list), NEW e \in list, e.original
  PROVE  GoodList({[e EXCEPT !.primary = TRUE]})
<1> DEFINE f == [e EXCEPT !.primary = TRUE]
<1>1. f \in DomainEntry /\ f.original
  BY DEF GoodList, DomainEntry
<1> HIDE DEF f
<1>2. IsFiniteSet({f}) /\ Cardinality({f}) = 1
  BY FS_Singleton
<1>3. GoodList({f})
  BY <1>1, <1>2 DEF GoodList, Distinct, OneOriginal
<1> QED BY <1>3 DEF f

\* new: what becomes of e; g: what becomes of each other entry.
LEMMA RenamedDomain ==
  ASSUME NEW list, GoodList(list), NEW e \in list,
         NEW g \in [list \ {e} -> DomainEntry], NEW new \in DomainEntry,
         \A f \in list \ {e} : /\ g[f].domain = f.domain /\ g[f].label = f.label
                               /\ g[f].original = f.original
                               /\ g[f].primary => f.primary
                               /\ ~(new.primary /\ g[f].primary),
         new.domain = e.domain, new.original = e.original, ~Taken(list, e, new.label)
  PROVE  GoodList({g[f] : f \in list \ {e}} \cup {new})
<1> DEFINE rest == list \ {e}
           others == {g[f] : f \in rest}
<1>1. /\ list \subseteq DomainEntry /\ IsFiniteSet(list) /\ Cardinality(list) \in 1..3
      /\ Distinct(list) /\ OneOriginal(list)
  BY DEF GoodList
<1>2. /\ rest \subseteq DomainEntry /\ Distinct(rest)
      /\ IsFiniteSet(rest) /\ Cardinality(rest) = Cardinality(list) - 1
  BY <1>1, FS_RemoveElement DEF Distinct
<1>3. /\ others \subseteq DomainEntry
      /\ IsFiniteSet(others) /\ Cardinality(others) <= Cardinality(rest)
      /\ Distinct(others)
  BY <1>2, Relisted
<1>4. \A f \in others : /\ f.domain # new.domain /\ f.label # new.label
                        /\ ~(new.primary /\ f.primary)
  <2> SUFFICES ASSUME NEW f \in rest
               PROVE  /\ g[f].domain # new.domain /\ g[f].label # new.label
                      /\ ~(new.primary /\ g[f].primary)
    OBVIOUS
  <2>1. f.domain # e.domain
    BY <1>1 DEF Distinct
  <2>2. f.label # new.label
    BY DEF Taken
  <2> QED BY <2>1, <2>2
<1>5. OneOriginal(others \cup {new})
  <2>1. PICK o \in list : o.original /\ \A f \in list : f.original => f = o
    BY <1>1 DEF OneOriginal
  <2>2. CASE o = e
    <3>1. \A f \in rest : ~g[f].original
      BY <2>1, <2>2
    <3>2. new.original
      BY <2>1, <2>2
    <3> QED BY <3>1, <3>2 DEF OneOriginal
  <2>3. CASE o # e
    <3>1. g[o].original /\ g[o] \in others
      BY <2>1, <2>3
    <3>2. ~new.original
      BY <2>1, <2>3
    <3>3. \A f \in rest : g[f].original => g[f] = g[o]
      BY <2>1
    <3> QED BY <3>1, <3>2, <3>3 DEF OneOriginal
  <2> QED BY <2>2, <2>3
<1>6. Cardinality(others) < 3
  BY <1>1, <1>2, <1>3, FS_CardinalityType
<1> HIDE DEF others
<1>7. GoodList(others \cup {new})
  BY <1>3, <1>4, <1>5, <1>6, Extension
<1> QED BY <1>7 DEF others

-----------------------------------------------------------------------------
(* The documents.                                                          *)

Documents ==
  {"part", "life", "dom", "obj", "pol", "sks", "nextSmk", "hsmDomain", "templates", "firmware"}

\* A partition that inherits has no list of its own.
GoodSetting(x) ==
  /\ {"inherit", "id", "list"} \subseteq DOMAIN x
  /\ x.inherit \in BOOLEAN
  /\ IF x.inherit THEN x.list = {} ELSE GoodList(x.list)

GoodLists(d) ==
  /\ Documents \subseteq DOMAIN d
  /\ DOMAIN d.dom = Slots
  /\ \A s \in Slots : d.dom[s] # None => GoodSetting(d.dom[s])

ListsOK == GoodLists(db)

Same(d, e) == Documents \subseteq DOMAIN e /\ e.dom = d.dom

LEMMA SameLists ==
  ASSUME NEW d, NEW e, GoodLists(d), Same(d, e)
  PROVE  GoodLists(e)
BY DEF GoodLists, Same

LEMMA CommitLists ==
  ASSUME NEW t, NEW final, NEW partial, Commit(t, final, partial),
         GoodLists(final), \A p \in partial : GoodLists(p)
  PROVE  ListsOK'
<1>1. db' = final \/ db' \in partial
  BY DEF Commit
<1>2. GoodLists(db')
  BY <1>1
<1> QED BY <1>2 DEF ListsOK, GoodLists

LEMMA CommitSame ==
  ASSUME ListsOK, NEW t, NEW final, NEW partial, Commit(t, final, partial),
         Same(db, final), \A p \in partial : Same(db, p)
  PROVE  ListsOK'
BY SameLists, CommitLists DEF ListsOK

LEMMA NewSetting ==
  ASSUME NEW d, NEW e, GoodLists(d), NEW s \in Slots, NEW x, GoodSetting(x),
         Documents \subseteq DOMAIN e, e.dom = [d.dom EXCEPT ![s] = x]
  PROVE  GoodLists(e)
BY DEF GoodLists

LEMMA FirstSettings ==
  /\ GoodSetting(Inherited)
  /\ \A d \in Domains : GoodSetting(Explicit(d))
BY FirstDomain DEF Inherited, GoodSetting

-----------------------------------------------------------------------------
(* Commands that leave the lists alone.                                    *)

LEMMA ErasingSame ==
  ASSUME NEW d, NEW s, Same(db, d)
  PROVE  \A e \in Erasing(d, s) : Same(db, e)
<1> SUFFICES ASSUME NEW left, NEW e, e = [d EXCEPT !.obj[s] = left] PROVE Same(db, e)
  BY DEF Erasing
<1> QED BY DEF Same

LEMMA WithSmkSame ==
  ASSUME NEW d, NEW s, Same(db, d)
  PROVE  Same(db, WithSmk(d, s))
<1>1. CASE WithSmk(d, s) = d
  BY <1>1
<1>2. CASE WithSmk(d, s) = [d EXCEPT !.sks[s] = [primary |-> d.nextSmk, rollover |-> 0], !.nextSmk = @ + 1]
  BY <1>2 DEF Same
<1> QED BY <1>1, <1>2 DEF WithSmk

LEMMA EntriesSame ==
  ASSUME ListsOK, NEW t
  PROVE  /\ \A n, type, v : CreatePartition(t, n, type, v) => ListsOK'
         /\ \A s : DeletePartition(t, s) => ListsOK'
         /\ \A s, on : SetPartitionActive(t, s, on) => ListsOK'
         /\ \A s : InitRole(t, s) => ListsOK'
         /\ \A s, k : CreateObject(t, s, k) => ListsOK'
         /\ \A s : ClearPartition(t, s) => ListsOK'
         /\ \A r, s : ClonePartition(t, r, s) => ListsOK'
<1> USE DEF Same
<1>0. Same(db, db)
  BY DEF ListsOK, GoodLists
<1>1. ASSUME NEW n, NEW type, NEW v, CreatePartition(t, n, type, v) PROVE ListsOK'
  <2>1. PICK r, s, e : LET inserted == [db EXCEPT !.part[s] = r] IN
          \/ Commit(t, [inserted EXCEPT !.life[s] = e], {inserted})
          \/ Commit(t, inserted, {})
    BY <1>1 DEF CreatePartition
  <2> DEFINE inserted == [db EXCEPT !.part[s] = r]
             registered == [inserted EXCEPT !.life[s] = e]
  <2>2. Same(db, inserted) /\ Same(db, registered)
    BY <1>0
  <2>3. Commit(t, registered, {inserted}) \/ Commit(t, inserted, {})
    BY <2>1
  <2> HIDE DEF Same, inserted, registered
  <2> QED BY <2>2, <2>3, CommitSame
<1>2. ASSUME NEW s, DeletePartition(t, s) PROVE ListsOK'
  <2> DEFINE gone == [db EXCEPT !.part[s] = None, !.obj[s] = {}]
             final == [gone EXCEPT !.life[s] = None]
  <2>1. Same(db, gone) /\ Same(db, final)
    BY <1>0
  <2>2. Commit(t, final, {gone})
    BY <1>2 DEF DeletePartition
  <2> HIDE DEF Same, gone, final
  <2> QED BY <1>0, <2>1, <2>2, CommitSame
<1>3. ASSUME NEW s, NEW on, SetPartitionActive(t, s, on) PROVE ListsOK'
  <2> DEFINE final == [db EXCEPT !.life[s] = [EntryOf(db, s) EXCEPT !.active = on]]
  <2>1. Same(db, final)
    BY <1>0
  <2>2. Commit(t, final, {})
    BY <1>3 DEF SetPartitionActive
  <2> HIDE DEF Same, final
  <2> QED BY <1>0, <2>1, <2>2, CommitSame
<1>4. ASSUME NEW s, InitRole(t, s) PROVE ListsOK'
  <2> DEFINE final == [db EXCEPT !.part[s].co = TRUE]
  <2>1. Same(db, final)
    BY <1>0
  <2>2. Commit(t, final, {})
    BY <1>4 DEF InitRole
  <2> HIDE DEF Same, final
  <2> QED BY <1>0, <2>1, <2>2, CommitSame
<1>5. ASSUME NEW s, NEW k, CreateObject(t, s, k) PROVE ListsOK'
  <2> DEFINE final == [db EXCEPT !.obj[s] = @ \cup {k}]
  <2>1. Same(db, final)
    BY <1>0
  <2>2. Commit(t, final, {})
    BY <1>5 DEF CreateObject
  <2> HIDE DEF Same, final
  <2> QED BY <1>0, <2>1, <2>2, CommitSame
<1>6. ASSUME NEW s, ClearPartition(t, s) PROVE ListsOK'
  <2> DEFINE final == [db EXCEPT !.obj[s] = {}]
  <2>1. Same(db, final) /\ \A e \in Erasing(db, s) : Same(db, e)
    BY <1>0, ErasingSame
  <2>2. Commit(t, final, Erasing(db, s))
    BY <1>6 DEF ClearPartition
  <2> HIDE DEF Same, final
  <2> QED BY <1>0, <2>1, <2>2, CommitSame
<1>7. ASSUME NEW r, NEW s, ClonePartition(t, r, s) PROVE ListsOK'
  <2>1. PICK ks : Commit(t, [db EXCEPT !.obj[s] = @ \cup ks], {})
    BY <1>7 DEF ClonePartition
  <2> DEFINE final == [db EXCEPT !.obj[s] = @ \cup ks]
  <2>2. Same(db, final)
    BY <1>0
  <2>3. Commit(t, final, {})
    BY <2>1
  <2> HIDE DEF Same, final
  <2> QED BY <2>2, <2>3, CommitSame
<1> QED BY <1>1, <1>2, <1>3, <1>4, <1>5, <1>6, <1>7

LEMMA MasterKeysSame ==
  ASSUME ListsOK, NEW t
  PROVE  /\ \A r, s : CloneSmk(t, r, s) => ListsOK'
         /\ \A s : RolloverStart(t, s) \/ RolloverEnd(t, s) => ListsOK'
         /\ \A s, k : Extract(t, s, k) => ListsOK'
         /\ \A s, b : Insert(t, s, b) => ListsOK'
<1>0. \A s : Same(db, WithSmk(db, s))
  BY WithSmkSame DEF Same, ListsOK, GoodLists
<1>1. ASSUME NEW r, NEW s, CloneSmk(t, r, s) PROVE ListsOK'
  <2> DEFINE d == WithSmk(db, r)
             final == [d EXCEPT !.sks[s] = [primary |-> d.sks[r].primary, rollover |-> 0]]
  <2>1. Commit(t, final, {d})
    BY <1>1 DEF CloneSmk
  <2> HIDE DEF d
  <2>2. Same(db, d) /\ Same(db, final)
    BY <1>0 DEF d, Same
  <2> HIDE DEF final
  <2> QED BY <2>1, <2>2, CommitSame
<1>2. ASSUME NEW s, RolloverStart(t, s) \/ RolloverEnd(t, s) PROVE ListsOK'
  <2> DEFINE d == WithSmk(db, s)
             started == [d EXCEPT !.sks[s] = [primary |-> d.nextSmk, rollover |-> d.sks[s].primary],
                                  !.nextSmk = @ + 1]
             ended == [d EXCEPT !.sks[s].rollover = 0]
  <2>1. Commit(t, d, {}) \/ Commit(t, started, {d}) \/ Commit(t, ended, {d})
    BY <1>2 DEF RolloverStart, RolloverEnd
  <2>2. Same(db, d)
    BY <1>0
  <2> HIDE DEF d
  <2>3. Same(db, started)
    BY <2>2 DEF Same
  <2>4. Same(db, ended)
    BY <2>2 DEF Same
  <2> HIDE DEF started, ended
  <2> QED BY <2>1, <2>2, <2>3, <2>4, CommitSame
<1>3. ASSUME NEW s, NEW k, Extract(t, s, k) PROVE ListsOK'
  <2>1. Same(db, db')
    BY <1>0, <1>3 DEF Extract
  <2>2. GoodLists(db')
    BY <2>1, SameLists DEF ListsOK
  <2> QED BY <2>2 DEF ListsOK, GoodLists
<1>4. ASSUME NEW s, NEW b, Insert(t, s, b) PROVE ListsOK'
  <2> DEFINE d == WithSmk(db, s)
             filled == [d EXCEPT !.obj[s] = @ \cup {b.key}]
  <2>1. Commit(t, filled, {d}) \/ Commit(t, d, {d})
    BY <1>4 DEF Insert
  <2>2. Same(db, d)
    BY <1>0
  <2> HIDE DEF d
  <2>3. Same(db, filled)
    BY <2>2 DEF Same
  <2> HIDE DEF filled
  <2> QED BY <2>1, <2>2, <2>3, CommitSame
<1> QED BY <1>1, <1>2, <1>3, <1>4

LEMMA PoliciesSame ==
  ASSUME ListsOK, NEW t
  PROVE  /\ \A tm : CreateTemplate(t, tm) \/ DeleteTemplate(t, tm) => ListsOK'
         /\ \A s, tm : ApplyTemplate(t, s, tm) => ListsOK'
         /\ \A v : InstallFirmware(t, v) => ListsOK'
<1> USE DEF Same
<1>0. Same(db, db)
  BY DEF ListsOK, GoodLists
<1>1. ASSUME NEW tm, CreateTemplate(t, tm) \/ DeleteTemplate(t, tm) PROVE ListsOK'
  <2> DEFINE more == [db EXCEPT !.templates = @ \cup {tm}]
             less == [db EXCEPT !.templates = @ \ {tm}]
  <2>1. Same(db, more) /\ Same(db, less)
    BY <1>0
  <2>2. Commit(t, more, {}) \/ Commit(t, less, {})
    BY <1>1 DEF CreateTemplate, DeleteTemplate
  <2> HIDE DEF Same, more, less
  <2> QED BY <1>0, <2>1, <2>2, CommitSame
<1>2. ASSUME NEW s, NEW tm, ApplyTemplate(t, s, tm) PROVE ListsOK'
  <2>1. PICK settings : LET saved == [db EXCEPT !.pol[s] = settings] IN
          Commit(t, [saved EXCEPT !.obj[s] = {}], Erasing(saved, s)) \/ Commit(t, saved, {})
    BY <1>2 DEF ApplyTemplate
  <2> DEFINE saved == [db EXCEPT !.pol[s] = settings]
             final == [saved EXCEPT !.obj[s] = {}]
  <2>2. Same(db, saved) /\ Same(db, final)
    BY <1>0
  <2>3. Commit(t, final, Erasing(saved, s)) \/ Commit(t, saved, {})
    BY <2>1
  <2> HIDE DEF Same, saved, final
  <2>4. \A e \in Erasing(saved, s) : Same(db, e)
    BY <2>2, ErasingSame
  <2> QED BY <2>2, <2>3, <2>4, CommitSame
<1>3. ASSUME NEW v, InstallFirmware(t, v) PROVE ListsOK'
  <2> DEFINE part == [db EXCEPT !.firmware.current = v]
             final == [db EXCEPT !.firmware = [current |-> v, last |-> db.firmware.current]]
  <2>1. Same(db, part) /\ Same(db, final)
    BY <1>0
  <2>2. Commit(t, final, {part})
    BY <1>3 DEF InstallFirmware
  <2> HIDE DEF Same, part, final
  <2> QED BY <1>0, <2>1, <2>2, CommitSame
<1> QED BY <1>1, <1>2, <1>3

-----------------------------------------------------------------------------
(* Commands about domains.                                                 *)

LEMMA WithHsmDomainSame == ASSUME ListsOK PROVE Same(db, db) /\ Same(db, WithHsmDomain(db))
BY DEF Same, ListsOK, GoodLists, WithHsmDomain

LEMMA SetDomainLists ==
  ASSUME ListsOK, NEW t, NEW s \in Slots, NEW c \in Domains \cup {None}, SetPartitionDomain(t, s, c)
  PROVE  ListsOK'
<1> DEFINE base == IF c = None THEN WithHsmDomain(db) ELSE db
           new == IF c = None THEN base.hsmDomain ELSE c
           erased == ClearedFor(base, s, new)
           x == IF c = None THEN Inherited ELSE Explicit(new)
           final == [erased EXCEPT !.dom[s] = x]
<1>1. Commit(t, final, {base, erased})
  BY DEF SetPartitionDomain
<1>2. GoodSetting(x)
  BY FirstSettings
<1>3. Same(db, base)
  BY WithHsmDomainSame
<1> HIDE DEF x, base, new
<1>4. Same(db, erased)
  BY <1>3 DEF Same, ClearedFor
<1> HIDE DEF erased
<1>5. GoodLists(base) /\ GoodLists(erased)
  BY <1>3, <1>4, SameLists DEF ListsOK
<1>6. GoodLists(final)
  <2>1. final.dom = [erased.dom EXCEPT ![s] = x] /\ Documents \subseteq DOMAIN final
    BY <1>4 DEF Same, Documents
  <2> HIDE DEF final
  <2> QED BY <1>2, <1>5, <2>1, NewSetting
<1> HIDE DEF final
<1> QED BY <1>1, <1>5, <1>6, CommitLists

LEMMA SetHsmDomainLists ==
  ASSUME ListsOK, NEW t, NEW d, SetHsmDomain(t, d)
  PROVE  ListsOK'
<1>1. PICK objs : LET erased == [db EXCEPT !.obj = objs] IN
        Commit(t, [erased EXCEPT !.hsmDomain = d], {erased})
  BY DEF SetHsmDomain
<1> DEFINE erased == [db EXCEPT !.obj = objs]
           final == [erased EXCEPT !.hsmDomain = d]
<1>2. Same(db, erased) /\ Same(db, final)
  BY DEF Same, ListsOK, GoodLists
<1>3. Commit(t, final, {erased})
  BY <1>1
<1> HIDE DEF erased, final
<1> QED BY <1>2, <1>3, CommitSame

\* A partition's list, its primary domain with it, replaced by a sound one.
LEMMA NewList ==
  ASSUME ListsOK, NEW t, NEW s \in Slots, db.dom[s] # None, NEW list, NEW id,
         db.dom[s].inherit \/ GoodList(list), db.dom[s].inherit => list = {},
         \/ Commit(t, [db EXCEPT !.dom[s].list = list, !.dom[s].id = id], {})
         \/ Commit(t, [db EXCEPT !.dom[s].list = list], {})
  PROVE  ListsOK'
<1>1. /\ {"inherit", "id", "list"} \subseteq DOMAIN db.dom[s]
      /\ db.dom[s].inherit \in BOOLEAN /\ DOMAIN db.dom = Slots
      /\ Documents \subseteq DOMAIN db
  BY DEF ListsOK, GoodLists, GoodSetting
<1>2. ASSUME NEW x, DOMAIN x = DOMAIN db.dom[s], x.inherit = db.dom[s].inherit, x.list = list,
             NEW d, d.dom = [db.dom EXCEPT ![s] = x], DOMAIN d = DOMAIN db
      PROVE  GoodLists(d)
  <2>1. GoodSetting(x)
    BY <1>1, <1>2 DEF GoodSetting
  <2> QED BY <1>1, <1>2, <2>1, NewSetting DEF ListsOK
<1>3. CASE Commit(t, [db EXCEPT !.dom[s].list = list], {})
  <2> DEFINE d == [db EXCEPT !.dom[s].list = list]
             x == [db.dom[s] EXCEPT !.list = list]
  <2>1. d.dom = [db.dom EXCEPT ![s] = x] /\ DOMAIN d = DOMAIN db
    BY <1>1 DEF Documents
  <2>2. DOMAIN x = DOMAIN db.dom[s] /\ x.inherit = db.dom[s].inherit /\ x.list = list
    BY <1>1
  <2>3. Commit(t, d, {})
    BY <1>3
  <2> HIDE DEF d, x
  <2>4. GoodLists(d)
    BY <1>2, <2>1, <2>2
  <2> QED BY <2>3, <2>4, CommitLists
<1>4. CASE Commit(t, [db EXCEPT !.dom[s].list = list, !.dom[s].id = id], {})
  <2> DEFINE d == [db EXCEPT !.dom[s].list = list, !.dom[s].id = id]
             x == [db.dom[s] EXCEPT !.list = list, !.id = id]
  <2>1. d.dom = [db.dom EXCEPT ![s] = x] /\ DOMAIN d = DOMAIN db
    BY <1>1 DEF Documents
  <2>2. DOMAIN x = DOMAIN db.dom[s] /\ x.inherit = db.dom[s].inherit /\ x.list = list
    BY <1>1
  <2>3. Commit(t, d, {})
    BY <1>4
  <2> HIDE DEF d, x
  <2>4. GoodLists(d)
    BY <1>2, <2>1, <2>2
  <2> QED BY <2>3, <2>4, CommitLists
<1> QED BY <1>3, <1>4

LEMMA AddDomainLists ==
  ASSUME ListsOK, NEW t, NEW s \in Slots, NEW d \in Domains, NEW l \in Labels, NEW pr \in BOOLEAN,
         AddDomain(t, s, d, l, pr)
  PROVE  ListsOK'
<1> DEFINE list == db.dom[s].list
           others == IF pr THEN {[e EXCEPT !.primary = FALSE] : e \in list} ELSE list
           longer == others \cup {[domain |-> d, label |-> l, primary |-> pr, original |-> FALSE]}
<1>1. /\ db.dom[s] # None /\ ~db.dom[s].inherit
      /\ Cardinality(list) < 3 /\ \A e \in list : e.domain # d /\ e.label # l
  BY DEF AddDomain
<1>2. PICK id : Commit(t, [db EXCEPT !.dom[s].list = longer, !.dom[s].id = id], {})
  BY DEF AddDomain
<1>3. GoodList(list)
  BY <1>1 DEF ListsOK, GoodLists, GoodSetting
<1>4. GoodList(longer)
  <2> HIDE DEF list
  <2> QED BY <1>1, <1>3, AddedDomain
<1> HIDE DEF longer
<1> QED BY <1>1, <1>2, <1>4, NewList

LEMMA DeleteDomainLists ==
  ASSUME ListsOK, NEW t, NEW s \in Slots, NEW l, DeleteDomain(t, s, l)
  PROVE  ListsOK'
<1> DEFINE list == db.dom[s].list
<1>1. PICK e \in list : ~e.original /\ Commit(t, [db EXCEPT !.dom[s].list = @ \ {e}], {})
  BY DEF DeleteDomain
<1> DEFINE shorter == list \ {e}
<1>2. db.dom[s] # None /\ Commit(t, [db EXCEPT !.dom[s].list = shorter], {})
  BY <1>1 DEF DeleteDomain
<1>3. db.dom[s].inherit \in BOOLEAN /\ (IF db.dom[s].inherit THEN list = {} ELSE GoodList(list))
  BY <1>2 DEF ListsOK, GoodLists, GoodSetting
<1>4. ~db.dom[s].inherit /\ GoodList(shorter)
  <2> HIDE DEF list
  <2> QED BY <1>1, <1>3, DeletedDomain
<1> HIDE DEF shorter
<1> QED BY <1>2, <1>4, NewList

LEMMA RenameDomainLists ==
  ASSUME ListsOK, NEW t, NEW s \in Slots, NEW old, NEW l \in Labels, NEW pr \in BOOLEAN,
         ChangeDomainLabel(t, s, old, l, pr)
  PROVE  ListsOK'
<1> DEFINE list == db.dom[s].list
<1>1. PICK e \in list :
        /\ ~Taken(list, e, l)
        /\ Commit(t, [db EXCEPT
             !.dom[s].list = {[f EXCEPT !.primary = @ /\ ~pr] : f \in list \ {e}}
                               \cup {[e EXCEPT !.label = l, !.primary = @ \/ pr]},
             !.dom[s].id = IF pr THEN e.domain ELSE @], {})
  BY DEF ChangeDomainLabel
<1> DEFINE renamed == {[f EXCEPT !.primary = @ /\ ~pr] : f \in list \ {e}}
                        \cup {[e EXCEPT !.label = l, !.primary = @ \/ pr]}
<1>2. PICK id : Commit(t, [db EXCEPT !.dom[s].list = renamed, !.dom[s].id = id], {})
  BY <1>1
<1>3. db.dom[s] # None
  BY DEF ChangeDomainLabel
<1>4. db.dom[s].inherit \in BOOLEAN /\ (IF db.dom[s].inherit THEN list = {} ELSE GoodList(list))
  BY <1>3 DEF ListsOK, GoodLists, GoodSetting
<1>5. db.dom[s].inherit = FALSE /\ GoodList(list)
  BY <1>1, <1>4
<1>6. GoodList(renamed)
  <2> DEFINE g == [f \in list \ {e} |-> [f EXCEPT !.primary = @ /\ ~pr]]
             new == [e EXCEPT !.label = l, !.primary = @ \/ pr]
  <2>1. list \subseteq DomainEntry /\ Distinct(list) /\ ~Taken(list, e, l)
    BY <1>1, <1>5 DEF GoodList
  <2> HIDE DEF list
  <2>2. /\ new \in DomainEntry /\ new.domain = e.domain /\ new.label = l
        /\ new.original = e.original
        /\ new.primary => e.primary \/ pr
    BY <2>1 DEF DomainEntry
  <2>3. \A f \in list \ {e} : /\ g[f] \in DomainEntry
                              /\ g[f].domain = f.domain /\ g[f].label = f.label
                              /\ g[f].original = f.original
                              /\ g[f].primary => f.primary /\ ~pr
    BY <2>1 DEF DomainEntry
  <2>4. \A f \in list \ {e} : g[f] = [f EXCEPT !.primary = @ /\ ~pr]
    OBVIOUS
  <2>5. g \in [list \ {e} -> DomainEntry]
    BY <2>3
  <2>6. renamed = {g[f] : f \in list \ {e}} \cup {new}
    BY <2>4
  <2> HIDE DEF g, new, renamed
  <2>7. \A f \in list \ {e} : /\ g[f].domain = f.domain /\ g[f].label = f.label
                              /\ g[f].original = f.original
                              /\ g[f].primary => f.primary
                              /\ ~(new.primary /\ g[f].primary)
    BY <2>1, <2>2, <2>3 DEF Distinct
  <2>8. /\ new \in DomainEntry /\ new.domain = e.domain /\ new.original = e.original
        /\ ~Taken(list, e, new.label) /\ GoodList(list)
    BY <1>5, <2>1, <2>2
  <2>9. GoodList({g[f] : f \in list \ {e}} \cup {new})
    BY <2>5, <2>7, <2>8, RenamedDomain
  <2> QED BY <2>6, <2>9
<1> HIDE DEF renamed
<1> QED BY <1>2, <1>3, <1>5, <1>6, NewList

LEMMA CollapsedLists ==
  ASSUME NEW d, NEW s \in Slots, GoodLists(d)
  PROVE  GoodLists(Collapsed(d, s))
<1>1. CASE d.dom[s] = None \/ Listed(d, s) = {}
  BY <1>1 DEF Collapsed
<1>2. CASE d.dom[s] # None /\ Listed(d, s) # {}
  <2> DEFINE list == d.dom[s].list
             e == CHOOSE e \in list : e.original
             x == [inherit |-> FALSE, id |-> e.domain, list |-> {[e EXCEPT !.primary = TRUE]}]
             c == [d EXCEPT !.dom[s] = x]
  <2>1. Collapsed(d, s) = c
    BY <1>2 DEF Collapsed
  <2>2. list # {}
    BY <1>2 DEF Listed
  <2>3. GoodList(list)
    BY <1>2, <2>2 DEF GoodLists, GoodSetting
  <2>4. e \in list /\ e.original
    <3> HIDE DEF list
    <3> QED BY <2>3 DEF GoodList, OneOriginal
  <2> HIDE DEF list, e
  <2>5. GoodSetting(x)
    BY <2>3, <2>4, CollapsedList DEF GoodSetting
  <2> HIDE DEF x
  <2>6. c.dom = [d.dom EXCEPT ![s] = x] /\ Documents \subseteq DOMAIN c
    BY DEF GoodLists, Documents
  <2> HIDE DEF c
  <2> QED BY <2>1, <2>5, <2>6, NewSetting
<1> QED BY <1>1, <1>2

LEMMA ChangePolicyLists ==
  ASSUME ListsOK, NEW t, NEW s \in Slots, NEW p, NEW v, ChangePolicy(t, s, p, v)
  PROVE  ListsOK'
<1> DEFINE saved == [db EXCEPT !.pol[s][p] = v]
           alone == IF p = 44 /\ db.pol[s][p] = 1 /\ v = 0 THEN Collapsed(saved, s) ELSE saved
           final == [alone EXCEPT !.obj[s] = {}]
<1>1. Commit(t, final, Erasing(alone, s)) \/ Commit(t, alone, {saved})
  BY DEF ChangePolicy
<1>2. Same(db, saved)
  BY DEF Same, ListsOK, GoodLists
<1> HIDE DEF saved
<1>3. GoodLists(saved) /\ GoodLists(alone)
  BY <1>2, SameLists, CollapsedLists DEF ListsOK
<1> HIDE DEF alone
<1>4. GoodLists(final)
  <2>1. Documents \subseteq DOMAIN final /\ final.dom = alone.dom
    BY <1>3 DEF GoodLists, Documents
  <2> HIDE DEF final
  <2> QED BY <1>3, <2>1 DEF GoodLists
<1>5. \A e \in Erasing(alone, s) : GoodLists(e)
  <2> SUFFICES ASSUME NEW left, NEW e, e = [alone EXCEPT !.obj[s] = left] PROVE GoodLists(e)
    BY DEF Erasing
  <2>1. Documents \subseteq DOMAIN e /\ e.dom = alone.dom
    BY <1>3 DEF GoodLists, Documents
  <2> QED BY <1>3, <2>1 DEF GoodLists
<1> HIDE DEF final
<1> QED BY <1>1, <1>3, <1>4, <1>5, CommitLists

LEMMA InitTokenLists ==
  ASSUME ListsOK, NEW t, NEW s \in Slots, NEW pin, NEW dm \in Domains, InitToken(t, s, pin, dm)
  PROVE  ListsOK'
<1> DEFINE cred == Credential(db, s, pin)
           set  == [cred EXCEPT !.part[s].initialized = TRUE]
           dom  == [set EXCEPT !.dom[s] = Explicit(dm)]
           done == [dom EXCEPT !.life[s].domain = TRUE]
           all  == IF V1(done, s) THEN WithSmk(done, s) ELSE done
<1>1. Commit(t, set, {cred}) \/ Commit(t, all, {cred, set, dom, done})
  BY DEF InitToken
<1>2. Same(db, cred)
  <2> DEFINE touched == [db EXCEPT !.life[s] = EntryOf(db, s)]
  <2>1. \/ cred = [touched EXCEPT !.part[s].co = TRUE]
        \/ cred = [touched EXCEPT !.part[s].po = pin]
    BY DEF Credential
  <2>2. Same(db, touched)
    BY DEF Same, ListsOK, GoodLists
  <2> HIDE DEF cred, touched
  <2>3. CASE cred = [touched EXCEPT !.part[s].co = TRUE]
    BY <2>2, <2>3 DEF Same
  <2>4. CASE cred = [touched EXCEPT !.part[s].po = pin]
    BY <2>2, <2>4 DEF Same
  <2> QED BY <2>1, <2>3, <2>4
<1> HIDE DEF cred
<1>3. Same(db, set)
  BY <1>2 DEF Same
<1> HIDE DEF set
<1>4. GoodLists(cred) /\ GoodLists(set)
  BY <1>2, <1>3, SameLists DEF ListsOK
<1>5. GoodLists(dom)
  <2>1. dom.dom = [set.dom EXCEPT ![s] = Explicit(dm)] /\ Documents \subseteq DOMAIN dom
    BY <1>3 DEF Same, Documents
  <2> HIDE DEF dom
  <2> QED BY <1>4, <2>1, FirstSettings, NewSetting
<1> HIDE DEF dom
<1>6. GoodLists(done)
  <2>1. done.dom = dom.dom /\ Documents \subseteq DOMAIN done
    BY <1>5 DEF GoodLists, Documents
  <2> HIDE DEF done
  <2> QED BY <1>5, <2>1 DEF GoodLists
<1> HIDE DEF done
<1>7. GoodLists(all)
  <2>1. CASE all = done
    BY <1>6, <2>1
  <2>2. CASE all = [done EXCEPT !.sks[s] = [primary |-> done.nextSmk, rollover |-> 0],
                                !.nextSmk = @ + 1]
    <3>1. all.dom = done.dom /\ Documents \subseteq DOMAIN all
      BY <1>6, <2>2 DEF GoodLists, Documents
    <3> HIDE DEF all
    <3> QED BY <1>6, <3>1 DEF GoodLists
  <2> QED BY <2>1, <2>2 DEF WithSmk
<1> HIDE DEF all
<1> QED BY <1>1, <1>4, <1>5, <1>6, <1>7, CommitLists

LEMMA PartitionStepLists ==
  ASSUME ListsOK, NEW t, PartitionStep(t)
  PROVE  ListsOK'
<1>1. CASE LunaShPartition(t) \/ LunaShContents(t) \/ LunaCmPartition(t)
  BY <1>1, EntriesSame, InitTokenLists, ChangePolicyLists
     DEF LunaShPartition, LunaShContents, LunaCmPartition, InitPartition
<1>2. CASE LunaShDomain(t)
  <2>1. ASSUME ShowDomain(t) PROVE ListsOK'
    BY <2>1, WithHsmDomainSame, CommitSame DEF ShowDomain
  <2> QED BY <1>2, <2>1, SetDomainLists, SetHsmDomainLists DEF LunaShDomain
<1>3. CASE LunaCmDomain(t)
  BY <1>3, SetDomainLists, AddDomainLists, DeleteDomainLists, RenameDomainLists DEF LunaCmDomain
<1>4. CASE LunaCmSmk(t)
  BY <1>4, MasterKeysSame DEF LunaCmSmk
<1>5. CASE LunaCmPolicy(t) \/ TemplateCommand(t)
  BY <1>5, ChangePolicyLists, PoliciesSame DEF LunaCmPolicy, TemplateCommand
<1>6. CASE Application(t)
  BY <1>6, EntriesSame, MasterKeysSame DEF Application
<1>7. CASE FirmwareCommand(t)
  BY <1>7, PoliciesSame DEF FirmwareCommand, RollbackFirmware
<1> QED BY <1>1, <1>2, <1>3, <1>4, <1>5, <1>6, <1>7 DEF PartitionStep

-----------------------------------------------------------------------------
(* The HSM's commands and the backup HSM's.                                *)

LEMMA ErasedLists ==
  ASSUME ListsOK
  PROVE  /\ GoodLists(Erased(db))
         /\ \A d \in HalfErased(db) : GoodLists(d)
<1>0. Documents \subseteq DOMAIN db
  BY DEF ListsOK, GoodLists
<1>1. Empty.dom = [s \in Slots |-> None]
  BY DEF Empty
<1>2. ASSUME NEW d, Documents \subseteq DOMAIN d, d.dom = Empty.dom PROVE GoodLists(d)
  BY <1>1, <1>2 DEF GoodLists
<1>3. GoodLists(Erased(db))
  <2>1. Documents \subseteq DOMAIN Erased(db) /\ Erased(db).dom = Empty.dom
    BY <1>0 DEF Erased, Documents
  <2> QED BY <1>2, <2>1
<1>4. ASSUME NEW d \in HalfErased(db) PROVE GoodLists(d)
  <2> DEFINE all == [db EXCEPT !.part = Empty.part, !.obj = Empty.obj, !.dom = Empty.dom]
             last == [all EXCEPT !.life = Empty.life]
  <2>1. \/ d = all \/ d = last
        \/ \E rows, objs : d = [db EXCEPT !.part = rows, !.obj = objs]
    BY DEF HalfErased
  <2>2. Documents \subseteq DOMAIN all /\ all.dom = Empty.dom
    BY <1>0 DEF Documents
  <2> HIDE DEF all
  <2>3. Documents \subseteq DOMAIN last /\ last.dom = Empty.dom
    BY <2>2 DEF Documents
  <2> HIDE DEF last
  <2>4. ASSUME NEW rows, NEW objs, d = [db EXCEPT !.part = rows, !.obj = objs] PROVE GoodLists(d)
    <3>1. Same(db, d)
      BY <1>0, <2>4 DEF Same
    <3> QED BY <3>1, SameLists DEF ListsOK
  <2> QED BY <1>2, <2>1, <2>2, <2>3, <2>4
<1> QED BY <1>3, <1>4

\* All that CommitAll may leave of the partitions' documents.
LEMMA ResultLists ==
  ASSUME NEW d, NEW partial, db' = d \/ (\E p \in partial : db' = p[1]),
         GoodLists(d), \A p \in partial : GoodLists(p[1])
  PROVE  ListsOK'
<1>1. GoodLists(db')
  OBVIOUS
<1> QED BY <1>1 DEF ListsOK, GoodLists

LEMMA SaveLists ==
  ASSUME ListsOK, NEW t, NEW a, NEW first, NEW loggedIn,
         SaveAdmin(t, a, loggedIn) \/ SaveAfter(t, first, a, loggedIn)
  PROVE  ListsOK'
<1>1. db' = db
  BY DEF SaveAdmin, SaveAfter, CommitAll
<1> QED BY <1>1 DEF ListsOK, GoodLists

LEMMA EraseLists ==
  ASSUME ListsOK, NEW t,
         \/ \E a : ZeroizeFrom(t, a)
         \/ FactoryReset(t)
         \/ \E mode, pin : HsmInit(t, mode, pin)
         \/ \E v : ChangeHsmPolicy(t, v)
  PROVE  ListsOK'
<1> DEFINE end == [Erased(db) EXCEPT !.hsmDomain = None]
<1>1. GoodLists(end)
  <2>1. Documents \subseteq DOMAIN end /\ end.dom = Erased(db).dom
    BY ErasedLists DEF GoodLists, Documents
  <2> HIDE DEF end
  <2> QED BY <2>1, ErasedLists DEF GoodLists
<1>2. db' \in HalfErased(db) \cup {db, Erased(db), end}
  <2>1. ASSUME NEW a, ZeroizeFrom(t, a) PROVE db' \in HalfErased(db) \cup {Erased(db)}
    BY <2>1 DEF ZeroizeFrom, CommitAll
  <2>2. CASE FactoryReset(t)
    BY <2>2 DEF FactoryReset, CommitAll
  <2>3. ASSUME NEW mode, NEW pin, HsmInit(t, mode, pin) PROVE db' \in HalfErased(db) \cup {Erased(db)}
    BY <2>3 DEF HsmInit, CommitAll
  <2>4. ASSUME NEW v, ChangeHsmPolicy(t, v) PROVE db' \in HalfErased(db) \cup {db, Erased(db)}
    BY <2>4 DEF ChangeHsmPolicy, SaveAdmin, CommitAll
  <2> QED BY <2>1, <2>2, <2>3, <2>4
<1> HIDE DEF end
<1>3. GoodLists(db')
  BY <1>1, <1>2, ErasedLists DEF ListsOK
<1> QED BY <1>3 DEF ListsOK, GoodLists

LEMMA HsmStepLists ==
  ASSUME ListsOK, NEW t, HsmCommand(t) \/ PedCommand(t) \/ PedKey(t)
  PROVE  ListsOK'
<1>1. ASSUME UNCHANGED db PROVE ListsOK'
  BY <1>1 DEF ListsOK, GoodLists
<1>2. CASE PedCommand(t) \/ PedKey(t)
  BY <1>1, <1>2
     DEF PedCommand, PedKey, ConnectPed, DisconnectPed, CreateKeySet, DuplicateKey, LoseKey,
         SaveAdmin, CommitAll
<1>3. CASE HsmLoginPed(t) \/ HsmLogout(t) \/ HsmInitAborted(t)
  BY <1>1, <1>3 DEF HsmLoginPed, HsmLogout, HsmInitAborted, SaveAdmin, CommitAll
<1>4. ASSUME NEW pin, HsmLogin(t, pin) PROVE ListsOK'
  <2> DEFINE a == Migrated
  <2>1. \/ SaveAdmin(t, a, FALSE)
        \/ SaveAfter(t, a, [a EXCEPT !.hsm.failed = 0], TRUE)
        \/ Failed(t, a)
    BY <1>4 DEF HsmLogin
  <2> HIDE DEF a
  <2>2. CASE Failed(t, a)
    BY <2>2, SaveLists, EraseLists DEF Failed
  <2> QED BY <1>1, <2>1, <2>2 DEF SaveAdmin, SaveAfter, CommitAll
<1>5. ASSUME NEW v, ChangeHsmPolicy(t, v) PROVE ListsOK'
  BY <1>5, EraseLists
<1>6. ASSUME NEW mode, NEW pin, HsmInit(t, mode, pin) PROVE ListsOK'
  BY <1>6, EraseLists
<1>7. CASE FactoryReset(t) \/ Zeroize(t)
  BY <1>7, EraseLists DEF Zeroize
<1> QED BY <1>2, <1>3, <1>4, <1>5, <1>6, <1>7 DEF HsmCommand

LEMMA BackupLists ==
  ASSUME ListsOK, NEW t, BackupCommand(t)
  PROVE  ListsOK'
<1>1. ASSUME UNCHANGED db PROVE ListsOK'
  BY <1>1 DEF ListsOK, GoodLists
<1>2. ASSUME NEW s, NEW d, NEW ls, RestoreObjects(t, s, d, ls) PROVE ListsOK'
  <2>1. PICK objs : db' = [db EXCEPT !.obj[s] = objs]
    BY <1>2 DEF RestoreObjects
  <2>2. Same(db, db')
    BY <2>1 DEF Same, ListsOK, GoodLists
  <2>3. GoodLists(db')
    BY <2>2, SameLists DEF ListsOK
  <2> QED BY <2>3 DEF ListsOK, GoodLists
<1>3. ASSUME NEW s, NEW d, NEW ls, BackupObjects(t, s, d, ls) PROVE ListsOK'
  BY <1>1, <1>3 DEF BackupObjects, BackupCommit
<1>4. CASE \/ \E d \in Domains : CreateBackupPartition(t, d)
           \/ \E pin \in Pins : BackupInit(t, pin) \/ BackupLogin(t, pin)
           \/ BackupFactoryReset(t) \/ BackupLogout(t)
  BY <1>1, <1>4 DEF CreateBackupPartition, BackupInit, BackupLogin, BackupFactoryReset,
                    BackupLogout, BackupCommit
<1>5. CASE LunaCmBackupDevice(t)
  BY <1>1, <1>5 DEF LunaCmBackupDevice, BackupConnect, BackupDisconnect, StmRecover,
                    UpgradeBackupFirmware, RollbackBackupFirmware, BackupCommit
<1> QED BY <1>2, <1>3, <1>4, <1>5 DEF BackupCommand, LunaCmBackup, LunaShTokenBackup

LEMMA ListsStart == Init => ListsOK
<1> SUFFICES ASSUME Init PROVE ListsOK
  OBVIOUS
<1>1. db = Empty
  BY DEF Init, PartInit
<1>2. Documents \subseteq DOMAIN Empty /\ Empty.dom = [s \in Slots |-> None]
  BY DEF Empty, Documents
<1> QED BY <1>1, <1>2 DEF ListsOK, GoodLists

LEMMA ListsStep ==
  ASSUME ListsOK, [Next]_vars
  PROVE  ListsOK'
<1>1. CASE UNCHANGED vars
  BY <1>1 DEF vars, partVars, ListsOK, GoodLists
<1> QED BY <1>1, PartitionStepLists, BackupLists, HsmStepLists DEF Next

\* However domains are added, deleted, renamed, made primary, inherited and
\* collapsed, and wherever a shell is stopped: one to three domains, each domain
\* and label once, one original, at most one primary (DomainManager.add_domain,
\* delete_domain, change_domain_label, set_partition_domain, and change_policy
\* of token.py when policy 44 is turned off).
THEOREM DomainListAlwaysSound == Spec => []DomainListSound
<1>1. ListsOK /\ [Next]_vars => ListsOK'
  BY ListsStep
<1>2. ListsOK => DomainListSound
  <2> SUFFICES ASSUME ListsOK, NEW s \in Slots, db.dom[s] # None, ~db.dom[s].inherit
               PROVE  /\ Cardinality(db.dom[s].list) \in 1..3
                      /\ Distinct(db.dom[s].list) /\ OneOriginal(db.dom[s].list)
    BY DEF DomainListSound, Distinct, OneOriginal
  <2> QED BY DEF ListsOK, GoodLists, GoodSetting, GoodList
<1> QED BY ListsStart, <1>1, <1>2, PTL DEF Spec

-----------------------------------------------------------------------------
(* The documents and what a command may do to them.                        *)

Typed(d) ==
  /\ Documents \subseteq DOMAIN d
  /\ d.part \in [Slots -> Partition \cup {None}]
  /\ d.life \in [Slots -> Entry \cup {None}]
  /\ d.dom \in [Slots -> Setting \cup {None}]
  /\ d.hsmDomain \in Domains \cup {None}
  /\ DOMAIN d.obj = Slots
  /\ \A s \in Slots : d.part[s] = None => d.obj[s] = {}

\* An entry belongs to a partition; a domain is claimed by an entry that has one.
SoundAt(d, s) ==
  IF d.part[s] = None THEN d.life[s] = None
  ELSE IF d.life[s] = None THEN ~d.part[s].initialized
  ELSE d.life[s].domain => DomainOf(d, s) # None

Sound(d) == \A s \in Slots : SoundAt(d, s)

DomainsOf(d, s) == Listed(d, s) \cup {DomainOf(d, s)}

KeepsAt(d, e, s) ==
  d.obj[s] \cap e.obj[s] # {} /\ DomainOf(d, s) # None
    => DomainsOf(d, s) \cap DomainsOf(e, s) # {}

Keeps(d, e) == \A s \in Slots : KeepsAt(d, e, s)

\* e is what a command makes of d; or what it has saved of it when stopped.
Follows(d, e) == Typed(e) /\ Keeps(d, e) /\ (Sound(d) => Sound(e))

Stopped(d, e) == Typed(e) /\ Keeps(d, e) /\ (Sound(d) => Sound(e) \/ "entry" \in Orphans(e))

Result ==
  /\ Typed(db') /\ Keeps(db, db')
  /\ torn \subseteq torn'
  /\ Sound(db) => Sound(db') \/ "entry" \in torn'

LEMMA FollowsStops == ASSUME NEW d, NEW e, Follows(d, e) PROVE Stopped(d, e)
BY DEF Follows, Stopped

LEMMA CommitResult ==
  ASSUME NEW t, NEW final, NEW partial, Commit(t, final, partial),
         Follows(db, final), \A p \in partial : Stopped(db, p)
  PROVE  Result
<1>1. CASE db' = final /\ UNCHANGED torn
  <2> SUFFICES Follows(db, db')
    BY <1>1 DEF Follows, Result
  <2> QED BY <1>1
<1>2. CASE db' \in partial /\ torn' = torn \cup Orphans(db')
  <2>1. Stopped(db, db')
    BY <1>2
  <2> QED BY <1>2, <2>1 DEF Stopped, Result
<1> QED BY <1>1, <1>2 DEF Commit

\* The HSM's domain may come where none was.
HsmKept(d, e) ==
  /\ e.hsmDomain \in Domains \cup {None}
  /\ d.hsmDomain # None => e.hsmDomain = d.hsmDomain

LEMMA DomainKept ==
  ASSUME NEW d, NEW e, HsmKept(d, e), NEW s, e.dom[s] = d.dom[s], DomainOf(d, s) # None
  PROVE  DomainOf(e, s) = DomainOf(d, s)
BY DEF HsmKept, DomainOf

\* Objects apart, nothing but policies and master keys.
LEMMA Alike ==
  ASSUME NEW d, NEW e, Typed(d), Documents \subseteq DOMAIN e,
         e.part = d.part, e.life = d.life, e.dom = d.dom, HsmKept(d, e),
         DOMAIN e.obj = Slots, \A s \in Slots : d.part[s] = None => e.obj[s] = {}
  PROVE  Follows(d, e)
<1>1. Typed(e)
  BY DEF Typed, HsmKept
<1>2. \A s : DomainOf(d, s) # None => DomainOf(e, s) = DomainOf(d, s)
  BY DomainKept
<1>3. Keeps(d, e)
  BY <1>2 DEF Keeps, KeepsAt, DomainsOf
<1>4. Sound(d) => Sound(e)
  BY <1>2 DEF Sound, SoundAt
<1> QED BY <1>1, <1>3, <1>4 DEF Follows

\* One partition's row and entry.
LEMMA Edited ==
  ASSUME NEW d, NEW e, Typed(d), Documents \subseteq DOMAIN e, NEW s \in Slots,
         NEW row \in Partition, NEW entry \in Entry \cup {None},
         e.part = [d.part EXCEPT ![s] = row], e.life = [d.life EXCEPT ![s] = entry],
         e.dom = d.dom, e.hsmDomain = d.hsmDomain, e.obj = d.obj,
         Sound(d) => IF entry = None THEN ~row.initialized
                     ELSE entry.domain => DomainOf(d, s) # None
  PROVE  Follows(d, e)
<1>1. Typed(e)
  BY NoneAssumption DEF Typed
<1>2. \A r : DomainOf(e, r) = DomainOf(d, r)
  BY DEF DomainOf
<1>3. Keeps(d, e)
  BY <1>2 DEF Keeps, KeepsAt, DomainsOf
<1>4. ASSUME Sound(d), NEW r \in Slots PROVE SoundAt(e, r)
  <2>1. CASE r = s
    <3>1. e.part[s] = row /\ row # None /\ e.life[s] = entry
      BY NoneAssumption DEF Typed
    <3> QED BY <1>2, <1>4, <2>1, <3>1 DEF SoundAt
  <2>2. CASE r # s
    <3>1. e.part[r] = d.part[r] /\ e.life[r] = d.life[r]
      BY <2>2 DEF Typed
    <3> QED BY <1>2, <1>4, <3>1 DEF Sound, SoundAt
  <2> QED BY <2>1, <2>2
<1>5. Sound(d) => Sound(e)
  BY <1>4 DEF Sound
<1> QED BY <1>1, <1>3, <1>5 DEF Follows

\* One partition's domains.
LEMMA NewDomains ==
  ASSUME NEW d, NEW e, Typed(d), Documents \subseteq DOMAIN e, NEW s \in Slots,
         NEW x \in Setting, e.dom = [d.dom EXCEPT ![s] = x], HsmKept(d, e),
         e.part = d.part, e.life = d.life,
         DOMAIN e.obj = Slots, \A r \in Slots : d.part[r] = None => e.obj[r] = {},
         DomainOf(d, s) # None => DomainOf(e, s) # None, KeepsAt(d, e, s)
  PROVE  Follows(d, e)
<1>1. Typed(e)
  BY DEF Typed, HsmKept
<1>2. ASSUME NEW r \in Slots, r # s
      PROVE  e.dom[r] = d.dom[r] /\ (DomainOf(d, r) # None => DomainOf(e, r) = DomainOf(d, r))
  <2>1. e.dom[r] = d.dom[r]
    BY <1>2 DEF Typed
  <2> QED BY <2>1, DomainKept, ZenonT(40)
<1>3. Keeps(d, e)
  <2> SUFFICES ASSUME NEW r \in Slots, r # s, DomainOf(d, r) # None
               PROVE  DomainsOf(d, r) \cap DomainsOf(e, r) # {}
    BY DEF Keeps, KeepsAt
  <2> QED BY <1>2 DEF DomainsOf
<1>4. Sound(d) => Sound(e)
  <2> SUFFICES ASSUME Sound(d), NEW r \in Slots PROVE SoundAt(e, r)
    BY DEF Sound
  <2>1. SoundAt(d, r) /\ (DomainOf(d, r) # None => DomainOf(e, r) # None)
    BY <1>2 DEF Sound
  <2> QED BY <2>1 DEF SoundAt
<1> QED BY <1>1, <1>3, <1>4 DEF Follows

-----------------------------------------------------------------------------
(* Partitions and objects.                                                 *)

LEMMA EntryThere ==
  ASSUME NEW d, Typed(d), NEW s \in Slots, d.part[s] # None
  PROVE  /\ d.part[s] \in Partition
         /\ EntryOf(d, s) \in Entry
         /\ Sound(d) /\ EntryOf(d, s).domain => DomainOf(d, s) # None
<1>1. d.part[s] \in Partition /\ d.life[s] \in Entry \cup {None}
  BY DEF Typed
<1>2. CASE d.life[s] # None
  BY <1>1, <1>2 DEF EntryOf, Sound, SoundAt
<1>3. CASE d.life[s] = None
  <2>1. EntryOf(d, s) = [type |-> "PPSO", version |-> 0, active |-> TRUE,
                         domain |-> d.part[s].initialized]
    BY <1>3 DEF EntryOf
  <2>2. d.part[s].initialized \in BOOLEAN
    BY <1>1 DEF Partition
  <2>3. EntryOf(d, s) \in Entry /\ EntryOf(d, s).domain = d.part[s].initialized
    BY <2>1, <2>2 DEF Entry
  <2> QED BY <1>1, <1>3, <2>3 DEF Sound, SoundAt
<1> QED BY <1>2, <1>3

LEMMA CreatePartitionResult ==
  ASSUME Typed(db), NEW t, NEW n \in Names, NEW type \in {"PPSO", "LEGACY"}, NEW v,
         CreatePartition(t, n, type, v)
  PROVE  Result
<1> DEFINE row == [name |-> n, initialized |-> FALSE, po |-> None, co |-> FALSE]
           entry == [type |-> type, version |-> v, active |-> TRUE, domain |-> FALSE]
<1>1. PICK s : LET inserted == [db EXCEPT !.part[s] = row] IN
        \/ v \in {0, 1} /\ Commit(t, [inserted EXCEPT !.life[s] = entry], {inserted})
        \/ Commit(t, inserted, {})
  BY DEF CreatePartition
<1> DEFINE inserted == [db EXCEPT !.part[s] = row]
           registered == [inserted EXCEPT !.life[s] = entry]
<1>2. /\ row \in Partition /\ ~row.initialized
      /\ ~entry.domain /\ (v \in {0, 1} => entry \in Entry)
  BY DEF Partition, Entry
<1>3. /\ Documents \subseteq DOMAIN inserted
      /\ inserted.part = [db.part EXCEPT ![s] = row] /\ inserted.life = db.life
      /\ inserted.dom = db.dom /\ inserted.hsmDomain = db.hsmDomain /\ inserted.obj = db.obj
  BY DEF Typed, Documents
<1>4. /\ Documents \subseteq DOMAIN registered
      /\ registered.part = [db.part EXCEPT ![s] = row]
      /\ registered.life = [db.life EXCEPT ![s] = entry]
      /\ registered.dom = db.dom /\ registered.hsmDomain = db.hsmDomain
      /\ registered.obj = db.obj
  BY DEF Typed, Documents
<1>5. (v \in {0, 1} /\ Commit(t, registered, {inserted})) \/ Commit(t, inserted, {})
  BY <1>1
<1> HIDE DEF row, entry, inserted, registered
<1>6. CASE s \in Slots
  <2>1. db.life[s] \in Entry \cup {None} /\ db.life = [db.life EXCEPT ![s] = db.life[s]]
    BY <1>6 DEF Typed
  <2>2. Sound(db) => (db.life[s] # None /\ db.life[s].domain => DomainOf(db, s) # None)
    BY <1>6 DEF Sound, SoundAt
  <2>3. Follows(db, inserted)
    BY <1>2, <1>3, <1>6, <2>1, <2>2, Edited
  <2>4. v \in {0, 1} => Follows(db, registered)
    BY <1>2, <1>4, <1>6, NoneAssumption, Edited
  <2> QED BY <1>5, <2>3, <2>4, FollowsStops, CommitResult
<1>7. CASE s \notin Slots
  <2>1. inserted.part = db.part /\ registered.part = db.part /\ registered.life = db.life
    BY <1>3, <1>4, <1>7 DEF Typed
  <2>2. Follows(db, inserted) /\ Follows(db, registered)
    BY <1>3, <1>4, <2>1, Alike DEF Typed, HsmKept
  <2> QED BY <1>5, <2>2, FollowsStops, CommitResult
<1> QED BY <1>6, <1>7

LEMMA DeletePartitionResult ==
  ASSUME Typed(db), NEW t, NEW s \in Slots, DeletePartition(t, s)
  PROVE  Result
<1> DEFINE gone == [db EXCEPT !.part[s] = None, !.obj[s] = {}]
           final == [gone EXCEPT !.life[s] = None]
<1>1. Commit(t, final, {gone})
  BY DEF DeletePartition
<1>2. /\ Documents \subseteq DOMAIN gone
      /\ gone.part = [db.part EXCEPT ![s] = None] /\ gone.life = db.life
      /\ gone.dom = db.dom /\ gone.hsmDomain = db.hsmDomain
      /\ gone.obj = [db.obj EXCEPT ![s] = {}]
  BY DEF Typed, Documents
<1>3. /\ Documents \subseteq DOMAIN final
      /\ final.part = gone.part /\ final.life = [db.life EXCEPT ![s] = None]
      /\ final.dom = db.dom /\ final.hsmDomain = db.hsmDomain /\ final.obj = gone.obj
  BY <1>2 DEF Documents
<1> HIDE DEF gone, final
<1>4. Typed(gone) /\ Typed(final)
  BY <1>2, <1>3 DEF Typed
<1>5. \A r : DomainOf(gone, r) = DomainOf(db, r) /\ DomainOf(final, r) = DomainOf(db, r)
  BY <1>2, <1>3 DEF DomainOf
<1>6. Keeps(db, gone) /\ Keeps(db, final)
  BY <1>5 DEF Keeps, KeepsAt, DomainsOf
<1>7. \A r \in Slots : r # s => /\ gone.part[r] = db.part[r] /\ gone.life[r] = db.life[r]
                                /\ final.part[r] = db.part[r] /\ final.life[r] = db.life[r]
  BY <1>2, <1>3 DEF Typed
<1>8. gone.part[s] = None /\ final.part[s] = None /\ final.life[s] = None
  BY <1>2, <1>3 DEF Typed
<1>9. Sound(db) => Sound(final)
  BY <1>5, <1>7, <1>8 DEF Sound, SoundAt
<1>10. Sound(db) => Sound(gone) \/ "entry" \in Orphans(gone)
  <2>1. CASE gone.life[s] = None
    BY <1>5, <1>7, <1>8, <2>1 DEF Sound, SoundAt
  <2>2. CASE gone.life[s] # None
    BY <1>8, <2>2 DEF Orphans
  <2> QED BY <2>1, <2>2
<1> QED BY <1>1, <1>4, <1>6, <1>9, <1>10, CommitResult DEF Follows, Stopped

LEMMA RolesResult ==
  ASSUME Typed(db), NEW t, NEW s \in Slots,
         (\E on \in BOOLEAN : SetPartitionActive(t, s, on)) \/ InitRole(t, s)
  PROVE  Result
<1>1. Present(s)
  BY DEF SetPartitionActive, InitRole
<1>2. /\ db.part[s] \in Partition /\ EntryOf(db, s) \in Entry
      /\ Sound(db) /\ EntryOf(db, s).domain => DomainOf(db, s) # None
  BY <1>1, EntryThere DEF Present
<1>3. ASSUME NEW on \in BOOLEAN, SetPartitionActive(t, s, on) PROVE Result
  <2> DEFINE entry == [EntryOf(db, s) EXCEPT !.active = on]
             final == [db EXCEPT !.life[s] = entry]
  <2>1. Commit(t, final, {})
    BY <1>3 DEF SetPartitionActive
  <2>2. entry \in Entry /\ entry.domain = EntryOf(db, s).domain
    BY <1>2 DEF Entry
  <2>3. /\ Documents \subseteq DOMAIN final /\ final.part = db.part
        /\ final.life = [db.life EXCEPT ![s] = entry]
        /\ final.dom = db.dom /\ final.hsmDomain = db.hsmDomain /\ final.obj = db.obj
    BY DEF Typed, Documents
  <2> HIDE DEF entry, final
  <2>4. db.part = [db.part EXCEPT ![s] = db.part[s]]
    BY DEF Typed
  <2>5. entry # None
    BY <2>2, NoneAssumption
  <2>6. Follows(db, final)
    BY <1>2, <2>2, <2>3, <2>4, <2>5, Edited
  <2> QED BY <2>1, <2>6, CommitResult
<1>4. CASE InitRole(t, s)
  <2> DEFINE row == [db.part[s] EXCEPT !.co = TRUE]
             final == [db EXCEPT !.part[s].co = TRUE]
  <2>1. Commit(t, final, {})
    BY <1>4 DEF InitRole
  <2>2. row \in Partition /\ row.initialized = db.part[s].initialized
    BY <1>2 DEF Partition
  <2>3. /\ Documents \subseteq DOMAIN final /\ final.part = [db.part EXCEPT ![s] = row]
        /\ final.life = db.life
        /\ final.dom = db.dom /\ final.hsmDomain = db.hsmDomain /\ final.obj = db.obj
    BY DEF Typed, Documents
  <2> HIDE DEF row, final
  <2>4. db.life = [db.life EXCEPT ![s] = db.life[s]] /\ db.life[s] \in Entry \cup {None}
    BY DEF Typed
  <2>5. Sound(db) => IF db.life[s] = None THEN ~db.part[s].initialized
                     ELSE db.life[s].domain => DomainOf(db, s) # None
    BY <1>1 DEF Sound, SoundAt, Present
  <2>6. Follows(db, final)
    BY <2>2, <2>3, <2>4, <2>5, Edited
  <2> QED BY <2>1, <2>6, CommitResult
<1> QED BY <1>3, <1>4

LEMMA ErasingFollows ==
  ASSUME Typed(db), NEW d, NEW s \in Slots, Documents \subseteq DOMAIN d,
         d.part = db.part, d.life = db.life, d.dom = db.dom, d.hsmDomain = db.hsmDomain,
         d.obj = db.obj
  PROVE  /\ Follows(db, [d EXCEPT !.obj[s] = {}])
         /\ \A e \in Erasing(d, s) : Follows(db, e)
<1>1. ASSUME NEW left \in SUBSET db.obj[s], NEW e, e = [d EXCEPT !.obj[s] = left]
      PROVE  Follows(db, e)
  <2>1. /\ Documents \subseteq DOMAIN e /\ e.part = db.part /\ e.life = db.life
        /\ e.dom = db.dom /\ e.hsmDomain = db.hsmDomain
        /\ e.obj = [db.obj EXCEPT ![s] = left]
    BY <1>1 DEF Documents
  <2>2. DOMAIN e.obj = Slots /\ \A r \in Slots : db.part[r] = None => e.obj[r] = {}
    BY <2>1 DEF Typed
  <2>3. HsmKept(db, e)
    BY <2>1 DEF HsmKept, Typed
  <2> QED BY <2>1, <2>2, <2>3, Alike
<1> QED BY <1>1 DEF Erasing

\* Objects stored in a partition that is there.
LEMMA StoredFollows ==
  ASSUME Typed(db), NEW d, NEW s \in Slots, db.part[s] # None, NEW objs,
         Documents \subseteq DOMAIN d, d.part = db.part, d.life = db.life, d.dom = db.dom,
         d.hsmDomain = db.hsmDomain, d.obj = db.obj
  PROVE  Follows(db, d) /\ Follows(db, [d EXCEPT !.obj[s] = objs])
<1> DEFINE e == [d EXCEPT !.obj[s] = objs]
<1>1. /\ Documents \subseteq DOMAIN e /\ e.part = db.part /\ e.life = db.life
      /\ e.dom = db.dom /\ e.hsmDomain = db.hsmDomain
      /\ e.obj = [db.obj EXCEPT ![s] = objs]
  BY DEF Documents
<1> HIDE DEF e
<1>2. DOMAIN e.obj = Slots /\ \A r \in Slots : db.part[r] = None => e.obj[r] = {}
  BY <1>1 DEF Typed
<1>3. HsmKept(db, e) /\ HsmKept(db, d)
  BY <1>1 DEF HsmKept, Typed
<1>4. Follows(db, e)
  BY <1>1, <1>2, <1>3, Alike
<1>5. Follows(db, d)
  BY <1>3, Alike DEF Typed
<1> QED BY <1>4, <1>5 DEF e

\* Nothing is changed that the properties look at.
Plain(d) ==
  /\ Documents \subseteq DOMAIN d
  /\ d.part = db.part /\ d.life = db.life /\ d.dom = db.dom
  /\ d.hsmDomain = db.hsmDomain /\ d.obj = db.obj

LEMMA PlainFollows == ASSUME Typed(db), NEW d, Plain(d) PROVE Follows(db, d)
BY Alike DEF Plain, Typed, HsmKept

LEMMA WithSmkPlain ==
  ASSUME Typed(db), NEW s
  PROVE  Plain(WithSmk(db, s))
<1> DEFINE made == [db EXCEPT !.sks[s] = [primary |-> db.nextSmk, rollover |-> 0], !.nextSmk = @ + 1]
<1>1. Plain(db) /\ Plain(made)
  BY DEF Plain, Typed, Documents
<1> QED BY <1>1 DEF WithSmk

LEMMA ObjectsResult ==
  ASSUME Typed(db), NEW t, NEW s \in Slots,
         \/ \E k : CreateObject(t, s, k)
         \/ ClearPartition(t, s)
         \/ \E r : ClonePartition(t, r, s)
         \/ \E b : Insert(t, s, b)
         \/ \E k : Extract(t, s, k)
  PROVE  Result
<1>0. Plain(db)
  BY DEF Plain, Typed
<1>1. ASSUME NEW objs, db.part[s] # None, Commit(t, [db EXCEPT !.obj[s] = objs], {}) PROVE Result
  <2>1. Follows(db, [db EXCEPT !.obj[s] = objs])
    BY <1>0, <1>1, StoredFollows DEF Plain
  <2> QED BY <1>1, <2>1, CommitResult
<1>2. ASSUME NEW k, CreateObject(t, s, k) PROVE Result
  BY <1>1, <1>2 DEF CreateObject, Present, Typed
<1>3. ASSUME NEW r, ClonePartition(t, r, s) PROVE Result
  BY <1>1, <1>3 DEF ClonePartition, Present, Typed
<1>4. CASE ClearPartition(t, s)
  <2>1. Commit(t, [db EXCEPT !.obj[s] = {}], Erasing(db, s))
    BY <1>4 DEF ClearPartition
  <2>2. /\ Follows(db, [db EXCEPT !.obj[s] = {}])
        /\ \A e \in Erasing(db, s) : Follows(db, e)
    BY <1>0, ErasingFollows DEF Plain
  <2> QED BY <2>1, <2>2, FollowsStops, CommitResult
<1>5. ASSUME NEW b, Insert(t, s, b) PROVE Result
  <2> DEFINE d == WithSmk(db, s)
             more == d.obj[s] \cup {b.key}
  <2>1. db.part[s] # None
    BY <1>5 DEF Insert, V1
  <2>2. Commit(t, [d EXCEPT !.obj[s] = more], {d}) \/ Commit(t, d, {d})
    BY <1>5 DEF Insert
  <2>3. Plain(d)
    BY WithSmkPlain
  <2> HIDE DEF d, more
  <2>4. Follows(db, d) /\ Follows(db, [d EXCEPT !.obj[s] = more])
    BY <2>1, <2>3, StoredFollows DEF Plain
  <2> QED BY <2>2, <2>4, FollowsStops, CommitResult
<1>6. ASSUME NEW k, Extract(t, s, k) PROVE Result
  <2>1. Follows(db, db') /\ UNCHANGED torn
    BY <1>6, WithSmkPlain, PlainFollows DEF Extract
  <2> QED BY <2>1 DEF Result, Follows
<1> QED BY <1>2, <1>3, <1>4, <1>5, <1>6

LEMMA PlainResult ==
  ASSUME Typed(db), NEW t, NEW final, NEW partial, Commit(t, final, partial),
         Plain(final), \A p \in partial : Plain(p)
  PROVE  Result
BY PlainFollows, FollowsStops, CommitResult

LEMMA MasterKeysResult ==
  ASSUME Typed(db), NEW t,
         \/ \E r, s : CloneSmk(t, r, s)
         \/ \E s : RolloverStart(t, s) \/ RolloverEnd(t, s)
  PROVE  Result
<1>1. ASSUME NEW r, NEW s, CloneSmk(t, r, s) PROVE Result
  <2> DEFINE d == WithSmk(db, r)
             final == [d EXCEPT !.sks[s] = [primary |-> d.sks[r].primary, rollover |-> 0]]
  <2>1. Commit(t, final, {d})
    BY <1>1 DEF CloneSmk
  <2>2. Plain(d)
    BY WithSmkPlain
  <2> HIDE DEF d
  <2>3. Plain(final)
    BY <2>2 DEF Plain, Documents
  <2> HIDE DEF final
  <2> QED BY <2>1, <2>2, <2>3, PlainResult
<1>2. ASSUME NEW s, RolloverStart(t, s) \/ RolloverEnd(t, s) PROVE Result
  <2> DEFINE d == WithSmk(db, s)
             started == [d EXCEPT !.sks[s] = [primary |-> d.nextSmk, rollover |-> d.sks[s].primary],
                                  !.nextSmk = @ + 1]
             ended == [d EXCEPT !.sks[s].rollover = 0]
  <2>1. Commit(t, d, {}) \/ Commit(t, started, {d}) \/ Commit(t, ended, {d})
    BY <1>2 DEF RolloverStart, RolloverEnd
  <2>2. Plain(d)
    BY WithSmkPlain
  <2> HIDE DEF d
  <2>3. Plain(started) /\ Plain(ended)
    BY <2>2 DEF Plain, Documents
  <2> HIDE DEF started, ended
  <2> QED BY <2>1, <2>2, <2>3, PlainResult
<1> QED BY <1>1, <1>2

LEMMA TemplatesResult ==
  ASSUME Typed(db), NEW t,
         \/ \E tm : CreateTemplate(t, tm) \/ DeleteTemplate(t, tm)
         \/ \E s \in Slots : \E tm : ApplyTemplate(t, s, tm)
         \/ \E v : InstallFirmware(t, v)
  PROVE  Result
<1>1. ASSUME NEW tm, CreateTemplate(t, tm) \/ DeleteTemplate(t, tm) PROVE Result
  <2> DEFINE more == [db EXCEPT !.templates = @ \cup {tm}]
             less == [db EXCEPT !.templates = @ \ {tm}]
  <2>1. Plain(more) /\ Plain(less)
    BY DEF Plain, Typed, Documents
  <2>2. Commit(t, more, {}) \/ Commit(t, less, {})
    BY <1>1 DEF CreateTemplate, DeleteTemplate
  <2> HIDE DEF more, less
  <2> QED BY <2>1, <2>2, PlainResult
<1>2. ASSUME NEW s \in Slots, NEW tm, ApplyTemplate(t, s, tm) PROVE Result
  <2>1. PICK settings : LET saved == [db EXCEPT !.pol[s] = settings] IN
          Commit(t, [saved EXCEPT !.obj[s] = {}], Erasing(saved, s)) \/ Commit(t, saved, {})
    BY <1>2 DEF ApplyTemplate
  <2> DEFINE saved == [db EXCEPT !.pol[s] = settings]
             final == [saved EXCEPT !.obj[s] = {}]
  <2>2. Commit(t, final, Erasing(saved, s)) \/ Commit(t, saved, {})
    BY <2>1
  <2>3. Plain(saved)
    BY DEF Plain, Typed, Documents
  <2> HIDE DEF saved
  <2>4. Follows(db, final) /\ \A e \in Erasing(saved, s) : Follows(db, e)
    BY <2>3, ErasingFollows DEF Plain
  <2> HIDE DEF final
  <2> QED BY <2>2, <2>3, <2>4, PlainFollows, FollowsStops, CommitResult
<1>3. ASSUME NEW v, InstallFirmware(t, v) PROVE Result
  <2> DEFINE part == [db EXCEPT !.firmware.current = v]
             final == [db EXCEPT !.firmware = [current |-> v, last |-> db.firmware.current]]
  <2>1. Plain(part) /\ Plain(final)
    BY DEF Plain, Typed, Documents
  <2>2. Commit(t, final, {part})
    BY <1>3 DEF InstallFirmware
  <2> HIDE DEF part, final
  <2> QED BY <2>1, <2>2, PlainResult
<1> QED BY <1>1, <1>2, <1>3

-----------------------------------------------------------------------------
(* Initialization.                                                         *)

LEMMA ExplicitSetting ==
  ASSUME NEW d \in Domains
  PROVE  Explicit(d) \in Setting /\ Explicit(d).inherit = FALSE /\ Explicit(d).id = d
<1>1. [domain |-> d, label |-> "", primary |-> TRUE, original |-> TRUE] \in DomainEntry
  BY PartitionsAssumption DEF DomainEntry
<1> QED BY <1>1 DEF Explicit, Setting

LEMMA CredentialFollows ==
  ASSUME Typed(db), NEW s \in Slots, db.part[s] # None, NEW pin \in Pins
  PROVE  LET cred == Credential(db, s, pin)
             set == [cred EXCEPT !.part[s].initialized = TRUE] IN
         /\ Follows(db, cred) /\ Follows(db, set)
         /\ Documents \subseteq DOMAIN set
         /\ set.life = [db.life EXCEPT ![s] = EntryOf(db, s)]
         /\ \E row \in Partition : set.part = [db.part EXCEPT ![s] = row]
         /\ set.dom = db.dom /\ set.hsmDomain = db.hsmDomain /\ set.obj = db.obj
<1> DEFINE entry == EntryOf(db, s)
           touched == [db EXCEPT !.life[s] = entry]
           cred == Credential(db, s, pin)
           set == [cred EXCEPT !.part[s].initialized = TRUE]
<1>1. /\ db.part[s] \in Partition /\ entry \in Entry /\ entry # None
      /\ Sound(db) /\ entry.domain => DomainOf(db, s) # None
  BY EntryThere, NoneAssumption
<1>2. cred \in {[touched EXCEPT !.part[s].co = TRUE], [touched EXCEPT !.part[s].po = pin]}
  BY DEF Credential
<1>3. /\ Documents \subseteq DOMAIN touched /\ touched.part = db.part
      /\ touched.life = [db.life EXCEPT ![s] = entry]
      /\ touched.dom = db.dom /\ touched.hsmDomain = db.hsmDomain /\ touched.obj = db.obj
  BY DEF Typed, Documents
<1> HIDE DEF touched, cred, entry
<1>4. PICK row \in Partition :
        /\ Documents \subseteq DOMAIN cred /\ cred.part = [db.part EXCEPT ![s] = row]
        /\ cred.life = [db.life EXCEPT ![s] = entry]
        /\ cred.dom = db.dom /\ cred.hsmDomain = db.hsmDomain /\ cred.obj = db.obj
  <2>1. CASE cred = [touched EXCEPT !.part[s].co = TRUE]
    <3> DEFINE row == [db.part[s] EXCEPT !.co = TRUE]
    <3>1. row \in Partition
      BY <1>1 DEF Partition
    <3>2. cred.part = [db.part EXCEPT ![s] = row]
      BY <1>3, <2>1 DEF Documents
    <3>3. /\ Documents \subseteq DOMAIN cred /\ cred.life = touched.life
          /\ cred.dom = touched.dom /\ cred.hsmDomain = touched.hsmDomain
          /\ cred.obj = touched.obj
      BY <1>3, <2>1 DEF Documents
    <3> QED BY <1>3, <3>1, <3>2, <3>3
  <2>2. CASE cred = [touched EXCEPT !.part[s].po = pin]
    <3> DEFINE row == [db.part[s] EXCEPT !.po = pin]
    <3>1. row \in Partition
      BY <1>1 DEF Partition
    <3>2. cred.part = [db.part EXCEPT ![s] = row]
      BY <1>3, <2>2 DEF Documents
    <3>3. /\ Documents \subseteq DOMAIN cred /\ cred.life = touched.life
          /\ cred.dom = touched.dom /\ cred.hsmDomain = touched.hsmDomain
          /\ cred.obj = touched.obj
      BY <1>3, <2>2 DEF Documents
    <3> QED BY <1>3, <3>1, <3>2, <3>3
  <2> QED BY <1>2, <2>1, <2>2
<1>5. Follows(db, cred)
  BY <1>1, <1>4, Edited
<1> DEFINE final == [row EXCEPT !.initialized = TRUE]
<1>6. final \in Partition
  BY DEF Partition
<1>7. set.part = [db.part EXCEPT ![s] = final]
  <2>1. cred.part[s] = row /\ set.part = [cred.part EXCEPT ![s] = [cred.part[s] EXCEPT !.initialized = TRUE]]
    BY <1>4 DEF Typed, Documents
  <2>2. set.part = [cred.part EXCEPT ![s] = final]
    BY <2>1
  <2> HIDE DEF final, set
  <2> QED BY <1>4, <2>2 DEF Typed
<1>8. /\ Documents \subseteq DOMAIN set /\ set.life = cred.life
      /\ set.dom = cred.dom /\ set.hsmDomain = cred.hsmDomain /\ set.obj = cred.obj
  BY <1>4 DEF Documents
<1> HIDE DEF set, final
<1>9. Follows(db, set)
  BY <1>1, <1>4, <1>6, <1>7, <1>8, Edited
<1> QED BY <1>4, <1>5, <1>6, <1>7, <1>8, <1>9 DEF cred, set, entry

SameUse(d, e) == e.dom = d.dom /\ e.hsmDomain = d.hsmDomain /\ e.obj = d.obj

\* Two changes in a row, of which one leaves domains and objects alone.
LEMMA FollowsChain ==
  ASSUME NEW d, NEW e, NEW f, Follows(d, e), Follows(e, f), SameUse(d, e) \/ SameUse(e, f)
  PROVE  Follows(d, f)
<1>1. ASSUME NEW x, NEW y, SameUse(x, y)
      PROVE  \A s : /\ DomainOf(y, s) = DomainOf(x, s) /\ DomainsOf(y, s) = DomainsOf(x, s)
                    /\ y.obj[s] = x.obj[s]
  BY <1>1 DEF SameUse, DomainOf, DomainsOf, Listed
<1>2. Keeps(d, f)
  <2>1. CASE SameUse(d, e)
    BY <1>1, <2>1 DEF Follows, Keeps, KeepsAt
  <2>2. CASE SameUse(e, f)
    BY <1>1, <2>2 DEF Follows, Keeps, KeepsAt
  <2> QED BY <2>1, <2>2
<1> QED BY <1>2 DEF Follows

LEMMA InitTokenResult ==
  ASSUME Typed(db), NEW t, NEW s \in Slots, NEW pin \in Pins, NEW dm \in Domains,
         InitToken(t, s, pin, dm)
  PROVE  Result
<1> DEFINE cred == Credential(db, s, pin)
           set  == [cred EXCEPT !.part[s].initialized = TRUE]
           dom  == [set EXCEPT !.dom[s] = Explicit(dm)]
           done == [dom EXCEPT !.life[s].domain = TRUE]
           all  == IF V1(done, s) THEN WithSmk(done, s) ELSE done
           entry == EntryOf(db, s)
<1>1. /\ db.part[s] # None
      /\ \/ Commit(t, set, {cred})
         \/ /\ ~(Populated(db, s) /\ DomainOf(db, s) # dm)
            /\ Commit(t, all, {cred, set, dom, done})
  BY DEF InitToken, Present
<1>2. /\ Follows(db, cred) /\ Follows(db, set) /\ Documents \subseteq DOMAIN set
      /\ set.life = [db.life EXCEPT ![s] = entry]
      /\ SameUse(db, set)
      /\ \E row \in Partition : set.part = [db.part EXCEPT ![s] = row]
  BY <1>1, CredentialFollows DEF SameUse
<1>3. entry \in Entry
  BY <1>1, EntryThere
<1>4. Explicit(dm) \in Setting /\ Explicit(dm).inherit = FALSE /\ Explicit(dm).id = dm
  BY ExplicitSetting
<1>5. dm # None /\ Explicit(dm) # None
  BY <1>4, PartitionsAssumption, NoneAssumption
<1>6. CASE Commit(t, set, {cred})
  BY <1>2, <1>6, FollowsStops, CommitResult
<1>7. CASE /\ ~(Populated(db, s) /\ DomainOf(db, s) # dm)
           /\ Commit(t, all, {cred, set, dom, done})
  <2> HIDE DEF cred, set, entry
  <2>1. Typed(set)
    BY <1>2 DEF Follows
  <2>2. /\ Documents \subseteq DOMAIN dom /\ dom.part = set.part /\ dom.life = set.life
        /\ dom.dom = [set.dom EXCEPT ![s] = Explicit(dm)]
        /\ dom.hsmDomain = set.hsmDomain /\ dom.obj = set.obj
    BY <1>2 DEF Documents
  <2> HIDE DEF dom
  <2>3. DomainOf(dom, s) = dm
    <3>1. dom.dom[s] = Explicit(dm)
      BY <2>1, <2>2 DEF Typed
    <3> QED BY <1>4, <1>5, <3>1 DEF DomainOf
  <2>4. KeepsAt(set, dom, s)
    <3>1. Populated(db, s) => DomainOf(set, s) = dm
      BY <1>2, <1>7 DEF SameUse, DomainOf
    <3>2. set.obj[s] # {} => Populated(db, s)
      BY <1>2 DEF SameUse, Populated
    <3> QED BY <2>3, <3>1, <3>2 DEF KeepsAt, DomainsOf
  <2>5. HsmKept(set, dom) /\ DOMAIN dom.obj = Slots
        /\ \A r \in Slots : set.part[r] = None => dom.obj[r] = {}
    BY <2>1, <2>2 DEF Typed, HsmKept
  <2>6. Follows(set, dom)
    BY <1>4, <1>5, <2>1, <2>2, <2>3, <2>4, <2>5, NewDomains
  <2>7. Follows(db, dom)
    BY <1>2, <2>6, FollowsChain
  <2> DEFINE ready == [entry EXCEPT !.domain = TRUE]
  <2>8. ready \in Entry /\ ready # None
    BY <1>3, NoneAssumption DEF Entry
  <2>9. Typed(dom)
    BY <2>6 DEF Follows
  <2>10. /\ Documents \subseteq DOMAIN done /\ done.part = dom.part
         /\ done.life = [dom.life EXCEPT ![s] = ready]
         /\ SameUse(dom, done)
    <3>1. dom.life[s] = entry
      BY <1>2, <2>2 DEF Typed
    <3> QED BY <2>9, <3>1 DEF Typed, Documents, SameUse
  <2> HIDE DEF done, ready
  <2>11. dom.part = [dom.part EXCEPT ![s] = dom.part[s]] /\ dom.part[s] \in Partition
    <3>1. set.part[s] \in Partition
      BY <1>2 DEF Typed
    <3> QED BY <2>2, <2>9, <3>1 DEF Typed
  <2>12. Follows(dom, done)
    BY <1>5, <2>3, <2>8, <2>9, <2>10, <2>11, Edited DEF SameUse
  <2>13. Follows(db, done)
    BY <2>7, <2>10, <2>12, FollowsChain
  <2>14. Follows(db, all)
    <3> DEFINE made == [done EXCEPT !.sks[s] = [primary |-> done.nextSmk, rollover |-> 0],
                                    !.nextSmk = @ + 1]
    <3>1. all = done \/ all = made
      BY DEF WithSmk
    <3>2. Typed(done)
      BY <2>12 DEF Follows
    <3>3. /\ Documents \subseteq DOMAIN made /\ made.part = done.part /\ made.life = done.life
          /\ SameUse(done, made)
      BY <3>2 DEF Typed, Documents, SameUse
    <3> HIDE DEF made, all
    <3>4. Follows(done, made)
      BY <3>2, <3>3, Alike DEF Typed, HsmKept, SameUse
    <3>5. Follows(db, made)
      BY <2>13, <3>3, <3>4, FollowsChain
    <3> QED BY <2>13, <3>1, <3>5
  <2> HIDE DEF all
  <2> QED BY <1>2, <1>7, <2>7, <2>13, <2>14, FollowsStops, CommitResult
<1> QED BY <1>1, <1>6, <1>7

-----------------------------------------------------------------------------
(* Cloning domains.                                                        *)

LEMMA SetPartitionDomainResult ==
  ASSUME Typed(db), NEW t, NEW s \in Slots, NEW c \in Domains \cup {None},
         SetPartitionDomain(t, s, c)
  PROVE  Result
<1> DEFINE base == IF c = None THEN WithHsmDomain(db) ELSE db
           new == IF c = None THEN base.hsmDomain ELSE c
           erased == ClearedFor(base, s, new)
           x == IF c = None THEN Inherited ELSE Explicit(new)
           final == [erased EXCEPT !.dom[s] = x]
<1>1. Commit(t, final, {base, erased})
  BY DEF SetPartitionDomain
<1>2. /\ Documents \subseteq DOMAIN base /\ base.part = db.part /\ base.life = db.life
      /\ base.dom = db.dom /\ base.obj = db.obj /\ HsmKept(db, base)
      /\ new \in Domains
  <2>1. CASE c = None /\ db.hsmDomain = None
    <3>1. base = [db EXCEPT !.hsmDomain = OwnDomain]
      BY <2>1 DEF WithHsmDomain
    <3> QED BY <2>1, <3>1, PartitionsAssumption DEF Typed, Documents, HsmKept
  <2>2. CASE ~(c = None /\ db.hsmDomain = None)
    <3>1. base = db
      BY <2>2 DEF WithHsmDomain
    <3> QED BY <2>2, <3>1 DEF Typed, HsmKept
  <2> QED BY <2>1, <2>2
<1>3. x \in Setting /\ x # None
  <2>1. Inherited \in Setting
    BY DEF Inherited, Setting
  <2>2. Explicit(new) \in Setting
    <3> HIDE DEF new
    <3> QED BY <1>2, ExplicitSetting
  <2> QED BY <2>1, <2>2, NoneAssumption
<1>4. IF c = None THEN x.inherit /\ base.hsmDomain = new ELSE ~x.inherit /\ x.id = new
  BY <1>2, ExplicitSetting DEF Inherited
<1>5. Follows(db, base)
  BY <1>2, Alike DEF Typed
<1> HIDE DEF base, new, x
<1>6. Typed(base)
  BY <1>5 DEF Follows
<1>7. /\ Documents \subseteq DOMAIN erased /\ erased.part = db.part /\ erased.life = db.life
      /\ erased.dom = db.dom /\ erased.hsmDomain = base.hsmDomain
      /\ DOMAIN erased.obj = Slots
      /\ \A r \in Slots : erased.obj[r] = {} \/ erased.obj[r] = db.obj[r]
      /\ erased.obj[s] # {} => DomainOf(base, s) = new
  BY <1>2, <1>6 DEF ClearedFor, Typed, Documents
<1> HIDE DEF erased
<1>8. \A r \in Slots : db.part[r] = None => erased.obj[r] = {}
  BY <1>7 DEF Typed
<1>9. Follows(db, erased)
  BY <1>2, <1>7, <1>8, Alike DEF HsmKept
<1>10. /\ Documents \subseteq DOMAIN final /\ final.part = db.part /\ final.life = db.life
       /\ final.dom = [db.dom EXCEPT ![s] = x]
       /\ final.hsmDomain = base.hsmDomain /\ final.obj = erased.obj
  BY <1>7 DEF Documents
<1> HIDE DEF final
<1>11. DomainOf(final, s) = new /\ new # None
  <2>1. final.dom[s] = x
    BY <1>10 DEF Typed
  <2> QED BY <1>2, <1>3, <1>4, <1>10, <2>1, PartitionsAssumption DEF DomainOf
<1>12. KeepsAt(db, final, s)
  <2> SUFFICES ASSUME final.obj[s] # {}, DomainOf(db, s) # None
               PROVE  DomainOf(db, s) = DomainOf(final, s)
    BY DEF KeepsAt, DomainsOf
  <2>1. DomainOf(base, s) = new
    BY <1>7, <1>10
  <2>2. DomainOf(base, s) = DomainOf(db, s)
    BY <1>2, DomainKept
  <2> QED BY <1>11, <2>1, <2>2
<1>13. HsmKept(db, final)
  BY <1>2, <1>10 DEF HsmKept
<1>14. Follows(db, final)
  BY <1>3, <1>7, <1>8, <1>10, <1>11, <1>12, <1>13, NewDomains
<1> QED BY <1>1, <1>5, <1>9, <1>14, FollowsStops, CommitResult

LEMMA SetHsmDomainResult ==
  ASSUME Typed(db), NEW t, NEW new \in Domains, SetHsmDomain(t, new)
  PROVE  Result
<1> DEFINE Affected(s) == Present(s) /\ Inherits(db, s) /\ db.hsmDomain # new
           objs == [s \in Slots |-> IF Affected(s) THEN {} ELSE db.obj[s]]
           erased == [db EXCEPT !.obj = objs]
           final == [erased EXCEPT !.hsmDomain = new]
<1>1. Commit(t, final, {erased})
  BY DEF SetHsmDomain
<1>2. /\ DOMAIN objs = Slots
      /\ \A s \in Slots : objs[s] # {} => objs[s] = db.obj[s] /\ ~Affected(s)
      /\ \A s \in Slots : db.part[s] = None => objs[s] = {}
  BY DEF Typed
<1>3. /\ Documents \subseteq DOMAIN erased /\ erased.part = db.part /\ erased.life = db.life
      /\ erased.dom = db.dom /\ erased.hsmDomain = db.hsmDomain /\ erased.obj = objs
  BY DEF Typed, Documents
<1> HIDE DEF objs, erased
<1>4. Follows(db, erased)
  BY <1>2, <1>3, Alike DEF Typed, HsmKept
<1>5. /\ Documents \subseteq DOMAIN final /\ final.part = db.part /\ final.life = db.life
      /\ final.dom = db.dom /\ final.hsmDomain = new /\ final.obj = objs
  BY <1>3 DEF Documents
<1> HIDE DEF final
<1>6. Typed(final)
  BY <1>2, <1>5 DEF Typed
<1>7. \A s : DomainOf(db, s) # None => DomainOf(final, s) # None
  BY <1>5, PartitionsAssumption DEF DomainOf
<1>8. Sound(db) => Sound(final)
  BY <1>5, <1>7 DEF Sound, SoundAt
<1>9. Keeps(db, final)
  <2> SUFFICES ASSUME NEW s \in Slots, objs[s] # {}, DomainOf(db, s) # None
               PROVE  DomainOf(final, s) = DomainOf(db, s)
    BY <1>5 DEF Keeps, KeepsAt, DomainsOf
  <2>1. Present(s)
    BY <1>2 DEF Present
  <2>2. ~Inherits(db, s) \/ db.hsmDomain = new
    BY <1>2, <2>1
  <2> QED BY <1>5, <2>2 DEF Inherits, DomainOf
<1> QED BY <1>1, <1>4, <1>6, <1>8, <1>9, FollowsStops, CommitResult DEF Follows

\* A setting with the same domain, or with an entry of the old list.
Related(old, x) ==
  \/ x.inherit = old.inherit /\ x.id = old.id
  \/ /\ ~x.inherit /\ x.id \in Domains
     /\ \E f \in x.list : \E e \in old.list : f.domain = e.domain

LEMMA RelatedFollows ==
  ASSUME Typed(db), NEW e, NEW s \in Slots, db.dom[s] # None, NEW x \in Setting,
         Related(db.dom[s], x), Documents \subseteq DOMAIN e,
         e.part = db.part, e.life = db.life, e.dom = [db.dom EXCEPT ![s] = x],
         e.hsmDomain = db.hsmDomain,
         DOMAIN e.obj = Slots, \A r \in Slots : e.obj[r] \subseteq db.obj[r]
  PROVE  Follows(db, e)
<1>1. e.dom[s] = x /\ x # None
  BY NoneAssumption DEF Typed
<1>2. CASE x.inherit = db.dom[s].inherit /\ x.id = db.dom[s].id
  <2>1. DomainOf(e, s) = DomainOf(db, s)
    BY <1>1, <1>2 DEF DomainOf
  <2>2. KeepsAt(db, e, s)
    BY <2>1 DEF KeepsAt, DomainsOf
  <2> QED BY <1>1, <2>1, <2>2, NewDomains DEF Typed, HsmKept
<1>3. CASE /\ ~x.inherit /\ x.id \in Domains
           /\ \E f \in x.list : \E g \in db.dom[s].list : f.domain = g.domain
  <2>1. DomainOf(e, s) = x.id /\ x.id # None
    BY <1>1, <1>3, PartitionsAssumption DEF DomainOf
  <2>2. Listed(db, s) \cap Listed(e, s) # {}
    BY <1>1, <1>3 DEF Listed
  <2>3. KeepsAt(db, e, s)
    BY <2>2 DEF KeepsAt, DomainsOf
  <2> QED BY <1>1, <2>1, <2>3, NewDomains DEF Typed, HsmKept
<1> QED BY <1>2, <1>3 DEF Related

\* A partition's list, or its list and its domain, replaced.
LEMMA RelistedResult ==
  ASSUME Typed(db), NEW t, NEW s \in Slots, db.dom[s] # None, NEW list \in SUBSET DomainEntry,
         NEW id \in Domains \cup {None},
         \/ id = db.dom[s].id
         \/ /\ ~db.dom[s].inherit /\ id \in Domains
            /\ \E f \in list : \E e \in db.dom[s].list : f.domain = e.domain,
         \/ Commit(t, [db EXCEPT !.dom[s].list = list, !.dom[s].id = id], {})
         \/ (id = db.dom[s].id /\ Commit(t, [db EXCEPT !.dom[s].list = list], {}))
  PROVE  Result
<1> DEFINE x == [db.dom[s] EXCEPT !.list = list, !.id = id]
           y == [db.dom[s] EXCEPT !.list = list]
           both == [db EXCEPT !.dom[s].list = list, !.dom[s].id = id]
           one == [db EXCEPT !.dom[s].list = list]
<1>1. db.dom[s] \in Setting
  BY DEF Typed
<1>2. /\ x \in Setting /\ x.inherit = db.dom[s].inherit /\ x.id = id /\ x.list = list
      /\ y \in Setting /\ y.inherit = db.dom[s].inherit /\ y.id = db.dom[s].id /\ y.list = list
  BY <1>1 DEF Setting
<1>3. both.dom = [db.dom EXCEPT ![s] = x] /\ one.dom = [db.dom EXCEPT ![s] = y]
  BY DEF Typed, Documents
<1>4. /\ Documents \subseteq DOMAIN both /\ both.part = db.part /\ both.life = db.life
      /\ both.hsmDomain = db.hsmDomain /\ both.obj = db.obj
      /\ Documents \subseteq DOMAIN one /\ one.part = db.part /\ one.life = db.life
      /\ one.hsmDomain = db.hsmDomain /\ one.obj = db.obj
  BY DEF Typed, Documents
<1>5. Commit(t, both, {}) \/ (id = db.dom[s].id /\ Commit(t, one, {}))
  OBVIOUS
<1> HIDE DEF x, y, both, one
<1>6. Related(db.dom[s], x) /\ Related(db.dom[s], y)
  BY <1>2 DEF Related
<1>7. Follows(db, both)
  BY <1>2, <1>3, <1>4, <1>6, RelatedFollows DEF Typed
<1>8. Follows(db, one)
  BY <1>2, <1>3, <1>4, <1>6, RelatedFollows DEF Typed
<1> QED BY <1>5, <1>7, <1>8, CommitResult

LEMMA AddDomainResult ==
  ASSUME Typed(db), ListsOK, NEW t, NEW s \in Slots, NEW d \in Domains, NEW l \in Labels,
         NEW pr \in BOOLEAN, AddDomain(t, s, d, l, pr)
  PROVE  Result
<1> DEFINE list == db.dom[s].list
           others == IF pr THEN {[e EXCEPT !.primary = FALSE] : e \in list} ELSE list
           new == [domain |-> d, label |-> l, primary |-> pr, original |-> FALSE]
           id == IF pr THEN d ELSE db.dom[s].id
<1>1. /\ db.dom[s] # None /\ ~db.dom[s].inherit
      /\ Commit(t, [db EXCEPT !.dom[s].list = others \cup {new}, !.dom[s].id = id], {})
  BY DEF AddDomain
<1>2. GoodList(list) /\ db.dom[s] \in Setting
  BY <1>1 DEF ListsOK, GoodLists, GoodSetting, Typed
<1>3. id \in Domains \cup {None}
  BY <1>2 DEF Setting
<1>4. PICK e \in list : e \in DomainEntry
  BY <1>2 DEF GoodList, OneOriginal
<1>5. \A f \in list : /\ [f EXCEPT !.primary = FALSE] \in DomainEntry
                      /\ [f EXCEPT !.primary = FALSE].domain = f.domain
  BY <1>2 DEF GoodList, DomainEntry
<1>6. /\ others \cup {new} \in SUBSET DomainEntry
      /\ \E f \in others \cup {new} : f.domain = e.domain
  <2>1. new \in DomainEntry
    BY DEF DomainEntry
  <2>2. list \subseteq DomainEntry
    BY <1>2 DEF GoodList
  <2> HIDE DEF list, new
  <2>3. CASE pr
    BY <1>4, <1>5, <2>1, <2>3
  <2>4. CASE ~pr
    BY <1>4, <2>1, <2>2, <2>4
  <2> QED BY <2>3, <2>4
<1> HIDE DEF list, others, new
<1>7. \/ id = db.dom[s].id
      \/ /\ id \in Domains
         /\ \E f \in others \cup {new} : \E g \in db.dom[s].list : f.domain = g.domain
  BY <1>4, <1>6 DEF list
<1> HIDE DEF id
<1> QED BY <1>1, <1>3, <1>6, <1>7, RelistedResult DEF list

LEMMA DeleteDomainResult ==
  ASSUME Typed(db), NEW t, NEW s \in Slots, NEW l, DeleteDomain(t, s, l)
  PROVE  Result
<1>1. db.dom[s] # None /\ db.dom[s] \in Setting
  BY DEF DeleteDomain, Typed
<1>2. PICK e \in db.dom[s].list : Commit(t, [db EXCEPT !.dom[s].list = @ \ {e}], {})
  BY DEF DeleteDomain
<1> DEFINE shorter == db.dom[s].list \ {e}
<1>3. Commit(t, [db EXCEPT !.dom[s].list = shorter], {})
  BY <1>2
<1>4. shorter \in SUBSET DomainEntry /\ db.dom[s].id \in Domains \cup {None}
  BY <1>1 DEF Setting
<1> HIDE DEF shorter
<1> QED BY <1>1, <1>3, <1>4, RelistedResult

LEMMA RenameDomainResult ==
  ASSUME Typed(db), ListsOK, NEW t, NEW s \in Slots, NEW old, NEW l \in Labels,
         NEW pr \in BOOLEAN, ChangeDomainLabel(t, s, old, l, pr)
  PROVE  Result
<1>1. db.dom[s] # None /\ db.dom[s] \in Setting
  BY DEF ChangeDomainLabel, Typed
<1> DEFINE list == db.dom[s].list
<1>2. PICK e \in list : Commit(t, [db EXCEPT
             !.dom[s].list = {[f EXCEPT !.primary = @ /\ ~pr] : f \in list \ {e}}
                               \cup {[e EXCEPT !.label = l, !.primary = @ \/ pr]},
             !.dom[s].id = IF pr THEN e.domain ELSE @], {})
  BY DEF ChangeDomainLabel
<1> DEFINE others == {[f EXCEPT !.primary = @ /\ ~pr] : f \in list \ {e}}
           new == [e EXCEPT !.label = l, !.primary = @ \/ pr]
           id == IF pr THEN e.domain ELSE db.dom[s].id
<1>3. Commit(t, [db EXCEPT !.dom[s].list = others \cup {new}, !.dom[s].id = id], {})
  BY <1>2
<1>4. list \subseteq DomainEntry /\ db.dom[s].id \in Domains \cup {None}
  BY <1>1 DEF Setting
<1>5. new \in DomainEntry /\ new.domain = e.domain /\ e.domain \in Domains
  BY <1>4 DEF DomainEntry
<1>6. others \subseteq DomainEntry
  BY <1>4 DEF DomainEntry
<1>7. ~db.dom[s].inherit
  BY <1>1 DEF ListsOK, GoodLists, GoodSetting
<1>8. id \in Domains \cup {None}
  BY <1>4, <1>5
<1>9. \/ id = db.dom[s].id
      \/ /\ id \in Domains
         /\ \E f \in others \cup {new} : \E g \in db.dom[s].list : f.domain = g.domain
  BY <1>5
<1>10. others \cup {new} \in SUBSET DomainEntry
  BY <1>5, <1>6
<1> HIDE DEF list, others, new, id
<1> QED BY <1>1, <1>3, <1>7, <1>8, <1>9, <1>10, RelistedResult

LEMMA ChangePolicyResult ==
  ASSUME Typed(db), ListsOK, NEW t, NEW s \in Slots, NEW p, NEW v, ChangePolicy(t, s, p, v)
  PROVE  Result
<1> DEFINE saved == [db EXCEPT !.pol[s][p] = v]
           alone == IF p = 44 /\ db.pol[s][p] = 1 /\ v = 0 THEN Collapsed(saved, s) ELSE saved
           final == [alone EXCEPT !.obj[s] = {}]
<1>1. Commit(t, final, Erasing(alone, s)) \/ Commit(t, alone, {saved})
  BY DEF ChangePolicy
<1>2. Plain(saved)
  BY DEF Plain, Typed, Documents
<1> HIDE DEF saved
<1>3. CASE alone = saved
  <2>1. Follows(db, final) /\ \A e \in Erasing(alone, s) : Follows(db, e)
    BY <1>2, <1>3, ErasingFollows DEF Plain
  <2> QED BY <1>1, <1>2, <1>3, <2>1, PlainFollows, FollowsStops, CommitResult
<1>4. CASE alone # saved
  <2> DEFINE e == CHOOSE e \in db.dom[s].list : e.original
             new == [e EXCEPT !.primary = TRUE]
             x == [inherit |-> FALSE, id |-> e.domain, list |-> {new}]
  <2>1. saved.dom = db.dom
    BY <1>2 DEF Plain
  <2>2. db.dom[s] # None /\ Listed(saved, s) # {} /\ alone = [saved EXCEPT !.dom[s] = x]
    BY <1>4, <2>1 DEF Collapsed
  <2>3. db.dom[s] # None /\ db.dom[s].list # {}
    BY <2>1, <2>2 DEF Listed
  <2>4. GoodList(db.dom[s].list)
    BY <2>3 DEF ListsOK, GoodLists, GoodSetting
  <2>5. e \in db.dom[s].list
    BY <2>4 DEF GoodList, OneOriginal
  <2> HIDE DEF e
  <2>6. new \in DomainEntry /\ new.domain = e.domain /\ e.domain \in Domains
    BY <2>4, <2>5 DEF GoodList, DomainEntry
  <2> HIDE DEF new
  <2>7. x \in Setting /\ Related(db.dom[s], x)
    BY <2>5, <2>6 DEF Setting, Related
  <2>8. /\ Documents \subseteq DOMAIN alone /\ alone.part = db.part /\ alone.life = db.life
        /\ alone.dom = [db.dom EXCEPT ![s] = x]
        /\ alone.hsmDomain = db.hsmDomain /\ alone.obj = db.obj
    BY <1>2, <2>2, ZenonT(40) DEF Plain, Documents
  <2> HIDE DEF x, alone
  <2>9. ASSUME NEW left \in SUBSET db.obj[s], NEW c, c = [alone EXCEPT !.obj[s] = left]
        PROVE  Follows(db, c)
    <3>1. /\ Documents \subseteq DOMAIN c /\ c.part = db.part /\ c.life = db.life
          /\ c.dom = [db.dom EXCEPT ![s] = x] /\ c.hsmDomain = db.hsmDomain
          /\ c.obj = [db.obj EXCEPT ![s] = left]
      BY <2>8, <2>9 DEF Documents
    <3>2. DOMAIN c.obj = Slots /\ \A r \in Slots : c.obj[r] \subseteq db.obj[r]
      BY <3>1 DEF Typed
    <3> QED BY <2>3, <2>7, <3>1, <3>2, RelatedFollows
  <2>10. Follows(db, alone)
    BY <2>3, <2>7, <2>8, RelatedFollows DEF Typed
  <2>11. Follows(db, final) /\ \A c \in Erasing(alone, s) : Follows(db, c)
    BY <2>8, <2>9 DEF Erasing
  <2>12. Follows(db, saved)
    BY <1>2, PlainFollows
  <2> HIDE DEF final
  <2>13. Commit(t, final, Erasing(alone, s)) \/ Commit(t, alone, {saved})
    BY <1>1
  <2> QED BY <2>10, <2>11, <2>12, <2>13, FollowsStops, CommitResult
<1> QED BY <1>3, <1>4

LEMMA ShowDomainResult == ASSUME Typed(db), NEW t, ShowDomain(t) PROVE Result
<1> DEFINE made == [db EXCEPT !.hsmDomain = OwnDomain]
<1>1. /\ Documents \subseteq DOMAIN made /\ made.part = db.part /\ made.life = db.life
      /\ made.dom = db.dom /\ made.obj = db.obj /\ made.hsmDomain = OwnDomain
  BY DEF Typed, Documents
<1>2. WithHsmDomain(db) = db \/ (db.hsmDomain = None /\ WithHsmDomain(db) = made)
  BY DEF WithHsmDomain
<1> HIDE DEF made
<1>3. ASSUME db.hsmDomain = None PROVE Follows(db, made)
  <2>1. HsmKept(db, made)
    BY <1>1, <1>3, PartitionsAssumption DEF HsmKept
  <2>2. DOMAIN made.obj = Slots /\ \A s \in Slots : db.part[s] = None => made.obj[s] = {}
    BY <1>1 DEF Typed
  <2> QED BY <1>1, <2>1, <2>2, Alike
<1>4. Follows(db, db)
  BY PlainFollows DEF Plain, Typed
<1>5. Commit(t, WithHsmDomain(db), {})
  BY DEF ShowDomain
<1> QED BY <1>2, <1>3, <1>4, <1>5, CommitResult

LEMMA PartitionStepResult ==
  ASSUME Typed(db), ListsOK, NEW t, PartitionStep(t)
  PROVE  Result
<1>1. CASE LunaShPartition(t) \/ LunaCmPartition(t)
  BY <1>1, CreatePartitionResult, DeletePartitionResult, RolesResult, ObjectsResult,
     InitTokenResult
     DEF LunaShPartition, LunaCmPartition, InitPartition
<1>2. CASE LunaShContents(t) \/ LunaCmPolicy(t)
  BY <1>2, ObjectsResult, ChangePolicyResult DEF LunaShContents, LunaCmPolicy
<1>3. CASE LunaShDomain(t)
  BY <1>3, ShowDomainResult, SetPartitionDomainResult, SetHsmDomainResult DEF LunaShDomain
<1>4. CASE LunaCmDomain(t)
  BY <1>4, SetPartitionDomainResult, AddDomainResult, DeleteDomainResult, RenameDomainResult
     DEF LunaCmDomain
<1>5. CASE LunaCmSmk(t)
  BY <1>5, MasterKeysResult DEF LunaCmSmk
<1>6. CASE TemplateCommand(t) \/ FirmwareCommand(t)
  BY <1>6, TemplatesResult DEF TemplateCommand, FirmwareCommand, RollbackFirmware
<1>7. CASE Application(t)
  BY <1>7, RolesResult, ObjectsResult DEF Application
<1> QED BY <1>1, <1>2, <1>3, <1>4, <1>5, <1>6, <1>7 DEF PartitionStep

-----------------------------------------------------------------------------
(* The HSM's commands and the backup HSM's.                                *)

LEMMA NothingLeft ==
  ASSUME Typed(db), NEW e, Documents \subseteq DOMAIN e,
         e.part = Empty.part, e.obj = Empty.obj, e.life \in {db.life, Empty.life},
         e.dom \in {db.dom, Empty.dom}, e.hsmDomain \in Domains \cup {None}
  PROVE  Stopped(db, e) /\ (e.life = Empty.life => Follows(db, e))
<1>1. /\ Empty.part = [s \in Slots |-> None] /\ Empty.life = [s \in Slots |-> None]
      /\ Empty.dom = [s \in Slots |-> None] /\ Empty.obj = [s \in Slots |-> {}]
  BY DEF Empty
<1>2. Typed(e)
  BY <1>1 DEF Typed
<1>3. Keeps(db, e)
  BY <1>1 DEF Keeps, KeepsAt
<1>4. Sound(e) \/ "entry" \in Orphans(e)
  <2>1. CASE \A s \in Slots : e.life[s] = None
    BY <1>1, <2>1 DEF Sound, SoundAt
  <2>2. CASE \E s \in Slots : e.life[s] # None
    BY <1>1, <2>2 DEF Orphans
  <2> QED BY <2>1, <2>2
<1>5. e.life = Empty.life => Sound(e)
  BY <1>1 DEF Sound, SoundAt
<1> QED BY <1>2, <1>3, <1>4, <1>5 DEF Follows, Stopped

\* Some of the rows and their objects; their entries and domains come later.
LEMMA RowsStopped ==
  ASSUME Typed(db), NEW gone \in SUBSET Slots, NEW e,
         e = [db EXCEPT !.part = [s \in Slots |-> IF s \in gone THEN None ELSE @[s]],
                        !.obj = [s \in Slots |-> IF s \in gone THEN {} ELSE @[s]]]
  PROVE  Stopped(db, e)
<1>1. /\ Documents \subseteq DOMAIN e /\ e.life = db.life /\ e.dom = db.dom
      /\ e.hsmDomain = db.hsmDomain
      /\ e.part = [s \in Slots |-> IF s \in gone THEN None ELSE db.part[s]]
      /\ e.obj = [s \in Slots |-> IF s \in gone THEN {} ELSE db.obj[s]]
  BY DEF Typed, Documents
<1>2. Typed(e)
  BY <1>1 DEF Typed
<1>3. \A s : DomainOf(e, s) = DomainOf(db, s)
  BY <1>1 DEF DomainOf
<1>4. Keeps(db, e)
  BY <1>3 DEF Keeps, KeepsAt, DomainsOf
<1>5. Sound(db) => Sound(e) \/ "entry" \in Orphans(e)
  <2>1. CASE \A s \in gone : e.life[s] = None
    <3> SUFFICES ASSUME Sound(db), NEW s \in Slots PROVE SoundAt(e, s)
      BY DEF Sound
    <3>1. CASE s \in gone
      <4>1. e.part[s] = None /\ e.life[s] = None
        BY <1>1, <2>1, <3>1
      <4> QED BY <4>1 DEF SoundAt
    <3>2. CASE s \notin gone
      <4>1. e.part[s] = db.part[s] /\ e.life[s] = db.life[s]
        BY <1>1, <3>2
      <4> QED BY <1>3, <4>1 DEF Sound, SoundAt
    <3> QED BY <3>1, <3>2
  <2>2. CASE \E s \in gone : e.life[s] # None
    BY <1>1, <2>2 DEF Orphans
  <2> QED BY <2>1, <2>2
<1> QED BY <1>2, <1>4, <1>5 DEF Stopped

LEMMA ErasedResult ==
  ASSUME Typed(db)
  PROVE  /\ Follows(db, db)
         /\ Follows(db, Erased(db)) /\ Follows(db, [Erased(db) EXCEPT !.hsmDomain = None])
         /\ \A e \in HalfErased(db) : Stopped(db, e)
<1>1. Follows(db, db)
  BY PlainFollows DEF Plain, Typed
<1>2. /\ Documents \subseteq DOMAIN Erased(db) /\ Erased(db).part = Empty.part
      /\ Erased(db).obj = Empty.obj /\ Erased(db).life = Empty.life
      /\ Erased(db).dom = Empty.dom /\ Erased(db).hsmDomain = db.hsmDomain
  BY DEF Erased, Typed, Documents
<1>3. Follows(db, Erased(db))
  BY <1>2, NothingLeft DEF Typed
<1>4. Follows(db, [Erased(db) EXCEPT !.hsmDomain = None])
  <2> DEFINE end == [Erased(db) EXCEPT !.hsmDomain = None]
  <2>1. /\ Documents \subseteq DOMAIN end /\ end.part = Empty.part
        /\ end.obj = Empty.obj /\ end.life = Empty.life /\ end.dom = Empty.dom
        /\ end.hsmDomain = None
    BY <1>2 DEF Documents
  <2> HIDE DEF end
  <2>2. Follows(db, end)
    BY <2>1, NothingLeft
  <2> QED BY <2>2 DEF end
<1>5. ASSUME NEW e \in HalfErased(db) PROVE Stopped(db, e)
  <2> DEFINE all == [db EXCEPT !.part = Empty.part, !.obj = Empty.obj, !.dom = Empty.dom]
             last == [all EXCEPT !.life = Empty.life]
  <2>1. \/ e = all \/ e = last
        \/ \E gone \in SUBSET Slots :
             e = [db EXCEPT !.part = [s \in Slots |-> IF s \in gone THEN None ELSE @[s]],
                            !.obj = [s \in Slots |-> IF s \in gone THEN {} ELSE @[s]]]
    BY <1>5 DEF HalfErased
  <2>2. /\ Documents \subseteq DOMAIN all /\ all.part = Empty.part /\ all.obj = Empty.obj
        /\ all.life = db.life /\ all.dom = Empty.dom /\ all.hsmDomain = db.hsmDomain
    BY DEF Typed, Documents
  <2> HIDE DEF all
  <2>3. /\ Documents \subseteq DOMAIN last /\ last.part = Empty.part /\ last.obj = Empty.obj
        /\ last.life = Empty.life /\ last.dom = Empty.dom /\ last.hsmDomain = db.hsmDomain
    BY <2>2 DEF Documents
  <2> HIDE DEF last
  <2>4. Stopped(db, all) /\ Stopped(db, last)
    BY <2>2, <2>3, NothingLeft DEF Typed
  <2> QED BY <2>1, <2>4, RowsStopped
<1> QED BY <1>1, <1>3, <1>4, <1>5

LEMMA CommitAllResult ==
  ASSUME NEW t, NEW d, NEW a, NEW loggedIn, NEW partial, NEW erase,
         CommitAll(t, d, a, loggedIn, partial, erase),
         Follows(db, d), \A p \in partial : Stopped(db, p[1])
  PROVE  Result
<1>1. CASE db' = d /\ UNCHANGED torn
  <2> SUFFICES Follows(db, db')
    BY <1>1 DEF Follows, Result
  <2> QED BY <1>1
<1>2. CASE /\ \E p \in partial : db' = p[1]
           /\ torn \subseteq torn' /\ Orphans(db') \subseteq torn'
  <2>1. Stopped(db, db')
    BY <1>2
  <2> QED BY <1>2, <2>1 DEF Stopped, Result
<1> QED BY <1>1, <1>2 DEF CommitAll

LEMMA SaveResult ==
  ASSUME Typed(db), NEW t, NEW a, NEW first, NEW loggedIn,
         SaveAdmin(t, a, loggedIn) \/ SaveAfter(t, first, a, loggedIn)
  PROVE  Result
<1>1. Follows(db, db)
  BY ErasedResult
<1>2. UNCHANGED db /\ torn \subseteq torn'
  BY DEF SaveAdmin, SaveAfter, CommitAll
<1>3. Follows(db, db')
  BY <1>1, <1>2
<1> QED BY <1>2, <1>3 DEF Follows, Result

LEMMA EraseResult ==
  ASSUME Typed(db), NEW t,
         \/ \E a : ZeroizeFrom(t, a)
         \/ FactoryReset(t)
         \/ \E mode, pin : HsmInit(t, mode, pin)
         \/ \E v : ChangeHsmPolicy(t, v)
  PROVE  Result
<1> DEFINE end == [Erased(db) EXCEPT !.hsmDomain = None]
<1>1. /\ Follows(db, Erased(db)) /\ Stopped(db, Erased(db)) /\ Follows(db, end)
      /\ \A e \in HalfErased(db) : Stopped(db, e)
  BY ErasedResult, FollowsStops
<1> HIDE DEF end
<1>2. ASSUME NEW as, NEW bs
      PROVE  \A p \in (HalfErased(db) \X as) \cup ({Erased(db)} \X bs) : Stopped(db, p[1])
  BY <1>1
<1>3. ASSUME NEW a, ZeroizeFrom(t, a) PROVE Result
  <2> DEFINE gone == ZeroizedPed(a)
  <2>1. CommitAll(t, Erased(db), ZeroizedHsm(gone), FALSE,
                  (HalfErased(db) \X {a}) \cup ({Erased(db)} \X {a, gone}), TRUE)
    BY <1>3 DEF ZeroizeFrom
  <2> HIDE DEF gone
  <2> QED BY <1>1, <1>2, <2>1, CommitAllResult
<1>4. CASE FactoryReset(t)
  <2>1. PICK as, bs, last, f :
          CommitAll(t, end, f, FALSE,
                    (HalfErased(db) \X as) \cup ({Erased(db)} \X bs) \cup {<<end, last>>}, TRUE)
    BY <1>4 DEF FactoryReset, end
  <2>2. \A p \in (HalfErased(db) \X as) \cup ({Erased(db)} \X bs) \cup {<<end, last>>} :
          Stopped(db, p[1])
    <3>1. Stopped(db, end)
      BY <1>1, FollowsStops
    <3>2. \A p \in {<<end, last>>} : Stopped(db, p[1])
      BY <3>1
    <3> QED BY <1>2, <3>2
  <2> QED BY <1>1, <2>1, <2>2, CommitAllResult
<1>5. ASSUME NEW mode, NEW pin, HsmInit(t, mode, pin) PROVE Result
  <2>1. \A p \in HalfErased(db) \X {admin} : Stopped(db, p[1])
    BY <1>1
  <2>2. \/ CommitAll(t, Erased(db), admin, shell[t].so, HalfErased(db) \X {admin}, TRUE)
        \/ \E f, bs : CommitAll(t, Erased(db), f, FALSE,
                                (HalfErased(db) \X {admin}) \cup ({Erased(db)} \X bs), TRUE)
    BY <1>5 DEF HsmInit
  <2> QED BY <1>1, <1>2, <2>1, <2>2, CommitAllResult
<1>6. ASSUME NEW v, ChangeHsmPolicy(t, v) PROVE Result
  <2> DEFINE saved == [admin EXCEPT !.policy = v]
  <2>1. \A p \in HalfErased(db) \X {saved} : Stopped(db, p[1])
    BY <1>1
  <2>2. \/ SaveAdmin(t, saved, TRUE)
        \/ CommitAll(t, Erased(db), saved, TRUE, HalfErased(db) \X {saved}, TRUE)
    BY <1>6 DEF ChangeHsmPolicy
  <2> HIDE DEF saved
  <2> QED BY <1>1, <2>1, <2>2, SaveResult, CommitAllResult
<1> QED BY <1>3, <1>4, <1>5, <1>6

LEMMA HsmStepResult ==
  ASSUME Typed(db), NEW t, HsmCommand(t) \/ PedCommand(t) \/ PedKey(t)
  PROVE  Result
<1>1. CASE PedCommand(t) \/ PedKey(t)
  BY <1>1, SaveResult
     DEF PedCommand, PedKey, ConnectPed, DisconnectPed, CreateKeySet, DuplicateKey, LoseKey
<1>2. CASE HsmLoginPed(t) \/ HsmLogout(t) \/ HsmInitAborted(t)
  BY <1>2, SaveResult DEF HsmLoginPed, HsmLogout, HsmInitAborted
<1>3. ASSUME NEW pin, HsmLogin(t, pin) PROVE Result
  <2> DEFINE a == Migrated
  <2>1. \/ SaveAdmin(t, a, FALSE)
        \/ SaveAfter(t, a, [a EXCEPT !.hsm.failed = 0], TRUE)
        \/ Failed(t, a)
    BY <1>3 DEF HsmLogin
  <2> HIDE DEF a
  <2>2. CASE Failed(t, a)
    BY <2>2, SaveResult, EraseResult DEF Failed
  <2> QED BY <2>1, <2>2, SaveResult
<1>4. CASE \/ FactoryReset(t) \/ Zeroize(t)
           \/ \E mode, pin : HsmInit(t, mode, pin)
           \/ \E v : ChangeHsmPolicy(t, v)
  BY <1>4, EraseResult DEF Zeroize
<1> QED BY <1>1, <1>2, <1>3, <1>4 DEF HsmCommand

LEMMA BackupResult ==
  ASSUME Typed(db), NEW t, BackupCommand(t)
  PROVE  Result
<1>1. ASSUME UNCHANGED <<db, torn>> PROVE Result
  <2>1. Follows(db, db)
    BY ErasedResult
  <2>2. Follows(db, db')
    BY <1>1, <2>1
  <2> QED BY <1>1, <2>2 DEF Result, Follows
<1>2. ASSUME NEW s \in Slots, NEW d, NEW ls, RestoreObjects(t, s, d, ls) PROVE Result
  <2>1. PICK objs : db' = [db EXCEPT !.obj[s] = objs]
    BY <1>2 DEF RestoreObjects
  <2>2. db.part[s] # None /\ UNCHANGED torn
    BY <1>2 DEF RestoreObjects, Present
  <2>3. Plain(db)
    BY DEF Plain, Typed
  <2>4. Follows(db, db')
    BY <2>1, <2>2, <2>3, StoredFollows DEF Plain
  <2> QED BY <2>2, <2>4 DEF Result, Follows
<1>3. ASSUME NEW s, NEW d, NEW ls, BackupObjects(t, s, d, ls) PROVE Result
  BY <1>1, <1>3 DEF BackupObjects, BackupCommit
<1>4. CASE \/ \E d \in Domains : CreateBackupPartition(t, d)
           \/ \E pin \in Pins : BackupInit(t, pin) \/ BackupLogin(t, pin)
           \/ BackupFactoryReset(t) \/ BackupLogout(t)
  BY <1>1, <1>4 DEF CreateBackupPartition, BackupInit, BackupLogin, BackupFactoryReset,
                    BackupLogout, BackupCommit
<1>5. CASE LunaCmBackupDevice(t)
  BY <1>1, <1>5 DEF LunaCmBackupDevice, BackupConnect, BackupDisconnect, StmRecover,
                    UpgradeBackupFirmware, RollbackBackupFirmware, BackupCommit
<1> QED BY <1>2, <1>3, <1>4, <1>5 DEF BackupCommand, LunaCmBackup, LunaShTokenBackup

-----------------------------------------------------------------------------
(* The invariant.                                                          *)

ReadyInv == ListsOK /\ Typed(db) /\ ("entry" \notin torn => Sound(db))

LEMMA ReadyStart == Init => ReadyInv
<1> SUFFICES ASSUME Init PROVE Typed(db) /\ Sound(db)
  BY ListsStart DEF ReadyInv
<1>1. db = Empty
  BY DEF Init, PartInit
<1>2. /\ Documents \subseteq DOMAIN Empty /\ Empty.hsmDomain = None
      /\ Empty.part = [s \in Slots |-> None] /\ Empty.life = [s \in Slots |-> None]
      /\ Empty.dom = [s \in Slots |-> None] /\ Empty.obj = [s \in Slots |-> {}]
  BY DEF Empty, Documents
<1>3. Typed(Empty) /\ Sound(Empty)
  BY <1>2 DEF Typed, Sound, SoundAt
<1> QED BY <1>1, <1>3

LEMMA NextResult ==
  ASSUME ReadyInv, Next
  PROVE  Result
BY PartitionStepResult, HsmStepResult, BackupResult DEF Next, ReadyInv

LEMMA ReadyStep ==
  ASSUME ReadyInv, [Next]_vars
  PROVE  ReadyInv'
<1>1. ListsOK'
  BY ListsStep DEF ReadyInv
<1>2. CASE Next
  <2>1. Result
    BY <1>2, NextResult
  <2>2. Typed(db') /\ ("entry" \notin torn' => Sound(db'))
    BY <2>1 DEF Result, ReadyInv
  <2>3. (Typed(db) /\ ("entry" \notin torn => Sound(db)))'
    BY <2>2 DEF Typed, Sound, SoundAt, DomainOf
  <2> QED BY <1>1, <2>3 DEF ReadyInv
<1>3. CASE UNCHANGED vars
  BY <1>1, <1>3 DEF vars, partVars, ReadyInv, Typed, Sound, SoundAt, DomainOf
<1> QED BY <1>2, <1>3

\* A partition the lifecycle reports as ready has a cloning domain: through
\* creation, deletion and the use of its slot again, initialization that is
\* refused or stopped half way, inheriting, the HSM's change of its own domain,
\* and erasure, unless a stopped deletion left an entry behind
\* (LifecycleManager.get_state and mark_domain_initialized of
\* hsm/lifecycle.py, init_token of token.py, hsm/domain.py).
THEOREM ReadyAlwaysHasDomain == Spec => []ReadyHasDomain
<1>1. ReadyInv /\ [Next]_vars => ReadyInv'
  BY ReadyStep
<1>2. ReadyInv => ReadyHasDomain
  <2> SUFFICES ASSUME Typed(db), Sound(db), NEW s \in Slots, Present(s), Ready(db, s)
               PROVE  DomainOf(db, s) # None
    BY DEF ReadyInv, ReadyHasDomain
  <2>1. EntryOf(db, s).domain
    BY DEF Ready
  <2> QED BY <2>1, EntryThere DEF Present
<1> QED BY ReadyStart, <1>1, <1>2, PTL DEF Spec

\* No command leaves a partition with objects and none of the domains it had:
\* one that would (set_partition_domain, set_hsm_domain and init_token) erases
\* or refuses first, one that only adds, deletes, renames or collapses keeps a
\* domain (hsm/domain.py), and so wherever a shell is stopped between its saves.
THEOREM ObjectsAlwaysKeepADomain == Spec => ObjectsKeepADomain
<1> DEFINE Kept == \A s \in Slots : KeepsAt(db, db', s)
<1>1. ReadyInv /\ [Next]_vars => ReadyInv'
  BY ReadyStep
<1>2. ReadyInv /\ [Next]_vars => [Kept]_partVars
  <2>1. CASE Next
    BY <2>1, NextResult DEF Result, Keeps
  <2>2. CASE UNCHANGED vars
    BY <2>2 DEF vars
  <2> QED BY <2>1, <2>2
<1>3. Spec => [][Kept]_partVars
  BY ReadyStart, <1>1, <1>2, PTL DEF Spec
<1> QED BY <1>3 DEF KeepsAt, DomainsOf, ObjectsKeepADomain
=============================================================================
