--------------------------- MODULE StorageProofs ---------------------------
(***************************************************************************)
(* Proofs about Storage, for every number of processes and every quota.    *)
(***************************************************************************)
EXTENDS Storage, FiniteSetTheorems, TLAPS

-----------------------------------------------------------------------------
(* Handles.                                                                *)

LEMMA Stored ==
  ASSUME NEW p, NEW h, StoreAt(p, h)
  PROVE  \A k \in Used \cap Used' : k # h => objects'[k] = objects[k]
BY DEF StoreAt, Used

\* No interleaving of the calls of any number of processes replaces an object
\* under its handle: the primary key of the objects' table (KeyStore.store)
\* refuses a handle that was chosen from what was read before and has been
\* used since.
THEOREM HandlesKept == Spec => HandleKeepsObject
<1> DEFINE Kept == \A h \in Used \cap Used' : objects'[h] = objects[h]
<1>1. [Next]_vars => Kept
  <2> SUFFICES ASSUME [Next]_vars PROVE Kept
    OBVIOUS
  <2>1. ASSUME UNCHANGED objects PROVE Kept
    BY <2>1
  <2>2. ASSUME NEW p \in Processes, InsertObject(p) PROVE Kept
    BY <2>1, <2>2, Stored DEF InsertObject
  <2>3. ASSUME NEW p \in Processes, DeleteObject(p) PROVE Kept
    BY <2>3 DEF DeleteObject, Used
  <2>4. CASE UNCHANGED vars
    BY <2>1, <2>4 DEF vars
  <2>5. ASSUME NEW p \in Processes,
               \/ C_CreateObject(p) \/ C_CopyObject(p) \/ C_GenerateKey(p)
               \/ C_GenerateKeyPair(p) \/ \E h \in Used : C_DestroyObject(p, h)
               \/ Allocate(p) \/ AllocateAgain(p) \/ CountObjects(p)
               \/ ReadLastHash(p) \/ InsertAudit(p) \/ ClearAuditLogs(p) \/ Stop(p)
        PROVE  UNCHANGED objects
    BY <2>5 DEF C_CreateObject, C_CopyObject, C_GenerateKey, C_GenerateKeyPair, C_DestroyObject,
                Allocate, AllocateAgain, CountObjects, ReadLastHash, InsertAudit,
                ClearAuditLogs, Stop
  <2> QED BY <2>1, <2>2, <2>3, <2>4, <2>5 DEF Next
<1> QED BY <1>1, PTL DEF Spec, HandleKeepsObject

-----------------------------------------------------------------------------
(* The quota.  A process that has counted has a reservation until it       *)
(* stores or gives up; it counted fewer objects than the quota, so what is *)
(* stored and what is reserved together exceed it by less than the number  *)
(* of processes.                                                           *)

Reserved == {p \in Processes : call[p].at = "insert"}

CallShape ==
  call = [p \in Processes |-> call[p]] /\ \A p \in Processes : "at" \in DOMAIN call[p]

QInv ==
  /\ CallShape
  /\ IsFiniteSet(Used)
  /\ Cardinality(Used) + Cardinality(Reserved) <= MaxObjects + Cardinality(Processes) - 1

LEMMA Sizes ==
  /\ IsFiniteSet(Reserved) /\ Cardinality(Reserved) \in Nat
  /\ Cardinality(Reserved) <= Cardinality(Processes)
  /\ Cardinality(Processes) \in Nat /\ MaxObjects \in Nat /\ MaxObjects >= 1
BY StorageAssumption, FS_Subset, FS_CardinalityType DEF Reserved

\* Where a process is changes Reserved for that process alone.
LEMMA ReservedMoves ==
  ASSUME CallShape, NEW p \in Processes, NEW c, "at" \in DOMAIN c, call' = [call EXCEPT ![p] = c]
  PROVE  /\ CallShape'
         /\ c.at # "insert" => Reserved' = Reserved \ {p}
         /\ c.at = "insert" => Reserved' = Reserved \cup {p}
<1>1. \A q \in Processes : call'[q] = IF q = p THEN c ELSE call[q]
  BY DEF CallShape
<1>2. call' = [q \in Processes |-> call'[q]]
  BY DEF CallShape
<1> QED BY <1>1, <1>2 DEF CallShape, Reserved

\* A statement that takes no reservation.
LEMMA NoReservation ==
  ASSUME QInv, NEW p \in Processes, NEW c, "at" \in DOMAIN c, c.at # "insert",
         call' = [call EXCEPT ![p] = c],
         Used' \subseteq Used
  PROVE  QInv'
<1>1. CallShape' /\ Reserved' \subseteq Reserved
  <2>1. CallShape
    BY DEF QInv
  <2>2. CallShape' /\ Reserved' = Reserved \ {p}
    BY <2>1, ReservedMoves
  <2> QED BY <2>2
<1>2. /\ IsFiniteSet(Used') /\ Cardinality(Used') \in Nat
      /\ Cardinality(Used') <= Cardinality(Used)
      /\ Cardinality(Used) \in Nat
  BY FS_Subset, FS_CardinalityType DEF QInv
<1>3. Cardinality(Reserved') \in Nat /\ Cardinality(Reserved') <= Cardinality(Reserved)
  BY <1>1, Sizes, FS_Subset, FS_CardinalityType
<1> QED BY <1>1, <1>2, <1>3, Sizes DEF QInv

LEMMA Counted ==
  ASSUME QInv, NEW p \in Processes, CountObjects(p)
  PROVE  QInv'
<1>1. "at" \in DOMAIN call[p]
  BY DEF QInv, CallShape
<1>2. UNCHANGED Used
  BY DEF CountObjects, Used
<1>3. CASE Room
  <2> DEFINE c == [call[p] EXCEPT !.at = "insert"]
  <2>1. "at" \in DOMAIN c /\ c.at = "insert"
    BY <1>1
  <2>2. call' = [call EXCEPT ![p] = c]
    BY <1>3 DEF CountObjects, Moved
  <2> HIDE DEF c
  <2>3. CallShape' /\ Reserved' = Reserved \cup {p}
    BY <2>1, <2>2, ReservedMoves DEF QInv
  <2>4. IsFiniteSet(Reserved') /\ Cardinality(Reserved') \in Nat
        /\ Cardinality(Reserved') <= Cardinality(Processes)
    <3>1. Reserved' \subseteq Processes
      BY DEF Reserved
    <3> QED BY <3>1, StorageAssumption, FS_Subset, FS_CardinalityType
  <2>5. Cardinality(Used) < MaxObjects /\ Cardinality(Used) \in Nat
    BY <1>3, FS_CardinalityType DEF Room, QInv
  <2> QED BY <1>2, <2>3, <2>4, <2>5, Sizes DEF QInv
<1>4. CASE ~Room
  <2>1. "at" \in DOMAIN Idle /\ Idle.at # "insert" /\ call' = [call EXCEPT ![p] = Idle]
    BY <1>4 DEF CountObjects, Idle
  <2> QED BY <1>2, <2>1, NoReservation
<1> QED BY <1>3, <1>4

\* An object takes the place of its reservation.
LEMMA Inserted ==
  ASSUME QInv, NEW p \in Processes, InsertObject(p)
  PROVE  QInv'
<1>1. "at" \in DOMAIN call[p]
  BY DEF QInv, CallShape
<1>2. CASE call[p].handle \in Used
  <2>1. "at" \in DOMAIN Idle /\ Idle.at # "insert" /\ call' = [call EXCEPT ![p] = Idle]
    BY <1>2 DEF InsertObject, Idle
  <2>2. UNCHANGED Used
    BY <1>2 DEF InsertObject, Used
  <2> QED BY <2>1, <2>2, NoReservation
<1>3. CASE call[p].handle \notin Used
  <2> DEFINE h == call[p].handle
             next == IF call[p].left = 1 THEN "last hash" ELSE "store"
             c == [call[p] EXCEPT !.left = call[p].left - 1, !.at = next]
  <2>1. Used' = Used \cup {h}
    BY <1>3 DEF InsertObject, StoreAt, Used
  <2>2. call' = [call EXCEPT ![p] = c]
    BY <1>3 DEF InsertObject, StoreAt
  <2>3. "at" \in DOMAIN c /\ c.at # "insert"
    BY <1>1
  <2> HIDE DEF c
  <2>4. CallShape' /\ Reserved' = Reserved \ {p}
    BY <2>2, <2>3, ReservedMoves DEF QInv
  <2>5. p \in Reserved
    BY DEF InsertObject, Reserved
  <2>6. Cardinality(Reserved') = Cardinality(Reserved) - 1
    BY <2>4, <2>5, Sizes, FS_RemoveElement
  <2>7. IsFiniteSet(Used') /\ Cardinality(Used') = Cardinality(Used) + 1
    BY <1>3, <2>1, FS_AddElement DEF QInv
  <2>8. Cardinality(Used) \in Nat
    BY FS_CardinalityType DEF QInv
  <2> QED BY <2>4, <2>6, <2>7, <2>8, Sizes DEF QInv
<1> QED BY <1>2, <1>3

LEMMA Others ==
  ASSUME QInv, NEW p \in Processes,
         \/ C_CreateObject(p) \/ C_CopyObject(p) \/ C_GenerateKey(p) \/ C_GenerateKeyPair(p)
         \/ \E h \in Used : C_DestroyObject(p, h)
         \/ Allocate(p) \/ AllocateAgain(p) \/ DeleteObject(p)
         \/ ReadLastHash(p) \/ InsertAudit(p) \/ Stop(p)
  PROVE  QInv'
<1>0. "at" \in DOMAIN call[p] /\ "at" \in DOMAIN Idle
  BY DEF QInv, CallShape, Idle
<1>1. Used' \subseteq Used
  BY DEF C_CreateObject, C_CopyObject, C_GenerateKey, C_GenerateKeyPair, C_DestroyObject,
         Allocate, AllocateAgain, DeleteObject, ReadLastHash, InsertAudit, Stop, Used
<1>2. ASSUME NEW name, NEW at, NEW left, at # "insert", Begun(p, name, at, left) PROVE QInv'
  <2> DEFINE c == [Idle EXCEPT !.at = at, !.name = name, !.left = left]
  <2>1. "at" \in DOMAIN c /\ c.at # "insert" /\ call' = [call EXCEPT ![p] = c]
    BY <1>2 DEF Begun, Idle
  <2> HIDE DEF c
  <2> QED BY <1>1, <2>1, NoReservation
<1>3. CASE C_CreateObject(p) \/ C_CopyObject(p) \/ C_GenerateKey(p) \/ C_GenerateKeyPair(p)
  BY <1>2, <1>3 DEF C_CreateObject, C_CopyObject, C_GenerateKey, C_GenerateKeyPair
<1>4. ASSUME NEW h \in Used, C_DestroyObject(p, h) PROVE QInv'
  <2> DEFINE c == [Idle EXCEPT !.at = "delete", !.name = "C_DestroyObject", !.first = h, !.handle = h]
  <2>1. "at" \in DOMAIN c /\ c.at # "insert" /\ call' = [call EXCEPT ![p] = c]
    BY <1>4 DEF C_DestroyObject, Idle
  <2> HIDE DEF c
  <2> QED BY <1>1, <2>1, NoReservation
<1>5. ASSUME NEW at, at # "insert", Moved(p, at) PROVE QInv'
  <2> DEFINE c == [call[p] EXCEPT !.at = at]
  <2>1. "at" \in DOMAIN c /\ c.at # "insert" /\ call' = [call EXCEPT ![p] = c]
    BY <1>0, <1>5 DEF Moved
  <2> HIDE DEF c
  <2> QED BY <1>1, <2>1, NoReservation
<1>6. CASE Allocate(p)
  <2> DEFINE c == [call[p] EXCEPT !.first = NextHandle, !.at = "store"]
  <2>1. "at" \in DOMAIN c /\ c.at # "insert" /\ call' = [call EXCEPT ![p] = c]
    BY <1>0, <1>6 DEF Allocate
  <2> HIDE DEF c
  <2> QED BY <1>1, <2>1, NoReservation
<1>7. CASE AllocateAgain(p)
  <2> DEFINE f == IF call[p].name \in {"C_GenerateKey", "C_GenerateKeyPair"}
                  THEN NextHandle ELSE call[p].first
             c == [call[p] EXCEPT !.handle = NextHandle, !.at = "count", !.first = f]
  <2>1. "at" \in DOMAIN c /\ c.at # "insert" /\ call' = [call EXCEPT ![p] = c]
    BY <1>0, <1>7 DEF AllocateAgain
  <2> HIDE DEF c
  <2> QED BY <1>1, <2>1, NoReservation
<1>8. CASE DeleteObject(p)
  BY <1>5, <1>8 DEF DeleteObject
<1>9. CASE ReadLastHash(p)
  <2> DEFINE c == [call[p] EXCEPT !.last = LastHash, !.at = "append"]
  <2>1. "at" \in DOMAIN c /\ c.at # "insert" /\ call' = [call EXCEPT ![p] = c]
    BY <1>0, <1>9 DEF ReadLastHash
  <2> HIDE DEF c
  <2> QED BY <1>1, <2>1, NoReservation
<1>10. CASE InsertAudit(p) \/ Stop(p)
  <2>1. Idle.at # "insert" /\ call' = [call EXCEPT ![p] = Idle]
    BY <1>10 DEF InsertAudit, Stop, Idle
  <2> QED BY <1>0, <1>1, <2>1, NoReservation
<1> QED BY <1>3, <1>4, <1>6, <1>7, <1>8, <1>9, <1>10

\* The quota of a partition (KeyStore.store counts, then inserts) is exceeded
\* by one object for every process but one, and never by more: for any quota
\* and any number of processes, at whichever statement each of them is.
THEOREM QuotaBounded == Spec => []QuotaOverrun
<1>1. Init => QInv
  <2> SUFFICES ASSUME Init PROVE QInv
    OBVIOUS
  <2>1. CallShape /\ \A p \in Processes : call[p].at # "insert"
    BY DEF Init, Idle, CallShape
  <2>2. Used = {} /\ Reserved = {}
    BY <2>1 DEF Init, Used, Reserved
  <2> QED BY <2>1, <2>2, Sizes, FS_EmptySet DEF QInv
<1>2. QInv /\ [Next]_vars => QInv'
  <2> SUFFICES ASSUME QInv, [Next]_vars PROVE QInv'
    OBVIOUS
  <2>1. ASSUME UNCHANGED <<objects, call>> PROVE QInv'
    BY <2>1 DEF QInv, CallShape, Used, Reserved
  <2>2. ASSUME NEW p \in Processes, ClearAuditLogs(p) PROVE QInv'
    BY <2>1, <2>2 DEF ClearAuditLogs
  <2>3. CASE UNCHANGED vars
    BY <2>1, <2>3 DEF vars
  <2> QED BY <2>2, <2>3, Counted, Inserted, Others DEF Next
<1>3. QInv => QuotaOverrun
  <2> SUFFICES ASSUME QInv PROVE QuotaOverrun
    OBVIOUS
  <2>1. Cardinality(Used) \in Nat
    BY FS_CardinalityType DEF QInv
  <2> QED BY <2>1, Sizes DEF QInv, QuotaOverrun
<1> QED BY <1>1, <1>2, <1>3, PTL DEF Spec
=============================================================================
