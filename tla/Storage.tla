------------------------------ MODULE Storage -------------------------------
(***************************************************************************)
(* The database (storage/db.py) under several processes: the handles, the  *)
(* quota and the audit chain as the object calls of pkcs11/api.py use them *)
(* through hsm/keystore.py and hsm/audit.py.  Every statement is a         *)
(* transaction of its own: what a call read may have changed when it       *)
(* writes.  Objects are of one partition.                                  *)
(***************************************************************************)
EXTENDS Integers, FiniteSets, Sequences, FiniteSetsExt

CONSTANTS
  Processes,
  MaxObjects,   \* the partition's quota
  MaxHandle,    \* bound: no call begins above this handle
  MaxLog        \* bound: nor with this many entries in the log; chains have one more

ASSUME StorageAssumption ==
  {MaxObjects, MaxHandle, MaxLog} \subseteq Nat \ {0} /\ IsFiniteSet(Processes)

VARIABLES
  objects,   \* handle -> the process that stored the object there
  log,       \* the audit entries in the order of their ids: what each says and its
             \* hash, which stands for everything hashed into it, in order
  call,      \* process -> the call it is in and what it has read
  result     \* process -> the handle its last call returned and the one it stored at (history)

vars == <<objects, log, call, result>>

\* at: the statement that comes next; left: objects yet to store; first, handle:
\* handles it was given; last: the hash it read.
Idle == [at |-> "idle", name |-> "none", left |-> 0, first |-> 0, handle |-> 0, last |-> <<>>]

Begun(p, name, at, left) ==
  call' = [call EXCEPT ![p] = [Idle EXCEPT !.at = at, !.name = name, !.left = left]]

Used == DOMAIN objects

NextHandle == IF Used = {} THEN 1 ELSE Max(Used) + 1

LastHash == IF log = <<>> THEN <<>> ELSE log[Len(log)].hash

InBounds(p) == call[p].at = "idle" /\ NextHandle <= MaxHandle /\ Len(log) < MaxLog

Moved(p, at) == call' = [call EXCEPT ![p].at = at]

\* One object short of the quota is enough.
MutantRoom == Cardinality(Used) <= MaxObjects

Room == Cardinality(Used) < MaxObjects

(***************************************************************************)
(* The calls                                                               *)
(***************************************************************************)
C_CreateObject(p) ==
  /\ InBounds(p) /\ Room
  /\ Begun(p, "C_CreateObject", "allocate", 1) /\ UNCHANGED <<objects, log, result>>

C_CopyObject(p) ==
  /\ InBounds(p) /\ Used # {}
  /\ Begun(p, "C_CopyObject", "allocate", 1) /\ UNCHANGED <<objects, log, result>>

C_GenerateKey(p) ==
  /\ InBounds(p) /\ Room
  /\ Begun(p, "C_GenerateKey", "store", 1) /\ UNCHANGED <<objects, log, result>>

\* Wants room for both keys, then stores them one by one.
C_GenerateKeyPair(p) ==
  /\ InBounds(p) /\ Cardinality(Used) + 2 <= MaxObjects
  /\ Begun(p, "C_GenerateKeyPair", "store", 2) /\ UNCHANGED <<objects, log, result>>

C_DestroyObject(p, h) ==
  /\ InBounds(p) /\ h \in Used
  /\ call' = [call EXCEPT ![p] = [Idle EXCEPT !.at = "delete", !.name = "C_DestroyObject",
                                              !.first = h, !.handle = h]]
  /\ UNCHANGED <<objects, log, result>>

(***************************************************************************)
(* Their statements                                                        *)
(***************************************************************************)
\* The handle that C_CreateObject and C_CopyObject return.
Allocate(p) ==
  /\ call[p].at = "allocate"
  /\ call' = [call EXCEPT ![p].first = NextHandle, ![p].at = "store"]
  /\ UNCHANGED <<objects, log, result>>

\* KeyStore.store takes a handle of its own.
AllocateAgain(p) ==
  /\ call[p].at = "store"
  /\ call' = [call EXCEPT ![p].handle = NextHandle, ![p].at = "count",
       ![p].first = IF call[p].name \in {"C_GenerateKey", "C_GenerateKeyPair"}
                    THEN NextHandle ELSE @]
  /\ UNCHANGED <<objects, log, result>>

CountObjects(p) ==
  /\ call[p].at = "count"
  /\ IF Room THEN Moved(p, "insert") ELSE call' = [call EXCEPT ![p] = Idle]
  /\ UNCHANGED <<objects, log, result>>

StoreAt(p, h) ==
  /\ objects' = [k \in Used \cup {h} |-> IF k = h THEN p ELSE objects[k]]
  /\ call' = [call EXCEPT ![p].left = @ - 1,
                          ![p].at = IF call[p].left = 1 THEN "last hash" ELSE "store"]

\* INSERT OR REPLACE.
MutantInsertObject(p) ==
  /\ call[p].at = "insert" /\ StoreAt(p, call[p].handle) /\ UNCHANGED <<log, result>>

\* The handle is the primary key: one that another call has used meanwhile fails.
InsertObject(p) ==
  /\ call[p].at = "insert"
  /\ IF call[p].handle \in Used THEN call' = [call EXCEPT ![p] = Idle] /\ UNCHANGED objects
     ELSE StoreAt(p, call[p].handle)
  /\ UNCHANGED <<log, result>>

\* Whatever is there by now.
DeleteObject(p) ==
  /\ call[p].at = "delete"
  /\ objects' = [h \in Used \ {call[p].handle} |-> objects[h]]
  /\ Moved(p, "last hash") /\ UNCHANGED <<log, result>>

ReadLastHash(p) ==
  /\ call[p].at = "last hash" /\ Len(LastHash) <= MaxLog
  /\ call' = [call EXCEPT ![p].last = LastHash, ![p].at = "append"]
  /\ UNCHANGED <<objects, log, result>>

\* The entry, and the call returns.
InsertAudit(p) ==
  LET c == call[p]
      text == IF c.name = "C_DestroyObject" THEN "destroyed" ELSE "stored" IN
  /\ c.at = "append"
  /\ log' = Append(log, [said |-> text, hash |-> Append(c.last, text)])
  /\ result' = [result EXCEPT ![p] = [returned |-> c.first, stored |-> c.handle]]
  /\ call' = [call EXCEPT ![p] = Idle] /\ UNCHANGED objects

\* verify_audit_chain: every entry hashes its predecessor's hash and what it says.
Verifies ==
  \A i \in DOMAIN log :
    log[i].hash = Append(IF i = 1 THEN <<>> ELSE log[i - 1].hash, log[i].said)

ClearAuditLogs(p) == call[p].at = "idle" /\ log' = <<>> /\ UNCHANGED <<objects, call, result>>

\* A process that stops between two statements.
Stop(p) == call[p].at # "idle" /\ call' = [call EXCEPT ![p] = Idle] /\ UNCHANGED <<objects, log, result>>

Init ==
  /\ objects = [h \in {} |-> "none"] /\ log = <<>>
  /\ call = [p \in Processes |-> Idle]
  /\ result = [p \in Processes |-> [returned |-> 0, stored |-> 0]]

Next ==
  \E p \in Processes :
    \/ C_CreateObject(p) \/ C_CopyObject(p) \/ C_GenerateKey(p) \/ C_GenerateKeyPair(p)
    \/ \E h \in Used : C_DestroyObject(p, h)
    \/ Allocate(p) \/ AllocateAgain(p) \/ CountObjects(p) \/ InsertObject(p) \/ DeleteObject(p)
    \/ ReadLastHash(p) \/ InsertAudit(p) \/ ClearAuditLogs(p) \/ Stop(p)

Spec == Init /\ [][Next]_vars

(***************************************************************************)
(* Properties                                                              *)
(***************************************************************************)
\* An object is never replaced by another under its handle, although handles are
\* chosen from what was read before and a freed one is given out again: it has
\* to be destroyed first.
HandleKeepsObject ==
  [][\A h \in Used \cap Used' : objects'[h] = objects[h]]_vars

\* The quota is exceeded by the calls that counted before the others stored,
\* one object for each other process, and never by more.
QuotaOverrun == Cardinality(Used) <= MaxObjects + Cardinality(Processes) - 1

\* verify_audit_chain finds intact what nobody tampered with (README.md:178,
\* "Tamper-evident SHA-256 hash chain with verification").
ChainVerifies == Verifies

\* A call that created an object returns its handle (pkcs11/api.py:297, "Create
\* an object from a template. Returns handle.").
ReturnsItsHandle == \A p \in Processes : result[p].returned = result[p].stored
=============================================================================
