--------------------------- MODULE HsmAdminProofs ---------------------------
(***************************************************************************)
(* Proofs about HsmAdmin: the two records of every mode, login failures    *)
(* and PED key sets; what an erasure leaves of the SKS master keys, and a  *)
(* backup HSM's rollback of its backups.  For any terminals, slots,        *)
(* domains, credentials, keys and bounds, with and without shells stopped  *)
(* between their saves.                                                    *)
(***************************************************************************)
EXTENDS HsmAdmin, FiniteSetTheorems, TLAPS

-----------------------------------------------------------------------------
(* What a command saved is not forgotten: torn only grows.                 *)

LEMMA CommitGrows ==
  ASSUME NEW t, NEW final, NEW partial, Commit(t, final, partial)
  PROVE  torn \subseteq torn'
BY DEF Commit

LEMMA PartitionsGrow ==
  ASSUME NEW t, LunaShPartition(t) \/ LunaShContents(t) \/ LunaCmPartition(t)
  PROVE  torn \subseteq torn'
<1>1. ASSUME NEW n, NEW type, NEW v, CreatePartition(t, n, type, v) PROVE torn \subseteq torn'
  BY <1>1, CommitGrows DEF CreatePartition
<1>2. ASSUME NEW s, DeletePartition(t, s) PROVE torn \subseteq torn'
  BY <1>2, CommitGrows DEF DeletePartition
<1>3. ASSUME NEW s, NEW pin, NEW d, InitToken(t, s, pin, d) PROVE torn \subseteq torn'
  BY <1>3, CommitGrows DEF InitToken
<1>4. ASSUME NEW s, NEW on, SetPartitionActive(t, s, on) PROVE torn \subseteq torn'
  BY <1>4, CommitGrows DEF SetPartitionActive
<1>5. ASSUME NEW s, ClearPartition(t, s) PROVE torn \subseteq torn'
  BY <1>5, CommitGrows DEF ClearPartition
<1>6. ASSUME NEW r, NEW s, ClonePartition(t, r, s) PROVE torn \subseteq torn'
  BY <1>6, CommitGrows DEF ClonePartition
<1>7. ASSUME NEW s, NEW p, NEW v, ChangePolicy(t, s, p, v) PROVE torn \subseteq torn'
  BY <1>7, CommitGrows DEF ChangePolicy
<1> QED
  BY <1>1, <1>2, <1>3, <1>4, <1>5, <1>6, <1>7
  DEF LunaShPartition, LunaShContents, LunaCmPartition, InitPartition

LEMMA DomainsGrow ==
  ASSUME NEW t, LunaShDomain(t) \/ LunaCmSmk(t) \/ LunaCmDomain(t)
  PROVE  torn \subseteq torn'
<1>1. ASSUME NEW s, NEW c, SetPartitionDomain(t, s, c) PROVE torn \subseteq torn'
  BY <1>1, CommitGrows DEF SetPartitionDomain
<1>2. ASSUME NEW d, SetHsmDomain(t, d) PROVE torn \subseteq torn'
  BY <1>2, CommitGrows DEF SetHsmDomain
<1>3. ASSUME NEW s, NEW d, NEW l, NEW pr, AddDomain(t, s, d, l, pr) PROVE torn \subseteq torn'
  BY <1>3, CommitGrows DEF AddDomain
<1>4. ASSUME NEW s, NEW l, DeleteDomain(t, s, l) PROVE torn \subseteq torn'
  BY <1>4, CommitGrows DEF DeleteDomain
<1>5. ASSUME NEW s, NEW old, NEW l, NEW pr, ChangeDomainLabel(t, s, old, l, pr)
      PROVE  torn \subseteq torn'
  BY <1>5, CommitGrows DEF ChangeDomainLabel
<1>6. ASSUME NEW r, NEW s, CloneSmk(t, r, s) PROVE torn \subseteq torn'
  BY <1>6, CommitGrows DEF CloneSmk
<1>7. ASSUME NEW s, RolloverStart(t, s) \/ RolloverEnd(t, s) PROVE torn \subseteq torn'
  BY <1>7, CommitGrows DEF RolloverStart, RolloverEnd
<1>8. ASSUME ShowDomain(t) PROVE torn \subseteq torn'
  BY <1>8, CommitGrows DEF ShowDomain
<1>9. CASE LunaShDomain(t)
  BY <1>1, <1>2, <1>8, <1>9 DEF LunaShDomain
<1>10. CASE LunaCmSmk(t)
  BY <1>6, <1>7, <1>10 DEF LunaCmSmk
<1>11. CASE LunaCmDomain(t)
  BY <1>1, <1>3, <1>4, <1>5, <1>11 DEF LunaCmDomain
<1> QED BY <1>9, <1>10, <1>11

LEMMA PoliciesGrow ==
  ASSUME NEW t, LunaCmPolicy(t) \/ TemplateCommand(t) \/ Application(t) \/ FirmwareCommand(t)
  PROVE  torn \subseteq torn'
<1>1. ASSUME NEW s, NEW p, NEW v, ChangePolicy(t, s, p, v) PROVE torn \subseteq torn'
  BY <1>1, CommitGrows DEF ChangePolicy
<1>2. ASSUME NEW tm, CreateTemplate(t, tm) \/ DeleteTemplate(t, tm) PROVE torn \subseteq torn'
  BY <1>2, CommitGrows DEF CreateTemplate, DeleteTemplate
<1>3. ASSUME NEW s, NEW tm, ApplyTemplate(t, s, tm) PROVE torn \subseteq torn'
  BY <1>3, CommitGrows DEF ApplyTemplate
<1>4. ASSUME NEW s, InitRole(t, s) PROVE torn \subseteq torn'
  BY <1>4, CommitGrows DEF InitRole
<1>5. ASSUME NEW s, NEW k, CreateObject(t, s, k) PROVE torn \subseteq torn'
  BY <1>5, CommitGrows DEF CreateObject
<1>6. ASSUME NEW s, NEW k, Extract(t, s, k) PROVE torn \subseteq torn'
  BY <1>6 DEF Extract
<1>7. ASSUME NEW s, NEW b, Insert(t, s, b) PROVE torn \subseteq torn'
  BY <1>7, CommitGrows DEF Insert
<1>8. ASSUME NEW v, InstallFirmware(t, v) PROVE torn \subseteq torn'
  BY <1>8, CommitGrows DEF InstallFirmware
<1>9. CASE LunaCmPolicy(t) \/ TemplateCommand(t)
  BY <1>1, <1>2, <1>3, <1>9 DEF LunaCmPolicy, TemplateCommand
<1>10. CASE Application(t)
  BY <1>4, <1>5, <1>6, <1>7, <1>10 DEF Application
<1>11. CASE FirmwareCommand(t)
  BY <1>8, <1>11 DEF FirmwareCommand, RollbackFirmware
<1> QED BY <1>9, <1>10, <1>11

LEMMA PartitionStepGrows ==
  ASSUME NEW t, PartitionStep(t)
  PROVE  torn \subseteq torn'
BY PartitionsGrow, DomainsGrow, PoliciesGrow DEF PartitionStep

-----------------------------------------------------------------------------
(* The documents of the HSM and of the PED.                                *)

Shape(a) ==
  /\ {"hsm", "ped", "policy", "nextSet"} \subseteq DOMAIN a
  /\ {"init", "mode", "pin", "failed"} \subseteq DOMAIN a.hsm
  /\ {"mode", "conn", "sets"} \subseteq DOMAIN a.ped
  /\ a.hsm.failed \in Nat /\ a.nextSet \in Nat
  /\ a.ped.sets \subseteq KeySet
  /\ \A k, l \in a.ped.sets : k.id < a.nextSet /\ (k.id = l.id => k = l)

\* No share of a key set has a copy in b that it had not in a.
Wears(a, b) ==
  \A k \in a.ped.sets, l \in b.ped.sets : k.id = l.id =>
    /\ l.m = k.m /\ DOMAIN l.shares = DOMAIN k.shares
    /\ \A i \in DOMAIN k.shares : l.shares[i] > 0 => k.shares[i] > 0

Fits(a) == Shape(a) /\ Wears(admin, a)

AdminInv == Shape(admin) /\ ModesAgree /\ LockedOutZeroized

LEMMA AdminFits == ASSUME Shape(admin) PROVE Fits(admin)
BY DEF Fits, Shape, Wears

\* What CommitAll leaves in the documents of the HSM and the PED.
Outcome(a, partial) ==
  \/ admin' = a /\ UNCHANGED torn
  \/ \E p \in partial :
       /\ admin' = p[2]
       /\ torn' = torn \cup Orphans(db')
                       \cup (IF admin'.hsm.failed >= MaxAttempts THEN {"lockout"} ELSE {})

Kept == AdminInv' /\ Wears(admin, admin')

\* A stopped command may leave any of its partial states: it is what torn is
\* about.
LEMMA OutcomeKept ==
  ASSUME AdminInv, NEW a, NEW partial, Outcome(a, partial),
         Fits(a), \A p \in partial : Fits(p[2]),
         Disagree(admin') => split',
         "lockout" \notin torn => a.hsm.failed < MaxAttempts
  PROVE  Kept
<1>1. CASE admin' = a /\ UNCHANGED torn
  <2>1. Shape(admin') /\ Wears(admin, admin')
    BY <1>1 DEF Fits
  <2>2. ModesAgree'
    BY DEF ModesAgree, Disagree
  <2> QED BY <1>1, <2>1, <2>2 DEF AdminInv, LockedOutZeroized, Shape, Kept
<1>2. ASSUME NEW p \in partial, admin' = p[2],
             torn' = torn \cup Orphans(db')
                        \cup (IF admin'.hsm.failed >= MaxAttempts THEN {"lockout"} ELSE {})
      PROVE  Kept
  <2>1. Shape(admin') /\ Wears(admin, admin')
    BY <1>2 DEF Fits
  <2>2. ModesAgree'
    BY DEF ModesAgree, Disagree
  <2>3. LockedOutZeroized'
    BY <1>2, <2>1 DEF LockedOutZeroized, Shape, MaxAttempts
  <2> QED BY <2>1, <2>2, <2>3 DEF AdminInv, Shape, Kept
<1> QED BY <1>1, <1>2 DEF Outcome

LEMMA SaveAdminKept ==
  ASSUME AdminInv, NEW t, NEW a, NEW loggedIn, SaveAdmin(t, a, loggedIn), Fits(a),
         Disagree(a) => split,
         "lockout" \notin torn => a.hsm.failed < MaxAttempts
  PROVE  Kept
<1>1. Outcome(a, {}) /\ UNCHANGED split
  BY DEF SaveAdmin, CommitAll, Outcome
<1>2. Disagree(admin') => split'
  BY <1>1 DEF Outcome
<1> QED BY <1>1, <1>2, OutcomeKept

LEMMA SaveAfterKept ==
  ASSUME AdminInv, NEW t, NEW first, NEW a, NEW loggedIn, SaveAfter(t, first, a, loggedIn),
         Fits(first), Fits(a),
         Disagree(first) \/ Disagree(a) => split,
         "lockout" \notin torn => a.hsm.failed < MaxAttempts
  PROVE  Kept
<1>1. Outcome(a, {<<db, first>>}) /\ UNCHANGED split
  BY DEF SaveAfter, CommitAll, Outcome
<1>2. \A p \in {<<db, first>>} : Fits(p[2])
  OBVIOUS
<1>3. Disagree(admin') => split'
  BY <1>1 DEF Outcome
<1> QED BY <1>1, <1>2, <1>3, OutcomeKept

LEMMA FewerSets ==
  ASSUME AdminInv, NEW a,
         {"hsm", "ped", "policy", "nextSet"} \subseteq DOMAIN a,
         {"init", "mode", "pin", "failed"} \subseteq DOMAIN a.hsm,
         {"mode", "conn", "sets"} \subseteq DOMAIN a.ped,
         a.hsm.failed \in Nat, a.nextSet = admin.nextSet, a.ped.sets \subseteq admin.ped.sets
  PROVE  Fits(a)
<1>1. Shape(a)
  BY DEF AdminInv, Shape
<1>2. Wears(admin, a)
  BY DEF AdminInv, Shape, Wears
<1> QED BY <1>1, <1>2 DEF Fits

-----------------------------------------------------------------------------
(* The PED.                                                                *)

LEMMA ConnectionKept ==
  ASSUME AdminInv, NEW t, DisconnectPed(t) \/ \E remote \in BOOLEAN : ConnectPed(t, remote)
  PROVE  Kept
<1>1. PICK on \in BOOLEAN : SaveAdmin(t, [admin EXCEPT !.ped.conn = on], shell[t].so)
  BY DEF DisconnectPed, ConnectPed
<1> DEFINE a == [admin EXCEPT !.ped.conn = on]
<1>2. /\ {"hsm", "ped", "policy", "nextSet"} \subseteq DOMAIN a
      /\ {"mode", "conn", "sets"} \subseteq DOMAIN a.ped
      /\ a.hsm = admin.hsm /\ a.nextSet = admin.nextSet
      /\ a.ped.sets = admin.ped.sets /\ a.ped.mode = admin.ped.mode
  BY DEF AdminInv, Shape
<1>3. SaveAdmin(t, a, shell[t].so)
  BY <1>1
<1> HIDE DEF a
<1>4. Fits(a)
  BY <1>2, FewerSets DEF AdminInv, Shape
<1> QED
  BY <1>2, <1>3, <1>4, SaveAdminKept DEF AdminInv, ModesAgree, LockedOutZeroized, Disagree

LEMMA CreateKeySetKept ==
  ASSUME AdminInv, NEW t, NEW color \in Colors, NEW m \in 1..MaxShares, NEW n \in 1..MaxShares,
         CreateKeySet(t, color, m, n)
  PROVE  Kept
<1> DEFINE k == [id |-> admin.nextSet, type |-> color, m |-> m, shares |-> [i \in 1..n |-> 1]]
           a == [admin EXCEPT !.ped.sets = @ \cup {k}, !.nextSet = @ + 1]
<1>1. SaveAdmin(t, a, shell[t].so)
  BY DEF CreateKeySet
<1>2. k \in KeySet /\ k.id = admin.nextSet
  <2>1. [i \in 1..n |-> 1] \in UNION {[1..j -> Nat] : j \in 1..MaxShares}
    OBVIOUS
  <2>2. m \in Nat /\ admin.nextSet \in Nat
    BY HsmAdminAssumption DEF AdminInv, Shape
  <2> QED BY <2>1, <2>2 DEF KeySet
<1> HIDE DEF k
<1>3. /\ {"hsm", "ped", "policy", "nextSet"} \subseteq DOMAIN a
      /\ {"mode", "conn", "sets"} \subseteq DOMAIN a.ped
      /\ a.hsm = admin.hsm /\ a.nextSet = admin.nextSet + 1
      /\ a.ped.sets = admin.ped.sets \cup {k} /\ a.ped.mode = admin.ped.mode
  BY DEF AdminInv, Shape
<1> HIDE DEF a
<1>4. Shape(a)
  <2>1. \A l \in a.ped.sets : (l \in admin.ped.sets /\ l.id < admin.nextSet) \/ l = k
    BY <1>3 DEF AdminInv, Shape
  <2>2. \A l \in admin.ped.sets : l.id \in Nat
    BY DEF AdminInv, Shape, KeySet
  <2> QED BY <1>2, <1>3, <2>1, <2>2 DEF AdminInv, Shape
<1>5. Wears(admin, a)
  <2>1. \A l \in admin.ped.sets : l.id \in Nat /\ l.id < admin.nextSet
    BY DEF AdminInv, Shape, KeySet
  <2>2. \A j \in admin.ped.sets, l \in a.ped.sets : j.id = l.id => j = l
    <3> SUFFICES ASSUME NEW j \in admin.ped.sets, NEW l \in a.ped.sets, j.id = l.id PROVE j = l
      OBVIOUS
    <3>1. l # k
      BY <1>2, <2>1 DEF AdminInv, Shape
    <3> QED BY <1>3, <3>1 DEF AdminInv, Shape
  <2> QED BY <2>2 DEF Wears
<1> QED
  BY <1>1, <1>3, <1>4, <1>5, SaveAdminKept
  DEF AdminInv, ModesAgree, LockedOutZeroized, Disagree, Fits

\* A share gets a copy only from a copy.
LEMMA WithShareFits ==
  ASSUME AdminInv, NEW k \in admin.ped.sets, NEW i \in DOMAIN k.shares, NEW c \in Nat,
         c > 0 => k.shares[i] > 0
  PROVE  /\ Fits(WithShare(k, i, c))
         /\ WithShare(k, i, c).hsm = admin.hsm
         /\ WithShare(k, i, c).ped.mode = admin.ped.mode
<1> DEFINE sh == [k.shares EXCEPT ![i] = c]
           l == [k EXCEPT !.shares = sh]
           a == [admin EXCEPT !.ped.sets = (@ \ {k}) \cup {l}]
<1>1. k \in KeySet
  BY DEF AdminInv, Shape
<1>2. PICK n \in 1..MaxShares : k.shares \in [1..n -> Nat]
  BY <1>1 DEF KeySet
<1>3. sh \in [1..n -> Nat] /\ \A j \in 1..n : sh[j] > 0 => k.shares[j] > 0
  BY <1>2
<1>4. WithShare(k, i, c) = a
  BY DEF WithShare
<1> HIDE DEF sh
<1>5. l.id = k.id /\ l.type = k.type /\ l.m = k.m /\ l.shares = sh
  BY <1>1 DEF KeySet
<1>6. l \in KeySet
  <2>1. sh \in UNION {[1..j -> Nat] : j \in 1..MaxShares}
    BY <1>3
  <2> QED BY <1>1, <2>1 DEF KeySet
<1> HIDE DEF l
<1>7. /\ {"hsm", "ped", "policy", "nextSet"} \subseteq DOMAIN a
      /\ {"mode", "conn", "sets"} \subseteq DOMAIN a.ped
      /\ a.hsm = admin.hsm /\ a.nextSet = admin.nextSet
      /\ a.ped.sets = (admin.ped.sets \ {k}) \cup {l} /\ a.ped.mode = admin.ped.mode
  BY DEF AdminInv, Shape
<1> HIDE DEF a
<1>8. \A x \in a.ped.sets : (x \in admin.ped.sets /\ x.id # k.id) \/ x = l
  BY <1>7 DEF AdminInv, Shape
<1>9. Shape(a)
  BY <1>5, <1>6, <1>7, <1>8 DEF AdminInv, Shape
<1>10. Wears(admin, a)
  <2> SUFFICES ASSUME NEW x \in admin.ped.sets, NEW y \in a.ped.sets, x.id = y.id
               PROVE  /\ y.m = x.m /\ DOMAIN y.shares = DOMAIN x.shares
                      /\ \A j \in DOMAIN x.shares : y.shares[j] > 0 => x.shares[j] > 0
    BY DEF Wears
  <2>1. CASE y \in admin.ped.sets
    BY <2>1 DEF AdminInv, Shape
  <2>2. CASE y = l
    <3>1. x = k
      BY <1>5, <2>2 DEF AdminInv, Shape
    <3> QED BY <1>2, <1>5, <1>3, <2>2, <3>1
  <2> QED BY <1>8, <2>1, <2>2
<1> QED BY <1>7, <1>4, <1>9, <1>10 DEF Fits

LEMMA CopiesKept ==
  ASSUME AdminInv, NEW t, NEW k \in admin.ped.sets, NEW i \in DOMAIN k.shares,
         DuplicateKey(t, k, i) \/ LoseKey(t, k, i)
  PROVE  Kept
<1>1. k.shares[i] \in Nat
  <2>1. PICK n \in 1..MaxShares : k.shares \in [1..n -> Nat]
    BY DEF AdminInv, Shape, KeySet
  <2> QED BY <2>1
<1>2. PICK c \in Nat : (c > 0 => k.shares[i] > 0) /\ SaveAdmin(t, WithShare(k, i, c), shell[t].so)
  <2>1. CASE DuplicateKey(t, k, i)
    BY <1>1, <2>1, HsmAdminAssumption DEF DuplicateKey
  <2>2. CASE LoseKey(t, k, i)
    BY <1>1, <2>2 DEF LoseKey
  <2> QED BY <2>1, <2>2
<1> QED
  BY <1>2, WithShareFits, SaveAdminKept DEF AdminInv, ModesAgree, LockedOutZeroized, Disagree

-----------------------------------------------------------------------------
(* Erasing, initialization and the Security Officer.                       *)

LEMMA Defaults ==
  /\ {"init", "mode", "pin", "failed"} \subseteq DOMAIN FactoryHsm
  /\ FactoryHsm.failed = 0 /\ FactoryHsm.mode = "password"
  /\ {"mode", "conn", "sets"} \subseteq DOMAIN FactoryPed
  /\ FactoryPed.sets = {} /\ FactoryPed.mode = "password"
BY DEF FactoryHsm, FactoryPed

LEMMA ZeroizeKept ==
  ASSUME AdminInv, NEW t, NEW a, ZeroizeFrom(t, a),
         Fits(a), a.nextSet = admin.nextSet, a.ped = admin.ped,
         Disagree(a) => split
  PROVE  Kept
<1> DEFINE g == ZeroizedPed(a)
           z == ZeroizedHsm(g)
           P == (HalfErased(db) \X {a}) \cup ({Erased(db)} \X {a, g})
<1>1. Outcome(z, P) /\ UNCHANGED split
  BY DEF ZeroizeFrom, CommitAll, Outcome
<1>2. /\ {"hsm", "ped", "policy", "nextSet"} \subseteq DOMAIN g
      /\ {"mode", "conn", "sets"} \subseteq DOMAIN g.ped
      /\ g.hsm = a.hsm /\ g.nextSet = a.nextSet
      /\ g.ped.sets \subseteq a.ped.sets /\ g.ped.mode = a.ped.mode
  BY DEF ZeroizedPed, Fits, Shape
<1> HIDE DEF g
<1>3. /\ {"hsm", "ped", "policy", "nextSet"} \subseteq DOMAIN z
      /\ {"init", "mode", "pin", "failed"} \subseteq DOMAIN z.hsm
      /\ z.hsm.failed = 0 /\ z.hsm.mode = a.hsm.mode
      /\ z.ped = g.ped /\ z.nextSet = a.nextSet
  BY <1>2 DEF ZeroizedHsm, Fits, Shape
<1> HIDE DEF z
<1>4. Fits(g)
  <2>1. /\ {"init", "mode", "pin", "failed"} \subseteq DOMAIN g.hsm
        /\ g.hsm.failed \in Nat
    BY <1>2 DEF Fits, Shape
  <2> QED BY <1>2, <2>1, FewerSets
<1>5. Fits(z)
  BY <1>2, <1>3, FewerSets
<1>6. \A p \in P : Fits(p[2]) /\ p[2] \in {a, g}
  BY <1>4
<1> HIDE DEF P
<1>7. z.hsm.failed < MaxAttempts
  BY <1>3 DEF MaxAttempts
<1>8. \A b \in {a, g, z} : Disagree(b) => split
  BY <1>2, <1>3 DEF Disagree
<1>9. Disagree(admin') => split'
  BY <1>1, <1>6, <1>8 DEF Outcome
<1> QED BY <1>1, <1>5, <1>6, <1>7, <1>9, OutcomeKept

\* Halfway excuses what is not the end of the command.
LEMMA HalfwaySplit ==
  ASSUME NEW a, Halfway(a), ~Disagree(a)
  PROVE  Disagree(admin') => split'
<1>1. CASE admin' = a
  BY <1>1 DEF Disagree
<1>2. CASE admin' # a
  BY <1>2 DEF Halfway
<1> QED BY <1>1, <1>2

LEMMA FactoryResetKept ==
  ASSUME AdminInv, NEW t, FactoryReset(t)
  PROVE  Kept
<1> DEFINE ped == [admin EXCEPT !.ped = FactoryPed]
           hsm == [ped EXCEPT !.hsm = FactoryHsm]
           a   == [hsm EXCEPT !.policy = 1]
           end == [Erased(db) EXCEPT !.hsmDomain = None]
           P   == (HalfErased(db) \X {admin}) \cup ({Erased(db)} \X {admin, ped, hsm})
                    \cup {<<end, hsm>>}
<1>1. Outcome(a, P) /\ Halfway(a)
  BY DEF FactoryReset, CommitAll, Outcome
<1>2. /\ {"hsm", "ped", "policy", "nextSet"} \subseteq DOMAIN ped
      /\ ped.ped = FactoryPed /\ ped.hsm = admin.hsm /\ ped.nextSet = admin.nextSet
  BY DEF AdminInv, Shape
<1> HIDE DEF ped
<1>3. /\ {"hsm", "ped", "policy", "nextSet"} \subseteq DOMAIN hsm
      /\ hsm.ped = FactoryPed /\ hsm.hsm = FactoryHsm /\ hsm.nextSet = admin.nextSet
  BY <1>2
<1> HIDE DEF hsm
<1>4. /\ {"hsm", "ped", "policy", "nextSet"} \subseteq DOMAIN a
      /\ a.ped = FactoryPed /\ a.hsm = FactoryHsm /\ a.nextSet = admin.nextSet
  BY <1>3
<1> HIDE DEF a
<1>5. Fits(ped)
  BY <1>2, Defaults, FewerSets DEF AdminInv, Shape
<1>6. Fits(hsm) /\ Fits(a)
  BY <1>3, <1>4, Defaults, FewerSets
<1>7. Fits(admin)
  BY AdminFits DEF AdminInv
<1>8. \A p \in P : Fits(p[2])
  BY <1>5, <1>6, <1>7
<1> HIDE DEF P
<1>9. ~Disagree(a) /\ a.hsm.failed < MaxAttempts
  BY <1>4, Defaults DEF Disagree, MaxAttempts
<1>10. Disagree(admin') => split'
  BY <1>1, <1>9, HalfwaySplit
<1> QED BY <1>1, <1>6, <1>8, <1>9, <1>10, OutcomeKept

LEMMA PolicyKept ==
  ASSUME AdminInv, NEW t, NEW v \in 0..1, ChangeHsmPolicy(t, v)
  PROVE  Kept
<1> DEFINE a == [admin EXCEPT !.policy = v]
           P == HalfErased(db) \X {a}
<1>1. (Outcome(a, {}) \/ Outcome(a, P)) /\ UNCHANGED split
  BY DEF ChangeHsmPolicy, SaveAdmin, CommitAll, Outcome
<1>2. /\ {"hsm", "ped", "policy", "nextSet"} \subseteq DOMAIN a
      /\ a.hsm = admin.hsm /\ a.ped = admin.ped /\ a.nextSet = admin.nextSet
  BY DEF AdminInv, Shape
<1> HIDE DEF a
<1>3. Fits(a)
  BY <1>2, FewerSets DEF AdminInv, Shape
<1>4. \A p \in P : Fits(p[2]) /\ p[2] = a
  BY <1>3
<1> HIDE DEF P
<1>5. /\ Disagree(a) => split
      /\ "lockout" \notin torn => a.hsm.failed < MaxAttempts
  BY <1>2 DEF AdminInv, ModesAgree, LockedOutZeroized, Disagree
<1>6. Disagree(admin') => split'
  BY <1>1, <1>4, <1>5 DEF Outcome
<1> QED BY <1>1, <1>3, <1>4, <1>5, <1>6, OutcomeKept

\* The officer's attempts start again, the way of authenticating is kept once
\* the HSM is initialized.
LEMMA InitializedKeepsMode ==
  ASSUME Shape(admin), NEW mode, NEW pin
  PROVE  LET h == InitializedHsm(admin.hsm, mode, pin) IN
         /\ {"init", "mode", "pin", "failed"} \subseteq DOMAIN h
         /\ h.failed = 0
         /\ h.mode = PedMode(admin.hsm, mode)
BY DEF InitializedHsm, PedMode, Shape

LEMMA HsmInitKept ==
  ASSUME AdminInv, NEW t, NEW mode \in Modes, NEW pin, HsmInit(t, mode, pin)
  PROVE  Kept
<1> DEFINE h   == InitializedHsm(admin.hsm, mode, pin)
           md  == PedMode(admin.hsm, mode)
           hsm == [admin EXCEPT !.hsm = h]
           ped == [hsm EXCEPT !.ped.mode = md, !.ped.conn = @ /\ md = "ped"]
           P   == (HalfErased(db) \X {admin}) \cup ({Erased(db)} \X {admin, hsm})
           Q   == HalfErased(db) \X {admin}
<1>1. \/ Outcome(admin, Q) /\ UNCHANGED split
      \/ Outcome(ped, P) /\ Halfway(ped)
  BY DEF HsmInit, CommitAll, Outcome
<1>2. /\ {"init", "mode", "pin", "failed"} \subseteq DOMAIN h
      /\ h.failed = 0 /\ h.mode = md
  BY InitializedKeepsMode DEF AdminInv
<1> HIDE DEF h, md
<1>3. /\ {"hsm", "ped", "policy", "nextSet"} \subseteq DOMAIN hsm
      /\ hsm.hsm = h /\ hsm.ped = admin.ped /\ hsm.nextSet = admin.nextSet
  BY DEF AdminInv, Shape
<1> HIDE DEF hsm
<1>4. /\ {"hsm", "ped", "policy", "nextSet"} \subseteq DOMAIN ped
      /\ {"mode", "conn", "sets"} \subseteq DOMAIN ped.ped
      /\ ped.hsm = h /\ ped.ped.mode = md /\ ped.ped.sets = admin.ped.sets
      /\ ped.nextSet = admin.nextSet
  BY <1>3 DEF AdminInv, Shape
<1> HIDE DEF ped
<1>5. Fits(hsm)
  BY <1>2, <1>3, FewerSets DEF AdminInv, Shape
<1>6. Fits(ped)
  BY <1>2, <1>4, FewerSets
<1>7. Fits(admin)
  BY AdminFits DEF AdminInv
<1>8. (\A p \in P : Fits(p[2])) /\ (\A p \in Q : Fits(p[2]) /\ p[2] = admin)
  BY <1>5, <1>7
<1> HIDE DEF P, Q
<1>9. CASE Outcome(ped, P) /\ Halfway(ped)
  <2>1. ~Disagree(ped) /\ ped.hsm.failed < MaxAttempts
    BY <1>2, <1>4 DEF Disagree, MaxAttempts
  <2>2. Disagree(admin') => split'
    BY <1>9, <2>1, HalfwaySplit
  <2> QED BY <1>6, <1>8, <1>9, <2>1, <2>2, OutcomeKept
<1>10. CASE Outcome(admin, Q) /\ UNCHANGED split
  <2>1. admin' = admin
    BY <1>8, <1>10 DEF Outcome
  <2>2. Disagree(admin') => split'
    BY <1>10, <2>1 DEF AdminInv, ModesAgree
  <2> QED BY <1>7, <1>8, <1>10, <2>2, OutcomeKept DEF AdminInv, LockedOutZeroized
<1> QED BY <1>1, <1>9, <1>10

\* The migration of an older database sets the way of authenticating that the
\* PED has already.
LEMMA MigratedFits ==
  ASSUME AdminInv, admin.ped.mode = "password"
  PROVE  /\ Fits(Migrated) /\ Migrated.nextSet = admin.nextSet /\ Migrated.ped = admin.ped
         /\ Migrated.hsm.failed = admin.hsm.failed
         /\ Disagree(Migrated) => split
<1>1. CASE Migrated = admin
  BY <1>1, AdminFits DEF AdminInv, ModesAgree
<1>2. ASSUME NEW pin,
             Migrated = [admin EXCEPT !.hsm.init = TRUE, !.hsm.mode = "password", !.hsm.pin = pin]
      PROVE  /\ Fits(Migrated) /\ Migrated.nextSet = admin.nextSet /\ Migrated.ped = admin.ped
             /\ Migrated.hsm.failed = admin.hsm.failed
             /\ Disagree(Migrated) => split
  <2>1. /\ {"hsm", "ped", "policy", "nextSet"} \subseteq DOMAIN Migrated
        /\ {"init", "mode", "pin", "failed"} \subseteq DOMAIN Migrated.hsm
        /\ Migrated.nextSet = admin.nextSet /\ Migrated.ped = admin.ped
        /\ Migrated.hsm.failed = admin.hsm.failed /\ Migrated.hsm.mode = "password"
    BY <1>2 DEF AdminInv, Shape
  <2>2. Fits(Migrated)
    BY <2>1, FewerSets DEF AdminInv, Shape
  <2> QED BY <2>1, <2>2 DEF Disagree
<1> QED BY <1>1, <1>2 DEF Migrated

\* Until the third wrong password the count is below the limit; the third
\* leaves it at zero.
LEMMA HsmLoginKept ==
  ASSUME AdminInv, NEW t, NEW pin, HsmLogin(t, pin)
  PROVE  Kept
<1> DEFINE a == Migrated
<1>1. /\ Fits(a) /\ a.nextSet = admin.nextSet /\ a.ped = admin.ped
      /\ a.hsm.failed = admin.hsm.failed
      /\ Disagree(a) => split
  BY MigratedFits DEF HsmLogin
<1>2. ASSUME NEW n \in Nat
      PROVE  LET b == [a EXCEPT !.hsm.failed = n] IN
             /\ Fits(b) /\ b.nextSet = admin.nextSet /\ b.ped = admin.ped
             /\ b.hsm.failed = n
             /\ Disagree(b) => split
  <2> DEFINE b == [a EXCEPT !.hsm.failed = n]
  <2>1. /\ {"hsm", "ped", "policy", "nextSet"} \subseteq DOMAIN b
        /\ {"init", "mode", "pin", "failed"} \subseteq DOMAIN b.hsm
        /\ b.nextSet = admin.nextSet /\ b.ped = admin.ped
        /\ b.hsm.failed = n /\ b.hsm.mode = a.hsm.mode
    BY <1>1 DEF Fits, Shape
  <2> HIDE DEF a, b
  <2>2. Fits(b)
    BY <2>1, FewerSets DEF AdminInv, Shape
  <2>3. Disagree(b) => split
    BY <1>1, <2>1 DEF Disagree
  <2> QED BY <2>1, <2>2, <2>3 DEF b
<1> HIDE DEF a
<1>3. CASE SaveAdmin(t, a, FALSE)
  BY <1>1, <1>3, SaveAdminKept DEF AdminInv, LockedOutZeroized
<1>4. CASE SaveAfter(t, a, [a EXCEPT !.hsm.failed = 0], TRUE)
  <2> DEFINE b == [a EXCEPT !.hsm.failed = 0]
  <2>1. Fits(b) /\ b.hsm.failed = 0 /\ (Disagree(b) => split)
    BY <1>2
  <2>2. Outcome(b, {<<db, a>>}) /\ UNCHANGED split
    BY <1>4 DEF SaveAfter, CommitAll, Outcome
  <2>3. \A p \in {<<db, a>>} : Fits(p[2])
    BY <1>1
  <2> HIDE DEF b
  <2>4. Disagree(admin') => split'
    BY <1>1, <2>1, <2>2 DEF Outcome
  <2> QED BY <2>1, <2>2, <2>3, <2>4, OutcomeKept DEF MaxAttempts
<1>5. CASE Failed(t, a)
  <2> DEFINE c == [a EXCEPT !.hsm.failed = a.hsm.failed + 1]
  <2>1. /\ Fits(c) /\ c.nextSet = admin.nextSet /\ c.ped = admin.ped
        /\ Disagree(c) => split
    BY <1>1, <1>2 DEF Fits, Shape
  <2>2. \/ c.hsm.failed < MaxAttempts /\ SaveAfter(t, a, c, shell[t].so)
        \/ ZeroizeFrom(t, c)
    BY <1>5 DEF Failed
  <2> HIDE DEF c
  <2> QED BY <1>1, <2>1, <2>2, SaveAfterKept, ZeroizeKept
<1> QED BY <1>3, <1>4, <1>5 DEF HsmLogin, a

LEMMA HsmCommandKept ==
  ASSUME AdminInv, NEW t, HsmCommand(t)
  PROVE  Kept
<1>1. CASE HsmLoginPed(t) \/ HsmLogout(t) \/ HsmInitAborted(t)
  <2>1. SaveAdmin(t, admin, TRUE) \/ SaveAdmin(t, admin, FALSE)
    BY <1>1 DEF HsmLoginPed, HsmLogout, HsmInitAborted
  <2> QED BY <2>1, AdminFits, SaveAdminKept DEF AdminInv, ModesAgree, LockedOutZeroized
<1>2. CASE Zeroize(t)
  BY <1>2, AdminFits, ZeroizeKept DEF Zeroize, AdminInv, ModesAgree
<1>3. ASSUME NEW pin, HsmLogin(t, pin) PROVE Kept
  BY <1>3, HsmLoginKept
<1>4. ASSUME NEW mode \in Modes, NEW pin, HsmInit(t, mode, pin) PROVE Kept
  BY <1>4, HsmInitKept
<1>5. ASSUME NEW v \in 0..1, ChangeHsmPolicy(t, v) PROVE Kept
  BY <1>5, PolicyKept
<1> QED BY <1>1, <1>2, <1>3, <1>4, <1>5, FactoryResetKept DEF HsmCommand

LEMMA AdminStart == Init => AdminInv
<1> SUFFICES ASSUME Init PROVE AdminInv
  OBVIOUS
<1>1. /\ admin = [hsm |-> FactoryHsm, ped |-> FactoryPed, policy |-> 1, nextSet |-> 1]
      /\ split = FALSE
  BY DEF Init, AdminInit
<1>2. Shape(admin)
  BY <1>1, Defaults DEF Shape
<1> QED BY <1>1, <1>2, Defaults DEF AdminInv, ModesAgree, LockedOutZeroized, Disagree, MaxAttempts

LEMMA AdminStep ==
  ASSUME AdminInv, [Next]_vars
  PROVE  Kept
<1>1. ASSUME UNCHANGED <<admin, split>>, torn \subseteq torn' PROVE Kept
  <2>1. Wears(admin, admin')
    BY <1>1, AdminFits DEF AdminInv, Fits
  <2> QED BY <1>1, <2>1 DEF Kept, AdminInv, ModesAgree, LockedOutZeroized, Shape, Disagree
<1>2. CASE UNCHANGED vars
  BY <1>1, <1>2 DEF vars, partVars
<1>3. ASSUME NEW t, PartitionStep(t), UNCHANGED <<admin, split>> PROVE Kept
  BY <1>1, <1>3, PartitionStepGrows
<1>4. ASSUME NEW t, BackupCommand(t), UNCHANGED <<admin, split>> PROVE Kept
  <2>1. UNCHANGED torn
    BY <1>4, ZenonT(40)
    DEF BackupCommand, LunaCmBackup, LunaCmBackupDevice, LunaShTokenBackup, BackupObjects,
        RestoreObjects, CreateBackupPartition, BackupInit, BackupLogin, BackupLogout,
        BackupFactoryReset, BackupConnect, BackupDisconnect, StmRecover, UpgradeBackupFirmware,
        RollbackBackupFirmware, BackupCommit
  <2> QED BY <1>1, <1>4, <2>1
<1>5. ASSUME NEW t, PedCommand(t) \/ PedKey(t) PROVE Kept
  BY <1>5, ConnectionKept, CreateKeySetKept, CopiesKept DEF PedCommand, PedKey
<1> QED BY <1>2, <1>3, <1>4, <1>5, HsmCommandKept DEF Next

\* Only "hsm init" or a factory reset stopped between its saves makes the HSM's
\* document and the PED's disagree on how the Security Officer authenticates
\* (lunash_commands.py cmd_hsm, TokenManager.factory_reset), and only until the
\* next of them is completed, whatever any number of terminals did in between.
THEOREM ModesAlwaysAgree == Spec => []ModesAgree
<1>1. AdminInv /\ [Next]_vars => AdminInv'
  BY AdminStep DEF Kept
<1>2. AdminInv => ModesAgree
  BY DEF AdminInv
<1> QED BY AdminStart, <1>1, <1>2, PTL DEF Spec

\* No HSM waits with its attempts used up: the third wrong password, from any
\* terminals, zeroizes it (HSMStateManager.authenticate_password, hsm_login).
THEOREM ThirdFailureZeroizes == Spec => []LockedOutZeroized
<1>1. AdminInv /\ [Next]_vars => AdminInv'
  BY AdminStep DEF Kept
<1>2. AdminInv => LockedOutZeroized
  BY DEF AdminInv
<1> QED BY AdminStart, <1>1, <1>2, PTL DEF Spec

LEMMA WornOut ==
  ASSUME Shape(admin), Wears(admin, admin'),
         NEW k \in admin.ped.sets, NEW l \in admin'.ped.sets, k.id = l.id, Available(k) < k.m
  PROVE  Available(l) < l.m
<1> DEFINE A == {i \in DOMAIN k.shares : k.shares[i] > 0}
           B == {i \in DOMAIN l.shares : l.shares[i] > 0}
<1>1. PICK n \in 1..MaxShares : k.shares \in [1..n -> Nat]
  BY DEF Shape, KeySet
<1>2. IsFiniteSet(1..n)
  BY HsmAdminAssumption, FS_Interval
<1>3. B \subseteq A /\ A \subseteq 1..n /\ l.m = k.m
  BY <1>1 DEF Wears
<1>4. Cardinality(B) <= Cardinality(A) /\ Cardinality(A) \in Nat /\ Cardinality(B) \in Nat
  BY <1>2, <1>3, FS_Subset, FS_CardinalityType
<1>5. k.m \in Nat
  BY DEF Shape, KeySet
<1> QED BY <1>3, <1>4, <1>5 DEF Available

\* A key set that lost its quorum stays lost, however copies of the other
\* shares are made and lost (duplicate_key, mark_lost): for key sets of any
\* number of shares.
THEOREM LostQuorumStaysLost == Spec => LostForGood
<1>1. AdminInv /\ [Next]_vars => AdminInv'
  BY AdminStep DEF Kept
<1>2. AdminInv /\ [Next]_vars =>
        \A k \in admin.ped.sets, l \in admin'.ped.sets :
          k.id = l.id /\ Available(k) < k.m => Available(l) < l.m
  BY AdminStep, WornOut DEF Kept, AdminInv
<1> QED BY AdminStart, <1>1, <1>2, PTL DEF Spec, LostForGood

-----------------------------------------------------------------------------
(* Master keys.  The numbers already given out lie below nextSmk, so a key *)
(* that no partition has any more never comes back.                        *)

Documents ==
  {"part", "life", "dom", "obj", "pol", "sks", "nextSmk", "hsmDomain", "templates", "firmware"}

MasterKeys == [primary : Nat \ {0}, rollover : Nat]

Whole(d) ==
  /\ Documents \subseteq DOMAIN d
  /\ d.nextSmk \in Nat \ {0}
  /\ d.sks \in [Slots -> MasterKeys \cup {None}]
  /\ \A s \in Slots : d.sks[s] # None =>
       d.sks[s].primary < d.nextSmk /\ d.sks[s].rollover < d.nextSmk

Live(d, x) == \E s \in Slots : d.sks[s] # None /\ x \in {d.sks[s].primary, d.sks[s].rollover}

Known(d, x) == x = 0 \/ Live(d, x) \/ d.nextSmk <= x

\* The master keys of e are those of d and new ones.
From(d, e) ==
  /\ Whole(e)
  /\ d.nextSmk <= e.nextSmk
  /\ \A x \in Nat : Live(e, x) => Known(d, x)

Same(d, e) == Documents \subseteq DOMAIN e /\ e.sks = d.sks /\ e.nextSmk = d.nextSmk

EraseInv ==
  /\ Whole(db)
  /\ \A b \in blobs : b.smk \in Nat \ {0} /\ b.smk < db.nextSmk
  /\ \A b \in dead : b \in blobs /\ ~Live(db, b.smk)

LEMMA SameFrom ==
  ASSUME NEW d, NEW e, Whole(d), Same(d, e)
  PROVE  From(d, e)
BY DEF Whole, Same, From, Live, Known

LEMMA LaterKeys ==
  ASSUME EraseInv, From(db, db'), UNCHANGED <<blobs, dead>>
  PROVE  EraseInv'
<1>1. \A b \in dead : ~Live(db', b.smk)
  BY DEF EraseInv, From, Known, Whole
<1>2. \A b \in blobs : b.smk < db'.nextSmk
  BY DEF EraseInv, From, Whole
<1>3. Whole(db')
  BY DEF From
<1> QED BY <1>1, <1>2, <1>3 DEF EraseInv, Whole, Live

LEMMA CommitSafe ==
  ASSUME EraseInv, NEW t, NEW final, NEW partial, Commit(t, final, partial),
         From(db, final), \A p \in partial : From(db, p)
  PROVE  EraseInv'
<1>1. UNCHANGED <<blobs, dead>> /\ (db' = final \/ db' \in partial)
  BY DEF Commit
<1>2. From(db, db')
  BY <1>1
<1> QED BY <1>1, <1>2, LaterKeys

LEMMA CommitSame ==
  ASSUME EraseInv, NEW t, NEW final, NEW partial, Commit(t, final, partial),
         Same(db, final), \A p \in partial : Same(db, p)
  PROVE  EraseInv'
BY SameFrom, CommitSafe DEF EraseInv

-----------------------------------------------------------------------------
(* Commands that leave the master keys alone.                              *)

LEMMA ErasingSame ==
  ASSUME NEW d, NEW s, Same(db, d)
  PROVE  \A e \in Erasing(d, s) : Same(db, e)
<1> SUFFICES ASSUME NEW left, NEW e, e = [d EXCEPT !.obj[s] = left] PROVE Same(db, e)
  BY DEF Erasing
<1> QED BY DEF Same

LEMMA EntriesSame ==
  ASSUME EraseInv, NEW t
  PROVE  /\ \A n, type, v : CreatePartition(t, n, type, v) => EraseInv'
         /\ \A s : DeletePartition(t, s) => EraseInv'
         /\ \A s, on : SetPartitionActive(t, s, on) => EraseInv'
         /\ \A s : InitRole(t, s) => EraseInv'
         /\ \A s, k : CreateObject(t, s, k) => EraseInv'
         /\ \A s : ClearPartition(t, s) => EraseInv'
         /\ \A r, s : ClonePartition(t, r, s) => EraseInv'
<1> USE DEF Same
<1>0. Same(db, db)
  BY DEF EraseInv, Whole
<1>1. ASSUME NEW n, NEW type, NEW v, CreatePartition(t, n, type, v) PROVE EraseInv'
  <2>1. PICK r, s, e : LET inserted == [db EXCEPT !.part[s] = r] IN
          \/ Commit(t, [inserted EXCEPT !.life[s] = e], {inserted})
          \/ Commit(t, inserted, {})
    BY <1>1 DEF CreatePartition
  <2> DEFINE inserted == [db EXCEPT !.part[s] = r]
             registered == [inserted EXCEPT !.life[s] = e]
  <2>2. Same(db, inserted) /\ Same(db, registered)
    BY <1>0
  <2>3. Commit(t, registered, {inserted}) \/ Commit(t, inserted, {})
    BY <2>1
  <2> HIDE DEF Same, inserted, registered
  <2> QED BY <2>2, <2>3, CommitSame
<1>2. ASSUME NEW s, DeletePartition(t, s) PROVE EraseInv'
  <2> DEFINE gone == [db EXCEPT !.part[s] = None, !.obj[s] = {}]
             final == [gone EXCEPT !.life[s] = None]
  <2>1. Same(db, gone) /\ Same(db, final)
    BY <1>0
  <2>2. Commit(t, final, {gone})
    BY <1>2 DEF DeletePartition
  <2> HIDE DEF Same, gone, final
  <2> QED BY <1>0, <2>1, <2>2, CommitSame
<1>3. ASSUME NEW s, NEW on, SetPartitionActive(t, s, on) PROVE EraseInv'
  <2> DEFINE final == [db EXCEPT !.life[s] = [EntryOf(db, s) EXCEPT !.active = on]]
  <2>1. Same(db, final)
    BY <1>0
  <2>2. Commit(t, final, {})
    BY <1>3 DEF SetPartitionActive
  <2> HIDE DEF Same, final
  <2> QED BY <1>0, <2>1, <2>2, CommitSame
<1>4. ASSUME NEW s, InitRole(t, s) PROVE EraseInv'
  <2> DEFINE final == [db EXCEPT !.part[s].co = TRUE]
  <2>1. Same(db, final)
    BY <1>0
  <2>2. Commit(t, final, {})
    BY <1>4 DEF InitRole
  <2> HIDE DEF Same, final
  <2> QED BY <1>0, <2>1, <2>2, CommitSame
<1>5. ASSUME NEW s, NEW k, CreateObject(t, s, k) PROVE EraseInv'
  <2> DEFINE final == [db EXCEPT !.obj[s] = @ \cup {k}]
  <2>1. Same(db, final)
    BY <1>0
  <2>2. Commit(t, final, {})
    BY <1>5 DEF CreateObject
  <2> HIDE DEF Same, final
  <2> QED BY <1>0, <2>1, <2>2, CommitSame
<1>6. ASSUME NEW s, ClearPartition(t, s) PROVE EraseInv'
  <2> DEFINE final == [db EXCEPT !.obj[s] = {}]
  <2>1. Same(db, final) /\ \A e \in Erasing(db, s) : Same(db, e)
    BY <1>0, ErasingSame
  <2>2. Commit(t, final, Erasing(db, s))
    BY <1>6 DEF ClearPartition
  <2> HIDE DEF Same, final
  <2> QED BY <1>0, <2>1, <2>2, CommitSame
<1>7. ASSUME NEW r, NEW s, ClonePartition(t, r, s) PROVE EraseInv'
  <2>1. PICK ks : Commit(t, [db EXCEPT !.obj[s] = @ \cup ks], {})
    BY <1>7 DEF ClonePartition
  <2> DEFINE final == [db EXCEPT !.obj[s] = @ \cup ks]
  <2>2. Same(db, final)
    BY <1>0
  <2>3. Commit(t, final, {})
    BY <2>1
  <2> HIDE DEF Same, final
  <2> QED BY <2>2, <2>3, CommitSame
<1> QED BY <1>1, <1>2, <1>3, <1>4, <1>5, <1>6, <1>7

LEMMA DomainsSame ==
  ASSUME EraseInv, NEW t
  PROVE  /\ ShowDomain(t) => EraseInv'
         /\ \A s, c : SetPartitionDomain(t, s, c) => EraseInv'
         /\ \A d : SetHsmDomain(t, d) => EraseInv'
         /\ \A s, d, l, pr : AddDomain(t, s, d, l, pr) => EraseInv'
         /\ \A s, l : DeleteDomain(t, s, l) => EraseInv'
         /\ \A s, old, l, pr : ChangeDomainLabel(t, s, old, l, pr) => EraseInv'
<1> USE DEF Same
<1>0. Same(db, db) /\ Same(db, WithHsmDomain(db))
  BY DEF EraseInv, Whole, WithHsmDomain
<1>1. ASSUME ShowDomain(t) PROVE EraseInv'
  <2> HIDE DEF Same
  <2> QED BY <1>0, <1>1, CommitSame DEF ShowDomain
<1>2. ASSUME NEW s, NEW c, SetPartitionDomain(t, s, c) PROVE EraseInv'
  <2> DEFINE base == IF c = None THEN WithHsmDomain(db) ELSE db
             new == IF c = None THEN base.hsmDomain ELSE c
             erased == ClearedFor(base, s, new)
             final == [erased EXCEPT !.dom[s] = IF c = None THEN Inherited ELSE Explicit(new)]
  <2>1. Same(db, base)
    BY <1>0
  <2> HIDE DEF base, new
  <2>2. Same(db, erased)
    BY <2>1 DEF ClearedFor
  <2> HIDE DEF erased
  <2>3. Same(db, final)
    BY <2>2
  <2>4. Commit(t, final, {base, erased})
    BY <1>2 DEF SetPartitionDomain, base, new, erased
  <2> HIDE DEF final, Same
  <2> QED BY <2>1, <2>2, <2>3, <2>4, CommitSame
<1>3. ASSUME NEW d, SetHsmDomain(t, d) PROVE EraseInv'
  <2>1. PICK objs : LET erased == [db EXCEPT !.obj = objs] IN
          Commit(t, [erased EXCEPT !.hsmDomain = d], {erased})
    BY <1>3 DEF SetHsmDomain
  <2> DEFINE erased == [db EXCEPT !.obj = objs]
             final == [erased EXCEPT !.hsmDomain = d]
  <2>2. Same(db, erased) /\ Same(db, final)
    BY <1>0
  <2>3. Commit(t, final, {erased})
    BY <2>1
  <2> HIDE DEF Same, erased, final
  <2> QED BY <2>2, <2>3, CommitSame
<1>4. ASSUME NEW s, NEW d, NEW l, NEW pr, AddDomain(t, s, d, l, pr) PROVE EraseInv'
  <2>1. PICK list, id : Commit(t, [db EXCEPT !.dom[s].list = list, !.dom[s].id = id], {})
    BY <1>4 DEF AddDomain
  <2> DEFINE final == [db EXCEPT !.dom[s].list = list, !.dom[s].id = id]
  <2>2. Same(db, final)
    BY <1>0
  <2>3. Commit(t, final, {})
    BY <2>1
  <2> HIDE DEF Same, final
  <2> QED BY <2>2, <2>3, CommitSame
<1>5. ASSUME NEW s, NEW l, DeleteDomain(t, s, l) PROVE EraseInv'
  <2>1. PICK e : Commit(t, [db EXCEPT !.dom[s].list = @ \ {e}], {})
    BY <1>5 DEF DeleteDomain
  <2> DEFINE final == [db EXCEPT !.dom[s].list = @ \ {e}]
  <2>2. Same(db, final)
    BY <1>0
  <2>3. Commit(t, final, {})
    BY <2>1
  <2> HIDE DEF Same, final
  <2> QED BY <2>2, <2>3, CommitSame
<1>6. ASSUME NEW s, NEW old, NEW l, NEW pr, ChangeDomainLabel(t, s, old, l, pr) PROVE EraseInv'
  <2>1. PICK list, id : Commit(t, [db EXCEPT !.dom[s].list = list, !.dom[s].id = id], {})
    BY <1>6 DEF ChangeDomainLabel
  <2> DEFINE final == [db EXCEPT !.dom[s].list = list, !.dom[s].id = id]
  <2>2. Same(db, final)
    BY <1>0
  <2>3. Commit(t, final, {})
    BY <2>1
  <2> HIDE DEF Same, final
  <2> QED BY <2>2, <2>3, CommitSame
<1> QED BY <1>1, <1>2, <1>3, <1>4, <1>5, <1>6

LEMMA PoliciesSame ==
  ASSUME EraseInv, NEW t
  PROVE  /\ \A s, p, v : ChangePolicy(t, s, p, v) => EraseInv'
         /\ \A tm : CreateTemplate(t, tm) \/ DeleteTemplate(t, tm) => EraseInv'
         /\ \A s, tm : ApplyTemplate(t, s, tm) => EraseInv'
         /\ \A v : InstallFirmware(t, v) => EraseInv'
<1> USE DEF Same
<1>0. Same(db, db)
  BY DEF EraseInv, Whole
<1>1. ASSUME NEW s, NEW p, NEW v, ChangePolicy(t, s, p, v) PROVE EraseInv'
  <2> DEFINE saved == [db EXCEPT !.pol[s][p] = v]
             alone == IF p = 44 /\ db.pol[s][p] = 1 /\ v = 0 THEN Collapsed(saved, s) ELSE saved
             final == [alone EXCEPT !.obj[s] = {}]
  <2>1. Same(db, saved)
    BY <1>0
  <2> HIDE DEF saved
  <2>2. Same(db, Collapsed(saved, s))
    BY <2>1 DEF Collapsed
  <2>3. Same(db, alone)
    BY <2>1, <2>2
  <2> HIDE DEF alone
  <2>4. Same(db, final) /\ \A e \in Erasing(alone, s) : Same(db, e)
    BY <2>3, ErasingSame
  <2>5. Commit(t, final, Erasing(alone, s)) \/ Commit(t, alone, {saved})
    BY <1>1 DEF ChangePolicy, alone, saved
  <2> HIDE DEF final, Same
  <2> QED BY <2>1, <2>3, <2>4, <2>5, CommitSame
<1>2. ASSUME NEW tm, CreateTemplate(t, tm) \/ DeleteTemplate(t, tm) PROVE EraseInv'
  <2> DEFINE more == [db EXCEPT !.templates = @ \cup {tm}]
             less == [db EXCEPT !.templates = @ \ {tm}]
  <2>1. Same(db, more) /\ Same(db, less)
    BY <1>0
  <2>2. Commit(t, more, {}) \/ Commit(t, less, {})
    BY <1>2 DEF CreateTemplate, DeleteTemplate
  <2> HIDE DEF Same, more, less
  <2> QED BY <1>0, <2>1, <2>2, CommitSame
<1>3. ASSUME NEW s, NEW tm, ApplyTemplate(t, s, tm) PROVE EraseInv'
  <2>1. PICK settings : LET saved == [db EXCEPT !.pol[s] = settings] IN
          Commit(t, [saved EXCEPT !.obj[s] = {}], Erasing(saved, s)) \/ Commit(t, saved, {})
    BY <1>3 DEF ApplyTemplate
  <2> DEFINE saved == [db EXCEPT !.pol[s] = settings]
             final == [saved EXCEPT !.obj[s] = {}]
  <2>2. Same(db, saved) /\ Same(db, final)
    BY <1>0
  <2>3. Commit(t, final, Erasing(saved, s)) \/ Commit(t, saved, {})
    BY <2>1
  <2> HIDE DEF Same, saved, final
  <2>4. \A e \in Erasing(saved, s) : Same(db, e)
    BY <2>2, ErasingSame
  <2> QED BY <2>2, <2>3, <2>4, CommitSame
<1>4. ASSUME NEW v, InstallFirmware(t, v) PROVE EraseInv'
  <2> DEFINE part == [db EXCEPT !.firmware.current = v]
             final == [db EXCEPT !.firmware = [current |-> v, last |-> db.firmware.current]]
  <2>1. Same(db, part) /\ Same(db, final)
    BY <1>0
  <2>2. Commit(t, final, {part})
    BY <1>4 DEF InstallFirmware
  <2> HIDE DEF Same, part, final
  <2> QED BY <1>0, <2>1, <2>2, CommitSame
<1> QED BY <1>1, <1>2, <1>3, <1>4

-----------------------------------------------------------------------------
(* Commands that make or move master keys.                                 *)

LEMMA WithKey ==
  ASSUME NEW d, NEW e, NEW f, Whole(d), From(d, e),
         NEW s \in Slots, NEW k \in MasterKeys,
         Documents \subseteq DOMAIN f, f.sks = [e.sks EXCEPT ![s] = k],
         f.nextSmk \in Nat \ {0}, e.nextSmk <= f.nextSmk,
         k.primary < f.nextSmk, k.rollover < f.nextSmk,
         Known(d, k.primary), Known(d, k.rollover)
  PROVE  From(d, f)
<1>1. /\ e.sks \in [Slots -> MasterKeys \cup {None}]
      /\ e.nextSmk \in Nat /\ d.nextSmk \in Nat /\ d.nextSmk <= e.nextSmk
      /\ \A r \in Slots : f.sks[r] = IF r = s THEN k ELSE e.sks[r]
  BY DEF Whole, From
<1>2. Whole(f)
  <2>1. f.sks \in [Slots -> MasterKeys \cup {None}]
    BY <1>1
  <2>2. \A r \in Slots : f.sks[r] # None =>
          f.sks[r].primary < f.nextSmk /\ f.sks[r].rollover < f.nextSmk
    <3> SUFFICES ASSUME NEW r \in Slots, f.sks[r] # None
                 PROVE  f.sks[r].primary < f.nextSmk /\ f.sks[r].rollover < f.nextSmk
      OBVIOUS
    <3>1. CASE r = s
      BY <1>1, <3>1
    <3>2. CASE r # s
      <4>1. f.sks[r] = e.sks[r] /\ e.sks[r] \in MasterKeys
        BY <1>1, <3>2
      <4>2. e.sks[r].primary < e.nextSmk /\ e.sks[r].rollover < e.nextSmk
        BY <4>1 DEF From, Whole
      <4> QED BY <1>1, <4>1, <4>2 DEF MasterKeys
    <3> QED BY <3>1, <3>2
  <2> QED BY <2>1, <2>2 DEF Whole
<1>3. \A x \in Nat : Live(f, x) => Known(d, x)
  <2> SUFFICES ASSUME NEW x \in Nat, Live(f, x) PROVE Known(d, x)
    OBVIOUS
  <2>1. PICK r \in Slots : f.sks[r] # None /\ x \in {f.sks[r].primary, f.sks[r].rollover}
    BY DEF Live
  <2>2. CASE r = s
    BY <1>1, <2>1, <2>2
  <2>3. CASE r # s
    <3>1. Live(e, x)
      BY <1>1, <2>1, <2>3 DEF Live
    <3> QED BY <3>1 DEF From
  <2> QED BY <2>2, <2>3
<1> QED BY <1>1, <1>2, <1>3 DEF From

LEMMA FromItself == ASSUME NEW d, Whole(d) PROVE From(d, d)
BY SameFrom DEF Same, Whole

\* A partition that is given its first master key has a new one.
LEMMA WithSmkFrom ==
  ASSUME NEW d, NEW s \in Slots, Whole(d)
  PROVE  LET w == WithSmk(d, s) IN
         /\ From(d, w)
         /\ w.sks[s] \in MasterKeys
         /\ w.sks[s].primary < w.nextSmk /\ w.sks[s].rollover < w.nextSmk
         /\ Known(d, w.sks[s].primary) /\ Known(d, w.sks[s].rollover)
<1> DEFINE w == WithSmk(d, s)
<1>0. d.nextSmk \in Nat \ {0} /\ d.sks \in [Slots -> MasterKeys \cup {None}]
  BY DEF Whole
<1>1. CASE d.sks[s] # None
  <2>1. w = d
    BY <1>1 DEF WithSmk
  <2>2. From(d, d)
    BY FromItself
  <2>3. /\ d.sks[s] \in MasterKeys
        /\ d.sks[s].primary < d.nextSmk /\ d.sks[s].rollover < d.nextSmk
        /\ Known(d, d.sks[s].primary) /\ Known(d, d.sks[s].rollover)
    BY <1>0, <1>1 DEF Whole, Known, Live
  <2> QED BY <2>1, <2>2, <2>3
<1>2. CASE d.sks[s] = None
  <2> DEFINE k == [primary |-> d.nextSmk, rollover |-> 0]
  <2>1. w = [d EXCEPT !.sks[s] = k, !.nextSmk = @ + 1]
    BY <1>2 DEF WithSmk
  <2>2. k \in MasterKeys /\ k.primary = d.nextSmk /\ k.rollover = 0
    BY <1>0 DEF MasterKeys
  <2> HIDE DEF k
  <2>3. /\ w.sks = [d.sks EXCEPT ![s] = k] /\ w.nextSmk = d.nextSmk + 1
        /\ Documents \subseteq DOMAIN w
    BY <2>1 DEF Whole, Documents
  <2> HIDE DEF w
  <2>4. Known(d, k.primary) /\ Known(d, k.rollover)
    BY <1>0, <2>2 DEF Known
  <2>5. k.primary < w.nextSmk /\ k.rollover < w.nextSmk /\ d.nextSmk <= w.nextSmk
    BY <1>0, <2>2, <2>3
  <2>6. w.nextSmk \in Nat \ {0} /\ w.sks[s] = k
    BY <1>0, <2>3
  <2>7. From(d, w)
    BY <2>2, <2>3, <2>4, <2>5, <2>6, FromItself, WithKey
  <2> QED BY <2>2, <2>4, <2>5, <2>6, <2>7 DEF w
<1> QED BY <1>1, <1>2

\* The target's master key is then the source's.
LEMMA CloneSmkSafe ==
  ASSUME EraseInv, NEW t, NEW r \in Slots, NEW s \in Slots, CloneSmk(t, r, s)
  PROVE  EraseInv'
<1> DEFINE source == WithSmk(db, r)
           k == [primary |-> source.sks[r].primary, rollover |-> 0]
           final == [source EXCEPT !.sks[s] = k]
<1>0. Whole(db)
  BY DEF EraseInv
<1>1. /\ From(db, source) /\ source.sks[r] \in MasterKeys
      /\ source.sks[r].primary < source.nextSmk
      /\ Known(db, source.sks[r].primary)
  BY <1>0, WithSmkFrom
<1>2. Commit(t, final, {source})
  BY DEF CloneSmk
<1> HIDE DEF source
<1>3. /\ k \in MasterKeys /\ k.primary = source.sks[r].primary /\ k.rollover = 0
  BY <1>1 DEF MasterKeys
<1> HIDE DEF k
<1>4. /\ final.sks = [source.sks EXCEPT ![s] = k] /\ final.nextSmk = source.nextSmk
      /\ source.nextSmk \in Nat \ {0} /\ Documents \subseteq DOMAIN final
  BY <1>1 DEF From, Whole, Documents
<1> HIDE DEF final
<1>5. From(db, final)
  <2>1. Known(db, k.primary) /\ Known(db, k.rollover)
    BY <1>1, <1>3 DEF Known
  <2>2. k.primary < final.nextSmk /\ k.rollover < final.nextSmk /\ source.nextSmk <= final.nextSmk
    BY <1>1, <1>3, <1>4
  <2> QED BY <1>0, <1>1, <1>3, <1>4, <2>1, <2>2, WithKey
<1> QED BY <1>1, <1>2, <1>5, CommitSafe

\* A rollover makes a key and keeps the one before; its end drops that one.
LEMMA RolloverSafe ==
  ASSUME EraseInv, NEW t, NEW s \in Slots, RolloverStart(t, s) \/ RolloverEnd(t, s)
  PROVE  EraseInv'
<1> DEFINE d == WithSmk(db, s)
           next == [primary |-> d.nextSmk, rollover |-> d.sks[s].primary]
           last == [d.sks[s] EXCEPT !.rollover = 0]
           started == [d EXCEPT !.sks[s] = next, !.nextSmk = @ + 1]
           ended == [d EXCEPT !.sks[s].rollover = 0]
<1>0. Whole(db)
  BY DEF EraseInv
<1>1. /\ From(db, d) /\ d.sks[s] \in MasterKeys
      /\ d.sks[s].primary < d.nextSmk
      /\ Known(db, d.sks[s].primary)
  BY <1>0, WithSmkFrom
<1>2. Commit(t, d, {}) \/ Commit(t, started, {d}) \/ Commit(t, ended, {d})
  BY DEF RolloverStart, RolloverEnd
<1> HIDE DEF d
<1>3. d.nextSmk \in Nat \ {0} /\ db.nextSmk <= d.nextSmk /\ Documents \subseteq DOMAIN d
  BY <1>1 DEF From, Whole
<1>4. From(db, started)
  <2>1. next \in MasterKeys /\ next.primary = d.nextSmk /\ next.rollover = d.sks[s].primary
    BY <1>1, <1>3 DEF MasterKeys
  <2> HIDE DEF next
  <2>2. /\ started.sks = [d.sks EXCEPT ![s] = next] /\ started.nextSmk = d.nextSmk + 1
        /\ Documents \subseteq DOMAIN started
    BY <1>3 DEF Documents
  <2> HIDE DEF started
  <2>3. Known(db, next.primary) /\ Known(db, next.rollover)
    BY <1>1, <1>3, <2>1 DEF Known
  <2>4. /\ next.primary < started.nextSmk /\ next.rollover < started.nextSmk
        /\ d.nextSmk <= started.nextSmk /\ started.nextSmk \in Nat \ {0}
    <3>1. next.rollover \in Nat
      BY <2>1 DEF MasterKeys
    <3> QED BY <1>1, <1>3, <2>1, <2>2, <3>1
  <2> QED BY <1>0, <1>1, <2>1, <2>2, <2>3, <2>4, WithKey
<1>5. From(db, ended)
  <2>1. last \in MasterKeys /\ last.primary = d.sks[s].primary /\ last.rollover = 0
    BY <1>1 DEF MasterKeys
  <2>2. /\ ended.sks = [d.sks EXCEPT ![s] = last] /\ ended.nextSmk = d.nextSmk
        /\ Documents \subseteq DOMAIN ended
    BY <1>3 DEF Documents
  <2> HIDE DEF ended, last
  <2>3. Known(db, last.primary) /\ Known(db, last.rollover)
    BY <1>1, <2>1 DEF Known
  <2>4. /\ last.primary < ended.nextSmk /\ last.rollover < ended.nextSmk
        /\ d.nextSmk <= ended.nextSmk
    BY <1>1, <1>3, <2>1, <2>2
  <2> QED BY <1>0, <1>1, <1>3, <2>1, <2>2, <2>3, <2>4, WithKey
<1> HIDE DEF started, ended
<1> QED BY <1>1, <1>2, <1>4, <1>5, CommitSafe

LEMMA BlobsSafe ==
  ASSUME EraseInv, NEW t, NEW s \in Slots
  PROVE  /\ \A k : Extract(t, s, k) => EraseInv'
         /\ \A b : Insert(t, s, b) => EraseInv'
<1> DEFINE d == WithSmk(db, s)
<1>0. Whole(db)
  BY DEF EraseInv
<1>1. /\ From(db, d) /\ d.sks[s] \in MasterKeys
      /\ d.sks[s].primary < d.nextSmk
  BY <1>0, WithSmkFrom
<1>2. ASSUME NEW k, Extract(t, s, k) PROVE EraseInv'
  <2>1. /\ db' = d /\ dead' = dead
        /\ blobs' = blobs \cup {[smk |-> d.sks[s].primary, key |-> k]}
    BY <1>2 DEF Extract
  <2> HIDE DEF d
  <2>2. \A b \in dead : ~Live(d, b.smk)
    BY <1>1 DEF EraseInv, From, Known, Whole
  <2>3. \A b \in blobs' : b.smk \in Nat \ {0} /\ b.smk < d.nextSmk
    <3>1. \A b \in blobs : b.smk \in Nat \ {0} /\ b.smk < d.nextSmk
      BY <1>1 DEF EraseInv, From, Whole
    <3> QED BY <1>1, <2>1, <3>1 DEF MasterKeys
  <2> QED BY <1>1, <2>1, <2>2, <2>3 DEF EraseInv, From, Whole, Live
<1>3. ASSUME NEW b, Insert(t, s, b) PROVE EraseInv'
  <2> DEFINE filled == [d EXCEPT !.obj[s] = @ \cup {b.key}]
  <2>1. Commit(t, filled, {d}) \/ Commit(t, d, {d})
    BY <1>3 DEF Insert
  <2> HIDE DEF d
  <2>2. From(db, filled)
    <3>1. Documents \subseteq DOMAIN filled /\ filled.sks = d.sks /\ filled.nextSmk = d.nextSmk
      BY <1>1 DEF From, Whole, Documents
    <3> HIDE DEF filled
    <3> QED BY <1>1, <3>1 DEF From, Whole, Live
  <2> HIDE DEF filled
  <2> QED BY <1>1, <2>1, <2>2, CommitSafe
<1> QED BY <1>2, <1>3

\* The credential, the flag, the domain and the lifecycle entry leave the
\* master keys alone; the last save makes one.
LEMMA InitTokenSafe ==
  ASSUME EraseInv, NEW t, NEW s \in Slots, NEW pin, NEW dm, InitToken(t, s, pin, dm)
  PROVE  EraseInv'
<1> DEFINE cred == Credential(db, s, pin)
           set  == [cred EXCEPT !.part[s].initialized = TRUE]
           dom  == [set EXCEPT !.dom[s] = Explicit(dm)]
           done == [dom EXCEPT !.life[s].domain = TRUE]
           all  == IF V1(done, s) THEN WithSmk(done, s) ELSE done
<1>0. Whole(db)
  BY DEF EraseInv
<1>1. Commit(t, set, {cred}) \/ Commit(t, all, {cred, set, dom, done})
  BY DEF InitToken
<1>2. Same(db, cred)
  <2> DEFINE touched == [db EXCEPT !.life[s] = EntryOf(db, s)]
  <2>1. \/ cred = [touched EXCEPT !.part[s].co = TRUE]
        \/ cred = [touched EXCEPT !.part[s].po = pin]
    BY DEF Credential
  <2>2. Same(db, touched)
    BY <1>0 DEF Same, Whole
  <2> HIDE DEF cred, touched
  <2>3. CASE cred = [touched EXCEPT !.part[s].co = TRUE]
    BY <2>2, <2>3 DEF Same
  <2>4. CASE cred = [touched EXCEPT !.part[s].po = pin]
    BY <2>2, <2>4 DEF Same
  <2> QED BY <2>1, <2>3, <2>4
<1> HIDE DEF cred
<1>3. Same(db, set)
  BY <1>2 DEF Same
<1> HIDE DEF set
<1>4. Same(db, dom)
  BY <1>3 DEF Same
<1> HIDE DEF dom
<1>5. Same(db, done)
  BY <1>4 DEF Same
<1> HIDE DEF done
<1>6. From(db, cred) /\ From(db, set) /\ From(db, dom) /\ From(db, done)
  BY <1>0, <1>2, <1>3, <1>4, <1>5, SameFrom
<1>7. From(db, WithSmk(done, s))
  <2>1. From(done, WithSmk(done, s))
    BY <1>6, WithSmkFrom DEF From
  <2>2. \A x : Known(done, x) <=> Known(db, x)
    BY <1>5 DEF Same, Known, Live
  <2> QED BY <1>5, <2>1, <2>2 DEF From, Same
<1>8. From(db, all)
  BY <1>6, <1>7
<1> HIDE DEF all
<1> QED BY <1>1, <1>6, <1>8, CommitSafe

LEMMA PartitionsSafe ==
  ASSUME EraseInv, NEW t, LunaShPartition(t) \/ LunaShContents(t) \/ LunaCmPartition(t)
  PROVE  EraseInv'
BY EntriesSame, InitTokenSafe, PoliciesSame
   DEF LunaShPartition, LunaShContents, LunaCmPartition, InitPartition

LEMMA PartitionStepSafe ==
  ASSUME EraseInv, NEW t, PartitionStep(t)
  PROVE  EraseInv'
<1>1. CASE LunaShDomain(t)
  BY <1>1, DomainsSame DEF LunaShDomain
<1>2. CASE LunaCmSmk(t)
  BY <1>2, RolloverSafe, CloneSmkSafe DEF LunaCmSmk
<1>3. CASE LunaCmDomain(t)
  BY <1>3, DomainsSame DEF LunaCmDomain
<1>4. CASE LunaCmPolicy(t) \/ TemplateCommand(t)
  BY <1>4, PoliciesSame DEF LunaCmPolicy, TemplateCommand
<1>5. CASE Application(t)
  BY <1>5, EntriesSame, BlobsSafe DEF Application
<1>6. CASE FirmwareCommand(t)
  BY <1>6, PoliciesSame DEF FirmwareCommand, RollbackFirmware
<1> QED BY PartitionsSafe, <1>1, <1>2, <1>3, <1>4, <1>5, <1>6 DEF PartitionStep

-----------------------------------------------------------------------------
(* Erasing every partition.                                                *)

\* What CommitAll leaves of the documents of the partitions.
Result(d, partial) ==
  /\ UNCHANGED blobs
  /\ \/ /\ db' = d
        /\ dead' = dead \/ (dead' = blobs /\ \A s \in Slots : d.sks[s] = None)
     \/ dead' = dead /\ \E p \in partial : db' = p[1]

LEMMA ResultSafe ==
  ASSUME EraseInv, NEW d, NEW partial, Result(d, partial),
         From(db, d), \A p \in partial : From(db, p[1])
  PROVE  EraseInv'
<1>1. CASE dead' = dead
  <2>1. From(db, db')
    BY <1>1 DEF Result
  <2> QED BY <1>1, <2>1, LaterKeys DEF Result
<1>2. CASE db' = d /\ dead' = blobs /\ \A s \in Slots : d.sks[s] = None
  <2>1. Whole(db')
    BY <1>2 DEF From
  <2>2. \A b \in blobs' : b.smk \in Nat \ {0} /\ b.smk < db'.nextSmk
    BY <1>2 DEF EraseInv, From, Whole, Result
  <2>3. \A b \in dead' : b \in blobs' /\ ~Live(db', b.smk)
    BY <1>2 DEF Live, Result
  <2> QED BY <2>1, <2>2, <2>3 DEF EraseInv, Whole, Live
<1> QED BY <1>1, <1>2 DEF Result

\* Erased or half erased, no partition has a key it had not.
LEMMA ErasedFrom ==
  ASSUME EraseInv
  PROVE  /\ From(db, db)
         /\ From(db, Erased(db))
         /\ \A s \in Slots : Erased(db).sks[s] = None
         /\ \A d \in HalfErased(db) : From(db, d)
<1>0. Whole(db)
  BY DEF EraseInv
<1>1. /\ Documents \subseteq DOMAIN Erased(db)
      /\ Erased(db).sks = Empty.sks /\ Erased(db).nextSmk = db.nextSmk
  BY <1>0 DEF Erased, Whole, Documents
<1>2. Empty.sks = [s \in Slots |-> None]
  BY DEF Empty
<1>3. From(db, Erased(db))
  BY <1>0, <1>1, <1>2 DEF From, Whole, Live, Known
<1>4. ASSUME NEW d \in HalfErased(db) PROVE From(db, d)
  <2> DEFINE all == [db EXCEPT !.part = Empty.part, !.obj = Empty.obj, !.dom = Empty.dom]
  <2>1. Same(db, all)
    BY <1>0 DEF Same, Whole
  <2>2. Same(db, [all EXCEPT !.life = Empty.life])
    BY <2>1 DEF Same
  <2>3. ASSUME NEW rows, NEW objs, d = [db EXCEPT !.part = rows, !.obj = objs] PROVE Same(db, d)
    BY <1>0, <2>3 DEF Same, Whole
  <2>4. \/ d = all \/ d = [all EXCEPT !.life = Empty.life]
        \/ \E rows, objs : d = [db EXCEPT !.part = rows, !.obj = objs]
    BY DEF HalfErased
  <2> QED BY <1>0, <2>1, <2>2, <2>3, <2>4, SameFrom
<1> QED BY <1>0, <1>1, <1>2, <1>3, <1>4, FromItself

LEMMA ZeroizeSafe ==
  ASSUME EraseInv, NEW t, NEW a, ZeroizeFrom(t, a)
  PROVE  EraseInv'
<1> DEFINE P == (HalfErased(db) \X {a}) \cup ({Erased(db)} \X {a, ZeroizedPed(a)})
<1>1. Result(Erased(db), P)
  BY ErasedFrom DEF ZeroizeFrom, CommitAll, Result
<1>2. \A p \in P : From(db, p[1])
  BY ErasedFrom
<1> HIDE DEF P
<1> QED BY <1>1, <1>2, ErasedFrom, ResultSafe

LEMMA FactoryResetSafe ==
  ASSUME EraseInv, NEW t, FactoryReset(t)
  PROVE  EraseInv'
<1> DEFINE ped == [admin EXCEPT !.ped = FactoryPed]
           hsm == [ped EXCEPT !.hsm = FactoryHsm]
           end == [Erased(db) EXCEPT !.hsmDomain = None]
           P   == (HalfErased(db) \X {admin}) \cup ({Erased(db)} \X {admin, ped, hsm})
                    \cup {<<end, hsm>>}
<1>1. From(db, end) /\ \A s \in Slots : end.sks[s] = None
  <2>1. /\ Documents \subseteq DOMAIN end
        /\ end.sks = Erased(db).sks /\ end.nextSmk = Erased(db).nextSmk
    BY ErasedFrom DEF From, Whole, Documents
  <2> HIDE DEF end
  <2> QED BY <2>1, ErasedFrom DEF From, Whole, Live
<1>2. Result(end, P)
  BY <1>1 DEF FactoryReset, CommitAll, Result
<1>3. \A p \in P : From(db, p[1])
  BY <1>1, ErasedFrom
<1> HIDE DEF P, end
<1> QED BY <1>1, <1>2, <1>3, ResultSafe

LEMMA SaveSafe ==
  ASSUME EraseInv, NEW t, NEW a, NEW first, NEW loggedIn,
         SaveAdmin(t, a, loggedIn) \/ SaveAfter(t, first, a, loggedIn)
  PROVE  EraseInv'
<1>1. Result(db, {}) \/ Result(db, {<<db, first>>})
  BY DEF SaveAdmin, SaveAfter, CommitAll, Result
<1>2. \A p \in {<<db, first>>} : From(db, p[1])
  BY ErasedFrom
<1> QED BY <1>1, <1>2, ErasedFrom, ResultSafe

LEMMA HsmInitSafe ==
  ASSUME EraseInv, NEW t, NEW mode, NEW pin, HsmInit(t, mode, pin)
  PROVE  EraseInv'
<1>1. PICK hsm : LET Q == HalfErased(db) \X {admin}
                     P == Q \cup ({Erased(db)} \X {admin, hsm})
                 IN Result(Erased(db), P) \/ Result(Erased(db), Q)
  BY ErasedFrom DEF HsmInit, CommitAll, Result
<1> DEFINE Q == HalfErased(db) \X {admin}
           P == Q \cup ({Erased(db)} \X {admin, hsm})
<1>2. (\A p \in P : From(db, p[1])) /\ (\A p \in Q : From(db, p[1]))
  BY ErasedFrom
<1>3. Result(Erased(db), P) \/ Result(Erased(db), Q)
  BY <1>1
<1> HIDE DEF P, Q
<1> QED BY <1>2, <1>3, ErasedFrom, ResultSafe

LEMMA PolicySafe ==
  ASSUME EraseInv, NEW t, NEW v, ChangeHsmPolicy(t, v)
  PROVE  EraseInv'
<1> DEFINE a == [admin EXCEPT !.policy = v]
           P == HalfErased(db) \X {a}
<1>1. SaveAdmin(t, a, TRUE) \/ Result(Erased(db), P)
  BY ErasedFrom DEF ChangeHsmPolicy, CommitAll, Result
<1>2. \A p \in P : From(db, p[1])
  BY ErasedFrom
<1>3. CASE SaveAdmin(t, a, TRUE)
  <2>1. Result(db, {})
    BY <1>3 DEF SaveAdmin, CommitAll, Result
  <2> QED BY <2>1, ErasedFrom, ResultSafe
<1> HIDE DEF P
<1>4. CASE Result(Erased(db), P)
  BY <1>2, <1>4, ErasedFrom, ResultSafe
<1> QED BY <1>1, <1>3, <1>4

LEMMA HsmStepSafe ==
  ASSUME EraseInv, NEW t, HsmCommand(t) \/ PedCommand(t) \/ PedKey(t)
  PROVE  EraseInv'
<1>1. ASSUME NEW a, SaveAdmin(t, a, TRUE) \/ SaveAdmin(t, a, FALSE) \/ SaveAdmin(t, a, shell[t].so)
      PROVE  EraseInv'
  <2>1. Result(db, {})
    BY <1>1 DEF SaveAdmin, CommitAll, Result
  <2> QED BY <2>1, ErasedFrom, ResultSafe
<1>2. CASE PedCommand(t) \/ PedKey(t)
  BY <1>1, <1>2
     DEF PedCommand, PedKey, ConnectPed, DisconnectPed, CreateKeySet, DuplicateKey, LoseKey
<1>3. CASE HsmLoginPed(t) \/ HsmLogout(t) \/ HsmInitAborted(t)
  BY <1>1, <1>3 DEF HsmLoginPed, HsmLogout, HsmInitAborted
<1>4. ASSUME NEW pin, HsmLogin(t, pin) PROVE EraseInv'
  <2> DEFINE a == Migrated
  <2>1. \/ SaveAdmin(t, a, FALSE)
        \/ SaveAfter(t, a, [a EXCEPT !.hsm.failed = 0], TRUE)
        \/ Failed(t, a)
    BY <1>4 DEF HsmLogin
  <2> HIDE DEF a
  <2>2. CASE SaveAfter(t, a, [a EXCEPT !.hsm.failed = 0], TRUE)
    <3>1. Result(db, {<<db, a>>})
      BY <2>2 DEF SaveAfter, CommitAll, Result
    <3>2. \A p \in {<<db, a>>} : From(db, p[1])
      BY ErasedFrom
    <3> QED BY <3>1, <3>2, ErasedFrom, ResultSafe
  <2>3. CASE Failed(t, a)
    BY <2>3, SaveSafe, ZeroizeSafe DEF Failed
  <2> QED BY <1>1, <2>1, <2>2, <2>3
<1>5. ASSUME NEW v, ChangeHsmPolicy(t, v) PROVE EraseInv'
  BY <1>5, PolicySafe
<1>6. ASSUME NEW mode, NEW pin, HsmInit(t, mode, pin) PROVE EraseInv'
  BY <1>6, HsmInitSafe
<1>7. CASE FactoryReset(t) \/ Zeroize(t)
  BY <1>7, FactoryResetSafe, ZeroizeSafe DEF Zeroize
<1> QED BY <1>2, <1>3, <1>4, <1>5, <1>6, <1>7 DEF HsmCommand

\* A restoration saves objects; nothing else of the backup HSM's commands
\* touches the partitions.
LEMMA BackupSafe ==
  ASSUME EraseInv, NEW t, BackupCommand(t)
  PROVE  EraseInv'
<1>1. ASSUME UNCHANGED <<db, blobs, dead>> PROVE EraseInv'
  BY <1>1 DEF EraseInv, Whole, Live
<1>2. ASSUME NEW s, NEW d, NEW ls, RestoreObjects(t, s, d, ls) PROVE EraseInv'
  <2>1. PICK objs : db' = [db EXCEPT !.obj[s] = objs]
    BY <1>2 DEF RestoreObjects
  <2>2. Same(db, db')
    BY <2>1 DEF Same, EraseInv, Whole
  <2>3. UNCHANGED <<blobs, dead>>
    BY <1>2 DEF RestoreObjects
  <2> QED BY <2>2, <2>3, SameFrom, LaterKeys DEF EraseInv
<1>3. ASSUME NEW s, NEW d, NEW ls, BackupObjects(t, s, d, ls) PROVE EraseInv'
  BY <1>1, <1>3 DEF BackupObjects, BackupCommit
<1>4. CASE \/ \E d \in Domains : CreateBackupPartition(t, d)
           \/ \E pin \in Pins : BackupInit(t, pin) \/ BackupLogin(t, pin)
           \/ BackupFactoryReset(t) \/ BackupLogout(t)
  BY <1>1, <1>4 DEF CreateBackupPartition, BackupInit, BackupLogin, BackupFactoryReset,
                    BackupLogout, BackupCommit
<1>5. CASE LunaCmBackupDevice(t)
  BY <1>1, <1>5 DEF LunaCmBackupDevice, BackupConnect, BackupDisconnect, StmRecover,
                    UpgradeBackupFirmware, RollbackBackupFirmware, BackupCommit
<1> QED BY <1>2, <1>3, <1>4, <1>5 DEF BackupCommand, LunaCmBackup, LunaShTokenBackup

LEMMA EraseStart == Init => EraseInv
<1> SUFFICES ASSUME Init PROVE EraseInv
  OBVIOUS
<1>1. db = Empty /\ blobs = {} /\ dead = {}
  BY DEF Init, PartInit
<1>2. /\ Documents \subseteq DOMAIN Empty
      /\ Empty.sks = [s \in Slots |-> None] /\ Empty.nextSmk = 1
  BY DEF Empty, Documents
<1> QED BY <1>1, <1>2 DEF EraseInv, Whole

LEMMA EraseStep ==
  ASSUME EraseInv, [Next]_vars
  PROVE  EraseInv'
<1>1. CASE UNCHANGED vars
  BY <1>1 DEF vars, partVars, EraseInv, Whole, Live
<1> QED BY <1>1, PartitionStepSafe, BackupSafe, HsmStepSafe DEF Next

\* What was extracted before an erasure of all partitions (zeroization, factory
\* reset, hsm init, a destructive HSM policy: TokenManager.zeroize and
\* factory_reset, SKSManager) ended is of no use after it, for any number of
\* slots and of partitions made, rolled over and cloned since.
THEOREM ErasedStaysErased == Spec => []ErasedForGood
<1>1. EraseInv /\ [Next]_vars => EraseInv'
  BY EraseStep
<1>2. EraseInv => ErasedForGood
  <2> SUFFICES ASSUME EraseInv, NEW b \in dead, NEW s \in Slots, Opens(db, s, b) PROVE FALSE
    BY DEF ErasedForGood
  <2> QED BY DEF EraseInv, Opens, Live
<1> QED BY EraseStart, <1>1, <1>2, PTL DEF Spec

-----------------------------------------------------------------------------
(* The backup HSM's firmware.                                              *)

Filed == {"stm", "pin", "fw", "prev", "parts"} \subseteq DOMAIN bk

\* Firmware changes with its reserve, or over an emptied store.
FirmwareStep == bk'.fw = bk.fw \/ bk'.prev = bk.fw \/ bk'.parts = <<>>

LEMMA OtherFirmware ==
  ASSUME Filed, NEW t,
         \/ UNCHANGED bk
         \/ BackupConnect(t) \/ BackupDisconnect(t) \/ StmRecover(t) \/ BackupLogout(t)
         \/ \E pin \in Pins : BackupInit(t, pin) \/ BackupLogin(t, pin)
         \/ \E d \in Domains : CreateBackupPartition(t, d)
         \/ \E s, d, ls : BackupObjects(t, s, d, ls) \/ RestoreObjects(t, s, d, ls)
  PROVE  Filed' /\ FirmwareStep
<1>1. CASE UNCHANGED bk \/ BackupConnect(t) \/ BackupDisconnect(t) \/ BackupLogout(t)
  BY <1>1 DEF Filed, FirmwareStep, BackupConnect, BackupDisconnect, BackupLogout, BackupCommit
<1>2. CASE StmRecover(t)
  BY <1>2 DEF Filed, FirmwareStep, StmRecover, BackupCommit
<1>3. ASSUME NEW pin, BackupInit(t, pin) \/ BackupLogin(t, pin) PROVE Filed' /\ FirmwareStep
  BY <1>3 DEF Filed, FirmwareStep, BackupInit, BackupLogin, BackupCommit
<1>4. ASSUME NEW d, CreateBackupPartition(t, d) PROVE Filed' /\ FirmwareStep
  BY <1>4 DEF Filed, FirmwareStep, CreateBackupPartition, WithPartition, BackupCommit
<1>5. ASSUME NEW s, NEW d, NEW ls, RestoreObjects(t, s, d, ls) PROVE Filed' /\ FirmwareStep
  BY <1>5 DEF Filed, FirmwareStep, RestoreObjects
<1>6. ASSUME NEW s, NEW d, NEW ls, BackupObjects(t, s, d, ls) PROVE Filed' /\ FirmwareStep
  <2> DEFINE b == Target(d)
  <2>1. PICK i, copy : BackupCommit(t, [b EXCEPT !.parts[i].objs = Merged(copy, @)], shell[t], {})
    BY <1>6 DEF BackupObjects
  <2>2. {"stm", "pin", "fw", "prev", "parts"} \subseteq DOMAIN b /\ b.fw = bk.fw
    BY DEF Target, WithPartition, Filed
  <2> HIDE DEF b
  <2>3. bk' = [b EXCEPT !.parts[i].objs = Merged(copy, @)]
    BY <2>1 DEF BackupCommit
  <2> QED BY <2>2, <2>3 DEF Filed, FirmwareStep
<1> QED BY <1>1, <1>2, <1>3, <1>4, <1>5, <1>6

LEMMA FirmwareChanges ==
  ASSUME Filed, NEW t,
         \/ \E v \in Firmwares : UpgradeBackupFirmware(t, v)
         \/ RollbackBackupFirmware(t) \/ BackupFactoryReset(t)
  PROVE  Filed' /\ FirmwareStep
<1>1. ASSUME NEW v, UpgradeBackupFirmware(t, v) PROVE Filed' /\ FirmwareStep
  BY <1>1 DEF Filed, FirmwareStep, UpgradeBackupFirmware, BackupCommit
<1>2. CASE RollbackBackupFirmware(t)
  <2> DEFINE erased == [bk EXCEPT !.parts = <<>>]
             back == [erased EXCEPT !.fw = bk.prev]
             done == [back EXCEPT !.prev = None]
  <2>1. bk' \in {done, erased, back}
    BY <1>2 DEF RollbackBackupFirmware, BackupCommit
  <2>2. DOMAIN erased = DOMAIN bk /\ erased.parts = <<>>
    BY DEF Filed
  <2> HIDE DEF erased
  <2>3. DOMAIN back = DOMAIN bk /\ back.parts = <<>>
    BY <2>2 DEF Filed
  <2> HIDE DEF back
  <2>4. DOMAIN done = DOMAIN bk /\ done.parts = <<>>
    BY <2>3 DEF Filed
  <2> HIDE DEF done
  <2> QED BY <2>1, <2>2, <2>3, <2>4 DEF Filed, FirmwareStep
<1>3. CASE BackupFactoryReset(t)
  <2> DEFINE erased == [bk EXCEPT !.parts = <<>>]
             firmware == [erased EXCEPT !.fw = "new"]
             reserve == [firmware EXCEPT !.prev = None]
             sealed == [reserve EXCEPT !.stm = "secure"]
  <2>1. bk' \in {FactoryBackup, erased, firmware, reserve, sealed}
    BY <1>3 DEF BackupFactoryReset, BackupCommit
  <2>2. DOMAIN erased = DOMAIN bk /\ erased.parts = <<>>
    BY DEF Filed
  <2> HIDE DEF erased
  <2>3. DOMAIN firmware = DOMAIN bk /\ firmware.parts = <<>>
    BY <2>2 DEF Filed
  <2> HIDE DEF firmware
  <2>4. DOMAIN reserve = DOMAIN bk /\ reserve.parts = <<>>
    BY <2>3 DEF Filed
  <2> HIDE DEF reserve
  <2>5. DOMAIN sealed = DOMAIN bk /\ sealed.parts = <<>>
    BY <2>4 DEF Filed
  <2> HIDE DEF sealed
  <2>6. FactoryBackup.parts = <<>> /\ {"stm", "pin", "fw", "prev", "parts"} \subseteq DOMAIN FactoryBackup
    BY DEF FactoryBackup
  <2> QED BY <2>1, <2>2, <2>3, <2>4, <2>5, <2>6 DEF Filed, FirmwareStep
<1> QED BY <1>1, <1>2, <1>3

LEMMA BackupStepFiled ==
  ASSUME Filed, [Next]_vars
  PROVE  Filed' /\ FirmwareStep
<1>1. CASE UNCHANGED vars
  BY <1>1, OtherFirmware DEF vars, backupVars
<1>2. ASSUME NEW t, BackupCommand(t) PROVE Filed' /\ FirmwareStep
  BY <1>2, OtherFirmware, FirmwareChanges
     DEF BackupCommand, LunaCmBackup, LunaCmBackupDevice, LunaShTokenBackup
<1> QED BY <1>1, <1>2, OtherFirmware DEF Next, NoBackup

\* A backup HSM's firmware never goes back with the backups made under the
\* later one, stopped anywhere (BackupHSM.rollback_firmware, factory_reset).
THEOREM RollbackAlwaysErases == Spec => RollbackErases
<1>1. Init => Filed
  BY DEF Init, BackupInitState, FactoryBackup, Filed
<1>2. Filed /\ [Next]_vars => Filed'
  BY BackupStepFiled
<1>3. Filed /\ [Next]_vars => [bk'.fw # bk.fw /\ bk'.prev # bk.fw => bk'.parts = <<>>]_<<bk, shell>>
  BY BackupStepFiled DEF FirmwareStep
<1> QED BY <1>1, <1>2, <1>3, PTL DEF Spec, RollbackErases
=============================================================================
