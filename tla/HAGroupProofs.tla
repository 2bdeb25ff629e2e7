--------------------------- MODULE HAGroupProofs ---------------------------
(***************************************************************************)
(* Proofs about HAGroup, for every value of its constants.                 *)
(***************************************************************************)
EXTENDS HAGroup, FiniteSetTheorems, TLAPS

\* A member table that is well typed and keeps cut-off members out of service.
MemOK(mem) ==
  /\ mem \in [Slots -> Member]
  /\ \A s \in Slots : mem[s].partitioned => mem[s].state = "unavailable"

StoreType == [Slots -> [Keys -> Versions]]

-----------------------------------------------------------------------------
(* What the helpers return.                                                *)

LEMMA PurgeType ==
  ASSUME NEW st \in StoreType, NEW S
  PROVE  Purge(st, S) \in StoreType
  BY HAAssumption DEF StoreType, Purge, Versions

\* Every outcome of a clone is a well-typed copy.
LEMMA CloneType ==
  ASSUME NEW st \in StoreType, NEW s \in Slots, NEW d \in Slots,
         NEW c \in Clone(st, s, d)
  PROVE  c.copy \in [Keys -> Versions]
<1>1. ASSUME NEW P PROVE Overlay(st, s, d, P) \in [Keys -> Versions]
  BY DEF StoreType, Overlay
<1>2. st[d] \in [Keys -> Versions]
  BY DEF StoreType
<1>3. \/ c = [ok |-> FALSE, copy |-> st[d]]
      \/ \E b \in BOOLEAN, P \in SUBSET Keys : c = [ok |-> b, copy |-> Overlay(st, s, d, P)]
  <2>1. Held(st, s) \in SUBSET Keys
    BY DEF Held
  <2> QED BY <2>1 DEF Clone
<1> QED BY <1>1, <1>2, <1>3

LEMMA MarkOK ==
  ASSUME NEW mem, MemOK(mem), NEW S, \A s \in S : ~mem[s].partitioned
  PROVE  MemOK(MarkCurrent(mem, S)) /\ MemOK(MarkIncompatible(mem, S))
<1>1. ASSUME NEW e \in Member
      PROVE  /\ [e EXCEPT !.state = "active", !.sync = "current", !.retry = 0] \in Member
             /\ [e EXCEPT !.state = "incompatible", !.sync = "out-of-sync"] \in Member
  <2>1. 0 \in 0..MaxRetry
    BY HAAssumption
  <2>2. [e EXCEPT !.state = "active", !.sync = "current", !.retry = 0] \in Member
    BY <2>1 DEF Member
  <2>3. [e EXCEPT !.state = "incompatible", !.sync = "out-of-sync"] \in Member
    BY DEF Member
  <2> QED BY <2>2, <2>3
<1>2. MarkCurrent(mem, S) \in [Slots -> Member] /\ MarkIncompatible(mem, S) \in [Slots -> Member]
  BY <1>1 DEF MemOK, MarkCurrent, MarkIncompatible
<1>3. \A s \in Slots :
        \/ s \in S /\ ~mem[s].partitioned
        \/ MarkCurrent(mem, S)[s] = mem[s] /\ MarkIncompatible(mem, S)[s] = mem[s]
  BY DEF MarkCurrent, MarkIncompatible
<1>4. \A s \in Slots : s \in S => /\ MarkCurrent(mem, S)[s].partitioned = mem[s].partitioned
                                 /\ MarkIncompatible(mem, S)[s].partitioned = mem[s].partitioned
  BY DEF MemOK, Member, MarkCurrent, MarkIncompatible
<1> QED BY <1>2, <1>3, <1>4 DEF MemOK

LEMMA RangeType ==
  ASSUME NEW ms \in Seq(Slots)
  PROVE  RangeOf(ms) \subseteq Slots
  BY DEF RangeOf

\* The retry counter stays below its bound.
LEMMA BumpType == \A n \in 0..MaxRetry : Bump(n) \in 0..MaxRetry
  BY HAAssumption DEF Bump
LEMMA RetryOK ==
  ASSUME NEW mem, MemOK(mem), NEW s \in Slots
  PROVE  MemOK([mem EXCEPT ![s].retry = Bump(@)])
<1>1. Bump(mem[s].retry) \in 0..MaxRetry
  BY BumpType DEF MemOK, Member
<1> QED BY <1>1 DEF MemOK, Member

LEMMA RoleOK ==
  ASSUME NEW mem, MemOK(mem), NEW s \in Slots, NEW r \in {"active", "standby"}
  PROVE  MemOK([mem EXCEPT ![s].role = r])
<1>1. [mem[s] EXCEPT !.role = r] \in Member
  BY DEF MemOK, Member
<1>2. [mem EXCEPT ![s].role = r] \in [Slots -> Member]
  BY <1>1 DEF MemOK
<1>3. \A t \in Slots : /\ [mem EXCEPT ![s].role = r][t].state = mem[t].state
                       /\ [mem EXCEPT ![s].role = r][t].partitioned = mem[t].partitioned
  BY DEF MemOK, Member
<1> QED BY <1>2, <1>3 DEF MemOK

LEMMA GroupStateOK ==
  ASSUME NEW g \in Group, NEW b \in {"active", "degraded"}
  PROVE  [g EXCEPT !.state = b] \in Group
  BY DEF Group

-----------------------------------------------------------------------------
(* Every handler that works on the member table keeps it in order.         *)

\* recover_ha_member returns no member to service that is still cut off.
LEMMA RecoverOK ==
  ASSUME NEW mem, MemOK(mem), members \in Seq(Slots), store \in StoreType, group \in Group,
         NEW s \in Slots, Recover(mem, s)
  PROVE  MemOK(member') /\ store' \in StoreType /\ group' \in Group
<1> DEFINE others == InService(mem, MemberSet \ {s})
           back == MarkCurrent(mem, {s})
           regrouped == [group EXCEPT !.state =
                           IF InService(back, MemberSet) = MemberSet THEN "active" ELSE "degraded"]
<1>1. CASE mem[s].partitioned /\ member' = mem /\ UNCHANGED <<group, store>>
  BY <1>1
<1>2. CASE ~mem[s].partitioned /\ member' = MarkIncompatible(mem, {s}) /\ UNCHANGED <<group, store>>
  BY <1>2, MarkOK
<1>3. ASSUME ~mem[s].partitioned PROVE MemOK(back) /\ regrouped \in Group
  <2>1. MemOK(back)
    BY <1>3, MarkOK
  <2> QED BY <2>1, GroupStateOK
<1>4. CASE /\ ~mem[s].partitioned /\ store' = Purge(store, {s})
           /\ member' = back /\ group' = regrouped
  BY <1>3, <1>4, PurgeType
<1>5. ASSUME ~mem[s].partitioned, NEW src \in others,
             NEW c \in Clone(Purge(store, {src, s}), src, s),
             store' = [Purge(store, {src, s}) EXCEPT ![s] = c.copy],
             member' = IF c.ok THEN back ELSE [mem EXCEPT ![s].sync = "partial"],
             group' = IF c.ok THEN regrouped ELSE group
      PROVE  MemOK(member') /\ store' \in StoreType /\ group' \in Group
  <2>1. src \in Slots
    BY RangeType DEF InService, MemberSet
  <2>2. Purge(store, {src, s}) \in StoreType
    BY PurgeType
  <2>3. c.copy \in [Keys -> Versions]
    BY <2>1, <2>2, CloneType, <1>5
  <2>4. store' \in StoreType
    BY <1>5, <2>2, <2>3 DEF StoreType
  <2>5. MemOK([mem EXCEPT ![s].sync = "partial"])
    BY DEF MemOK, Member
  <2> QED BY <1>3, <1>5, <2>4, <2>5
<1> QED BY <1>1, <1>2, <1>4, <1>5 DEF Recover

\* synchronize_ha_group returns to service only members it can reach.
LEMMA SynchronizeOK ==
  ASSUME NEW mem0, MemOK(mem0), NEW ms \in Seq(Slots), store \in StoreType, group \in Group,
         NEW src \in Slots, Synchronize(mem0, ms, src)
  PROVE  MemOK(member') /\ store' \in StoreType /\ group' \in Group
<1> DEFINE mem == [mem0 EXCEPT ![src].sync = "current"]
           cut == {s \in RangeOf(ms) \ {src} : mem[s].partitioned}
           down == {s \in RangeOf(ms) \ ({src} \cup cut) : ManuallyDown(mem, s)}
           targets == Targets(mem, ms, src)
           refused == RangeOf(ms) \ ({src} \cup cut \cup down \cup targets)
           purged == IF targets = {} THEN store ELSE Purge(store, targets \cup {src})
<1>1. PICK out \in [targets -> UNION {Clone(purged, src, t) : t \in targets}] :
        /\ \A t \in targets : out[t] \in Clone(purged, src, t)
        /\ store' = [s \in Slots |-> IF s \in targets THEN out[s].copy ELSE purged[s]]
        /\ LET failed == {t \in targets : ~out[t].ok}
               done == MarkCurrent(MarkIncompatible(mem, refused), targets \ failed)
           IN  /\ member' = [s \in Slots |->
                    IF s \in cut THEN [done[s] EXCEPT !.retry = Bump(@), !.sync = "out-of-sync"]
                    ELSE IF s \in down THEN [done[s] EXCEPT !.retry = Bump(@)]
                    ELSE IF s \in failed THEN [done[s] EXCEPT !.retry = Bump(@), !.sync = "partial"]
                    ELSE done[s]]
               /\ group' = [group EXCEPT !.state =
                    IF cut \cup down \cup refused \cup failed = {} THEN "active" ELSE "degraded"]
  BY DEF Synchronize
<1> DEFINE failed == {t \in targets : ~out[t].ok}
           noted == MarkIncompatible(mem, refused)
           done == MarkCurrent(noted, targets \ failed)
<1>2. MemOK(mem)
  BY DEF MemOK, Member
<1>3. targets \subseteq Slots /\ \A t \in targets : ~mem[t].partitioned
  BY RangeType DEF Targets
<1>4. refused \subseteq Slots /\ \A t \in refused : ~mem[t].partitioned
  BY RangeType
<1>5. MemOK(noted)
  <2> HIDE DEF mem, refused
  <2> QED BY <1>2, <1>4, MarkOK
<1>6. MemOK(done)
  <2>1. \A t \in targets \ failed : ~noted[t].partitioned
    <3>1. \A t \in Slots : noted[t].partitioned = mem[t].partitioned
      <4> HIDE DEF mem, refused
      <4> QED BY <1>2 DEF MarkIncompatible, MemOK, Member
    <3> QED BY <1>3, <3>1
  <2> HIDE DEF noted, failed, targets
  <2> QED BY <1>5, <2>1, MarkOK
<1>7. MemOK(member')
  <2> HIDE DEF done, cut, down, failed
  <2>1. \A s \in Slots : /\ done[s] \in Member /\ Bump(done[s].retry) \in 0..MaxRetry
                         /\ done[s].partitioned => done[s].state = "unavailable"
    BY <1>6, BumpType DEF MemOK, Member
  <2>2. member' = [s \in Slots |->
                    IF s \in cut THEN [done[s] EXCEPT !.retry = Bump(@), !.sync = "out-of-sync"]
                    ELSE IF s \in down THEN [done[s] EXCEPT !.retry = Bump(@)]
                    ELSE IF s \in failed THEN [done[s] EXCEPT !.retry = Bump(@), !.sync = "partial"]
                    ELSE done[s]]
    BY <1>1 DEF done, cut, down, failed
  <2>3. \A e \in Member : Bump(e.retry) \in 0..MaxRetry =>
          /\ [e EXCEPT !.retry = Bump(@), !.sync = "out-of-sync"] \in Member
          /\ [e EXCEPT !.retry = Bump(@)] \in Member
          /\ [e EXCEPT !.retry = Bump(@), !.sync = "partial"] \in Member
    BY DEF Member
  <2>4. member' \in [Slots -> Member]
    BY <2>1, <2>2, <2>3
  <2>5. \A s \in Slots : /\ member'[s].partitioned = done[s].partitioned
                         /\ member'[s].state = done[s].state
    BY <2>1, <2>2 DEF Member
  <2> QED BY <2>1, <2>4, <2>5 DEF MemOK
<1>8. store' \in StoreType
  <2>1. purged \in StoreType
    BY PurgeType
  <2>2. ASSUME NEW t \in targets PROVE out[t].copy \in [Keys -> Versions]
    <3> HIDE DEF purged
    <3> QED BY <1>1, <1>3, <2>1, CloneType
  <2> HIDE DEF purged, targets
  <2> QED BY <1>1, <2>1, <2>2 DEF StoreType
<1>9. group' \in Group
  BY <1>1, GroupStateOK
<1> QED BY <1>7, <1>8, <1>9

\* fail_ha_member takes s out of service; only s can become cut off.
LEMMA FailOK ==
  ASSUME NEW mem, MemOK(mem), NEW g \in Group, NEW s \in Slots, NEW np \in BOOLEAN,
         members \in Seq(Slots), Fail(mem, g, s, np)
  PROVE  MemOK(member') /\ group' \in Group
<1> DEFINE failed == [mem EXCEPT ![s] = [@ EXCEPT !.state = "unavailable", !.sync = "out-of-sync",
                                                  !.retry = 0, !.partitioned = np]]
<1>1. MemOK(failed)
  <2>1. 0 \in 0..MaxRetry
    BY HAAssumption
  <2>2. [mem[s] EXCEPT !.state = "unavailable", !.sync = "out-of-sync",
                       !.retry = 0, !.partitioned = np] \in Member
    BY <2>1 DEF MemOK, Member
  <2>3. failed \in [Slots -> Member]
    BY <2>2 DEF MemOK
  <2>4. failed[s].state = "unavailable" /\ \A t \in Slots \ {s} : failed[t] = mem[t]
    BY DEF MemOK, Member
  <2> QED BY <2>3, <2>4 DEF MemOK
<1>2. ASSUME NEW r \in Slots PROVE MemOK([failed EXCEPT ![r].role = "active", ![s].role = "standby"])
  <2> HIDE DEF failed
  <2> DEFINE one == [failed EXCEPT ![r].role = "active"]
  <2>1. MemOK(one)
    BY <1>1, RoleOK
  <2> HIDE DEF one
  <2>2. MemOK([one EXCEPT ![s].role = "standby"])
    BY <2>1, RoleOK
  <2> QED BY <2>2 DEF one
<1>3. MemberSet \subseteq Slots
  BY RangeType DEF MemberSet
<1>4. group' \in Group
  BY GroupStateOK DEF Fail
<1>5. member' = failed \/ \E r \in Slots : member' = [failed EXCEPT ![r].role = "active", ![s].role = "standby"]
  BY <1>3 DEF Fail, InService
<1> QED BY <1>1, <1>2, <1>4, <1>5

\* route_ha_operation changes the cursor and the role of the routed member.
LEMMA RouteOK ==
  ASSUME MemOK(member), group \in Group, NEW E \in SUBSET Slots, NEW s \in Slots, Routed(E, s)
  PROVE  /\ MemOK(RoutedMember(s)) /\ RoutedGroup(E) \in Group
         /\ members \in Seq(Slots) => s \in E
<1>1. MemOK(RoutedMember(s))
  BY RoleOK DEF RoutedMember
<1>2. s \in E
  BY DEF Routed, IsFirst
<1>3. Cardinality(E) \in Nat /\ Cardinality(E) # 0
  BY <1>2, HAAssumption, FS_Subset, FS_CardinalityType, FS_EmptySet
<1>4. \A c, n \in Nat : n # 0 => ((c % n) + 1) % n \in Nat
  OBVIOUS
<1>5. RoutedGroup(E) \in Group
  BY <1>3, <1>4 DEF RoutedGroup, Group
<1> QED BY <1>1, <1>2, <1>5

-----------------------------------------------------------------------------
(* Types and isolation.                                                    *)

\* A call that needs a key names one.
CallKeys ==
  /\ call.op # "plain" => call.key \in Keys
  /\ call.pc = "record" => call.op # "plain"

\* With one shell, routing is part of the step that executes, and the member
\* that executed a mutation is in service when its replication starts.
OneShell ==
  "shell" \notin Hazards =>
    /\ call.pc = "run" => call.slot = None
    /\ call.pc \in {"record", "sync"} => call.slot \in Available(member, MemberSet)

\* The inductive invariant behind both: what the handlers rely on.
Inv == TypeOK /\ IsolatedOutOfService /\ OneShell /\ CallKeys

LEMMA InvMemOK == Inv <=> TypeOK /\ MemOK(member) /\ OneShell /\ CallKeys
  BY DEF Inv, TypeOK, MemOK, IsolatedOutOfService

LEMMA InitInv == Init => Inv
<1> SUFFICES ASSUME Init PROVE Inv
  OBVIOUS
<1>1. NewMember \in Member /\ NewGroup \in Group /\ Idle \in Call
  BY HAAssumption DEF NewMember, Member, NewGroup, Group, Idle, Call, Ops
<1>2. 0 \in Versions
  BY HAAssumption DEF Versions
<1>3. NewMember.partitioned = FALSE
  BY DEF NewMember
<1>4. Idle.pc = "idle" /\ Idle.op = "plain"
  BY DEF Idle
<1> QED BY <1>1, <1>2, <1>3, <1>4 DEF Init, Inv, TypeOK, IsolatedOutOfService, OneShell, CallKeys

\* Administration keeps the invariant.
LEMMA AdministerInv ==
  ASSUME Inv, Administer
  PROVE  Inv'
<1> USE DEF StoreType
<1>0. TypeOK /\ MemOK(member) /\ members \in Seq(Slots) /\ store \in StoreType /\ group \in Group
      /\ MemberSet \subseteq Slots
  BY InvMemOK, RangeType DEF TypeOK, MemberSet
<1>1. NewMember \in Member /\ ~NewMember.partitioned /\ NewGroup \in Group
  BY HAAssumption DEF NewMember, Member, NewGroup, Group
<1>2. \A s \in Slots : MemOK([member EXCEPT ![s] = NewMember]) /\ MemOK([member EXCEPT ![s] = Admitted(s)])
  <2>1. \A s \in Slots : Admitted(s) \in Member /\ ~Admitted(s).partitioned
    BY <1>1 DEF Admitted, NewMember, Member
  <2> QED BY <1>0, <1>1, <2>1 DEF MemOK
<1>3. SUFFICES ASSUME TRUE
               PROVE  TypeOK' /\ MemOK(member')
  <2>1. call' = call /\ ("shell" \notin Hazards => call.pc = "idle")
    BY DEF Administer, DeleteGroup, SynchronizeGroup, RouteOperation, CreateGroup, AddMember,
           AddMemberSync, RemoveMember, FailMember, PartitionMember, RestoreMember, RecoverMember,
           SetFirmware, SetPolicy, SetMode, SetRecoveryMode, SetRetry, SetInterval, MayAdminister, Quiet
  <2> QED BY <2>1 DEF Inv, MemOK, IsolatedOutOfService, OneShell, CallKeys
<1>4. CASE DeleteGroup
  BY <1>0, <1>1, <1>4 DEF DeleteGroup, TypeOK, MemOK
<1>5. CASE SynchronizeGroup
  <2>1. PICK src \in Available(member, MemberSet) : Synchronize(member, members, src)
    BY <1>5 DEF SynchronizeGroup
  <2>2. src \in Slots
    BY <1>0 DEF Available, InService
  <2>3. MemOK(member') /\ store' \in StoreType /\ group' \in Group
    BY <1>0, <2>1, <2>2, SynchronizeOK
  <2> QED BY <1>0, <1>5, <2>3 DEF SynchronizeGroup, TypeOK, MemOK
<1>6. CASE RouteOperation
  <2>1. PICK s \in Available(member, MemberSet) :
          /\ Routed(Available(member, MemberSet), s)
          /\ member' = RoutedMember(s) /\ group' = RoutedGroup(Available(member, MemberSet))
    BY <1>6 DEF RouteOperation
  <2>2. Available(member, MemberSet) \subseteq Slots
    BY <1>0 DEF Available, InService
  <2>3. MemOK(member') /\ group' \in Group
    BY <1>0, <2>1, <2>2, RouteOK
  <2> QED BY <1>0, <1>6, <2>3 DEF RouteOperation, TypeOK, MemOK
<1>7. ASSUME NEW s \in Slots, CreateGroup(s) PROVE TypeOK' /\ MemOK(member')
  <2>1. members' \in Seq(Slots) /\ \A i, j \in DOMAIN members' : members'[i] = members'[j] => i = j
    BY <1>7 DEF CreateGroup
  <2>2. group' \in Group
    BY <1>1, <1>7, HAAssumption DEF CreateGroup, Group
  <2> QED BY <1>0, <1>2, <1>7, <2>1, <2>2 DEF CreateGroup, TypeOK, MemOK
<1>8. ASSUME NEW s \in Slots, AddMember(s) \/ AddMemberSync(s) PROVE TypeOK' /\ MemOK(member')
  <2>1. members' = Append(members, s) /\ s \notin MemberSet
    BY <1>8 DEF AddMember, AddMemberSync, MayJoin
  <2>2. members' \in Seq(Slots)
    BY <1>0, <2>1
  <2>3. ASSUME NEW i \in DOMAIN members', NEW j \in DOMAIN members', members'[i] = members'[j]
        PROVE  i = j
    BY <1>0, <2>1, <2>3 DEF TypeOK, MemberSet, RangeOf
  <2>4. CASE AddMember(s)
    BY <1>0, <1>2, <2>2, <2>3, <2>4 DEF AddMember, TypeOK, MemOK
  <2>5. CASE AddMemberSync(s)
    <3> DEFINE mem == [member EXCEPT ![s] = Admitted(s)]
               ms == Append(members, s)
    <3>1. PICK src \in Available(mem, RangeOf(ms)) : Synchronize(mem, ms, src)
      BY <2>5 DEF AddMemberSync
    <3>2. ms \in Seq(Slots)
      BY <1>0
    <3>3. src \in Slots
      <4> HIDE DEF ms, mem
      <4> QED BY <3>1, <3>2, RangeType DEF Available, InService
    <3>4. MemOK(member') /\ store' \in StoreType /\ group' \in Group
      BY <1>0, <1>2, <3>1, <3>2, <3>3, SynchronizeOK
    <3> QED BY <1>0, <2>2, <2>3, <2>5, <3>4 DEF AddMemberSync, TypeOK, MemOK
  <2> QED BY <1>8, <2>4, <2>5
<1>9. ASSUME NEW s \in Slots, RemoveMember(s) PROVE TypeOK' /\ MemOK(member')
  <2>1. PICK i \in DOMAIN members :
          members' = [j \in 1..(Len(members) - 1) |-> IF j < i THEN members[j] ELSE members[j + 1]]
    BY <1>9 DEF RemoveMember
  <2>2. Len(members) - 1 \in Nat /\ DOMAIN members = 1..Len(members)
    BY <1>0, <1>9 DEF RemoveMember
  <2>3. members' \in Seq(Slots)
    BY <1>0, <2>1, <2>2
  <2>4. ASSUME NEW a \in DOMAIN members', NEW b \in DOMAIN members', members'[a] = members'[b]
        PROVE  a = b
    <3>1. a \in 1..(Len(members) - 1) /\ b \in 1..(Len(members) - 1)
      BY <2>1
    <3> DEFINE a1 == IF a < i THEN a ELSE a + 1
               b1 == IF b < i THEN b ELSE b + 1
    <3>2. a1 \in DOMAIN members /\ b1 \in DOMAIN members
      BY <2>2, <3>1
    <3>3. members[a1] = members[b1]
      BY <2>1, <2>4, <3>1
    <3>4. a1 = b1
      <4> HIDE DEF a1, b1
      <4> QED BY <1>0, <3>2, <3>3 DEF TypeOK
    <3> QED BY <2>2, <3>1, <3>4
  <2> QED BY <1>0, <1>2, <1>9, <2>3, <2>4 DEF RemoveMember, TypeOK, MemOK
<1>10. ASSUME NEW s \in Slots, FailMember(s) \/ PartitionMember(s) PROVE TypeOK' /\ MemOK(member')
  <2>1. member[s].partitioned \in BOOLEAN
    BY <1>0 DEF MemOK, Member
  <2>2. \E np \in BOOLEAN : Fail(member, group, s, np)
    BY <1>10, <2>1 DEF FailMember, PartitionMember
  <2>3. MemOK(member') /\ group' \in Group
    BY <1>0, <2>2, FailOK
  <2> QED BY <1>0, <1>10, <2>3 DEF FailMember, PartitionMember, TypeOK, MemOK
<1>11. ASSUME NEW s \in Slots, RestoreMember(s) PROVE TypeOK' /\ MemOK(member')
  <2> DEFINE mem == [member EXCEPT ![s] = [@ EXCEPT !.partitioned = FALSE, !.state = "recovering"]]
  <2>1. [member[s] EXCEPT !.partitioned = FALSE, !.state = "recovering"] \in Member
    BY <1>0 DEF MemOK, Member
  <2>2. MemOK(mem)
    BY <1>0, <2>1 DEF MemOK, Member
  <2>3. Recover(mem, s) \/ (member' = mem /\ UNCHANGED <<group, store>>)
    BY <1>11 DEF RestoreMember
  <2>4. MemOK(member') /\ store' \in StoreType /\ group' \in Group
    <3> HIDE DEF mem
    <3> QED BY <1>0, <2>2, <2>3, RecoverOK
  <2> QED BY <1>0, <1>11, <2>4 DEF RestoreMember, TypeOK, MemOK
<1>12. ASSUME NEW s \in Slots, RecoverMember(s) PROVE TypeOK' /\ MemOK(member')
  <2>1. MemOK(member') /\ store' \in StoreType /\ group' \in Group
    BY <1>0, <1>12, RecoverOK DEF RecoverMember
  <2> QED BY <1>0, <1>12, <2>1 DEF RecoverMember, TypeOK, MemOK
<1>13. ASSUME NEW s \in Slots, NEW f \in Firmwares, SetFirmware(s, f) PROVE TypeOK' /\ MemOK(member')
  <2>1. [member[s] EXCEPT !.firmware = f] \in Member
    BY <1>0 DEF MemOK, Member
  <2>2. MemOK([member EXCEPT ![s].firmware = f])
    BY <1>0, <2>1 DEF MemOK, Member
  <2> QED BY <1>0, <1>13, <2>2 DEF SetFirmware, TypeOK, MemOK
<1>14. ASSUME NEW s \in Slots, NEW p \in Policies, SetPolicy(s, p) PROVE TypeOK' /\ MemOK(member')
  <2>1. 0 \in Versions
    BY HAAssumption DEF Versions
  <2>2. store' \in StoreType
    BY <1>0, <1>14, <2>1 DEF SetPolicy
  <2> QED BY <1>0, <1>14, <2>2 DEF SetPolicy, TypeOK, MemOK
<1>15. ASSUME NEW m \in Modes, SetMode(m) PROVE TypeOK' /\ MemOK(member')
  <2>1. \A e \in Member, b \in {"active", "standby"} : [e EXCEPT !.role = b] \in Member
    BY DEF Member
  <2>2. member' \in [Slots -> Member]
    BY <1>0, <1>15, <2>1 DEF SetMode, MemOK
  <2>3. \A s \in Slots : member'[s].state = member[s].state /\ member'[s].partitioned = member[s].partitioned
    BY <1>0, <1>15 DEF SetMode, MemOK, Member
  <2>4. group' \in Group
    BY <1>0, <1>15, HAAssumption DEF SetMode, Group
  <2> QED BY <1>0, <1>15, <2>2, <2>3, <2>4 DEF SetMode, TypeOK, MemOK
<1>16. ASSUME \/ \E r \in RecoveryModes : SetRecoveryMode(r)
              \/ \E n \in RetryCounts : SetRetry(n)
              \/ \E i \in Intervals : SetInterval(i)
       PROVE  TypeOK' /\ MemOK(member')
  <2>1. group' \in Group
    BY <1>0, <1>16, HAAssumption DEF SetRecoveryMode, SetRetry, SetInterval, Group
  <2> QED BY <1>0, <1>16, <2>1 DEF SetRecoveryMode, SetRetry, SetInterval, TypeOK, MemOK
<1> QED BY <1>4, <1>5, <1>6, <1>7, <1>8, <1>9, <1>10, <1>11, <1>12, <1>13, <1>14, <1>15, <1>16
        DEF Administer


\* Routing touches roles only, so the routed member stays available.
LEMMA RoutedAvailable ==
  ASSUME MemOK(member), NEW s \in Slots, Routed(Eligible, s), Eligible \subseteq Slots
  PROVE  s \in Available(RoutedMember(s), MemberSet)
<1>1. s \in Eligible
  <2>1. CASE group.mode = "round-robin"
    BY <2>1 DEF Routed
  <2>2. CASE group.mode # "round-robin"
    <3> DEFINE A == {t \in Eligible : member[t].role = "active"}
    <3>1. s \in (IF A # {} THEN A ELSE Eligible)
      BY <2>2 DEF Routed, IsFirst
    <3> QED BY <3>1
  <2> QED BY <2>1, <2>2
<1>2. s \in MemberSet /\ member[s].state = "active" /\ ~member[s].partitioned
  BY <1>1 DEF Eligible, Available, InService
<1>3. RoutedMember(s)[s].state = member[s].state /\ RoutedMember(s)[s].partitioned = member[s].partitioned
  BY DEF RoutedMember, MemOK, Member
<1> QED BY <1>2, <1>3 DEF Available, InService


\* The member that executes a call is the one routed to.
LEMMA ExecutesOK ==
  ASSUME MemOK(member), group \in Group, NEW s \in Slots, Executes(s), Eligible \in SUBSET Slots
  PROVE  /\ MemOK(CallMember(s)) /\ CallGroup \in Group
         /\ call.slot = None => s \in Available(CallMember(s), MemberSet)
<1>1. CASE call.slot = None
  <2>1. Routed(Eligible, s)
    BY <1>1 DEF Executes
  <2>2. MemOK(RoutedMember(s)) /\ RoutedGroup(Eligible) \in Group
    BY <2>1, RouteOK
  <2>3. s \in Available(RoutedMember(s), MemberSet)
    BY <2>1, RoutedAvailable
  <2> QED BY <1>1, <2>2, <2>3 DEF CallMember, CallGroup
<1>2. CASE call.slot # None
  BY <1>2 DEF CallMember, CallGroup
<1> QED BY <1>1, <1>2

\* The steps of a call keep it too.
LEMMA CallInv ==
  ASSUME Inv, Begin \/ Proceed \/ Crash
  PROVE  Inv'
<1> USE DEF StoreType
<1>0. TypeOK /\ MemOK(member) /\ members \in Seq(Slots) /\ store \in StoreType /\ group \in Group
      /\ call \in Call /\ MemberSet \subseteq Slots /\ OneShell /\ CallKeys
  BY InvMemOK, RangeType DEF TypeOK, MemberSet
<1>1. Eligible \in SUBSET Slots
  BY <1>0 DEF Eligible, Available, InService
<1>2. Idle \in Call /\ Idle.pc = "idle" /\ Idle.op = "plain"
  BY DEF Idle, Call, Ops
<1> DEFINE Kept == TypeOK' /\ MemOK(member') /\ OneShell' /\ CallKeys'
<1>3. SUFFICES Kept
  BY DEF Inv, MemOK, IsolatedOutOfService
<1>4. ASSUME NEW op \in Ops, NEW k \in Keys \cup {None}, CallBegin(op, k)
      PROVE  Kept
  <2>1. PICK T \in SUBSET Slots : call' = [Idle EXCEPT !.pc = "run", !.op = op, !.key = k, !.todo = T]
    <3>1. \A due : {s \in MemberSet \cap due : Pollable(s)} \in SUBSET Slots
      BY <1>0
    <3>2. \E due : call' = [Idle EXCEPT !.pc = "run", !.op = op, !.key = k, !.todo =
                              IF group.recovery = "automatic"
                              THEN {s \in MemberSet \cap due : Pollable(s)}
                              ELSE {}]
      BY <1>4 DEF CallBegin
    <3> QED BY <3>1, <3>2
  <2>2. call' \in Call
    BY <1>2, <2>1 DEF Call
  <2>3. call'.pc = "run" /\ call'.slot = None
    BY <2>1 DEF Idle
  <2> QED BY <1>0, <1>4, <2>2, <2>3 DEF CallBegin, TypeOK, MemOK, OneShell, CallKeys
<1>5. ASSUME NEW s \in Slots, CallPoll(s) PROVE Kept
  <2> DEFINE mem == [member EXCEPT ![s].retry = Bump(@)]
  <2>1. MemOK(mem)
    BY <1>0, RetryOK
  <2>2. Recover(mem, s)
    BY <1>5 DEF CallPoll
  <2>3. MemOK(member') /\ store' \in StoreType /\ group' \in Group
    <3> HIDE DEF mem
    <3> QED BY <1>0, <2>1, <2>2, RecoverOK
  <2>4. call' \in Call /\ call'.pc = "run" /\ call'.slot = call.slot /\ call'.op = call.op /\ call'.key = call.key
    BY <1>0, <1>5 DEF CallPoll, Call
  <2>5. OneShell' /\ CallKeys'
    BY <1>0, <1>5, <2>4 DEF OneShell, CallKeys, CallPoll
  <2> QED BY <1>0, <1>5, <2>3, <2>4, <2>5 DEF CallPoll, TypeOK, MemOK
<1>6. CASE CallNoMember \/ CallPollFails
  BY <1>0, <1>2, <1>6 DEF CallNoMember, CallPollFails, TypeOK, MemOK, OneShell, CallKeys
<1>14. ASSUME NEW s \in Slots, CallRoute(s) PROVE Kept
  <2>1. MemOK(member') /\ group' \in Group
    BY <1>0, <1>1, <1>14, RouteOK DEF CallRoute
  <2>2. call' \in Call /\ call'.pc = "run" /\ call'.op = call.op /\ call'.key = call.key
    BY <1>0, <1>14 DEF CallRoute, Running, Call
  <2>3. OneShell' /\ CallKeys'
    BY <1>0, <1>14, <2>2 DEF OneShell, CallKeys, CallRoute, Running
  <2> QED BY <1>0, <1>14, <2>1, <2>2, <2>3 DEF CallRoute, TypeOK, MemOK
<1>7. ASSUME NEW s \in Slots, CallAnswer(s) PROVE Kept
  <2>1. MemOK(member') /\ group' \in Group
    BY <1>0, <1>1, <1>7, ExecutesOK DEF CallAnswer
  <2> QED BY <1>0, <1>2, <1>7, <2>1 DEF CallAnswer, TypeOK, MemOK, OneShell, CallKeys
<1>8. ASSUME NEW s \in Slots, CallDeviceError(s) PROVE Kept
  <2>1. MemOK(CallMember(s)) /\ CallGroup \in Group
    BY <1>0, <1>1, <1>8, ExecutesOK DEF CallDeviceError
  <2>2. Fail(CallMember(s), CallGroup, s, member[s].partitioned) \/ UNCHANGED <<member, group>>
    BY <1>8 DEF CallDeviceError
  <2>3. MemOK(member') /\ group' \in Group
    <3>1. member[s].partitioned \in BOOLEAN
      BY <1>0 DEF MemOK, Member
    <3>2. CASE UNCHANGED <<member, group>>
      BY <1>0, <3>2
    <3>3. CASE Fail(CallMember(s), CallGroup, s, member[s].partitioned)
      BY <1>0, <2>1, <3>1, <3>3, FailOK
    <3> QED BY <2>2, <3>2, <3>3
  <2>4. call' \in Call
    BY <1>0, <1>8 DEF CallDeviceError, Call
  <2>5. call.pc = "run" /\ call'.pc = "run" /\ call'.op = call.op /\ call'.key = call.key /\ call'.slot = None
    BY <1>0, <1>8 DEF CallDeviceError, Executes, Running, Call
  <2>6. OneShell' /\ CallKeys'
    BY <1>0, <2>5 DEF OneShell, CallKeys
  <2> QED BY <1>0, <1>8, <2>3, <2>4, <2>6 DEF CallDeviceError, TypeOK, MemOK
<1>9. ASSUME NEW s \in Slots, CallWrite(s) PROVE Kept
  <2>1. MemOK(member') /\ group' \in Group
    BY <1>0, <1>1, <1>9, ExecutesOK DEF CallWrite
  <2>2. ASSUME call.key \in Keys PROVE top[call.key] + 1 \in Versions
    BY <1>0, <1>9, <2>2, HAAssumption DEF CallWrite, TypeOK, Versions
  <2>3. store' \in StoreType /\ top' \in [Keys -> Versions] /\ cur' \in [Keys -> Versions]
    <3>1. call.key \in Keys
      BY <1>0, <1>9 DEF CallWrite, CallKeys
    <3> QED BY <1>0, <1>9, <2>2, <3>1 DEF CallWrite, TypeOK
  <2>4. call' \in Call
    BY <1>0, <1>9 DEF CallWrite, Call
  <2>5. "shell" \notin Hazards => s \in Available(member', MemberSet')
    <3>1. "shell" \notin Hazards => s \in Available(CallMember(s), MemberSet)
      BY <1>0, <1>1, <1>9, ExecutesOK DEF CallWrite, OneShell, Executes, Running
    <3> QED BY <1>9, <3>1 DEF CallWrite, MemberSet
  <2>6. call'.slot = s /\ call'.pc = "sync" /\ call'.key = call.key
    BY <1>0, <1>9 DEF CallWrite, Call
  <2>7. OneShell'
    BY <2>5, <2>6 DEF OneShell
  <2>8. CallKeys'
    BY <2>6, <1>0, <1>9 DEF CallKeys, CallWrite, Call
  <2> QED BY <1>0, <1>9, <2>1, <2>3, <2>4, <2>7, <2>8 DEF CallWrite, TypeOK, MemOK
<1>10. ASSUME NEW s \in Slots, CallDestroy(s) PROVE Kept
  <2>1. MemOK(member') /\ group' \in Group
    BY <1>0, <1>1, <1>10, ExecutesOK DEF CallDestroy
  <2>2. 0 \in Versions
    BY HAAssumption DEF Versions
  <2>3. store' \in StoreType /\ cur' \in [Keys -> Versions]
    BY <1>0, <1>10, <2>2 DEF CallDestroy, TypeOK
  <2>4. call' \in Call
    BY <1>0, <1>10 DEF CallDestroy, Call
  <2>5. "shell" \notin Hazards => s \in Available(member', MemberSet')
    <3>1. "shell" \notin Hazards => s \in Available(CallMember(s), MemberSet)
      BY <1>0, <1>1, <1>10, ExecutesOK DEF CallDestroy, OneShell, Executes, Running
    <3> QED BY <1>10, <3>1 DEF CallDestroy, MemberSet
  <2>6. call'.slot = s /\ call'.pc = "record" /\ call'.key = call.key /\ call'.op = call.op
    BY <1>0, <1>10 DEF CallDestroy, Call
  <2>7. OneShell'
    BY <2>5, <2>6 DEF OneShell
  <2>8. CallKeys'
    BY <1>0, <1>10, <2>6 DEF CallKeys, CallDestroy
  <2> QED BY <1>0, <1>10, <2>1, <2>3, <2>4, <2>7, <2>8 DEF CallDestroy, TypeOK, MemOK
<1>11. CASE CallSync
  <2>1. (call.slot \in Slots /\ Synchronize(member, members, call.slot)) \/ UNCHANGED <<member, group, store>>
    BY <1>0, <1>11 DEF CallSync, Available, InService
  <2>2. MemOK(member') /\ store' \in StoreType /\ group' \in Group
    BY <1>0, <2>1, SynchronizeOK
  <2> QED BY <1>0, <1>2, <1>11, <2>2 DEF CallSync, TypeOK, MemOK, OneShell, CallKeys
<1>12. CASE Crash
  <2>1. ASSUME NEW T \in SUBSET Targets(member, members, call.slot), NEW P \in SUBSET Keys,
               call.slot \in Available(member, MemberSet),
               LET purged == IF T = {} THEN store ELSE Purge(store, T \cup {call.slot})
               IN  store' = [s \in Slots |-> IF s \in T
                     THEN Overlay(purged, call.slot, s, P \cap Held(purged, call.slot))
                     ELSE purged[s]]
        PROVE  store' \in StoreType
    <3> DEFINE purged == IF T = {} THEN store ELSE Purge(store, T \cup {call.slot})
    <3>1. purged \in StoreType
      BY <1>0, PurgeType
    <3>2. ASSUME NEW s \in Slots, NEW Q, Q \subseteq Held(purged, call.slot)
          PROVE  Overlay(purged, call.slot, s, Q) \in [Keys -> Versions]
      <4> HIDE DEF purged
      <4>1. call.slot \in Slots
        BY <1>0, <2>1 DEF Available, InService
      <4> QED BY <3>1, <4>1 DEF Overlay
    <3> HIDE DEF purged
    <3> QED BY <2>1, <3>1, <3>2 DEF purged
  <2>2. store' \in StoreType
    BY <1>0, <1>12, <2>1 DEF Crash
  <2> QED BY <1>0, <1>2, <1>12, <2>2 DEF Crash, TypeOK, MemOK, OneShell, CallKeys
<1>13. CASE CallRecord
  <2>1. CASE members = <<>>
    BY <1>0, <1>2, <1>13, <2>1 DEF CallRecord, TypeOK, MemOK, OneShell, CallKeys
  <2>2. CASE members # <<>>
    <3>1. call.pc = "record" /\ call'.pc = "sync" /\ call' \in Call
          /\ call'.slot = call.slot /\ call'.key = call.key /\ call'.op = call.op
      BY <1>0, <1>13, <2>2 DEF CallRecord, Call
    <3>2. call.key \in Keys
      BY <1>0, <3>1 DEF CallKeys
    <3>3. member' = member /\ MemberSet' = MemberSet
      BY <1>13 DEF CallRecord, MemberSet
    <3>4. OneShell' /\ CallKeys'
      BY <1>0, <3>1, <3>3 DEF OneShell, CallKeys
    <3> QED BY <1>0, <1>13, <2>2, <3>1, <3>2, <3>4 DEF CallRecord, TypeOK, MemOK
  <2> QED BY <2>1, <2>2
<1> QED BY <1>4, <1>5, <1>6, <1>7, <1>8, <1>9, <1>10, <1>11, <1>12, <1>13, <1>14 DEF Begin, Proceed


\* Writes behind the group and stuttering touch nothing the invariant speaks
\* of but the stores and the version counters.
LEMMA OtherInv ==
  ASSUME Inv, (\E s \in Slots, k \in Keys : DirectWrite(s, k)) \/ UNCHANGED vars
  PROVE  Inv'
<1>1. CASE UNCHANGED vars
  BY <1>1 DEF vars, Inv, TypeOK, IsolatedOutOfService, OneShell, CallKeys, MemberSet
<1>2. ASSUME NEW s \in Slots, NEW k \in Keys, DirectWrite(s, k) PROVE Inv'
  <2>1. store' \in [Slots -> [Keys -> Versions]] /\ top' \in [Keys -> Versions]
    <3>1. 0 \in Versions /\ (top[k] < MaxVersion => top[k] + 1 \in Versions)
      BY HAAssumption DEF Versions, Inv, TypeOK
    <3>2. store \in [Slots -> [Keys -> Versions]] /\ top \in [Keys -> Versions]
      BY DEF Inv, TypeOK
    <3>3. top[k] < MaxVersion \/ top' = top
      BY <1>2 DEF DirectWrite
    <3> QED BY <1>2, <3>1, <3>2 DEF DirectWrite
  <2> QED BY <1>2, <2>1 DEF DirectWrite, Inv, TypeOK, IsolatedOutOfService, OneShell, CallKeys,
                            MemberSet
<1> QED BY <1>1, <1>2

\* Init establishes the invariant and every step keeps it.
LEMMA SpecInv == Spec => []Inv
<1>1. Init => Inv
  BY InitInv
<1>2. Inv /\ [Next]_vars => Inv'
  <2>1. ASSUME Inv, [Next]_vars PROVE Inv'
    <3>1. CASE Administer
      BY <2>1, <3>1, AdministerInv
    <3>2. CASE Begin \/ Proceed \/ Crash
      BY <2>1, <3>2, CallInv
    <3>3. CASE (\E s \in Slots, k \in Keys : DirectWrite(s, k)) \/ UNCHANGED vars
      BY <2>1, <3>3, OtherInv
    <3> QED BY <2>1, <3>1, <3>2, <3>3 DEF Next
  <2> QED BY <2>1
<1> QED BY <1>1, <1>2, PTL DEF Spec

\* HAGroup is type correct: the persisted group record, the member entries, the
\* key stores and the call in progress always have the shape the code gives
\* them, and no slot is a member twice (deployment.py add_ha_member).
THEOREM TypeCorrect == Spec => []TypeOK
<1>1. Inv => TypeOK
  BY DEF Inv
<1> QED BY <1>1, SpecInv, PTL

\* A cut-off member stays out of service, for every number of members, keys and
\* policies and whatever the environment does (set_ha_network_partition,
\* recover_ha_member, synchronize_ha_group, poll_ha_recovery).
THEOREM CutOffOutOfService == Spec => []IsolatedOutOfService
<1>1. Inv => IsolatedOutOfService
  BY DEF Inv
<1> QED BY <1>1, SpecInv, PTL

-----------------------------------------------------------------------------
(* Tombstones.                                                             *)

\* What a replication from st may leave in st2: every copy was held by some
\* slot, and no slot regains a tombstoned key.
Derived(st2, st) ==
  \A s \in Slots, k \in Keys :
    /\ st2[s][k] = 0 \/ \E u \in Slots : st2[s][k] = st[u][k]
    /\ k \in deleted /\ st[s][k] = 0 => st2[s][k] = 0

LEMMA PurgeDerived ==
  ASSUME NEW st \in StoreType, NEW S
  PROVE  /\ Derived(Purge(st, S), st)
         /\ \A s \in Slots \cap S, k \in Keys \cap deleted : Purge(st, S)[s][k] = 0
  BY DEF StoreType, Purge, Derived

\* A clone from a source without tombstoned keys copies none.
LEMMA CloneClean ==
  ASSUME NEW st \in StoreType, NEW s \in Slots, NEW d \in Slots,
         \A k \in Keys \cap deleted : st[s][k] = 0,
         NEW c \in Clone(st, s, d), NEW k \in Keys
  PROVE  c.copy[k] = st[d][k] \/ (c.copy[k] = st[s][k] /\ k \notin deleted)
<1>1. \/ c = [ok |-> FALSE, copy |-> st[d]]
      \/ \E b \in BOOLEAN, P \in SUBSET Held(st, s) : c = [ok |-> b, copy |-> Overlay(st, s, d, P)]
  BY DEF Clone
<1>2. ASSUME NEW P \in SUBSET Held(st, s), c.copy = Overlay(st, s, d, P)
      PROVE  c.copy[k] = st[d][k] \/ (c.copy[k] = st[s][k] /\ k \notin deleted)
  <2>1. k \in P => st[s][k] > 0
    BY DEF Held
  <2> QED BY <1>2, <2>1 DEF Overlay
<1> QED BY <1>1, <1>2

LEMMA RecoverDerived ==
  ASSUME NEW mem, members \in Seq(Slots), store \in StoreType, NEW s \in Slots, Recover(mem, s)
  PROVE  Derived(store', store)
<1>1. CASE store' = store
  BY <1>1 DEF Derived
<1>2. CASE store' = Purge(store, {s})
  BY <1>2, PurgeDerived
<1>3. ASSUME NEW src \in Slots, NEW c \in Clone(Purge(store, {src, s}), src, s),
             store' = [Purge(store, {src, s}) EXCEPT ![s] = c.copy]
      PROVE  Derived(store', store)
  <2> DEFINE purged == Purge(store, {src, s})
  <2>1. purged \in StoreType
    BY PurgeType
  <2>2. Derived(purged, store) /\ \A k \in Keys \cap deleted : purged[src][k] = 0
    BY PurgeDerived
  <2>3. \A k \in Keys : c.copy[k] = purged[s][k] \/ (c.copy[k] = purged[src][k] /\ k \notin deleted)
    <3>1. c \in Clone(purged, src, s)
      BY <1>3
    <3> HIDE DEF purged
    <3> QED BY <2>1, <2>2, <3>1, CloneClean
  <2>4. \A u \in Slots, k \in Keys : \/ store'[u][k] = purged[u][k]
                                     \/ store'[u][k] = purged[src][k] /\ k \notin deleted
    <3> HIDE DEF purged
    <3> QED BY <1>3, <2>1, <2>3 DEF purged, StoreType
  <2> HIDE DEF purged
  <2> QED BY <2>2, <2>4 DEF Derived
<1>4. InService(mem, MemberSet \ {s}) \subseteq Slots
  BY RangeType DEF InService, MemberSet
<1> QED BY <1>1, <1>2, <1>3, <1>4 DEF Recover

LEMMA SynchronizeDerived ==
  ASSUME NEW mem0, NEW ms \in Seq(Slots), store \in StoreType, NEW src \in Slots,
         Synchronize(mem0, ms, src)
  PROVE  Derived(store', store)
<1> DEFINE mem == [mem0 EXCEPT ![src].sync = "current"]
           targets == Targets(mem, ms, src)
           purged == IF targets = {} THEN store ELSE Purge(store, targets \cup {src})
<1>1. PICK out \in [targets -> UNION {Clone(purged, src, t) : t \in targets}] :
        /\ \A t \in targets : out[t] \in Clone(purged, src, t)
        /\ store' = [s \in Slots |-> IF s \in targets THEN out[s].copy ELSE purged[s]]
  BY DEF Synchronize
<1>2. targets \subseteq Slots
  BY RangeType DEF Targets
<1>3. purged \in StoreType /\ Derived(purged, store)
  <2>1. Derived(store, store)
    BY DEF Derived
  <2> QED BY <2>1, PurgeType, PurgeDerived
<1>4. targets # {} => \A k \in Keys \cap deleted : purged[src][k] = 0
  <2> HIDE DEF targets
  <2>1. targets # {} => purged = Purge(store, targets \cup {src})
    OBVIOUS
  <2>2. \A k \in Keys \cap deleted : Purge(store, targets \cup {src})[src][k] = 0
    BY PurgeDerived
  <2> QED BY <2>1, <2>2
<1> HIDE DEF purged, targets
<1>5. ASSUME NEW t \in targets, NEW k \in Keys
      PROVE  out[t].copy[k] = purged[t][k] \/ (out[t].copy[k] = purged[src][k] /\ k \notin deleted)
  BY <1>1, <1>2, <1>3, <1>4, CloneClean
<1>6. \A u \in Slots, k \in Keys : \/ store'[u][k] = purged[u][k]
                                   \/ store'[u][k] = purged[src][k] /\ k \notin deleted
  BY <1>1, <1>5
<1> QED BY <1>3, <1>6 DEF Derived

\* The write counters know every key that is held or tombstoned.
Written ==
  /\ \A s \in Slots, k \in Keys : store[s][k] > 0 => top[k] > 0
  /\ \A k \in deleted : top[k] > 0
  /\ call.pc = "record" => top[call.key] > 0

NoneRegained ==
  \A s \in Slots, k \in deleted \cap deleted' : store[s][k] = 0 => store'[s][k] = 0

\* No destruction is committed.
CallKept == call'.pc = "record" => call.pc = "record" /\ call'.key = call.key

\* The steps that only replicate.
LEMMA DerivedStep ==
  ASSUME Inv, Written, Derived(store', store), UNCHANGED top, deleted' \subseteq deleted, CallKept
  PROVE  Written' /\ NoneRegained
<1>1. store \in [Slots -> [Keys -> Versions]] /\ deleted \subseteq Keys /\ Versions \subseteq Nat
  BY DEF Inv, TypeOK, Versions
<1>2. \A s \in Slots, k \in Keys : store'[s][k] > 0 => top'[k] > 0
  BY <1>1 DEF Derived, Written
<1>3. /\ \A k \in deleted' : top'[k] > 0
      /\ call'.pc = "record" => top'[call'.key] > 0
  BY DEF Written, CallKept
<1>4. NoneRegained
  BY <1>1 DEF Derived, NoneRegained
<1> QED BY <1>2, <1>3, <1>4 DEF Written

LEMMA StepKeepsTombstones ==
  ASSUME Inv, Written, [Next]_vars
  PROVE  Written' /\ NoneRegained
<1>0. TypeOK /\ CallKeys /\ members \in Seq(Slots) /\ store \in StoreType /\ MemberSet \subseteq Slots
      /\ deleted \subseteq Keys
  BY RangeType DEF Inv, TypeOK, MemberSet, StoreType
<1>1. Derived(store, store)
  BY DEF Derived
<1>2. CASE UNCHANGED vars
  BY <1>1, <1>2, DerivedStep DEF vars, CallKept
<1>3. CASE Administer
  <2>1. call' = call /\ top' = top /\ deleted' \subseteq deleted
    BY <1>3 DEF Administer, DeleteGroup, SynchronizeGroup, RouteOperation, CreateGroup, AddMember,
           AddMemberSync, RemoveMember, FailMember, PartitionMember, RestoreMember, RecoverMember,
           SetFirmware, SetPolicy, SetMode, SetRecoveryMode, SetRetry, SetInterval
  <2>2. CASE store' = store
    BY <1>1, <2>1, <2>2, DerivedStep DEF CallKept
  <2>3. ASSUME NEW s \in Slots, NEW mem, Recover(mem, s) PROVE Written' /\ NoneRegained
    BY <1>0, <2>1, <2>3, RecoverDerived, DerivedStep DEF CallKept
  <2>4. ASSUME NEW mem, NEW ms \in Seq(Slots), NEW src \in Slots, Synchronize(mem, ms, src)
        PROVE  Written' /\ NoneRegained
    BY <1>0, <2>1, <2>4, SynchronizeDerived, DerivedStep DEF CallKept
  <2>5. ASSUME NEW s \in Slots, store' = [store EXCEPT ![s] = [k \in Keys |-> 0]]
        PROVE  Written' /\ NoneRegained
    <3>1. Derived(store', store)
      BY <1>0, <2>5 DEF Derived, StoreType
    <3> QED BY <2>1, <3>1, DerivedStep DEF CallKept
  <2>6. ASSUME NEW s \in Slots, AddMemberSync(s) PROVE Written' /\ NoneRegained
    <3>1. Append(members, s) \in Seq(Slots)
      BY <1>0
    <3>2. \E src \in Slots : \E mem : Synchronize(mem, Append(members, s), src)
      <4>1. RangeOf(Append(members, s)) \subseteq Slots
        BY <3>1, RangeType
      <4> QED BY <2>6, <4>1 DEF AddMemberSync, Available, InService
    <3> QED BY <2>4, <3>1, <3>2
  <2>7. CASE SynchronizeGroup
    BY <1>0, <2>4, <2>7 DEF SynchronizeGroup, Available, InService
  <2>8. ASSUME NEW s \in Slots, RestoreMember(s) PROVE Written' /\ NoneRegained
    BY <2>2, <2>3, <2>8 DEF RestoreMember
  <2>9. ASSUME NEW s \in Slots, RecoverMember(s) PROVE Written' /\ NoneRegained
    BY <2>3, <2>9 DEF RecoverMember
  <2>10. ASSUME NEW s \in Slots, NEW p \in Policies, SetPolicy(s, p) PROVE Written' /\ NoneRegained
    BY <2>2, <2>5, <2>10 DEF SetPolicy
  <2>11. ASSUME \/ DeleteGroup \/ RouteOperation
                \/ \E s \in Slots : \/ CreateGroup(s) \/ AddMember(s) \/ RemoveMember(s)
                                    \/ FailMember(s) \/ PartitionMember(s)
                                    \/ \E f \in Firmwares : SetFirmware(s, f)
                \/ \E m \in Modes : SetMode(m)
                \/ \E r \in RecoveryModes : SetRecoveryMode(r)
                \/ \E n \in RetryCounts : SetRetry(n)
                \/ \E i \in Intervals : SetInterval(i)
         PROVE  store' = store
    BY <2>11 DEF DeleteGroup, RouteOperation, CreateGroup, AddMember, RemoveMember, FailMember,
           PartitionMember, SetFirmware, SetMode, SetRecoveryMode, SetRetry, SetInterval
  <2> QED BY <1>3, <2>2, <2>6, <2>7, <2>8, <2>9, <2>10, <2>11 DEF Administer
<1>4. CASE Begin
  <2>1. PICK op \in Ops, k \in Keys \cup {None} : CallBegin(op, k)
    BY <1>4 DEF Begin
  <2>2. /\ call'.pc = "run" /\ call'.op = op /\ call'.key = k
        /\ UNCHANGED <<store, top, deleted>>
    BY <2>1 DEF CallBegin, Idle
  <2> QED BY <1>0, <2>2 DEF Written, NoneRegained
<1>5. CASE Proceed
  <2>1. CASE CallNoMember \/ CallPollFails
    BY <1>1, <2>1, DerivedStep DEF CallNoMember, CallPollFails, CallKept, Idle
  <2>2. CASE CallSync
    <3>1. (call.slot \in Slots /\ Synchronize(member, members, call.slot)) \/ store' = store
      BY <1>0, <2>2 DEF CallSync, Available, InService
    <3>2. Derived(store', store)
      BY <1>0, <1>1, <3>1, SynchronizeDerived
    <3> QED BY <2>2, <3>2, DerivedStep DEF CallSync, CallKept, Idle
  <2>3. ASSUME NEW s \in Slots, CallPoll(s) PROVE Written' /\ NoneRegained
    <3>1. CallKept
      BY <1>0, <2>3 DEF CallPoll, CallKept, TypeOK, Call
    <3>2. Derived(store', store)
      BY <1>0, <2>3, RecoverDerived DEF CallPoll
    <3> QED BY <2>3, <3>1, <3>2, DerivedStep DEF CallPoll
  <2>4. ASSUME NEW s \in Slots, CallAnswer(s) PROVE Written' /\ NoneRegained
    BY <1>1, <2>4, DerivedStep DEF CallAnswer, CallKept, Idle
  <2>9. ASSUME NEW s \in Slots, CallRoute(s) PROVE Written' /\ NoneRegained
    <3>1. CallKept
      BY <1>0, <2>9 DEF CallRoute, Running, CallKept, TypeOK, Call
    <3> QED BY <1>1, <2>9, <3>1, DerivedStep DEF CallRoute
  <2>5. ASSUME NEW s \in Slots, CallDeviceError(s) PROVE Written' /\ NoneRegained
    <3>1. CallKept
      BY <1>0, <2>5 DEF CallDeviceError, CallKept, TypeOK, Call
    <3> QED BY <1>1, <2>5, <3>1, DerivedStep DEF CallDeviceError
  <2>6. ASSUME NEW s \in Slots, CallWrite(s) PROVE Written' /\ NoneRegained
    <3> DEFINE k == call.key
    <3>1. /\ k \in Keys /\ call.pc = "run" /\ call.op \in {"create", "update"}
          /\ top' = [top EXCEPT ![k] = top[k] + 1]
          /\ store' = [store EXCEPT ![s][k] = top[k] + 1]
          /\ call'.pc = "sync" /\ deleted' = deleted
      BY <1>0, <2>6 DEF CallWrite, Executes, Running, CallKeys, TypeOK, Call
    <3>2. top \in [Keys -> Nat]
      BY <1>0 DEF TypeOK, Versions
    <3>3. \A x \in Keys : top[x] > 0 => top'[x] > 0
      BY <3>1, <3>2
    <3>4. Written'
      BY <1>0, <3>1, <3>2, <3>3 DEF Written, StoreType
    <3>5. k \notin deleted \/ store[s][k] > 0
      BY <2>6, <3>1 DEF CallWrite, Written
    <3>6. NoneRegained
      BY <1>0, <3>1, <3>5 DEF NoneRegained, StoreType
    <3> QED BY <3>4, <3>6
  <2>7. ASSUME NEW s \in Slots, CallDestroy(s) PROVE Written' /\ NoneRegained
    <3> DEFINE k == call.key
    <3>1. /\ k \in Keys /\ top' = top /\ store' = [store EXCEPT ![s][k] = 0]
          /\ call'.pc = "record" /\ call'.key = k /\ deleted' = deleted
      BY <1>0, <2>7 DEF CallDestroy, CallKeys, TypeOK, Call
    <3>2. top[k] > 0
      BY <2>7, <3>1 DEF CallDestroy, Written
    <3> QED BY <1>0, <3>1, <3>2 DEF Written, NoneRegained, StoreType
  <2>8. CASE CallRecord
    <3>1. call.pc = "record" /\ call.key \in Keys /\ call'.pc # "record" /\ UNCHANGED <<store, top>>
          /\ deleted' \subseteq deleted \cup {call.key}
      BY <1>0, <2>8 DEF CallRecord, CallKeys, TypeOK, Call, Idle
    <3> QED BY <1>0, <3>1 DEF Written, NoneRegained
  <2> QED BY <1>5, <2>1, <2>2, <2>3, <2>4, <2>5, <2>6, <2>7, <2>8, <2>9 DEF Proceed
<1>6. CASE Crash
  <2>1. UNCHANGED <<top, deleted>> /\ CallKept
    BY <1>6 DEF Crash, CallKept, Idle
  <2>2. ASSUME call.slot \in Available(member, MemberSet), NEW T \in SUBSET Targets(member, members, call.slot), NEW P \in SUBSET Keys,
               LET purged == IF T = {} THEN store ELSE Purge(store, T \cup {call.slot})
               IN  store' = [s \in Slots |-> IF s \in T
                               THEN Overlay(purged, call.slot, s, P \cap Held(purged, call.slot))
                               ELSE purged[s]]
        PROVE  Derived(store', store)
    <3> DEFINE purged == IF T = {} THEN store ELSE Purge(store, T \cup {call.slot})
    <3>1. call.slot \in Slots
      BY <1>0, <2>2 DEF Available, InService
    <3>2. Derived(purged, store)
      BY <1>0, <1>1, PurgeDerived
    <3>3. T # {} => \A k \in Keys \cap deleted : purged[call.slot][k] = 0
      <4> DEFINE S == T \cup {call.slot}
      <4>1. call.slot \in Slots \cap S
        BY <3>1
      <4>2. \A u \in Slots \cap S, k \in Keys \cap deleted : Purge(store, S)[u][k] = 0
        BY <1>0, PurgeDerived
      <4>3. T # {} => purged = Purge(store, S)
        OBVIOUS
      <4> HIDE DEF purged, S
      <4> QED BY <4>1, <4>2, <4>3
    <3>4. store' = [s \in Slots |-> IF s \in T
                      THEN Overlay(purged, call.slot, s, P \cap Held(purged, call.slot))
                      ELSE purged[s]]
      BY <2>2
    <3> HIDE DEF purged
    <3>5. \A u \in Slots, k \in Keys : \/ store'[u][k] = purged[u][k]
                                       \/ store'[u][k] = purged[call.slot][k] /\ k \notin deleted
      <4> TAKE u \in Slots, k \in Keys
      <4> DEFINE Q == P \cap Held(purged, call.slot)
      <4>1. CASE u \in T
        <5>1. store'[u] = Overlay(purged, call.slot, u, Q)
          BY <3>4, <4>1
        <5>2. store'[u][k] = IF k \in Q THEN purged[call.slot][k] ELSE purged[u][k]
          BY <5>1 DEF Overlay
        <5>3. k \in Q => k \notin deleted
          BY <3>3, <4>1 DEF Held
        <5> QED BY <5>2, <5>3
      <4>2. CASE u \notin T
        BY <3>4, <4>2
      <4> QED BY <4>1, <4>2
    <3> QED BY <3>1, <3>2, <3>5 DEF Derived
  <2>3. Derived(store', store)
    BY <1>1, <1>6, <2>2 DEF Crash
  <2> QED BY <2>1, <2>3, DerivedStep
<1>7. ASSUME NEW s \in Slots, NEW k \in Keys, DirectWrite(s, k) PROVE Written' /\ NoneRegained
  <2>1. call' = call /\ deleted' = deleted
    BY <1>7 DEF DirectWrite
  <2>2. top \in [Keys -> Nat]
    BY <1>0 DEF TypeOK, Versions
  <2>3. CASE /\ top[k] = 0 \/ store[s][k] > 0
             /\ store' = [store EXCEPT ![s][k] = top[k] + 1] /\ top' = [top EXCEPT ![k] = @ + 1]
    <3>1. \A x \in Keys : top[x] > 0 => top'[x] > 0
      BY <2>2, <2>3
    <3>2. k \notin deleted \/ store[s][k] > 0
      BY <2>3 DEF Written
    <3>3. Written'
      BY <1>0, <2>1, <2>2, <2>3, <3>1 DEF Written, StoreType
    <3>4. NoneRegained
      BY <1>0, <2>1, <2>3, <3>2 DEF NoneRegained, StoreType
    <3> QED BY <3>3, <3>4
  <2>4. CASE store' = [store EXCEPT ![s][k] = 0] /\ top' = top
    BY <1>0, <2>1, <2>4 DEF Written, NoneRegained, StoreType
  <2> QED BY <1>7, <2>3, <2>4 DEF DirectWrite
<1> QED BY <1>2, <1>3, <1>4, <1>5, <1>6, <1>7 DEF Next

\* A tombstoned identity never comes back to a slot that does not hold it,
\* whatever fails, crashes, runs out of storage or is written behind the group:
\* the deletions are applied to the source and to the target before a clone
\* (deployment.py recover_ha_member, synchronize_ha_group).
THEOREM TombstonesAlwaysHold == Spec => TombstonesHold
<1>1. Init => Written
  BY DEF Init, Written, Idle
<1>2. Inv /\ Written /\ [Next]_vars => Written' /\ NoneRegained
  BY StepKeepsTombstones
<1>3. Inv /\ Written /\ [Next]_vars
        => [\A s \in Slots, k \in deleted \cap deleted' : store[s][k] = 0 => store'[s][k] = 0]_vars
  BY <1>2 DEF NoneRegained
<1> QED BY <1>1, <1>2, <1>3, SpecInv, PTL DEF Spec, TombstonesHold

=============================================================================
