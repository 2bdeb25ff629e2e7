--------------------------- MODULE HAStoreProofs ---------------------------
(***************************************************************************)
(* What the members of an HA group hold: proofs about HAGroup, for every   *)
(* value of its constants, continued from HAGroupProofs.                   *)
(***************************************************************************)
EXTENDS HAGroupProofs

-----------------------------------------------------------------------------
(* Members that return to service and members that are cut off.            *)

\* A marked member changes neither its partition nor its role.
LEMMA MarkEntries ==
  ASSUME NEW mem \in [Slots -> Member], NEW S, NEW u \in Slots
  PROVE  /\ MarkCurrent(mem, S)[u].partitioned = mem[u].partitioned
         /\ MarkCurrent(mem, S)[u].role = mem[u].role
         /\ MarkCurrent(mem, S)[u].state = IF u \in S THEN "active" ELSE mem[u].state
         /\ MarkIncompatible(mem, S)[u].partitioned = mem[u].partitioned
         /\ MarkIncompatible(mem, S)[u].role = mem[u].role
         /\ MarkIncompatible(mem, S)[u].state = IF u \in S THEN "incompatible" ELSE mem[u].state
  BY DEF MarkCurrent, MarkIncompatible, Member

\* recover_ha_member: only s can return, and it returns purged; a member that
\* is cut off keeps its keys.
LEMMA RecoverReturns ==
  ASSUME NEW mem, MemOK(mem), members \in Seq(Slots), store \in StoreType, deleted \subseteq Keys,
         NEW s \in Slots, Recover(mem, s), NEW u \in Slots
  PROVE  /\ member'[u].partitioned = mem[u].partitioned
         /\ member'[u].state = "active"
              => mem[u].state = "active" \/ (u = s /\ \A k \in deleted : store'[u][k] = 0)
         /\ mem[u].partitioned => store'[u] = store[u]
<1> DEFINE others == InService(mem, MemberSet \ {s})
           back == MarkCurrent(mem, {s})
<1>0. mem \in [Slots -> Member]
  BY DEF MemOK
<1>1. CASE mem[s].partitioned /\ member' = mem /\ UNCHANGED <<group, store>>
  BY <1>1
<1>2. CASE ~mem[s].partitioned /\ member' = MarkIncompatible(mem, {s}) /\ UNCHANGED <<group, store>>
  BY <1>0, <1>2, MarkEntries
<1>3. CASE ~mem[s].partitioned /\ store' = Purge(store, {s}) /\ member' = back
  <2>1. \A k \in deleted : store'[s][k] = 0
    BY <1>3 DEF Purge
  <2>2. u # s => store'[u] = store[u]
    BY <1>3 DEF Purge
  <2>3. /\ member'[u].partitioned = mem[u].partitioned
        /\ member'[u].state = IF u = s THEN "active" ELSE mem[u].state
    BY <1>0, <1>3, MarkEntries
  <2> HIDE DEF back
  <2> QED BY <1>3, <2>1, <2>2, <2>3
<1>4. ASSUME ~mem[s].partitioned, NEW src \in others,
             NEW c \in Clone(Purge(store, {src, s}), src, s),
             store' = [Purge(store, {src, s}) EXCEPT ![s] = c.copy],
             member' = IF c.ok THEN back ELSE [mem EXCEPT ![s].sync = "partial"]
      PROVE  /\ member'[u].partitioned = mem[u].partitioned
             /\ member'[u].state = "active"
                  => mem[u].state = "active" \/ (u = s /\ \A k \in deleted : store'[u][k] = 0)
             /\ mem[u].partitioned => store'[u] = store[u]
  <2> DEFINE purged == Purge(store, {src, s})
  <2>1. src \in Slots /\ mem[src].state = "active"
    BY RangeType DEF InService, MemberSet
  <2>2. ~mem[src].partitioned
    BY <2>1 DEF MemOK
  <2>3. purged \in StoreType
    BY PurgeType
  <2>4. \A k \in deleted : purged[src][k] = 0 /\ purged[s][k] = 0
    BY <2>1 DEF Purge
  <2>5. \A k \in deleted : c.copy[k] = 0
    <3>0. c \in Clone(purged, src, s) /\ \A k \in Keys \cap deleted : purged[src][k] = 0
      BY <1>4, <2>4
    <3> HIDE DEF purged
    <3>1. \A k \in Keys : c.copy[k] = purged[s][k] \/ (c.copy[k] = purged[src][k] /\ k \notin deleted)
      BY <3>0, <2>1, <2>3, CloneClean
    <3> QED BY <2>4, <3>1
  <2>6. \A k \in deleted : store'[s][k] = 0
    BY <1>4, <2>3, <2>5 DEF StoreType
  <2>7. u \notin {src, s} => store'[u] = store[u]
    <3>1. u \notin {src, s} => purged[u] = store[u]
      BY DEF Purge
    <3> HIDE DEF purged
    <3> QED BY <1>4, <2>3, <3>1 DEF purged, StoreType
  <2>8. member'[u].partitioned = mem[u].partitioned /\ (u # s => member'[u].state = mem[u].state)
    <3>1. [mem EXCEPT ![s].sync = "partial"][u].partitioned = mem[u].partitioned
          /\ [mem EXCEPT ![s].sync = "partial"][u].state = mem[u].state
      BY <1>0 DEF Member
    <3> QED BY <1>0, <1>4, <3>1, MarkEntries
  <2> QED BY <1>4, <2>2, <2>6, <2>7, <2>8
<1> QED BY <1>1, <1>2, <1>3, <1>4 DEF Recover

\* The stores once synchronize_ha_group has applied the deletions.
Purged(mem, ms, src) ==
  IF Targets(mem, ms, src) = {} THEN store ELSE Purge(store, Targets(mem, ms, src) \cup {src})

\* synchronize_ha_group member by member: a target gets a clone of the source,
\* a reachable member that is no target becomes incompatible, the others stay.
LEMMA SynchronizeEntries ==
  ASSUME NEW mem0 \in [Slots -> Member], NEW ms \in Seq(Slots), store \in StoreType,
         NEW src \in Slots, Synchronize(mem0, ms, src), NEW u \in Slots
  PROVE  /\ member'[u].partitioned = mem0[u].partitioned
         /\ member'[u].role = mem0[u].role
         /\ u \in Targets(mem0, ms, src) => \E c \in Clone(Purged(mem0, ms, src), src, u) :
              /\ store'[u] = c.copy
              /\ member'[u].state = IF c.ok THEN "active" ELSE mem0[u].state
         /\ u \notin Targets(mem0, ms, src) =>
              /\ store'[u] = Purged(mem0, ms, src)[u]
              /\ member'[u].state =
                   IF u \in RangeOf(ms) \ {src} /\ ~mem0[u].partitioned /\ ~ManuallyDown(mem0, u)
                   THEN "incompatible" ELSE mem0[u].state
<1> DEFINE mem == [mem0 EXCEPT ![src].sync = "current"]
           cut == {s \in RangeOf(ms) \ {src} : mem[s].partitioned}
           down == {s \in RangeOf(ms) \ ({src} \cup cut) : ManuallyDown(mem, s)}
           targets == Targets(mem, ms, src)
           refused == RangeOf(ms) \ ({src} \cup cut \cup down \cup targets)
           purged == IF targets = {} THEN store ELSE Purge(store, targets \cup {src})
<1>1. PICK out \in [targets -> UNION {Clone(purged, src, t) : t \in targets}] :
        /\ \A t \in targets : out[t] \in Clone(purged, src, t)
        /\ store' = [s \in Slots |-> IF s \in targets THEN out[s].copy ELSE purged[s]]
        /\ LET failed == {t \in targets : ~out[t].ok}
               done == MarkCurrent(MarkIncompatible(mem, refused), targets \ failed)
           IN  /\ member' = [s \in Slots |->
                    IF s \in cut THEN [done[s] EXCEPT !.retry = Bump(@), !.sync = "out-of-sync"]
                    ELSE IF s \in down THEN [done[s] EXCEPT !.retry = Bump(@)]
                    ELSE IF s \in failed THEN [done[s] EXCEPT !.retry = Bump(@), !.sync = "partial"]
                    ELSE done[s]]
               /\ group' = [group EXCEPT !.state =
                    IF cut \cup down \cup refused \cup failed = {} THEN "active" ELSE "degraded"]
  BY DEF Synchronize
<1> DEFINE failed == {t \in targets : ~out[t].ok}
           noted == MarkIncompatible(mem, refused)
           done == MarkCurrent(noted, targets \ failed)
<1>2. mem \in [Slots -> Member]
  BY DEF Member
<1>3. \A s \in Slots : /\ mem[s].partitioned = mem0[s].partitioned /\ mem[s].role = mem0[s].role
                       /\ mem[s].state = mem0[s].state /\ mem[s].firmware = mem0[s].firmware
  BY DEF Member
<1>4. RangeOf(ms) \subseteq Slots
  BY RangeType
<1>5. targets = Targets(mem0, ms, src)
  <2> HIDE DEF mem
  <2> QED BY <1>3, <1>4 DEF Targets, ManuallyDown, Compatible
<1>6. noted \in [Slots -> Member]
  <2>1. MarkIncompatible(mem, refused) \in [Slots -> Member]
    <3> HIDE DEF mem, refused
    <3>1. \A s \in Slots :
            [mem[s] EXCEPT !.state = "incompatible", !.sync = "out-of-sync"] \in Member
      BY <1>2 DEF Member
    <3> QED BY <1>2, <3>1 DEF MarkIncompatible
  <2> QED BY <2>1
<1>7. /\ done \in [Slots -> Member]
      /\ done[u].partitioned = mem[u].partitioned /\ done[u].role = mem[u].role
      /\ done[u].state = IF u \in targets \ failed THEN "active"
                         ELSE IF u \in refused THEN "incompatible" ELSE mem[u].state
  <2>1. /\ noted[u].partitioned = mem[u].partitioned /\ noted[u].role = mem[u].role
        /\ noted[u].state = IF u \in refused THEN "incompatible" ELSE mem[u].state
    <3> HIDE DEF mem, refused
    <3> QED BY <1>2, MarkEntries
  <2>2. 0 \in 0..MaxRetry
    BY HAAssumption
  <2> HIDE DEF noted, targets, failed
  <2>3. done \in [Slots -> Member]
    BY <1>6, <2>2, ZenonT(40) DEF MarkCurrent, Member
  <2>4. /\ done[u].partitioned = noted[u].partitioned /\ done[u].role = noted[u].role
        /\ done[u].state = IF u \in targets \ failed THEN "active" ELSE noted[u].state
    BY <1>6, MarkEntries
  <2> HIDE DEF done, refused, mem
  <2> QED BY <2>1, <2>3, <2>4
<1>8. /\ member'[u].partitioned = done[u].partitioned /\ member'[u].role = done[u].role
      /\ member'[u].state = done[u].state
  <2>1. member'[u] \in {done[u], [done[u] EXCEPT !.retry = Bump(@)],
                        [done[u] EXCEPT !.retry = Bump(@), !.sync = "out-of-sync"],
                        [done[u] EXCEPT !.retry = Bump(@), !.sync = "partial"]}
    <3> HIDE DEF done, cut, down, failed
    <3> QED BY <1>1 DEF done, cut, down, failed
  <2>2. done[u] \in Member
    BY <1>7
  <2> HIDE DEF done
  <2> QED BY <2>1, <2>2 DEF Member
<1>9. ASSUME u \in targets
      PROVE  \E c \in Clone(purged, src, u) :
               /\ store'[u] = c.copy
               /\ member'[u].state = IF c.ok THEN "active" ELSE mem0[u].state
  <2>1. out[u] \in Clone(purged, src, u) /\ store'[u] = out[u].copy
    <3> HIDE DEF targets, purged
    <3> QED BY <1>1, <1>9
  <2>2. u \notin refused
    BY <1>9
  <2>3. u \in failed <=> ~out[u].ok
    BY <1>9
  <2>4. member'[u].state = IF u \in failed THEN mem[u].state ELSE "active"
    <3> HIDE DEF targets, failed, refused, mem, done
    <3> QED BY <1>7, <1>8, <1>9, <2>2
  <2> HIDE DEF targets, failed, refused, mem, purged
  <2> QED BY <1>3, <2>1, <2>3, <2>4
<1>10. ASSUME u \notin targets
       PROVE  /\ store'[u] = purged[u]
              /\ member'[u].state =
                   IF u \in RangeOf(ms) \ {src} /\ ~mem0[u].partitioned /\ ~ManuallyDown(mem0, u)
                   THEN "incompatible" ELSE mem0[u].state
  <2>1. store'[u] = purged[u]
    <3> HIDE DEF targets, purged
    <3> QED BY <1>1, <1>10
  <2>2. u \in refused <=> u \in RangeOf(ms) \ {src} /\ ~mem[u].partitioned /\ ~ManuallyDown(mem, u)
    <3> HIDE DEF targets, mem
    <3> QED BY <1>10
  <2>3. ManuallyDown(mem, u) = ManuallyDown(mem0, u)
    <3> HIDE DEF mem
    <3> QED BY <1>3 DEF ManuallyDown
  <2>4. member'[u].state = IF u \in refused THEN "incompatible" ELSE mem[u].state
    <3> HIDE DEF targets, failed, refused, mem, done
    <3> QED BY <1>7, <1>8, <1>10
  <2> HIDE DEF targets, failed, refused, mem, purged
  <2> QED BY <1>3, <2>1, <2>2, <2>3, <2>4
<1>11. member'[u].partitioned = mem0[u].partitioned /\ member'[u].role = mem0[u].role
  BY <1>3, <1>7, <1>8
<1>12. purged = Purged(mem0, ms, src)
  BY <1>5 DEF Purged
<1> HIDE DEF mem, targets, purged
<1> QED BY <1>5, <1>9, <1>10, <1>11, <1>12

\* synchronize_ha_group: a member that returns to service was purged and cloned
\* to from a purged source; a member that is cut off keeps its keys.
LEMMA SynchronizeReturns ==
  ASSUME NEW mem0, MemOK(mem0), NEW ms \in Seq(Slots), store \in StoreType, deleted \subseteq Keys,
         NEW src \in Slots, ~mem0[src].partitioned, Synchronize(mem0, ms, src), NEW u \in Slots
  PROVE  /\ member'[u].partitioned = mem0[u].partitioned
         /\ member'[u].state = "active"
              => mem0[u].state = "active" \/ \A k \in deleted : store'[u][k] = 0
         /\ mem0[u].partitioned => store'[u] = store[u]
<1> DEFINE targets == Targets(mem0, ms, src)
           purged == Purged(mem0, ms, src)
<1>1. mem0 \in [Slots -> Member]
  BY DEF MemOK
<1>2. /\ member'[u].partitioned = mem0[u].partitioned
      /\ u \in targets => \E c \in Clone(purged, src, u) : store'[u] = c.copy
      /\ u \notin targets =>
           /\ store'[u] = purged[u]
           /\ member'[u].state = "active" => mem0[u].state = "active"
  <2>1. /\ member'[u].partitioned = mem0[u].partitioned
        /\ u \in targets => \E c \in Clone(purged, src, u) :
             /\ store'[u] = c.copy
             /\ member'[u].state = IF c.ok THEN "active" ELSE mem0[u].state
        /\ u \notin targets =>
             /\ store'[u] = purged[u]
             /\ member'[u].state =
                  IF u \in RangeOf(ms) \ {src} /\ ~mem0[u].partitioned /\ ~ManuallyDown(mem0, u)
                  THEN "incompatible" ELSE mem0[u].state
    BY <1>1, SynchronizeEntries
  <2> HIDE DEF targets, purged
  <2> QED BY <2>1
<1>3. purged \in StoreType
  BY PurgeType DEF Purged
<1>4. CASE u \in targets
  <2>1. ~mem0[u].partitioned
    BY <1>4 DEF Targets
  <2>2. purged = Purge(store, targets \cup {src})
    BY <1>4 DEF Purged
  <2>3. \A k \in deleted : purged[src][k] = 0 /\ purged[u][k] = 0
    <3> HIDE DEF purged, targets
    <3> QED BY <1>4, <2>2 DEF Purge
  <2>4. PICK c \in Clone(purged, src, u) : store'[u] = c.copy
    BY <1>2, <1>4
  <2>5. ASSUME NEW k \in deleted PROVE store'[u][k] = 0
    <3> HIDE DEF purged
    <3>1. c.copy[k] = purged[u][k] \/ c.copy[k] = purged[src][k]
      BY <1>3, <2>3, CloneClean
    <3> QED BY <2>3, <2>4, <3>1
  <2> QED BY <1>2, <2>1, <2>5
<1>5. CASE u \notin targets
  <2>1. mem0[u].partitioned => purged[u] = store[u]
    BY <1>5 DEF Purged, Purge
  <2> HIDE DEF purged, targets
  <2> QED BY <1>2, <1>5, <2>1
<1> QED BY <1>4, <1>5

\* The handlers of a step that can return a member to service, with the member
\* table they start from.
Returning(s, mem) ==
  \/ Recover(mem, s)
  \/ \E ms \in Seq(Slots), src \in Slots : ~mem[src].partitioned /\ Synchronize(mem, ms, src)

LEMMA ReturningEffect ==
  ASSUME Inv, NEW s \in Slots, NEW mem, MemOK(mem), Returning(s, mem), NEW u \in Slots
  PROVE  /\ member'[u].partitioned = mem[u].partitioned
         /\ member'[u].state = "active"
              => mem[u].state = "active" \/ \A k \in deleted : store'[u][k] = 0
         /\ mem[u].partitioned => store'[u] = store[u]
<1>1. members \in Seq(Slots) /\ store \in StoreType /\ deleted \subseteq Keys
  BY DEF Inv, TypeOK, StoreType
<1>2. CASE Recover(mem, s)
  BY <1>1, <1>2, RecoverReturns
<1>3. ASSUME NEW ms \in Seq(Slots), NEW src \in Slots, ~mem[src].partitioned, Synchronize(mem, ms, src)
      PROVE  /\ member'[u].partitioned = mem[u].partitioned
             /\ member'[u].state = "active"
                  => mem[u].state = "active" \/ \A k \in deleted : store'[u][k] = 0
             /\ mem[u].partitioned => store'[u] = store[u]
  BY <1>1, <1>3, SynchronizeReturns
<1> QED BY <1>2, <1>3 DEF Returning

\* fail_ha_member takes only s out of service.
LEMMA FailStates ==
  ASSUME NEW mem \in [Slots -> Member], NEW g, NEW s \in Slots, NEW np \in BOOLEAN,
         members \in Seq(Slots), Fail(mem, g, s, np), NEW u \in Slots
  PROVE  /\ member'[u].state = IF u = s THEN "unavailable" ELSE mem[u].state
         /\ member'[u].partitioned = IF u = s THEN np ELSE mem[u].partitioned
<1> DEFINE failed == [mem EXCEPT ![s] = [@ EXCEPT !.state = "unavailable", !.sync = "out-of-sync",
                                                  !.retry = 0, !.partitioned = np]]
<1>1. failed \in [Slots -> Member]
  <2>1. 0 \in 0..MaxRetry
    BY HAAssumption
  <2> QED BY <2>1 DEF Member
<1>2. /\ failed[u].state = IF u = s THEN "unavailable" ELSE mem[u].state
      /\ failed[u].partitioned = IF u = s THEN np ELSE mem[u].partitioned
  BY DEF Member
<1>3. MemberSet \subseteq Slots
  BY RangeType DEF MemberSet
<1>4. member' = failed \/ \E r \in Slots : member' = [failed EXCEPT ![r].role = "active", ![s].role = "standby"]
  BY <1>3 DEF Fail, InService
<1>5. ASSUME NEW r \in Slots, member' = [failed EXCEPT ![r].role = "active", ![s].role = "standby"]
      PROVE  member'[u].state = failed[u].state /\ member'[u].partitioned = failed[u].partitioned
  <2> HIDE DEF failed
  <2> QED BY <1>1, <1>5 DEF Member
<1> HIDE DEF failed
<1> QED BY <1>2, <1>4, <1>5

\* Routing touches no state.
LEMMA RoutedEntries ==
  ASSUME member \in [Slots -> Member], NEW s \in Slots, NEW u \in Slots
  PROVE  /\ RoutedMember(s)[u].state = member[u].state
         /\ RoutedMember(s)[u].partitioned = member[u].partitioned
         /\ RoutedMember(s)[u].role =
              IF u = s /\ group.mode # "round-robin" THEN "active" ELSE member[u].role
  BY DEF RoutedMember, Member

\* remove_ha_member leaves the other members, and only them.
LEMMA RemovedGone ==
  ASSUME members \in Seq(Slots), \A i, j \in DOMAIN members : members[i] = members[j] => i = j,
         Len(members) > 1, NEW i \in DOMAIN members,
         members' = [j \in 1..(Len(members) - 1) |-> IF j < i THEN members[j] ELSE members[j + 1]]
  PROVE  MemberSet' = MemberSet \ {members[i]}
<1>1. Len(members) \in Nat /\ DOMAIN members = 1..Len(members) /\ DOMAIN members' = 1..(Len(members) - 1)
  OBVIOUS
<1>2. ASSUME NEW j \in DOMAIN members' PROVE members'[j] \in MemberSet \ {members[i]}
  <2> DEFINE n == IF j < i THEN j ELSE j + 1
  <2>1. n \in DOMAIN members /\ n # i /\ members'[j] = members[n]
    BY <1>1
  <2> HIDE DEF n
  <2> QED BY <2>1 DEF MemberSet, RangeOf
<1>3. ASSUME NEW n \in DOMAIN members, members[n] # members[i]
      PROVE  members[n] \in MemberSet'
  <2> DEFINE j == IF n < i THEN n ELSE n - 1
  <2>1. j \in DOMAIN members' /\ members'[j] = members[n]
    BY <1>1, <1>3
  <2> HIDE DEF j
  <2> QED BY <2>1 DEF MemberSet, RangeOf
<1> QED BY <1>2, <1>3 DEF MemberSet, RangeOf

\* Away and back in one step without being removed.
ReturnsCleanStep ==
  \A s \in MemberSet \cap MemberSet' :
    member[s].state # "active" /\ member'[s].state = "active"
      => \A k \in deleted' : store'[s][k] = 0

IsolatedUntouchedStep ==
  \A s \in MemberSet \cap MemberSet' :
    member[s].partitioned /\ member'[s].partitioned
      => store'[s] = store[s] \/ (call.pc = "run" /\ call.slot = s)

\* Every step returns members clean; only a direct write, or the call that was
\* routed there before, reaches the keys of a member that is cut off.
LEMMA MembersStep ==
  ASSUME Inv, [Next]_vars
  PROVE  ReturnsCleanStep /\ ("direct" \notin Hazards => IsolatedUntouchedStep)
<1> DEFINE Goal == ReturnsCleanStep /\ ("direct" \notin Hazards => IsolatedUntouchedStep)
<1>0. /\ TypeOK /\ MemOK(member) /\ members \in Seq(Slots) /\ store \in StoreType
      /\ group \in Group /\ call \in Call /\ deleted \subseteq Keys
      /\ MemberSet \subseteq Slots /\ CallKeys
  BY InvMemOK, RangeType DEF TypeOK, MemberSet, StoreType
\* A step that replicates from a table with the partitions and the states of
\* member, except that it may heal or stop one member.
<1>1. ASSUME NEW s \in Slots, NEW mem, MemOK(mem), Returning(s, mem), deleted' = deleted,
             \A u \in MemberSet : /\ mem[u].partitioned => member[u].partitioned
                                  /\ mem[u].state = "active" => member[u].state = "active"
      PROVE  Goal
  <2>1. ASSUME NEW u \in MemberSet, member[u].state # "active", member'[u].state = "active"
        PROVE  \A k \in deleted' : store'[u][k] = 0
    BY <1>0, <1>1, <2>1, ReturningEffect
  <2>2. ASSUME NEW u \in MemberSet, member'[u].partitioned
        PROVE  store'[u] = store[u]
    BY <1>0, <1>1, <2>2, ReturningEffect
  <2> QED BY <2>1, <2>2 DEF ReturnsCleanStep, IsolatedUntouchedStep
\* A step that returns nobody and leaves the stores of cut-off members alone.
<1>2. ASSUME \A u \in MemberSet \cap MemberSet' : member'[u].state = "active" => member[u].state = "active",
             "direct" \notin Hazards =>
               \A u \in MemberSet \cap MemberSet' :
                 member[u].partitioned => store'[u] = store[u] \/ (call.pc = "run" /\ call.slot = u)
      PROVE  Goal
  BY <1>2 DEF ReturnsCleanStep, IsolatedUntouchedStep
<1>3. CASE UNCHANGED vars
  BY <1>2, <1>3 DEF vars
<1>4. CASE DeleteGroup
  <2>1. MemberSet' = {}
    BY <1>4 DEF DeleteGroup, MemberSet, RangeOf
  <2> QED BY <2>1 DEF ReturnsCleanStep, IsolatedUntouchedStep
<1>5. CASE SynchronizeGroup
  <2>1. PICK src \in Available(member, MemberSet) : Synchronize(member, members, src)
    BY <1>5 DEF SynchronizeGroup
  <2>2. src \in Slots /\ ~member[src].partitioned
    BY <1>0 DEF Available, InService
  <2>3. Returning(src, member)
    BY <1>0, <2>1, <2>2 DEF Returning
  <2> QED BY <1>0, <1>1, <1>5, <2>2, <2>3 DEF SynchronizeGroup
<1>6. CASE RouteOperation
  BY <1>0, <1>2, <1>6, RoutedEntries DEF RouteOperation, Available, InService, MemOK
<1>7. ASSUME NEW s \in Slots, CreateGroup(s) PROVE Goal
  <2>1. MemberSet = {}
    BY <1>7 DEF CreateGroup, MemberSet, RangeOf
  <2> QED BY <2>1 DEF ReturnsCleanStep, IsolatedUntouchedStep
<1>8. ASSUME NEW s \in Slots, AddMember(s) PROVE Goal
  <2>1. s \notin MemberSet /\ member' = [member EXCEPT ![s] = Admitted(s)] /\ store' = store
    BY <1>8 DEF AddMember, MayJoin
  <2>2. \A u \in MemberSet : member'[u] = member[u]
    BY <1>0, <2>1 DEF MemOK
  <2> QED BY <1>2, <2>1, <2>2
<1>9. ASSUME NEW s \in Slots, AddMemberSync(s) PROVE Goal
  <2> DEFINE mem == [member EXCEPT ![s] = Admitted(s)]
             ms == Append(members, s)
  <2>1. PICK src \in Available(mem, RangeOf(ms)) : Synchronize(mem, ms, src)
    BY <1>9 DEF AddMemberSync
  <2>2. ms \in Seq(Slots)
    BY <1>0
  <2>3. s \notin MemberSet /\ deleted' = deleted
    BY <1>9 DEF AddMemberSync, MayJoin
  <2>4. MemOK(mem)
    <3>1. NewMember \in Member /\ ~NewMember.partitioned
      BY HAAssumption DEF NewMember, Member
    <3>2. Admitted(s) \in Member /\ ~Admitted(s).partitioned
      BY <3>1 DEF Admitted, Member
    <3> QED BY <1>0, <3>2 DEF MemOK
  <2>5. \A u \in MemberSet : mem[u] = member[u]
    BY <1>0, <2>3 DEF MemOK
  <2> HIDE DEF mem, ms
  <2>6. src \in Slots /\ ~mem[src].partitioned
    BY <2>1, <2>2, RangeType DEF Available, InService
  <2>7. Returning(src, mem)
    BY <2>1, <2>2, <2>6 DEF Returning
  <2> QED BY <1>1, <2>3, <2>4, <2>5, <2>6, <2>7
<1>10. ASSUME NEW s \in Slots, RemoveMember(s) PROVE Goal
  <2>1. s \notin MemberSet'
    <3>1. PICK i \in DOMAIN members :
            /\ members[i] = s
            /\ members' = [j \in 1..(Len(members) - 1) |->
                             IF j < i THEN members[j] ELSE members[j + 1]]
      BY <1>10 DEF RemoveMember
    <3>2. \A a, b \in DOMAIN members : members[a] = members[b] => a = b
      BY <1>0 DEF TypeOK
    <3>3. Len(members) > 1
      BY <1>10 DEF RemoveMember
    <3> QED BY <1>0, <3>1, <3>2, <3>3, RemovedGone
  <2>2. \A u \in Slots \ {s} : member'[u] = member[u]
    BY <1>0, <1>10 DEF RemoveMember, MemOK
  <2>3. store' = store
    BY <1>10 DEF RemoveMember
  <2> QED BY <1>0, <1>2, <2>1, <2>2, <2>3
<1>11. ASSUME NEW s \in Slots, FailMember(s) \/ PartitionMember(s) PROVE Goal
  <2>0. member \in [Slots -> Member]
    BY <1>0 DEF MemOK
  <2>1. PICK np \in BOOLEAN : Fail(member, group, s, np)
    BY <1>11, <2>0 DEF FailMember, PartitionMember, Member
  <2>2. \A u \in Slots :
          /\ member'[u].state = IF u = s THEN "unavailable" ELSE member[u].state
          /\ member'[u].partitioned = IF u = s THEN np ELSE member[u].partitioned
    BY <1>0, <2>0, <2>1, FailStates
  <2>3. store' = store
    BY <1>11 DEF FailMember, PartitionMember
  <2> QED BY <1>0, <1>2, <2>2, <2>3
<1>12. ASSUME NEW s \in Slots, RestoreMember(s) PROVE Goal
  <2> DEFINE mem == [member EXCEPT ![s] = [@ EXCEPT !.partitioned = FALSE, !.state = "recovering"]]
  <2>1. [member[s] EXCEPT !.partitioned = FALSE, !.state = "recovering"] \in Member
    BY <1>0 DEF MemOK, Member
  <2>2. MemOK(mem) /\ \A u \in Slots : /\ mem[u].partitioned => member[u].partitioned
                                       /\ mem[u].state = "active" => member[u].state = "active"
    BY <1>0, <2>1 DEF MemOK, Member
  <2>3. Recover(mem, s) \/ (member' = mem /\ store' = store)
    BY <1>12 DEF RestoreMember
  <2>4. deleted' = deleted
    BY <1>12 DEF RestoreMember
  <2> HIDE DEF mem
  <2> QED BY <1>0, <1>1, <1>2, <2>2, <2>3, <2>4 DEF Returning
<1>13. ASSUME NEW s \in Slots, RecoverMember(s) PROVE Goal
  BY <1>0, <1>1, <1>13 DEF RecoverMember, Returning
<1>14. ASSUME NEW s \in Slots, NEW f \in Firmwares, SetFirmware(s, f) PROVE Goal
  <2>1. \A u \in Slots : member'[u].state = member[u].state
    BY <1>0, <1>14 DEF SetFirmware, MemOK, Member
  <2> QED BY <1>0, <1>2, <1>14, <2>1 DEF SetFirmware
<1>15. ASSUME NEW s \in Slots, NEW p \in Policies, SetPolicy(s, p) PROVE Goal
  BY <1>2, <1>15 DEF SetPolicy
<1>16. ASSUME NEW m \in Modes, SetMode(m) PROVE Goal
  <2>1. \A u \in Slots : member'[u].state = member[u].state
    BY <1>0, <1>16 DEF SetMode, MemOK, Member
  <2> QED BY <1>0, <1>2, <1>16, <2>1 DEF SetMode
<1>17. ASSUME member' = member, store' = store PROVE Goal
  BY <1>2, <1>17
<1>18. CASE Administer
  BY <1>4, <1>5, <1>6, <1>7, <1>8, <1>9, <1>10, <1>11, <1>12, <1>13, <1>14, <1>15, <1>16, <1>17, <1>18
     DEF Administer, SetRecoveryMode, SetRetry, SetInterval
<1>19. CASE Begin
  BY <1>17, <1>19 DEF Begin, CallBegin
<1>20. ASSUME NEW s \in Slots, CallPoll(s) PROVE Goal
  <2> DEFINE mem == [member EXCEPT ![s].retry = Bump(@)]
  <2>1. MemOK(mem)
    BY <1>0, RetryOK
  <2>2. \A u \in Slots : mem[u].partitioned = member[u].partitioned /\ mem[u].state = member[u].state
    BY <1>0 DEF MemOK, Member
  <2>3. Recover(mem, s) /\ deleted' = deleted
    BY <1>20 DEF CallPoll
  <2> HIDE DEF mem
  <2> QED BY <1>0, <1>1, <2>1, <2>2, <2>3 DEF Returning
<1>21. ASSUME NEW s \in Slots, Executes(s)
       PROVE  /\ MemOK(CallMember(s))
              /\ \A u \in Slots : CallMember(s)[u].state = member[u].state
              /\ member[s].partitioned => call.pc = "run" /\ call.slot = s
  <2>1. CASE call.slot = None
    <3>1. Routed(Eligible, s)
      BY <1>21, <2>1 DEF Executes
    <3>2. ~member[s].partitioned
      BY <3>1 DEF Routed, IsFirst, Eligible, Available
    <3>3. MemOK(RoutedMember(s))
      BY <1>0, RoleOK DEF RoutedMember
    <3>4. \A u \in Slots : RoutedMember(s)[u].state = member[u].state
      BY <1>0, RoutedEntries DEF MemOK
    <3> QED BY <2>1, <3>2, <3>3, <3>4 DEF CallMember
  <2>2. CASE call.slot # None
    BY <1>0, <1>21, <2>2 DEF Executes, Running, CallMember
  <2> QED BY <2>1, <2>2
<1>22. ASSUME NEW s \in Slots, CallRoute(s) PROVE Goal
  <2>1. \A u \in Slots : member'[u].state = member[u].state
    BY <1>0, <1>22, RoutedEntries DEF MemOK, CallRoute
  <2> QED BY <1>0, <1>2, <1>22, <2>1 DEF CallRoute
<1>23. ASSUME NEW s \in Slots, CallAnswer(s) \/ CallWrite(s) \/ CallDestroy(s) PROVE Goal
  <2>1. \A u \in Slots : u # s => store'[u] = store[u]
    BY <1>0, <1>23 DEF CallAnswer, CallWrite, CallDestroy, StoreType
  <2>2. Executes(s) /\ member' = CallMember(s)
    BY <1>23 DEF CallAnswer, CallWrite, CallDestroy
  <2> QED BY <1>0, <1>2, <1>21, <2>1, <2>2
<1>24. ASSUME NEW s \in Slots, CallDeviceError(s) PROVE Goal
  <2>1. MemOK(CallMember(s)) /\ \A u \in Slots : CallMember(s)[u].state = member[u].state
    BY <1>21, <1>24 DEF CallDeviceError
  <2>2. CASE UNCHANGED <<member, store>>
    BY <1>2, <2>2
  <2>3. CASE Fail(CallMember(s), CallGroup, s, member[s].partitioned) /\ store' = store
    <3>1. CallMember(s) \in [Slots -> Member] /\ member[s].partitioned \in BOOLEAN
      BY <1>0, <2>1 DEF MemOK, Member
    <3>2. \A u \in Slots :
            member'[u].state = IF u = s THEN "unavailable" ELSE CallMember(s)[u].state
      BY <1>0, <2>3, <3>1, FailStates
    <3> QED BY <1>0, <1>2, <2>1, <2>3, <3>2
  <2> QED BY <1>24, <2>2, <2>3 DEF CallDeviceError
<1>25. CASE CallNoMember \/ CallPollFails \/ CallRecord
  BY <1>17, <1>25 DEF CallNoMember, CallPollFails, CallRecord
<1>26. CASE CallSync
  <2>1. CASE UNCHANGED <<member, store>>
    BY <1>17, <2>1
  <2>2. CASE call.slot \in Available(member, MemberSet) /\ Synchronize(member, members, call.slot)
    <3>1. call.slot \in Slots /\ ~member[call.slot].partitioned
      BY <1>0, <2>2 DEF Available, InService
    <3>2. Returning(call.slot, member) /\ deleted' = deleted
      BY <1>0, <1>26, <2>2, <3>1 DEF Returning, CallSync
    <3> QED BY <1>0, <1>1, <3>1, <3>2
  <2> QED BY <1>26, <2>1, <2>2 DEF CallSync
<1>27. CASE Proceed
  BY <1>20, <1>22, <1>23, <1>24, <1>25, <1>26, <1>27 DEF Proceed
<1>28. CASE Crash
  <2>1. ASSUME call.slot \in Available(member, MemberSet), NEW T \in SUBSET Targets(member, members, call.slot), NEW P \in SUBSET Keys,
               LET purged == IF T = {} THEN store ELSE Purge(store, T \cup {call.slot})
               IN  store' = [s \in Slots |-> IF s \in T
                               THEN Overlay(purged, call.slot, s, P \cap Held(purged, call.slot))
                               ELSE purged[s]],
               NEW u \in MemberSet, member[u].partitioned
        PROVE  store'[u] = store[u]
    <3>1. u \notin T
      BY <2>1 DEF Targets
    <3>2. u # call.slot
      BY <1>0, <2>1 DEF Available
    <3> QED BY <1>0, <2>1, <3>1, <3>2 DEF Purge
  <2>2. \A u \in MemberSet : member[u].partitioned => store'[u] = store[u]
    BY <1>28, <2>1 DEF Crash
  <2> QED BY <1>2, <1>28, <2>2 DEF Crash
<1>29. ASSUME NEW s \in Slots, NEW k \in Keys, DirectWrite(s, k) PROVE Goal
  BY <1>2, <1>29 DEF DirectWrite
<1> QED BY <1>3, <1>18, <1>19, <1>27, <1>28, <1>29 DEF Next

\* A member that comes back to service, by recovery, polling or synchronisation,
\* comes back without the keys that were destroyed meanwhile, whatever crashes,
\* runs out of storage or is written behind the group (deployment.py
\* _apply_deletions in recover_ha_member and synchronize_ha_group).
THEOREM AlwaysReturnsClean == Spec => ReturnsClean
<1>1. Inv /\ [Next]_vars
        => [\A s \in MemberSet \cap MemberSet' :
              member[s].state # "active" /\ member'[s].state = "active"
                => \A k \in deleted' : store'[s][k] = 0]_vars
  BY MembersStep DEF ReturnsCleanStep
<1> QED BY <1>1, SpecInv, PTL DEF Spec, ReturnsClean

\* While a member is cut off, no recovery, synchronisation, other call or crash
\* of a client changes the keys it holds, even when another shell administers
\* the group meanwhile; an application that writes to the slot itself can
\* (set_ha_network_partition).
THEOREM AlwaysIsolatedUntouched == ASSUME "direct" \notin Hazards PROVE Spec => IsolatedUntouched
<1>1. Inv /\ [Next]_vars
        => [\A s \in MemberSet \cap MemberSet' :
              member[s].partitioned /\ member'[s].partitioned
                => store'[s] = store[s] \/ (call.pc = "run" /\ call.slot = s)]_vars
  BY MembersStep DEF IsolatedUntouchedStep
<1> QED BY <1>1, SpecInv, PTL DEF Spec, IsolatedUntouched

-----------------------------------------------------------------------------
(* One copy: while a member stays in service, nothing writes behind the    *)
(* group and no policy forbids cloning.                                    *)

\* The environment leaves a member in service, lets calls finish before the
\* next command, and neither writes to the slots, fills them, adds members bare
\* nor recreates the group.
Calm == Hazards = {} /\ Policies \subseteq Cloneable

\* Before the group exists nothing was written.
Fresh ==
  members = <<>> =>
    /\ Quiet /\ deleted = {}
    /\ \A k \in Keys : top[k] = 0 /\ cur[k] = 0 /\ \A s \in Slots : store[s][k] = 0

Serving == members # <<>> => InService(member, MemberSet) # {}

\* Before a mutation every member in service holds what the application wrote
\* last; from its commit to the end of its replication the executing one does.
Agreed ==
  /\ call.pc \in {"idle", "run"} => \A s \in InService(member, MemberSet) : store[s] = cur
  /\ call.pc \in {"record", "sync"} => store[call.slot] = cur

\* A stale copy of a destroyed key has its tombstone, once that is recorded.
Buried ==
  /\ \A k \in deleted : cur[k] = 0
  /\ \A s \in Slots, k \in Keys :
       cur[k] = 0 /\ store[s][k] > 0 => k \in deleted \/ (call.pc = "record" /\ k = call.key)
  /\ call.pc = "record" => cur[call.key] = 0

\* The members a call still has to poll are out of service.
Due == call.pc = "run" => \A s \in call.todo : s \in MemberSet /\ member[s].state # "active"

\* No copy is newer than the last write.
Dated ==
  \A k \in Keys : /\ \A s \in Slots : store[s][k] <= top[k]
                  /\ cur[k] > 0 => cur[k] = top[k]

StoreInv == Fresh /\ Serving /\ Agreed /\ Buried /\ Due /\ Dated

\* A clone copies everything and succeeds.
LEMMA CalmClone ==
  ASSUME Calm, policy \in [Slots -> Policies], NEW st, NEW s \in Slots, NEW d \in Slots,
         NEW c \in Clone(st, s, d)
  PROVE  c.ok = TRUE /\ c.copy = Overlay(st, s, d, Held(st, s))
<1>1. {policy[s], policy[d]} \subseteq Cloneable /\ "quota" \notin Hazards
  BY DEF Calm
<1>2. Clone(st, s, d) = {[ok |-> TRUE, copy |-> Overlay(st, s, d, Held(st, s))]}
  BY <1>1 DEF Clone
<1> QED BY <1>2

\* Cloned from a source that holds cur, a target without destroyed keys holds it.
LEMMA OverlayCur ==
  ASSUME NEW st \in StoreType, NEW s \in Slots, NEW d \in Slots, cur \in [Keys -> Versions],
         st[s] = cur, \A k \in Keys : cur[k] = 0 => st[d][k] = 0
  PROVE  Overlay(st, s, d, Held(st, s)) = cur
<1>1. \A k \in Keys : (IF k \in Held(st, s) THEN st[s][k] ELSE st[d][k]) = cur[k]
  BY HAAssumption DEF Held, StoreType, Versions
<1> QED BY <1>1 DEF Overlay

\* Applying the tombstones leaves cur alone and removes the destroyed keys.
LEMMA PurgeCur ==
  ASSUME StoreInv, store \in StoreType, cur \in [Keys -> Versions], deleted \subseteq Keys,
         call.pc # "record", NEW S
  PROVE  /\ \A u \in Slots : store[u] = cur => Purge(store, S)[u] = cur
         /\ \A u \in Slots \cap S, k \in Keys : cur[k] = 0 => Purge(store, S)[u][k] = 0
<1>1. ASSUME NEW u \in Slots, store[u] = cur PROVE Purge(store, S)[u] = cur
  <2>1. \A k \in Keys : (IF k \in deleted THEN 0 ELSE store[u][k]) = cur[k]
    BY <1>1 DEF StoreInv, Buried
  <2>2. [k \in Keys |-> IF k \in deleted THEN 0 ELSE store[u][k]] = cur
    BY <2>1
  <2> QED BY <1>1, <2>2 DEF Purge
<1>2. ASSUME NEW u \in Slots \cap S, NEW k \in Keys, cur[k] = 0
      PROVE  Purge(store, S)[u][k] = 0
  <2>1. Purge(store, S)[u][k] = IF k \in deleted THEN 0 ELSE store[u][k]
    BY DEF Purge
  <2>2. store[u][k] \in Nat
    BY HAAssumption DEF StoreType, Versions
  <2> QED BY <1>2, <2>1, <2>2 DEF StoreInv, Buried
<1> QED BY <1>1, <1>2

\* recover_ha_member brings s back with cur.
LEMMA RecoverSettles ==
  ASSUME Calm, Inv, StoreInv, call.pc \in {"idle", "run"}, NEW s \in Slots,
         NEW mem, MemOK(mem), \A u \in MemberSet \ {s} : mem[u].state = member[u].state,
         InService(member, MemberSet \ {s}) # {}, Recover(mem, s)
  PROVE  /\ \A u \in Slots : store'[u] = store[u] \/ store'[u] = cur
         /\ \A u \in MemberSet \ {s} : member'[u].state = member[u].state
         /\ \A u \in MemberSet : member'[u].state = "active" => store'[u] = cur
         /\ \A u \in Slots : member'[u].role = mem[u].role /\ member'[u].partitioned = mem[u].partitioned
<1> DEFINE others == InService(mem, MemberSet \ {s})
           back == MarkCurrent(mem, {s})
           Goal == /\ \A u \in Slots : store'[u] = store[u] \/ store'[u] = cur
                   /\ \A u \in MemberSet \ {s} : member'[u].state = member[u].state
                   /\ \A u \in MemberSet : member'[u].state = "active" => store'[u] = cur
                   /\ \A u \in Slots : member'[u].role = mem[u].role
                                       /\ member'[u].partitioned = mem[u].partitioned
<1>0. /\ members \in Seq(Slots) /\ store \in StoreType /\ cur \in [Keys -> Versions]
      /\ deleted \subseteq Keys /\ MemberSet \subseteq Slots /\ policy \in [Slots -> Policies]
      /\ mem \in [Slots -> Member]
  BY RangeType DEF Inv, TypeOK, StoreType, MemberSet, MemOK
<1>1. \A u \in MemberSet : member[u].state = "active" => store[u] = cur
  BY DEF StoreInv, Agreed, InService
<1>2. CASE mem[s].partitioned /\ member' = mem /\ UNCHANGED <<group, store>>
  <2>1. mem[s].state # "active"
    BY <1>2 DEF MemOK
  <2> QED BY <1>0, <1>1, <1>2, <2>1
<1>3. CASE member' = MarkIncompatible(mem, {s}) /\ UNCHANGED <<group, store>>
  <2>1. \A u \in Slots : /\ member'[u].partitioned = mem[u].partitioned /\ member'[u].role = mem[u].role
                         /\ member'[u].state = IF u \in {s} THEN "incompatible" ELSE mem[u].state
    BY <1>0, <1>3, MarkEntries
  <2> QED BY <1>0, <1>1, <1>3, <2>1
<1>4. ASSUME NEW src \in others, NEW c \in Clone(Purge(store, {src, s}), src, s),
             store' = [Purge(store, {src, s}) EXCEPT ![s] = c.copy],
             member' = IF c.ok THEN back ELSE [mem EXCEPT ![s].sync = "partial"]
      PROVE  Goal
  <2> DEFINE purged == Purge(store, {src, s})
  <2>1. src \in MemberSet \ {s} /\ src \in Slots /\ store[src] = cur
    BY <1>0, <1>1 DEF InService
  <2>2. purged \in StoreType
    BY <1>0, PurgeType
  <2>3. purged[src] = cur /\ \A k \in Keys : cur[k] = 0 => purged[s][k] = 0
    BY <1>0, <2>1, PurgeCur
  <2>4. \A u \in Slots \ {src, s} : purged[u] = store[u]
    BY DEF Purge
  <2>5. c.ok /\ c.copy = cur
    <3>0. c \in Clone(purged, src, s)
      BY <1>4
    <3> HIDE DEF purged
    <3>1. c.ok = TRUE /\ c.copy = Overlay(purged, src, s, Held(purged, src))
      BY <1>0, <2>1, <3>0, CalmClone
    <3>2. Overlay(purged, src, s, Held(purged, src)) = cur
      BY <1>0, <2>1, <2>2, <2>3, OverlayCur
    <3> QED BY <3>1, <3>2
  <2>6. \A u \in Slots : store'[u] = IF u \in {src, s} THEN cur ELSE store[u]
    <3>1. store' = [purged EXCEPT ![s] = cur]
      BY <1>4, <2>5
    <3> HIDE DEF purged
    <3> QED BY <2>2, <2>3, <2>4, <3>1 DEF StoreType
  <2>7. \A u \in Slots : /\ member'[u].partitioned = mem[u].partitioned /\ member'[u].role = mem[u].role
                         /\ member'[u].state = IF u \in {s} THEN "active" ELSE mem[u].state
    BY <1>0, <1>4, <2>5, MarkEntries
  <2> HIDE DEF purged, back, others
  <2> QED BY <1>0, <1>1, <2>6, <2>7
<1>5. others # {}
  BY DEF InService
<1> QED BY <1>2, <1>3, <1>4, <1>5 DEF Recover

\* synchronize_ha_group leaves no member in service without cur.
LEMMA SynchronizeSettles ==
  ASSUME Calm, Inv, StoreInv, call.pc # "record", NEW mem0, MemOK(mem0), NEW ms \in Seq(Slots),
         NEW src \in Slots, store[src] = cur, mem0[src].state = "active", Synchronize(mem0, ms, src)
  PROVE  /\ \A u \in Slots : store'[u] = store[u] \/ store'[u] = cur
         /\ \A u \in RangeOf(ms) : member'[u].state = "active" => store'[u] = cur
         /\ member'[src].state = "active"
<1> DEFINE targets == Targets(mem0, ms, src)
           purged == Purged(mem0, ms, src)
<1>0. /\ store \in StoreType /\ cur \in [Keys -> Versions] /\ deleted \subseteq Keys
      /\ policy \in [Slots -> Policies] /\ mem0 \in [Slots -> Member]
  BY DEF Inv, TypeOK, StoreType, MemOK
<1>1. RangeOf(ms) \subseteq Slots /\ src \notin targets /\ targets \subseteq RangeOf(ms)
  BY RangeType DEF Targets
<1>2. purged \in StoreType
  BY <1>0, PurgeType DEF Purged
<1>3. purged[src] = cur
  BY <1>0, PurgeCur DEF Purged
<1>4. \A u \in targets, k \in Keys : cur[k] = 0 => purged[u][k] = 0
  BY <1>0, <1>1, PurgeCur DEF Purged
<1>5. \A u \in Slots \ (targets \cup {src}) : purged[u] = store[u]
  BY DEF Purged, Purge
<1> HIDE DEF targets, purged
<1>6. ASSUME NEW u \in targets
      PROVE  store'[u] = cur
  <2>1. u \in Slots
    BY <1>1
  <2>2. PICK c \in Clone(purged, src, u) : store'[u] = c.copy
    BY <1>0, <1>6, <2>1, SynchronizeEntries DEF targets, purged
  <2>3. c.copy = Overlay(purged, src, u, Held(purged, src))
    BY <1>0, <2>1, <2>2, CalmClone
  <2>4. Overlay(purged, src, u, Held(purged, src)) = cur
    BY <1>0, <1>2, <1>3, <1>4, <2>1, OverlayCur
  <2> QED BY <2>2, <2>3, <2>4
<1>7. ASSUME NEW u \in Slots, u \notin targets
      PROVE  /\ store'[u] = purged[u]
             /\ member'[u].state =
                  IF u \in RangeOf(ms) \ {src} /\ ~mem0[u].partitioned /\ ~ManuallyDown(mem0, u)
                  THEN "incompatible" ELSE mem0[u].state
  BY <1>0, <1>7, SynchronizeEntries DEF targets, purged
<1>8. \A u \in Slots : store'[u] = store[u] \/ store'[u] = cur
  BY <1>3, <1>5, <1>6, <1>7
<1>9. member'[src].state = "active" /\ store'[src] = cur
  BY <1>1, <1>3, <1>7
<1>10. ASSUME NEW u \in RangeOf(ms), u # src, u \notin targets PROVE member'[u].state # "active"
  <2>1. mem0[u].partitioned => mem0[u].state = "unavailable"
    BY <1>1 DEF MemOK
  <2> QED BY <1>1, <1>7, <1>10, <2>1 DEF ManuallyDown
<1> QED BY <1>1, <1>6, <1>8, <1>9, <1>10

\* What a step never does to a slot: give back a destroyed key, or take a copy
\* back to an earlier write.
Careful ==
  \A s \in Slots, k \in Keys :
    /\ top[k] > 0 /\ cur[k] = 0 /\ store[s][k] = 0 => store'[s][k] = 0
    /\ cur'[k] > 0 => store'[s][k] >= store[s][k]

\* What the application sees of a step: nothing, a write or a destruction.
LogicalStep ==
  \/ UNCHANGED <<cur, top>>
  \/ \E k \in Keys : /\ top[k] = 0 \/ cur[k] > 0
                     /\ top' = [top EXCEPT ![k] = @ + 1]
                     /\ cur' = [cur EXCEPT ![k] = top[k] + 1]
  \/ \E k \in Keys : cur[k] > 0 /\ cur' = [cur EXCEPT ![k] = 0] /\ top' = top

\* A step that moves copies of cur only and leaves the group in agreement.
Settled ==
  /\ UNCHANGED <<cur, top, deleted>> /\ members' # <<>>
  /\ call.pc \in {"idle", "run", "sync"} /\ call'.pc \in {"idle", "run"}
  /\ InService(member', MemberSet') # {}
  /\ \A u \in Slots : store'[u] = store[u] \/ store'[u] = cur
  /\ \A u \in MemberSet' : member'[u].state = "active" => store'[u] = cur
  /\ call'.pc = "run" => \A s \in call'.todo : s \in MemberSet' /\ member'[s].state # "active"

LEMMA SettledStep ==
  ASSUME Inv, StoreInv, Settled
  PROVE  StoreInv' /\ Careful /\ LogicalStep
<1>0. /\ store \in [Slots -> [Keys -> Nat]] /\ cur \in [Keys -> Nat] /\ top \in [Keys -> Nat]
      /\ deleted \subseteq Keys
  BY HAAssumption DEF Inv, TypeOK, Versions
<1>1. Fresh' /\ Serving' /\ Due'
  BY DEF Settled, Fresh, Serving, Due
<1>2. Agreed'
  BY DEF Settled, Agreed, InService
<1>3. Dated'
  <2> SUFFICES ASSUME NEW k \in Keys
               PROVE  /\ \A s \in Slots : store'[s][k] <= top'[k]
                      /\ cur'[k] > 0 => cur'[k] = top'[k]
    BY DEF Dated
  <2>1. /\ \A s \in Slots : store[s][k] <= top[k]
        /\ cur[k] > 0 => cur[k] = top[k]
    BY DEF StoreInv, Dated
  <2>2. cur[k] \in Nat /\ top[k] \in Nat
    BY <1>0
  <2>3. cur' = cur /\ top' = top /\ \A s \in Slots : store'[s] = store[s] \/ store'[s] = cur
    BY DEF Settled
  <2> QED BY <2>1, <2>2, <2>3
<1>4. Buried'
  <2>1. ASSUME NEW s \in Slots, NEW k \in Keys, cur[k] = 0, store'[s][k] > 0 PROVE k \in deleted
    <3>1. store'[s] = store[s] \/ store'[s] = cur
      BY DEF Settled
    <3>2. store[s][k] > 0
      BY <2>1, <3>1
    <3>3. call.pc # "record"
      BY DEF Settled
    <3> QED BY <2>1, <3>2, <3>3 DEF StoreInv, Buried
  <2>2. cur' = cur /\ deleted' = deleted /\ call'.pc # "record"
    BY DEF Settled
  <2>3. \A k \in deleted : cur[k] = 0
    BY DEF StoreInv, Buried
  <2> QED BY <2>1, <2>2, <2>3 DEF Buried
<1>5. Careful
  <2> SUFFICES ASSUME NEW s \in Slots, NEW k \in Keys
               PROVE  /\ top[k] > 0 /\ cur[k] = 0 /\ store[s][k] = 0 => store'[s][k] = 0
                      /\ cur'[k] > 0 => store'[s][k] >= store[s][k]
    BY DEF Careful
  <2>1. store[s][k] <= top[k] /\ (cur[k] > 0 => cur[k] = top[k])
    BY DEF StoreInv, Dated
  <2>2. cur' = cur /\ (store'[s] = store[s] \/ store'[s] = cur)
    BY DEF Settled
  <2>3. cur[k] \in Nat /\ top[k] \in Nat /\ store[s][k] \in Nat
    BY <1>0
  <2> QED BY <2>1, <2>2, <2>3
<1> QED BY <1>1, <1>2, <1>3, <1>4, <1>5 DEF StoreInv, LogicalStep, Settled

\* A step that touches none of it.
LEMMA ElsewhereStep ==
  ASSUME Inv, StoreInv, UNCHANGED <<members, member, deleted, store, call, top, cur>>
  PROVE  StoreInv' /\ Careful /\ LogicalStep
<1>0. store \in [Slots -> [Keys -> Nat]]
  BY HAAssumption DEF Inv, TypeOK, Versions
<1> QED BY <1>0 DEF StoreInv, Fresh, Serving, Agreed, Buried, Due, Dated, Careful, LogicalStep, MemberSet, Quiet

LEMMA AppendRange ==
  ASSUME NEW ms \in Seq(Slots), NEW s \in Slots
  PROVE  /\ Append(ms, s) \in Seq(Slots) /\ Append(ms, s) # <<>>
         /\ RangeOf(Append(ms, s)) = RangeOf(ms) \cup {s}
<1> DEFINE new == Append(ms, s)
<1>1. /\ new \in Seq(Slots) /\ DOMAIN new = 1..(Len(ms) + 1) /\ Len(ms) \in Nat
      /\ DOMAIN ms = 1..Len(ms)
      /\ new[Len(ms) + 1] = s /\ \A i \in 1..Len(ms) : new[i] = ms[i]
  OBVIOUS
<1> HIDE DEF new
<1>2. \A i \in DOMAIN new : new[i] \in RangeOf(ms) \cup {s}
  BY <1>1 DEF RangeOf
<1>3. s \in RangeOf(new)
  BY <1>1 DEF RangeOf
<1>4. \A i \in DOMAIN ms : i \in DOMAIN new /\ new[i] = ms[i]
  BY <1>1
<1>5. RangeOf(ms) \subseteq RangeOf(new)
  BY <1>4 DEF RangeOf
<1>6. RangeOf(new) \subseteq RangeOf(ms) \cup {s}
  BY <1>2 DEF RangeOf
<1>7. new # <<>>
  BY <1>3 DEF RangeOf
<1> QED BY <1>1, <1>3, <1>5, <1>6, <1>7 DEF new

\* The first member of a list with a new last entry that is in service is an
\* old one, when one of those is in service.
LEMMA OldFirst ==
  ASSUME NEW ms \in Seq(Slots), NEW s \in Slots, s \notin RangeOf(ms),
         NEW E, NEW t \in RangeOf(ms) \cap E, NEW src, IsFirst(Append(ms, s), E, src)
  PROVE  src # s
<1> DEFINE new == Append(ms, s)
<1>1. /\ new \in Seq(Slots) /\ DOMAIN new = 1..(Len(ms) + 1) /\ Len(ms) \in Nat
      /\ new[Len(ms) + 1] = s /\ \A i \in 1..Len(ms) : new[i] = ms[i] /\ ms[i] \in RangeOf(ms)
  BY DEF RangeOf
<1> HIDE DEF new
<1>2. Pos(new, s) = Len(ms) + 1
  <2>1. \A i \in DOMAIN new : new[i] = s <=> i = Len(ms) + 1
    BY <1>1
  <2>2. \E i \in DOMAIN new : new[i] = s
    BY <1>1
  <2>3. Pos(new, s) \in DOMAIN new /\ new[Pos(new, s)] = s
    BY <2>2 DEF Pos
  <2> QED BY <2>1, <2>3
<1>3. Pos(new, t) \in 1..Len(ms)
  <2>1. \E i \in 1..Len(ms) : new[i] = t
    BY <1>1 DEF RangeOf
  <2>2. Pos(new, t) \in DOMAIN new /\ new[Pos(new, t)] = t
    BY <1>1, <2>1 DEF Pos
  <2>3. t # s
    OBVIOUS
  <2> QED BY <1>1, <2>2, <2>3
<1>4. Pos(new, src) <= Pos(new, t)
  BY DEF IsFirst, new
<1> QED BY <1>1, <1>2, <1>3, <1>4

\* Every step keeps the agreement, is careful and looks like one key store.
LEMMA AdministerStep ==
  ASSUME Calm, Inv, StoreInv, Administer
  PROVE  StoreInv' /\ Careful /\ LogicalStep
<1> DEFINE Goal == StoreInv' /\ Careful /\ LogicalStep
<1>0. /\ TypeOK /\ MemOK(member) /\ members \in Seq(Slots) /\ store \in StoreType
      /\ member \in [Slots -> Member] /\ MemberSet \subseteq Slots
      /\ call \in Call /\ cur \in [Keys -> Versions]
  BY InvMemOK, RangeType DEF TypeOK, MemberSet, StoreType, MemOK
<1>1. /\ call.pc = "idle" /\ call' = call /\ deleted' \subseteq deleted /\ top' = top
  BY DEF Administer, DeleteGroup, SynchronizeGroup, RouteOperation, CreateGroup, AddMember,
         AddMemberSync, RemoveMember, FailMember, PartitionMember, RestoreMember, RecoverMember,
         SetFirmware, SetPolicy, SetMode, SetRecoveryMode, SetRetry, SetInterval, MayAdminister, Quiet, Calm
<1>2. \A u \in MemberSet : member[u].state = "active" => store[u] = cur
  BY <1>1 DEF StoreInv, Agreed, InService
<1>3. ASSUME NEW s \in Slots, Survives({s}) PROVE InService(member, MemberSet \ {s}) # {}
  BY <1>3 DEF Survives, Calm
<1>4. MemberSet # {} => members # <<>>
  BY DEF MemberSet, RangeOf
<1>5. members # <<>> => InService(member, MemberSet) # {}
  BY DEF StoreInv, Serving
<1>6. ASSUME UNCHANGED <<cur, deleted>>, members' # <<>>, InService(member', MemberSet') # {},
             \A u \in Slots : store'[u] = store[u] \/ store'[u] = cur,
             \A u \in MemberSet' : member'[u].state = "active" => store'[u] = cur
      PROVE  Goal
  <2>1. Settled
    BY <1>1, <1>6 DEF Settled
  <2> QED BY <2>1, SettledStep
\* Steps that return nobody and change no store.
<1>7. ASSUME UNCHANGED <<cur, deleted, store, members>>, members # <<>>,
             InService(member', MemberSet) # {},
             \A u \in MemberSet : member'[u].state = "active" => member[u].state = "active"
      PROVE  Goal
  <2>1. MemberSet' = MemberSet
    BY <1>7 DEF MemberSet
  <2>2. \A u \in MemberSet' : member'[u].state = "active" => store'[u] = cur
    BY <1>2, <1>7, <2>1
  <2> QED BY <1>6, <1>7, <2>1, <2>2
<1>8. ASSUME UNCHANGED <<cur, deleted, store, members>>, members # <<>>,
             \A u \in MemberSet : member'[u].state = member[u].state
      PROVE  Goal
  <2>1. InService(member', MemberSet) # {}
    BY <1>5, <1>8 DEF InService
  <2> QED BY <1>7, <1>8, <2>1
<1>9. ~DeleteGroup
  BY DEF DeleteGroup, Calm
<1>10. CASE SynchronizeGroup
  <2>1. PICK src \in Available(member, MemberSet) : Synchronize(member, members, src)
    BY <1>10 DEF SynchronizeGroup
  <2>2. src \in MemberSet /\ member[src].state = "active" /\ src \in Slots /\ store[src] = cur
    BY <1>0, <1>2 DEF Available, InService
  <2>3. /\ \A u \in Slots : store'[u] = store[u] \/ store'[u] = cur
        /\ \A u \in RangeOf(members) : member'[u].state = "active" => store'[u] = cur
        /\ member'[src].state = "active"
    BY <1>0, <1>1, <2>1, <2>2, SynchronizeSettles
  <2>4. UNCHANGED <<members, cur, deleted>> /\ members # <<>> /\ MemberSet' = RangeOf(members)
    BY <1>10 DEF SynchronizeGroup, MemberSet
  <2>5. InService(member', MemberSet') # {}
    BY <2>2, <2>3, <2>4 DEF InService, MemberSet
  <2> QED BY <1>6, <2>3, <2>4, <2>5
<1>11. CASE RouteOperation
  <2>1. PICK s \in Available(member, MemberSet) : member' = RoutedMember(s)
    BY <1>11 DEF RouteOperation
  <2>2. s \in MemberSet /\ s \in Slots
    BY <1>0, <2>1 DEF Available, InService
  <2>3. \A u \in MemberSet : member'[u].state = member[u].state
    BY <1>0, <2>1, <2>2, RoutedEntries
  <2>4. UNCHANGED <<cur, deleted, store, members>>
    BY <1>11 DEF RouteOperation
  <2> QED BY <1>4, <1>8, <2>2, <2>3, <2>4
<1>12. ASSUME NEW s \in Slots, CreateGroup(s) PROVE Goal
  <2>1. /\ members = <<>> /\ members' = <<s>> /\ member' = [member EXCEPT ![s] = NewMember]
        /\ deleted' = {} /\ cur' = store[s] /\ store' = store
    BY <1>12 DEF CreateGroup
  <2>2. deleted = {} /\ \A k \in Keys : cur[k] = 0 /\ \A u \in Slots : store[u][k] = 0
    BY <2>1 DEF StoreInv, Fresh
  <2>3. \A u \in Slots : store[u] = cur
    BY <1>0, <2>2 DEF StoreType
  <2>4. cur' = cur /\ deleted' = deleted /\ MemberSet' = {s}
    BY <2>1, <2>2, <2>3 DEF MemberSet, RangeOf
  <2>5. member'[s].state = "active"
    BY <1>0, <2>1 DEF NewMember
  <2>6. InService(member', MemberSet') # {}
    BY <2>4, <2>5 DEF InService
  <2> QED BY <1>0, <1>6, <2>1, <2>3, <2>4, <2>6
<1>13. ASSUME NEW s \in Slots PROVE ~AddMember(s)
  BY DEF AddMember, Calm
<1>14. ASSUME NEW s \in Slots, AddMemberSync(s) PROVE Goal
  <2> DEFINE mem == [member EXCEPT ![s] = Admitted(s)]
             ms == Append(members, s)
  <2>1. PICK src \in Available(mem, RangeOf(ms)) :
          IsFirst(ms, Available(mem, RangeOf(ms)), src) /\ Synchronize(mem, ms, src)
    BY <1>14 DEF AddMemberSync
  <2>2. /\ s \notin MemberSet /\ members # <<>> /\ members' = ms /\ UNCHANGED <<cur, deleted>>
    BY <1>14 DEF AddMemberSync, MayJoin
  <2>3. ms \in Seq(Slots) /\ RangeOf(ms) = MemberSet \cup {s} /\ ms # <<>>
    BY <1>0, AppendRange DEF MemberSet
  <2>4. MemOK(mem)
    <3>1. NewMember \in Member /\ ~NewMember.partitioned
      BY HAAssumption DEF NewMember, Member
    <3>2. Admitted(s) \in Member /\ ~Admitted(s).partitioned
      BY <3>1 DEF Admitted, Member
    <3> QED BY <1>0, <3>2 DEF MemOK
  <2>5. \A u \in MemberSet : mem[u] = member[u]
    BY <1>0, <2>2
  <2>6. PICK t \in MemberSet : member[t].state = "active" /\ ~member[t].partitioned
    BY <1>0, <1>5, <2>2 DEF InService, MemOK
  <2>7. t \in Available(mem, RangeOf(ms))
    BY <2>3, <2>5, <2>6 DEF Available, InService
  <2>8. src # s
    <3> HIDE DEF mem
    <3> QED BY <1>0, <2>1, <2>2, <2>6, <2>7, OldFirst DEF MemberSet
  <2> HIDE DEF mem, ms
  <2>9. src \in MemberSet /\ src \in Slots /\ mem[src].state = "active" /\ store[src] = cur
    BY <1>0, <1>2, <2>1, <2>3, <2>5, <2>8 DEF Available, InService
  <2>10. /\ \A u \in Slots : store'[u] = store[u] \/ store'[u] = cur
         /\ \A u \in RangeOf(ms) : member'[u].state = "active" => store'[u] = cur
         /\ member'[src].state = "active"
    BY <1>0, <1>1, <2>1, <2>3, <2>4, <2>9, SynchronizeSettles
  <2>11. MemberSet' = RangeOf(ms)
    BY <2>2 DEF MemberSet
  <2>12. InService(member', MemberSet') # {}
    BY <2>3, <2>9, <2>10, <2>11 DEF InService
  <2> QED BY <1>6, <2>2, <2>3, <2>10, <2>11, <2>12
<1>15. ASSUME NEW s \in Slots, RemoveMember(s) PROVE Goal
  <2>1. PICK i \in DOMAIN members :
          /\ members[i] = s
          /\ members' = [j \in 1..(Len(members) - 1) |-> IF j < i THEN members[j] ELSE members[j + 1]]
    BY <1>15 DEF RemoveMember
  <2>2. /\ Len(members) > 1 /\ Survives({s}) /\ UNCHANGED <<cur, deleted, store>>
        /\ member' = [member EXCEPT ![s] = NewMember]
    BY <1>15 DEF RemoveMember
  <2>3. MemberSet' = MemberSet \ {s}
    BY <1>0, <2>1, <2>2, RemovedGone DEF TypeOK
  <2>4. \A u \in MemberSet' : member'[u] = member[u]
    BY <1>0, <2>2, <2>3
  <2>5. InService(member', MemberSet') # {}
    BY <1>3, <2>2, <2>3, <2>4 DEF InService
  <2>6. members' # <<>>
    BY <2>5 DEF InService, MemberSet, RangeOf
  <2> QED BY <1>2, <1>6, <2>2, <2>3, <2>4, <2>5, <2>6
<1>16. ASSUME NEW s \in Slots, FailMember(s) \/ PartitionMember(s) PROVE Goal
  <2>1. PICK np \in BOOLEAN : Fail(member, group, s, np)
    BY <1>0, <1>16 DEF FailMember, PartitionMember, Member
  <2>2. /\ s \in MemberSet /\ Survives({s}) /\ UNCHANGED <<cur, deleted, store, members>>
    BY <1>16 DEF FailMember, PartitionMember
  <2>3. \A u \in Slots : /\ member'[u].state = IF u = s THEN "unavailable" ELSE member[u].state
                         /\ member'[u].partitioned = IF u = s THEN np ELSE member[u].partitioned
    BY <1>0, <2>1, FailStates
  <2>4. InService(member', MemberSet) # {}
    BY <1>0, <1>3, <2>2, <2>3 DEF InService
  <2> QED BY <1>0, <1>4, <1>7, <2>2, <2>3, <2>4
<1>17. ASSUME NEW s \in MemberSet, NEW mem, MemOK(mem), Recover(mem, s), Survives({s}),
              \A u \in MemberSet \ {s} : mem[u].state = member[u].state,
              UNCHANGED <<cur, deleted, members>>
       PROVE  Goal
  <2>1. InService(member, MemberSet \ {s}) # {} /\ s \in Slots
    BY <1>0, <1>3, <1>17
  <2>2. /\ \A u \in Slots : store'[u] = store[u] \/ store'[u] = cur
        /\ \A u \in MemberSet \ {s} : member'[u].state = member[u].state
        /\ \A u \in MemberSet : member'[u].state = "active" => store'[u] = cur
    BY <1>1, <1>17, <2>1, RecoverSettles
  <2>3. MemberSet' = MemberSet
    BY <1>17 DEF MemberSet
  <2>4. InService(member', MemberSet') # {}
    BY <2>1, <2>2, <2>3 DEF InService
  <2> QED BY <1>4, <1>6, <1>17, <2>2, <2>3, <2>4
<1>18. ASSUME NEW s \in Slots, RestoreMember(s) PROVE Goal
  <2> DEFINE mem == [member EXCEPT ![s] = [@ EXCEPT !.partitioned = FALSE, !.state = "recovering"]]
  <2>1. [member[s] EXCEPT !.partitioned = FALSE, !.state = "recovering"] \in Member
    BY <1>0 DEF Member
  <2>2. /\ MemOK(mem) /\ mem[s].state = "recovering" /\ \A u \in Slots \ {s} : mem[u] = member[u]
    BY <1>0, <2>1 DEF MemOK, Member
  <2>3. /\ s \in MemberSet /\ Survives({s}) /\ UNCHANGED <<cur, deleted, members>>
        /\ Recover(mem, s) \/ (member' = mem /\ store' = store)
    BY <1>18 DEF RestoreMember
  <2> HIDE DEF mem
  <2>4. CASE Recover(mem, s)
    BY <1>0, <1>17, <2>2, <2>3, <2>4
  <2>5. CASE member' = mem /\ store' = store
    <3>1. InService(member', MemberSet) # {}
      BY <1>0, <1>3, <2>2, <2>3, <2>5 DEF InService
    <3>2. \A u \in MemberSet : member'[u].state = "active" => member[u].state = "active"
      BY <1>0, <2>2, <2>5
    <3> QED BY <1>4, <1>7, <2>3, <2>5, <3>1, <3>2
  <2> QED BY <2>3, <2>4, <2>5
<1>19. ASSUME NEW s \in Slots, RecoverMember(s) PROVE Goal
  BY <1>0, <1>17, <1>19 DEF RecoverMember
<1>20. ASSUME NEW s \in Slots, NEW f \in Firmwares, SetFirmware(s, f) PROVE Goal
  <2>1. \A u \in Slots : member'[u].state = member[u].state
    BY <1>0, <1>20 DEF SetFirmware, Member
  <2> QED BY <1>0, <1>4, <1>8, <1>20, <2>1 DEF SetFirmware
<1>21. ASSUME NEW s \in Slots, NEW p \in Policies, SetPolicy(s, p) PROVE Goal
  BY <1>21, ElsewhereStep DEF SetPolicy, Calm
<1>22. ASSUME NEW m \in Modes, SetMode(m) PROVE Goal
  <2>1. \A u \in Slots : member'[u].state = member[u].state
    BY <1>0, <1>22 DEF SetMode, Member
  <2> QED BY <1>0, <1>8, <1>22, <2>1 DEF SetMode
<1>23. ASSUME \/ \E r \in RecoveryModes : SetRecoveryMode(r)
              \/ \E n \in RetryCounts : SetRetry(n)
              \/ \E i \in Intervals : SetInterval(i)
       PROVE  Goal
  BY <1>23, ElsewhereStep DEF SetRecoveryMode, SetRetry, SetInterval
<1> QED BY <1>9, <1>10, <1>11, <1>12, <1>13, <1>14, <1>15, <1>16, <1>18, <1>19, <1>20, <1>21, <1>22, <1>23
        DEF Administer

\* Undisturbed, a call is routed and executed in one step, on a member that is
\* still in service when its replication starts.
LEMMA CalmCall ==
  ASSUME Calm, Inv
  PROVE  /\ call.pc = "run" => call.slot = None
         /\ \A s \in Slots : ~CallRoute(s)
         /\ \A s \in Slots : Executes(s) => /\ Running /\ Routed(Eligible, s)
                                           /\ CallMember(s) = RoutedMember(s)
                                           /\ CallGroup = RoutedGroup(Eligible)
         /\ call.pc \in {"record", "sync"} => call.slot \in Available(member, MemberSet)
<1>1. "shell" \notin Hazards
  BY DEF Calm
<1>2. /\ call.pc = "run" => call.slot = None
      /\ call.pc \in {"record", "sync"} => call.slot \in Available(member, MemberSet)
  BY <1>1 DEF Inv, OneShell
<1> QED BY <1>1, <1>2 DEF CallRoute, Executes, Running, CallMember, CallGroup

LEMMA CallStep ==
  ASSUME Calm, Inv, StoreInv, Written, Begin \/ Proceed
  PROVE  StoreInv' /\ Careful /\ LogicalStep
<1> DEFINE Goal == StoreInv' /\ Careful /\ LogicalStep
<1>0. /\ TypeOK /\ MemOK(member) /\ members \in Seq(Slots) /\ store \in StoreType
      /\ member \in [Slots -> Member] /\ MemberSet \subseteq Slots /\ CallKeys
      /\ call \in Call /\ cur \in [Keys -> Versions]
  BY InvMemOK, RangeType DEF TypeOK, MemberSet, StoreType, MemOK
<1>1. /\ members # <<>> /\ members' = members /\ MemberSet' = MemberSet
      /\ InService(member, MemberSet) # {}
  <2>1. members # <<>> /\ members' = members
    BY DEF StoreInv, Fresh, Quiet, Begin, CallBegin, Proceed, CallNoMember, CallPollFails, CallRecord,
           CallSync, CallPoll, CallRoute, CallAnswer, CallDeviceError, CallWrite, CallDestroy,
           Executes, Running
  <2> QED BY <2>1 DEF MemberSet, StoreInv, Serving
<1>2. call.pc \in {"idle", "run"} => \A u \in MemberSet : member[u].state = "active" => store[u] = cur
  BY DEF StoreInv, Agreed, InService
<1>3. ASSUME UNCHANGED <<cur, top, deleted, store>>,
             call.pc \in {"idle", "run"}, call'.pc \in {"idle", "run"},
             InService(member', MemberSet) # {},
             \A u \in MemberSet : member'[u].state = "active" => member[u].state = "active",
             call'.pc = "run" => \A s \in call'.todo : s \in MemberSet /\ member'[s].state # "active"
      PROVE  Goal
  <2>1. \A u \in MemberSet' : member'[u].state = "active" => store'[u] = cur
    BY <1>1, <1>2, <1>3
  <2>2. Settled
    BY <1>1, <1>3, <2>1 DEF Settled
  <2> QED BY <2>2, SettledStep
<1>4. ASSUME NEW op \in Ops, NEW k \in Keys \cup {None}, CallBegin(op, k)
      PROVE  Goal
  <2>1. call.pc = "idle" /\ UNCHANGED <<member, cur, top, deleted, store>>
    BY <1>4 DEF CallBegin, Quiet
  <2>2. PICK T \in SUBSET {s \in MemberSet : Pollable(s)} :
          call' = [Idle EXCEPT !.pc = "run", !.op = op, !.key = k, !.todo = T]
    <3>1. PICK due : call' = [Idle EXCEPT !.pc = "run", !.op = op, !.key = k, !.todo =
                                IF group.recovery = "automatic"
                                THEN {s \in MemberSet \cap due : Pollable(s)} ELSE {}]
      BY <1>4 DEF CallBegin
    <3>2. {s \in MemberSet \cap due : Pollable(s)} \in SUBSET {s \in MemberSet : Pollable(s)}
      OBVIOUS
    <3> QED BY <3>1, <3>2
  <2>3. call'.pc = "run" /\ call'.todo = T
    BY <2>2 DEF Idle
  <2>4. \A s \in T : s \in MemberSet /\ member[s].state # "active"
    BY DEF Pollable
  <2> QED BY <1>1, <1>3, <2>1, <2>3, <2>4
<1>5. ASSUME NEW s \in Slots, CallPoll(s) PROVE Goal
  <2> DEFINE mem == [member EXCEPT ![s].retry = Bump(@)]
  <2>1. MemOK(mem)
    BY <1>0, RetryOK
  <2>2. \A u \in Slots : mem[u].state = member[u].state
    BY <1>0 DEF Member
  <2>3. /\ call.pc = "run" /\ s \in call.todo /\ Recover(mem, s) /\ UNCHANGED <<cur, top, deleted>>
        /\ call' = [call EXCEPT !.todo = @ \ {s}]
    BY <1>5 DEF CallPoll
  <2> HIDE DEF mem
  <2>4. \A u \in call.todo : u \in MemberSet /\ member[u].state # "active"
    BY <2>3 DEF StoreInv, Due
  <2>5. InService(member, MemberSet) \subseteq MemberSet \ {s}
    BY <2>3, <2>4 DEF InService
  <2>6. InService(member, MemberSet \ {s}) # {}
    BY <1>1, <2>5 DEF InService
  <2>7. /\ \A u \in Slots : store'[u] = store[u] \/ store'[u] = cur
        /\ \A u \in MemberSet \ {s} : member'[u].state = member[u].state
        /\ \A u \in MemberSet : member'[u].state = "active" => store'[u] = cur
    BY <1>0, <2>1, <2>2, <2>3, <2>6, RecoverSettles
  <2>8. InService(member', MemberSet') # {}
    BY <1>1, <2>6, <2>7 DEF InService
  <2>9. call'.pc = "run" /\ call'.todo = call.todo \ {s}
    BY <1>0, <2>3 DEF Call
  <2>10. Settled
    BY <1>1, <2>3, <2>4, <2>7, <2>8, <2>9 DEF Settled
  <2> QED BY <2>10, SettledStep
<1>6. CASE CallNoMember \/ CallPollFails
  <2>1. call.pc = "run" /\ call'.pc = "idle" /\ UNCHANGED <<member, cur, top, deleted, store>>
    BY <1>6 DEF CallNoMember, CallPollFails, Running, Idle
  <2> QED BY <1>1, <1>3, <2>1
\* What routing settles: the routed member serves and holds cur.
<1>7. ASSUME NEW s \in Slots, Running, Routed(Eligible, s)
      PROVE  /\ s \in MemberSet /\ member[s].state = "active" /\ store[s] = cur
             /\ call.op \in {"use", "update", "destroy"} => cur[call.key] > 0
             /\ \A u \in Slots : RoutedMember(s)[u].state = member[u].state
             /\ InService(RoutedMember(s), MemberSet) # {}
  <2>1. s \in Eligible
    BY <1>7 DEF Routed, IsFirst
  <2>2. /\ s \in MemberSet /\ member[s].state = "active"
        /\ call.op \in {"use", "update", "destroy"} => store[s][call.key] > 0
    BY <2>1 DEF Eligible, Available, InService
  <2>3. store[s] = cur
    BY <1>2, <1>7, <2>2 DEF Running
  <2>4. \A u \in Slots : RoutedMember(s)[u].state = member[u].state
    BY <1>0, RoutedEntries
  <2>5. s \in InService(RoutedMember(s), MemberSet)
    BY <2>2, <2>4 DEF InService
  <2> QED BY <2>2, <2>3, <2>4, <2>5
<1>8. ASSUME NEW s \in Slots, CallAnswer(s) PROVE Goal
  <2>1. /\ Running /\ Routed(Eligible, s) /\ call.pc = "run" /\ call'.pc = "idle"
        /\ member' = RoutedMember(s) /\ UNCHANGED <<cur, top, deleted, store>>
    BY <1>8, CalmCall DEF CallAnswer, Running, Idle
  <2> QED BY <1>0, <1>3, <1>7, <2>1
<1>9. ASSUME NEW s \in Slots, CallDeviceError(s) PROVE Goal
  <2>1. /\ Running /\ Routed(Eligible, s) /\ call.pc = "run" /\ call.todo = {} /\ Survives({s})
        /\ call' = [call EXCEPT !.excluded = @ \cup {s}, !.slot = None]
        /\ UNCHANGED <<cur, top, deleted, store>>
    BY <1>9, CalmCall DEF CallDeviceError, Running
  <2>8. Fail(RoutedMember(s), RoutedGroup(Eligible), s, member[s].partitioned)
    BY <1>7, <1>9, <2>1, CalmCall DEF CallDeviceError
  <2>2. call'.pc = "run" /\ call'.todo = {}
    BY <1>0, <2>1 DEF Call
  <2>3. RoutedMember(s) \in [Slots -> Member] /\ member[s].partitioned \in BOOLEAN
    BY <1>0, RoleOK DEF RoutedMember, MemOK, Member
  <2>4. \A u \in Slots : member'[u].state = IF u = s THEN "unavailable" ELSE RoutedMember(s)[u].state
    BY <1>0, <2>3, <2>8, FailStates
  <2>5. \A u \in Slots : member'[u].state = IF u = s THEN "unavailable" ELSE member[u].state
    BY <1>7, <2>1, <2>4
  <2>6. InService(member, MemberSet \ {s}) # {}
    BY <2>1 DEF Survives, Calm
  <2>7. InService(member', MemberSet) # {}
    BY <1>0, <2>5, <2>6 DEF InService
  <2> QED BY <1>0, <1>3, <2>1, <2>2, <2>5, <2>7
<1>10. ASSUME NEW s \in Slots, CallWrite(s) PROVE Goal
  <2> DEFINE k == call.key
             v == top[k] + 1
  <2>1. /\ Running /\ Routed(Eligible, s) /\ call.pc = "run" /\ k \in Keys
        /\ call.op \in {"create", "update"} /\ member' = RoutedMember(s) /\ deleted' = deleted
        /\ store' = [store EXCEPT ![s][k] = v]
        /\ top' = [top EXCEPT ![k] = v] /\ cur' = [cur EXCEPT ![k] = v]
        /\ call'.pc = "sync" /\ call'.slot = s
    BY <1>0, <1>10, CalmCall DEF CallWrite, Running, CallKeys, Call
  <2>2. store[s] = cur /\ InService(member', MemberSet') # {}
    BY <1>1, <1>7, <2>1
  <2>3. /\ cur \in [Keys -> Nat] /\ top \in [Keys -> Nat] /\ store \in [Slots -> [Keys -> Nat]]
        /\ deleted \subseteq Keys
    BY <1>0, HAAssumption DEF TypeOK, StoreType, Versions
  <2>4. call.op = "create" => top[k] = 0
    BY <1>10 DEF CallWrite
  <2>5. k \notin deleted /\ (top[k] = 0 \/ cur[k] > 0)
    <3>1. CASE call.op = "create"
      BY <2>3, <2>4, <3>1 DEF Written
    <3>2. CASE call.op = "update"
      BY <1>7, <2>1, <3>2 DEF StoreInv, Buried
    <3> QED BY <2>1, <3>1, <3>2
  <2>6. v \in Nat /\ v > 0 /\ v > top[k]
    BY <2>1, <2>3
  <2> HIDE DEF v, k
  <2>7. store'[s] = cur'
    BY <2>1, <2>2, <2>3
  <2>8. Fresh' /\ Serving' /\ Agreed' /\ Due'
    BY <1>1, <2>1, <2>2, <2>7 DEF Fresh, Serving, Agreed, Due
  <2>9. Buried'
    <3>1. \A x \in deleted : cur'[x] = 0
      BY <2>1, <2>3, <2>5 DEF StoreInv, Buried
    <3>2. ASSUME NEW u \in Slots, NEW x \in Keys, cur'[x] = 0, store'[u][x] > 0
          PROVE  x \in deleted
      <4>1. x # k
        BY <2>1, <2>3, <2>6, <3>2
      <4>2. cur[x] = 0 /\ store[u][x] > 0
        BY <2>1, <2>3, <3>2, <4>1
      <4> QED BY <2>1, <4>2 DEF StoreInv, Buried
    <3> QED BY <2>1, <3>1, <3>2 DEF Buried
  <2>10. ASSUME NEW x \in Keys
         PROVE  /\ \A u \in Slots : store'[u][x] <= top'[x]
                /\ cur'[x] > 0 => cur'[x] = top'[x]
    <3>1. /\ \A u \in Slots : store[u][x] <= top[x]
          /\ cur[x] > 0 => cur[x] = top[x]
      BY DEF StoreInv, Dated
    <3>2. CASE x = k
      <4>1. top'[x] = v /\ cur'[x] = v
        BY <2>1, <2>3, <3>2
      <4>2. ASSUME NEW u \in Slots PROVE store'[u][x] = v \/ store'[u][x] = store[u][x]
        BY <2>1, <2>3, <3>2
      <4>3. ASSUME NEW u \in Slots PROVE store[u][x] \in Nat /\ top[k] \in Nat
        BY <2>1, <2>3
      <4> QED BY <2>6, <3>1, <3>2, <4>1, <4>2, <4>3
    <3>3. CASE x # k
      BY <2>1, <2>3, <3>1, <3>3
    <3> QED BY <3>2, <3>3
  <2>11. Dated'
    BY <2>10 DEF Dated
  <2>12. ASSUME NEW u \in Slots, NEW x \in Keys
         PROVE  /\ top[x] > 0 /\ cur[x] = 0 /\ store[u][x] = 0 => store'[u][x] = 0
                /\ store'[u][x] >= store[u][x]
    <3>1. store[u][x] \in Nat /\ store[u][x] <= top[x] /\ top[x] \in Nat
      BY <2>3 DEF StoreInv, Dated
    <3>2. store'[u][x] = IF u = s /\ x = k THEN v ELSE store[u][x]
      BY <2>1, <2>3
    <3>3. x = k => (top[x] = 0 \/ cur[x] > 0) /\ v > top[x]
      BY <2>5, <2>6
    <3> QED BY <2>6, <3>1, <3>2, <3>3
  <2>13. Careful
    BY <2>12 DEF Careful
  <2>14. LogicalStep
    BY <2>1, <2>3, <2>5 DEF LogicalStep, v
  <2> QED BY <2>8, <2>9, <2>11, <2>13, <2>14 DEF StoreInv
<1>11. ASSUME NEW s \in Slots, CallDestroy(s) PROVE Goal
  <2> DEFINE k == call.key
  <2>1. /\ Running /\ Routed(Eligible, s) /\ call.pc = "run" /\ k \in Keys /\ call.op = "destroy"
        /\ member' = RoutedMember(s) /\ deleted' = deleted /\ top' = top
        /\ store' = [store EXCEPT ![s][k] = 0] /\ cur' = [cur EXCEPT ![k] = 0]
        /\ call'.pc = "record" /\ call'.slot = s /\ call'.key = k
    BY <1>0, <1>11, CalmCall DEF CallDestroy, Running, CallKeys, Call
  <2>2. store[s] = cur /\ InService(member', MemberSet') # {} /\ cur[k] > 0
    BY <1>1, <1>7, <2>1
  <2>3. /\ cur \in [Keys -> Nat] /\ top \in [Keys -> Nat] /\ store \in [Slots -> [Keys -> Nat]]
        /\ deleted \subseteq Keys
    BY <1>0, HAAssumption DEF TypeOK, StoreType, Versions
  <2> HIDE DEF k
  <2>4. store'[s] = cur'
    BY <2>1, <2>2, <2>3
  <2>5. Fresh' /\ Serving' /\ Agreed' /\ Due'
    BY <1>1, <2>1, <2>2, <2>4 DEF Fresh, Serving, Agreed, Due
  <2>6. \A x \in Keys : cur'[x] = IF x = k THEN 0 ELSE cur[x]
    BY <2>1, <2>3
  <2>7. \A u \in Slots, x \in Keys : store'[u][x] = IF u = s /\ x = k THEN 0 ELSE store[u][x]
    BY <2>1, <2>3
  <2>8. Buried'
    <3>1. \A x \in deleted : cur'[x] = 0
      BY <2>3, <2>6 DEF StoreInv, Buried
    <3>2. ASSUME NEW u \in Slots, NEW x \in Keys, cur'[x] = 0, store'[u][x] > 0
          PROVE  x \in deleted \/ x = k
      BY <2>1, <2>6, <2>7, <3>2 DEF StoreInv, Buried
    <3> QED BY <2>1, <2>6, <3>1, <3>2 DEF Buried
  <2>9. Dated'
    <3> SUFFICES ASSUME NEW x \in Keys
                 PROVE  /\ \A u \in Slots : store'[u][x] <= top'[x]
                        /\ cur'[x] > 0 => cur'[x] = top'[x]
      BY DEF Dated
    <3>1. /\ \A u \in Slots : store[u][x] <= top[x]
          /\ cur[x] > 0 => cur[x] = top[x]
          /\ top[x] \in Nat
      BY <2>3 DEF StoreInv, Dated
    <3> QED BY <2>1, <2>6, <2>7, <3>1
  <2>10. Careful
    <3> SUFFICES ASSUME NEW u \in Slots, NEW x \in Keys
                 PROVE  /\ top[x] > 0 /\ cur[x] = 0 /\ store[u][x] = 0 => store'[u][x] = 0
                        /\ cur'[x] > 0 => store'[u][x] >= store[u][x]
      BY DEF Careful
    <3>1. store[u][x] \in Nat
      BY <2>3
    <3> QED BY <2>6, <2>7, <3>1
  <2>11. LogicalStep
    BY <2>1, <2>2 DEF LogicalStep
  <2> QED BY <2>5, <2>8, <2>9, <2>10, <2>11 DEF StoreInv
<1>12. CASE CallRecord
  <2>1. /\ call.pc = "record" /\ call'.pc = "sync" /\ call'.slot = call.slot
        /\ deleted' = deleted \cup {call.key} /\ UNCHANGED <<member, store, top, cur>>
    BY <1>0, <1>1, <1>12 DEF CallRecord, Call
  <2>2. store \in [Slots -> [Keys -> Nat]]
    BY <1>0, HAAssumption DEF StoreType, Versions
  <2>3. Fresh' /\ Serving' /\ Agreed' /\ Due' /\ Dated'
    BY <1>1, <2>1 DEF StoreInv, Fresh, Serving, Agreed, Due, Dated
  <2>4. Buried'
    BY <2>1 DEF StoreInv, Buried
  <2>5. Careful /\ LogicalStep
    BY <2>1, <2>2 DEF Careful, LogicalStep
  <2> QED BY <2>3, <2>4, <2>5 DEF StoreInv
<1>13. CASE CallSync
  <2>1. /\ call.pc = "sync" /\ call.slot \in Available(member, MemberSet)
        /\ Synchronize(member, members, call.slot) /\ call'.pc = "idle"
        /\ UNCHANGED <<cur, top, deleted>>
    BY <1>13, CalmCall DEF CallSync, Idle
  <2>2. /\ call.slot \in MemberSet /\ call.slot \in Slots /\ member[call.slot].state = "active"
        /\ store[call.slot] = cur
    BY <1>0, <2>1 DEF Available, InService, StoreInv, Agreed
  <2>3. /\ \A u \in Slots : store'[u] = store[u] \/ store'[u] = cur
        /\ \A u \in RangeOf(members) : member'[u].state = "active" => store'[u] = cur
        /\ member'[call.slot].state = "active"
    BY <1>0, <2>1, <2>2, SynchronizeSettles
  <2>4. InService(member', MemberSet') # {}
    BY <1>1, <2>2, <2>3 DEF InService
  <2>5. Settled
    BY <1>1, <2>1, <2>3, <2>4 DEF Settled, MemberSet
  <2> QED BY <2>5, SettledStep
<1> QED BY <1>4, <1>5, <1>6, <1>8, <1>9, <1>10, <1>11, <1>12, <1>13, CalmCall DEF Begin, Proceed

LEMMA CalmStep ==
  ASSUME Calm, Inv, StoreInv, Written, [Next]_vars
  PROVE  StoreInv' /\ Careful /\ LogicalStep
<1>1. CASE UNCHANGED vars
  BY <1>1, ElsewhereStep DEF vars
<1>2. ~Crash /\ \A s \in Slots, k \in Keys : ~DirectWrite(s, k)
  BY DEF Crash, DirectWrite, Calm
<1> QED BY <1>1, <1>2, AdministerStep, CallStep DEF Next

LEMMA SpecWritten == Spec => []Written
<1>1. Init => Written
  BY DEF Init, Written, Idle
<1>2. Inv /\ Written /\ [Next]_vars => Written'
  BY StepKeepsTombstones
<1> QED BY <1>1, <1>2, SpecInv, PTL DEF Spec

LEMMA InitStore == Init => StoreInv
  BY DEF Init, StoreInv, Fresh, Serving, Agreed, Buried, Due, Dated, Quiet, Idle, InService, MemberSet, RangeOf

LEMMA SpecStore == ASSUME Calm PROVE Spec => []StoreInv
<1>1. Inv /\ Written /\ StoreInv /\ [Next]_vars => StoreInv'
  BY CalmStep
<1> QED BY <1>1, InitStore, SpecInv, SpecWritten, PTL DEF Spec

\* Between two calls every member in service holds exactly what the application
\* last wrote, for every number of members and keys, every mix of firmware and
\* policies that allow cloning, in both routing and both recovery modes
\* (deployment.py synchronize_ha_group, recover_ha_member, ha.py HAClient.call).
THEOREM AlwaysOneCopy == ASSUME Calm PROVE Spec => []OneCopy
<1>1. StoreInv => OneCopy
  BY DEF StoreInv, Agreed, OneCopy, Quiet
<1> QED BY <1>1, SpecStore, PTL

\* A destroyed key never comes back to a slot that does not hold it, be it by a
\* member that was away or by one that joins (deployment.py _apply_deletions).
THEOREM AlwaysDestroyedStaysDestroyed == ASSUME Calm PROVE Spec => DestroyedStaysDestroyed
<1>1. Inv /\ Written /\ StoreInv /\ [Next]_vars
        => [\A s \in Slots, k \in Keys :
              top[k] > 0 /\ cur[k] = 0 /\ store[s][k] = 0 => store'[s][k] = 0]_vars
  BY CalmStep DEF Careful
<1> QED BY <1>1, SpecStore, SpecInv, SpecWritten, PTL DEF Spec, DestroyedStaysDestroyed

\* While a member stays in service, no member's copy goes back to an older
\* write: HAGroupOutage shows that the group does undo writes once every member
\* was out of service (deployment.py recover_ha_member picks the source).
THEOREM NeverOlderInService == ASSUME Calm PROVE Spec => NeverOlder
<1>1. Inv => MemberSet \subseteq Slots
  BY RangeType DEF Inv, TypeOK, MemberSet
<1>2. Inv /\ Written /\ StoreInv /\ [Next]_vars
        => [\A s \in MemberSet \cap MemberSet', k \in Keys :
              cur'[k] > 0 => store'[s][k] >= store[s][k]]_vars
  BY <1>1, CalmStep DEF Careful
<1> QED BY <1>2, SpecStore, SpecInv, SpecWritten, PTL DEF Spec, NeverOlder

-----------------------------------------------------------------------------
(* The group implements one key store.                                     *)

LEMMA ViewIsCur ==
  ASSUME Inv, StoreInv
  PROVE  View = cur
<1>1. CASE call.pc \in {"record", "sync"}
  BY <1>1 DEF View, StoreInv, Agreed
<1>2. CASE call.pc \notin {"record", "sync"} /\ members = <<>>
  <2>1. cur \in [Keys -> Versions] /\ \A k \in Keys : cur[k] = 0
    BY <1>2 DEF Inv, TypeOK, StoreInv, Fresh
  <2>2. cur = [k \in Keys |-> 0]
    BY <2>1
  <2> QED BY <1>2, <2>2 DEF View
<1>3. CASE call.pc \notin {"record", "sync"} /\ members # <<>>
  <2> DEFINE u == CHOOSE s \in InService(member, MemberSet) : TRUE
  <2>1. u \in InService(member, MemberSet)
    BY <1>3 DEF StoreInv, Serving
  <2>2. call.pc \in {"idle", "run"}
    BY <1>3 DEF Inv, TypeOK, Call
  <2>3. View = store[u]
    BY <1>3 DEF View
  <2> HIDE DEF u
  <2> QED BY <2>1, <2>2, <2>3 DEF StoreInv, Agreed
<1> QED BY <1>1, <1>2, <1>3

\* The virtual slot looks like one key store: failover, recovery, polling,
\* synchronisation and changes of the membership are invisible, and every other
\* step is one write or one destruction (README "High Availability").
THEOREM ImplementsOneStore == ASSUME Calm PROVE Spec => LooksLikeOneStore
<1>1. Init => Logical!Init
  <2> SUFFICES ASSUME Init PROVE Logical!Init
    OBVIOUS
  <2>1. View = cur
    BY InitInv, InitStore, ViewIsCur
  <2> QED BY <2>1 DEF Init, Logical!Init
<1>2. Inv /\ StoreInv => View = cur
  BY ViewIsCur
<1>3. Inv /\ Written /\ StoreInv /\ View = cur /\ (View = cur)' /\ [Next]_vars
        => [Logical!Next]_<<View, top>>
  <2> SUFFICES ASSUME Inv, Written, StoreInv, View = cur, (View = cur)', [Next]_vars
               PROVE  [Logical!Next]_<<View, top>>
    OBVIOUS
  <2>1. View = cur
    OBVIOUS
  <2>2. View' = cur'
    OBVIOUS
  <2>3. LogicalStep
    BY CalmStep
  <2>4. CASE UNCHANGED <<cur, top>>
    BY <2>1, <2>2, <2>4
  <2>5. ASSUME NEW k \in Keys, top[k] = 0 \/ cur[k] > 0,
               top' = [top EXCEPT ![k] = @ + 1], cur' = [cur EXCEPT ![k] = top[k] + 1]
        PROVE  Logical!Write(k)
    BY <2>1, <2>2, <2>5 DEF Logical!Write
  <2>6. ASSUME NEW k \in Keys, cur[k] > 0, cur' = [cur EXCEPT ![k] = 0], top' = top
        PROVE  Logical!Destroy(k)
    BY <2>1, <2>2, <2>6 DEF Logical!Destroy
  <2> QED BY <2>3, <2>4, <2>5, <2>6 DEF LogicalStep, Logical!Next
<1> QED BY <1>1, <1>2, <1>3, SpecInv, SpecStore, SpecWritten, PTL
        DEF Spec, LooksLikeOneStore, Logical!Spec

=============================================================================
