------------------------------ MODULE HAGroup ------------------------------
(***************************************************************************)
(* One high-availability group of the Luna HSM emulator: the persisted     *)
(* group record of hsm/deployment.py (membership, per-member state, role,  *)
(* synchronisation status, retry budget, tombstones), the key stores of    *)
(* the slots, and the PKCS#11 calls an application makes through the       *)
(* group's virtual slot (hsm/ha.py), one step per database commit of a     *)
(* call: poll the failed members, route and execute, record the tombstone, *)
(* synchronise.                                                            *)
(*                                                                         *)
(* A key is its cloning identity.  store[s][k] is 0 when slot s does not   *)
(* hold k and otherwise the number of the write (creation or attribute     *)
(* change) its copy results from; top[k] counts the writes of k.           *)
(*                                                                         *)
(* A shell of another process may administer the group between two commits *)
(* of a call (hazard "shell"): nothing locks the database meanwhile.  An   *)
(* administrative command is one step.                                     *)
(*                                                                         *)
(* Mutant... operators are the mistakes the properties are tried against;  *)
(* nothing in the specification uses them.                                 *)
(***************************************************************************)
EXTENDS Integers, Sequences, FiniteSets

CONSTANTS
  Slots,          \* partitions that may become members
  Keys,           \* cloning identities of persistent keys
  None,           \* "no slot" and "no key"
  Modes,          \* routing modes an operator selects
  RecoveryModes,  \* recovery modes an operator selects
  RetryCounts,    \* retry budgets an operator selects, -1 for no limit
  Intervals,      \* poll intervals an operator selects: 0, or 1 for "some time"
  Firmwares,      \* simulated member firmware versions
  BaseFirmware,   \* the firmware the appliance itself runs
  Policies,       \* fingerprints of a partition's policies
  Cloneable,      \* the fingerprints under which keys may be cloned
  MaxVersion,     \* bound: writes of one key
  MaxRetry,       \* bound: retry_attempts saturates here
  Hazards         \* what the environment may do to the group, see HazardKinds

HazardKinds ==
  {"outage",   \* every member may be out of service at once
   "crash",    \* the client process may stop between two commits of a call
   "direct",   \* applications also write to the slots behind the group
   "quota",    \* a slot may run out of storage during a write or a clone
   "regroup",  \* the group may be deleted and created again
   "bareadd",  \* a member may be added without the synchronisation (LunaCM)
   "shell"}    \* another shell administers the group while a call is in progress

ASSUME HAAssumption ==
  /\ IsFiniteSet(Slots)
  /\ None \notin Slots \cup Keys
  /\ Modes \subseteq {"round-robin", "active-standby"}
  /\ RecoveryModes \subseteq {"automatic", "manual"}
  /\ MaxVersion \in Nat /\ MaxRetry \in Nat
  /\ RetryCounts \subseteq -1..MaxRetry
  /\ Intervals \subseteq {0, 1}
  /\ BaseFirmware \in Firmwares
  /\ Cloneable \subseteq Policies
  /\ Hazards \subseteq HazardKinds

VARIABLES
  members,   \* sequence of slots, empty when the group does not exist
  member,    \* per slot, the entry it has in the group
  group,     \* the scalar fields of the group
  deleted,   \* tombstones: deleted_objects
  policy,    \* per slot, its policy fingerprint
  store,     \* per slot and key, the copy it holds
  call,      \* the application's call in progress
  top,       \* per key, the number of writes so far
  cur        \* per key, the write the application last made, 0 once destroyed

vars == <<members, member, group, deleted, policy, store, call, top, cur>>

Versions == 0..MaxVersion

Member == [state : {"active", "unavailable", "recovering", "incompatible"},
           role : {"active", "standby"},
           sync : {"current", "out-of-sync", "partial"},
           partitioned : BOOLEAN,
           retry : 0..MaxRetry,
           firmware : Firmwares]

Group == [mode : {"round-robin", "active-standby"},
          recovery : {"automatic", "manual"},
          cursor : Nat,
          limit : -1..MaxRetry,
          interval : {0, 1},
          state : {"active", "degraded"}]

Ops == {"plain", "use", "create", "update", "destroy"}

Call == [pc : {"idle", "run", "record", "sync"}, op : Ops,
         key : Keys \cup {None}, slot : Slots \cup {None},
         todo : SUBSET Slots, excluded : SUBSET Slots]

Idle == [pc |-> "idle", op |-> "plain", key |-> None, slot |-> None,
         todo |-> {}, excluded |-> {}]

NewMember == [state |-> "active", role |-> "active", sync |-> "current",
              partitioned |-> FALSE, retry |-> 0, firmware |-> BaseFirmware]

NewGroup == [mode |-> "round-robin", recovery |-> "automatic", cursor |-> 0,
             limit |-> MaxRetry, interval |-> 0, state |-> "active"]

-----------------------------------------------------------------------------
(* Helpers on the membership.  They take the member table mem as an        *)
(* argument because several handlers change it more than once.             *)

RangeOf(ms) == {ms[i] : i \in DOMAIN ms}
MemberSet == RangeOf(members)

InService(mem, S) == {s \in S : mem[s].state = "active"}
Available(mem, S) == {s \in InService(mem, S) : ~mem[s].partitioned}

\* The index of a slot in the member list, and the scans of that list.
Pos(ms, s) == CHOOSE i \in DOMAIN ms : ms[i] = s
IsFirst(ms, S, s) == s \in S /\ \A t \in S : Pos(ms, s) <= Pos(ms, t)
Rank(ms, S, s) == Cardinality({t \in S : Pos(ms, t) < Pos(ms, s)})

Compatible(mem, source, s) ==
  /\ mem[s].firmware = mem[source].firmware
  /\ policy[s] = policy[source]

\* The environment keeps one member in service unless "outage" is allowed:
\* S is what the step takes out of service.
Survives(S) == \/ "outage" \in Hazards
               \/ InService(member, MemberSet \ S) # {}

Bump(n) == IF n < MaxRetry THEN n + 1 ELSE n

MarkIncompatible(mem, S) ==
  [s \in Slots |-> IF s \in S THEN [mem[s] EXCEPT !.state = "incompatible",
                                                  !.sync = "out-of-sync"]
                              ELSE mem[s]]

MarkCurrent(mem, S) ==
  [s \in Slots |-> IF s \in S THEN [mem[s] EXCEPT !.state = "active",
                                                  !.sync = "current", !.retry = 0]
                              ELSE mem[s]]

-----------------------------------------------------------------------------
(* Replication of the key stores.                                          *)

Held(st, s) == {k \in Keys : st[s][k] > 0}

\* Tombstones kept but never applied.
MutantPurge(st, S) == st

\* _apply_deletions on the slots of S.
Purge(st, S) ==
  [s \in Slots |-> IF s \in S THEN [k \in Keys |-> IF k \in deleted THEN 0 ELSE st[s][k]]
                              ELSE st[s]]

\* What slot d holds after the keys of P were copied to it from slot s.
Overlay(st, s, d, P) == [k \in Keys |-> IF k \in P THEN st[s][k] ELSE st[d][k]]

\* Clone without the "synchronize" flag: a copy the target has is kept.
MutantClone(st, s, d) ==
  {[ok |-> TRUE, copy |-> [k \in Keys |-> IF st[d][k] = 0 THEN st[s][k] ELSE st[d][k]]]}

\* The outcomes of clone_objects(s, d, token_objects_only, synchronize): all
\* the keys are copied, or the policies forbid it, or storage runs out at a
\* key the target does not have yet and the keys copied before stay.
Clone(st, s, d) ==
  LET K == Held(st, s)
      allowed == {policy[s], policy[d]} \subseteq Cloneable
  IN  IF K # {} /\ ~allowed
      THEN {[ok |-> FALSE, copy |-> st[d]]}
      ELSE {[ok |-> TRUE, copy |-> Overlay(st, s, d, K)]}
           \cup (IF "quota" \in Hazards
                 THEN {[ok |-> FALSE, copy |-> Overlay(st, s, d, P)] :
                         P \in {Q \in SUBSET K : \E k \in K \ Q : st[d][k] = 0}}
                 ELSE {})

\* Recovery that forgets the network partition.
MutantRecover(mem, s) ==
  /\ member' = MarkCurrent(mem, {s})
  /\ UNCHANGED <<group, store>>

\* recover_ha_member on member s, from the member table mem.
Recover(mem, s) ==
  \/ /\ mem[s].partitioned
     /\ member' = mem
     /\ UNCHANGED <<group, store>>
  \/ /\ ~mem[s].partitioned /\ ~Compatible(mem, members[1], s)
     /\ member' = MarkIncompatible(mem, {s})
     /\ UNCHANGED <<group, store>>
  \/ /\ ~mem[s].partitioned /\ Compatible(mem, members[1], s)
     /\ LET others == InService(mem, MemberSet \ {s})
            back == MarkCurrent(mem, {s})
            regrouped == [group EXCEPT !.state =
                            IF InService(back, MemberSet) = MemberSet THEN "active" ELSE "degraded"]
        IN  \/ /\ others = {}
               /\ store' = Purge(store, {s})
               /\ member' = back /\ group' = regrouped
            \/ \E src \in others :
                 /\ IsFirst(members, others, src)
                 /\ \E c \in Clone(Purge(store, {src, s}), src, s) :
                      /\ store' = [Purge(store, {src, s}) EXCEPT ![s] = c.copy]
                      /\ member' = IF c.ok THEN back ELSE [mem EXCEPT ![s].sync = "partial"]
                      /\ group' = IF c.ok THEN regrouped ELSE group

\* The members a synchronisation from src copies to.
ManuallyDown(mem, s) == mem[s].state = "unavailable" /\ group.recovery = "manual"

MutantTargets(mem, ms, src) ==
  {s \in RangeOf(ms) \ {src} : ~ManuallyDown(mem, s) /\ Compatible(mem, src, s)}

Targets(mem, ms, src) ==
  {s \in RangeOf(ms) \ {src} : /\ ~mem[s].partitioned /\ ~ManuallyDown(mem, s)
                              /\ Compatible(mem, src, s)}

\* synchronize_ha_group from source src over the member list ms and table mem0.
Synchronize(mem0, ms, src) ==
  LET mem == [mem0 EXCEPT ![src].sync = "current"]
      cut == {s \in RangeOf(ms) \ {src} : mem[s].partitioned}
      down == {s \in RangeOf(ms) \ ({src} \cup cut) : ManuallyDown(mem, s)}
      targets == Targets(mem, ms, src)
      refused == RangeOf(ms) \ ({src} \cup cut \cup down \cup targets)
      purged == IF targets = {} THEN store ELSE Purge(store, targets \cup {src})
  IN  \E out \in [targets -> UNION {Clone(purged, src, t) : t \in targets}] :
        /\ \A t \in targets : out[t] \in Clone(purged, src, t)
        /\ store' = [s \in Slots |-> IF s \in targets THEN out[s].copy ELSE purged[s]]
        /\ LET failed == {t \in targets : ~out[t].ok}
               done == MarkCurrent(MarkIncompatible(mem, refused), targets \ failed)
           IN  /\ member' = [s \in Slots |->
                    IF s \in cut THEN [done[s] EXCEPT !.retry = Bump(@), !.sync = "out-of-sync"]
                    ELSE IF s \in down THEN [done[s] EXCEPT !.retry = Bump(@)]
                    ELSE IF s \in failed THEN [done[s] EXCEPT !.retry = Bump(@), !.sync = "partial"]
                    ELSE done[s]]
               /\ group' = [group EXCEPT !.state =
                    IF cut \cup down \cup refused \cup failed = {} THEN "active" ELSE "degraded"]

-----------------------------------------------------------------------------
(* Administration: lunash "ha ...", LunaCM "hagroup ...".                  *)

Quiet == call.pc = "idle"

\* With one shell, commands and calls take turns.
MayAdminister == Quiet \/ "shell" \in Hazards

\* A new group adopts what its first member holds as the application's view.
CreateGroup(s) ==
  /\ MayAdminister /\ members = <<>>
  /\ members' = <<s>>
  /\ member' = [member EXCEPT ![s] = NewMember]
  /\ \E n \in RetryCounts, i \in Intervals :
       group' = [NewGroup EXCEPT !.limit = n, !.interval = i]
  /\ deleted' = {}
  /\ cur' = store[s]
  /\ UNCHANGED <<policy, store, call, top>>

DeleteGroup ==
  /\ MayAdminister /\ members # <<>> /\ "regroup" \in Hazards
  /\ members' = <<>> /\ deleted' = {}
  /\ member' = [s \in Slots |-> NewMember] /\ group' = NewGroup
  /\ UNCHANGED <<policy, store, call, top, cur>>

\* add_ha_member up to its write of the group.
Admitted(s) ==
  [NewMember EXCEPT !.sync = "out-of-sync",
                    !.role = IF group.mode = "round-robin" THEN "active" ELSE "standby"]

\* The check for a slot that is a member already left out.
MutantMayJoin(s) ==
  /\ members # <<>>
  /\ BaseFirmware = member[members[1]].firmware
  /\ policy[s] = policy[members[1]]

MayJoin(s) ==
  /\ members # <<>> /\ s \notin MemberSet
  /\ BaseFirmware = member[members[1]].firmware
  /\ policy[s] = policy[members[1]]

\* LunaCM "hagroup addmember" stops there.
AddMember(s) ==
  /\ MayAdminister /\ "bareadd" \in Hazards /\ MayJoin(s)
  /\ members' = Append(members, s)
  /\ member' = [member EXCEPT ![s] = Admitted(s)]
  /\ UNCHANGED <<group, deleted, policy, store, call, top, cur>>

\* lunash "ha addmember" goes on to synchronise the group.
AddMemberSync(s) ==
  /\ MayAdminister /\ MayJoin(s)
  /\ members' = Append(members, s)
  /\ LET mem == [member EXCEPT ![s] = Admitted(s)]
         ms == Append(members, s)
     IN  \E src \in Available(mem, RangeOf(ms)) :
           /\ IsFirst(ms, Available(mem, RangeOf(ms)), src)
           /\ Synchronize(mem, ms, src)
  /\ UNCHANGED <<deleted, policy, call, top, cur>>

RemoveMember(s) ==
  /\ MayAdminister /\ Len(members) > 1 /\ Survives({s})
  /\ \E i \in DOMAIN members :
       /\ members[i] = s
       /\ members' = [j \in 1..(Len(members) - 1) |->
                        IF j < i THEN members[j] ELSE members[j + 1]]
  /\ member' = [member EXCEPT ![s] = NewMember]
  /\ UNCHANGED <<group, deleted, policy, store, call, top, cur>>

SetMode(m) ==
  /\ MayAdminister /\ members # <<>>
  /\ group' = [group EXCEPT !.mode = m]
  /\ member' = [s \in Slots |-> IF s \in MemberSet
                  THEN [member[s] EXCEPT !.role =
                          IF m = "round-robin" \/ s = members[1] THEN "active" ELSE "standby"]
                  ELSE member[s]]
  /\ UNCHANGED <<members, deleted, policy, store, call, top, cur>>

SetRecoveryMode(r) ==
  /\ MayAdminister /\ members # <<>>
  /\ group' = [group EXCEPT !.recovery = r]
  /\ UNCHANGED <<members, member, deleted, policy, store, call, top, cur>>

SetRetry(n) ==
  /\ MayAdminister /\ members # <<>>
  /\ group' = [group EXCEPT !.limit = n]
  /\ UNCHANGED <<members, member, deleted, policy, store, call, top, cur>>

SetInterval(i) ==
  /\ MayAdminister /\ members # <<>>
  /\ group' = [group EXCEPT !.interval = i]
  /\ UNCHANGED <<members, member, deleted, policy, store, call, top, cur>>

SetFirmware(s, f) ==
  /\ MayAdminister /\ s \in MemberSet
  /\ member' = [member EXCEPT ![s].firmware = f]
  /\ UNCHANGED <<members, group, deleted, policy, store, call, top, cur>>

\* change_policy on a slot; a destructive change also erases its objects.
SetPolicy(s, p) ==
  /\ MayAdminister
  /\ policy' = [policy EXCEPT ![s] = p]
  /\ \/ UNCHANGED store
     \/ /\ "direct" \in Hazards
        /\ store' = [store EXCEPT ![s] = [k \in Keys |-> 0]]
  /\ UNCHANGED <<members, member, group, deleted, call, top, cur>>

\* fail_ha_member on the member table mem and group record g, np being the
\* network_partition flag of s afterwards: the active role moves to the first
\* other member in service, except that in round-robin mode every member keeps it.
Fail(mem, g, s, np) ==
  LET failed == [mem EXCEPT ![s] = [@ EXCEPT !.state = "unavailable", !.sync = "out-of-sync",
                                             !.retry = 0, !.partitioned = np]]
      others == InService(mem, MemberSet \ {s})
  IN  /\ group' = [g EXCEPT !.state = "degraded"]
      /\ IF mem[s].role = "active" /\ others # {} /\ g.mode = "active-standby"
         THEN \E r \in others :
                /\ IsFirst(members, others, r)
                /\ member' = [failed EXCEPT ![r].role = "active", ![s].role = "standby"]
         ELSE member' = failed

FailMember(s) ==
  /\ MayAdminister /\ s \in MemberSet /\ Survives({s})
  /\ Fail(member, group, s, member[s].partitioned)
  /\ UNCHANGED <<members, deleted, policy, store, call, top, cur>>

\* set_ha_network_partition(TRUE) and (FALSE).
PartitionMember(s) ==
  /\ MayAdminister /\ s \in MemberSet /\ Survives({s})
  /\ Fail(member, group, s, TRUE)
  /\ UNCHANGED <<members, deleted, policy, store, call, top, cur>>

RestoreMember(s) ==
  /\ MayAdminister /\ s \in MemberSet /\ Survives({s})
  /\ LET mem == [member EXCEPT ![s] = [@ EXCEPT !.partitioned = FALSE, !.state = "recovering"]]
     IN  IF group.recovery = "automatic"
         THEN Recover(mem, s)
         ELSE member' = mem /\ UNCHANGED <<group, store>>
  /\ UNCHANGED <<members, deleted, policy, call, top, cur>>

RecoverMember(s) ==
  /\ MayAdminister /\ s \in MemberSet /\ Survives({s})
  /\ Recover(member, s)
  /\ UNCHANGED <<members, deleted, policy, call, top, cur>>

SynchronizeGroup ==
  /\ MayAdminister /\ members # <<>>
  /\ \E src \in Available(member, MemberSet) :
       /\ IsFirst(members, Available(member, MemberSet), src)
       /\ Synchronize(member, members, src)
  /\ UNCHANGED <<members, deleted, policy, call, top, cur>>

\* lunash "ha operation": route_ha_operation without a key.
Routed(E, s) ==
  IF group.mode = "round-robin" THEN s \in E /\ Rank(members, E, s) = group.cursor % Cardinality(E)
  ELSE LET A == {t \in E : member[t].role = "active"}
       IN  IsFirst(members, IF A # {} THEN A ELSE E, s)

RoutedMember(s) ==
  IF group.mode = "round-robin" THEN member ELSE [member EXCEPT ![s].role = "active"]

RoutedGroup(E) ==
  IF group.mode = "round-robin"
  THEN [group EXCEPT !.cursor = ((@ % Cardinality(E)) + 1) % Cardinality(E)]
  ELSE group

RouteOperation ==
  /\ MayAdminister
  /\ LET E == Available(member, MemberSet)
     IN  \E s \in E : /\ Routed(E, s)
                      /\ member' = RoutedMember(s) /\ group' = RoutedGroup(E)
  /\ UNCHANGED <<members, deleted, policy, store, call, top, cur>>

-----------------------------------------------------------------------------
(* A call of the application through the virtual slot (HAClient.call).     *)
(* "plain" needs no key, "use" is cryptography with key k, the others are  *)
(* the mutations.                                                          *)

\* A poll that looks for "unavailable" only.
MutantPollable(s) ==
  /\ member[s].state = "unavailable"
  /\ group.limit = -1 \/ member[s].retry < group.limit

Pollable(s) ==
  /\ member[s].state \in {"unavailable", "recovering"}
  /\ group.limit = -1 \/ member[s].retry < group.limit

\* The call starts by listing the members whose recovery is due.
CallBegin(op, k) ==
  /\ Quiet /\ members # <<>>
  /\ IF op = "plain" THEN k = None ELSE k # None /\ (op = "create" <=> top[k] = 0)
  /\ \E due \in IF group.interval = 0 THEN {Slots} ELSE SUBSET Slots :
       call' = [Idle EXCEPT !.pc = "run", !.op = op, !.key = k, !.todo =
                  IF group.recovery = "automatic"
                  THEN {s \in MemberSet \cap due : Pollable(s)}
                  ELSE {}]
  /\ UNCHANGED <<members, member, group, deleted, policy, store, top, cur>>

\* poll_ha_recovery, one member: charge the retry and recover it.  The order is
\* that of the member list the call read when it began.
CallPoll(s) ==
  /\ call.pc = "run" /\ s \in call.todo \cap MemberSet
  /\ "shell" \notin Hazards => IsFirst(members, call.todo, s)
  /\ Recover([member EXCEPT ![s].retry = Bump(@)], s)
  /\ call' = [call EXCEPT !.todo = @ \ {s}]
  /\ UNCHANGED <<members, deleted, policy, top, cur>>

\* The member, or the group, was removed meanwhile.
CallPollFails ==
  /\ call.pc = "run" /\ ~(call.todo \subseteq MemberSet)
  /\ call' = Idle
  /\ UNCHANGED <<members, member, group, deleted, policy, store, top, cur>>

\* The healthy members that hold the key of the call.
Eligible ==
  {s \in Available(member, MemberSet) \ call.excluded :
     /\ Compatible(member, members[1], s)
     /\ call.op \in {"use", "update", "destroy"} => store[s][call.key] > 0}

Running == call.pc = "run" /\ call.todo = {}

CallNoMember ==
  /\ Running /\ call.slot = None /\ Eligible = {}
  /\ call' = Idle
  /\ UNCHANGED <<members, member, group, deleted, policy, store, top, cur>>

\* Routing is a commit of its own, which matters to another shell only.
CallRoute(s) ==
  /\ Running /\ call.slot = None /\ "shell" \in Hazards /\ Routed(Eligible, s)
  /\ member' = RoutedMember(s) /\ group' = RoutedGroup(Eligible)
  /\ call' = [call EXCEPT !.slot = s]
  /\ UNCHANGED <<members, deleted, policy, store, top, cur>>

\* Member s executes the call: the one routed to before, or the one routed to now.
Executes(s) == Running /\ IF call.slot = None THEN Routed(Eligible, s) ELSE s = call.slot

CallMember(s) == IF call.slot = None THEN RoutedMember(s) ELSE member
CallGroup == IF call.slot = None THEN RoutedGroup(Eligible) ELSE group

\* The routed member answers with a result that changes no persistent key, or
\* refuses with a PKCS#11 error.
CallAnswer(s) ==
  /\ Executes(s)
  /\ member' = CallMember(s) /\ group' = CallGroup
  /\ call' = Idle
  /\ UNCHANGED <<members, deleted, policy, store, top, cur>>

\* The operation fails with CKR_DEVICE_ERROR: cryptography moves to another
\* member, without a second poll.
CallDeviceError(s) ==
  /\ Executes(s) /\ call.op \in {"plain", "use"} /\ Survives({s})
  /\ IF s \in MemberSet
     THEN Fail(CallMember(s), CallGroup, s, member[s].partitioned)
     ELSE UNCHANGED <<member, group>>
  /\ call' = [call EXCEPT !.excluded = @ \cup {s}, !.slot = None]
  /\ UNCHANGED <<members, deleted, policy, store, top, cur>>

\* A creation or an attribute change, committed on the routed member.
CallWrite(s) ==
  /\ Executes(s) /\ call.op \in {"create", "update"}
  /\ IF call.op = "create" THEN top[call.key] = 0 ELSE store[s][call.key] > 0
  /\ top[call.key] < MaxVersion
  /\ member' = CallMember(s) /\ group' = CallGroup
  /\ LET v == top[call.key] + 1
     IN  /\ store' = [store EXCEPT ![s][call.key] = v]
         /\ top' = [top EXCEPT ![call.key] = v]
         /\ cur' = [cur EXCEPT ![call.key] = v]
  /\ call' = [call EXCEPT !.pc = "sync", !.slot = s]
  /\ UNCHANGED <<members, deleted, policy>>

CallDestroy(s) ==
  /\ Executes(s) /\ call.op = "destroy" /\ store[s][call.key] > 0
  /\ member' = CallMember(s) /\ group' = CallGroup
  /\ store' = [store EXCEPT ![s][call.key] = 0]
  /\ cur' = [cur EXCEPT ![call.key] = 0]
  /\ call' = [call EXCEPT !.pc = "record", !.slot = s]
  /\ UNCHANGED <<members, deleted, policy, top>>

\* record_deletion; it raises when the group is gone, and the call ends.
CallRecord ==
  /\ call.pc = "record"
  /\ IF members = <<>>
     THEN call' = Idle /\ UNCHANGED deleted
     ELSE deleted' = deleted \cup {call.key} /\ call' = [call EXCEPT !.pc = "sync"]
  /\ UNCHANGED <<members, member, group, policy, store, top, cur>>

\* The call returns without replicating.
MutantCallSync ==
  /\ call.pc = "sync"
  /\ call' = Idle
  /\ UNCHANGED <<members, member, group, deleted, policy, store, top, cur>>

\* The mutation is replicated from the member that executed it.  When that one
\* is not in service any more nothing is replicated, and the call returns as if
\* it were: HAClient.call ignores the result.
CallSync ==
  /\ call.pc = "sync"
  /\ IF call.slot \in Available(member, MemberSet)
     THEN Synchronize(member, members, call.slot)
     ELSE UNCHANGED <<member, group, store>>
  /\ call' = Idle
  /\ UNCHANGED <<members, deleted, policy, top, cur>>

-----------------------------------------------------------------------------
(* The environment of the group.                                           *)

\* The client process stops between two commits, or, while it synchronises,
\* after the slots of T were purged and the keys of P copied to them.
Crash ==
  /\ "crash" \in Hazards /\ ~Quiet
  /\ call' = Idle
  /\ \/ UNCHANGED store
     \/ /\ call.pc = "sync" /\ call.slot \in Available(member, MemberSet)
        /\ \E T \in SUBSET Targets(member, members, call.slot), P \in SUBSET Keys :
             LET purged == IF T = {} THEN store ELSE Purge(store, T \cup {call.slot})
             IN  store' = [s \in Slots |-> IF s \in T
                             THEN Overlay(purged, call.slot, s, P \cap Held(purged, call.slot))
                             ELSE purged[s]]
  /\ UNCHANGED <<members, member, group, deleted, policy, top, cur>>

\* An application creates, changes or destroys a key on a physical slot.
DirectWrite(s, k) ==
  /\ MayAdminister /\ "direct" \in Hazards
  /\ \/ /\ top[k] = 0 \/ store[s][k] > 0
        /\ top[k] < MaxVersion
        /\ store' = [store EXCEPT ![s][k] = top[k] + 1]
        /\ top' = [top EXCEPT ![k] = @ + 1]
     \/ /\ store[s][k] > 0
        /\ store' = [store EXCEPT ![s][k] = 0]
        /\ UNCHANGED top
  /\ UNCHANGED <<members, member, group, deleted, policy, call, cur>>

-----------------------------------------------------------------------------

Init ==
  /\ members = <<>>
  /\ member = [s \in Slots |-> NewMember]
  /\ group = NewGroup
  /\ deleted = {}
  /\ policy \in [Slots -> Policies]
  /\ store = [s \in Slots |-> [k \in Keys |-> 0]]
  /\ call = Idle
  /\ top = [k \in Keys |-> 0]
  /\ cur = [k \in Keys |-> 0]

Administer ==
  \/ DeleteGroup \/ SynchronizeGroup \/ RouteOperation
  \/ \E s \in Slots :
       \/ CreateGroup(s) \/ AddMember(s) \/ AddMemberSync(s) \/ RemoveMember(s)
       \/ FailMember(s) \/ PartitionMember(s) \/ RestoreMember(s) \/ RecoverMember(s)
       \/ \E f \in Firmwares : SetFirmware(s, f)
       \/ \E p \in Policies : SetPolicy(s, p)
  \/ \E m \in Modes : SetMode(m)
  \/ \E r \in RecoveryModes : SetRecoveryMode(r)
  \/ \E n \in RetryCounts : SetRetry(n)
  \/ \E i \in Intervals : SetInterval(i)

Begin == \E op \in Ops, k \in Keys \cup {None} : CallBegin(op, k)

Proceed ==
  \/ CallNoMember \/ CallPollFails \/ CallRecord \/ CallSync
  \/ \E s \in Slots : \/ CallPoll(s) \/ CallRoute(s) \/ CallAnswer(s) \/ CallDeviceError(s)
                      \/ CallWrite(s) \/ CallDestroy(s)

Next ==
  \/ Administer \/ Begin \/ Proceed \/ Crash
  \/ \E s \in Slots, k \in Keys : DirectWrite(s, k)

Spec == Init /\ [][Next]_vars

\* The application keeps calling and a started call proceeds.
FairSpec == Spec /\ WF_vars(Begin) /\ WF_vars(Proceed)

-----------------------------------------------------------------------------
(* Properties.                                                             *)

\* Every variable has its type; the members of the group are distinct.
TypeOK ==
  /\ members \in Seq(Slots)
  /\ \A i, j \in DOMAIN members : members[i] = members[j] => i = j
  /\ member \in [Slots -> Member]
  /\ group \in Group
  /\ deleted \subseteq Keys
  /\ policy \in [Slots -> Policies]
  /\ store \in [Slots -> [Keys -> Versions]]
  /\ call \in Call
  /\ top \in [Keys -> Versions] /\ cur \in [Keys -> Versions]

\* A member cut off by a network partition is out of service whatever
\* recovery, polling, synchronisation or failover runs meanwhile, so no call
\* is routed to it, it is never a source, and never the target of a failover
\* (set_ha_network_partition, recover_ha_member, synchronize_ha_group).
IsolatedOutOfService ==
  \A s \in Slots : member[s].partitioned => member[s].state = "unavailable"

\* While a member stays cut off, no step of the group or of its clients
\* changes the keys it holds, but for a call that was routed to it before.
IsolatedUntouched ==
  [][\A s \in MemberSet \cap MemberSet' :
       member[s].partitioned /\ member'[s].partitioned
         => store'[s] = store[s] \/ (call.pc = "run" /\ call.slot = s)]_vars

\* A tombstoned identity never comes back to a slot that does not hold it: the
\* order "deletions to the source, deletions to the target, clone" of recovery
\* and synchronisation (deployment.py _apply_deletions before clone_objects).
TombstonesHold ==
  [][\A s \in Slots, k \in deleted \cap deleted' :
       store[s][k] = 0 => store'[s][k] = 0]_vars

\* A member that returns to service holds no tombstoned identity.
ReturnsClean ==
  [][\A s \in MemberSet \cap MemberSet' :
       member[s].state # "active" /\ member'[s].state = "active"
         => \A k \in deleted' : store'[s][k] = 0]_vars

\* Between two calls every member in service holds exactly what the
\* application last wrote: failover may pick any of them.
OneCopy ==
  Quiet => \A s \in InService(member, MemberSet) : store[s] = cur

\* A key the application destroyed never comes back to a slot that does not
\* hold it.
DestroyedStaysDestroyed ==
  [][\A s \in Slots, k \in Keys :
       top[k] > 0 /\ cur[k] = 0 /\ store[s][k] = 0 => store'[s][k] = 0]_vars

\* No step replaces a member's copy of a key the application still has by an
\* older one:
\* "offline members catch up on recovery", they do not undo what they missed.
NeverOlder ==
  [][\A s \in MemberSet \cap MemberSet', k \in Keys :
       cur'[k] > 0 => store'[s][k] >= store[s][k]]_vars

\* A reachable, compatible member in automatic mode whose retry budget is not
\* exhausted is brought back by the calls of the application.
Recoverable(s) ==
  /\ s \in MemberSet /\ ~member[s].partitioned /\ member[s].state # "incompatible"
  /\ Compatible(member, members[1], s)
  /\ group.recovery = "automatic" /\ group.interval = 0
  /\ group.limit = -1 \/ member[s].retry < group.limit

RecoveryReturns ==
  \A s \in Slots : <>[]Recoverable(s) => []<>(member[s].state = "active")

\* The application's view of the keys: the member that executes the mutation in
\* progress, else any member in service.
View ==
  IF call.pc \in {"record", "sync"} THEN store[call.slot]
  ELSE IF members = <<>> THEN [k \in Keys |-> 0]
  ELSE store[CHOOSE s \in InService(member, MemberSet) : TRUE]

\* The group looks like one key store: failover, recovery and synchronisation
\* never change what the application sees.
Logical == INSTANCE LogicalKeyStore WITH content <- View, writes <- top
LooksLikeOneStore == Logical!Spec

=============================================================================
