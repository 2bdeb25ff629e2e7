----------------------- MODULE PartitionAccessProofs -----------------------
(***************************************************************************)
(* Proofs about PartitionAccess, for every value of its constants.         *)
(***************************************************************************)
EXTENDS PartitionAccess, TLAPS

\* The type invariant, variable group by variable group.
AccessOK ==
  /\ lib \in [Clients -> Library]
  /\ session \in [Clients -> [Sids -> {"closed", "public", "user"}]]
  /\ login \in [Clients -> [Sids -> Roles \cup {None}]]
  /\ checking \subseteq PinCheck
  /\ fresh \in [Clients -> [Sids -> BOOLEAN]] /\ valid \in [Clients -> [Sids -> BOOLEAN]]
DeviceOK ==
  /\ device \in Device /\ dark \in BOOLEAN
  /\ initial \in [initialized : BOOLEAN, active : BOOLEAN]
RoleOK == role \in [Roles -> RoleEntry] /\ guesses \in [Roles -> Nat]
ChalOK ==
  /\ chal \in [Challenged -> ChallengeEntry] /\ vouched \in [Challenged -> BOOLEAN]
  /\ covered \in [Challenged -> BOOLEAN] /\ policy \in PolicySet

LEMMA Parts ==
  /\ TypeOK <=> AccessOK /\ DeviceOK /\ RoleOK /\ ChalOK
  /\ TypeOK' <=> AccessOK' /\ DeviceOK' /\ RoleOK' /\ ChalOK'
  BY DEF TypeOK, AccessOK, DeviceOK, RoleOK, ChalOK

LEMMA EmptyTables ==
  /\ Closed \in [Sids -> {"closed", "public", "user"}]
  /\ NoLogin \in [Sids -> Roles \cup {None}]
  /\ Never \in [Sids -> BOOLEAN]
  BY DEF Closed, NoLogin, Never

-----------------------------------------------------------------------------
(* Device events and the calls of the library.                             *)

LEMMA NewEpochType == AccessOK /\ NewEpoch => AccessOK'
<1> SUFFICES ASSUME AccessOK, NewEpoch PROVE AccessOK'
  OBVIOUS
<1>1. lib' \in [Clients -> Library]
  <2>1. \A e \in Library : [e EXCEPT !.current = FALSE, !.seen = FALSE] \in Library
    BY DEF Library
  <2> QED BY <2>1 DEF AccessOK, NewEpoch
<1>2. fresh' \in [Clients -> [Sids -> BOOLEAN]] /\ valid' \in [Clients -> [Sids -> BOOLEAN]]
  BY EmptyTables DEF NewEpoch
<1> QED BY <1>1, <1>2 DEF AccessOK, NewEpoch

LEMMA TablesType ==
  ASSUME AccessOK, NEW c \in Clients
  PROVE  /\ Sessions(c) \in [Sids -> {"closed", "public", "user"}]
         /\ Kept(c) \in [Sids -> Roles \cup {None}]
         /\ Logins(c) \in [Sids -> Roles \cup {None}]
  BY EmptyTables DEF AccessOK, Sessions, Kept, Logins

LEMMA LibraryCallType ==
  ASSUME AccessOK, NEW c \in Clients, LibraryCall(c) \/ C_Finalize(c)
  PROVE  AccessOK'
<1> USE EmptyTables, TablesType DEF AccessOK, Library, rest
<1>1. CASE C_Initialize(c)
  BY <1>1 DEF C_Initialize
<1>2. CASE C_Finalize(c)
  <2>1. lib[c].seen \in BOOLEAN
    OBVIOUS
  <2>2. PICK b \in BOOLEAN :
          lib' = [lib EXCEPT ![c] = [up |-> FALSE, current |-> FALSE, seen |-> b]]
    BY <1>2, <2>1 DEF C_Finalize
  <2>3. checking' \subseteq PinCheck
    BY <1>2 DEF C_Finalize
  <2> QED BY <1>2, <2>2, <2>3 DEF C_Finalize
<1>3. CASE CallAfterEvent(c)
  BY <1>3, ZenonT(40) DEF CallAfterEvent
<1>4. CASE LoginCheck(c)
  BY <1>4, ZenonT(40) DEF LoginCheck
<1>5. CASE C_CloseAllSessions(c)
  BY <1>5, ZenonT(40) DEF C_CloseAllSessions
<1>6. ASSUME NEW s \in Sids, C_OpenSession(c, s) PROVE AccessOK'
  BY <1>6, ZenonT(40) DEF C_OpenSession
<1>7. ASSUME NEW s \in Sids, C_CloseSession(c, s) PROVE AccessOK'
  BY <1>7, ZenonT(40) DEF C_CloseSession
<1>8. ASSUME NEW s \in Sids, C_Logout(c, s) PROVE AccessOK'
  BY <1>8, ZenonT(40) DEF C_Logout
<1> QED BY <1>1, <1>2, <1>3, <1>4, <1>5, <1>6, <1>7, <1>8 DEF LibraryCall

\* A call of the library leaves everything but the tables of its client.
LEMMA CallLeaves ==
  ASSUME NEW c \in Clients, LibraryCall(c) \/ C_Finalize(c)
  PROVE  UNCHANGED <<device, initial, role, chal, policy, past, dark, guesses>>
  BY DEF LibraryCall, C_Initialize, C_Finalize, CallAfterEvent, LoginCheck,
         C_CloseAllSessions, C_OpenSession, C_CloseSession, C_Logout, rest

LEMMA AcceptType ==
  ASSUME AccessOK, NEW c \in Clients, NEW s \in Sids, NEW r \in Roles, Accept(c, s, r),
         UNCHANGED checking
  PROVE  AccessOK'
<1>1. login' \in [Clients -> [Sids -> Roles \cup {None}]]
  BY TablesType DEF AccessOK, Accept
<1>2. lib' \in [Clients -> Library]
  BY DEF AccessOK, Accept, Library
<1> QED BY <1>1, <1>2 DEF AccessOK, Accept

LEMMA RejectType ==
  ASSUME AccessOK, NEW c \in Clients, Reject(c), UNCHANGED checking
  PROVE  AccessOK'
  BY TablesType DEF AccessOK, Library, Reject

\* What a wrong PIN writes, as one update of the role's entry.
LEMMA WrongEntry ==
  ASSUME NEW k, k.role \in Roles, role \in [Roles -> RoleEntry], PinWrong(k)
  PROVE  role' = [role EXCEPT ![k.role] =
                    [role[k.role] EXCEPT !.attempts = k.attempts + 1,
                                         !.locked = @ \/ k.attempts + 1 >= k.limit]]
  BY DEF PinWrong, RoleEntry

-----------------------------------------------------------------------------
(* Roles, challenges and policies.                                         *)

LEMMA MissedType ==
  ASSUME NEW e, NEW n \in Limits
  PROVE  /\ e \in RoleEntry => Missed(e, n) \in RoleEntry
         /\ e \in ChallengeEntry => Missed(e, n) \in ChallengeEntry
<1>1. ASSUME NEW k \in Nat PROVE k + 1 \in Nat /\ (k + 1 >= n) \in BOOLEAN
  BY AccessAssumption
<1>2. ASSUME e \in RoleEntry PROVE Missed(e, n) \in RoleEntry
  BY <1>1, <1>2 DEF Missed, RoleEntry
<1>3. ASSUME e \in ChallengeEntry PROVE Missed(e, n) \in ChallengeEntry
  BY <1>1, <1>3 DEF Missed, ChallengeEntry
<1> QED BY <1>2, <1>3

LEMMA MissedChallengeType ==
  ASSUME NEW e \in ChallengeEntry, policy \in PolicySet
  PROVE  MissedChallenge(e) \in ChallengeEntry
<1>1. policy.limit \in Limits
  BY DEF PolicySet
<1>2. Missed(e, policy.limit) \in ChallengeEntry
  BY <1>1, MissedType
<1> QED BY <1>2 DEF MissedChallenge, ChallengeEntry

LEMMA SetPinType ==
  ASSUME RoleOK, NEW r \in Roles, SetPin(r)
  PROVE  RoleOK'
  BY DEF RoleOK, SetPin, RoleEntry

LEMMA SetPoliciesType ==
  ASSUME ChalOK, NEW p \in PolicySet, SetPolicies(p)
  PROVE  ChalOK'
<1>1. p.activation \in BOOLEAN /\ p.auto \in BOOLEAN
  BY DEF PolicySet
<1>2. chal' \in [Challenged -> ChallengeEntry]
  <2>1. \A e \in ChallengeEntry :
          [e EXCEPT !.cache = @ /\ p.activation, !.armed = @ /\ p.activation /\ p.auto]
            \in ChallengeEntry
    BY <1>1 DEF ChallengeEntry
  <2> QED BY <2>1 DEF SetPolicies, ChalOK
<1>3. vouched' \in [Challenged -> BOOLEAN] /\ covered' \in [Challenged -> BOOLEAN]
  BY <1>1 DEF SetPolicies, ChalOK
<1>4. policy' \in PolicySet
  BY DEF SetPolicies
<1> QED BY <1>2, <1>3, <1>4 DEF ChalOK

LEMMA DeviceEventType ==
  ASSUME TypeOK, DeviceEvent
  PROVE  TypeOK'
<1> USE Parts
<1>1. \A e \in ChallengeEntry :
        /\ \A b \in BOOLEAN : [e EXCEPT !.cache = @ /\ b] \in ChallengeEntry
        /\ [e EXCEPT !.cache = FALSE, !.armed = FALSE] \in ChallengeEntry
  BY DEF ChallengeEntry
<1>2. \A r \in Challenged : Protected(r) \in BOOLEAN
  BY DEF Protected
<1>3. CASE PowerOff
  <2>1. chal' \in [Challenged -> ChallengeEntry] /\ vouched' \in [Challenged -> BOOLEAN]
    BY <1>1, <1>2, <1>3 DEF PowerOff, ChalOK
  <2>2. ChalOK' /\ RoleOK'
    BY <1>3, <2>1 DEF PowerOff, ChalOK, RoleOK
  <2>3. DeviceOK'
    BY <1>3 DEF PowerOff, DeviceOK, Device
  <2> QED BY <1>3, <2>2, <2>3, NewEpochType DEF PowerOff
<1>4. CASE TimePasses
  <2>1. DeviceOK'
    BY <1>4 DEF TimePasses, DeviceOK, Device
  <2>2. AccessOK' /\ RoleOK' /\ ChalOK'
    BY <1>4 DEF TimePasses, access, past, AccessOK, RoleOK, ChalOK
  <2> QED BY <2>1, <2>2
<1>5. ASSUME NEW b \in BOOLEAN, Reboot(b) PROVE TypeOK'
  <2>1. chal' \in [Challenged -> ChallengeEntry] /\ vouched' \in [Challenged -> BOOLEAN]
    BY <1>1, <1>5 DEF Reboot, ChalOK
  <2>2. ChalOK' /\ RoleOK'
    BY <1>5, <2>1 DEF Reboot, ChalOK, RoleOK
  <2>3. DeviceOK'
    BY <1>5 DEF Reboot, DeviceOK, Device
  <2> QED BY <1>5, <2>2, <2>3, NewEpochType DEF Reboot
<1>6. CASE Tamper
  <2>1. chal' \in [Challenged -> ChallengeEntry] /\ vouched' \in [Challenged -> BOOLEAN]
    BY <1>1, <1>6 DEF Tamper, ChalOK
  <2>2. ChalOK' /\ RoleOK'
    BY <1>6, <2>1 DEF Tamper, ChalOK, RoleOK
  <2>3. DeviceOK'
    BY <1>6 DEF Tamper, DeviceOK, Device
  <2> QED BY <1>6, <2>2, <2>3, NewEpochType DEF Tamper
<1>7. CASE ClearTamper
  <2>1. DeviceOK'
    BY <1>7 DEF ClearTamper, DeviceOK, Device
  <2>2. RoleOK' /\ ChalOK'
    BY <1>7 DEF ClearTamper, past, RoleOK, ChalOK
  <2> QED BY <1>7, <2>1, <2>2, NewEpochType DEF ClearTamper
<1> QED BY <1>3, <1>4, <1>5, <1>6, <1>7 DEF DeviceEvent

LEMMA LoginType ==
  ASSUME TypeOK, NEW c \in Clients, NEW s \in Sids, NEW r \in Roles, Login(c, s, r)
  PROVE  TypeOK'
<1> USE Parts
<1>1. CASE LoginWithQuorum(c, s, r)
  <2>1. AccessOK'
    BY <1>1, AcceptType DEF LoginWithQuorum, rest
  <2>2. DeviceOK' /\ RoleOK' /\ ChalOK'
    BY <1>1 DEF LoginWithQuorum, rest, past, DeviceOK, RoleOK, ChalOK
  <2> QED BY <2>1, <2>2
<1>2. CASE LoginBegin(c, s, r)
  <2>1. role[r].attempts \in Nat /\ policy.attempts \in Limits
    BY DEF RoleOK, RoleEntry, ChalOK, PolicySet
  <2>2. checking' \subseteq PinCheck
    BY <1>2, <2>1 DEF LoginBegin, AccessOK, PinCheck
  <2>3. AccessOK'
    BY <1>2, <2>2, TablesType DEF LoginBegin, AccessOK, Library
  <2>4. DeviceOK' /\ RoleOK' /\ ChalOK'
    BY <1>2 DEF LoginBegin, past, DeviceOK, RoleOK, ChalOK
  <2> QED BY <2>3, <2>4
<1>3. ASSUME NEW right \in BOOLEAN, NEW quorum \in BOOLEAN,
             LoginWithChallenge(c, s, r, right, quorum)
      PROVE  TypeOK'
  <2>1. AccessOK'
    BY <1>3, AcceptType, RejectType DEF LoginWithChallenge
  <2>2. r \in Challenged
    BY <1>3 DEF LoginWithChallenge, NeedsChallenge
  <2>3. chal[r] \in ChallengeEntry /\ policy.auto \in BOOLEAN
    BY <2>2 DEF ChalOK, PolicySet
  <2>4. /\ [chal[r] EXCEPT !.cache = TRUE, !.armed = policy.auto, !.attempts = 0]
             \in ChallengeEntry
        /\ MissedChallenge(chal[r]) \in ChallengeEntry
    BY <2>3, MissedChallengeType DEF ChalOK, ChallengeEntry
  <2>5. chal' \in [Challenged -> ChallengeEntry]
    BY <1>3, <2>2, <2>4 DEF LoginWithChallenge, ChalOK
  <2>6. /\ vouched' \in [Challenged -> BOOLEAN] /\ covered' \in [Challenged -> BOOLEAN]
        /\ policy' \in PolicySet
    BY <1>3, <2>3 DEF LoginWithChallenge, past, ChalOK
  <2>7. RoleOK'
    BY <1>3 DEF LoginWithChallenge, Counted, RoleOK
  <2>8. DeviceOK'
    BY <1>3 DEF LoginWithChallenge, DeviceOK
  <2> QED BY <2>1, <2>5, <2>6, <2>7, <2>8 DEF ChalOK
<1> QED BY <1>1, <1>2, <1>3 DEF Login

LEMMA LoginEndType ==
  ASSUME TypeOK, NEW k \in checking, LoginEnd(k)
  PROVE  TypeOK'
<1> USE Parts
<1>0. /\ k.client \in Clients /\ k.sid \in Sids /\ k.role \in Roles
      /\ k.attempts \in Nat /\ k.limit \in Limits
  BY DEF AccessOK, PinCheck
<1>1. k.attempts + 1 \in Nat /\ (k.attempts + 1 >= k.limit) \in BOOLEAN
  BY <1>0, AccessAssumption
<1>2. DeviceOK' /\ ChalOK'
  BY DEF LoginEnd, past, DeviceOK, ChalOK
<1>3. CASE PinRight(k)
  <2>1. [role[k.role] EXCEPT !.attempts = 0] \in RoleEntry
    BY <1>0 DEF RoleOK, RoleEntry
  <2>2. RoleOK'
    BY <1>0, <1>3, <2>1 DEF PinRight, RoleOK
  <2>3. AccessOK'
    BY <1>0, <1>3 DEF LoginEnd, PinRight, AccessOK
  <2> QED BY <1>2, <2>2, <2>3
<1>4. CASE PinWrong(k)
  <2> DEFINE e == [role[k.role] EXCEPT !.attempts = k.attempts + 1,
                                       !.locked = @ \/ k.attempts + 1 >= k.limit]
  <2>1. e \in RoleEntry
    BY <1>0, <1>1 DEF RoleOK, RoleEntry
  <2>2. role' = [role EXCEPT ![k.role] = e]
    BY <1>0, <1>4, WrongEntry DEF RoleOK
  <2> HIDE DEF e
  <2>3. RoleOK'
    BY <1>0, <1>4, <2>1, <2>2 DEF PinWrong, RoleOK
  <2>4. AccessOK'
    BY <1>0, <1>4 DEF LoginEnd, PinWrong, AccessOK
  <2> QED BY <1>2, <2>3, <2>4
<1> QED BY <1>3, <1>4 DEF LoginEnd

LEMMA ManageType ==
  ASSUME TypeOK, NEW c \in Clients, NEW s \in Sids, NEW r \in Challenged, Manage(c, s, r)
  PROVE  TypeOK'
<1> USE Parts
<1>r. r \in Roles
  BY DEF Challenged
<1>e. chal[r] \in ChallengeEntry
  BY DEF ChalOK
<1>1. CASE ResetRole(c, s, r)
  <2>1. RoleOK'
    BY <1>r, <1>1, SetPinType DEF ResetRole
  <2>2. AccessOK' /\ DeviceOK' /\ ChalOK'
    BY <1>1 DEF ResetRole, access, past, AccessOK, DeviceOK, ChalOK
  <2> QED BY <2>1, <2>2
<1>2. CASE ActivateRole(c, s, r)
  <2>1. RoleOK'
    BY <1>r, <1>2 DEF ActivateRole, RoleOK, RoleEntry
  <2>2. AccessOK' /\ DeviceOK' /\ ChalOK'
    BY <1>2 DEF ActivateRole, access, past, AccessOK, DeviceOK, ChalOK
  <2> QED BY <2>1, <2>2
<1>3. CASE DeactivateRole(c, s, r)
  <2>1. RoleOK'
    BY <1>r, <1>3 DEF DeactivateRole, RoleOK, RoleEntry
  <2>2. ChalOK'
    <3>1. [chal[r] EXCEPT !.cache = FALSE, !.armed = FALSE] \in ChallengeEntry
      BY <1>e DEF ChallengeEntry
    <3> QED BY <1>3, <3>1 DEF DeactivateRole, ChalOK
  <2>3. AccessOK' /\ DeviceOK'
    BY <1>3 DEF DeactivateRole, access, AccessOK, DeviceOK
  <2> QED BY <2>1, <2>2, <2>3
<1>4. CASE CreateChallenge(c, s, r)
  <2>1. RoleOK'
    BY <1>r, <1>4 DEF CreateChallenge, RoleOK
  <2>2. ChalOK'
    BY <1>4 DEF CreateChallenge, ChalOK, NoChallenge, ChallengeEntry
  <2>3. AccessOK' /\ DeviceOK'
    BY <1>4 DEF CreateChallenge, access, AccessOK, DeviceOK
  <2> QED BY <2>1, <2>2, <2>3
<1>5. ASSUME NEW right \in BOOLEAN, ChangeChallenge(c, s, r, right) PROVE TypeOK'
  <2>1. RoleOK'
    BY <1>r, <1>5 DEF ChangeChallenge, Counted, RoleOK
  <2>2. MissedChallenge(chal[r]) \in ChallengeEntry
    BY <1>e, MissedChallengeType DEF ChalOK
  <2>3. [chal[r] EXCEPT !.attempts = 0] \in ChallengeEntry
    BY <1>e DEF ChallengeEntry
  <2>4. ChalOK'
    BY <1>5, <2>2, <2>3 DEF ChangeChallenge, past, ChalOK
  <2>5. AccessOK' /\ DeviceOK'
    BY <1>5 DEF ChangeChallenge, access, AccessOK, DeviceOK
  <2> QED BY <2>1, <2>4, <2>5
<1> QED BY <1>1, <1>2, <1>3, <1>4, <1>5 DEF Manage

LEMMA OtherType ==
  ASSUME TypeOK
  PROVE  /\ InitToken \/ ChangePolicy \/ ApplyTemplate => TypeOK'
         /\ \A b \in BOOLEAN : SetPartitionActive(b) => TypeOK'
         /\ \A r \in Roles : ChangePin(r) => TypeOK'
         /\ \A c \in Clients, s \in Sids : C_InitPIN(c, s) => TypeOK'
<1> USE Parts
<1>1. ASSUME InitToken PROVE TypeOK'
  <2>1. RoleOK'
    BY <1>1, SetPinType, AccessAssumption DEF InitToken
  <2>2. ChalOK'
    BY <1>1 DEF InitToken, Forget, NoChallenge, ChallengeEntry, ChalOK
  <2>3. AccessOK' /\ DeviceOK'
    BY <1>1 DEF InitToken, access, AccessOK, DeviceOK
  <2> QED BY <2>1, <2>2, <2>3
<1>2. ASSUME ChangePolicy PROVE TypeOK'
  <2>1. ASSUME NEW x \in Switches, NEW b \in BOOLEAN
        PROVE  [policy EXCEPT ![x] = b] \in PolicySet
    <3>1. x \in {"ignore", "activation", "auto"}
      BY AccessAssumption DEF SwitchNames
    <3>2. CASE x = "ignore"
      BY <3>2 DEF ChalOK, PolicySet
    <3>3. CASE x = "activation"
      BY <3>3 DEF ChalOK, PolicySet
    <3>4. CASE x = "auto"
      BY <3>4 DEF ChalOK, PolicySet
    <3> QED BY <3>1, <3>2, <3>3, <3>4
  <2>2. ASSUME NEW n \in Limits
        PROVE  [policy EXCEPT !.limit = n, !.attempts = n] \in PolicySet
    BY DEF ChalOK, PolicySet
  <2>3. PICK p \in PolicySet : SetPolicies(p)
    BY <1>2, <2>1, <2>2 DEF ChangePolicy
  <2>4. ChalOK'
    BY <2>3, SetPoliciesType
  <2>5. AccessOK' /\ DeviceOK' /\ RoleOK'
    BY <1>2 DEF ChangePolicy, access, AccessOK, DeviceOK, RoleOK
  <2> QED BY <2>4, <2>5
<1>3. ASSUME ApplyTemplate PROVE TypeOK'
  <2>1. PICK p \in PolicySet : SetPolicies(p)
    BY <1>3 DEF ApplyTemplate
  <2>2. ChalOK'
    BY <2>1, SetPoliciesType
  <2>3. AccessOK' /\ DeviceOK' /\ RoleOK'
    BY <1>3 DEF ApplyTemplate, access, AccessOK, DeviceOK, RoleOK
  <2> QED BY <2>2, <2>3
<1>4. ASSUME NEW b \in BOOLEAN, SetPartitionActive(b) PROVE TypeOK'
  <2>1. DeviceOK'
    BY <1>4 DEF SetPartitionActive, DeviceOK
  <2>2. AccessOK' /\ RoleOK' /\ ChalOK'
    BY <1>4 DEF SetPartitionActive, access, past, AccessOK, RoleOK, ChalOK
  <2> QED BY <2>1, <2>2
<1>5. ASSUME NEW r \in Roles, ChangePin(r) PROVE TypeOK'
  <2>1. RoleOK'
    BY <1>5, SetPinType DEF ChangePin
  <2>2. AccessOK' /\ DeviceOK' /\ ChalOK'
    BY <1>5 DEF ChangePin, access, past, AccessOK, DeviceOK, ChalOK
  <2> QED BY <2>1, <2>2
<1>6. ASSUME NEW c \in Clients, NEW s \in Sids, C_InitPIN(c, s) PROVE TypeOK'
  <2>1. RoleOK'
    BY <1>6 DEF C_InitPIN, RoleOK, SetPin, RoleEntry
  <2>2. AccessOK' /\ DeviceOK' /\ ChalOK'
    BY <1>6 DEF C_InitPIN, access, past, AccessOK, DeviceOK, ChalOK
  <2> QED BY <2>1, <2>2
<1> QED BY <1>1, <1>2, <1>3, <1>4, <1>5, <1>6

LEMMA InitType == Init => TypeOK
<1> SUFFICES ASSUME Init PROVE TypeOK
  OBVIOUS
<1>1. AccessOK
  BY EmptyTables DEF Init, AccessOK, Library
<1>2. DeviceOK
  BY DEF Init, DeviceOK, Device
<1>3. RoleOK
  BY DEF Init, RoleOK, NoRole, RoleEntry
<1>4. ChalOK
  BY DEF Init, ChalOK, NoChallenge, ChallengeEntry, PolicySet
<1> QED BY <1>1, <1>2, <1>3, <1>4, Parts

LEMMA StutterType == ASSUME TypeOK, UNCHANGED vars PROVE TypeOK'
  BY DEF TypeOK, vars, access, past

\* Every reachable state is well typed: the attempt counters stay numbers,
\* the stored limit stays a value of policy 20, and the tables of sessions
\* and logins keep their shape through every event.
THEOREM AccessTypeCorrect == Spec => []TypeOK
<1>1. ASSUME TypeOK, NEW c \in Clients, LibraryCall(c) \/ C_Finalize(c) PROVE TypeOK'
  <2>1. AccessOK'
    BY <1>1, Parts, LibraryCallType
  <2>2. UNCHANGED <<device, initial, role, chal, policy, past, dark, guesses>>
    BY <1>1, CallLeaves
  <2>3. DeviceOK' /\ RoleOK' /\ ChalOK'
    BY <1>1, <2>2, Parts DEF past, DeviceOK, RoleOK, ChalOK
  <2> QED BY <2>1, <2>3, Parts
<1>2. TypeOK /\ [Next]_vars => TypeOK'
  <2> SUFFICES ASSUME TypeOK, [Next]_vars PROVE TypeOK'
    OBVIOUS
  <2>1. ASSUME NEW c \in Clients, LibraryCall(c) \/ C_Finalize(c) PROVE TypeOK'
    BY <1>1, <2>1
  <2> QED BY <2>1, StutterType, DeviceEventType, LoginType, LoginEndType, ManageType, OtherType
          DEF Next
<1> QED BY <1>2, InitType, PTL DEF Spec

-----------------------------------------------------------------------------
(* PIN logins under way.  Between its two steps a login's process makes no *)
(* other call, so only device events touch the tables the login found.     *)

WaitOf(k) ==
  /\ lib[k.client].up /\ session[k.client][k.sid] # "closed"
  /\ lib[k.client].current => lib[k.client].seen
  /\ login[k.client][k.sid] = None
  /\ \A t \in Sids : login[k.client][t] \in {None, k.role}
  /\ lib[k.client].seen => valid[k.client][k.sid]
  /\ "prompt" \notin Occasions => (lib[k.client].seen => lib[k.client].current)

Waiting ==
  /\ \A k \in checking : WaitOf(k)
  /\ \A k, l \in checking : k.client = l.client => k = l
  /\ AuthMode # "password" => checking = {}

\* A login check: what a login that begins or fails does.
Checked(c) ==
  /\ lib' = [lib EXCEPT ![c].seen = TRUE]
  /\ login' = [login EXCEPT ![c] = Logins(c)]
  /\ UNCHANGED <<session, fresh>>

\* What a client does to its own tables.
Touches(c) ==
  \/ LibraryCall(c) \/ C_Finalize(c)
  \/ \E s \in Sids, r \in Roles : Accept(c, s, r) \/ LoginBegin(c, s, r)
  \/ Reject(c)
  \/ \E k \in checking : k.client = c /\ LoginEnd(k)

Same(d) ==
  /\ lib'[d] = lib[d] /\ session'[d] = session[d] /\ login'[d] = login[d]
  /\ fresh'[d] = fresh[d] /\ valid'[d] = valid[d]

\* A call or a login of a client leaves the others alone.
LEMMA OthersKept ==
  ASSUME AccessOK, NEW c \in Clients, NEW d \in Clients, d # c, Touches(c)
  PROVE  Same(d)
<1> USE DEF Same
<1>1. CASE LibraryCall(c) \/ C_Finalize(c)
  BY <1>1 DEF AccessOK, LibraryCall, C_Initialize, C_Finalize, CallAfterEvent, LoginCheck,
              C_CloseAllSessions, C_OpenSession, C_CloseSession, C_Logout
<1>2. ASSUME NEW s \in Sids, NEW r \in Roles, Accept(c, s, r) PROVE Same(d)
  BY <1>2 DEF AccessOK, Accept
<1>3. ASSUME NEW s \in Sids, NEW r \in Roles, LoginBegin(c, s, r) PROVE Same(d)
  BY <1>3 DEF AccessOK, LoginBegin
<1>4. CASE Reject(c)
  BY <1>4 DEF AccessOK, Reject
<1>5. ASSUME NEW k \in checking, k.client = c, LoginEnd(k) PROVE Same(d)
  BY <1>5 DEF AccessOK, LoginEnd, PinRight, PinWrong
<1> QED BY <1>1, <1>2, <1>3, <1>4, <1>5 DEF Touches

\* What is left when one client acts.
LEMMA WaitingTouched ==
  ASSUME AccessOK, Waiting, NEW c \in Clients, Touches(c),
         checking' \subseteq checking, \A k \in checking' : k.client # c
  PROVE  Waiting'
<1>1. \A k \in checking : k.client \in Clients
  BY DEF AccessOK, PinCheck
<1>2. ASSUME NEW k \in checking' PROVE WaitOf(k)'
  <2>1. Same(k.client) /\ WaitOf(k)
    BY <1>1, <1>2, OthersKept DEF Waiting
  <2> QED BY <2>1 DEF Same, WaitOf
<1> QED BY <1>2 DEF Waiting

LEMMA WaitingBegin ==
  ASSUME AccessOK, Waiting, NEW c \in Clients, NEW s \in Sids, NEW r \in Roles,
         Idle(c), LoginBegin(c, s, r)
  PROVE  Waiting'
<1>p. PICK k : k = [client |-> c, sid |-> s, role |-> r,
                    attempts |-> role[r].attempts, limit |-> policy.attempts]
  OBVIOUS
<1>0. /\ checking' = checking \cup {k} /\ k.client = c /\ k.sid = s /\ k.role = r
      /\ \A l \in checking : l.client \in Clients /\ l.client # c
  BY <1>p DEF LoginBegin, Idle, AccessOK, PinCheck
<1>1. ASSUME NEW l \in checking PROVE WaitOf(l)'
  <2>1. Same(l.client) /\ WaitOf(l)
    BY <1>0, OthersKept DEF Waiting, Touches
  <2> QED BY <2>1 DEF Same, WaitOf
<1>2. WaitOf(k)'
  <2>1. /\ lib'[c].up = lib[c].up /\ lib'[c].current = lib[c].current /\ lib'[c].seen
        /\ session'[c] = session[c] /\ login'[c] = Logins(c) /\ valid'[c][s]
    BY DEF LoginBegin, AccessOK, Library
  <2>2. /\ lib[c].up /\ session[c][s] # "closed"
        /\ lib[c].current \/ "prompt" \in Occasions
        /\ Logins(c)[s] = None /\ \A t \in Sids : Logins(c)[t] \in {None, r}
    BY DEF LoginBegin, Reaches, HasSession
  <2> QED BY <1>0, <2>1, <2>2 DEF WaitOf
<1>3. AuthMode = "password"
  BY DEF LoginBegin
<1> QED BY <1>0, <1>1, <1>2, <1>3 DEF Waiting

LEMMA WaitingKept ==
  ASSUME Waiting, UNCHANGED <<lib, session, login, checking, valid>>
  PROVE  Waiting'
  BY DEF Waiting, WaitOf

LEMMA WaitingEvent ==
  ASSUME AccessOK, Waiting, DeviceEvent
  PROVE  Waiting'
<1>1. CASE TimePasses
  BY <1>1, WaitingKept DEF TimePasses, access
<1>2. CASE NewEpoch
  <2>1. \A k \in checking : k.client \in Clients
    BY DEF AccessOK, PinCheck
  <2>2. \A c \in Clients : /\ lib'[c].up = lib[c].up /\ ~lib'[c].current /\ ~lib'[c].seen
                           /\ session'[c] = session[c] /\ login'[c] = login[c]
    BY <1>2 DEF NewEpoch, AccessOK, Library
  <2>3. checking' = checking
    BY <1>2 DEF NewEpoch
  <2> QED BY <2>1, <2>2, <2>3 DEF Waiting, WaitOf
<1> QED BY <1>1, <1>2 DEF DeviceEvent, PowerOff, Reboot, Tamper, ClearTamper

\* What no client calls for, and what changes no client's tables.
Elsewhere ==
  \/ InitToken \/ ChangePolicy \/ ApplyTemplate
  \/ \E b \in BOOLEAN : SetPartitionActive(b)
  \/ \E r \in Roles : ChangePin(r)
  \/ \E c \in Clients, s \in Sids : C_InitPIN(c, s)
  \/ \E c \in Clients, s \in Sids, r \in Challenged : Manage(c, s, r)

LEMMA ElsewhereLeaves == Elsewhere => UNCHANGED access
<1>1. ASSUME NEW c \in Clients, NEW s \in Sids, NEW r \in Challenged, Manage(c, s, r)
      PROVE  UNCHANGED access
  BY <1>1 DEF Manage, ResetRole, ActivateRole, DeactivateRole, CreateChallenge, ChangeChallenge
<1> QED BY <1>1 DEF Elsewhere, InitToken, ChangePolicy, ApplyTemplate, SetPartitionActive,
                    ChangePin, C_InitPIN

\* The steps of the specification, by what they touch.
LEMMA Steps ==
  ASSUME [Next]_vars
  PROVE  \/ DeviceEvent
         \/ \E k \in checking : LoginEnd(k)
         \/ \E c \in Clients : C_Finalize(c)
         \/ \E c \in Clients : Idle(c) /\ LibraryCall(c)
         \/ \E c \in Clients, s \in Sids, r \in Roles : Idle(c) /\ Login(c, s, r)
         \/ UNCHANGED access
  BY ElsewhereLeaves DEF Next, Elsewhere, vars

LEMMA AlwaysWaiting == Spec => []Waiting
<1>1. Init => Waiting
  BY DEF Init, Waiting
<1>2. TypeOK /\ Waiting /\ [Next]_vars => Waiting'
  <2> SUFFICES ASSUME AccessOK, Waiting, [Next]_vars PROVE Waiting'
    BY Parts
  <2>1. ASSUME NEW k \in checking, LoginEnd(k) PROVE Waiting'
    <3>1. k.client \in Clients /\ Touches(k.client)
      BY <2>1 DEF AccessOK, PinCheck, Touches
    <3>2. checking' = checking \ {k} /\ \A l \in checking' : l.client # k.client
      BY <2>1 DEF LoginEnd, Waiting
    <3> QED BY <3>1, <3>2, WaitingTouched
  <2>2. ASSUME NEW c \in Clients, C_Finalize(c) PROVE Waiting'
    BY <2>2, WaitingTouched DEF C_Finalize, Touches
  <2>3. ASSUME NEW c \in Clients, Idle(c), LibraryCall(c) PROVE Waiting'
    <3>1. UNCHANGED checking
      BY <2>3 DEF LibraryCall, C_Initialize, CallAfterEvent, LoginCheck,
                  C_CloseAllSessions, C_OpenSession, C_CloseSession, C_Logout, rest
    <3> QED BY <2>3, <3>1, WaitingTouched DEF Touches, Idle
  <2>4. ASSUME NEW c \in Clients, NEW s \in Sids, NEW r \in Roles, Idle(c), Login(c, s, r)
        PROVE  Waiting'
    <3>1. ASSUME Accept(c, s, r) \/ Reject(c), UNCHANGED checking PROVE Waiting'
      BY <2>4, <3>1, WaitingTouched DEF Touches, Idle
    <3>2. CASE LoginBegin(c, s, r)
      BY <2>4, <3>2, WaitingBegin
    <3>3. CASE LoginWithQuorum(c, s, r)
      BY <3>1, <3>3 DEF LoginWithQuorum, rest
    <3>4. ASSUME NEW right \in BOOLEAN, NEW quorum \in BOOLEAN,
                 LoginWithChallenge(c, s, r, right, quorum)
          PROVE  Waiting'
      BY <3>1, <3>4 DEF LoginWithChallenge
    <3> QED BY <2>4, <3>2, <3>3, <3>4 DEF Login
  <2>5. CASE UNCHANGED access
    BY <2>5, WaitingKept DEF access
  <2> QED BY <2>1, <2>2, <2>3, <2>4, <2>5, WaitingEvent, Steps
<1> QED BY <1>1, <1>2, AccessTypeCorrect, PTL DEF Spec

-----------------------------------------------------------------------------
(* No authority outlives a device event.                                   *)

LEMMA AuthorityKept ==
  ASSUME TypeOK, AuthorityIsCurrent, UNCHANGED <<lib, login, valid>>
  PROVE  AuthorityIsCurrent'
  BY DEF AuthorityIsCurrent, Actor, Logins

LEMMA AuthorityCall ==
  ASSUME TypeOK, AuthorityIsCurrent, NEW c \in Clients, LibraryCall(c) \/ C_Finalize(c)
  PROVE  AuthorityIsCurrent'
<1>0. /\ lib[c] \in Library /\ login[c] \in [Sids -> Roles \cup {None}]
      /\ valid[c] \in [Sids -> BOOLEAN] /\ AccessOK
  BY Parts DEF TypeOK
<1>1. CASE C_Initialize(c)
  <2>1. \A d \in Clients : lib'[d].seen = lib[d].seen
    BY <1>1, <1>0 DEF C_Initialize, AccessOK, Library
  <2> QED BY <1>1, <2>1 DEF C_Initialize, AuthorityIsCurrent, Actor, Logins
<1>2. CASE C_Finalize(c)
  BY <1>2, <1>0, EmptyTables, TablesType
     DEF C_Finalize, AuthorityIsCurrent, Actor, Logins, NoLogin, Library, AccessOK
<1>3. CASE CallAfterEvent(c)
  BY <1>3, <1>0, EmptyTables
     DEF CallAfterEvent, AuthorityIsCurrent, Actor, Logins, NoLogin, Library, AccessOK
<1>4. CASE LoginCheck(c)
  BY <1>4, <1>0, EmptyTables
     DEF LoginCheck, AuthorityIsCurrent, Actor, Logins, NoLogin, Library, AccessOK
<1>5. CASE C_CloseAllSessions(c)
  BY <1>5, <1>0, EmptyTables
     DEF C_CloseAllSessions, AuthorityIsCurrent, Actor, Logins, NoLogin, Library, AccessOK
<1>6. ASSUME NEW s \in Sids, C_OpenSession(c, s) PROVE AuthorityIsCurrent'
  BY <1>6, <1>0, EmptyTables, TablesType
     DEF C_OpenSession, AuthorityIsCurrent, Actor, Logins, Kept, NoLogin, Library, AccessOK
<1>7. ASSUME NEW s \in Sids, C_CloseSession(c, s) PROVE AuthorityIsCurrent'
  BY <1>7, <1>0
     DEF C_CloseSession, AuthorityIsCurrent, Actor, Logins, NoLogin, Library, AccessOK
<1>8. ASSUME NEW s \in Sids, C_Logout(c, s) PROVE AuthorityIsCurrent'
  BY <1>8, <1>0, TablesType
     DEF C_Logout, AuthorityIsCurrent, Actor, Logins, NoLogin, Library, AccessOK
<1> QED BY <1>1, <1>2, <1>3, <1>4, <1>5, <1>6, <1>7, <1>8 DEF LibraryCall

LEMMA AuthorityLogin ==
  ASSUME TypeOK, AuthorityIsCurrent, NEW c \in Clients
  PROVE  /\ \A s \in Sids, r \in Roles : Accept(c, s, r) => AuthorityIsCurrent'
         /\ Reject(c) => AuthorityIsCurrent'
         /\ \A s \in Sids, r \in Roles : LoginBegin(c, s, r) => AuthorityIsCurrent'
<1>0. AccessOK
  BY Parts
<1>1. ASSUME NEW s \in Sids, NEW r \in Roles, Accept(c, s, r) PROVE AuthorityIsCurrent'
  BY <1>0, <1>1, TablesType
     DEF Accept, AuthorityIsCurrent, Actor, Logins, NoLogin, Library, AccessOK
<1>2. ASSUME Reject(c) PROVE AuthorityIsCurrent'
  BY <1>0, <1>2, TablesType
     DEF Reject, AuthorityIsCurrent, Actor, Logins, NoLogin, Library, AccessOK
<1>3. ASSUME NEW s \in Sids, NEW r \in Roles, LoginBegin(c, s, r) PROVE AuthorityIsCurrent'
  BY <1>0, <1>3, TablesType
     DEF LoginBegin, AuthorityIsCurrent, Actor, Logins, NoLogin, Library, AccessOK
<1> QED BY <1>1, <1>2, <1>3

LEMMA AuthorityEnd ==
  ASSUME TypeOK, AuthorityIsCurrent, Waiting, NEW k \in checking, LoginEnd(k)
  PROVE  AuthorityIsCurrent'
<1> DEFINE c == k.client
<1>0. AccessOK /\ c \in Clients /\ k.sid \in Sids /\ WaitOf(k) /\ lib' = lib
  BY Parts DEF AccessOK, PinCheck, Waiting, LoginEnd
<1>1. ASSUME NEW d \in Clients, NEW t \in Sids, Actor(d, t)' # None, d # c
      PROVE  valid'[d][t]
  <2>1. Same(d)
    BY <1>0, <1>1, OthersKept DEF Touches
  <2> QED BY <1>1, <2>1 DEF Same, AuthorityIsCurrent, Actor, Logins
<1>2. ASSUME NEW t \in Sids, Actor(c, t)' # None PROVE valid'[c][t]
  <2>1. lib[c].seen /\ login'[c][t] # None
    BY <1>0, <1>2 DEF Actor, Logins, NoLogin
  <2>2. valid[c][k.sid] /\ login[c][k.sid] = None
    BY <1>0, <2>1 DEF WaitOf
  <2>3. login[c][t] # None => valid[c][t]
    BY <1>0, <2>1 DEF AuthorityIsCurrent, Actor, Logins
  <2>4. CASE t = k.sid
    BY <1>0, <2>1, <2>2, <2>4 DEF LoginEnd, PinRight, PinWrong, AccessOK
  <2>5. CASE t # k.sid
    BY <1>0, <2>1, <2>3, <2>5 DEF LoginEnd, PinRight, PinWrong, AccessOK
  <2> QED BY <2>4, <2>5
<1> QED BY <1>1, <1>2 DEF AuthorityIsCurrent

LEMMA AuthorityEvent ==
  ASSUME TypeOK, AuthorityIsCurrent, DeviceEvent
  PROVE  AuthorityIsCurrent'
<1>1. CASE TimePasses
  BY <1>1, AuthorityKept DEF TimePasses, access
<1>2. CASE NewEpoch
  <2>1. \A c \in Clients : lib[c] \in Library
    BY Parts DEF AccessOK
  <2>2. \A c \in Clients : lib'[c] = [lib[c] EXCEPT !.current = FALSE, !.seen = FALSE]
    BY <1>2 DEF NewEpoch
  <2>3. \A c \in Clients : ~lib'[c].seen
    BY <2>1, <2>2 DEF Library
  <2> QED BY <2>3, <1>2 DEF AuthorityIsCurrent, Actor, Logins, NoLogin
<1> QED BY <1>1, <1>2 DEF DeviceEvent, PowerOff, Reboot, Tamper, ClearTamper

\* get_role never reports a role that was logged in before the last reboot,
\* power loss or tamper, for any number of clients, sessions and events.
THEOREM AuthorityAlwaysCurrent == Spec => []AuthorityIsCurrent
<1>1. Init => AuthorityIsCurrent
  BY DEF Init, AuthorityIsCurrent, Actor, Logins, NoLogin
<1>2. TypeOK /\ Waiting /\ AuthorityIsCurrent /\ [Next]_vars => AuthorityIsCurrent'
  <2> SUFFICES ASSUME TypeOK, Waiting, AuthorityIsCurrent, [Next]_vars PROVE AuthorityIsCurrent'
    OBVIOUS
  <2>1. ASSUME NEW c \in Clients, NEW s \in Sids, NEW r \in Roles, Login(c, s, r)
        PROVE  AuthorityIsCurrent'
    BY <2>1, AuthorityLogin, AuthorityKept DEF Login, LoginWithQuorum, LoginWithChallenge
  <2>2. CASE UNCHANGED access
    BY <2>2, AuthorityKept DEF access
  <2> QED BY <2>1, <2>2, AuthorityCall, AuthorityEvent, AuthorityEnd, Steps
<1> QED BY <1>1, <1>2, AccessTypeCorrect, AlwaysWaiting, PTL DEF Spec

-----------------------------------------------------------------------------
(* The cached quorum.                                                      *)

\* The inductive invariant: what arms a role is what QuorumVouched needs when
\* the power goes, and the clock of the loss starts when the device goes off.
ArmedCovered == \A r \in Challenged : chal[r].armed => covered[r]
Clock == (dark => device.off = "old") /\ (device.power = "on" => device.off = "none")
CacheInv == QuorumVouched /\ ArmedIsCached /\ ArmedCovered /\ Clock

LEMMA CacheKept ==
  ASSUME CacheInv, UNCHANGED <<chal, vouched, covered, policy, device, dark>>
  PROVE  CacheInv'
  BY DEF CacheInv, QuorumVouched, ArmedIsCached, ArmedCovered, Clock

LEMMA CacheEvent ==
  ASSUME TypeOK, CacheInv, DeviceEvent
  PROVE  CacheInv'
<1> USE DEF CacheInv, QuorumVouched, ArmedIsCached, ArmedCovered, Clock
<1>0. ChalOK /\ device \in Device /\ dark \in BOOLEAN
  BY Parts DEF DeviceOK
<1>1. CASE PowerOff
  <2>1. \A r \in Challenged :
          /\ chal'[r].cache => chal[r].cache /\ Protected(r)
          /\ chal[r].cache /\ Protected(r) => chal'[r].cache
          /\ chal'[r].armed = chal[r].armed /\ chal'[r].locked = chal[r].locked
    BY <1>0, <1>1 DEF PowerOff, ChalOK, ChallengeEntry
  <2>2. QuorumVouched' /\ ArmedIsCached' /\ ArmedCovered'
    BY <1>0, <1>1, <2>1 DEF PowerOff, Protected, ChalOK
  <2>3. Clock'
    BY <1>0, <1>1 DEF PowerOff, Device
  <2> QED BY <2>2, <2>3
<1>2. CASE TimePasses
  BY <1>0, <1>2 DEF TimePasses, past, Device
<1>3. ASSUME NEW b \in BOOLEAN, Reboot(b) PROVE CacheInv'
  <2>1. \A r \in Challenged :
          \/ chal'[r] = chal[r] /\ Protected(r) /\ ~b /\ device.off # "old"
          \/ ~chal'[r].cache /\ ~chal'[r].armed
    BY <1>0, <1>3 DEF Reboot, ChalOK, ChallengeEntry
  <2>2. QuorumVouched' /\ ArmedIsCached' /\ ArmedCovered'
    BY <1>0, <1>3, <2>1 DEF Reboot, Protected, ChalOK
  <2>3. Clock'
    BY <1>0, <1>3 DEF Reboot, Device
  <2> QED BY <2>2, <2>3
<1>4. CASE Tamper
  <2>1. \A r \in Challenged : ~chal'[r].cache /\ ~chal'[r].armed
    BY <1>0, <1>4 DEF Tamper, ChalOK, ChallengeEntry
  <2>2. Clock'
    BY <1>0, <1>4 DEF Tamper, Device
  <2> QED BY <2>1, <2>2
<1>5. CASE ClearTamper
  BY <1>0, <1>5 DEF ClearTamper, past, Device
<1> QED BY <1>1, <1>2, <1>3, <1>4, <1>5 DEF DeviceEvent

\* A wrong secret drops what arms the role whenever it locks it.
LEMMA MissKeeps ==
  ASSUME TypeOK, CacheInv, NEW r \in Challenged, ~chal[r].locked,
         chal' = [chal EXCEPT ![r] = MissedChallenge(@)],
         UNCHANGED <<vouched, covered, policy, device, dark>>
  PROVE  CacheInv'
<1> USE DEF CacheInv, QuorumVouched, ArmedIsCached, ArmedCovered, Clock
<1>0. ChalOK /\ chal[r] \in ChallengeEntry
  BY Parts DEF ChalOK
<1>1. LET e == MissedChallenge(chal[r])
      IN  (e.cache => chal[r].cache) /\ (e.armed => chal[r].armed)
          /\ (e.armed => e.cache /\ ~e.locked)
  <2>1. CASE policy.ignore
    BY <2>1, <1>0 DEF MissedChallenge
  <2>2. CASE ~policy.ignore
    BY <2>2, <1>0 DEF MissedChallenge, Missed, ChallengeEntry
  <2> QED BY <2>1, <2>2
<1>2. \A q \in Challenged : chal'[q] = IF q = r THEN MissedChallenge(chal[r]) ELSE chal[q]
  BY <1>0 DEF ChalOK
<1> QED BY <1>1, <1>2

LEMMA CacheLogin ==
  ASSUME TypeOK, CacheInv, NEW c \in Clients, NEW s \in Sids, NEW r \in Roles, Login(c, s, r)
  PROVE  CacheInv'
<1>0. ChalOK
  BY Parts
<1>1. CASE LoginWithQuorum(c, s, r)
  BY <1>1, CacheKept DEF LoginWithQuorum, rest, past
<1>2. CASE LoginBegin(c, s, r)
  BY <1>2, CacheKept DEF LoginBegin, past
<1>3. ASSUME NEW right \in BOOLEAN, NEW quorum \in BOOLEAN,
             LoginWithChallenge(c, s, r, right, quorum)
      PROVE  CacheInv'
  <2>1. r \in Challenged /\ policy.activation /\ ~chal[r].locked
    BY <1>3 DEF LoginWithChallenge, NeedsChallenge
  <2>2. CASE ~right
    BY <1>3, <2>1, <2>2, MissKeeps DEF LoginWithChallenge, past
  <2>3. CASE right /\ ~chal[r].cache /\ ~quorum
    BY <1>3, <2>3, CacheKept DEF LoginWithChallenge, past
  <2>4. CASE right /\ (chal[r].cache \/ quorum)
    <3>1. \A q \in Challenged :
            /\ chal'[q] = IF q = r
                          THEN [chal[r] EXCEPT !.cache = TRUE, !.armed = policy.auto, !.attempts = 0]
                          ELSE chal[q]
            /\ vouched'[q] = IF q = r THEN (chal[r].cache => vouched[r]) ELSE vouched[q]
            /\ covered'[q] = IF q = r THEN policy.auto ELSE covered[q]
      BY <1>0, <1>3, <2>4 DEF LoginWithChallenge, ChalOK
    <3>2. UNCHANGED <<policy, device, dark>>
      BY <1>3 DEF LoginWithChallenge
    <3>3. chal'[r].armed = policy.auto /\ chal'[r].cache /\ ~chal'[r].locked
      BY <1>0, <2>1, <3>1 DEF ChalOK, ChallengeEntry
    <3>4. \A q \in Challenged : q # r => chal'[q] = chal[q] /\ vouched'[q] = vouched[q]
                                         /\ covered'[q] = covered[q]
      BY <3>1
    <3>5. vouched'[r] /\ (policy.auto => covered'[r])
      BY <2>1, <3>1 DEF CacheInv, QuorumVouched
    <3> QED BY <2>1, <3>2, <3>3, <3>4, <3>5
            DEF CacheInv, QuorumVouched, ArmedIsCached, ArmedCovered, Clock
  <2> QED BY <1>3, <2>2, <2>3, <2>4 DEF LoginWithChallenge
<1> QED BY <1>1, <1>2, <1>3 DEF Login

LEMMA CacheManage ==
  ASSUME TypeOK, CacheInv, NEW c \in Clients, NEW s \in Sids, NEW r \in Challenged, Manage(c, s, r)
  PROVE  CacheInv'
<1>0. ChalOK
  BY Parts
<1>1. CASE ResetRole(c, s, r)
  BY <1>1, CacheKept DEF ResetRole, past
<1>2. CASE ActivateRole(c, s, r)
  BY <1>2, CacheKept DEF ActivateRole, past
<1>3. ASSUME DeactivateRole(c, s, r) \/ CreateChallenge(c, s, r) PROVE CacheInv'
  <2>1. CASE UNCHANGED <<chal, vouched>>
    BY <1>3, <2>1, CacheKept DEF DeactivateRole, CreateChallenge
  <2>2. CASE ~UNCHANGED <<chal, vouched>>
    <3>1. \A q \in Challenged :
            \/ chal'[q] = chal[q] /\ vouched'[q] = vouched[q]
            \/ ~chal'[q].cache /\ ~chal'[q].armed
      <4>1. PICK e : /\ ~e.cache /\ ~e.armed
                     /\ chal' = [chal EXCEPT ![r] = e] /\ vouched' = [vouched EXCEPT ![r] = FALSE]
        <5>1. LET e == [chal[r] EXCEPT !.cache = FALSE, !.armed = FALSE] IN ~e.cache /\ ~e.armed
          BY <1>0 DEF ChalOK, ChallengeEntry
        <5>2. LET e == [NoChallenge EXCEPT !.set = TRUE] IN ~e.cache /\ ~e.armed
          BY DEF NoChallenge
        <5> QED BY <1>3, <2>2, <5>1, <5>2 DEF DeactivateRole, CreateChallenge
      <4> QED BY <1>0, <4>1 DEF ChalOK
    <3>2. UNCHANGED <<policy, device, dark, covered>>
      BY <1>3 DEF DeactivateRole, CreateChallenge
    <3> QED BY <3>1, <3>2 DEF CacheInv, QuorumVouched, ArmedIsCached, ArmedCovered, Clock
  <2> QED BY <2>1, <2>2
<1>4. ASSUME NEW right \in BOOLEAN, ChangeChallenge(c, s, r, right) PROVE CacheInv'
  <2>1. CASE right
    <3>1. \A q \in Challenged :
            /\ chal'[q].cache = chal[q].cache /\ chal'[q].armed = chal[q].armed
            /\ chal'[q].locked = chal[q].locked
      BY <1>0, <1>4, <2>1 DEF ChangeChallenge, ChalOK, ChallengeEntry
    <3> QED BY <1>4, <3>1
            DEF ChangeChallenge, past, CacheInv, QuorumVouched, ArmedIsCached, ArmedCovered, Clock
  <2>2. CASE ~right
    BY <1>4, <2>2, MissKeeps DEF ChangeChallenge, past
  <2> QED BY <2>1, <2>2
<1> QED BY <1>1, <1>2, <1>3, <1>4 DEF Manage

LEMMA CachePolicies ==
  ASSUME TypeOK, CacheInv, NEW p \in PolicySet, SetPolicies(p), UNCHANGED <<device, dark>>
  PROVE  CacheInv'
<1>0. ChalOK
  BY Parts
<1>1. \A r \in Challenged :
        /\ chal'[r].cache <=> chal[r].cache /\ p.activation
        /\ chal'[r].armed <=> chal[r].armed /\ p.activation /\ p.auto
        /\ chal'[r].locked = chal[r].locked
        /\ vouched'[r] <=> vouched[r] /\ p.activation
        /\ covered'[r] <=> covered[r] /\ p.auto
  BY <1>0 DEF SetPolicies, ChalOK, ChallengeEntry
<1>2. policy' = p
  BY DEF SetPolicies
<1> QED BY <1>1, <1>2 DEF CacheInv, QuorumVouched, ArmedIsCached, ArmedCovered, Clock

LEMMA CacheOther ==
  ASSUME TypeOK, CacheInv, InitToken \/ ChangePolicy \/ ApplyTemplate
  PROVE  CacheInv'
<1>1. CASE InitToken
  <2>1. \A r \in Challenged : ~chal'[r].cache /\ ~chal'[r].armed
    BY <1>1 DEF InitToken, Forget, NoChallenge
  <2> QED BY <1>1, <2>1
          DEF InitToken, CacheInv, QuorumVouched, ArmedIsCached, ArmedCovered, Clock
<1>2. CASE ApplyTemplate
  BY <1>2, CachePolicies DEF ApplyTemplate
<1>3. CASE ChangePolicy
  <2>1. \E p : SetPolicies(p)
    BY <1>3 DEF ChangePolicy
  <2>2. PICK p : SetPolicies(p)
    BY <2>1
  <2>3. p \in PolicySet
    <3>1. policy' \in PolicySet
      BY <1>3, OtherType, Parts DEF ChalOK
    <3> QED BY <2>2, <3>1 DEF SetPolicies
  <2> QED BY <1>3, <2>2, <2>3, CachePolicies DEF ChangePolicy
<1> QED BY <1>1, <1>2, <1>3

\* A cached quorum is always vouched for, and a role is armed only while its
\* quorum is cached under policies 22 and 23: through every order of logins,
\* wrong secrets, locks, policy changes, deactivations, power losses, long or
\* short, and tampers.
THEOREM CacheCorrect == Spec => [](QuorumVouched /\ ArmedIsCached)
<1>1. Init => CacheInv
  BY DEF Init, CacheInv, QuorumVouched, ArmedIsCached, ArmedCovered, Clock, NoChallenge
<1>2. TypeOK /\ CacheInv /\ [Next]_vars => CacheInv'
  <2> SUFFICES ASSUME TypeOK, CacheInv, [Next]_vars PROVE CacheInv'
    OBVIOUS
  <2>1. ASSUME NEW b \in BOOLEAN, SetPartitionActive(b) PROVE CacheInv'
    BY <2>1, CacheKept DEF SetPartitionActive, past
  <2>2. ASSUME NEW r \in Roles, ChangePin(r) PROVE CacheInv'
    BY <2>2, CacheKept DEF ChangePin, past
  <2>3. ASSUME NEW c \in Clients, NEW s \in Sids, C_InitPIN(c, s) PROVE CacheInv'
    BY <2>3, CacheKept DEF C_InitPIN, past
  <2>4. ASSUME NEW c \in Clients, LibraryCall(c) \/ C_Finalize(c) PROVE CacheInv'
    BY <2>4, CallLeaves, CacheKept DEF past
  <2>5. CASE UNCHANGED vars
    BY <2>5, CacheKept DEF vars, past
  <2>6. ASSUME NEW k \in checking, LoginEnd(k) PROVE CacheInv'
    BY <2>6, CacheKept DEF LoginEnd, past
  <2> QED BY <2>1, <2>2, <2>3, <2>4, <2>5, <2>6, CacheEvent, CacheLogin, CacheManage, CacheOther DEF Next
<1>3. CacheInv => QuorumVouched /\ ArmedIsCached
  BY DEF CacheInv
<1> QED BY <1>1, <1>2, <1>3, AccessTypeCorrect, PTL DEF Spec

\* The same, of armed roles alone.
THEOREM ArmedAlwaysCached == Spec => []ArmedIsCached
BY CacheCorrect, PTL

-----------------------------------------------------------------------------
(* Sessions and logins.  The library closes the sessions and forgets the   *)
(* logins of an old epoch together, so while a client's copy of the epoch  *)
(* is current its two tables agree, whether or not its login manager has   *)
(* caught up.                                                              *)

AgreeOf(c) ==
  /\ lib[c].current => lib[c].up
  /\ ~lib[c].up => \A s \in Sids : session[c][s] = "closed" /\ login[c][s] = None
  /\ lib[c].current => \A s \in Sids : session[c][s] = "user" <=> login[c][s] # None
  /\ lib[c].current /\ ~lib[c].seen => \A s \in Sids : login[c][s] = None

OneRoleOf(c) ==
  \A s, t \in Sids :
    Logins(c)[s] # None /\ Logins(c)[t] # None => Logins(c)[s] = Logins(c)[t]

SessionsOf(c) == AgreeOf(c) /\ OneRoleOf(c)

LEMMA SessionsKept ==
  ASSUME NEW c \in Clients, SessionsOf(c),
         lib'[c] = lib[c], session'[c] = session[c], login'[c] = login[c]
  PROVE  SessionsOf(c)'
BY DEF SessionsOf, AgreeOf, OneRoleOf, Logins

LEMMA SessionsCall ==
  ASSUME AccessOK, NEW c \in Clients, SessionsOf(c), LibraryCall(c) \/ C_Finalize(c)
  PROVE  SessionsOf(c)'
<1> USE DEF SessionsOf, AgreeOf, OneRoleOf
<1>0. /\ lib[c] \in Library /\ login[c] \in [Sids -> Roles \cup {None}]
      /\ session[c] \in [Sids -> {"closed", "public", "user"}]
      /\ \A s \in Sids : NoLogin[s] = None /\ Closed[s] = "closed"
  BY DEF AccessOK, NoLogin, Closed
<1>1. CASE C_Initialize(c)
  <2>1. /\ lib'[c].up /\ lib'[c].current /\ lib'[c].seen = lib[c].seen
        /\ session'[c] = session[c] /\ login'[c] = login[c] /\ ~lib[c].up
    BY <1>0, <1>1 DEF C_Initialize, AccessOK, Library
  <2> QED BY <1>0, <2>1 DEF Logins
<1>2. ASSUME session'[c] = Closed, login'[c] = NoLogin, lib'[c].current => lib'[c].up
      PROVE  SessionsOf(c)'
  BY <1>0, <1>2 DEF Logins
<1>3. CASE C_Finalize(c)
  BY <1>0, <1>2, <1>3 DEF C_Finalize, AccessOK, Library
<1>4. CASE CallAfterEvent(c)
  BY <1>0, <1>2, <1>4 DEF CallAfterEvent, AccessOK, Library
<1>5. CASE LoginCheck(c)
  <2>1. /\ lib'[c].up = lib[c].up /\ lib'[c].current = lib[c].current
        /\ session'[c] = session[c] /\ login'[c] = NoLogin /\ ~lib[c].seen /\ lib[c].up
    BY <1>0, <1>5 DEF LoginCheck, AccessOK, Library
  <2> QED BY <1>0, <2>1 DEF Logins
<1>6. CASE C_CloseAllSessions(c)
  BY <1>0, <1>2, <1>6 DEF C_CloseAllSessions, AccessOK, Library
<1>7. ASSUME NEW s \in Sids, C_OpenSession(c, s) PROVE SessionsOf(c)'
  <2>1. /\ lib'[c].up /\ lib'[c].current /\ lib'[c].seen = lib[c].seen
        /\ \A t \in Sids : session'[c][t] = IF t = s THEN "public" ELSE Sessions(c)[t]
        /\ login'[c] = Kept(c) /\ Sessions(c)[s] = "closed"
    BY <1>0, <1>7, TablesType DEF C_OpenSession, AccessOK, Library
  <2>2. CASE lib[c].current
    BY <1>0, <2>1, <2>2 DEF Sessions, Kept, Logins
  <2>3. CASE ~lib[c].current
    BY <1>0, <2>1, <2>3 DEF Sessions, Kept, Logins
  <2> QED BY <2>2, <2>3
<1>8. ASSUME NEW s \in Sids, C_CloseSession(c, s) PROVE SessionsOf(c)'
  <2>1. /\ lib'[c] = lib[c] /\ lib[c].up /\ lib[c].current
        /\ \A t \in Sids : /\ session'[c][t] = IF t = s THEN "closed" ELSE session[c][t]
                           /\ login'[c][t] = IF t = s THEN None ELSE login[c][t]
    BY <1>0, <1>8 DEF C_CloseSession, AccessOK
  <2> QED BY <1>0, <2>1 DEF Logins
<1>9. ASSUME NEW s \in Sids, C_Logout(c, s) PROVE SessionsOf(c)'
  <2>1. /\ lib'[c].up /\ lib'[c].current /\ lib'[c].seen /\ lib[c].up /\ lib[c].current
        /\ \A t \in Sids : /\ session'[c][t] = IF t = s THEN "public" ELSE session[c][t]
                           /\ login'[c][t] = IF t = s THEN None ELSE Logins(c)[t]
    BY <1>0, <1>9, TablesType DEF C_Logout, AccessOK, Library
  <2>2. \A t \in Sids : Logins(c)[t] # None <=> login[c][t] # None
    BY <1>0, <2>1 DEF Logins
  <2>3. OneRoleOf(c)'
    BY <2>1 DEF Logins
  <2>4. AgreeOf(c)'
    BY <2>1, <2>2
  <2> QED BY <2>3, <2>4
<1> QED BY <1>1, <1>3, <1>4, <1>5, <1>6, <1>7, <1>8, <1>9 DEF LibraryCall

LEMMA SessionsLogin ==
  ASSUME AccessOK, NEW c \in Clients, SessionsOf(c), lib[c].up
  PROVE  /\ \A s \in Sids, r \in Roles :
              Accept(c, s, r) /\ (\A t \in Sids : Logins(c)[t] \in {None, r}) => SessionsOf(c)'
         /\ Checked(c) => SessionsOf(c)'
<1> USE DEF SessionsOf, AgreeOf, OneRoleOf
<1>0. /\ lib[c] \in Library /\ login[c] \in [Sids -> Roles \cup {None}]
      /\ session[c] \in [Sids -> {"closed", "public", "user"}]
      /\ \A s \in Sids : NoLogin[s] = None
      /\ None \notin Roles
  BY AccessAssumption DEF AccessOK, NoLogin, None
<1>1. lib[c].current => \A t \in Sids : Logins(c)[t] = login[c][t]
  BY <1>0 DEF Logins
<1>2. ASSUME NEW s \in Sids, NEW r \in Roles, Accept(c, s, r),
             \A t \in Sids : Logins(c)[t] \in {None, r}
      PROVE  SessionsOf(c)'
  <2>1. /\ lib'[c].up = lib[c].up /\ lib'[c].current = lib[c].current /\ lib'[c].seen
        /\ \A t \in Sids : /\ session'[c][t] = IF t = s THEN "user" ELSE session[c][t]
                           /\ login'[c][t] = IF t = s THEN r ELSE Logins(c)[t]
    <3>1. lib'[c] = [lib[c] EXCEPT !.seen = TRUE]
      BY <1>2 DEF Accept, AccessOK
    <3>2. session'[c] = [session[c] EXCEPT ![s] = "user"]
      BY <1>2 DEF Accept, AccessOK
    <3>3. login'[c] = [Logins(c) EXCEPT ![s] = r]
      BY <1>2 DEF Accept, AccessOK
    <3>4. Logins(c) \in [Sids -> Roles \cup {None}]
      BY TablesType
    <3>5. lib'[c].up = lib[c].up /\ lib'[c].current = lib[c].current /\ lib'[c].seen
      BY <1>0, <3>1 DEF Library
    <3>6. \A t \in Sids : session'[c][t] = IF t = s THEN "user" ELSE session[c][t]
      BY <1>0, <3>2
    <3>7. \A t \in Sids : login'[c][t] = IF t = s THEN r ELSE Logins(c)[t]
      BY <3>3, <3>4
    <3> QED BY <3>5, <3>6, <3>7
  <2>2. OneRoleOf(c)'
    BY <1>2, <2>1 DEF Logins
  <2>3. AgreeOf(c)'
    BY <1>0, <1>1, <2>1
  <2> QED BY <2>2, <2>3
<1>3. ASSUME Checked(c) PROVE SessionsOf(c)'
  <2>1. /\ lib'[c].up = lib[c].up /\ lib'[c].current = lib[c].current /\ lib'[c].seen
        /\ session'[c] = session[c] /\ login'[c] = Logins(c)
    <3>1. lib'[c] = [lib[c] EXCEPT !.seen = TRUE]
      BY <1>3 DEF Checked, AccessOK
    <3>2. session'[c] = session[c] /\ login'[c] = Logins(c)
      BY <1>3 DEF Checked, AccessOK
    <3> QED BY <1>0, <3>1, <3>2 DEF Library
  <2>2. OneRoleOf(c)'
    BY <2>1 DEF Logins
  <2>3. AgreeOf(c)'
    BY <1>0, <1>1, <2>1
  <2> QED BY <2>2, <2>3
<1> QED BY <1>2, <1>3

LEMMA SessionsEnd ==
  ASSUME AccessOK, Waiting, NEW k \in checking, LoginEnd(k), SessionsOf(k.client)
  PROVE  SessionsOf(k.client)'
<1> DEFINE c == k.client
<1>0. /\ c \in Clients /\ k.sid \in Sids /\ k.role \in Roles /\ WaitOf(k) /\ lib' = lib
      /\ None \notin Roles /\ session[c] \in [Sids -> {"closed", "public", "user"}]
      /\ login[c] \in [Sids -> Roles \cup {None}]
  BY AccessAssumption DEF AccessOK, PinCheck, Waiting, LoginEnd, None
<1>1. CASE PinWrong(k)
  BY <1>0, <1>1, SessionsKept DEF PinWrong
<1>2. CASE PinRight(k)
  <2>1. \A t \in Sids : /\ session'[c][t] = IF t = k.sid THEN "user" ELSE session[c][t]
                       /\ login'[c][t] = IF t = k.sid THEN k.role ELSE login[c][t]
    BY <1>0, <1>2 DEF PinRight, AccessOK
  <2>2. \A t \in Sids : login'[c][t] \in {None, k.role}
    BY <1>0, <2>1 DEF WaitOf
  <2>3. OneRoleOf(c)'
    BY <1>0, <2>2 DEF OneRoleOf, Logins, NoLogin
  <2>4. AgreeOf(c)'
    BY <1>0, <2>1 DEF WaitOf, SessionsOf, AgreeOf
  <2> QED BY <2>3, <2>4 DEF SessionsOf
<1> QED BY <1>1, <1>2 DEF LoginEnd

LEMMA SessionsEvent ==
  ASSUME AccessOK, NEW c \in Clients, SessionsOf(c), DeviceEvent
  PROVE  SessionsOf(c)'
<1>1. CASE TimePasses
  BY <1>1, SessionsKept DEF TimePasses, access
<1>2. CASE NewEpoch
  <2>1. /\ lib'[c].up = lib[c].up /\ ~lib'[c].current /\ ~lib'[c].seen
        /\ session'[c] = session[c] /\ login'[c] = login[c]
    BY <1>2 DEF NewEpoch, AccessOK, Library
  <2> QED BY <2>1 DEF SessionsOf, AgreeOf, OneRoleOf, Logins, NoLogin
<1> QED BY <1>1, <1>2 DEF DeviceEvent, PowerOff, Reboot, Tamper, ClearTamper

LEMMA SessionsHold == Spec => [](\A c \in Clients : SessionsOf(c))
<1>1. Init => \A c \in Clients : SessionsOf(c)
  BY DEF Init, SessionsOf, AgreeOf, OneRoleOf, Logins, NoLogin, Closed
<1>2. TypeOK /\ Waiting /\ (\A c \in Clients : SessionsOf(c)) /\ [Next]_vars
        => (\A c \in Clients : SessionsOf(c))'
  <2> SUFFICES ASSUME AccessOK, Waiting, \A c \in Clients : SessionsOf(c), [Next]_vars,
                      NEW d \in Clients
               PROVE  SessionsOf(d)'
    BY Parts
  <2>0. ASSUME NEW c \in Clients, Touches(c), SessionsOf(c)' PROVE SessionsOf(d)'
    BY <2>0, OthersKept, SessionsKept DEF Same
  <2>1. ASSUME NEW c \in Clients, NEW s \in Sids, NEW r \in Roles, Login(c, s, r)
        PROVE  SessionsOf(d)'
    <3>1. \/ Accept(c, s, r) /\ lib[c].up /\ \A t \in Sids : Logins(c)[t] \in {None, r}
          \/ Reject(c) /\ lib[c].up
          \/ LoginBegin(c, s, r) /\ lib[c].up
          \/ UNCHANGED <<lib, session, login>>
      BY <2>1 DEF Login, LoginWithQuorum, LoginBegin, LoginWithChallenge, Reaches, HasSession
    <3>2. Reject(c) \/ LoginBegin(c, s, r) => Checked(c)
      BY DEF Reject, LoginBegin, Checked
    <3>3. CASE UNCHANGED <<lib, session, login>>
      BY <3>3, SessionsKept
    <3> QED BY <2>0, <3>1, <3>2, <3>3, SessionsLogin DEF Touches
  <2>2. ASSUME NEW c \in Clients, LibraryCall(c) \/ C_Finalize(c) PROVE SessionsOf(d)'
    BY <2>0, <2>2, SessionsCall DEF Touches
  <2>3. ASSUME NEW k \in checking, LoginEnd(k) PROVE SessionsOf(d)'
    <3>1. k.client \in Clients
      BY DEF AccessOK, PinCheck
    <3> QED BY <2>0, <2>3, <3>1, SessionsEnd DEF Touches
  <2>4. CASE UNCHANGED access
    BY <2>4, SessionsKept DEF access
  <2> QED BY <2>1, <2>2, <2>3, <2>4, SessionsEvent, Steps
<1> QED BY <1>1, <1>2, AccessTypeCorrect, AlwaysWaiting, PTL DEF Spec

\* The sessions of a client act in one role of the partition at a time, for
\* any number of sessions (CKR_USER_ANOTHER_ALREADY_LOGGED_IN of login).
THEOREM OneRoleAtATime == Spec => []OneRole
<1>1. (\A c \in Clients : SessionsOf(c)) => OneRole
  BY DEF SessionsOf, OneRoleOf, OneRole
<1> QED BY <1>1, SessionsHold, PTL

\* A session says "user" exactly while its login manager has a role for it,
\* although the library and the login manager notice a device event apart
\* (_check_device, _check_epoch).
THEOREM StateAgrees == Spec => []ReportedState
<1>1. (\A c \in Clients : SessionsOf(c)) => ReportedState
  BY DEF SessionsOf, AgreeOf, ReportedState
<1> QED BY <1>1, SessionsHold, PTL

-----------------------------------------------------------------------------
(* Sessions opened before a device event.                                  *)

FreshOf(c) ==
  /\ lib[c].current => \A s \in Sids : session[c][s] # "closed" => fresh[c][s]
  /\ \A s \in Sids : Logins(c)[s] # None => fresh[c][s]

LEMMA FreshKept ==
  ASSUME NEW c \in Clients, FreshOf(c),
         lib'[c] = lib[c], session'[c] = session[c], login'[c] = login[c], fresh'[c] = fresh[c]
  PROVE  FreshOf(c)'
BY DEF FreshOf, Logins

LEMMA FreshCall ==
  ASSUME AccessOK, NEW c \in Clients, SessionsOf(c), FreshOf(c), LibraryCall(c) \/ C_Finalize(c)
  PROVE  FreshOf(c)'
<1> USE DEF FreshOf
<1>0. /\ lib[c] \in Library /\ login[c] \in [Sids -> Roles \cup {None}]
      /\ session[c] \in [Sids -> {"closed", "public", "user"}]
      /\ fresh[c] \in [Sids -> BOOLEAN]
      /\ \A s \in Sids : NoLogin[s] = None /\ Closed[s] = "closed"
  BY DEF AccessOK, NoLogin, Closed
<1>1. ASSUME \A s \in Sids : session'[c][s] = "closed" /\ login'[c][s] = None
      PROVE  FreshOf(c)'
  BY <1>0, <1>1 DEF Logins
<1>2. CASE C_Initialize(c)
  BY <1>1, <1>2 DEF C_Initialize, SessionsOf, AgreeOf
<1>3. CASE C_Finalize(c) \/ CallAfterEvent(c) \/ C_CloseAllSessions(c)
  BY <1>0, <1>1, <1>3 DEF C_Finalize, CallAfterEvent, C_CloseAllSessions, AccessOK
<1>4. CASE LoginCheck(c)
  <2>1. /\ lib'[c].current = lib[c].current /\ fresh'[c] = fresh[c]
        /\ session'[c] = session[c] /\ login'[c] = NoLogin
    BY <1>0, <1>4 DEF LoginCheck, AccessOK, Library
  <2> QED BY <1>0, <2>1 DEF Logins
<1>5. ASSUME NEW s \in Sids, C_OpenSession(c, s) PROVE FreshOf(c)'
  <2>1. /\ lib'[c].seen = lib[c].seen
        /\ \A t \in Sids : /\ session'[c][t] = IF t = s THEN "public" ELSE Sessions(c)[t]
                           /\ fresh'[c][t] = IF t = s THEN TRUE ELSE fresh[c][t]
        /\ login'[c] = Kept(c)
    BY <1>0, <1>5, TablesType DEF C_OpenSession, AccessOK, Library
  <2>2. CASE lib[c].current
    BY <1>0, <2>1, <2>2 DEF Sessions, Kept, Logins
  <2>3. CASE ~lib[c].current
    BY <1>0, <2>1, <2>3 DEF Sessions, Kept, Logins
  <2> QED BY <2>2, <2>3
<1>6. ASSUME NEW s \in Sids, C_CloseSession(c, s) PROVE FreshOf(c)'
  <2>1. /\ lib'[c] = lib[c]
        /\ \A t \in Sids : /\ session'[c][t] = IF t = s THEN "closed" ELSE session[c][t]
                           /\ login'[c][t] = IF t = s THEN None ELSE login[c][t]
                           /\ fresh'[c][t] = IF t = s THEN FALSE ELSE fresh[c][t]
    BY <1>0, <1>6 DEF C_CloseSession, AccessOK
  <2> QED BY <1>0, <2>1 DEF Logins
<1>7. ASSUME NEW s \in Sids, C_Logout(c, s) PROVE FreshOf(c)'
  <2>1. lib'[c].current = lib[c].current /\ lib'[c].seen /\ lib[c].current
    BY <1>0, <1>7 DEF C_Logout, AccessOK, Library
  <2>2. fresh'[c] = fresh[c] /\ session[c][s] # "closed"
    BY <1>7 DEF C_Logout
  <2>3. \A t \in Sids : /\ session'[c][t] = IF t = s THEN "public" ELSE session[c][t]
                        /\ login'[c][t] = IF t = s THEN None ELSE Logins(c)[t]
    BY <1>0, <1>7, TablesType DEF C_Logout, AccessOK
  <2> QED BY <1>0, <2>1, <2>2, <2>3 DEF Logins
<1> QED BY <1>2, <1>3, <1>4, <1>5, <1>6, <1>7 DEF LibraryCall

LEMMA FreshLogin ==
  ASSUME AccessOK, NEW c \in Clients, FreshOf(c)
  PROVE  /\ \A s \in Sids, r \in Roles :
              Accept(c, s, r) /\ lib[c].current /\ session[c][s] # "closed" => FreshOf(c)'
         /\ Checked(c) => FreshOf(c)'
<1> USE DEF FreshOf
<1>0. lib[c] \in Library /\ login[c] \in [Sids -> Roles \cup {None}]
  BY DEF AccessOK
<1>1. ASSUME NEW s \in Sids, NEW r \in Roles, Accept(c, s, r),
             lib[c].current, session[c][s] # "closed"
      PROVE  FreshOf(c)'
  <2>1. /\ lib'[c].current = lib[c].current /\ lib'[c].seen /\ fresh'[c] = fresh[c]
        /\ \A t \in Sids : /\ session'[c][t] = IF t = s THEN "user" ELSE session[c][t]
                           /\ login'[c][t] = IF t = s THEN r ELSE Logins(c)[t]
    BY <1>0, <1>1, TablesType DEF Accept, AccessOK, Library
  <2> QED BY <1>1, <2>1 DEF Logins
<1>2. ASSUME Checked(c) PROVE FreshOf(c)'
  <2>1. /\ lib'[c].current = lib[c].current /\ lib'[c].seen /\ fresh'[c] = fresh[c]
        /\ session'[c] = session[c] /\ login'[c] = Logins(c)
    BY <1>0, <1>2, TablesType DEF Checked, AccessOK, Library
  <2> QED BY <2>1 DEF Logins
<1> QED BY <1>1, <1>2

LEMMA FreshEnd ==
  ASSUME AccessOK, Waiting, NEW k \in checking, LoginEnd(k), FreshOf(k.client),
         "prompt" \notin Occasions
  PROVE  FreshOf(k.client)'
<1> DEFINE c == k.client
<1>0. /\ c \in Clients /\ k.sid \in Sids /\ WaitOf(k) /\ lib' = lib /\ fresh' = fresh
      /\ session[c] \in [Sids -> {"closed", "public", "user"}]
      /\ login[c] \in [Sids -> Roles \cup {None}]
  BY DEF AccessOK, PinCheck, Waiting, LoginEnd
<1>1. CASE PinWrong(k)
  BY <1>0, <1>1, FreshKept DEF PinWrong
<1>2. CASE PinRight(k)
  <2>1. \A t \in Sids : /\ session'[c][t] = IF t = k.sid THEN "user" ELSE session[c][t]
                       /\ login'[c][t] = IF t = k.sid THEN k.role ELSE login[c][t]
    BY <1>0, <1>2 DEF PinRight, AccessOK
  <2>2. lib[c].current => fresh[c][k.sid]
    BY <1>0 DEF WaitOf, FreshOf
  <2>3. lib[c].seen => fresh[c][k.sid]
    BY <1>0, <2>2 DEF WaitOf
  <2> QED BY <1>0, <2>1, <2>2, <2>3 DEF FreshOf, Logins, NoLogin
<1> QED BY <1>1, <1>2 DEF LoginEnd

LEMMA FreshEvent ==
  ASSUME AccessOK, NEW c \in Clients, FreshOf(c), DeviceEvent
  PROVE  FreshOf(c)'
<1>1. CASE TimePasses
  BY <1>1, FreshKept DEF TimePasses, access
<1>2. CASE NewEpoch
  <2>1. ~lib'[c].current /\ ~lib'[c].seen
    BY <1>2 DEF NewEpoch, AccessOK, Library
  <2> QED BY <2>1 DEF FreshOf, Logins, NoLogin
<1> QED BY <1>1, <1>2 DEF DeviceEvent, PowerOff, Reboot, Tamper, ClearTamper

\* As long as no device event meets a LunaCM login that waits for its secret,
\* only sessions opened since the last event act in a role (_check_device
\* ends the older ones).
THEOREM SessionsAlwaysEnd ==
  ASSUME "prompt" \notin Occasions
  PROVE  Spec => []SessionsEndWithDevice
<1> DEFINE All == \A c \in Clients : FreshOf(c)
           Agreed == \A c \in Clients : SessionsOf(c)
<1>1. Init => All
  BY DEF Init, FreshOf, Logins, NoLogin, Closed
<1>2. TypeOK /\ Waiting /\ Agreed /\ All /\ [Next]_vars => All'
  <2> SUFFICES ASSUME AccessOK, Waiting, Agreed, All, [Next]_vars, NEW d \in Clients
               PROVE  FreshOf(d)'
    BY Parts
  <2>0. ASSUME NEW c \in Clients, Touches(c), FreshOf(c)' PROVE FreshOf(d)'
    BY <2>0, OthersKept, FreshKept DEF Same
  <2>1. ASSUME NEW c \in Clients, NEW s \in Sids, NEW r \in Roles, Login(c, s, r)
        PROVE  FreshOf(d)'
    <3>1. \/ Accept(c, s, r) /\ lib[c].current /\ session[c][s] # "closed"
          \/ Reject(c) \/ LoginBegin(c, s, r)
          \/ UNCHANGED <<lib, session, login, fresh>>
      BY <2>1 DEF Login, LoginWithQuorum, LoginBegin, LoginWithChallenge, Reaches, HasSession
    <3>2. Reject(c) \/ LoginBegin(c, s, r) => Checked(c)
      BY DEF Reject, LoginBegin, Checked
    <3>3. CASE UNCHANGED <<lib, session, login, fresh>>
      BY <3>3, FreshKept
    <3> QED BY <2>0, <3>1, <3>2, <3>3, FreshLogin DEF Touches
  <2>2. ASSUME NEW c \in Clients, LibraryCall(c) \/ C_Finalize(c) PROVE FreshOf(d)'
    BY <2>0, <2>2, FreshCall DEF Touches
  <2>3. ASSUME NEW k \in checking, LoginEnd(k) PROVE FreshOf(d)'
    <3>1. k.client \in Clients
      BY DEF AccessOK, PinCheck
    <3> QED BY <2>0, <2>3, <3>1, FreshEnd DEF Touches
  <2>4. CASE UNCHANGED access
    BY <2>4, FreshKept DEF access
  <2> QED BY <2>1, <2>2, <2>3, <2>4, FreshEvent, Steps
<1>3. All => SessionsEndWithDevice
  BY DEF FreshOf, SessionsEndWithDevice, Actor
<1> QED BY <1>1, <1>2, <1>3, SessionsHold, AlwaysWaiting, AccessTypeCorrect, PTL DEF Spec

-----------------------------------------------------------------------------
(* Wrong secrets.  With one client the counter of an unlocked role is      *)
(* below some value of policy 20, whichever values the policy had          *)
(* meanwhile, and no less than the wrong secrets that count: of the PIN on *)
(* a password HSM, also while one is verified, of the challenge on a PED   *)
(* HSM.                                                                    *)

OneClient == \A c, d \in Clients : c = d

Within(e) == \E n \in Limits : IF e.locked THEN e.attempts <= n ELSE e.attempts < n

PinsCounted ==
  /\ \A r \in Roles : guesses[r] <= role[r].attempts /\ Within(role[r])
  /\ \A k \in checking : /\ guesses[k.role] <= k.attempts
                         /\ \E n \in Limits : k.attempts < n

ChallengesCounted ==
  /\ \A r \in Challenged : /\ chal[r].set => guesses[r] = chal[r].attempts
                           /\ Within(chal[r])
                           /\ \E n \in Limits : guesses[r] <= n
  /\ \A r \in Roles \ Challenged : guesses[r] = 0

Counting == IF AuthMode = "password" THEN PinsCounted ELSE ChallengesCounted

LEMMA SomeLimit == \E n \in Limits : 0 <= n
<1>1. PICK n : n \in Limits
  BY AccessAssumption
<1>2. 0 <= n
  BY <1>1, AccessAssumption
<1> QED BY <1>1, <1>2

LEMMA WithinLimits ==
  ASSUME NEW e, e \in RoleEntry \/ e \in ChallengeEntry
  PROVE  /\ e.attempts \in Nat
         /\ Within(e) => \E n \in Limits : e.attempts <= n
         /\ e.attempts = 0 => Within(e)
         /\ \A n \in Limits : Within(e) /\ ~e.locked => Within(Missed(e, n))
         /\ \A n \in Limits : Missed(e, n).attempts = e.attempts + 1
<1>1. e.attempts \in Nat /\ \A n \in Limits : n \in Nat /\ n > 0
  BY AccessAssumption DEF RoleEntry, ChallengeEntry
<1>2. \E n \in Limits : TRUE
  BY AccessAssumption
<1>3. ASSUME NEW n \in Limits
      PROVE  /\ Missed(e, n).attempts = e.attempts + 1
             /\ Missed(e, n).locked <=> e.attempts + 1 >= n
  BY DEF Missed, RoleEntry, ChallengeEntry
<1>4. ASSUME NEW n \in Limits, Within(e), ~e.locked PROVE Within(Missed(e, n))
  <2>1. PICK m \in Limits : e.attempts < m
    BY <1>4 DEF Within
  <2>2. e.attempts + 1 <= m
    BY <1>1, <2>1
  <2>3. CASE e.attempts + 1 >= n
    BY <1>3, <2>2, <2>3 DEF Within
  <2>4. CASE ~(e.attempts + 1 >= n)
    <3>1. e.attempts + 1 < n
      BY <1>1, <2>4
    <3> QED BY <1>3, <2>4, <3>1 DEF Within
  <2> QED BY <2>3, <2>4
<1> QED BY <1>1, <1>2, <1>3, <1>4 DEF Within

LEMMA PinsStep ==
  ASSUME RoleOK, ChalOK, checking \subseteq PinCheck, PinsCounted, AuthMode = "password"
  PROVE  /\ UNCHANGED <<role, guesses>> /\ checking' \subseteq checking => PinsCounted'
         /\ \A r \in Roles : SetPin(r) /\ UNCHANGED checking => PinsCounted'
         /\ \A r \in Roles, b \in BOOLEAN :
              role' = [role EXCEPT ![r].active = b] /\ UNCHANGED <<guesses, checking>>
                => PinsCounted'
         /\ \A c \in Clients, s \in Sids, r \in Roles :
              LoginBegin(c, s, r) => PinsCounted'
         /\ \A k \in checking : LoginEnd(k) /\ checking = {k} => PinsCounted'
<1>0. /\ \A r \in Roles : role[r] \in RoleEntry /\ role[r].attempts \in Nat /\ guesses[r] \in Nat
      /\ role \in [Roles -> RoleEntry] /\ guesses \in [Roles -> Nat]
      /\ \A n \in Limits : n \in Nat
      /\ \A k \in checking : /\ k.role \in Roles /\ k.attempts \in Nat
                             /\ k.limit \in Limits
  BY AccessAssumption DEF RoleOK, RoleEntry, PinCheck
<1>1. ASSUME UNCHANGED <<role, guesses>>, checking' \subseteq checking PROVE PinsCounted'
  BY <1>1 DEF PinsCounted, Within
<1>2. ASSUME NEW r \in Roles, NEW e \in RoleEntry, NEW g \in Nat, g <= e.attempts, Within(e),
             role' = [role EXCEPT ![r] = e], guesses' = [guesses EXCEPT ![r] = g],
             checking' \subseteq checking, g <= guesses[r] \/ checking' = {}
      PROVE  PinsCounted'
  <2>1. \A q \in Roles : /\ role'[q] = IF q = r THEN e ELSE role[q]
                         /\ guesses'[q] = IF q = r THEN g ELSE guesses[q]
    BY <1>0, <1>2
  <2>2. ASSUME NEW q \in Roles PROVE guesses'[q] <= role'[q].attempts /\ Within(role'[q])
    BY <1>2, <2>1 DEF PinsCounted
  <2>3. ASSUME NEW k \in checking'
        PROVE  guesses'[k.role] <= k.attempts /\ \E n \in Limits : k.attempts < n
    <3>1. /\ k \in checking /\ k.role \in Roles /\ k.attempts \in Nat /\ g <= guesses[r]
          /\ guesses[k.role] <= k.attempts /\ \E n \in Limits : k.attempts < n
      BY <1>0, <1>2, <2>3 DEF PinsCounted
    <3>2. guesses'[k.role] <= guesses[k.role]
      BY <1>0, <1>2, <2>1, <3>1
    <3>3. guesses[k.role] \in Nat /\ guesses'[k.role] \in Nat
      BY <1>0, <1>2, <2>1, <3>1
    <3> QED BY <3>1, <3>2, <3>3
  <2> QED BY <2>2, <2>3 DEF PinsCounted, Within
<1>3. ASSUME NEW r \in Roles, SetPin(r), UNCHANGED checking PROVE PinsCounted'
  <2> DEFINE e == [pin |-> TRUE, active |-> TRUE, attempts |-> 0, locked |-> FALSE]
             g == 0
  <2>1. e \in RoleEntry /\ e.attempts = 0 /\ g = 0
    BY DEF RoleEntry
  <2>2. Within(e)
    BY <2>1, WithinLimits
  <2>3. role' = [role EXCEPT ![r] = e] /\ guesses' = [guesses EXCEPT ![r] = g]
    BY <1>3 DEF SetPin
  <2> HIDE DEF e, g
  <2>4. g \in Nat /\ g <= e.attempts /\ g <= guesses[r]
    BY <1>0, <2>1
  <2> QED BY <1>2, <1>3, <2>1, <2>2, <2>3, <2>4
<1>4. ASSUME NEW r \in Roles, NEW b \in BOOLEAN,
             role' = [role EXCEPT ![r].active = b], UNCHANGED <<guesses, checking>>
      PROVE  PinsCounted'
  <2> DEFINE e == [role[r] EXCEPT !.active = b]
             g == guesses[r]
  <2>1. e \in RoleEntry /\ e.attempts = role[r].attempts /\ e.locked = role[r].locked
    BY <1>0 DEF RoleEntry
  <2>2. Within(e)
    BY <2>1 DEF Within, PinsCounted
  <2>3. role' = [role EXCEPT ![r] = e] /\ guesses' = [guesses EXCEPT ![r] = g]
    BY <1>0, <1>4
  <2>4. g <= e.attempts /\ g \in Nat /\ g <= guesses[r]
    BY <1>0, <2>1 DEF PinsCounted
  <2> HIDE DEF e, g
  <2> QED BY <1>2, <1>4, <2>1, <2>2, <2>3, <2>4
<1>5. ASSUME NEW c \in Clients, NEW s \in Sids, NEW r \in Roles, LoginBegin(c, s, r)
      PROVE  PinsCounted'
  <2> DEFINE k == [client |-> c, sid |-> s, role |-> r,
                   attempts |-> role[r].attempts, limit |-> policy.attempts]
  <2>1. /\ checking' = checking \cup {k} /\ k.role = r /\ k.attempts = role[r].attempts
        /\ UNCHANGED <<role, guesses>> /\ ~role[r].locked
    BY <1>5 DEF LoginBegin
  <2> HIDE DEF k
  <2>2. guesses[r] <= k.attempts /\ \E n \in Limits : k.attempts < n
    BY <2>1 DEF PinsCounted, Within
  <2> QED BY <2>1, <2>2 DEF PinsCounted, Within
<1>6. ASSUME NEW k \in checking, LoginEnd(k), checking = {k} PROVE PinsCounted'
  <2>0. k.role \in Roles /\ checking' = {}
    BY <1>0, <1>6 DEF LoginEnd
  <2>1. CASE PinRight(k)
    <3> DEFINE e == [role[k.role] EXCEPT !.attempts = 0]
               g == 0
    <3>1. e \in RoleEntry /\ e.attempts = 0 /\ g = 0
      BY <1>0, <2>0 DEF RoleEntry
    <3>2. Within(e)
      BY <3>1, WithinLimits
    <3>3. role' = [role EXCEPT ![k.role] = e] /\ guesses' = [guesses EXCEPT ![k.role] = g]
      BY <2>1 DEF PinRight
    <3> HIDE DEF e, g
    <3>4. g \in Nat /\ g <= e.attempts
      BY <3>1
    <3> QED BY <1>2, <2>0, <3>1, <3>2, <3>3, <3>4
  <2>2. CASE PinWrong(k)
    <3> DEFINE e == [role[k.role] EXCEPT !.attempts = k.attempts + 1,
                                         !.locked = @ \/ k.attempts + 1 >= k.limit]
               g == guesses[k.role] + 1
    <3>0. role[k.role] \in RoleEntry /\ k.attempts + 1 \in Nat
      BY <1>0, <2>0
    <3>1. /\ e.attempts = k.attempts + 1 /\ k.attempts + 1 \in Nat
          /\ e.locked <=> role[k.role].locked \/ k.attempts + 1 >= k.limit
      <4>1. e.attempts = k.attempts + 1
        BY <3>0 DEF RoleEntry
      <4>2. e.locked = (role[k.role].locked \/ k.attempts + 1 >= k.limit)
        BY <3>0 DEF RoleEntry
      <4> QED BY <3>0, <4>1, <4>2
    <3>2. e \in RoleEntry
      BY <1>0, <2>0, <3>1 DEF RoleEntry
    <3>3. role' = [role EXCEPT ![k.role] = e]
      BY <1>0, <2>0, <2>2, WrongEntry
    <3>4. guesses' = [guesses EXCEPT ![k.role] = g] /\ g = guesses[k.role] + 1
      BY <2>2 DEF PinWrong
    <3> HIDE DEF e, g
    <3>5. Within(e)
      <4>1. PICK n \in Limits : k.attempts < n
        BY DEF PinsCounted
      <4>2. k.attempts + 1 <= n /\ n \in Nat /\ k.limit \in Limits /\ k.limit \in Nat
        BY <1>0, <4>1
      <4>3. CASE e.locked
        BY <3>1, <4>2, <4>3 DEF Within
      <4>4. CASE ~e.locked
        <5>1. k.attempts + 1 < k.limit
          BY <3>1, <4>2, <4>4
        <5> QED BY <3>1, <4>2, <4>4, <5>1 DEF Within
      <4> QED BY <4>3, <4>4
    <3>6. g \in Nat /\ g <= e.attempts
      <4>1. guesses[k.role] \in Nat /\ guesses[k.role] <= k.attempts /\ k.attempts \in Nat
        BY <1>0, <2>0 DEF PinsCounted
      <4> QED BY <3>1, <3>4, <4>1
    <3> QED BY <1>2, <2>0, <3>2, <3>3, <3>4, <3>5, <3>6
  <2> QED BY <1>6, <2>1, <2>2 DEF LoginEnd
<1> QED BY <1>1, <1>3, <1>4, <1>5, <1>6

\* What locks and activation do to a challenge besides its counter is not
\* looked at; a changed counter is that of one role.
LEMMA ChallengesStep ==
  ASSUME RoleOK, ChalOK, ChallengesCounted
  PROVE  /\ /\ \A r \in Challenged : /\ chal'[r].set = chal[r].set
                                     /\ chal'[r].attempts = chal[r].attempts
                                     /\ chal'[r].locked = chal[r].locked
            /\ UNCHANGED guesses
            => ChallengesCounted'
         /\ \A r \in Challenged, e \in ChallengeEntry, k \in Nat :
              /\ e.attempts = k /\ Within(e)
              /\ chal' = [chal EXCEPT ![r] = e] /\ guesses' = [guesses EXCEPT ![r] = k]
              => ChallengesCounted'
         /\ Forget /\ UNCHANGED guesses => ChallengesCounted'
<1>0. /\ chal \in [Challenged -> ChallengeEntry] /\ guesses \in [Roles -> Nat]
      /\ Challenged \subseteq Roles
  BY DEF RoleOK, ChalOK, Challenged
<1>1. ASSUME \A r \in Challenged : /\ chal'[r].set = chal[r].set
                                   /\ chal'[r].attempts = chal[r].attempts
                                   /\ chal'[r].locked = chal[r].locked,
             UNCHANGED guesses
      PROVE  ChallengesCounted'
  BY <1>1 DEF ChallengesCounted, Within
<1>2. ASSUME NEW r \in Challenged, NEW e \in ChallengeEntry, NEW k \in Nat,
             e.attempts = k, Within(e),
             chal' = [chal EXCEPT ![r] = e], guesses' = [guesses EXCEPT ![r] = k]
      PROVE  ChallengesCounted'
  <2>1. /\ \A q \in Challenged : chal'[q] = IF q = r THEN e ELSE chal[q]
        /\ \A q \in Roles : guesses'[q] = IF q = r THEN k ELSE guesses[q]
    BY <1>0, <1>2
  <2>2. \E n \in Limits : k <= n
    BY <1>2, WithinLimits
  <2>3. ASSUME NEW q \in Challenged
        PROVE  /\ chal'[q].set => guesses'[q] = chal'[q].attempts
               /\ Within(chal'[q])
               /\ \E n \in Limits : guesses'[q] <= n
    BY <1>0, <1>2, <2>1, <2>2 DEF ChallengesCounted
  <2>4. \A q \in Roles \ Challenged : guesses'[q] = 0
    BY <2>1 DEF ChallengesCounted
  <2> QED BY <2>3, <2>4 DEF ChallengesCounted, Within
<1>3. ASSUME Forget, UNCHANGED guesses PROVE ChallengesCounted'
  <2>1. NoChallenge \in ChallengeEntry /\ NoChallenge.attempts = 0 /\ ~NoChallenge.set
    BY DEF NoChallenge, ChallengeEntry
  <2>2. Within(NoChallenge)
    BY <2>1, WithinLimits
  <2>3. \A r \in Challenged : chal'[r] = NoChallenge
    BY <1>3 DEF Forget
  <2> QED BY <1>3, <2>1, <2>2, <2>3 DEF ChallengesCounted, Within
<1> QED BY <1>1, <1>2, <1>3

\* A wrong challenge counts once for the role and once for the lock, or, under
\* policy 15, for neither.
LEMMA MissCounted ==
  ASSUME RoleOK, ChalOK, ChallengesCounted, NEW r \in Challenged,
         chal[r].set, ~chal[r].locked,
         chal' = [chal EXCEPT ![r] = MissedChallenge(@)], guesses' = Counted(r)
  PROVE  ChallengesCounted'
<1>0. /\ chal[r] \in ChallengeEntry /\ guesses[r] \in Nat /\ policy.limit \in Limits
      /\ policy \in PolicySet /\ r \in Roles
  BY DEF RoleOK, ChalOK, PolicySet, Challenged
<1> DEFINE e == MissedChallenge(chal[r])
           k == IF policy.ignore THEN guesses[r] ELSE guesses[r] + 1
<1>1. e \in ChallengeEntry /\ k \in Nat
  BY <1>0, MissedChallengeType
<1>2. e.attempts = k /\ Within(e)
  <2>1. CASE policy.ignore
    BY <2>1 DEF MissedChallenge, ChallengesCounted
  <2>2. CASE ~policy.ignore
    <3>1. /\ Missed(chal[r], policy.limit).attempts = guesses[r] + 1
          /\ Within(Missed(chal[r], policy.limit))
      BY <1>0, WithinLimits DEF ChallengesCounted
    <3>2. /\ e.attempts = Missed(chal[r], policy.limit).attempts
          /\ e.locked = Missed(chal[r], policy.limit).locked
      BY <1>0, <2>2, MissedType DEF MissedChallenge, ChallengeEntry
    <3> QED BY <2>2, <3>1, <3>2 DEF Within
  <2> QED BY <2>1, <2>2
<1>3. chal' = [chal EXCEPT ![r] = e] /\ guesses' = [guesses EXCEPT ![r] = k]
  BY DEF Counted
<1> HIDE DEF e, k
<1> QED BY <1>1, <1>2, <1>3, ChallengesStep

LEMMA PasswordCounts ==
  ASSUME TypeOK, Waiting, PinsCounted, AuthMode = "password", OneClient, [Next]_vars
  PROVE  PinsCounted'
<1>0. RoleOK /\ ChalOK /\ checking \subseteq PinCheck /\ Challenged \subseteq Roles
  BY Parts DEF AccessOK, Challenged
<1>1. CASE DeviceEvent
  BY <1>0, <1>1, PinsStep 
     DEF DeviceEvent, PowerOff, TimePasses, Reboot, Tamper, ClearTamper, NewEpoch, access
<1>2. CASE InitToken
  BY <1>0, <1>2, PinsStep, AccessAssumption DEF InitToken, access
<1>3. CASE ChangePolicy \/ ApplyTemplate
  BY <1>0, <1>3, PinsStep DEF ChangePolicy, ApplyTemplate, access
<1>4. ASSUME NEW b \in BOOLEAN, SetPartitionActive(b) PROVE PinsCounted'
  BY <1>0, <1>4, PinsStep DEF SetPartitionActive, access
<1>5. ASSUME NEW r \in Roles, ChangePin(r) PROVE PinsCounted'
  BY <1>0, <1>5, PinsStep DEF ChangePin, access
<1>6. ASSUME NEW c \in Clients, LibraryCall(c) \/ C_Finalize(c) PROVE PinsCounted'
  <2>1. checking' \subseteq checking
    BY <1>6 DEF LibraryCall, C_Initialize, C_Finalize, CallAfterEvent, LoginCheck,
                C_CloseAllSessions, C_OpenSession, C_CloseSession, C_Logout, rest
  <2> QED BY <1>0, <1>6, <2>1, CallLeaves, PinsStep
<1>7. ASSUME NEW c \in Clients, NEW s \in Sids, C_InitPIN(c, s) PROVE PinsCounted'
  BY <1>0, <1>7, PinsStep, AccessAssumption DEF C_InitPIN, access
<1>8. ASSUME NEW c \in Clients, NEW s \in Sids, NEW r \in Roles, Login(c, s, r)
      PROVE  PinsCounted'
  BY <1>0, <1>8, PinsStep DEF Login, LoginWithQuorum, LoginWithChallenge, rest
<1>9. ASSUME NEW c \in Clients, NEW s \in Sids, NEW r \in Challenged, Manage(c, s, r)
      PROVE  PinsCounted'
  <2>1. CASE ResetRole(c, s, r)
    BY <1>0, <2>1, PinsStep DEF ResetRole, access
  <2>2. CASE ActivateRole(c, s, r)
    BY <1>0, <2>2, PinsStep DEF ActivateRole, access
  <2>3. CASE DeactivateRole(c, s, r)
    BY <1>0, <2>3, PinsStep DEF DeactivateRole, access
  <2> QED BY <1>9, <2>1, <2>2, <2>3 DEF Manage, CreateChallenge, ChangeChallenge, Activatable
<1>10. CASE UNCHANGED vars
  BY <1>0, <1>10, PinsStep DEF vars, access
<1>11. ASSUME NEW k \in checking, LoginEnd(k) PROVE PinsCounted'
  <2>1. \A l \in checking : l = k
    BY <1>0 DEF OneClient, Waiting, PinCheck
  <2> QED BY <1>0, <1>11, <2>1, PinsStep
<1> QED BY <1>1, <1>2, <1>3, <1>4, <1>5, <1>6, <1>7, <1>8, <1>9, <1>10, <1>11 DEF Next

LEMMA PedCounts ==
  ASSUME TypeOK, Waiting, ChallengesCounted, AuthMode = "ped", [Next]_vars
  PROVE  ChallengesCounted'
<1>0. RoleOK /\ ChalOK /\ Challenged \subseteq Roles /\ AuthMode # "password" /\ checking = {}
  BY Parts DEF Challenged, Waiting
<1>t. \A e \in ChallengeEntry, b \in BOOLEAN, a \in BOOLEAN :
        LET f == [e EXCEPT !.cache = b, !.armed = a]
        IN  f.set = e.set /\ f.attempts = e.attempts /\ f.locked = e.locked
  BY DEF ChallengeEntry
<1>a. \A e \in ChallengeEntry : e.cache \in BOOLEAN /\ e.armed \in BOOLEAN
  BY DEF ChallengeEntry
<1>u. ASSUME UNCHANGED <<chal, guesses>> PROVE ChallengesCounted'
  BY <1>0, <1>u, ChallengesStep
<1>z. ASSUME NEW r \in Challenged, NEW e \in ChallengeEntry, e.attempts = 0,
             chal' = [chal EXCEPT ![r] = e], guesses' = [guesses EXCEPT ![r] = 0]
      PROVE  ChallengesCounted'
  <2> DEFINE k == 0
  <2>1. Within(e)
    BY <1>z, WithinLimits
  <2>2. k \in Nat /\ e.attempts = k /\ guesses' = [guesses EXCEPT ![r] = k]
    BY <1>z
  <2> HIDE DEF k
  <2> QED BY <1>0, <1>z, <2>1, <2>2, ChallengesStep
<1>p. ASSUME NEW p, SetPolicies(p), UNCHANGED guesses PROVE ChallengesCounted'
  <2>1. \A r \in Challenged : /\ chal'[r].set = chal[r].set
                              /\ chal'[r].attempts = chal[r].attempts
                              /\ chal'[r].locked = chal[r].locked
    BY <1>0, <1>p DEF SetPolicies, ChalOK, ChallengeEntry
  <2> QED BY <1>0, <1>p, <2>1, ChallengesStep
<1>1. CASE DeviceEvent
  <2>1. ASSUME PowerOff \/ Tamper \/ \E b \in BOOLEAN : Reboot(b)
        PROVE  \A r \in Challenged : /\ chal'[r].set = chal[r].set
                                     /\ chal'[r].attempts = chal[r].attempts
                                     /\ chal'[r].locked = chal[r].locked
    <3>1. CASE PowerOff
      BY <1>0, <3>1 DEF PowerOff, ChalOK, ChallengeEntry
    <3>2. CASE Tamper
      BY <1>0, <3>2 DEF Tamper, ChalOK, ChallengeEntry
    <3>3. ASSUME NEW b \in BOOLEAN, Reboot(b), NEW r \in Challenged
          PROVE  /\ chal'[r].set = chal[r].set
                 /\ chal'[r].attempts = chal[r].attempts
                 /\ chal'[r].locked = chal[r].locked
      <4>1. chal'[r] \in {chal[r], [chal[r] EXCEPT !.cache = FALSE, !.armed = FALSE]}
        BY <3>3 DEF Reboot
      <4> QED BY <1>0, <1>t, <4>1 DEF ChalOK
    <3> QED BY <2>1, <3>1, <3>2, <3>3
  <2>2. UNCHANGED guesses
    BY <1>1 DEF DeviceEvent, PowerOff, TimePasses, Reboot, Tamper, ClearTamper
  <2> QED BY <1>0, <1>1, <1>u, <2>1, <2>2, ChallengesStep DEF DeviceEvent, TimePasses, ClearTamper
<1>2. CASE InitToken
  BY <1>0, <1>2, ChallengesStep DEF InitToken, SetPin
<1>3. CASE ChangePolicy \/ ApplyTemplate
  BY <1>3, <1>p DEF ChangePolicy, ApplyTemplate
<1>4. ASSUME NEW b \in BOOLEAN, SetPartitionActive(b) PROVE ChallengesCounted'
  BY <1>4, <1>u DEF SetPartitionActive
<1>5. ASSUME NEW r \in Roles, ChangePin(r) PROVE ChallengesCounted'
  BY <1>0, <1>5, <1>u DEF ChangePin, SetPin
<1>6. ASSUME NEW c \in Clients, LibraryCall(c) \/ C_Finalize(c) PROVE ChallengesCounted'
  BY <1>6, <1>u, CallLeaves
<1>7. ASSUME NEW c \in Clients, NEW s \in Sids, C_InitPIN(c, s) PROVE ChallengesCounted'
  BY <1>0, <1>7, <1>u DEF C_InitPIN, SetPin
<1>8. ASSUME NEW c \in Clients, NEW s \in Sids, NEW r \in Roles, Login(c, s, r)
      PROVE  ChallengesCounted'
  <2>1. CASE LoginWithQuorum(c, s, r)
    BY <2>1, <1>u DEF LoginWithQuorum, rest
  <2>2. ASSUME NEW right \in BOOLEAN, NEW quorum \in BOOLEAN,
               LoginWithChallenge(c, s, r, right, quorum)
        PROVE  ChallengesCounted'
    <3>1. r \in Challenged /\ chal[r].set /\ ~chal[r].locked
      BY <2>2 DEF LoginWithChallenge, NeedsChallenge
    <3>2. CASE UNCHANGED <<chal, past, guesses>>
      BY <1>u, <3>2
    <3>3. CASE chal' = [chal EXCEPT ![r] = MissedChallenge(@)] /\ guesses' = Counted(r)
      BY <1>0, <3>1, <3>3, MissCounted
    <3>4. CASE /\ chal' = [chal EXCEPT ![r] = [@ EXCEPT !.cache = TRUE, !.armed = policy.auto,
                                                        !.attempts = 0]]
               /\ guesses' = [guesses EXCEPT ![r] = 0]
      <4> DEFINE e == [chal[r] EXCEPT !.cache = TRUE, !.armed = policy.auto, !.attempts = 0]
      <4>1. e \in ChallengeEntry /\ e.attempts = 0
        BY <1>0, <3>1 DEF ChalOK, ChallengeEntry, PolicySet
      <4>2. chal' = [chal EXCEPT ![r] = e]
        BY <3>4
      <4> HIDE DEF e
      <4> QED BY <1>z, <3>1, <3>4, <4>1, <4>2
    <3> QED BY <2>2, <3>2, <3>3, <3>4 DEF LoginWithChallenge
  <2> QED BY <1>0, <1>8, <2>1, <2>2 DEF Login, LoginBegin
<1>9. ASSUME NEW c \in Clients, NEW s \in Sids, NEW r \in Challenged, Manage(c, s, r)
      PROVE  ChallengesCounted'
  <2>1. CASE ResetRole(c, s, r)
    BY <1>0, <2>1, <1>u DEF ResetRole, SetPin
  <2>2. CASE DeactivateRole(c, s, r)
    <3>1. chal' = [chal EXCEPT ![r] = [@ EXCEPT !.cache = FALSE, !.armed = FALSE]]
      BY <1>0, <2>2 DEF DeactivateRole
    <3>2. \A q \in Challenged : /\ chal'[q].set = chal[q].set
                                /\ chal'[q].attempts = chal[q].attempts
                                /\ chal'[q].locked = chal[q].locked
      BY <1>0, <3>1 DEF ChalOK, ChallengeEntry
    <3> QED BY <1>0, <2>2, <3>2, ChallengesStep DEF DeactivateRole
  <2>3. CASE CreateChallenge(c, s, r)
    <3> DEFINE e == [NoChallenge EXCEPT !.set = TRUE]
    <3>1. e \in ChallengeEntry /\ e.attempts = 0
      BY DEF NoChallenge, ChallengeEntry
    <3>2. chal' = [chal EXCEPT ![r] = e] /\ guesses' = [guesses EXCEPT ![r] = 0]
      BY <2>3 DEF CreateChallenge
    <3> HIDE DEF e
    <3> QED BY <1>z, <3>1, <3>2
  <2>4. ASSUME NEW right \in BOOLEAN, ChangeChallenge(c, s, r, right)
        PROVE  ChallengesCounted'
    <3>1. CASE right
      <4> DEFINE e == [chal[r] EXCEPT !.attempts = 0]
      <4>1. e \in ChallengeEntry /\ e.attempts = 0
        BY <1>0 DEF ChalOK, ChallengeEntry
      <4>2. chal' = [chal EXCEPT ![r] = e] /\ guesses' = [guesses EXCEPT ![r] = 0]
        BY <2>4, <3>1 DEF ChangeChallenge
      <4> HIDE DEF e
      <4> QED BY <1>z, <4>1, <4>2
    <3>2. CASE ~right
      BY <1>0, <2>4, <3>2, MissCounted DEF ChangeChallenge
    <3> QED BY <3>1, <3>2
  <2> QED BY <1>0, <1>9, <2>1, <2>2, <2>3, <2>4 DEF Manage, ActivateRole
<1>10. CASE UNCHANGED vars
  BY <1>10, <1>u DEF vars
<1> QED BY <1>0, <1>1, <1>2, <1>3, <1>4, <1>5, <1>6, <1>7, <1>8, <1>9, <1>10 DEF Next

LEMMA AlwaysCounting ==
  ASSUME OneClient
  PROVE  Spec => []Counting
<1>1. Init => Counting
  <2> SUFFICES ASSUME Init PROVE Counting
    OBVIOUS
  <2>1. /\ checking = {}
        /\ \A r \in Roles : role[r] = NoRole /\ guesses[r] = 0
        /\ \A r \in Challenged : chal[r] = NoChallenge /\ r \in Roles
    BY DEF Init, Challenged
  <2>2. /\ NoRole \in RoleEntry /\ NoRole.attempts = 0
        /\ NoChallenge \in ChallengeEntry /\ NoChallenge.attempts = 0 /\ ~NoChallenge.set
    BY DEF NoRole, RoleEntry, NoChallenge, ChallengeEntry
  <2>3. Within(NoRole) /\ Within(NoChallenge)
    <3>1. Within(NoRole)
      BY <2>2, WithinLimits
    <3>2. Within(NoChallenge)
      BY <2>2, WithinLimits
    <3> QED BY <3>1, <3>2
  <2>4. \E n \in Limits : 0 <= n
    BY SomeLimit
  <2> QED BY <2>1, <2>2, <2>3, <2>4 DEF Counting, PinsCounted, ChallengesCounted
<1>2. TypeOK /\ Waiting /\ Counting /\ [Next]_vars => Counting'
  BY PasswordCounts, PedCounts, AccessAssumption DEF Counting
<1> QED BY <1>1, <1>2, AccessTypeCorrect, AlwaysWaiting, PTL DEF Spec

\* With one client, no role takes more wrong secrets between two successes or
\* resets than the largest value policy 20 had: through changes of policies 15
\* and 20, resets while its PIN is verified, locks and re-initialization.  With
\* two clients it is false: their logins overlap and lose counts (auth.py
\* login reads the counter before verify_pin and writes it after).
THEOREM AttemptsAlwaysBounded ==
  ASSUME OneClient
  PROVE  Spec => []AttemptsBounded
<1>1. TypeOK /\ Counting => AttemptsBounded
  <2> SUFFICES ASSUME TypeOK, Counting, NEW r \in Roles
               PROVE  \E n \in Limits : guesses[r] <= n
    BY DEF AttemptsBounded
  <2>1. CASE AuthMode = "password"
    <3>1. role[r] \in RoleEntry
      BY Parts DEF RoleOK
    <3>2. Within(role[r]) /\ guesses[r] <= role[r].attempts
      BY <2>1 DEF Counting, PinsCounted
    <3>3. PICK n \in Limits : role[r].attempts <= n
      BY <3>1, <3>2, WithinLimits
    <3>4. role[r].attempts \in Nat /\ guesses[r] \in Nat /\ n \in Nat
      BY <3>1, AccessAssumption, Parts DEF RoleOK, RoleEntry
    <3> QED BY <3>2, <3>3, <3>4
  <2>2. CASE AuthMode # "password"
    <3>1. r \in Challenged => \E n \in Limits : guesses[r] <= n
      BY <2>2 DEF Counting, ChallengesCounted
    <3>2. r \notin Challenged => guesses[r] = 0
      BY <2>2 DEF Counting, ChallengesCounted
    <3>3. \E n \in Limits : 0 <= n
      BY SomeLimit
    <3> QED BY <3>1, <3>2, <3>3
  <2> QED BY <2>1, <2>2
<1> QED BY <1>1, AlwaysCounting, AccessTypeCorrect, PTL

-----------------------------------------------------------------------------
(* Locks.                                                                  *)

\* A locked role is unlocked by the step that gives it a new PIN and by no
\* other: whatever PIN logins of other clients were under way when it was
\* locked, and however they end (the columns that login and set_pin give
\* update_partition), for any number of clients, sessions and roles.
THEOREM LocksAlwaysStay == Spec => LockStays
<1>1. ASSUME TypeOK, [Next]_vars, NEW r \in Roles, role[r].locked, ~role'[r].locked
      PROVE  SetPin(r) /\ UNCHANGED checking
  <2>0. role \in [Roles -> RoleEntry] /\ role'[r] # role[r] /\ checking \subseteq PinCheck
    BY <1>1 DEF TypeOK
  <2>1. ASSUME NEW q \in Roles, SetPin(q) PROVE SetPin(r)
    BY <2>0, <2>1 DEF SetPin
  <2>2. ASSUME NEW k \in checking, LoginEnd(k) PROVE FALSE
    <3>1. k.role \in Roles
      BY <2>0 DEF PinCheck
    <3>2. CASE PinRight(k)
      BY <1>1, <2>0, <3>1, <3>2 DEF PinRight, RoleEntry
    <3>3. CASE PinWrong(k)
      <4> DEFINE e == [role[k.role] EXCEPT !.attempts = k.attempts + 1,
                                           !.locked = @ \/ k.attempts + 1 >= k.limit]
      <4>1. role' = [role EXCEPT ![k.role] = e]
        BY <2>0, <3>1, <3>3, WrongEntry
      <4>2. role[k.role].locked => e.locked
        BY <2>0, <3>1 DEF RoleEntry
      <4> HIDE DEF e
      <4> QED BY <1>1, <2>0, <3>1, <4>1, <4>2
    <3> QED BY <2>2, <3>2, <3>3 DEF LoginEnd
  <2>3. ASSUME NEW c \in Clients, NEW s \in Sids, NEW q \in Roles, Login(c, s, q) PROVE FALSE
    BY <2>0, <2>3 DEF Login, LoginBegin, LoginWithQuorum, LoginWithChallenge, rest
  <2>4. ASSUME NEW c \in Clients, NEW s \in Sids, NEW q \in Challenged, Manage(c, s, q)
        PROVE  SetPin(r) /\ UNCHANGED checking
    <3>0. q \in Roles
      BY DEF Challenged
    <3>1. CASE ResetRole(c, s, q)
      BY <2>1, <3>0, <3>1 DEF ResetRole, access
    <3>2. ASSUME NEW b, role' = [role EXCEPT ![q].active = b] PROVE FALSE
      BY <1>1, <2>0, <3>0, <3>2 DEF RoleEntry
    <3> QED BY <2>0, <2>4, <3>1, <3>2
            DEF Manage, ActivateRole, DeactivateRole, CreateChallenge, ChangeChallenge
  <2>5. CASE InitToken
    BY <2>1, <2>5, AccessAssumption DEF InitToken, access
  <2>6. ASSUME NEW q \in Roles, ChangePin(q) PROVE SetPin(r) /\ UNCHANGED checking
    BY <2>1, <2>6 DEF ChangePin, access
  <2>7. ASSUME NEW c \in Clients, NEW s \in Sids, C_InitPIN(c, s)
        PROVE  SetPin(r) /\ UNCHANGED checking
    BY <2>1, <2>7, AccessAssumption DEF C_InitPIN, access
  <2>8. ~DeviceEvent
    BY <2>0 DEF DeviceEvent, PowerOff, TimePasses, Reboot, Tamper, ClearTamper
  <2>9. \A c \in Clients : ~LibraryCall(c) /\ ~C_Finalize(c)
    BY <2>0, CallLeaves
  <2>10. ~ChangePolicy /\ ~ApplyTemplate /\ \A b \in BOOLEAN : ~SetPartitionActive(b)
    BY <2>0 DEF ChangePolicy, ApplyTemplate, SetPartitionActive
  <2>11. ~UNCHANGED vars
    BY <2>0 DEF vars
  <2> QED BY <1>1, <2>2, <2>3, <2>4, <2>5, <2>6, <2>7, <2>8, <2>9, <2>10, <2>11 DEF Next
<1>2. TypeOK /\ [Next]_vars
        => [\A r \in Roles : role[r].locked /\ ~role'[r].locked
              => SetPin(r) /\ UNCHANGED checking]_vars
  BY <1>1
<1> QED BY <1>2, AccessTypeCorrect, PTL DEF Spec, LockStays
=============================================================================
