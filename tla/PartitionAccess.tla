-------------------------- MODULE PartitionAccess --------------------------
(***************************************************************************)
(* Who may use one partition of the Luna HSM emulator: the sessions and    *)
(* logins several client processes keep in memory (hsm/session.py,         *)
(* hsm/auth.py, the session calls of pkcs11/api.py), the roles with their  *)
(* PINs and locks in the database (hsm/auth.py, hsm/lifecycle.py, the role *)
(* operations of hsm/token.py), and the activation of PED roles with the   *)
(* device events that end it (hsm/activation.py).                          *)
(*                                                                         *)
(* A device event advances the device's epoch.  The library compares the   *)
(* epoch at every wrapped call and the login manager at every login        *)
(* check, each with its own copy: lib[c].current and lib[c].seen say       *)
(* whether that copy is the device's epoch.                                *)
(*                                                                         *)
(* A PIN login is two steps: it reads the role's counter and lock, verifies *)
(* the PIN, and only then writes what follows; no transaction spans them,   *)
(* so another process may come in between.                                 *)
(*                                                                         *)
(* vouched, covered, dark, fresh, valid and guesses are history: they      *)
(* record what happened, for the properties, and no action reads them.     *)
(***************************************************************************)
EXTENDS Integers, FiniteSets

CONSTANTS
  Clients,    \* processes that use the library
  Sids,       \* session handles of one process
  Roles,      \* the roles in use
  AuthMode,   \* "password" or "ped", chosen when the HSM is initialized
  Limits,     \* values of policy 20 an operator selects
  Switches,   \* on/off policies an operator changes, see SwitchNames
  Occasions   \* what happens besides normal use, see OccasionNames

None == "none"
SwitchNames == {"ignore", "activation", "auto"}  \* policies 15, 22 and 23
OccasionNames ==
  {"power",     \* the appliance is switched off or rebooted
   "tamper",    \* a tamper is simulated and cleared
   "prompt",    \* a device event meets a LunaCM login waiting for its secret
   "own pin",   \* PINs are set without the superior role: changepw, C_InitPIN
   "template"}  \* a policy template is applied

ASSUME AccessAssumption ==
  /\ {"SO", "CO"} \subseteq Roles /\ Roles \subseteq {"SO", "CO", "LCO", "CU"}
  /\ AuthMode \in {"password", "ped"}
  /\ Limits # {} /\ Limits \subseteq 1..10
  /\ Switches \subseteq SwitchNames
  /\ Occasions \subseteq OccasionNames

VARIABLES
  device,   \* power, since when it is off, tamper
  initial,  \* the partition's own flags: initialized, active
  role,     \* per role, PIN set, activation of the role, failed logins, lock
  chal,     \* per activation role, challenge secret and cached quorum
  policy,   \* the policies that matter here, and the stored attempt limit
  lib,      \* per client: library initialized, epochs it has seen
  session,  \* per client and handle: closed, or its user_type
  login,    \* per client and handle: the role AuthManager has for it
  checking, \* PIN logins under way, with what they read of the role
  vouched,  \* history: a quorum was presented and nothing ended it since
  covered,  \* history: auto-activation was on at the last login and since
  dark,     \* history: the device has been off for more than two hours
  fresh,    \* history: the session was opened after the last device event
  valid,    \* history: its login began after the last device event
  guesses   \* history: wrong secrets that count since the last success or reset

access == <<lib, session, login, checking, fresh, valid>>
past == <<vouched, covered>>
vars == <<device, initial, role, chal, policy, access, past, dark, guesses>>

Challenged == Roles \ {"SO"}

Device == [power : {"on", "off"}, off : {"none", "recent", "old"}, tampered : BOOLEAN]
RoleEntry == [pin : BOOLEAN, active : BOOLEAN, attempts : Nat, locked : BOOLEAN]
ChallengeEntry ==
  [set : BOOLEAN, cache : BOOLEAN, armed : BOOLEAN, attempts : Nat, locked : BOOLEAN]
NoRole == [pin |-> FALSE, active |-> FALSE, attempts |-> 0, locked |-> FALSE]
NoChallenge == [set |-> FALSE, cache |-> FALSE, armed |-> FALSE, attempts |-> 0, locked |-> FALSE]
Library == [up : BOOLEAN, current : BOOLEAN, seen : BOOLEAN]
PinCheck ==
  [client : Clients, sid : Sids, role : Roles, attempts : Nat, limit : Limits]
Closed == [s \in Sids |-> "closed"]
NoLogin == [s \in Sids |-> None]
Never == [s \in Sids |-> FALSE]

-----------------------------------------------------------------------------
(* Device events.                                                          *)

\* require_online
Online == device.power = "on" /\ ~device.tampered

\* Every copy of the epoch becomes old.
MutantNewEpoch ==
  /\ lib' = [c \in Clients |-> [lib[c] EXCEPT !.current = FALSE]]
  /\ fresh' = [c \in Clients |-> Never] /\ valid' = [c \in Clients |-> Never]
  /\ UNCHANGED <<session, login, checking>>

NewEpoch ==
  /\ lib' = [c \in Clients |-> [lib[c] EXCEPT !.current = FALSE, !.seen = FALSE]]
  /\ fresh' = [c \in Clients |-> Never] /\ valid' = [c \in Clients |-> Never]
  /\ UNCHANGED <<session, login, checking>>

Protected(r) == chal[r].armed /\ policy.activation /\ policy.auto

\* poweroff; a second one changes nothing and does not restart the clock.
PowerOff ==
  /\ "power" \in Occasions /\ device.power = "on"
  /\ device' = [device EXCEPT !.power = "off", !.off = "recent"]
  /\ chal' = [r \in Challenged |-> [chal[r] EXCEPT !.cache = @ /\ Protected(r)]]
  /\ vouched' = [r \in Challenged |-> vouched[r] /\ covered[r]]
  /\ NewEpoch
  /\ UNCHANGED <<initial, role, policy, covered, dark, guesses>>

\* Two hours go by.
TimePasses ==
  /\ device.power = "off"
  /\ device' = [device EXCEPT !.off = "old"]
  /\ dark' = TRUE
  /\ UNCHANGED <<initial, role, chal, policy, access, past, guesses>>

\* reboot that keeps the cache of an armed role whatever the downtime
MutantReboot(long) ==
  /\ "power" \in Occasions
  /\ chal' = [r \in Challenged |->
       IF ~device.tampered /\ Protected(r) THEN chal[r]
       ELSE [chal[r] EXCEPT !.cache = FALSE, !.armed = FALSE]]
  /\ device' = [device EXCEPT !.power = "on", !.off = "none"]
  /\ vouched' = [r \in Challenged |-> vouched[r] /\ covered[r] /\ ~dark /\ ~long]
  /\ dark' = FALSE
  /\ NewEpoch
  /\ UNCHANGED <<initial, role, policy, covered, guesses>>

\* reboot, with a simulated downtime of more than two hours or less.
Reboot(long) ==
  /\ "power" \in Occasions
  /\ LET over == long \/ device.off = "old"
     IN  chal' = [r \in Challenged |->
           IF ~device.tampered /\ Protected(r) /\ ~over THEN chal[r]
           ELSE [chal[r] EXCEPT !.cache = FALSE, !.armed = FALSE]]
  /\ device' = [device EXCEPT !.power = "on", !.off = "none"]
  /\ vouched' = [r \in Challenged |-> vouched[r] /\ covered[r] /\ ~dark /\ ~long]
  /\ dark' = FALSE
  /\ NewEpoch
  /\ UNCHANGED <<initial, role, policy, covered, guesses>>

Tamper ==
  /\ "tamper" \in Occasions
  /\ chal' = [r \in Challenged |-> [chal[r] EXCEPT !.cache = FALSE, !.armed = FALSE]]
  /\ device' = [device EXCEPT !.tampered = TRUE]
  /\ vouched' = [r \in Challenged |-> FALSE]
  /\ NewEpoch
  /\ UNCHANGED <<initial, role, policy, covered, dark, guesses>>

ClearTamper ==
  /\ "tamper" \in Occasions
  /\ device' = [device EXCEPT !.tampered = FALSE]
  /\ NewEpoch
  /\ UNCHANGED <<initial, role, chal, policy, past, dark, guesses>>

-----------------------------------------------------------------------------
(* The library and its sessions.                                           *)

rest == <<device, initial, role, chal, policy, past, dark, checking, guesses>>

\* What _check_device leaves of a client's sessions and logins.
Sessions(c) == IF lib[c].current THEN session[c] ELSE Closed
Kept(c) == IF lib[c].current THEN login[c] ELSE NoLogin

\* What _check_epoch leaves of its logins.
Logins(c) == IF lib[c].seen THEN login[c] ELSE NoLogin

\* get_role
Actor(c, s) == Logins(c)[s]

\* No login of the client is verifying a PIN.
Idle(c) == \A k \in checking : k.client # c

C_Initialize(c) ==
  /\ ~lib[c].up
  /\ lib' = [lib EXCEPT ![c].up = TRUE, ![c].current = TRUE]
  /\ UNCHANGED <<session, login, fresh, valid, rest>>

\* C_Finalize, or the end of the process, whose login manager ends with it.
\* Only the end of the process can come while it verifies a PIN.
C_Finalize(c) ==
  /\ lib[c].up
  /\ \E b \in IF Idle(c) THEN {lib[c].seen, FALSE} ELSE {FALSE} :
       lib' = [lib EXCEPT ![c] = [up |-> FALSE, current |-> FALSE, seen |-> b]]
  /\ session' = [session EXCEPT ![c] = Closed] /\ login' = [login EXCEPT ![c] = NoLogin]
  /\ fresh' = [fresh EXCEPT ![c] = Never] /\ valid' = [valid EXCEPT ![c] = Never]
  /\ checking' = {k \in checking : k.client # c}
  /\ UNCHANGED <<device, initial, role, chal, policy, past, dark, guesses>>

\* A call on a session after a device event: _check_device closes every
\* session and the call fails.
CallAfterEvent(c) ==
  /\ lib[c].up /\ ~lib[c].current
  /\ lib' = [lib EXCEPT ![c].current = TRUE]
  /\ session' = [session EXCEPT ![c] = Closed] /\ login' = [login EXCEPT ![c] = NoLogin]
  /\ UNCHANGED <<fresh, valid, rest>>

\* A login check outside the wrapped calls (get_role, is_logged_in, a login
\* that fails before its secret is looked at).
LoginCheck(c) ==
  /\ lib[c].up /\ ~lib[c].seen
  /\ lib' = [lib EXCEPT ![c].seen = TRUE]
  /\ login' = [login EXCEPT ![c] = NoLogin]
  /\ UNCHANGED <<session, fresh, valid, rest>>

C_OpenSession(c, s) ==
  /\ lib[c].up /\ Online /\ Sessions(c)[s] = "closed"
  /\ lib' = [lib EXCEPT ![c].current = TRUE]
  /\ session' = [session EXCEPT ![c] = [Sessions(c) EXCEPT ![s] = "public"]]
  /\ login' = [login EXCEPT ![c] = Kept(c)]
  /\ fresh' = [fresh EXCEPT ![c][s] = TRUE]
  /\ UNCHANGED <<valid, rest>>

\* Without clear_session.
MutantCloseSession(c, s) ==
  /\ lib[c].up /\ lib[c].current /\ session[c][s] # "closed"
  /\ session' = [session EXCEPT ![c][s] = "closed"]
  /\ fresh' = [fresh EXCEPT ![c][s] = FALSE] /\ valid' = [valid EXCEPT ![c][s] = FALSE]
  /\ UNCHANGED <<lib, login, rest>>

C_CloseSession(c, s) ==
  /\ lib[c].up /\ lib[c].current /\ session[c][s] # "closed"
  /\ session' = [session EXCEPT ![c][s] = "closed"]
  /\ login' = [login EXCEPT ![c][s] = None]
  /\ fresh' = [fresh EXCEPT ![c][s] = FALSE] /\ valid' = [valid EXCEPT ![c][s] = FALSE]
  /\ UNCHANGED <<lib, rest>>

C_CloseAllSessions(c) ==
  /\ lib[c].up
  /\ lib' = [lib EXCEPT ![c].current = TRUE]
  /\ session' = [session EXCEPT ![c] = Closed] /\ login' = [login EXCEPT ![c] = NoLogin]
  /\ fresh' = [fresh EXCEPT ![c] = Never] /\ valid' = [valid EXCEPT ![c] = Never]
  /\ UNCHANGED rest

C_Logout(c, s) ==
  /\ lib[c].up /\ lib[c].current /\ Online /\ session[c][s] # "closed"
  /\ lib' = [lib EXCEPT ![c].seen = TRUE]
  /\ session' = [session EXCEPT ![c][s] = "public"]
  /\ login' = [login EXCEPT ![c] = [Logins(c) EXCEPT ![s] = None]]
  /\ valid' = [valid EXCEPT ![c][s] = FALSE]
  /\ UNCHANGED <<fresh, rest>>

-----------------------------------------------------------------------------
(* Login.                                                                  *)

\* Without the check of the device.
MutantHasSession(c, s, r) == lib[c].up /\ session[c][s] # "closed"

\* The session exists.  C_Login checks the device first; LunaCM's LCO login
\* checked it before it prompted for the secret.
HasSession(c, s, r) ==
  /\ lib[c].up /\ session[c][s] # "closed"
  /\ lib[c].current \/ (r = "LCO" /\ "prompt" \in Occasions)

\* login gets as far as looking at the secret; the check for another role
\* forgotten.
MutantReaches(c, s, r) ==
  /\ HasSession(c, s, r) /\ Online
  /\ initial.initialized /\ initial.active /\ role[r].active
  /\ Logins(c)[s] = None

Reaches(c, s, r) ==
  /\ HasSession(c, s, r) /\ Online
  /\ initial.initialized /\ initial.active /\ role[r].active
  /\ Logins(c)[s] = None
  /\ \A t \in Sids : Logins(c)[t] \in {None, r}

Accept(c, s, r) ==
  /\ lib' = [lib EXCEPT ![c].seen = TRUE]
  /\ login' = [login EXCEPT ![c] = [Logins(c) EXCEPT ![s] = r]]
  /\ session' = [session EXCEPT ![c][s] = "user"]
  /\ valid' = [valid EXCEPT ![c][s] = TRUE]
  /\ UNCHANGED fresh

Reject(c) ==
  /\ lib' = [lib EXCEPT ![c].seen = TRUE]
  /\ login' = [login EXCEPT ![c] = Logins(c)]
  /\ UNCHANGED <<session, fresh, valid>>

\* A lock that comes one attempt late.
MutantMissed(entry, limit) ==
  [entry EXCEPT !.attempts = @ + 1, !.locked = entry.attempts >= limit]

\* A wrong challenge secret.
Missed(entry, limit) ==
  [entry EXCEPT !.attempts = @ + 1, !.locked = entry.attempts + 1 >= limit]

\* login up to verify_pin: the role is not locked, and its counter and the
\* stored limit are read.
LoginBegin(c, s, r) ==
  /\ AuthMode = "password" /\ Reaches(c, s, r) /\ role[r].pin /\ ~role[r].locked
  /\ lib' = [lib EXCEPT ![c].seen = TRUE]
  /\ login' = [login EXCEPT ![c] = Logins(c)]
  /\ valid' = [valid EXCEPT ![c][s] = TRUE]
  /\ checking' = checking \cup {[client |-> c, sid |-> s, role |-> r,
                                 attempts |-> role[r].attempts, limit |-> policy.attempts]}
  /\ UNCHANGED <<device, initial, role, chal, policy, session, past, dark, fresh, guesses>>

\* The PIN was right.
PinRight(k) ==
  /\ role' = [role EXCEPT ![k.role].attempts = 0]
  /\ guesses' = [guesses EXCEPT ![k.role] = 0]
  /\ session' = [session EXCEPT ![k.client][k.sid] = "user"]
  /\ login' = [login EXCEPT ![k.client][k.sid] = k.role]
  /\ UNCHANGED valid

\* The PIN was wrong, and the lock is written with the counter each time.
MutantPinWrong(k) ==
  /\ role' = [role EXCEPT ![k.role].attempts = k.attempts + 1,
                         ![k.role].locked = k.attempts + 1 >= k.limit]
  /\ guesses' = [guesses EXCEPT ![k.role] = @ + 1]
  /\ valid' = [valid EXCEPT ![k.client][k.sid] = FALSE]
  /\ UNCHANGED <<session, login>>

\* The PIN was wrong: the counter that was read, plus one, and the lock only
\* when that reaches the limit that was read.
PinWrong(k) ==
  /\ role' = [role EXCEPT ![k.role].attempts = k.attempts + 1,
                         ![k.role].locked = @ \/ k.attempts + 1 >= k.limit]
  /\ guesses' = [guesses EXCEPT ![k.role] = @ + 1]
  /\ valid' = [valid EXCEPT ![k.client][k.sid] = FALSE]
  /\ UNCHANGED <<session, login>>

\* login from verify_pin on, with whatever happened to the role meanwhile.
LoginEnd(k) ==
  /\ PinRight(k) \/ PinWrong(k)
  /\ checking' = checking \ {k}
  /\ UNCHANGED <<device, initial, chal, policy, lib, past, dark, fresh>>

NeedsChallenge(r) == r \in Challenged /\ policy.activation /\ chal[r].set

\* A PED role that does not use activation presents its quorum.
LoginWithQuorum(c, s, r) ==
  /\ AuthMode = "ped" /\ Reaches(c, s, r) /\ ~NeedsChallenge(r)
  /\ Accept(c, s, r)
  /\ UNCHANGED rest

\* _verify of a wrong secret.
MissedChallenge(entry) ==
  IF policy.ignore THEN entry
  ELSE LET missed == Missed(entry, policy.limit)
       IN  [missed EXCEPT !.cache = @ /\ ~missed.locked, !.armed = @ /\ ~missed.locked]

Counted(r) == [guesses EXCEPT ![r] = IF policy.ignore THEN @ ELSE @ + 1]

\* Activation: the challenge, and the quorum unless it is cached.
LoginWithChallenge(c, s, r, right, quorum) ==
  /\ AuthMode = "ped" /\ Reaches(c, s, r) /\ NeedsChallenge(r) /\ ~chal[r].locked
  /\ \/ /\ right /\ (chal[r].cache \/ quorum)
        /\ Accept(c, s, r)
        /\ chal' = [chal EXCEPT ![r] = [@ EXCEPT !.cache = TRUE, !.armed = policy.auto, !.attempts = 0]]
        /\ vouched' = [vouched EXCEPT ![r] = chal[r].cache => @]
        /\ covered' = [covered EXCEPT ![r] = policy.auto]
        /\ guesses' = [guesses EXCEPT ![r] = 0]
     \/ /\ right /\ ~chal[r].cache /\ ~quorum
        /\ Reject(c)
        /\ UNCHANGED <<chal, past, guesses>>
     \/ /\ ~right
        /\ Reject(c)
        /\ chal' = [chal EXCEPT ![r] = MissedChallenge(@)]
        /\ guesses' = Counted(r)
        /\ UNCHANGED past
  /\ UNCHANGED <<device, initial, role, policy, checking, dark>>

-----------------------------------------------------------------------------
(* PINs and roles.                                                         *)

\* set_pin
SetPin(r) ==
  /\ role' = [role EXCEPT ![r] = [pin |-> TRUE, active |-> TRUE, attempts |-> 0, locked |-> FALSE]]
  /\ guesses' = IF AuthMode = "password" THEN [guesses EXCEPT ![r] = 0] ELSE guesses

\* Challenge secrets of the whole partition forgotten.
Forget ==
  /\ chal' = [r \in Challenged |-> NoChallenge]
  /\ vouched' = [r \in Challenged |-> FALSE]

\* init_token by LunaSH "partition init" or C_InitToken.
InitToken ==
  /\ Forget /\ SetPin("SO")
  /\ initial' = [initial EXCEPT !.initialized = TRUE]
  /\ UNCHANGED <<device, policy, access, covered, dark>>

\* LunaSH "partition activate | deactivate".
SetPartitionActive(b) ==
  /\ initial' = [initial EXCEPT !.active = b]
  /\ UNCHANGED <<device, role, chal, policy, access, past, dark, guesses>>

\* "role init" and "role resetpw" of a role below the Partition SO.
ResetRole(c, s, r) ==
  /\ lib[c].up /\ Actor(c, s) = "SO" /\ r # "SO"
  /\ SetPin(r)
  /\ UNCHANGED <<device, initial, chal, policy, access, past, dark>>

ActivateRole(c, s, r) ==
  /\ AuthMode = "password" /\ lib[c].up /\ Actor(c, s) = "SO" /\ r # "SO" /\ role[r].pin
  /\ role' = [role EXCEPT ![r].active = TRUE]
  /\ UNCHANGED <<device, initial, chal, policy, access, past, dark, guesses>>

\* A PED role stays active, its cached quorum is dropped.
DeactivateRole(c, s, r) ==
  /\ lib[c].up /\ Actor(c, s) # None /\ r # "SO"
  /\ \/ /\ AuthMode = "password" /\ Actor(c, s) = "SO"
        /\ role' = [role EXCEPT ![r].active = FALSE]
        /\ UNCHANGED <<chal, vouched>>
     \/ /\ AuthMode = "ped"
        /\ chal' = [chal EXCEPT ![r] = [@ EXCEPT !.cache = FALSE, !.armed = FALSE]]
        /\ vouched' = [vouched EXCEPT ![r] = FALSE]
        /\ UNCHANGED role
  /\ UNCHANGED <<device, initial, policy, access, covered, dark, guesses>>

\* C_InitPIN, on any open session.
C_InitPIN(c, s) ==
  /\ "own pin" \in Occasions
  /\ lib[c].up /\ lib[c].current /\ Online /\ session[c][s] # "closed"
  /\ SetPin("CO")
  /\ UNCHANGED <<device, initial, chal, policy, access, past, dark>>

\* change_pin with the right old PIN, by "role changepw" or C_SetPIN.
ChangePin(r) ==
  /\ "own pin" \in Occasions
  /\ role[r].pin /\ (AuthMode = "ped" /\ r # "SO" => ~chal[r].set)
  /\ SetPin(r)
  /\ UNCHANGED <<device, initial, chal, policy, access, past, dark>>

\* _require_role
Activatable(r) == AuthMode = "ped" /\ Online /\ role[r].active /\ policy.activation

\* "role createchallenge" and "role resetchallenge".
CreateChallenge(c, s, r) ==
  /\ lib[c].up /\ Activatable(r)
  /\ Actor(c, s) = IF r = "CO" THEN "SO" ELSE "CO"
  /\ chal' = [chal EXCEPT ![r] = [NoChallenge EXCEPT !.set = TRUE]]
  /\ vouched' = [vouched EXCEPT ![r] = FALSE]
  /\ guesses' = [guesses EXCEPT ![r] = 0]
  /\ UNCHANGED <<device, initial, role, policy, access, covered, dark>>

\* "role changechallenge", "role changepw" and C_SetPIN of a role with a
\* challenge.
ChangeChallenge(c, s, r, right) ==
  /\ lib[c].up /\ Activatable(r) /\ Actor(c, s) = r /\ chal[r].set /\ ~chal[r].locked
  /\ IF right
     THEN /\ chal' = [chal EXCEPT ![r].attempts = 0]
          /\ guesses' = [guesses EXCEPT ![r] = 0]
     ELSE /\ chal' = [chal EXCEPT ![r] = MissedChallenge(@)]
          /\ guesses' = Counted(r)
  /\ UNCHANGED <<device, initial, role, policy, access, past, dark>>

-----------------------------------------------------------------------------
(* Policies.                                                               *)

PolicySet == [ignore : BOOLEAN, activation : BOOLEAN, auto : BOOLEAN,
              limit : Limits, attempts : Limits]

\* set_partition_policies with its policy_changed.
MutantSetPolicies(p) ==
  /\ policy' = p
  /\ chal' = [r \in Challenged |-> [chal[r] EXCEPT !.cache = @ /\ p.activation]]
  /\ vouched' = [r \in Challenged |-> vouched[r] /\ p.activation]
  /\ covered' = [r \in Challenged |-> covered[r] /\ p.auto]

SetPolicies(p) ==
  /\ policy' = p
  /\ chal' = [r \in Challenged |->
       [chal[r] EXCEPT !.cache = @ /\ p.activation, !.armed = @ /\ p.activation /\ p.auto]]
  /\ vouched' = [r \in Challenged |-> vouched[r] /\ p.activation]
  /\ covered' = [r \in Challenged |-> covered[r] /\ p.auto]

\* With the attempt limit stored the way policy 25 is, as 255 - n.
MutantChangePolicy ==
  /\ \/ \E x \in Switches, b \in BOOLEAN : SetPolicies([policy EXCEPT ![x] = b])
     \/ \E n \in Limits : SetPolicies([policy EXCEPT !.limit = n, !.attempts = 255 - n])
  /\ UNCHANGED <<device, initial, role, access, dark, guesses>>

\* change_policy keeps the attempt limit of the partition equal to policy 20.
ChangePolicy ==
  /\ \/ \E x \in Switches, b \in BOOLEAN : SetPolicies([policy EXCEPT ![x] = b])
     \/ \E n \in Limits : SetPolicies([policy EXCEPT !.limit = n, !.attempts = n])
  /\ UNCHANGED <<device, initial, role, access, dark, guesses>>

\* apply_policy_template writes several policies at once, and only them.
ApplyTemplate ==
  /\ "template" \in Occasions
  /\ \E p \in PolicySet :
       /\ p.attempts = policy.attempts
       /\ \A x \in SwitchNames \ Switches : p[x] = policy[x]
       /\ SetPolicies(p)
  /\ UNCHANGED <<device, initial, role, access, dark, guesses>>

-----------------------------------------------------------------------------

Init ==
  /\ device = [power |-> "on", off |-> "none", tampered |-> FALSE]
  /\ initial = [initialized |-> FALSE, active |-> TRUE]
  /\ role = [r \in Roles |-> NoRole] /\ chal = [r \in Challenged |-> NoChallenge]
  /\ \E n \in Limits :
       policy = [ignore |-> TRUE, activation |-> FALSE, auto |-> FALSE, limit |-> n, attempts |-> n]
  /\ lib = [c \in Clients |-> [up |-> FALSE, current |-> FALSE, seen |-> FALSE]]
  /\ session = [c \in Clients |-> Closed] /\ login = [c \in Clients |-> NoLogin]
  /\ checking = {}
  /\ vouched = [r \in Challenged |-> FALSE] /\ covered = [r \in Challenged |-> FALSE]
  /\ dark = FALSE
  /\ fresh = [c \in Clients |-> Never] /\ valid = [c \in Clients |-> Never]
  /\ guesses = [r \in Roles |-> 0]

DeviceEvent ==
  PowerOff \/ TimePasses \/ (\E b \in BOOLEAN : Reboot(b)) \/ Tamper \/ ClearTamper

LibraryCall(c) ==
  \/ C_Initialize(c) \/ CallAfterEvent(c) \/ LoginCheck(c)
  \/ C_CloseAllSessions(c)
  \/ \E s \in Sids : C_OpenSession(c, s) \/ C_CloseSession(c, s) \/ C_Logout(c, s)

Login(c, s, r) ==
  \/ LoginBegin(c, s, r) \/ LoginWithQuorum(c, s, r)
  \/ \E right, quorum \in BOOLEAN : LoginWithChallenge(c, s, r, right, quorum)

Manage(c, s, r) ==
  \/ ResetRole(c, s, r) \/ ActivateRole(c, s, r) \/ DeactivateRole(c, s, r)
  \/ CreateChallenge(c, s, r) \/ \E right \in BOOLEAN : ChangeChallenge(c, s, r, right)

Next ==
  \/ DeviceEvent \/ InitToken \/ ChangePolicy \/ ApplyTemplate
  \/ \E b \in BOOLEAN : SetPartitionActive(b)
  \/ \E r \in Roles : ChangePin(r)
  \/ \E k \in checking : LoginEnd(k)
  \/ \E c \in Clients : C_Finalize(c)
  \/ \E c \in {d \in Clients : Idle(d)} :
       \/ LibraryCall(c)
       \/ \E s \in Sids : \/ C_InitPIN(c, s)
                          \/ \E r \in Roles : Login(c, s, r)
                          \/ \E r \in Challenged : Manage(c, s, r)

Spec == Init /\ [][Next]_vars


-----------------------------------------------------------------------------
(* Properties.                                                             *)

\* Every variable has its shape.
TypeOK ==
  /\ device \in Device
  /\ initial \in [initialized : BOOLEAN, active : BOOLEAN]
  /\ role \in [Roles -> RoleEntry] /\ chal \in [Challenged -> ChallengeEntry]
  /\ policy \in PolicySet
  /\ lib \in [Clients -> Library]
  /\ session \in [Clients -> [Sids -> {"closed", "public", "user"}]]
  /\ login \in [Clients -> [Sids -> Roles \cup {None}]]
  /\ checking \subseteq PinCheck
  /\ vouched \in [Challenged -> BOOLEAN] /\ covered \in [Challenged -> BOOLEAN]
  /\ dark \in BOOLEAN
  /\ fresh \in [Clients -> [Sids -> BOOLEAN]] /\ valid \in [Clients -> [Sids -> BOOLEAN]]
  /\ guesses \in [Roles -> Nat]

\* The cache is nothing but the quorum: a role logs in with its challenge
\* alone only if a quorum was presented for it since the last tamper, lock,
\* deactivation, new challenge or time without policy 22, and every loss of
\* power since fell under auto-activation and lasted two hours at most.
QuorumVouched == \A r \in Challenged : chal[r].cache => vouched[r]

\* auto_armed is never left behind: it means that a quorum is cached and
\* that policies 22 and 23 are on, whichever of poweroff, policy_changed,
\* deactivate and the lock of _verify came last.
ArmedIsCached ==
  \A r \in Challenged :
    chal[r].armed => chal[r].cache /\ ~chal[r].locked /\ policy.activation /\ policy.auto

\* A role that get_role reports was authenticated after the last reboot,
\* power loss or tamper, although the library and the login manager learn of
\* the event at different calls.
AuthorityIsCurrent ==
  \A c \in Clients, s \in Sids : Actor(c, s) # None => valid[c][s]

\* A device event ends every session: no session opened before it acts in a
\* role after it (_check_device, README.md:667).
SessionsEndWithDevice ==
  \A c \in Clients, s \in Sids : Actor(c, s) # None => fresh[c][s]

\* While a client has seen the last event, its session objects and its login
\* manager agree on who is logged in.
ReportedState ==
  \A c \in Clients, s \in Sids :
    lib[c].up /\ lib[c].current => (session[c][s] = "user" <=> login[c][s] # None)

\* The sessions of a client are logged in to one role of the partition at a
\* time (CKR_USER_ANOTHER_ALREADY_LOGGED_IN).
OneRole ==
  \A c \in Clients : \A s, t \in Sids :
    Logins(c)[s] # None /\ Logins(c)[t] # None => Logins(c)[s] = Logins(c)[t]

\* With one client, no role takes more wrong secrets than the largest limit
\* between two successes or resets, whatever happens to its policies, its lock
\* and its activation meanwhile (auth.py login, activation.py _verify).
AttemptsBounded == \A r \in Roles : \E n \in Limits : guesses[r] <= n

Locked(r) == IF AuthMode = "password" THEN role[r].locked ELSE r # "SO" /\ chal[r].locked

\* "Max failed user logins allowed" (hsm/policies.py:167): the wrong secret
\* that reaches the limit of policy 20 locks the role.
LockedAtPolicyLimit ==
  [][\A r \in Roles : guesses'[r] > guesses[r] /\ guesses'[r] >= policy.limit => Locked(r)']_vars

\* A lock is lifted by a new PIN and by nothing else: a login that read the
\* role before it was locked, right or wrong, writes nothing back that opens
\* it again (the columns login gives update_partition).
LockStays ==
  [][\A r \in Roles : role[r].locked /\ ~role'[r].locked => SetPin(r) /\ UNCHANGED checking]_vars
=============================================================================
