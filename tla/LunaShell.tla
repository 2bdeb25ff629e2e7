------------------------------ MODULE LunaShell ------------------------------
(***************************************************************************)
(* The appliance shell (cli/lunash_commands.py over hsm/appliance.py): the *)
(* accounts, the terminals logged in to them, and the settings of the      *)
(* services.  Accounts and settings are JSON documents every terminal      *)
(* shares; who is logged in is kept by each terminal's own process, as the *)
(* account looked when it logged in.                                       *)
(***************************************************************************)
EXTENDS Integers

CONSTANTS
  Terminals,    \* running shells, one process each
  Names,        \* account names
  Passwords,    \* passwords anyone types
  NoPassword,   \* an account whose password was never set
  Nobody,       \* a terminal not logged in; an account that does not exist
  Interfaces,   \* what NTLS can be bound to
  Ciphers,      \* the ciphers STC knows
  Numbers       \* the thresholds and timeouts anyone enters

ASSUME ShellAssumption ==
  /\ "admin" \in Names
  /\ NoPassword \notin Passwords
  /\ Numbers \subseteq Int
  /\ "eth0" \in Interfaces
  /\ "AES-256-GCM" \in Ciphers

VARIABLES
  account,    \* the account document: name -> account or Nobody
  me,         \* terminal -> the account it logged in to, as it was then
  service,    \* service -> is it running
  bound,      \* the interfaces NTLS listens on
  stcConfig   \* the configuration of STC

shellVars == <<account, me, service, bound, stcConfig>>

Roles == {"admin", "operator", "monitor", "audit"}

Account == [role : Roles, password : Passwords \cup {NoPassword}, enabled : BOOLEAN]

\* No account is taken for a missing one.
ASSUME AccountAssumption == Nobody \notin Account

Services == {"ntls", "stc"}

\* The appliance as it is delivered: the four default users (those among the
\* names considered), none with a password.
ShellInit ==
  /\ account = [n \in Names |-> IF n \in Roles
                                THEN [role |-> n, password |-> NoPassword, enabled |-> TRUE]
                                ELSE Nobody]
  /\ me = [t \in Terminals |-> Nobody]
  /\ service = [s \in Services |-> s = "ntls"]
  /\ bound = {"eth0"}
  /\ stcConfig = [enabled |-> FALSE, cipher |-> "AES-256-GCM", hmac |-> TRUE,
                  rekey |-> 1000000, timeout |-> 300]

Exists(n) == account[n] # Nobody

ShellTypeOK ==
  /\ account \in [Names -> Account \cup {Nobody}]
  /\ me \in [Terminals -> [name : Names, account : Account] \cup {Nobody}]
  /\ service \in [Services -> BOOLEAN]
  /\ bound \subseteq Interfaces
  /\ stcConfig \in [enabled : BOOLEAN, cipher : Ciphers, hmac : BOOLEAN,
                    rekey : Int, timeout : Int]

\* The role of the account as it was at login, whatever became of it since.
CheckRole(t, allowed) == me[t] # Nobody /\ me[t].account.role \in allowed

Settings == <<service, bound, stcConfig>>

(***************************************************************************)
(* Accounts                                                                *)
(***************************************************************************)
Login(t, n, p) ==
  LET a == account[n]
      in_ == [a EXCEPT !.password = p] IN
  /\ me[t] = Nobody
  /\ Exists(n) /\ a.enabled
  /\ a.password \in {NoPassword, p}
  /\ account' = [account EXCEPT ![n] = in_]
  /\ me' = [me EXCEPT ![t] = [name |-> n, account |-> in_]]
  /\ UNCHANGED Settings

Logout(t) ==
  /\ me[t] # Nobody
  /\ me' = [me EXCEPT ![t] = Nobody]
  /\ UNCHANGED <<account, Settings>>

\* An empty initial password leaves it to the first login.
AddUser(t, n, r, p) ==
  /\ CheckRole(t, {"admin"})
  /\ ~Exists(n)
  /\ account' = [account EXCEPT ![n] = [role |-> r, password |-> p, enabled |-> TRUE]]
  /\ UNCHANGED <<me, Settings>>

DeleteUser(t, n) ==
  /\ CheckRole(t, {"admin"})
  /\ Exists(n) /\ n # "admin"
  /\ account' = [account EXCEPT ![n] = Nobody]
  /\ UNCHANGED <<me, Settings>>

EnableUser(t, n) ==
  /\ CheckRole(t, {"admin"})
  /\ Exists(n)
  /\ account' = [account EXCEPT ![n].enabled = TRUE]
  /\ UNCHANGED <<me, Settings>>

DisableUser(t, n) ==
  /\ CheckRole(t, {"admin"})
  /\ Exists(n) /\ n # "admin"
  /\ account' = [account EXCEPT ![n].enabled = FALSE]
  /\ UNCHANGED <<me, Settings>>

\* Any terminal that is logged in may set a password; the terminals logged in
\* to that account keep the one they know.
SetUserPassword(t, n, p) ==
  /\ me[t] # Nobody
  /\ Exists(n)
  /\ account' = [account EXCEPT ![n].password = p]
  /\ UNCHANGED <<me, Settings>>

\* The old password is compared with the one the terminal remembers.
SetMyPassword(t, old, new) ==
  LET n == me[t].name IN
  /\ me[t] # Nobody
  /\ me[t].account.password = old
  /\ me' = [me EXCEPT ![t].account.password = new]
  /\ account' = IF Exists(n) THEN [account EXCEPT ![n].password = new] ELSE account
  /\ UNCHANGED Settings

(***************************************************************************)
(* Services and settings                                                   *)
(***************************************************************************)
StartService(t, s) ==
  /\ CheckRole(t, {"admin", "operator"})
  /\ service' = [service EXCEPT ![s] = TRUE]
  /\ UNCHANGED <<account, me, bound, stcConfig>>

StopService(t, s) ==
  /\ CheckRole(t, {"admin", "operator"})
  /\ service' = [service EXCEPT ![s] = FALSE]
  /\ UNCHANGED <<account, me, bound, stcConfig>>

\* "all" taken for the name of an interface.
MutantBindInterface(t, i) ==
  /\ CheckRole(t, {"admin"})
  /\ bound' = bound \cup {i}
  /\ UNCHANGED <<account, me, service, stcConfig>>

BindInterface(t, i) ==
  /\ CheckRole(t, {"admin"})
  /\ bound' = IF i = "all" THEN Interfaces ELSE bound \cup {i}
  /\ UNCHANGED <<account, me, service, stcConfig>>

UnbindInterface(t, i) ==
  /\ CheckRole(t, {"admin"})
  /\ i \in bound /\ bound # {i}
  /\ bound' = bound \ {i}
  /\ UNCHANGED <<account, me, service, stcConfig>>

EnableStc(t) ==
  /\ CheckRole(t, {"admin"})
  /\ stcConfig' = [stcConfig EXCEPT !.enabled = TRUE]
  /\ service' = [service EXCEPT !["stc"] = TRUE]
  /\ UNCHANGED <<account, me, bound>>

DisableStc(t) ==
  /\ CheckRole(t, {"admin"})
  /\ stcConfig' = [stcConfig EXCEPT !.enabled = FALSE]
  /\ service' = [service EXCEPT !["stc"] = FALSE]
  /\ UNCHANGED <<account, me, bound>>

SetStcCipher(t, c) ==
  /\ CheckRole(t, {"admin"})
  /\ stcConfig' = [stcConfig EXCEPT !.cipher = c]
  /\ UNCHANGED <<account, me, service, bound>>

SetStcHmac(t, on) ==
  /\ CheckRole(t, {"admin"})
  /\ stcConfig' = [stcConfig EXCEPT !.hmac = on]
  /\ UNCHANGED <<account, me, service, bound>>

SetStcRekeyThreshold(t, n) ==
  /\ CheckRole(t, {"admin"})
  /\ n >= 1000
  /\ stcConfig' = [stcConfig EXCEPT !.rekey = n]
  /\ UNCHANGED <<account, me, service, bound>>

SetStcActivationTimeout(t, n) ==
  /\ CheckRole(t, {"admin"})
  /\ n >= 10 /\ n <= 3600
  /\ stcConfig' = [stcConfig EXCEPT !.timeout = n]
  /\ UNCHANGED <<account, me, service, bound>>
=============================================================================
