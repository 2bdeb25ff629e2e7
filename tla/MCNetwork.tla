------------------------------ MODULE MCNetwork ------------------------------
(* Network on small sets, for TLC.  The shell's groups of documents do not    *)
(* read each other, so a behaviour is explored within one group, chosen      *)
(* at the start: the states add up instead of multiplying.                   *)
EXTENDS Network, TLC

VARIABLE focus   \* "accounts", "settings", "links" or "certificates"

\* Settings are explored from a state where an administrator and an operator
\* are logged in, links and certificates from one with the administrator, who
\* may be stopped and comes back (links are converted in both); nothing more is
\* tried once a counter is lost, when numbers repeat and the properties of
\* numbers no longer speak.
In(n) == [name |-> n, account |-> [role |-> n, password |-> "p1", enabled |-> TRUE]]

MCInit ==
  /\ NetInit /\ focus \in {"accounts", "settings", "links", "certificates"}
  /\ service = [s \in Services |-> s = "ntls"]
  /\ bound = {"eth0"}
  /\ stcConfig = [enabled |-> FALSE, cipher |-> "AES-256-GCM", hmac |-> TRUE,
                  rekey |-> 1000000, timeout |-> 300]
  /\ IF focus = "accounts" THEN ShellInit
     ELSE /\ me = [t \in Terminals |-> IF t = "t1" THEN In("admin")
                                      ELSE IF focus = "settings" THEN In("operator") ELSE Nobody]
          /\ account = [n \in Names |-> IF n \in {"admin", "operator"} THEN In(n).account
                                        ELSE Nobody]

MCNext ==
  /\ UNCHANGED focus
  /\ \E t \in Terminals :
       \/ focus = "accounts" /\ AccountStep(t) /\ UNCHANGED netVars
       \/ focus = "settings" /\ SettingStep(t) /\ UNCHANGED netVars
       \/ focus = "settings" /\ ClientCommand(t)
       \/ focus = "links" /\ "counter" \notin torn
            /\ (NtlsConnection(t) \/ StcIdentity(t) \/ StcConnection(t))
       \/ focus = "certificates" /\ "counter" \notin torn
            /\ (RegenerateCert(t) \/ NtlsConnection(t))
       \/ focus \in {"links", "certificates"} /\ t = "t1" /\ UNCHANGED netVars
            /\ (Login(t, "admin", "p1") \/ Logout(t))

\* The clients are interchangeable.
Symmetric == Permutations(Clients)

MCSpec == MCInit /\ [][MCNext]_<<vars, focus>>
=============================================================================
