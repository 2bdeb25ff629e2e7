------------------------------ MODULE MCHAGroup ------------------------------
(* HAGroup on small sets, for TLC. *)
EXTENDS HAGroup, TLC

Automatic == {"automatic"}
BothRecoveries == {"automatic", "manual"}
RoundRobin == {"round-robin"}
BothModes == {"round-robin", "active-standby"}

Unlimited == {-1}
Budgets == {-1, 1}  \* TLC's cfg syntax has no negative numbers

Calm == {}
OnlyOutage == {"outage"}
OutageAndShell == {"outage", "shell"}
AllHazards == HazardKinds

\* The slots are interchangeable, and so are the keys.
Symmetric == Permutations(Slots) \cup Permutations(Keys)
==============================================================================
