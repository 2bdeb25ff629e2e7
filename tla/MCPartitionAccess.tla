------------------------- MODULE MCPartitionAccess -------------------------
(* PartitionAccess on small sets, for TLC. *)
EXTENDS PartitionAccess, TLC

AllSwitches == {"ignore", "activation", "auto"}
NoSwitches == {}
AllOccasions == {"power", "tamper", "prompt", "own pin", "template"}

\* The clients are interchangeable, and so are the session handles.
Symmetric == Permutations(Clients) \cup Permutations(Sids)
=============================================================================
