-------------------------- MODULE LogicalKeyStore --------------------------
(***************************************************************************)
(* What an HA group promises to the application behind its virtual slot    *)
(* (README "High Availability"): it behaves like one key store, in which   *)
(* only the application's own writes and deletions change anything.        *)
(***************************************************************************)
EXTENDS Naturals

CONSTANTS Keys

VARIABLES
  content,  \* per key, the write that is visible, 0 when there is no such key
  writes    \* per key, the number of writes so far

Init == content = [k \in Keys |-> 0] /\ writes = [k \in Keys |-> 0]

\* A key is created once, under a fresh identity, and changed while it exists.
Write(k) ==
  /\ writes[k] = 0 \/ content[k] > 0
  /\ writes' = [writes EXCEPT ![k] = @ + 1]
  /\ content' = [content EXCEPT ![k] = writes[k] + 1]

Destroy(k) ==
  /\ content[k] > 0
  /\ content' = [content EXCEPT ![k] = 0]
  /\ UNCHANGED writes

Next == \E k \in Keys : Write(k) \/ Destroy(k)

Spec == Init /\ [][Next]_<<content, writes>>
============================================================================
