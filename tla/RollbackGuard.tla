--------------------------- MODULE RollbackGuard ---------------------------
(***************************************************************************)
(* What the persisted checksum-database checkpoint promises (D-029 of      *)
(* .agents/plans/gotools-module-cache-stack.md, "to detect rollback or     *)
(* inconsistent histories"): the recorded tree only grows, and no process  *)
(* believes in a tree that is not recorded for the processes after it.     *)
(***************************************************************************)
EXTENDS Naturals

CONSTANT Client

VARIABLES
    recorded,   \* size of the recorded tree
    accepted    \* the tree each client's verification ended with, or 0

Init ==
    /\ recorded = 0
    /\ accepted = [c \in Client |-> 0]

Record ==
    /\ recorded' \in Nat
    /\ recorded' > recorded
    /\ UNCHANGED accepted

Accept(c) ==
    /\ \E n \in 0..recorded : accepted' = [accepted EXCEPT ![c] = n]
    /\ UNCHANGED recorded

Next == Record \/ \E c \in Client : Accept(c)

Spec == Init /\ [][Next]_<<recorded, accepted>>
=============================================================================
