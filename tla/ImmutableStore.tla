--------------------------- MODULE ImmutableStore ---------------------------
(***************************************************************************)
(* What the module archive cache promises its users for one module:        *)
(* a version is stored whole and never changes while it is stored, the     *)
(* first archive stored for a version wins, latest names a stored version, *)
(* removing a version takes a latest that names it along, and a lookup     *)
(* answers with what is stored (design decisions D-003, D-007, D-009 and   *)
(* D-018 of .agents/plans/gotools-module-cache-stack.md).                  *)
(***************************************************************************)
CONSTANTS Proc, Version, Archive, Absent, NoVersion

VARIABLES
    stored,   \* the archive stored for each version, or Absent
    latest,   \* the version recorded as latest, or NoVersion
    answer    \* the archive each client's last lookup found, or Absent

Init ==
    /\ stored = [v \in Version |-> Absent]
    /\ latest = NoVersion
    /\ answer = [p \in Proc |-> Absent]

Store(v, a) ==
    /\ stored[v] = Absent
    /\ stored' = [stored EXCEPT ![v] = a]
    /\ UNCHANGED <<latest, answer>>

RecordLatest(v) ==
    /\ stored[v] # Absent
    /\ latest' = v
    /\ UNCHANGED <<stored, answer>>

Remove(v) ==
    /\ stored' = [stored EXCEPT ![v] = Absent]
    /\ latest' = IF latest = v THEN NoVersion ELSE latest
    /\ UNCHANGED answer

Answer(p, v) ==
    /\ stored[v] # Absent
    /\ answer' = [answer EXCEPT ![p] = stored[v]]
    /\ UNCHANGED <<stored, latest>>

Forget(p) ==
    /\ answer' = [answer EXCEPT ![p] = Absent]
    /\ UNCHANGED <<stored, latest>>

Next ==
    \/ \E v \in Version :
         \/ \E a \in Archive : Store(v, a)
         \/ RecordLatest(v)
         \/ Remove(v)
         \/ \E p \in Proc : Answer(p, v)
    \/ \E p \in Proc : Forget(p)

Spec == Init /\ [][Next]_<<stored, latest, answer>>
=============================================================================
