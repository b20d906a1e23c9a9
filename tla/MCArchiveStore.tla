--------------------------- MODULE MCArchiveStore ---------------------------
(* Small instances of ArchiveStore for TLC. *)
EXTENDS ArchiveStore, TLC

CONSTANTS p1, p2, v1, v2, a1, a2

Symmetry == Permutations(Proc) \union Permutations(Inode)
InodeSymmetry == Permutations(Inode)

NoSums == [v \in Version |-> Absent]
OneSum == [NoSums EXCEPT ![v1] = a1]

LookupOps == [p \in Proc |-> {"lookup", "lookupLatest", "put", "setLatest"}]

CacheCommandOps == [p \in Proc |->
    IF p = p1 THEN {"lookup", "put", "setLatest"} ELSE {"put", "removeVersion", "removeModule"}]
=============================================================================
