-------------------------- MODULE MCChecksumState --------------------------
(* Small instances of ChecksumState for TLC. *)
EXTENDS ChecksumState, TLC

CONSTANTS c1, c2, c3

Interchangeable == Permutations({c2, c3})
=============================================================================
