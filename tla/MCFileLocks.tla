----------------------------- MODULE MCFileLocks -----------------------------
(***************************************************************************)
(* A small instance of FileLocks: three workers, so that a reader, one     *)
(* that waits for it and a third one meet, and three File objects, so that *)
(* an eviction frees one while others are in use.  Workers are             *)
(* interchangeable, and so are Files.                                      *)
(***************************************************************************)
EXTENDS FileLocks

CONSTANTS w1, w2, w3, f1, f2, f3

MCWorkers == {w1, w2, w3}
MCFiles == {f1, f2, f3}
MCSymmetry == Permutations(Workers) \cup Permutations(Files)
=============================================================================
