------------------------------ MODULE MCStorage ------------------------------
(***************************************************************************)
(* Two small instances of Storage, both with two bytes of space and        *)
(* requests that carry no byte (an empty file), one, two, or more than     *)
(* fits.                                                                   *)
(*                                                                         *)
(* Space: one client and four paths, of which three can be stored: the     *)
(* FIFO loses its tail with files left in it, both evictions happen, of    *)
(* one file and of several, also of the file being written.                *)
(*                                                                         *)
(* Sharing: two clients and three paths, of which two can be stored: locks *)
(* and opens of two clients meet, the openers of a file lose their tail,   *)
(* and removeFd runs off their end.                                        *)
(*                                                                         *)
(* No action reads sent, so MCView leaves it out of the fingerprint; the   *)
(* action properties speak of sent' and are evaluated on every step, also  *)
(* on those that lead to a state seen before.  Paths are interchangeable.  *)
(* Clients are not: accept picks the lowest fd.                            *)
(***************************************************************************)
EXTENDS Storage

CONSTANTS p1, p2, p3, p4

MCSpaceClients == {7}
MCSpacePaths == {p1, p2, p3, p4}
MCSpaceFiles == 3

MCSharingClients == {7, 8}
MCSharingPaths == {p1, p2, p3}
MCSharingFiles == 2

MCMaxSize == 2
MCSizes == 0 .. 3
MCCounts == {0, 1}
MCMaxOpens == 2

MCView == <<store, conn, writing, status>>
MCSymmetry == Permutations(Paths)
=============================================================================
