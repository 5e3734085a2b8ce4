------------------------------ MODULE FileStore ------------------------------
(***************************************************************************)
(* What the storage promises about the files it holds: at most MaxFiles of *)
(* them and at most MaxSize bytes in all, a file is created empty, filled  *)
(* once, and from then on only grows, until it is dropped.  Storage.tla is *)
(* shown to implement this specification.                                  *)
(***************************************************************************)
EXTENDS Integers, FiniteSets

CONSTANTS Paths, MaxFiles, MaxSize

VARIABLE size       \* the size of every stored file, a function of their paths

Stored == DOMAIN size
Total(f) == Cardinality(UNION {{p} \X (1 .. f[p]) : p \in DOMAIN f})

Init == size = [p \in {} |-> 0]

(* A new empty file, in place of the files in gone if there are any.       *)
Create(p, gone) ==
    /\ p \notin Stored
    /\ gone \subseteq Stored
    /\ Cardinality(Stored \ gone) < MaxFiles
    /\ size' = [q \in (Stored \ gone) \cup {p} |-> IF q = p THEN 0 ELSE size[q]]

Drop(p) ==
    /\ p \in Stored
    /\ size' = [q \in Stored \ {p} |-> size[q]]

(* A file that is still empty is filled.                                   *)
Fill(p, n) ==
    /\ p \in Stored
    /\ size[p] = 0
    /\ size' = [size EXCEPT ![p] = n]
    /\ Total(size') <= MaxSize

(* A file that has been filled grows.                                      *)
Grow(p, n) ==
    /\ p \in Stored
    /\ size[p] > 0
    /\ size' = [size EXCEPT ![p] = @ + n]
    /\ Total(size') <= MaxSize

Next ==
    \E p \in Paths :
        \/ \E gone \in SUBSET Stored : Create(p, gone)
        \/ Drop(p)
        \/ \E n \in 1 .. MaxSize : Fill(p, n) \/ Grow(p, n)

Spec == Init /\ [][Next]_size
==============================================================================
