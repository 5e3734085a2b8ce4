----------------------------- MODULE LinkedLists -----------------------------
(***************************************************************************)
(* The two singly linked lists of storage.c: FdList (openers and lock      *)
(* waiters of a file) and FilepathList (the FIFO of stored paths).  Both   *)
(* keep a head and a tail pointer, and both forget to move the tail when   *)
(* they unlink the last of several nodes: tail then points to freed        *)
(* memory, and a later append hangs its node on it, where no traversal     *)
(* from head finds it.  A list is therefore the sequence of the elements   *)
(* reachable from head, with a flag: does tail point to the last of them?  *)
(* An empty list is always in order, since every append tests head first   *)
(* (storage.c:24) or both pointers have been reset (storage.c:264, 282).   *)
(***************************************************************************)
EXTENDS Integers, SequencesExt

List(S) == [items : Seq(S), tailok : BOOLEAN]

EmptyList == [items |-> <<>>, tailok |-> TRUE]

Elements(l) == ToSet(l.items)

(* No element is in the list twice.                                        *)
Distinct(l) == \A i, j \in DOMAIN l.items : l.items[i] = l.items[j] => i = j

(* The list names p before q.                                              *)
Before(l, p, q) ==
    \E i, j \in DOMAIN l.items : i < j /\ l.items[i] = p /\ l.items[j] = q

(* tail points to freed memory.                                            *)
Dangling(l) == l.items # <<>> /\ ~l.tailok

(* putFd and addFilepath.                                                  *)
PutFirst(l, e) == [l EXCEPT !.items = <<e>> \o @]   \* mutant: at the head
PutLast(l, e) ==
    IF Dangling(l) THEN l ELSE [items |-> Append(l.items, e), tailok |-> TRUE]

(* getFirstFd and popFilepathList, of a list that is not empty.            *)
PeekFirst(l) == l                                   \* mutant: the head stays linked
DropFirst(l) ==
    [items |-> Tail(l.items), tailok |-> l.tailok \/ Len(l.items) = 1]

(* The place of the first occurrence of e, the one the traversals find.    *)
FirstIndex(s, e) ==
    CHOOSE i \in DOMAIN s : s[i] = e /\ \A j \in 1 .. i - 1 : s[j] # e

(* The unlinking of removeFd and deleteFilepathNode, of an element that is *)
(* in the list: the head is unlinked safely, any other last node leaves    *)
(* tail behind.                                                            *)
Unlink(l, e) ==
    LET i == FirstIndex(l.items, e)
    IN  [items |-> RemoveAt(l.items, i),
         tailok |-> IF i = Len(l.items) THEN i = 1 ELSE l.tailok]

(* removeFd leaves a list without the fd alone when it has at most one     *)
(* node; its loop runs off the end of a longer one (storage.c:72).         *)
removeFdLong(l, fd) ==                              \* mutant: a single node stays
    IF fd \in Elements(l) /\ Len(l.items) > 1 THEN Unlink(l, fd) ELSE l
removeFd(l, fd) == IF fd \in Elements(l) THEN Unlink(l, fd) ELSE l

RemoveFdFaults(l, fd) == fd \notin Elements(l) /\ Len(l.items) >= 2

(* deleteFilepathNode dereferences a null successor when the path is not   *)
(* in a list that is not empty (storage.c:294).                            *)
deleteFilepathNode(l, path) == IF path \in Elements(l) THEN Unlink(l, path) ELSE l

DeletePathFaults(l, path) == path \notin Elements(l) /\ l.items # <<>>
==============================================================================
