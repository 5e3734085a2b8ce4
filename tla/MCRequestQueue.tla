--------------------------- MODULE MCRequestQueue ---------------------------
(***************************************************************************)
(* A small instance of RequestQueue: three workers, so that broadcasts     *)
(* wake several sleepers of whom one finds the list empty again, two       *)
(* client fds, and a capacity of four requests, which the main thread can  *)
(* fill and exhaust.                                                       *)
(***************************************************************************)
EXTENDS RequestQueue

CONSTANTS w1, w2, w3, fd1, fd2

MCWorkers == {w1, w2, w3}
MCFds == {fd1, fd2}
MCCapacity == 4
=============================================================================
