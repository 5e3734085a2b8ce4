------------------------------ MODULE MCServer ------------------------------
(***************************************************************************)
(* Small instances of Server with two clients, of which one ends with      *)
(* REQ_EXIT, so that its descriptor is used again, and the other may       *)
(* vanish; one connection at a time waits to be accepted.  Two workers     *)
(* serve them, or, so that there are more clients than workers, only one.  *)
(* The room of the queue is used up on the way.  As in the program the log *)
(* file has descriptor 3, the socket 4, the pipe 5 and 6.                  *)
(***************************************************************************)
EXTENDS Server

CONSTANTS w1, w2

MCWorkers == {w1, w2}
MCOneWorker == {w1}
MCFds == {7, 8}
MCMortal == {8}
MCSocketFd == 4
MCPipeFd == 5
MCMaxPending == 1
MCMaxRequests == 4
MCMoreRequests == 6
=============================================================================
