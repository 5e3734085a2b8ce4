-------------------------------- MODULE Rounds --------------------------------
(***************************************************************************)
(* What the dispatching of the server promises: every client is in one     *)
(* place and goes its round from there, one client and one leg at a time,  *)
(* from the main thread into the queue, from the queue to a worker, from   *)
(* the worker through the pipe back to the main thread.  It comes in with  *)
(* a connection and leaves from a worker, and one client at most is ever   *)
(* lost.  Nothing is said about who is next.                               *)
(***************************************************************************)
CONSTANT Clients

VARIABLE place      \* of each client

Places == {"away", "main", "queue", "worker", "pipe", "lost"}

Init == place = [c \in Clients |-> "away"]

Move(c, from, to) ==
    /\ place[c] = from
    /\ place' = [place EXCEPT ![c] = to]

Accept(c) == Move(c, "away", "main")
Enqueue(c) == Move(c, "main", "queue")
Take(c) == Move(c, "queue", "worker")
Return(c) == Move(c, "worker", "pipe")
Receive(c) == Move(c, "pipe", "main")
Leave(c) == Move(c, "worker", "away")
Lose(c) == (\A d \in Clients : place[d] # "lost") /\ Move(c, "worker", "lost")

Next ==
    \E c \in Clients :
        \/ Accept(c) \/ Enqueue(c) \/ Take(c) \/ Return(c) \/ Receive(c)
        \/ Leave(c) \/ Lose(c)

Spec == Init /\ [][Next]_place
===============================================================================
