------------------------------ MODULE FifoQueue ------------------------------
(***************************************************************************)
(* What a bounded FIFO queue between one producer and many consumers       *)
(* promises: every value that goes in comes out at most once, in the order *)
(* of arrival, and never more than Capacity values are inside at a time.   *)
(* RequestQueue.tla is shown to implement this specification.              *)
(***************************************************************************)
EXTENDS Naturals, Sequences

CONSTANTS
    Values,     \* what can be queued
    Capacity    \* how many values the queue holds at most

VARIABLES
    in,         \* every value inserted so far, in order
    out         \* every value removed so far, in order

vars == <<in, out>>

Init == in = <<>> /\ out = <<>>

(* A value enters when there is room.                                      *)
Put(v) ==
    /\ Len(in) - Len(out) < Capacity
    /\ in' = Append(in, v)
    /\ UNCHANGED out

(* The oldest value still inside leaves.                                   *)
Get ==
    /\ Len(out) < Len(in)
    /\ out' = Append(out, in[Len(out) + 1])
    /\ UNCHANGED in

Next == Get \/ \E v \in Values : Put(v)

Spec == Init /\ [][Next]_vars
==============================================================================
