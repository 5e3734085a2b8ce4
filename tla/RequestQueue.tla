---------------------------- MODULE RequestQueue ----------------------------
(***************************************************************************)
(* The queue of ready clients (requestqueue.c): the main thread is its one *)
(* producer, the worker threads are its consumers.  A call runs under      *)
(* queuemtx from its lock to its unlock or to its pthread_cond_wait, so    *)
(* each of those sections is one step; a thread inside pthread_cond_wait   *)
(* is "waiting" until somebody broadcasts its condition variable, and then *)
(* "woken" until it holds the mutex again and repeats its while test.      *)
(*                                                                         *)
(* The line that shrinks maxsize at every get (requestqueue.c:108) is      *)
(* modelled as it is written.  It bounds the whole life of the queue:      *)
(* inserted and taken never grow beyond MAX_REQUESTS values, so no other   *)
(* bound is needed.                                                        *)
(***************************************************************************)
EXTENDS Integers, Sequences

CONSTANTS
    Workers,        \* the consumer threads
    Fds,            \* what the main thread enqueues: client fds, and the -1 of the shutdown
    NoFd,           \* the main thread has nothing to insert
    MAX_REQUESTS    \* the initial maxsize

ASSUME CapacityAssumption == MAX_REQUESTS \in Nat \ {0}
ASSUME NoFdAssumption == NoFd \notin Fds

VARIABLES
    queue,          \* the linked list from head to tail
    currentsize,    \* the counters kept beside it
    maxsize,
    main,           \* where the main thread is: out of the queue, or blocked on full
    toput,          \* the fd the blocked putRequestor will insert
    worker,         \* where each worker is: out of the queue, or blocked on empty
    inserted,       \* history: every fd ever inserted
    taken           \* history: every fd ever returned by getRequestor

vars == <<queue, currentsize, maxsize, main, toput, worker, inserted, taken>>

Places == {"out", "waiting", "woken"}

Init ==
    /\ queue = <<>>
    /\ currentsize = 0
    /\ maxsize = MAX_REQUESTS
    /\ main = "out"
    /\ toput = NoFd
    /\ worker = [w \in Workers |-> "out"]
    /\ inserted = <<>>
    /\ taken = <<>>

(* The tests of the two while loops.                                       *)
FullTooLate == currentsize > maxsize              \* mutant: off by one
Full == currentsize = maxsize
Empty == currentsize = 0

(* Mutants of the broadcast: pthread_cond_signal instead, or nothing.      *)
SignalEmpty ==
    LET sleepers == {w \in Workers : worker[w] = "waiting"}
    IN  IF sleepers = {} THEN UNCHANGED worker
        ELSE \E w \in sleepers : worker' = [worker EXCEPT ![w] = "woken"]

ForgetEmpty == UNCHANGED worker

(* pthread_cond_broadcast(&empty).                                         *)
BroadcastEmpty ==
    worker' = [w \in Workers |-> IF worker[w] = "waiting" THEN "woken" ELSE worker[w]]

(* pthread_cond_broadcast(&full).                                          *)
BroadcastFull == main' = IF main = "waiting" THEN "woken" ELSE main

(* The new node becomes the tail.                                          *)
LinkedAtHead(fd) == <<fd>> \o queue                \* mutant: a stack
Linked(fd) == Append(queue, fd)

(* The side effect of the test of getRequestor.                            *)
KeepMaxsize == UNCHANGED maxsize                   \* mutant: a plain comparison
ShrinkMaxsize == maxsize' = maxsize - 1

(* putRequestor once the mutex is held: wait while the list is full, else  *)
(* append and wake the workers when this is the only element.              *)
PutOrWait(fd) ==
    \/ /\ Full
       /\ main' = "waiting"
       /\ toput' = fd
       /\ UNCHANGED <<queue, currentsize, maxsize, worker, inserted, taken>>
    \/ /\ ~Full
       /\ queue' = Linked(fd)
       /\ inserted' = Append(inserted, fd)
       /\ currentsize' = currentsize + 1
       /\ IF currentsize' = 1 THEN BroadcastEmpty ELSE UNCHANGED worker
       /\ main' = "out"
       /\ toput' = NoFd
       /\ UNCHANGED <<maxsize, taken>>

(* getRequestor once the mutex is held: wait while the list is empty, else *)
(* pop its head.  The post-decrement compares the new currentsize with the *)
(* old maxsize and stores the smaller maxsize.                             *)
TakeOrWait(w) ==
    \/ /\ Empty
       /\ worker' = [worker EXCEPT ![w] = "waiting"]
       /\ UNCHANGED <<queue, currentsize, maxsize, main, toput, inserted, taken>>
    \/ /\ ~Empty
       /\ taken' = Append(taken, Head(queue))
       /\ queue' = Tail(queue)
       /\ currentsize' = currentsize - 1
       /\ ShrinkMaxsize
       /\ IF currentsize' = maxsize THEN BroadcastFull ELSE UNCHANGED main
       /\ worker' = [worker EXCEPT ![w] = "out"]
       /\ UNCHANGED <<toput, inserted>>

(* The main thread calls putRequestor, or comes back from the condition    *)
(* variable full with the mutex held.                                      *)
putRequestor(fd) == main = "out" /\ PutOrWait(fd)
ResumePut == main = "woken" /\ PutOrWait(toput)

(* A worker calls getRequestor, or comes back from empty.                  *)
getRequestor(w) == worker[w] = "out" /\ TakeOrWait(w)
ResumeGet(w) == worker[w] = "woken" /\ TakeOrWait(w)

(* POSIX lets pthread_cond_wait return without a broadcast.                *)
SpuriousMain ==
    /\ main = "waiting"
    /\ main' = "woken"
    /\ UNCHANGED <<queue, currentsize, maxsize, toput, worker, inserted, taken>>

SpuriousWorker(w) ==
    /\ worker[w] = "waiting"
    /\ worker' = [worker EXCEPT ![w] = "woken"]
    /\ UNCHANGED <<queue, currentsize, maxsize, main, toput, inserted, taken>>

Next ==
    \/ \E fd \in Fds : putRequestor(fd)
    \/ ResumePut
    \/ \E w \in Workers : getRequestor(w)
    \/ \E w \in Workers : ResumeGet(w)
    \/ SpuriousMain
    \/ \E w \in Workers : SpuriousWorker(w)

(* Fairness: a thread woken inside the queue gets the mutex and the        *)
(* processor in the end.  Nothing is assumed of a worker that is out of    *)
(* the queue: it may serve its client for ever.                            *)
Spec == Init /\ [][Next]_vars /\ WF_vars(ResumePut) /\ \A w \in Workers : WF_vars(ResumeGet(w))

(* The kindest environment: moreover every worker comes back for more.     *)
BusySpec == Spec /\ \A w \in Workers : WF_vars(getRequestor(w))

-----------------------------------------------------------------------------
(* The types of the queue, its counters and the threads: the sizes of      *)
(* RequestQueue (requestqueue.h:20-22) stay between 0 and MAX_REQUESTS.    *)
TypeOK ==
    /\ queue \in Seq(Fds)
    /\ currentsize \in 0 .. MAX_REQUESTS
    /\ maxsize \in 0 .. MAX_REQUESTS
    /\ main \in Places
    /\ toput \in Fds \cup {NoFd}
    /\ worker \in [Workers -> Places]
    /\ inserted \in Seq(Fds)
    /\ taken \in Seq(Fds)

(* No request is lost, duplicated or overtaken on its way to a worker, and *)
(* currentsize counts the nodes of the list (requestqueue.c:67-74 and      *)
(* 97-106).                                                                *)
FifoOrder ==
    /\ inserted = taken \o queue
    /\ currentsize = Len(queue)

(* The broadcast of putRequestor at currentsize == 1 (requestqueue.c:76)   *)
(* is enough: no worker sleeps on empty while a request is in the queue.   *)
NoLostWakeup == \A w \in Workers : worker[w] = "waiting" => currentsize = 0

(* Because every getRequestor shrinks maxsize (requestqueue.c:108), the    *)
(* room left in the queue is what remains of a budget of MAX_REQUESTS      *)
(* insertions, and taking requests out never gives any of it back.         *)
LifetimeBudget ==
    /\ Len(inserted) + (maxsize - currentsize) = MAX_REQUESTS
    /\ currentsize <= maxsize

(* The main thread finds the queue full only when that budget is spent,    *)
(* and then never leaves putRequestor again: the broadcast of full at      *)
(* requestqueue.c:109 and the spurious wakeups do not free it.             *)
BlockedForGood == [][main # "out" => main' # "out"]_vars

(* Some worker blocked in getRequestor gets the request that is in the     *)
(* queue, whatever the other workers and the main thread do.               *)
QueuedIsTaken ==
    \A n \in 0 .. MAX_REQUESTS - 1 :
        (Len(taken) = n /\ queue # <<>> /\ \E w \in Workers : worker[w] # "out")
            ~> Len(taken) > n

(* A main thread blocked on a full queue is released once workers take     *)
(* requests out of it, which the broadcast of full announces               *)
(* (requestqueue.c:108-110) and test3.sh, which stops the server by a      *)
(* signal and waits for it, relies on.  The code does not do this.         *)
FullQueueDrains == main # "out" ~> main = "out"

(* The queue implements a FIFO buffer of MAX_REQUESTS places.              *)
Fifo == INSTANCE FifoQueue WITH
            Values <- Fds, Capacity <- MAX_REQUESTS, in <- inserted, out <- taken
ImplementsFifo == Fifo!Spec
=============================================================================
