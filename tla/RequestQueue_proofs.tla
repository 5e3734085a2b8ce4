------------------------- MODULE RequestQueue_proofs -------------------------
(***************************************************************************)
(* For every set of workers and fds and every capacity: the queue of       *)
(* requests keeps its types, its order and its sleepers right, hands out   *)
(* at most MAX_REQUESTS requests in its life, never releases a producer    *)
(* that found it full, and implements a bounded FIFO.                      *)
(***************************************************************************)
EXTENDS RequestQueue, TLAPS

(* The inductive invariant.  The loose types come first: the bounds that   *)
(* TypeOK adds to them follow from the budget, not from one step.          *)
Types ==
    /\ queue \in Seq(Fds)
    /\ currentsize \in Nat
    /\ maxsize \in Int
    /\ main \in Places
    /\ toput \in Fds \cup {NoFd}
    /\ worker \in [Workers -> Places]
    /\ inserted \in Seq(Fds)
    /\ taken \in Seq(Fds)

(* A thread inside putRequestor has an fd to insert and found the list     *)
(* full; whatever it is woken by, the list is full again when it looks.    *)
BlockedIsFull == main # "out" => toput \in Fds /\ currentsize = maxsize

IInv == Types /\ FifoOrder /\ NoLostWakeup /\ LifetimeBudget /\ BlockedIsFull

(* Taking the head of the second part of a sequence moves it to the first. *)
LEMMA MoveHead ==
    ASSUME NEW S, NEW s \in Seq(S), NEW t \in Seq(S), t # <<>>
    PROVE  s \o t = Append(s, Head(t)) \o Tail(t)
  OBVIOUS

LEMMA InitIInv == Init => IInv
  BY CapacityAssumption DEF Init, IInv, Types, Places, FifoOrder, NoLostWakeup,
     LifetimeBudget, BlockedIsFull

(* A put that finds room.                                                  *)
LEMMA PutIInv ==
    ASSUME IInv, NEW fd \in Fds, PutOrWait(fd)
    PROVE  IInv'
  <1>1. CASE currentsize = maxsize
    BY <1>1 DEF IInv, Types, Places, FifoOrder, NoLostWakeup, LifetimeBudget,
       BlockedIsFull, PutOrWait, Full
  <1>2. CASE currentsize # maxsize
    <2>1. /\ queue' = Append(queue, fd)
          /\ inserted' = Append(inserted, fd)
          /\ currentsize' = currentsize + 1
          /\ IF currentsize' = 1 THEN BroadcastEmpty ELSE UNCHANGED worker
          /\ main' = "out"
          /\ toput' = NoFd
          /\ maxsize' = maxsize
          /\ taken' = taken
      BY <1>2 DEF PutOrWait, Full, Linked
    <2>2. /\ worker' \in [Workers -> Places]
          /\ NoLostWakeup'
      <3>1. CASE currentsize' = 1
        BY <2>1, <3>1 DEF IInv, Types, Places, NoLostWakeup, BroadcastEmpty
      <3>2. CASE currentsize' # 1
        BY <2>1, <3>2 DEF IInv, Types, NoLostWakeup
      <3> QED BY <3>1, <3>2
    <2>3. Types'
      <3>1. queue' \in Seq(Fds) /\ inserted' \in Seq(Fds)
        BY <2>1 DEF IInv, Types
      <3>2. /\ currentsize' \in Nat /\ maxsize' \in Int
            /\ main' \in Places /\ toput' \in Fds \cup {NoFd}
            /\ taken' \in Seq(Fds)
        BY <2>1 DEF IInv, Types, Places
      <3> QED BY <2>2, <3>1, <3>2 DEF Types
    <2>4. FifoOrder'
      <3>1. inserted' = taken \o Append(queue, fd)
        <4>1. taken \in Seq(Fds) /\ queue \in Seq(Fds)
          BY DEF IInv, Types
        <4>2. Append(taken \o queue, fd) = taken \o Append(queue, fd)
          BY <4>1
        <4> QED BY <2>1, <4>2 DEF IInv, FifoOrder
      <3>2. Len(queue') = Len(queue) + 1
        BY <2>1 DEF IInv, Types
      <3> QED BY <2>1, <3>1, <3>2 DEF IInv, FifoOrder
    <2>5. LifetimeBudget'
      <3>1. Len(inserted') = Len(inserted) + 1 /\ Len(inserted) \in Nat
        BY <2>1 DEF IInv, Types
      <3>2. /\ Len(inserted) + (maxsize - currentsize) = MAX_REQUESTS
            /\ currentsize < maxsize
            /\ currentsize \in Nat /\ maxsize \in Int
        BY <1>2 DEF IInv, Types, LifetimeBudget
      <3>3. /\ currentsize' = currentsize + 1 /\ maxsize' = maxsize
        BY <2>1
      <3> HIDE <2>1, <1>2
      <3>4. Len(inserted') + (maxsize' - currentsize') = MAX_REQUESTS
        BY <3>1, <3>2, <3>3
      <3>5. currentsize' <= maxsize'
        BY <3>2, <3>3
      <3> QED BY <3>4, <3>5 DEF LifetimeBudget
    <2>6. BlockedIsFull'
      BY <2>1 DEF BlockedIsFull
    <2> QED BY <2>2, <2>3, <2>4, <2>5, <2>6 DEF IInv
  <1> QED BY <1>1, <1>2

(* A get.  When it takes a request the test of line 108 fails: the new     *)
(* currentsize is strictly below the maxsize it is compared with.          *)
LEMMA GetIInv ==
    ASSUME IInv, NEW w \in Workers, TakeOrWait(w)
    PROVE  IInv'
  <1>1. CASE currentsize = 0
    BY <1>1 DEF IInv, Types, Places, FifoOrder, NoLostWakeup, LifetimeBudget,
       BlockedIsFull, TakeOrWait, Empty
  <1>2. CASE currentsize # 0
    <2> USE <1>2 DEF IInv, TakeOrWait, Empty, ShrinkMaxsize
    <2>1. queue # <<>> /\ Len(queue) >= 1
      BY DEF Types, FifoOrder
    <2>2. currentsize' # maxsize /\ UNCHANGED main
      BY DEF Types, LifetimeBudget
    <2>3. Types'
      <3>1. Head(queue) \in Fds /\ Tail(queue) \in Seq(Fds)
        BY <2>1 DEF Types
      <3>2. Append(taken, Head(queue)) \in Seq(Fds)
        BY <3>1 DEF Types
      <3>3. worker' \in [Workers -> Places]
        BY DEF Types, Places
      <3>4. currentsize' \in Nat /\ maxsize' \in Int
        BY DEF Types
      <3>5. taken' \in Seq(Fds) /\ queue' \in Seq(Fds)
        BY <3>1, <3>2
      <3>6. main' \in Places /\ toput' \in Fds \cup {NoFd} /\ inserted' \in Seq(Fds)
        BY <2>2 DEF Types
      <3> QED BY <3>3, <3>4, <3>5, <3>6 DEF Types
    <2>4. FifoOrder'
      <3>1. taken \o queue = Append(taken, Head(queue)) \o Tail(queue)
        BY <2>1, MoveHead DEF Types
      <3>2. Len(Tail(queue)) = Len(queue) - 1
        BY <2>1 DEF Types
      <3> QED BY <3>1, <3>2 DEF FifoOrder
    <2>5. NoLostWakeup'
      BY DEF Types, NoLostWakeup
    <2>6. LifetimeBudget'
      BY DEF Types, LifetimeBudget
    <2>7. BlockedIsFull'
      BY <2>2 DEF Types, BlockedIsFull
    <2> QED BY <2>3, <2>4, <2>5, <2>6, <2>7
  <1> QED BY <1>1, <1>2

LEMMA StepIInv == IInv /\ [Next]_vars => IInv'
  <1> SUFFICES ASSUME IInv, [Next]_vars PROVE IInv'
    OBVIOUS
  <1>1. ASSUME NEW fd \in Fds, putRequestor(fd) PROVE IInv'
    BY <1>1, PutIInv DEF putRequestor
  <1>2. CASE ResumePut
    <2>1. toput \in Fds
      BY <1>2 DEF ResumePut, IInv, BlockedIsFull
    <2> QED BY <1>2, <2>1, PutIInv DEF ResumePut
  <1>3. ASSUME NEW w \in Workers, getRequestor(w) PROVE IInv'
    BY <1>3, GetIInv DEF getRequestor
  <1>4. ASSUME NEW w \in Workers, ResumeGet(w) PROVE IInv'
    BY <1>4, GetIInv DEF ResumeGet
  <1>5. CASE SpuriousMain
    BY <1>5 DEF SpuriousMain, IInv, Types, Places, FifoOrder, NoLostWakeup,
       LifetimeBudget, BlockedIsFull
  <1>6. ASSUME NEW w \in Workers, SpuriousWorker(w) PROVE IInv'
    BY <1>6 DEF SpuriousWorker, IInv, Types, Places, FifoOrder, NoLostWakeup,
       LifetimeBudget, BlockedIsFull
  <1>7. CASE UNCHANGED vars
    BY <1>7 DEF vars, IInv, Types, Places, FifoOrder, NoLostWakeup,
       LifetimeBudget, BlockedIsFull
  <1> QED BY <1>1, <1>2, <1>3, <1>4, <1>5, <1>6, <1>7 DEF Next

(* The queue never breaks its inductive invariant.                         *)
THEOREM Inductive == Spec => []IInv
  BY InitIInv, StepIInv, PTL DEF Spec

(* The counters of requestqueue.h:20-22 stay between 0 and MAX_REQUESTS.   *)
THEOREM TypeCorrect == Spec => []TypeOK
  <1>1. IInv => TypeOK
    <2> SUFFICES ASSUME IInv PROVE TypeOK
      OBVIOUS
    <2>1. Len(inserted) = Len(taken) + Len(queue)
      BY DEF IInv, Types, FifoOrder
    <2>2. Len(taken) \in Nat /\ Len(queue) \in Nat
      BY DEF IInv, Types
    <2>3. MAX_REQUESTS \in Nat
      BY CapacityAssumption
    <2>4. currentsize \in 0 .. MAX_REQUESTS /\ maxsize \in 0 .. MAX_REQUESTS
      BY <2>1, <2>2, <2>3 DEF IInv, Types, FifoOrder, LifetimeBudget
    <2> QED BY <2>4 DEF IInv, Types, TypeOK
  <1> QED BY <1>1, Inductive, PTL

(* No request is lost, duplicated or overtaken.                            *)
THEOREM Ordered == Spec => []FifoOrder
  <1>1. IInv => FifoOrder
    BY DEF IInv
  <1> QED BY <1>1, Inductive, PTL

(* No worker sleeps on empty while a request is queued.                    *)
THEOREM NoWakeupIsLost == Spec => []NoLostWakeup
  <1>1. IInv => NoLostWakeup
    BY DEF IInv
  <1> QED BY <1>1, Inductive, PTL

(* The queue spends a budget of MAX_REQUESTS insertions.                   *)
THEOREM Budget == Spec => []LifetimeBudget
  <1>1. IInv => LifetimeBudget
    BY DEF IInv
  <1> QED BY <1>1, Inductive, PTL

(* A main thread that once blocks on a full queue never leaves             *)
(* putRequestor again, for every capacity and number of workers.           *)
THEOREM NeverReleased == Spec => BlockedForGood
  <1>1. IInv /\ [Next]_vars => [main # "out" => main' # "out"]_vars
    <2> SUFFICES ASSUME IInv, Next, main # "out" PROVE main' # "out"
      BY DEF vars
    <2>1. currentsize = maxsize /\ toput \in Fds
      BY DEF IInv, BlockedIsFull
    <2>2. CASE ResumePut
      BY <2>1, <2>2 DEF ResumePut, PutOrWait, Full
    <2>3. ASSUME NEW w \in Workers, TakeOrWait(w) PROVE main' # "out"
      BY <2>3 DEF TakeOrWait, BroadcastFull
    <2> QED
      BY <2>2, <2>3 DEF Next, putRequestor, getRequestor, ResumeGet,
         SpuriousMain, SpuriousWorker
  <1> QED BY <1>1, Inductive, PTL DEF Spec, BlockedForGood

(* The queue is a FIFO buffer of MAX_REQUESTS places.                      *)
THEOREM Refinement == Spec => ImplementsFifo
  <1>1. Init => Fifo!Init
    BY DEF Init, Fifo!Init
  <1>2. IInv /\ IInv' /\ [Next]_vars => [Fifo!Next]_(Fifo!vars)
    <2> SUFFICES ASSUME IInv, Next PROVE [Fifo!Next]_(Fifo!vars)
      BY DEF vars, Fifo!vars
    <2>1. Len(inserted) - Len(taken) = currentsize
      BY DEF IInv, Types, FifoOrder
    <2>2. ASSUME NEW fd \in Fds, PutOrWait(fd) PROVE [Fifo!Next]_(Fifo!vars)
      <3>1. CASE currentsize = maxsize
        BY <2>2, <3>1 DEF PutOrWait, Full, Fifo!vars
      <3>2. CASE currentsize # maxsize
        <4>1. Len(inserted) - Len(taken) < MAX_REQUESTS
          BY <2>1, <3>2, CapacityAssumption DEF IInv, Types, LifetimeBudget
        <4>2. Fifo!Put(fd)
          BY <2>2, <3>2, <4>1 DEF PutOrWait, Full, Linked, Fifo!Put
        <4> QED BY <4>2 DEF Fifo!Next
      <3> QED BY <3>1, <3>2
    <2>3. ASSUME NEW w \in Workers, TakeOrWait(w) PROVE [Fifo!Next]_(Fifo!vars)
      <3>1. CASE currentsize = 0
        BY <2>3, <3>1 DEF TakeOrWait, Empty, Fifo!vars
      <3>2. CASE currentsize # 0
        <4>1. Len(taken) < Len(inserted)
          BY <2>1, <3>2 DEF IInv, Types
        <4>2. Head(queue) = inserted[Len(taken) + 1]
          BY <3>2 DEF IInv, Types, FifoOrder
        <4>3. Fifo!Get
          BY <2>3, <3>2, <4>1, <4>2 DEF TakeOrWait, Empty, Fifo!Get
        <4> QED BY <4>3 DEF Fifo!Next
      <3> QED BY <3>1, <3>2
    <2>4. CASE ResumePut
      BY <2>2, <2>4 DEF ResumePut, IInv, BlockedIsFull
    <2>5. CASE SpuriousMain \/ \E w \in Workers : SpuriousWorker(w)
      BY <2>5 DEF SpuriousMain, SpuriousWorker, Fifo!vars
    <2> QED
      BY <2>2, <2>3, <2>4, <2>5 DEF Next, putRequestor, getRequestor, ResumeGet
  <1> QED BY <1>1, <1>2, Inductive, PTL DEF Spec, ImplementsFifo, Fifo!Spec
==============================================================================
