---------------------------- MODULE Server_proofs ----------------------------
(***************************************************************************)
(* The way of a client through the server, for any number of workers and   *)
(* of descriptors: the types, that select watches everybody, that a client *)
(* is in one place only and in step with its worker, and that it goes the  *)
(* rounds of Rounds from place to place.                                   *)
(***************************************************************************)
EXTENDS Server, FiniteSetTheorems, FunctionTheorems, TLAPS

(* The types of everything but the two sequences.                          *)
Fields ==
    /\ conn \subseteq Fds
    /\ client \in [Fds -> ClientStates]
    /\ input \in [Fds -> Inputs]
    /\ pending \in 0 .. MaxPending
    /\ readset \subseteq Fds \cup {SocketFd, PipeFd}
    /\ copy \subseteq Fds \cup {SocketFd, PipeFd}
    /\ maxfd \in Nat
    /\ main \in MainPlaces
    /\ worker \in [Workers -> WorkerPlaces]
    /\ serving \in [Workers -> Fds \cup {NoFd}]
    /\ {jammed, softexit, hardexit, crashed} \subseteq BOOLEAN

Sequences == queue \in Seq(Fds \cup {Pill}) /\ pipe \in Seq(Fds \cup {Exit})

(* What select has found ready stays so until it is scanned, and the copy  *)
(* of the set holds more than the set only after the pipe was scanned.     *)
Scanning ==
    /\ main = "scan" /\ SocketFd \in copy => pending > 0
    /\ main = "scan" /\ PipeFd \in copy => pipe # <<>>
    /\ main # "scan" \/ PipeFd \in copy => copy \subseteq readset

(* A worker has a client exactly from the queue to the pipe.               *)
Employed ==
    \A w \in Workers :
        IF worker[w] \in {"test", "get", "done"} THEN serving[w] = NoFd ELSE serving[w] \in Fds

(* maxfd stays below the pipe only until the first client is scanned.      *)
Started ==
    maxfd < PipeFd =>
        /\ pipe = <<>>
        /\ queue \in Seq({Pill})
        /\ \A w \in Workers : serving[w] = NoFd

(* The room of the queue is used up, and no worker is told twice to stop.  *)
Budget == room \in 0 .. MaxRequests /\ told \in 0 .. Cardinality(Workers)

Base == Fields /\ Sequences /\ Budget /\ Employed /\ Scanning /\ Started /\ Watched

USE FdsAssumption, NoFdAssumption, PendingAssumption
USE DEF net, selecting, requests, work, flags

-----------------------------------------------------------------------------
(* The two messages that are no clients.                                   *)
LEMMA NoClients == Pill \notin Fds /\ Exit \notin Fds /\ SocketFd \notin Fds /\ PipeFd \notin Fds
  BY DEF Pill, Exit

(* What comes out of a sequence, and what is left of it.                   *)
LEMMA HeadTail ==
    ASSUME NEW S, NEW s \in Seq(S), s # <<>>
    PROVE  Head(s) \in S /\ Tail(s) \in Seq(S)
  OBVIOUS

(* Only clients and messages are in the queue and in the pipe.             *)
LEMMA SequencesStep ==
    ASSUME Base, Next
    PROVE  Sequences'
  <1> USE DEF Base, Sequences
  <1>1. CASE ScanPipe
    <2>1. pipe # <<>>
      BY <1>1 DEF ScanPipe, Scanned, ToScan, MainAt, Scanning
    <2> QED BY <1>1, <2>1, HeadTail DEF ScanPipe
  <1>2. ASSUME NEW c \in Fds, ScanClient(c)
        PROVE  Sequences'
    BY <1>2 DEF ScanClient, Put
  <1>3. CASE StopWorker
    BY <1>3 DEF StopWorker, Put
  <1>4. ASSUME NEW w \in Workers, GetRequestor(w)
        PROVE  Sequences'
    BY <1>4, HeadTail DEF GetRequestor
  <1>5. ASSUME NEW w \in Workers, ReturnClient(w)
        PROVE  Sequences'
    <2>1. serving[w] \in Fds
      BY <1>5 DEF ReturnClient, WorkerAt, Employed
    <2> QED BY <1>5, <2>1 DEF ReturnClient, Returned
  <1>6. ASSUME NEW w \in Workers, ExitMessage(w)
        PROVE  Sequences'
    BY <1>6 DEF ExitMessage
  <1>7. CASE UNCHANGED <<queue, pipe>>
    BY <1>7
  <1> QED BY <1>1, <1>2, <1>3, <1>4, <1>5, <1>6, <1>7 DEF Next, Main, Work, Attend, Handler, Environment,
         TestExit, EnterSelect, ReturnSelect, ScanEnd, ScanSocket, StopEnd, JoinWorkers, TestFlags, GetRequest,
         GetRest, Read, Handle, ExitClose, Forget, Connect, SendHeader, SendBody, SendShort, SendExit,
         ClientDies, ClientStep, Signal

(* The client that a worker takes from the queue, and that main takes from *)
(* the pipe.                                                               *)
LEMMA TakenType ==
    ASSUME Base
    PROVE  /\ queue # <<>> /\ Head(queue) # Pill => Head(queue) \in Fds
           /\ pipe # <<>> /\ Head(pipe) # Exit => Head(pipe) \in Fds
  BY HeadTail DEF Base, Sequences

(* What the steps on the sequences do to everything else.                  *)
LEMMA ScanPipeFacts ==
    ASSUME Base, ScanPipe
    PROVE  /\ main = "scan" /\ PipeFd \in copy /\ pipe # <<>> /\ copy \subseteq readset
           /\ PipeFd <= maxfd
           /\ UNCHANGED <<net, readset, queue, work, jammed, flags, crashed>>
           /\ \/ main' = "test" /\ copy' = {} /\ maxfd' = maxfd
              \/ \E c \in Fds : /\ c = Head(pipe)
                                /\ copy' = (copy \ {PipeFd}) \cup {c}
                                /\ maxfd' = Raised(c) /\ main' = main
  <1>1. main = "scan" /\ PipeFd \in copy /\ PipeFd <= maxfd
    BY DEF ScanPipe, Scanned, ToScan, MainAt
  <1>2. pipe # <<>> /\ copy \subseteq readset
    BY <1>1 DEF Base, Scanning
  <1>3. CASE Head(pipe) = Exit
    BY <1>1, <1>2, <1>3 DEF ScanPipe
  <1>4. CASE Head(pipe) # Exit
    <2>1. Head(pipe) \in Fds
      BY <1>2, <1>4, TakenType
    <2> QED BY <1>1, <1>2, <1>4, <2>1 DEF ScanPipe
  <1> QED BY <1>3, <1>4

(* A worker takes the head of the queue.                                   *)
LEMMA GetRequestorFacts ==
    ASSUME Base, NEW w \in Workers, GetRequestor(w)
    PROVE  /\ worker[w] = "get" /\ queue # <<>>
           /\ UNCHANGED <<net, selecting, pipe, jammed, flags, crashed>>
           /\ \/ /\ Head(queue) = Pill
                 /\ worker' = [worker EXCEPT ![w] = "test"] /\ serving' = serving
              \/ \E c \in Fds : /\ c = Head(queue)
                                /\ worker' = [worker EXCEPT ![w] = "read"]
                                /\ serving' = [serving EXCEPT ![w] = c]
  <1>1. worker[w] = "get" /\ queue # <<>>
    BY DEF GetRequestor, WorkerAt
  <1>2. CASE Head(queue) = Pill
    BY <1>1, <1>2 DEF GetRequestor, Stops, Step
  <1>3. CASE Head(queue) # Pill
    <2>1. Head(queue) \in Fds
      BY <1>1, <1>3, TakenType
    <2> QED BY <1>1, <1>3, <2>1 DEF GetRequestor, Stops, Step
  <1> QED BY <1>2, <1>3

(* accept, or close at once.                                               *)
LEMMA ScanSocketFacts ==
    ASSUME Base, ScanSocket
    PROVE  /\ main = "scan" /\ SocketFd \in copy /\ pending' = pending - 1 /\ pending > 0
           /\ copy' = copy \ {SocketFd}
           /\ UNCHANGED <<input, main, queue, pipe, work, jammed, flags, crashed>>
           /\ \/ UNCHANGED <<conn, client, readset, maxfd>>
              \/ \E c \in Fds \ conn : /\ conn' = conn \cup {c}
                                       /\ client' = [client EXCEPT ![c] = "idle"]
                                       /\ readset' = readset \cup {c}
                                       /\ maxfd' = Raised(c)
  <1>1. main = "scan" /\ SocketFd \in copy
    BY DEF ScanSocket, Scanned, ToScan, MainAt
  <1>2. pending > 0
    BY <1>1 DEF Base, Scanning
  <1> QED BY <1>1, <1>2 DEF ScanSocket

-----------------------------------------------------------------------------
(* The types.                                                              *)
LEMMA FieldsStep ==
    ASSUME Base, Next
    PROVE  Fields'
  <1> USE DEF Base, Fields, ClientStates, Inputs, MainPlaces, WorkerPlaces
  <1>1. CASE ScanPipe
    BY <1>1, ScanPipeFacts DEF Raised
  <1>2. CASE ScanSocket
    <2>1. pending' \in 0 .. MaxPending
      BY <1>2, ScanSocketFacts
    <2>2. CASE UNCHANGED <<conn, client, readset, maxfd>>
      BY <1>2, <2>1, <2>2, ScanSocketFacts
    <2>3. ASSUME NEW c \in Fds, conn' = conn \cup {c}, client' = [client EXCEPT ![c] = "idle"],
                 readset' = readset \cup {c}, maxfd' = Raised(c)
          PROVE  Fields'
      <3>1. maxfd' \in Nat
        BY <2>3 DEF Raised
      <3> QED BY <1>2, <2>1, <2>3, <3>1, ScanSocketFacts
    <2> QED BY <1>2, <2>2, <2>3, ScanSocketFacts
  <1>3. ASSUME NEW c \in Fds, ScanClient(c)
        PROVE  Fields'
    <2>1. c \in Nat /\ c > 0 /\ maxfd \in Nat
      OBVIOUS
    <2>2. maxfd' \in Nat
      BY <1>3, <2>1 DEF ScanClient, Lowered
    <2> QED BY <1>3, <2>2 DEF ScanClient, Cleared
  <1>4. CASE TestExit \/ EnterSelect \/ ReturnSelect \/ ScanEnd \/ StopWorker \/ StopEnd \/ JoinWorkers
    BY <1>4 DEF TestExit, EnterSelect, ReturnSelect, ReadyFds, ScanEnd, StopWorker, StopEnd, JoinWorkers
  <1>5. ASSUME NEW w \in Workers, GetRequestor(w)
        PROVE  Fields'
    <2>1. UNCHANGED <<net, selecting, jammed, flags, crashed>>
      BY <1>5, GetRequestorFacts
    <2>2. ASSUME NEW p \in {"test", "read"}, worker' = [worker EXCEPT ![w] = p],
                 serving' = serving \/ \E c \in Fds : serving' = [serving EXCEPT ![w] = c]
          PROVE  Fields'
      BY <2>1, <2>2
    <2> QED BY <1>5, <2>2, GetRequestorFacts
  <1>6. ASSUME NEW w \in Workers, GetRequest(w) \/ GetRest(w)
        PROVE  Fields'
    <2>1. PICK p \in WorkerPlaces, data \in Inputs : Read(w, data, p)
      BY <1>6 DEF GetRequest, GetRest
    <2>2. input' \in [Fds -> Inputs] /\ worker' \in [Workers -> WorkerPlaces]
      BY <2>1 DEF Read, Step
    <2> QED BY <2>1, <2>2 DEF Read
  <1>7. ASSUME NEW w \in Workers, Handle(w) \/ ExitClose(w)
        PROVE  Fields'
    BY <1>7 DEF Handle, ExitClose, Step
  <1>8. ASSUME NEW w \in Workers, TestFlags(w) \/ ReturnClient(w) \/ ExitMessage(w) \/ Forget(w)
        PROVE  Fields'
    BY <1>8 DEF TestFlags, ReturnClient, ExitMessage, Forget, Step
  <1>9. ASSUME NEW c \in Fds, NEW from, NEW to \in ClientStates, NEW data \in Inputs,
               ClientStep(c, from, to, data)
        PROVE  Fields'
    BY <1>9 DEF ClientStep
  <1>10. ASSUME NEW c \in Fds, SendHeader(c) \/ SendBody(c) \/ SendShort(c) \/ SendExit(c) \/ ClientDies(c)
         PROVE  Fields'
    <2>1. input[c] \in Inputs
      OBVIOUS
    <2> QED BY <1>9, <1>10, <2>1 DEF SendHeader, SendBody, SendShort, SendExit, ClientDies
  <1>11. CASE Connect
    BY <1>11 DEF Connect
  <1>12. ASSUME NEW soft \in BOOLEAN, Signal(soft)
         PROVE  Fields'
    BY <1>12 DEF Signal
  <1> QED BY <1>1, <1>2, <1>3, <1>4, <1>5, <1>6, <1>7, <1>8, <1>10, <1>11, <1>12
          DEF Next, Main, Work, Attend, Handler, Environment

(* The room only falls, and main stops when every worker has been told.    *)
LEMMA BudgetStep ==
    ASSUME Base, Next
    PROVE  Budget'
  <1> USE DEF Base, Budget
  <1>1. Cardinality(Workers) \in Nat
    BY WorkersAssumption, FS_CardinalityType
  <1>2. ASSUME NEW c \in Fds, ScanClient(c)
        PROVE  Budget'
    BY <1>2, RequestsAssumption DEF ScanClient, Put
  <1>3. CASE StopWorker
    BY <1>1, <1>3, RequestsAssumption DEF StopWorker, Put, Pills
  <1>4. ASSUME NEW w \in Workers, GetRequestor(w)
        PROVE  Budget'
    BY <1>4 DEF GetRequestor
  <1>5. CASE UNCHANGED <<room, told>>
    BY <1>5
  <1> QED BY <1>2, <1>3, <1>4, <1>5 DEF Next, Main, Work, Attend, Handler, Environment,
         TestExit, EnterSelect, ReturnSelect, ScanEnd, ScanPipe, ScanSocket, StopEnd, JoinWorkers,
         TestFlags, GetRequest, GetRest, Read, Handle, ReturnClient, ExitMessage, ExitClose, Forget,
         Connect, SendHeader, SendBody, SendShort, SendExit, ClientDies, ClientStep, Signal

(* A worker has a client from the queue to the pipe.                       *)
LEMMA EmployedStep ==
    ASSUME Base, Next
    PROVE  Employed'
  <1> USE DEF Base, Fields, Employed
  <1>1. CASE UNCHANGED <<worker, serving>>
    BY <1>1
  <1>2. ASSUME NEW w \in Workers, GetRequestor(w)
        PROVE  Employed'
    BY <1>2, GetRequestorFacts
  <1>3. ASSUME NEW w \in Workers, GetRequest(w) \/ GetRest(w)
        PROVE  Employed'
    BY <1>3 DEF GetRequest, GetRest, Read, Step, WorkerAt
  <1>4. ASSUME NEW w \in Workers, Handle(w) \/ ExitClose(w)
        PROVE  Employed'
    BY <1>4 DEF Handle, ExitClose, Step, WorkerAt
  <1>5. ASSUME NEW w \in Workers, TestFlags(w) \/ ReturnClient(w) \/ ExitMessage(w) \/ Forget(w)
        PROVE  Employed'
    BY <1>5 DEF TestFlags, ReturnClient, ExitMessage, Forget, Step, WorkerAt
  <1> QED BY <1>1, <1>2, <1>3, <1>4, <1>5 DEF Next, Main, Work, Attend, Handler, Environment,
         TestExit, EnterSelect, ReturnSelect, ScanEnd, ScanPipe, ScanSocket, ScanClient, StopWorker, StopEnd,
         JoinWorkers, Connect, SendHeader, SendBody, SendShort, SendExit, ClientDies, ClientStep, Signal

(* What was found ready is ready when it is scanned.                       *)
LEMMA ScanningStep ==
    ASSUME Base, Next
    PROVE  Scanning'
  <1> USE DEF Base, Fields, Scanning
  <1>1. CASE TestExit \/ EnterSelect \/ ScanEnd \/ StopWorker \/ StopEnd \/ JoinWorkers
    <2>1. CASE TestExit
      BY <2>1 DEF TestExit, MainAt
    <2>2. CASE EnterSelect
      BY <2>2 DEF EnterSelect, MainAt
    <2>3. CASE ScanEnd
      BY <2>3 DEF ScanEnd, MainAt
    <2>4. CASE StopWorker \/ StopEnd
      BY <2>4 DEF StopWorker, StopEnd, MainAt
    <2>5. CASE JoinWorkers
      BY <2>5 DEF JoinWorkers, MainAt
    <2> QED BY <1>1, <2>1, <2>2, <2>3, <2>4, <2>5
  <1>9. CASE ReturnSelect
    <2>1. copy' \subseteq readset /\ UNCHANGED <<readset, pending, pipe>>
      BY <1>9 DEF ReturnSelect, ReadyFds
    <2>2. SocketFd \in copy' => pending > 0
      BY <1>9, NoClients DEF ReturnSelect, ReadyFds, Ready
    <2>3. PipeFd \in copy' => pipe # <<>>
      BY <1>9, NoClients DEF ReturnSelect, ReadyFds, Ready
    <2> QED BY <2>1, <2>2, <2>3
  <1>2. CASE ScanPipe
    BY <1>2, ScanPipeFacts, NoClients
  <1>3. CASE ScanSocket
    BY <1>3, ScanSocketFacts, NoClients
  <1>4. ASSUME NEW c \in Fds, ScanClient(c)
        PROVE  Scanning'
    BY <1>4, NoClients DEF ScanClient, Cleared, Scanned, MainAt
  <1>5. ASSUME NEW w \in Workers, ReturnClient(w) \/ ExitMessage(w)
        PROVE  Scanning'
    <2>1. UNCHANGED <<selecting, pending>> /\ (pipe' = pipe \/ \E x : pipe' = Append(pipe, x))
      BY <1>5 DEF ReturnClient, ExitMessage, Returned
    <2>2. pipe' = pipe \/ pipe' # <<>>
      BY <2>1 DEF Sequences
    <2> QED BY <2>1, <2>2
  <1>6. CASE UNCHANGED <<selecting, pending, pipe>>
    BY <1>6
  <1>7. CASE Connect
    BY <1>7 DEF Connect
  <1>8. ASSUME NEW soft \in BOOLEAN, Signal(soft)
        PROVE  Scanning'
    BY <1>8 DEF Signal
  <1> QED BY <1>1, <1>2, <1>3, <1>4, <1>5, <1>6, <1>7, <1>8, <1>9 DEF Next, Main, Work, Attend, Handler, Environment,
         TestFlags, GetRequestor, GetRequest, GetRest, Read, Handle, ExitClose, Forget,
         SendHeader, SendBody, SendShort, SendExit, ClientDies, ClientStep

(* Before the first client is scanned, nothing can be in the pipe, and     *)
(* after that maxfd never falls below it again.                            *)
LEMMA StartedStep ==
    ASSUME Base, Next
    PROVE  Started'
  <1> USE DEF Base, Fields
  <1>1. CASE ScanPipe
    BY <1>1, ScanPipeFacts DEF Started, Raised
  <1>2. CASE ScanSocket
    BY <1>2, ScanSocketFacts DEF Started, Raised
  <1>3. ASSUME NEW c \in Fds, ScanClient(c)
        PROVE  Started'
    <2>1. c <= maxfd /\ PipeFd < c /\ c \in Nat /\ maxfd' = Lowered(c)
      BY <1>3 DEF ScanClient, Scanned, ToScan
    <2>2. ~(maxfd' < PipeFd)
      <3>1. CASE c = maxfd
        BY <2>1, <3>1 DEF Lowered
      <3>2. CASE c # maxfd
        BY <2>1, <3>2 DEF Lowered
      <3> QED BY <3>1, <3>2
    <2> QED BY <2>2 DEF Started
  <1>4. CASE StopWorker
    BY <1>4 DEF StopWorker, Put, Started
  <1>5. ASSUME NEW w \in Workers, GetRequestor(w)
        PROVE  Started'
    <2> SUFFICES ASSUME maxfd < PipeFd PROVE Started'
      BY <1>5, GetRequestorFacts DEF Started
    <2>1. queue # <<>> /\ queue \in Seq({Pill}) /\ pipe = <<>> /\ \A v \in Workers : serving[v] = NoFd
      BY <1>5, GetRequestorFacts DEF Started
    <2>2. Head(queue) = Pill /\ Tail(queue) \in Seq({Pill})
      BY <2>1, HeadTail
    <2>3. serving' = serving /\ queue' = Tail(queue) /\ UNCHANGED pipe
      BY <1>5, <2>2 DEF GetRequestor, Stops
    <2> QED BY <2>1, <2>2, <2>3 DEF Started
  <1>6. ASSUME NEW w \in Workers, ReturnClient(w) \/ ExitMessage(w) \/ ExitClose(w) \/ Forget(w)
        PROVE  Started'
    <2>1. serving[w] # NoFd
      BY <1>6 DEF ReturnClient, ExitMessage, ExitClose, Forget, WorkerAt, Employed
    <2>2. UNCHANGED maxfd
      BY <1>6 DEF ReturnClient, ExitMessage, ExitClose, Forget
    <2> QED BY <2>1, <2>2 DEF Started
  <1>7. CASE UNCHANGED <<maxfd, queue, pipe, serving>>
    BY <1>7 DEF Started
  <1> QED BY <1>1, <1>2, <1>3, <1>4, <1>5, <1>6, <1>7 DEF Next, Main, Work, Attend, Handler, Environment,
         TestExit, EnterSelect, ReturnSelect, ScanEnd, StopEnd, JoinWorkers, TestFlags, GetRequest, GetRest, Read,
         Handle, Connect, SendHeader, SendBody, SendShort, SendExit, ClientDies, ClientStep, Signal

(* The bound of select, after every step.                                  *)
LEMMA WatchedStep ==
    ASSUME Base, Next, Started'
    PROVE  Watched'
  <1> USE DEF Base, Fields, Watched
  <1>0. (PipeFd <= maxfd)' \/ (pipe = <<>>)'
    BY FieldsStep DEF Started
  <1>a. \A d \in (readset \cup copy) \cap Fds : d \in Nat /\ d <= maxfd
    OBVIOUS
  <1>1. CASE ScanPipe
    <2>1. CASE copy' = {} /\ maxfd' = maxfd
      BY <1>0, <1>1, <2>1, ScanPipeFacts
    <2>2. ASSUME NEW c \in Fds, copy' = (copy \ {PipeFd}) \cup {c}, maxfd' = Raised(c)
          PROVE  Watched'
      <3>0. c \in Nat /\ maxfd \in Nat
        OBVIOUS
      <3>1. c <= maxfd' /\ maxfd <= maxfd' /\ maxfd' \in Nat
        <4> HIDE DEF Base, Fields, Watched
        <4> QED BY <2>2, <3>0 DEF Raised
      <3>2. \A d \in (readset \cup copy) \cap Fds : d \in Nat /\ d <= maxfd'
        <4> HIDE DEF Base, Fields, Watched
        <4> QED BY <1>a, <3>0, <3>1
      <3>3. readset' = readset
        BY <1>1, ScanPipeFacts
      <3>4. (\A d \in (readset \cup copy) \cap Fds : d <= maxfd)'
        BY <2>2, <3>1, <3>2, <3>3
      <3> QED BY <1>0, <3>1, <3>4
    <2> QED BY <1>1, <2>1, <2>2, ScanPipeFacts
  <1>2. CASE ScanSocket
    <2>1. CASE UNCHANGED <<readset, maxfd>>
      BY <1>0, <1>2, <2>1, ScanSocketFacts
    <2>2. ASSUME NEW c \in Fds, readset' = readset \cup {c}, maxfd' = Raised(c)
          PROVE  Watched'
      <3>0. c \in Nat /\ maxfd \in Nat
        OBVIOUS
      <3>1. c <= maxfd' /\ maxfd <= maxfd' /\ maxfd' \in Nat
        <4> HIDE DEF Base, Fields, Watched
        <4> QED BY <2>2, <3>0 DEF Raised
      <3>2. \A d \in (readset \cup copy) \cap Fds : d \in Nat /\ d <= maxfd'
        <4> HIDE DEF Base, Fields, Watched
        <4> QED BY <1>a, <3>0, <3>1
      <3>3. copy' \subseteq copy
        BY <1>2, ScanSocketFacts
      <3>4. (\A d \in (readset \cup copy) \cap Fds : d <= maxfd)'
        BY <2>2, <3>1, <3>2, <3>3
      <3> QED BY <1>0, <3>1, <3>4
    <2> QED BY <1>2, <2>1, <2>2, ScanSocketFacts
  <1>3. ASSUME NEW c \in Fds, ScanClient(c)
        PROVE  Watched'
    BY <1>0, <1>3 DEF ScanClient, Cleared, Lowered
  <1>4. CASE TestExit \/ ReturnSelect \/ ScanEnd
    BY <1>0, <1>4 DEF TestExit, ReturnSelect, ReadyFds, ScanEnd
  <1>5. CASE UNCHANGED <<readset, copy, maxfd>>
    BY <1>0, <1>5
  <1> QED BY <1>1, <1>2, <1>3, <1>4, <1>5 DEF Next, Main, Work, Attend, Handler, Environment,
         EnterSelect, StopWorker, StopEnd, JoinWorkers, TestFlags, GetRequestor, GetRequest, GetRest, Read,
         Handle, ReturnClient, ExitMessage, ExitClose, Forget,
         Connect, SendHeader, SendBody, SendShort, SendExit, ClientDies, ClientStep, Signal

(* The server starts so.                                                   *)
LEMMA InitBase == Init => Base
  <1> SUFFICES ASSUME Init PROVE Base
    OBVIOUS
  <1>1. Fields
    <2>1. SocketFd \in Nat /\ 0 \in 0 .. MaxPending /\ {FALSE} \subseteq BOOLEAN
      OBVIOUS
    <2>2. {jammed, softexit, hardexit, crashed} \subseteq BOOLEAN
      BY DEF Init
    <2>3. /\ client \in [Fds -> ClientStates] /\ input \in [Fds -> Inputs]
          /\ worker \in [Workers -> WorkerPlaces] /\ serving \in [Workers -> Fds \cup {NoFd}]
          /\ main \in MainPlaces
      BY DEF Init, ClientStates, Inputs, MainPlaces, WorkerPlaces
    <2>4. pending \in 0 .. MaxPending /\ maxfd \in Nat
      BY <2>1 DEF Init
    <2> QED BY <2>2, <2>3, <2>4 DEF Init, Fields
  <1>4. Employed
    BY DEF Init, Employed
  <1>2. Sequences
    BY DEF Init, Sequences
  <1>5. Budget
    <2>1. Cardinality(Workers) \in Nat
      BY WorkersAssumption, FS_CardinalityType
    <2> QED BY <2>1, RequestsAssumption DEF Init, Budget
  <1>3. Scanning /\ Started /\ Watched
    <2>1. <<>> \in Seq({Pill})
      OBVIOUS
    <2> QED BY <2>1, NoClients DEF Init, Scanning, Started, Watched
  <1> QED BY <1>1, <1>2, <1>3, <1>4, <1>5 DEF Base

(* Every step keeps the types and the bound of select.                     *)
LEMMA StepBase == Base /\ [Next]_vars => Base'
  <1>1. CASE UNCHANGED vars
    BY <1>1 DEF vars, Base, Fields, Sequences, Budget, Employed, Scanning, Started, Watched
  <1>2. ASSUME Base, Next
        PROVE  Base'
    BY <1>2, FieldsStep, SequencesStep, BudgetStep, EmployedStep, ScanningStep, StartedStep, WatchedStep DEF Base
  <1> QED BY <1>1, <1>2

(* The types of the descriptors, sets, queues, pipe and places of the      *)
(* threads, for any number of workers and descriptors (server.c:105-246).  *)
THEOREM TypeCorrect == Spec => []TypeOK
  <1>1. Base => TypeOK
    BY DEF Base, Fields, Sequences, Budget, TypeOK
  <1> QED BY <1>1, InitBase, StepBase, PTL DEF Spec

(* The bound of select covers every client that main waits for, and the    *)
(* pipe as soon as something is in it (server.c:105, 146, 181, 193).       *)
THEOREM SelectWatchesAll == Spec => []Watched
  <1>1. Base => Watched
    BY DEF Base
  <1> QED BY <1>1, InitBase, StepBase, PTL DEF Spec

-----------------------------------------------------------------------------
(* How often a client is in a sequence: a message more, a message less.    *)
LEMMA TimesType ==
    ASSUME NEW S, NEW s \in Seq(S), NEW c
    PROVE  IsFiniteSet({i \in DOMAIN s : s[i] = c}) /\ Times(s, c) \in Nat
  <1>1. Len(s) \in Nat /\ DOMAIN s = 1 .. Len(s)
    OBVIOUS
  <1>2. IsFiniteSet(1 .. Len(s))
    BY <1>1, FS_Interval
  <1>3. {i \in DOMAIN s : s[i] = c} \in SUBSET (1 .. Len(s))
    BY <1>1
  <1>4. IsFiniteSet({i \in DOMAIN s : s[i] = c})
    BY <1>2, <1>3, FS_Subset
  <1> QED BY <1>4, FS_CardinalityType DEF Times

(* A message more.                                                         *)
LEMMA TimesAppend ==
    ASSUME NEW S, NEW s \in Seq(S), NEW x \in S, NEW c
    PROVE  Times(Append(s, x), c) = Times(s, c) + (IF x = c THEN 1 ELSE 0)
  <1> DEFINE I == {i \in DOMAIN s : s[i] = c}
             J == {i \in DOMAIN Append(s, x) : Append(s, x)[i] = c}
  <1>1. IsFiniteSet(I) /\ Times(s, c) \in Nat
    BY TimesType
  <1>2. Len(s) + 1 \notin I
    OBVIOUS
  <1>3. Times(s, c) = Cardinality(I) /\ Times(Append(s, x), c) = Cardinality(J)
    BY DEF Times
  <1>4. CASE x = c
    <2>1. J = I \cup {Len(s) + 1}
      BY <1>4
    <2>2. Cardinality(I \cup {Len(s) + 1}) = Cardinality(I) + 1
      <3> HIDE DEF I
      <3> QED BY <1>1, <1>2, FS_AddElement
    <2> HIDE DEF I, J
    <2> QED BY <1>4, <1>3, <2>1, <2>2
  <1>5. CASE x # c
    <2>1. J = I
      BY <1>5
    <2> HIDE DEF I, J
    <2> QED BY <1>1, <1>5, <1>3, <2>1
  <1> QED BY <1>4, <1>5

(* A message less.                                                         *)
LEMMA TimesTail ==
    ASSUME NEW S, NEW s \in Seq(S), s # <<>>, NEW c
    PROVE  Times(s, c) = Times(Tail(s), c) + (IF Head(s) = c THEN 1 ELSE 0)
  <1> DEFINE I == {i \in DOMAIN s : s[i] = c}
             J == {i \in DOMAIN Tail(s) : Tail(s)[i] = c}
             f == [i \in J |-> i + 1]
  <1>1. Tail(s) \in Seq(S) /\ Len(s) \in Nat \ {0} /\ Len(Tail(s)) = Len(s) - 1
    OBVIOUS
  <1>2. IsFiniteSet(I) /\ IsFiniteSet(J) /\ Cardinality(J) \in Nat
    BY <1>1, TimesType DEF Times
  <1>3. \A i \in J : i \in Nat /\ i + 1 \in I \ {1}
    BY <1>1
  <1>4. \A i \in I \ {1} : i - 1 \in J
    BY <1>1
  <1>5. f \in Bijection(J, I \ {1})
    <2>1. f \in [J -> I \ {1}]
      BY <1>3
    <2>2. \A a, b \in J : f[a] = f[b] => a = b
      BY <1>3
    <2>3. \A t \in I \ {1} : \E a \in J : f[a] = t
      <3> TAKE t \in I \ {1}
      <3>1. t \in Nat /\ t - 1 \in J
        BY <1>4
      <3>2. f[t - 1] = t
        BY <3>1
      <3> QED BY <3>1, <3>2
    <2> QED BY <2>1, <2>2, <2>3, Fun_IsBij
  <1>6. Cardinality(I \ {1}) = Cardinality(J)
    <2>1. ExistsBijection(J, I \ {1})
      BY <1>5 DEF ExistsBijection
    <2> HIDE DEF I, J
    <2> QED BY <1>2, <2>1, FS_Bijection
  <1>7. 1 \in I <=> Head(s) = c
    BY <1>1
  <1>8. Cardinality(I \ {1}) = IF 1 \in I THEN Cardinality(I) - 1 ELSE Cardinality(I)
    BY <1>2, FS_RemoveElement
  <1>9. Cardinality(I) \in Nat
    BY <1>2, FS_CardinalityType
  <1>10. Times(s, c) = Cardinality(I) /\ Times(Tail(s), c) = Cardinality(J)
    BY DEF Times
  <1> HIDE DEF I, J
  <1> QED BY <1>2, <1>6, <1>7, <1>8, <1>9, <1>10

-----------------------------------------------------------------------------
(* What the count of the places of a client is made of.                    *)
Selected(c) == IF c \in readset \cup copy THEN 1 ELSE 0

(* Each part is a number, and a client is selected once at most.           *)
LEMMA PlacesType ==
    ASSUME Base, NEW c \in Fds
    PROVE  /\ Times(queue, c) \in Nat /\ Times(pipe, c) \in Nat
           /\ IsFiniteSet(Holders(c)) /\ Cardinality(Holders(c)) \in Nat
           /\ Selected(c) \in 0 .. 1
           /\ PlacesOf(c) = Times(queue, c) + Times(pipe, c) + Cardinality(Holders(c)) + Selected(c)
  <1>1. Times(queue, c) \in Nat /\ Times(pipe, c) \in Nat
    BY TimesType DEF Base, Sequences
  <1>2. IsFiniteSet(Holders(c)) /\ Cardinality(Holders(c)) \in Nat
    <2>1. Holders(c) \in SUBSET Workers
      BY DEF Holders
    <2> QED BY <2>1, WorkersAssumption, FS_Subset, FS_CardinalityType
  <1> QED BY <1>1, <1>2 DEF Selected, PlacesOf

(* A worker takes a client, and a worker gives its client away.            *)
LEMMA HoldersTake ==
    ASSUME Base, NEW w \in Workers, NEW d \in Fds, NEW c \in Fds,
           serving[w] = NoFd, serving' = [serving EXCEPT ![w] = d]
    PROVE  Cardinality(Holders(c)') = Cardinality(Holders(c)) + (IF c = d THEN 1 ELSE 0)
  <1>1. IsFiniteSet(Holders(c)) /\ Cardinality(Holders(c)) \in Nat
    BY PlacesType
  <1>2. w \notin Holders(c) /\ Cardinality(Holders(c) \cup {w}) = Cardinality(Holders(c)) + 1
    BY <1>1, FS_AddElement DEF Holders
  <1>3. Holders(c)' = IF c = d THEN Holders(c) \cup {w} ELSE Holders(c)
    BY DEF Base, Fields, Holders
  <1> QED BY <1>1, <1>2, <1>3

(* A worker gives its client away.                                         *)
LEMMA HoldersDrop ==
    ASSUME Base, NEW w \in Workers, NEW d \in Fds, NEW c \in Fds,
           serving[w] = d, serving' = [serving EXCEPT ![w] = NoFd]
    PROVE  /\ Cardinality(Holders(c)') = Cardinality(Holders(c)) - (IF c = d THEN 1 ELSE 0)
           /\ c = d => Cardinality(Holders(c)) > 0
  <1>1. IsFiniteSet(Holders(c)) /\ Cardinality(Holders(c)) \in Nat
    BY PlacesType
  <1>2. CASE c = d
    <2>1. w \in Holders(c)
      BY <1>2 DEF Holders
    <2>2. Cardinality(Holders(c) \ {w}) = Cardinality(Holders(c)) - 1
      BY <1>1, <2>1, FS_RemoveElement
    <2>3. IsFiniteSet(Holders(c) \ {w})
      BY <1>1, FS_RemoveElement
    <2>4. Cardinality(Holders(c) \ {w}) \in Nat
      BY <2>3, FS_CardinalityType
    <2>5. Holders(c)' = Holders(c) \ {w}
      BY <1>2 DEF Base, Fields, Holders
    <2> QED BY <1>1, <1>2, <2>2, <2>4, <2>5
  <1>3. CASE c # d
    <2>1. Holders(c)' = Holders(c)
      BY <1>3 DEF Base, Fields, Holders
    <2> QED BY <1>1, <1>3, <2>1
  <1> QED BY <1>2, <1>3

(* The count after a step, from what the step does to each part.           *)
LEMMA PlacesAfter ==
    ASSUME Base, Base', NEW c \in Fds
    PROVE  PlacesOf(c)' = Times(queue', c) + Times(pipe', c) + Cardinality(Holders(c)') + Selected(c)'
  BY DEF PlacesOf, Times, Selected

(* What the steps that move a client d do to the parts of the count of c.  *)
Is(c, d) == IF c = d THEN 1 ELSE 0

LEMMA ScanPipeMoves ==
    ASSUME Base, ScanPipe, NEW c \in Fds
    PROVE  /\ UNCHANGED <<conn, queue, serving>> /\ Times(pipe', c) \in Nat
           /\ \/ /\ Times(pipe, c) = Times(pipe', c)
                 /\ Selected(c)' = Selected(c)
                 /\ \A d \in Fds : Head(pipe) # d
              \/ /\ Head(pipe) \in Fds
                 /\ Times(pipe, c) = Times(pipe', c) + Is(c, Head(pipe))
                 /\ Selected(c)' = IF c = Head(pipe) THEN 1 ELSE Selected(c)
  <1>1. /\ main = "scan" /\ PipeFd \in copy /\ pipe # <<>> /\ copy \subseteq readset
        /\ pipe' = Tail(pipe)
        /\ UNCHANGED <<conn, readset, queue, serving>>
    BY ScanPipeFacts DEF ScanPipe
  <1>2. Times(pipe, c) = Times(pipe', c) + (IF Head(pipe) = c THEN 1 ELSE 0)
    BY <1>1, TimesTail DEF Base, Sequences
  <1>3. Times(pipe', c) \in Nat
    BY <1>1, HeadTail, TimesType DEF Base, Sequences
  <1>4. CASE Head(pipe) = Exit
    <2>1. copy' = {} /\ c # Exit
      BY <1>4, NoClients DEF ScanPipe
    <2> QED BY <1>1, <1>2, <1>3, <1>4, <2>1, NoClients DEF Selected
  <1>5. CASE Head(pipe) # Exit
    <2>1. copy' = (copy \ {PipeFd}) \cup {Head(pipe)} /\ c # PipeFd /\ Head(pipe) \in Fds
      BY <1>1, <1>5, NoClients, TakenType DEF ScanPipe
    <2>2. Selected(c)' = IF c = Head(pipe) THEN 1 ELSE Selected(c)
      BY <1>1, <2>1 DEF Selected
    <2> QED BY <1>1, <1>2, <1>3, <2>1, <2>2 DEF Is
  <1> QED BY <1>4, <1>5

LEMMA ScanClientMoves ==
    ASSUME Base, NEW d \in Fds, ScanClient(d), NEW c \in Fds
    PROVE  /\ UNCHANGED <<conn, pipe, serving>>
           /\ Times(queue', c) = Times(queue, c) + Is(c, d)
           /\ Selected(c)' = IF c = d THEN 0 ELSE Selected(c)
           /\ Selected(d) = 1
  <1>1. /\ d \in copy /\ readset' = readset \ {d} /\ copy' = copy \ {d}
        /\ queue' = Append(queue, d) /\ UNCHANGED <<conn, pipe, serving>>
    BY DEF ScanClient, Put, Scanned, ToScan, Cleared
  <1>2. Times(queue', c) = Times(queue, c) + (IF d = c THEN 1 ELSE 0)
    BY <1>1, TimesAppend DEF Base, Sequences
  <1>3. Selected(c)' = (IF c = d THEN 0 ELSE Selected(c)) /\ Selected(d) = 1
    BY <1>1 DEF Selected
  <1> QED BY <1>1, <1>2, <1>3 DEF Is

LEMMA GetRequestorMoves ==
    ASSUME Base, NEW w \in Workers, GetRequestor(w), NEW c \in Fds
    PROVE  /\ UNCHANGED <<conn, readset, copy, pipe>> /\ Times(queue', c) \in Nat
           /\ \/ /\ Times(queue, c) = Times(queue', c)
                 /\ serving' = serving
              \/ /\ Head(queue) \in Fds
                 /\ Times(queue, c) = Times(queue', c) + Is(c, Head(queue))
                 /\ Cardinality(Holders(c)') = Cardinality(Holders(c)) + Is(c, Head(queue))
  <1>1. queue # <<>> /\ queue' = Tail(queue) /\ UNCHANGED <<conn, readset, copy, pipe>> /\ worker[w] = "get"
    BY GetRequestorFacts DEF GetRequestor
  <1>2. Times(queue, c) = Times(queue', c) + (IF Head(queue) = c THEN 1 ELSE 0)
    BY <1>1, TimesTail DEF Base, Sequences
  <1>3. Times(queue', c) \in Nat
    BY <1>1, HeadTail, TimesType DEF Base, Sequences
  <1>4. CASE Head(queue) = Pill
    <2>1. serving' = serving /\ c # Pill
      BY <1>4, NoClients DEF GetRequestor, Stops
    <2> QED BY <1>1, <1>2, <1>3, <1>4, <2>1
  <1>5. CASE Head(queue) # Pill
    <2>1. PICK d \in Fds : d = Head(queue) /\ serving' = [serving EXCEPT ![w] = d]
      BY <1>5, GetRequestorFacts
    <2>2. serving[w] = NoFd
      BY <1>1 DEF Base, Employed
    <2>3. Cardinality(Holders(c)') = Cardinality(Holders(c)) + (IF c = d THEN 1 ELSE 0)
      BY <2>1, <2>2, HoldersTake
    <2> QED BY <1>1, <1>2, <1>3, <2>1, <2>3 DEF Is
  <1> QED BY <1>4, <1>5

LEMMA ReturnClientMoves ==
    ASSUME Base, NEW w \in Workers, ReturnClient(w), NEW c \in Fds
    PROVE  /\ UNCHANGED <<conn, readset, copy, queue>> /\ serving[w] \in Fds
           /\ Times(pipe', c) = Times(pipe, c) + Is(c, serving[w])
           /\ Cardinality(Holders(c)') = Cardinality(Holders(c)) - Is(c, serving[w])
  <1>1. PICK d \in Fds : d = serving[w]
    BY DEF ReturnClient, WorkerAt, Base, Employed
  <1>2. /\ pipe' = Append(pipe, d) /\ serving' = [serving EXCEPT ![w] = NoFd]
        /\ UNCHANGED <<conn, readset, copy, queue>>
    BY <1>1 DEF ReturnClient, Returned
  <1>3. Times(pipe', c) = Times(pipe, c) + (IF d = c THEN 1 ELSE 0)
    <2>1. pipe \in Seq(Fds \cup {Exit}) /\ d \in Fds \cup {Exit}
      BY DEF Base, Sequences
    <2>2. Times(Append(pipe, d), c) = Times(pipe, c) + (IF d = c THEN 1 ELSE 0)
      BY <2>1, TimesAppend
    <2> QED BY <1>2, <2>2
  <1>4. Cardinality(Holders(c)') = Cardinality(Holders(c)) - (IF c = d THEN 1 ELSE 0)
    BY <1>1, <1>2, HoldersDrop
  <1> QED BY <1>1, <1>2, <1>3, <1>4 DEF Is

-----------------------------------------------------------------------------
(* A worker that got the request code 0 is at the end of the file.         *)
Lost == \A w \in Workers : worker[w] = "lost" => EndOfFile(serving[w])

Placed == Base /\ OnePlace /\ Lost

(* Nobody but accept opens a connection again that has ended.              *)
LEMMA EndsStay ==
    ASSUME Base, Next, ~ScanSocket, NEW c \in Fds, EndOfFile(c)
    PROVE  EndOfFile(c)'
  <1> USE DEF Base, Fields, EndOfFile
  <1>1. ASSUME NEW w \in Workers, GetRequest(w) \/ GetRest(w)
        PROVE  EndOfFile(c)'
    <2>1. PICK to, data : Read(w, data, to)
      BY <1>1 DEF GetRequest, GetRest
    <2> QED BY <2>1 DEF Read
  <1>2. ASSUME NEW w \in Workers, Handle(w) \/ ExitClose(w)
        PROVE  EndOfFile(c)'
    BY <1>2 DEF Handle, ExitClose
  <1>3. ASSUME NEW d \in Fds, NEW from \in {"idle", "sending", "waiting"}, NEW to, NEW data,
               ClientStep(d, from, to, data)
        PROVE  EndOfFile(c)'
    BY <1>3 DEF ClientStep
  <1>4. CASE UNCHANGED <<client, input>>
    BY <1>4
  <1> QED BY <1>1, <1>2, <1>3, <1>4 DEF Next, Main, Work, Attend, Handler, Environment,
         TestExit, EnterSelect, ReturnSelect, ScanEnd, ScanPipe, ScanClient, StopWorker, StopEnd, JoinWorkers,
         TestFlags, GetRequestor, ReturnClient, ExitMessage, Forget,
         Connect, SendHeader, SendBody, SendShort, SendExit, ClientDies, Signal

(* The steps that move a client from one place to the next, and those that *)
(* move nobody.                                                            *)
LEMMA KeptStep ==
    ASSUME Placed, Base', Next, ~ScanSocket,
           \A w \in Workers : ~ExitClose(w) /\ ~Forget(w),
           NEW c \in Fds
    PROVE  PlacesOf(c)' = PlacesOf(c)
  <1> DEFINE Q == Times(queue, c)
             P == Times(pipe, c)
             H == Cardinality(Holders(c))
  <1>0. /\ Base /\ Q \in Nat /\ P \in Nat /\ H \in Nat /\ Selected(c) \in 0 .. 1
        /\ PlacesOf(c) = Q + P + H + Selected(c) /\ PlacesOf(c) <= 1
        /\ PlacesOf(c)' = Times(queue', c) + Times(pipe', c) + Cardinality(Holders(c)') + Selected(c)'
    BY PlacesType, PlacesAfter DEF Placed, OnePlace
  <1>1. serving' = serving => Cardinality(Holders(c)') = H
    BY DEF Holders
  <1>2. CASE TestExit \/ ReturnSelect \/ ScanEnd
    <2>1. UNCHANGED <<queue, pipe, serving, readset>>
      BY <1>2 DEF TestExit, ReturnSelect, ScanEnd
    <2>2. c \in readset' \cup copy' <=> c \in readset \cup copy
      <3>1. CASE TestExit
        BY <1>0, <3>1 DEF TestExit, MainAt, Base, Scanning
      <3>2. CASE ReturnSelect
        BY <1>0, <3>2 DEF ReturnSelect, ReadyFds, MainAt, Base, Scanning
      <3>3. CASE ScanEnd
        <4>1. c \notin copy
          BY <1>0, <3>3 DEF ScanEnd, ToScan, Base, Watched
        <4> QED BY <3>3, <4>1 DEF ScanEnd
      <3> QED BY <1>2, <3>1, <3>2, <3>3
    <2> QED BY <1>0, <1>1, <2>1, <2>2 DEF Selected
  <1>3. CASE ScanPipe
    BY <1>0, <1>1, <1>3, ScanPipeMoves DEF Is
  <1>4. ASSUME NEW d \in Fds, ScanClient(d)
        PROVE  PlacesOf(c)' = PlacesOf(c)
    BY <1>0, <1>1, <1>4, ScanClientMoves DEF Is
  <1>5. CASE StopWorker
    <2>1. Times(queue', c) = Q
      BY <1>0, <1>5, NoClients, TimesAppend DEF StopWorker, Put, Base, Sequences
    <2> QED BY <1>0, <1>1, <1>5, <2>1 DEF StopWorker, Selected
  <1>6. ASSUME NEW w \in Workers, GetRequestor(w)
        PROVE  PlacesOf(c)' = PlacesOf(c)
    <2>1. UNCHANGED <<readset, copy>> => Selected(c)' = Selected(c)
      BY DEF Selected
    <2> QED BY <1>0, <1>1, <1>6, <2>1, GetRequestorMoves DEF Is
  <1>7. ASSUME NEW w \in Workers, ReturnClient(w)
        PROVE  PlacesOf(c)' = PlacesOf(c)
    <2>1. UNCHANGED <<readset, copy>> => Selected(c)' = Selected(c)
      BY DEF Selected
    <2> QED BY <1>0, <1>7, <2>1, ReturnClientMoves DEF Is
  <1>8. ASSUME NEW w \in Workers, ExitMessage(w)
        PROVE  PlacesOf(c)' = PlacesOf(c)
    <2>1. Times(Append(pipe, Exit), c) = P
      <3>1. pipe \in Seq(Fds \cup {Exit}) /\ Exit # c
        BY <1>0, NoClients DEF Base, Sequences
      <3>2. Times(Append(pipe, Exit), c) = P + (IF Exit = c THEN 1 ELSE 0)
        BY <3>1, TimesAppend
      <3> QED BY <1>0, <3>1, <3>2
    <2>2. Times(pipe', c) = P
      BY <1>8, <2>1 DEF ExitMessage
    <2> QED BY <1>0, <1>1, <1>8, <2>2 DEF ExitMessage, Selected
  <1>9. CASE UNCHANGED <<readset, copy, queue, pipe, serving>>
    BY <1>0, <1>1, <1>9 DEF Selected
  <1> QED BY <1>2, <1>3, <1>4, <1>5, <1>6, <1>7, <1>8, <1>9 DEF Next, Main, Work, Attend, Handler, Environment,
         EnterSelect, StopEnd, JoinWorkers, TestFlags, GetRequest, GetRest, Read, Handle,
         Connect, SendHeader, SendBody, SendShort, SendExit, ClientDies, ClientStep, Signal

(* A worker that has a client is one of its places.                        *)
LEMMA ServedIsPlaced ==
    ASSUME Placed, NEW w \in Workers, NEW c \in Fds, serving[w] = c
    PROVE  PlacesOf(c) = 1 /\ Cardinality(Holders(c)) = 1 /\ c \in conn
  <1>1. w \in Holders(c)
    BY DEF Holders
  <1>2. IsFiniteSet(Holders(c)) /\ Cardinality(Holders(c)) \in Nat
    BY PlacesType DEF Placed
  <1>3. Cardinality(Holders(c)) # 0
    BY <1>1, <1>2, FS_EmptySet
  <1>4. PlacesOf(c) <= 1 /\ (PlacesOf(c) = 1 => c \in conn)
    BY DEF Placed, OnePlace
  <1> QED BY <1>2, <1>3, <1>4, PlacesType DEF Placed

(* Every step keeps each client in its one place.                          *)
LEMMA OnePlaceStep ==
    ASSUME Placed, Base', Next
    PROVE  OnePlace'
  <1>0. Base /\ OnePlace
    BY DEF Placed
  <1>1. ASSUME ~ScanSocket, \A w \in Workers : ~ExitClose(w) /\ ~Forget(w)
        PROVE  OnePlace'
    <2>1. UNCHANGED <<conn, jammed>>
      BY <1>1 DEF Next, Main, Work, Attend, Handler, Environment, TestExit, EnterSelect, ReturnSelect, ScanEnd, ScanPipe,
         ScanClient, StopWorker, StopEnd, JoinWorkers, TestFlags, GetRequestor, GetRequest, GetRest, Read, Handle,
         ReturnClient, ExitMessage, Connect, SendHeader, SendBody, SendShort, SendExit, ClientDies,
         ClientStep, Signal
    <2>2. ASSUME NEW c \in Fds
          PROVE  /\ PlacesOf(c)' <= 1
                 /\ PlacesOf(c)' = 1 => c \in conn'
                 /\ c \in conn' /\ PlacesOf(c)' = 0 => jammed' /\ EndOfFile(c)'
      <3>1. PlacesOf(c)' = PlacesOf(c)
        BY <1>1, KeptStep
      <3>2. EndOfFile(c) => EndOfFile(c)'
        BY <1>0, <1>1, EndsStay
      <3> QED BY <1>0, <2>1, <3>1, <3>2 DEF OnePlace
    <2> QED BY <2>2 DEF OnePlace
  <1>2. CASE ScanSocket
    <2>1. UNCHANGED <<queue, pipe, serving, jammed, input>> /\ copy' = copy \ {SocketFd}
      BY <1>0, <1>2, ScanSocketFacts
    <2>2. ASSUME NEW c \in Fds
          PROVE  /\ PlacesOf(c) \in Nat /\ Selected(c) \in 0 .. 1
                 /\ PlacesOf(c)' = PlacesOf(c) - Selected(c) + Selected(c)'
      <3>1. Cardinality(Holders(c)') = Cardinality(Holders(c))
        BY <2>1 DEF Holders
      <3> QED BY <1>0, <2>1, <3>1, PlacesType, PlacesAfter
    <2>3. CASE UNCHANGED <<conn, client, readset>>
      <3>1. ASSUME NEW c \in Fds
            PROVE  /\ PlacesOf(c)' = PlacesOf(c) /\ (EndOfFile(c) => EndOfFile(c)')
        <4>1. Selected(c)' = Selected(c)
          BY <2>1, <2>3, NoClients DEF Selected
        <4> QED BY <2>1, <2>2, <2>3, <4>1 DEF EndOfFile
      <3> QED BY <1>0, <2>1, <2>3, <3>1 DEF OnePlace
    <2>4. ASSUME NEW d \in Fds \ conn, conn' = conn \cup {d}, client' = [client EXCEPT ![d] = "idle"],
                 readset' = readset \cup {d}
          PROVE  OnePlace'
      <3>1. ASSUME NEW c \in Fds, c # d
            PROVE  /\ PlacesOf(c)' = PlacesOf(c) /\ (c \in conn' <=> c \in conn)
                   /\ EndOfFile(c) => EndOfFile(c)'
        <4>1. Selected(c)' = Selected(c)
          BY <2>1, <2>4, <3>1, NoClients DEF Selected
        <4>2. EndOfFile(c) => EndOfFile(c)'
          BY <1>0, <2>1, <2>4, <3>1 DEF EndOfFile, Base, Fields
        <4> QED BY <2>2, <2>4, <3>1, <4>1, <4>2
      <3>2. PlacesOf(d)' = 1 /\ d \in conn'
        <4>1. PlacesOf(d) = 0
          BY <1>0, <2>2, <2>4 DEF OnePlace
        <4>2. Selected(d) = 0
          BY <1>0, <2>4, <4>1, PlacesType
        <4>3. Selected(d)' = 1
          BY <2>4 DEF Selected
        <4> QED BY <2>2, <2>4, <4>1, <4>2, <4>3
      <3>3. ASSUME NEW c \in Fds
            PROVE  /\ PlacesOf(c)' <= 1
                   /\ PlacesOf(c)' = 1 => c \in conn'
                   /\ c \in conn' /\ PlacesOf(c)' = 0 => jammed' /\ EndOfFile(c)'
        <4>1. CASE c = d
          BY <3>2, <4>1
        <4>2. CASE c # d
          BY <1>0, <2>1, <3>1, <4>2 DEF OnePlace
        <4> QED BY <4>1, <4>2
      <3> QED BY <3>3 DEF OnePlace
    <2> QED BY <1>0, <1>2, <2>3, <2>4, ScanSocketFacts
  <1>3. ASSUME NEW w \in Workers, ExitClose(w) \/ Forget(w)
        PROVE  OnePlace'
    <2>1. PICK d \in Fds : d = serving[w]
      BY <1>0, <1>3 DEF ExitClose, Forget, WorkerAt, Base, Employed
    <2>2. ~ScanSocket
      <3>1. worker' = worker \/ worker' # worker
        OBVIOUS
      <3> QED BY <1>0, <1>3, ScanSocketFacts DEF ExitClose, Forget, Step, WorkerAt, Base, Fields
    <2>3. ASSUME NEW c \in Fds
          PROVE  EndOfFile(c) => EndOfFile(c)'
      BY <1>0, <2>2, EndsStay
    <2>4. PlacesOf(d) = 1 /\ Cardinality(Holders(d)) = 1 /\ d \in conn
      BY <2>1, ServedIsPlaced
    <2>5. CASE crashed' # crashed
      <3>1. UNCHANGED <<conn, readset, copy, queue, pipe, serving, jammed>>
        BY <1>3, <2>5 DEF ExitClose, Forget
      <3>2. ASSUME NEW c \in Fds
            PROVE  PlacesOf(c)' = PlacesOf(c)
        BY <3>1 DEF PlacesOf, Holders
      <3> QED BY <1>0, <2>3, <3>1, <3>2 DEF OnePlace
    <2>6. CASE serving' = [serving EXCEPT ![w] = NoFd]
      <3>1. UNCHANGED <<readset, copy, queue>>
        BY <1>3 DEF ExitClose, Forget
      <3>2. UNCHANGED pipe
        BY <1>3 DEF ExitClose, Forget
      <3>3. ASSUME NEW c \in Fds
            PROVE  PlacesOf(c) \in Nat /\ PlacesOf(c)' = PlacesOf(c) - (IF c = d THEN 1 ELSE 0)
        <4>1. Cardinality(Holders(c)') = Cardinality(Holders(c)) - (IF c = d THEN 1 ELSE 0)
          BY <1>0, <2>1, <2>6, HoldersDrop
        <4>2. Selected(c)' = Selected(c)
          BY <3>1 DEF Selected
        <4> QED BY <1>0, <3>1, <3>2, <4>1, <4>2, PlacesType, PlacesAfter
      <3>4. CASE ExitClose(w)
        <4>1. conn' = conn \ {d} /\ jammed' = jammed
          BY <1>0, <2>1, <2>6, <3>4 DEF ExitClose, Base, Fields
        <4>2. ASSUME NEW c \in Fds
              PROVE  /\ PlacesOf(c)' <= 1
                     /\ PlacesOf(c)' = 1 => c \in conn'
                     /\ c \in conn' /\ PlacesOf(c)' = 0 => jammed' /\ EndOfFile(c)'
          <5>1. CASE c = d
            BY <2>4, <3>3, <4>1, <5>1
          <5>2. CASE c # d
            BY <1>0, <2>3, <3>3, <4>1, <5>2 DEF OnePlace
          <5> QED BY <5>1, <5>2
        <4> QED BY <4>2 DEF OnePlace
      <3>5. CASE Forget(w)
        <4>1. conn' = conn /\ jammed' = TRUE /\ EndOfFile(d)
          BY <2>1, <3>5 DEF Forget, WorkerAt, Placed, Lost
        <4>2. ASSUME NEW c \in Fds
              PROVE  /\ PlacesOf(c)' <= 1
                     /\ PlacesOf(c)' = 1 => c \in conn'
                     /\ c \in conn' /\ PlacesOf(c)' = 0 => jammed' /\ EndOfFile(c)'
          <5>1. CASE c = d
            BY <2>3, <2>4, <3>3, <4>1, <5>1
          <5>2. CASE c # d
            BY <1>0, <2>3, <3>3, <4>1, <5>2 DEF OnePlace
          <5> QED BY <5>1, <5>2
        <4> QED BY <4>2 DEF OnePlace
      <3> QED BY <1>3, <3>4, <3>5
    <2> QED BY <1>3, <2>5, <2>6 DEF ExitClose, Forget, WorkerAt, Runs
  <1> QED BY <1>1, <1>2, <1>3

(* A worker takes code 0 only at the end of the file.                      *)
LEMMA LostStep ==
    ASSUME Placed, Next
    PROVE  Lost'
  <1> USE DEF Placed, Base, Fields
  <1>1. ASSUME NEW w \in Workers, GetRequest(w) \/ GetRest(w), NEW v \in Workers, worker'[v] = "lost"
        PROVE  EndOfFile(serving[v])'
    <2>1. UNCHANGED <<client, serving>> /\ serving[w] \in Fds
      BY <1>1 DEF GetRequest, GetRest, Read, WorkerAt, Employed
    <2>2. CASE v = w
      <3>1. EndOfFile(serving[w]) /\ input' = [input EXCEPT ![serving[w]] = "none"]
        BY <1>1, <2>2 DEF GetRequest, GetRest, Read, Step
      <3> QED BY <2>1, <2>2, <3>1 DEF EndOfFile
    <2>3. CASE v # w
      <3>1. EndOfFile(serving[v]) /\ serving[v] \in Fds /\ input' = [input EXCEPT ![serving[w]] = "none"]
        BY <1>1, <2>3 DEF GetRequest, GetRest, Read, Step, Lost, Employed
      <3> QED BY <2>1, <3>1 DEF EndOfFile
    <2> QED BY <2>2, <2>3
  <1>2. ASSUME \A w \in Workers : ~GetRequest(w) /\ ~GetRest(w), NEW v \in Workers, worker'[v] = "lost"
        PROVE  EndOfFile(serving[v])'
    <2>1. worker[v] = "lost" /\ serving'[v] = serving[v]
      BY <1>2 DEF Next, Main, Work, Attend, Handler, Environment, TestExit, EnterSelect, ReturnSelect, ScanEnd, ScanPipe,
         ScanSocket, ScanClient, StopWorker, StopEnd, JoinWorkers, TestFlags, GetRequestor, Handle,
         ReturnClient, ExitMessage, ExitClose, Forget, Connect, SendHeader, SendBody, SendShort, SendExit,
         ClientDies, ClientStep, Signal, Step
    <2>2. PICK c \in Fds : c = serving[v]
      BY <2>1 DEF Employed
    <2>3. EndOfFile(c) /\ c \in conn
      BY <2>1, <2>2, ServedIsPlaced DEF Lost
    <2>4. EndOfFile(c)'
      <3>1. CASE ScanSocket
        BY <2>3, <3>1, ScanSocketFacts DEF EndOfFile
      <3>2. CASE ~ScanSocket
        BY <2>3, <3>2, EndsStay
      <3> QED BY <3>1, <3>2
    <2> QED BY <2>1, <2>2, <2>4 DEF EndOfFile
  <1>3. ASSUME NEW v \in Workers, worker'[v] = "lost"
        PROVE  EndOfFile(serving[v])'
    BY <1>1, <1>2, <1>3
  <1> QED BY <1>3 DEF Lost

(* The bookkeeping of the clients is inductive together with the types.    *)
THEOREM ServerInductive == Spec => []Placed
  <1>1. Init => Placed
    <2> SUFFICES ASSUME Init PROVE OnePlace /\ Lost
      BY InitBase DEF Placed
    <2>1. ASSUME NEW c \in Fds
          PROVE  PlacesOf(c) = 0
      <3>1. Times(<<>>, c) = 0
        <4>1. {i \in DOMAIN <<>> : <<>>[i] = c} = {}
          OBVIOUS
        <4> QED BY <4>1, FS_EmptySet DEF Times
      <3>2. Holders(c) = {}
        BY DEF Init, Holders
      <3>3. c \notin readset \cup copy
        BY NoClients DEF Init
      <3> QED BY <3>1, <3>2, <3>3, FS_EmptySet DEF Init, PlacesOf
    <2>2. OnePlace
      BY <2>1 DEF Init, OnePlace
    <2> QED BY <2>2 DEF Init, Lost
  <1>2. Placed /\ [Next]_vars => Placed'
    <2>1. CASE UNCHANGED vars
      BY <2>1, StepBase DEF vars, Placed, OnePlace, PlacesOf, Holders, Lost, EndOfFile
    <2>2. ASSUME Placed, Next
          PROVE  Placed'
      <3>1. Base'
        BY <2>2, StepBase DEF Placed
      <3> QED BY <2>2, <3>1, OnePlaceStep, LostStep DEF Placed
    <2> QED BY <2>1, <2>2
  <1> QED BY <1>1, <1>2, PTL DEF Spec

(* No two workers serve one client, and the main thread, the queue and the *)
(* pipe never have a client that a worker has: whatever the order of the   *)
(* steps, a connected client is in exactly one place until its connection  *)
(* ends (server.c:144-149, 191-197, 244-250).                              *)
THEOREM ClientsHaveOnePlace == Spec => []OnePlace
  <1>1. Placed => OnePlace
    BY DEF Placed
  <1> QED BY <1>1, ServerInductive, PTL

-----------------------------------------------------------------------------
(* The place of the worker that has a client, told from what the client    *)
(* does and what can be read from it.                                      *)
Matches(c, place) ==
    \/ Unread(c) /\ place \in {"read", "return"}
    \/ HalfRead(c) /\ place = "body"
    \/ AllRead(c) /\ place \in {"handle", "leave", "bye"}

Agreed ==
    \A c \in Fds :
        /\ client[c] = "away" <=> c \notin conn
        /\ client[c] # "dead" =>
              /\ \A w \in Workers : serving[w] = c => Matches(c, worker[w])
              /\ (\A w \in Workers : serving[w] # c) => Unread(c)

(* Nobody else has a client that a worker has, and nobody one that is in   *)
(* the queue.                                                              *)
LEMMA OneHolder ==
    ASSUME Placed, NEW w \in Workers, NEW v \in Workers, serving[w] \in Fds, serving[v] = serving[w]
    PROVE  v = w
  <1>1. PICK c \in Fds : c = serving[w]
    OBVIOUS
  <1>2. Cardinality(Holders(c)) = 1 /\ IsFiniteSet(Holders(c))
    BY <1>1, ServedIsPlaced, PlacesType DEF Placed
  <1>3. PICK x : Holders(c) = {x}
    BY <1>2, FS_Singleton
  <1>4. w \in Holders(c) /\ v \in Holders(c)
    BY <1>1 DEF Holders
  <1> QED BY <1>3, <1>4

LEMMA QueuedAlone ==
    ASSUME Placed, queue # <<>>, NEW c \in Fds, Head(queue) = c, NEW w \in Workers
    PROVE  serving[w] # c
  <1>0. Base /\ queue \in Seq(Fds \cup {Pill})
    BY DEF Placed, Base, Sequences
  <1>1. Times(queue, c) = Times(Tail(queue), c) + 1 /\ Times(Tail(queue), c) \in Nat
    BY <1>0, TimesTail, HeadTail, TimesType
  <1>2. PlacesOf(c) <= 1
    BY DEF Placed, OnePlace
  <1>3. Cardinality(Holders(c)) = 0
    <2>1. /\ Times(queue, c) \in Nat /\ Times(pipe, c) \in Nat /\ Cardinality(Holders(c)) \in Nat
          /\ Selected(c) \in 0 .. 1
          /\ PlacesOf(c) = Times(queue, c) + Times(pipe, c) + Cardinality(Holders(c)) + Selected(c)
      BY <1>0, PlacesType
    <2> QED BY <1>1, <1>2, <2>1
  <1> QED BY <1>3, ServedIsPlaced

LEMMA AgreedStep ==
    ASSUME Placed, Agreed, Next
    PROVE  Agreed'
  <1> USE DEF Unread, HalfRead, AllRead
  <1>0. /\ client \in [Fds -> ClientStates] /\ input \in [Fds -> Inputs]
        /\ worker \in [Workers -> WorkerPlaces] /\ serving \in [Workers -> Fds \cup {NoFd}]
        /\ \A w \in Workers :
              IF worker[w] \in {"test", "get", "done"} THEN serving[w] = NoFd ELSE serving[w] \in Fds
        /\ \A w \in Workers : worker[w] = "lost" => client[serving[w]] = "dead"
    BY DEF Placed, Base, Fields, Employed, Lost, EndOfFile
  <1>2. ASSUME NEW d \in Fds,
               SendHeader(d) \/ SendBody(d) \/ SendShort(d) \/ SendExit(d) \/ ClientDies(d)
        PROVE  Agreed'
    <2>1. PICK from, to, data : from \in {"idle", "sending", "waiting"} /\ ClientStep(d, from, to, data)
      BY <1>2 DEF SendHeader, SendBody, SendShort, SendExit, ClientDies
    <2>2. UNCHANGED <<conn, worker, serving>> /\ client[d] \in {"idle", "sending", "waiting"}
      BY <2>1 DEF ClientStep
    <2>3. /\ client'[d] # "away"
          /\ client'[d] # "dead" => /\ \A place : Matches(d, place) => Matches(d, place)'
                                    /\ Unread(d) => Unread(d)'
      BY <1>0, <1>2 DEF SendHeader, SendBody, SendShort, SendExit, ClientDies, ClientStep, Matches
    <2>4. \A c \in Fds \ {d} : client'[c] = client[c] /\ input'[c] = input[c]
      BY <1>0, <2>1 DEF ClientStep
    <2> QED BY <1>0, <2>2, <2>3, <2>4 DEF Agreed, Matches
  <1>3. CASE ScanSocket
    <2>1. UNCHANGED <<input, worker, serving>>
      BY <1>3 DEF ScanSocket
    <2>2. CASE UNCHANGED <<conn, client>>
      BY <2>1, <2>2 DEF Agreed, Matches
    <2>3. ASSUME NEW d \in Fds \ conn, conn' = conn \cup {d}, client' = [client EXCEPT ![d] = "idle"]
          PROVE  Agreed'
      <3>1. \A w \in Workers : serving[w] # d
        BY <2>3, ServedIsPlaced
      <3>2. client[d] = "away" /\ input[d] = "none" /\ client'[d] = "idle"
        BY <1>0, <2>3, <3>1 DEF Agreed
      <3>3. \A c \in Fds \ {d} : client'[c] = client[c] /\ (c \in conn' <=> c \in conn)
        BY <1>0, <2>3
      <3> QED BY <2>1, <2>3, <3>1, <3>2, <3>3 DEF Agreed, Matches
    <2> QED BY <1>3, <2>2, <2>3, ScanSocketFacts DEF Placed
  <1>4. ASSUME NEW w \in Workers, GetRequestor(w)
        PROVE  Agreed'
    <2>1. UNCHANGED <<conn, client, input>> /\ worker[w] = "get" /\ serving[w] = NoFd /\ queue # <<>>
      BY <1>0, <1>4 DEF GetRequestor, WorkerAt
    <2>2. CASE worker' = [worker EXCEPT ![w] = "test"] /\ serving' = serving
      BY <1>0, <2>1, <2>2 DEF Agreed, Matches
    <2>3. ASSUME NEW d \in Fds, d = Head(queue), worker' = [worker EXCEPT ![w] = "read"],
                 serving' = [serving EXCEPT ![w] = d]
          PROVE  Agreed'
      <3>1. \A v \in Workers : serving[v] # d
        BY <2>1, <2>3, QueuedAlone
      <3>2. client[d] # "dead" => Unread(d)
        BY <3>1 DEF Agreed
      <3>3. /\ serving'[w] = d /\ worker'[w] = "read"
            /\ \A v \in Workers \ {w} : serving'[v] = serving[v] /\ worker'[v] = worker[v]
        BY <1>0, <2>3
      <3> QED BY <1>0, <2>1, <3>1, <3>2, <3>3 DEF Agreed, Matches
    <2> QED BY <1>4, <2>2, <2>3, GetRequestorFacts DEF Placed
  <1>5. ASSUME NEW w \in Workers, NEW d \in Fds, d = serving[w], UNCHANGED <<conn, serving>>,
               \A v \in Workers \ {w} : worker'[v] = worker[v],
               \A c \in Fds \ {d} : client'[c] = client[c] /\ input'[c] = input[c],
               client'[d] = "away" <=> client[d] = "away",
               client'[d] # "dead" => Matches(d, worker[w]) /\ Matches(d, worker[w])'
        PROVE  Agreed'
    <2>1. \A v \in Workers \ {w} : serving[v] # d
      BY <1>5, OneHolder
    <2>2. ASSUME NEW c \in Fds \ {d}
          PROVE  /\ client'[c] = "away" <=> c \notin conn'
                 /\ client'[c] # "dead" =>
                       /\ \A v \in Workers : serving'[v] = c => Matches(c, worker[v])'
                       /\ (\A v \in Workers : serving'[v] # c) => Unread(c)'
      BY <1>5, <2>2 DEF Agreed, Matches
    <2>3. /\ client'[d] = "away" <=> d \notin conn'
          /\ client'[d] # "dead" =>
                /\ \A v \in Workers : serving'[v] = d => Matches(d, worker[v])'
                /\ (\A v \in Workers : serving'[v] # d) => Unread(d)'
      BY <1>5, <2>1 DEF Agreed
    <2> QED BY <2>2, <2>3 DEF Agreed, Matches
  <1>6. ASSUME NEW w \in Workers, GetRequest(w) \/ GetRest(w)
        PROVE  Agreed'
    <2>1. PICK d \in Fds : d = serving[w]
      BY <1>0, <1>6 DEF GetRequest, GetRest, WorkerAt
    <2>2. PICK to, data : Read(w, data, to)
      BY <1>6 DEF GetRequest, GetRest
    <2>3. /\ UNCHANGED <<conn, serving, client>> /\ input' = [input EXCEPT ![d] = "none"]
          /\ \A v \in Workers \ {w} : worker'[v] = worker[v]
      BY <1>0, <2>1, <2>2 DEF Read, Step
    <2>4. client[d] # "dead" => Matches(d, worker[w])
      BY <2>1 DEF Agreed
    <2>5. client'[d] # "dead" => Matches(d, worker[w])'
      BY <1>0, <1>6, <2>1, <2>3, <2>4 DEF GetRequest, GetRest, Read, Step, WorkerAt, EndOfFile, Matches
    <2>6. \A c \in Fds \ {d} : client'[c] = client[c] /\ input'[c] = input[c]
      BY <1>0, <2>3
    <2> QED BY <1>5, <2>1, <2>3, <2>4, <2>5, <2>6
  <1>7. ASSUME NEW w \in Workers, Handle(w) \/ ExitMessage(w)
        PROVE  Agreed'
    <2>1. PICK d \in Fds : d = serving[w]
      BY <1>0, <1>7 DEF Handle, ExitMessage, WorkerAt
    <2>2. CASE UNCHANGED <<conn, client, input, worker, serving>>
      BY <2>2 DEF Agreed, Matches
    <2>3. CASE client[d] # "dead" /\ client' = [client EXCEPT ![d] = "idle"] /\ Handle(w) /\ Step(w, "return")
      <3>1. Matches(d, "handle")
        BY <2>1, <2>3 DEF Agreed, Handle, WorkerAt
      <3>2. /\ UNCHANGED <<conn, serving, input>> /\ client'[d] = "idle" /\ worker'[w] = "return"
            /\ \A v \in Workers \ {w} : worker'[v] = worker[v]
            /\ \A c \in Fds \ {d} : client'[c] = client[c]
        BY <1>0, <2>3 DEF Handle, Step
      <3>3. Matches(d, worker[w]) /\ Matches(d, worker[w])'
        BY <2>3, <3>1, <3>2 DEF Matches, Handle, WorkerAt
      <3>4. client'[d] # "away" /\ client[d] # "away"
        BY <3>1, <3>2 DEF Matches
      <3> QED BY <1>5, <2>1, <3>2, <3>3, <3>4
    <2>4. CASE ExitMessage(w) /\ Step(w, "bye")
      <3>1. UNCHANGED <<conn, serving, client, input>> /\ worker[w] = "leave" /\ worker'[w] = "bye"
        BY <1>0, <2>4 DEF ExitMessage, WorkerAt, Step
      <3>2. \A v \in Workers \ {w} : worker'[v] = worker[v]
        BY <1>0, <2>4 DEF ExitMessage, Step
      <3>3. client'[d] # "dead" => Matches(d, worker[w]) /\ Matches(d, worker[w])'
        BY <2>1, <3>1 DEF Agreed, Matches
      <3> QED BY <1>5, <2>1, <3>1, <3>2, <3>3
    <2> QED BY <1>7, <2>1, <2>2, <2>3, <2>4 DEF Handle, ExitMessage
  <1>8. ASSUME NEW w \in Workers, ReturnClient(w) \/ Forget(w)
        PROVE  Agreed'
    <2>1. PICK d \in Fds : d = serving[w]
      BY <1>0, <1>8 DEF ReturnClient, Forget, WorkerAt
    <2>2. /\ UNCHANGED <<conn, client, input>> /\ serving'[w] = NoFd
          /\ \A v \in Workers \ {w} : worker'[v] = worker[v] /\ serving'[v] = serving[v] /\ serving[v] # d
          /\ worker[w] \in {"return", "lost"}
      BY <1>0, <1>8, <2>1, OneHolder DEF ReturnClient, Forget, Step, WorkerAt
    <2>3. client[d] # "dead" => Unread(d)
      BY <1>0, <2>1, <2>2 DEF Agreed, Matches
    <2> QED BY <2>1, <2>2, <2>3 DEF Agreed, Matches
  <1>9. ASSUME NEW w \in Workers, ExitClose(w)
        PROVE  Agreed'
    <2>1. PICK d \in Fds : d = serving[w]
      BY <1>0, <1>9 DEF ExitClose, WorkerAt
    <2>2. CASE UNCHANGED <<conn, client, input, worker, serving>>
      BY <2>2 DEF Agreed, Matches
    <2>3. CASE /\ client[d] # "dead" /\ conn' = conn \ {d} /\ client' = [client EXCEPT ![d] = "away"]
               /\ serving' = [serving EXCEPT ![w] = NoFd] /\ Step(w, "test")
      <3>1. Matches(d, "bye")
        BY <1>9, <2>1, <2>3 DEF Agreed, ExitClose, WorkerAt
      <3>2. /\ input' = input /\ serving'[w] = NoFd /\ client'[d] = "away"
            /\ \A v \in Workers \ {w} : worker'[v] = worker[v] /\ serving'[v] = serving[v] /\ serving[v] # d
            /\ \A c \in Fds \ {d} : client'[c] = client[c] /\ (c \in conn' <=> c \in conn)
        BY <1>0, <1>9, <2>1, <2>3, OneHolder DEF ExitClose, Step
      <3> QED BY <2>1, <2>3, <3>1, <3>2 DEF Agreed, Matches
    <2> QED BY <1>9, <2>1, <2>2, <2>3 DEF ExitClose
  <1>10. ASSUME NEW w \in Workers, TestFlags(w)
         PROVE  Agreed'
    <2>1. /\ UNCHANGED <<conn, client, input, serving>> /\ serving[w] = NoFd
          /\ \A v \in Workers \ {w} : worker'[v] = worker[v]
      BY <1>0, <1>10 DEF TestFlags, Step, WorkerAt
    <2> QED BY <2>1 DEF Agreed, Matches
  <1>11. CASE UNCHANGED <<conn, client, input, worker, serving>>
    BY <1>11 DEF Agreed, Matches
  <1>12. CASE Main
    BY <1>3, <1>11, <1>12 DEF Main, TestExit, EnterSelect, ReturnSelect, ScanEnd, ScanPipe, ScanClient,
       StopWorker, StopEnd, JoinWorkers
  <1>13. CASE Environment
    BY <1>2, <1>11, <1>13 DEF Environment, Connect, Signal
  <1> QED BY <1>4, <1>6, <1>7, <1>8, <1>9, <1>10, <1>12, <1>13 DEF Next, Work, Attend, Handler

(* Server and client agree on the part of the request that is under way:   *)
(* an answer goes only to a client that waits for it and has nothing       *)
(* unread, whatever the other clients and workers do                       *)
(* (comms.c:193-226, server.c:244-262).                                    *)
THEOREM ExchangesInStep == Spec => []InStep
  <1>1. Init => Agreed
    BY DEF Init, Agreed, Unread
  <1>2. Placed /\ Agreed /\ [Next]_vars => Agreed'
    BY AgreedStep DEF vars, Agreed, Matches, Unread, HalfRead, AllRead
  <1>3. Placed /\ Agreed => InStep
    <2> SUFFICES ASSUME Placed, Agreed, NEW c \in Fds, client[c] # "dead"
                 PROVE  LET at == {worker[w] : w \in Holders(c)}
                        IN  \/ Unread(c) /\ at \subseteq {"read", "return"}
                            \/ HalfRead(c) /\ at = {"body"}
                            \/ AllRead(c) /\ at \in {{"handle"}, {"leave"}, {"bye"}}
      BY DEF InStep
    <2>1. CASE \A w \in Workers : serving[w] # c
      BY <2>1 DEF Agreed, Holders
    <2>2. ASSUME NEW w \in Workers, serving[w] = c
          PROVE  /\ {worker[v] : v \in Holders(c)} = {worker[w]}
                 /\ Matches(c, worker[w])
      <3>1. Holders(c) = {w}
        BY <2>2, OneHolder DEF Holders
      <3> QED BY <2>2, <3>1 DEF Agreed
    <2> QED BY <2>1, <2>2 DEF Matches
  <1> QED BY <1>1, <1>2, <1>3, ServerInductive, PTL DEF Spec

-----------------------------------------------------------------------------
(* The place of a client, from the one part of the count that is not 0.    *)
Spot(c) ==
    /\ c \notin conn => PlaceOf(c) = "away"
    /\ Selected(c) = 1 => PlaceOf(c) = "main"
    /\ Times(queue, c) = 1 => PlaceOf(c) = "queue"
    /\ Times(pipe, c) = 1 => PlaceOf(c) = "pipe"
    /\ Cardinality(Holders(c)) = 1 => PlaceOf(c) = "worker"
    /\ c \in conn /\ PlacesOf(c) = 0 => PlaceOf(c) = "lost"

AllSpots == \A d \in Fds : Spot(d)

LEMMA Spots == Placed => AllSpots
  <1> SUFFICES ASSUME Placed, NEW c \in Fds PROVE Spot(c)
    BY DEF AllSpots
  <1>1. /\ Times(queue, c) \in Nat /\ Times(pipe, c) \in Nat
        /\ Cardinality(Holders(c)) \in Nat /\ Selected(c) \in 0 .. 1
        /\ PlacesOf(c) = Times(queue, c) + Times(pipe, c) + Cardinality(Holders(c)) + Selected(c)
        /\ PlacesOf(c) <= 1 /\ (PlacesOf(c) = 1 => c \in conn)
    BY PlacesType DEF Placed, OnePlace
  <1>2. c \in readset \cup copy <=> Selected(c) = 1
    BY DEF Selected
  <1>3. Holders(c) # {} <=> Cardinality(Holders(c)) # 0
    <2>1. IsFiniteSet(Holders(c))
      BY PlacesType DEF Placed
    <2> QED BY <2>1, FS_EmptySet
  <1>4. /\ Selected(c) = 1 => c \in conn
        /\ Times(queue, c) = 1 => c \in conn /\ Selected(c) = 0
        /\ Times(pipe, c) = 1 => c \in conn /\ Selected(c) = 0 /\ Times(queue, c) = 0
        /\ Cardinality(Holders(c)) = 1 =>
              c \in conn /\ Selected(c) = 0 /\ Times(queue, c) = 0 /\ Times(pipe, c) = 0
        /\ PlacesOf(c) = 0 =>
              /\ Selected(c) = 0 /\ Times(queue, c) = 0 /\ Times(pipe, c) = 0
              /\ Cardinality(Holders(c)) = 0
    <2>1. PICK q, p, h, x : /\ q = Times(queue, c) /\ p = Times(pipe, c)
                            /\ h = Cardinality(Holders(c)) /\ x = Selected(c)
      OBVIOUS
    <2>2. q \in Nat /\ p \in Nat /\ h \in Nat /\ x \in 0 .. 1 /\ q + p + h + x <= 1
      BY <1>1, <2>1
    <2>3. q = 1 \/ p = 1 \/ h = 1 \/ x = 1 => PlacesOf(c) = 1
      BY <1>1, <2>1, <2>2
    <2>4. q + p + h + x = 0 => x = 0 /\ q = 0 /\ p = 0 /\ h = 0
      BY <2>2
    <2>5. x = 1 => q = 0 /\ p = 0 /\ h = 0
      BY <2>2
    <2>6. q = 1 => x = 0 /\ p = 0 /\ h = 0
      BY <2>2
    <2>7. p = 1 => x = 0 /\ q = 0 /\ h = 0
      BY <2>2
    <2>8. h = 1 => x = 0 /\ q = 0 /\ p = 0
      BY <2>2
    <2>9. q = 1 \/ p = 1 \/ h = 1 \/ x = 1 => c \in conn
      BY <1>1, <2>3
    <2>10. PlacesOf(c) = 0 => q + p + h + x = 0
      BY <1>1, <2>1
    <2> QED BY <2>1, <2>4, <2>5, <2>6, <2>7, <2>8, <2>9, <2>10
  <1> QED BY <1>2, <1>3, <1>4 DEF Spot, PlaceOf

LEMMA SpotsNext == (Placed => AllSpots)'
  BY Spots, PTL

(* The parts of the count after a step, with their sum.                    *)
LEMMA SpotsAfter ==
    ASSUME Placed, Placed', NEW c \in Fds
    PROVE  /\ Times(queue, c) \in Nat /\ Times(pipe, c) \in Nat
           /\ Cardinality(Holders(c)) \in Nat /\ Selected(c) \in 0 .. 1
           /\ Times(queue, c) + Times(pipe, c) + Cardinality(Holders(c)) + Selected(c) <= 1
           /\ PlacesOf(c) = Times(queue, c) + Times(pipe, c) + Cardinality(Holders(c)) + Selected(c)
           /\ c \notin conn' => PlaceOf(c)' = "away"
           /\ Selected(c)' = 1 => PlaceOf(c)' = "main"
           /\ Times(queue', c) = 1 => PlaceOf(c)' = "queue"
           /\ Times(pipe', c) = 1 => PlaceOf(c)' = "pipe"
           /\ Cardinality(Holders(c)') = 1 => PlaceOf(c)' = "worker"
           /\ c \in conn' /\ PlacesOf(c)' = 0 => PlaceOf(c)' = "lost"
           /\ PlacesOf(c)' = Times(queue', c) + Times(pipe', c) + Cardinality(Holders(c)') + Selected(c)'
           /\ Spot(c)
  <1>1. /\ Times(queue, c) \in Nat /\ Times(pipe, c) \in Nat
        /\ Cardinality(Holders(c)) \in Nat /\ Selected(c) \in 0 .. 1
        /\ PlacesOf(c) = Times(queue, c) + Times(pipe, c) + Cardinality(Holders(c)) + Selected(c)
        /\ PlacesOf(c) <= 1
    BY PlacesType DEF Placed, OnePlace
  <1>2. Spot(c)
    BY Spots DEF AllSpots
  <1>3. Spot(c)'
    BY SpotsNext DEF AllSpots
  <1>4. PlacesOf(c)' = Times(queue', c) + Times(pipe', c) + Cardinality(Holders(c)') + Selected(c)'
    BY PlacesAfter DEF Placed
  <1> QED BY <1>1, <1>2, <1>3, <1>4 DEF Spot, Times

(* A client of which no part changes stays where it is.                    *)
LEMMA StaysPut ==
    ASSUME Placed, Placed', NEW c \in Fds, c \in conn' <=> c \in conn,
           Times(queue', c) = Times(queue, c), Times(pipe', c) = Times(pipe, c),
           Cardinality(Holders(c)') = Cardinality(Holders(c)), Selected(c)' = Selected(c)
    PROVE  PlaceOf(c)' = PlaceOf(c)
  BY SpotsAfter DEF Spot

(* One client moves, and all others stay.                                  *)
LEMMA MoveStep ==
    ASSUME NEW d \in Fds, NEW from, NEW to, PlaceOf(d) = from, PlaceOf(d)' = to,
           \A c \in Fds \ {d} : PlaceOf(c)' = PlaceOf(c)
    PROVE  Abstract!Move(d, from, to)
  <1> DEFINE place == [c \in Fds |-> PlaceOf(c)]
  <1>1. place[d] = from
    OBVIOUS
  <1>2. place' = [place EXCEPT ![d] = to]
    OBVIOUS
  <1> QED BY <1>1, <1>2 DEF Abstract!Move

LEMMA RoundStep ==
    ASSUME Placed, Placed', Next
    PROVE  [Abstract!Next]_[c \in Fds |-> PlaceOf(c)]
  <1> DEFINE Still(c) == /\ c \in conn' <=> c \in conn
                         /\ Times(queue', c) = Times(queue, c) /\ Times(pipe', c) = Times(pipe, c)
                         /\ Cardinality(Holders(c)') = Cardinality(Holders(c))
                         /\ Selected(c)' = Selected(c)
  <1>0. /\ Base /\ Base'
        /\ \A c \in Fds : /\ Times(queue, c) \in Nat /\ Times(pipe, c) \in Nat
                            /\ Cardinality(Holders(c)) \in Nat /\ PlacesOf(c) \in 0 .. 1
    <2>1. Base /\ Base'
      BY DEF Placed
    <2>2. ASSUME NEW c \in Fds
          PROVE  /\ Times(queue, c) \in Nat /\ Times(pipe, c) \in Nat
                 /\ Cardinality(Holders(c)) \in Nat /\ PlacesOf(c) \in 0 .. 1
      <3>1. /\ Times(queue, c) \in Nat /\ Times(pipe, c) \in Nat
            /\ Cardinality(Holders(c)) \in Nat /\ Selected(c) \in 0 .. 1
            /\ PlacesOf(c) = Times(queue, c) + Times(pipe, c) + Cardinality(Holders(c)) + Selected(c)
        BY <2>1, PlacesType
      <3> QED BY <3>1 DEF Placed, OnePlace
    <2> QED BY <2>1, <2>2
  <1>1. \A c \in Fds : Still(c) => PlaceOf(c)' = PlaceOf(c)
    BY StaysPut
  <1>2. ASSUME \A c \in Fds : Still(c)
        PROVE  UNCHANGED [c \in Fds |-> PlaceOf(c)]
    BY <1>1, <1>2
  <1>3. /\ UNCHANGED serving => \A c \in Fds : Cardinality(Holders(c)') = Cardinality(Holders(c))
        /\ UNCHANGED <<readset, copy>> => \A c \in Fds : Selected(c)' = Selected(c)
    BY DEF Holders, Selected
  <1>4. CASE TestExit \/ ReturnSelect \/ ScanEnd
    <2>1. UNCHANGED <<conn, queue, pipe, serving>>
      BY <1>4 DEF TestExit, ReturnSelect, ScanEnd
    <2>2. ASSUME NEW c \in Fds
          PROVE  Selected(c)' = Selected(c)
      <3>1. CASE TestExit
        BY <1>0, <3>1 DEF TestExit, MainAt, Base, Scanning, Selected
      <3>2. CASE ReturnSelect
        BY <1>0, <3>2 DEF ReturnSelect, ReadyFds, MainAt, Base, Scanning, Selected
      <3>3. CASE ScanEnd
        <4>1. c \notin copy
          BY <1>0, <3>3 DEF ScanEnd, ToScan, Base, Watched
        <4> QED BY <3>3, <4>1 DEF ScanEnd, Selected
      <3> QED BY <1>4, <3>1, <3>2, <3>3
    <2> QED BY <1>2, <1>3, <2>1, <2>2
  <1>5. CASE ScanPipe
    <2>1. ASSUME \A d \in Fds : Head(pipe) # d
          PROVE  \A c \in Fds : Still(c)
      BY <1>0, <1>3, <1>5, <2>1, ScanPipeMoves
    <2>2. ASSUME NEW d \in Fds, Head(pipe) = d
          PROVE  Abstract!Receive(d)
      <3>1. \A c \in Fds \ {d} : PlaceOf(c)' = PlaceOf(c)
        BY <1>0, <1>1, <1>3, <1>5, <2>2, ScanPipeMoves DEF Is
      <3>2. Times(pipe, d) = Times(pipe', d) + 1 /\ Times(pipe', d) \in Nat /\ Selected(d)' = 1
        BY <1>0, <1>5, <2>2, ScanPipeMoves DEF Is
      <3>3. PlaceOf(d) = "pipe" /\ PlaceOf(d)' = "main"
        BY <3>2, SpotsAfter DEF Spot
      <3> QED BY <3>1, <3>3, MoveStep DEF Abstract!Receive
    <2> QED BY <1>2, <2>1, <2>2 DEF Abstract!Next
  <1>6. ASSUME NEW d \in Fds, ScanClient(d)
        PROVE  Abstract!Enqueue(d)
    <2>1. ASSUME NEW c \in Fds \ {d}
          PROVE  PlaceOf(c)' = PlaceOf(c)
      <3>1. /\ UNCHANGED <<conn, pipe, serving>>
            /\ Times(queue', c) = Times(queue, c) + Is(c, d)
            /\ Selected(c)' = Selected(c) /\ Is(c, d) = 0
        BY <1>0, <1>6, ScanClientMoves DEF Is
      <3> QED BY <1>0, <1>1, <1>3, <3>1
    <2>2. Selected(d) = 1 /\ Times(queue', d) = Times(queue, d) + 1
      BY <1>0, <1>6, ScanClientMoves DEF Is
    <2>3. PlaceOf(d) = "main" /\ PlaceOf(d)' = "queue"
      BY <2>2, SpotsAfter DEF Spot
    <2> QED BY <2>1, <2>3, MoveStep DEF Abstract!Enqueue
  <1>7. CASE ScanSocket
    <2>1. UNCHANGED <<queue, pipe, serving, jammed, input>> /\ copy' = copy \ {SocketFd}
      BY <1>0, <1>7, ScanSocketFacts
    <2>2. CASE UNCHANGED <<conn, client, readset>>
      <3>1. \A c \in Fds : Selected(c)' = Selected(c)
        BY <2>1, <2>2, NoClients DEF Selected
      <3> QED BY <1>2, <1>3, <2>1, <2>2, <3>1
    <2>3. ASSUME NEW d \in Fds \ conn, conn' = conn \cup {d}, readset' = readset \cup {d}
          PROVE  Abstract!Accept(d)
      <3>1. \A c \in Fds \ {d} : Selected(c)' = Selected(c) /\ (c \in conn' <=> c \in conn)
        BY <2>1, <2>3, NoClients DEF Selected
      <3>2. \A c \in Fds \ {d} : PlaceOf(c)' = PlaceOf(c)
        BY <1>1, <1>3, <2>1, <3>1
      <3>3. Selected(d)' = 1
        BY <2>3 DEF Selected
      <3>4. PlaceOf(d) = "away" /\ PlaceOf(d)' = "main"
        BY <2>3, <3>3, SpotsAfter DEF Spot
      <3> QED BY <3>2, <3>4, MoveStep DEF Abstract!Accept
    <2> QED BY <1>0, <1>7, <2>2, <2>3, ScanSocketFacts DEF Abstract!Next
  <1>8. CASE StopWorker
    <2>1. \A c \in Fds : Times(queue', c) = Times(queue, c)
      BY <1>0, <1>8, NoClients, TimesAppend DEF StopWorker, Put, Base, Sequences
    <2> QED BY <1>2, <1>3, <1>8, <2>1 DEF StopWorker
  <1>9. ASSUME NEW w \in Workers, GetRequestor(w)
        PROVE  [Abstract!Next]_[c \in Fds |-> PlaceOf(c)]
    <2>1. CASE serving' = serving /\ \A c \in Fds : Times(queue, c) = Times(queue', c)
      <3>1. UNCHANGED <<conn, readset, copy, pipe>>
        BY <1>9 DEF GetRequestor
      <3> QED BY <1>2, <1>3, <2>1, <3>1
    <2>2. ASSUME NEW d \in Fds, Head(queue) = d,
                 \A c \in Fds : /\ Times(queue, c) = Times(queue', c) + Is(c, d) /\ Times(queue', c) \in Nat
                                /\ Cardinality(Holders(c)') = Cardinality(Holders(c)) + Is(c, d)
          PROVE  Abstract!Take(d)
      <3>1. UNCHANGED <<conn, readset, copy, pipe>>
        BY <1>9 DEF GetRequestor
      <3>2. \A c \in Fds \ {d} : Is(c, d) = 0 /\ Is(d, d) = 1
        BY DEF Is
      <3>3. ASSUME NEW c \in Fds \ {d}
            PROVE  PlaceOf(c)' = PlaceOf(c)
        <4>1. Cardinality(Holders(c)) \in Nat
          BY <1>0, PlacesType
        <4> QED BY <1>1, <1>3, <2>2, <3>1, <3>2, <4>1
      <3>4. PlaceOf(d) = "queue" /\ PlaceOf(d)' = "worker"
        <4>1. Times(queue, d) = Times(queue', d) + 1 /\ Cardinality(Holders(d)') = Cardinality(Holders(d)) + 1
          BY <2>2 DEF Is
        <4> QED BY <2>2, <4>1, SpotsAfter DEF Spot
      <3> QED BY <3>3, <3>4, MoveStep DEF Abstract!Take
    <2>3. CASE Head(queue) \in Fds
      <3>1. Head(queue) # Pill
        BY <2>3, NoClients
      <3>2. serving' # serving
        BY <1>0, <1>9, <2>3, <3>1 DEF GetRequestor, Stops, WorkerAt, Base, Fields, Employed
      <3>3. \A c \in Fds : /\ Times(queue, c) = Times(queue', c) + Is(c, Head(queue)) /\ Times(queue', c) \in Nat
                           /\ Cardinality(Holders(c)') = Cardinality(Holders(c)) + Is(c, Head(queue))
        BY <1>0, <1>9, <3>2, GetRequestorMoves
      <3> QED BY <2>2, <2>3, <3>3 DEF Abstract!Next
    <2>4. CASE Head(queue) \notin Fds
      BY <1>0, <1>9, <2>1, <2>4, GetRequestorMoves
    <2> QED BY <2>3, <2>4
  <1>10. ASSUME NEW w \in Workers, ReturnClient(w)
         PROVE  [Abstract!Next]_[c \in Fds |-> PlaceOf(c)]
    <2>1. PICK d \in Fds : d = serving[w]
      BY <1>0, <1>10, ReturnClientMoves DEF ReturnClient, WorkerAt, Base, Employed
    <2>2. UNCHANGED <<conn, readset, copy, queue>>
      BY <1>10 DEF ReturnClient
    <2>3. ASSUME NEW c \in Fds
          PROVE  /\ Times(pipe', c) = Times(pipe, c) + Is(c, d)
                 /\ Cardinality(Holders(c)') = Cardinality(Holders(c)) - Is(c, d)
                 /\ Cardinality(Holders(c)) \in Nat /\ Times(pipe, c) \in Nat
      BY <1>0, <1>10, <2>1, ReturnClientMoves, PlacesType
    <2>4. \A c \in Fds \ {d} : PlaceOf(c)' = PlaceOf(c)
      BY <1>1, <1>3, <2>2, <2>3 DEF Is
    <2>5. PlaceOf(d) = "worker" /\ PlaceOf(d)' = "pipe"
      <3>1. Times(pipe', d) = Times(pipe, d) + 1 /\ Cardinality(Holders(d)) = 1
        BY <2>1, <2>3, ServedIsPlaced DEF Is
      <3> QED BY <2>3, <3>1, SpotsAfter DEF Spot
    <2>6. Abstract!Return(d)
      BY <2>4, <2>5, MoveStep DEF Abstract!Return
    <2> QED BY <2>6 DEF Abstract!Next
  <1>11. ASSUME NEW w \in Workers, ExitMessage(w)
         PROVE  \A c \in Fds : Still(c)
    <2>1. \A c \in Fds : Times(pipe', c) = Times(pipe, c)
      <3> SUFFICES ASSUME NEW c \in Fds PROVE Times(pipe', c) = Times(pipe, c)
        OBVIOUS
      <3>1. pipe \in Seq(Fds \cup {Exit}) /\ Exit # c
        BY <1>0, NoClients DEF Base, Sequences
      <3>2. CASE pipe' = Append(pipe, Exit)
        <4>1. Times(pipe', c) = Times(pipe, c) + (IF Exit = c THEN 1 ELSE 0)
          BY <3>1, <3>2, TimesAppend
        <4> QED BY <1>0, <3>1, <4>1
      <3> QED BY <1>11, <3>2 DEF ExitMessage
    <2> QED BY <1>3, <1>11, <2>1 DEF ExitMessage
  <1>12. CASE UNCHANGED <<conn, readset, copy, queue, pipe, serving>>
    BY <1>2, <1>3, <1>12
  <1>13. ASSUME NEW w \in Workers, ExitClose(w) \/ Forget(w)
         PROVE  [Abstract!Next]_[c \in Fds |-> PlaceOf(c)]
    <2>1. PICK d \in Fds : d = serving[w]
      BY <1>0, <1>13 DEF ExitClose, Forget, WorkerAt, Base, Employed
    <2>2. PlaceOf(d) = "worker" /\ PlacesOf(d) = 1 /\ Cardinality(Holders(d)) = 1
      BY <2>1, ServedIsPlaced, SpotsAfter DEF Spot
    <2>3. UNCHANGED <<readset, copy, queue, pipe>>
      BY <1>13 DEF ExitClose, Forget
    <2>4. CASE UNCHANGED <<conn, serving>>
      BY <1>12, <2>3, <2>4
    <2>5. CASE serving' = [serving EXCEPT ![w] = NoFd]
      <3>1. ASSUME NEW c \in Fds \ {d}
            PROVE  Cardinality(Holders(c)') = Cardinality(Holders(c))
        <4>1. c \in Fds /\ c # d
          OBVIOUS
        <4>2. Cardinality(Holders(c)') = Cardinality(Holders(c)) - (IF c = d THEN 1 ELSE 0)
          BY <1>0, <2>1, <2>5, <4>1, HoldersDrop
        <4> QED BY <1>0, <4>1, <4>2
      <3>2. CASE ExitClose(w)
        <4>1. conn' = conn \ {d}
          BY <1>0, <2>1, <2>5, <3>2 DEF ExitClose, Base, Fields
        <4>2. \A c \in Fds \ {d} : PlaceOf(c)' = PlaceOf(c)
          BY <1>1, <1>3, <2>3, <3>1, <4>1
        <4>3. PlaceOf(d)' = "away"
          BY <4>1, SpotsAfter
        <4>4. Abstract!Leave(d)
          BY <2>2, <4>2, <4>3, MoveStep DEF Abstract!Leave
        <4> QED BY <4>4 DEF Abstract!Next
      <3>3. CASE Forget(w)
        <4>1. conn' = conn /\ ~jammed
          BY <3>3 DEF Forget
        <4>2. \A c \in Fds \ {d} : PlaceOf(c)' = PlaceOf(c)
          BY <1>1, <1>3, <2>3, <3>1, <4>1
        <4>3. PlaceOf(d)' = "lost"
          <5>1. Cardinality(Holders(d)') = Cardinality(Holders(d)) - 1
            BY <1>0, <2>1, <2>5, HoldersDrop
          <5>2. PlacesOf(d)' = 0
            BY <1>3, <2>2, <2>3, <5>1, SpotsAfter
          <5>3. d \in conn'
            BY <2>1, <4>1, ServedIsPlaced
          <5> QED BY <5>2, <5>3, SpotsAfter
        <4>4. \A c \in Fds : [e \in Fds |-> PlaceOf(e)][c] # "lost"
          <5> SUFFICES ASSUME NEW c \in Fds PROVE PlaceOf(c) # "lost"
            OBVIOUS
          <5>1. c \in conn => PlacesOf(c) = 1
            BY <1>0, <4>1 DEF Placed, OnePlace
          <5>2. c \notin conn => PlaceOf(c) = "away"
            BY SpotsAfter DEF Spot
          <5>3. PlacesOf(c) = 1 => PlaceOf(c) \in {"main", "queue", "pipe", "worker"}
            BY SpotsAfter DEF Spot
          <5> QED BY <5>1, <5>2, <5>3
        <4>5. Abstract!Lose(d)
          BY <2>2, <4>2, <4>3, <4>4, MoveStep DEF Abstract!Lose
        <4> QED BY <4>5 DEF Abstract!Next
      <3> QED BY <1>13, <3>2, <3>3
    <2> QED BY <1>13, <2>4, <2>5 DEF ExitClose, Forget
  <1>14. (\E d \in Fds : Abstract!Enqueue(d)) => Abstract!Next
    BY DEF Abstract!Next
  <1> HIDE DEF Still
  <1>15. CASE Main
    BY <1>4, <1>5, <1>6, <1>7, <1>8, <1>12, <1>14, <1>15 DEF Main, EnterSelect, StopEnd, JoinWorkers
  <1>16. CASE Environment
    BY <1>12, <1>16 DEF Environment, Connect, SendHeader, SendBody, SendShort, SendExit, ClientDies,
       ClientStep, Signal
  <1>17. ASSUME NEW w \in Workers, Work(w)
         PROVE  [Abstract!Next]_[c \in Fds |-> PlaceOf(c)]
    BY <1>2, <1>9, <1>10, <1>11, <1>12, <1>13, <1>17 DEF Work, Attend, Handler, TestFlags,
       GetRequest, GetRest, Read, Handle
  <1> QED BY <1>15, <1>16, <1>17 DEF Next

(* The server dispatches its clients in rounds: nobody is moved but from   *)
(* main to the queue, from there to a worker, and from a worker through    *)
(* the pipe to main, or out; and one client at most is lost                *)
(* (server.c:127-198, 244-252).                                            *)
THEOREM DispatchesInRounds == Spec => ImplementsRounds
  <1>1. Init => Abstract!Init
    BY DEF Init, Abstract!Init, PlaceOf
  <1>2. Placed /\ Placed' /\ [Next]_vars => [Abstract!Next]_[c \in Fds |-> PlaceOf(c)]
    BY RoundStep DEF vars, PlaceOf, Holders
  <1> QED BY <1>1, <1>2, ServerInductive, PTL DEF Spec, ImplementsRounds, Abstract!Spec
=============================================================================
