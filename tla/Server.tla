------------------------------- MODULE Server -------------------------------
(***************************************************************************)
(* The way of a client through the server: main() and the outer loop of    *)
(* work() in server.c with the messages of comms.c.  The main thread       *)
(* selects the descriptors that can be read, accepts connections, puts     *)
(* clients into the queue and takes them back from the workers through a   *)
(* pipe; a worker takes a client from the queue, reads its request in two  *)
(* parts, answers and writes the client into the pipe.  Signals set        *)
(* softexit and hardexit.                                                  *)
(*                                                                         *)
(* One step is the code from one blocking call or shared access to the     *)
(* next.  The handlers are abstracted to an answer given with storagemtx   *)
(* held, or the end of the process, and need not end at all; Storage.tla   *)
(* and FileLocks.tla model them.  The queue is the sequence that           *)
(* RequestQueue.tla implements, with the room it has for its whole life.   *)
(* Signals are delivered to the main thread, as Linux does while that      *)
(* thread does not block them, and interrupt its select.                   *)
(***************************************************************************)
EXTENDS Integers, FiniteSets, SequencesExt

CONSTANTS
    Workers,        \* the threads in work()
    Fds,            \* what accept can return
    SocketFd,       \* the listening socket: the first descriptor of the three kinds
    PipeFd,         \* the reading end of the pipe, opened after it
    NoFd,           \* a worker without a client
    MaxRequests,    \* MAX_REQUESTS, the room of the request queue
    Mortal,         \* those whose clients may end without REQ_EXIT
    MaxPending      \* bound: connections that wait to be accepted

ASSUME FdsAssumption ==
    /\ SocketFd \in Nat \ {0} /\ PipeFd \in Nat
    /\ SocketFd < PipeFd
    /\ Fds \subseteq Nat /\ \A c \in Fds : PipeFd < c
ASSUME NoFdAssumption == NoFd \notin Fds
ASSUME PendingAssumption == MaxPending \in Nat
ASSUME RequestsAssumption == MaxRequests \in Nat
ASSUME WorkersAssumption == IsFiniteSet(Workers)

VARIABLES
    conn,           \* the descriptors of the accepted connections
    client,         \* what the process at the other end does
    input,          \* what can be read from each connection
    pending,        \* connections not yet accepted
    readset, copy,  \* the select sets; copy without what has been scanned
    maxfd,
    main,           \* where the main thread is
    queue,          \* the request queue: clients, and Pill for every worker
    room,           \* its maxsize - currentsize
    told,           \* the workers for which a Pill was put
    pipe,           \* the messages in the pipe: clients, and "exit"
    worker, serving,  \* where each worker is, and its clientfd
    jammed,         \* a worker went on without unlocking storagemtx
    softexit, hardexit,
    crashed         \* a handler, or the answer it could not write, ended the process

net == <<conn, client, input, pending>>
selecting == <<readset, copy, maxfd, main>>
requests == <<queue, room, told>>
work == <<worker, serving>>
flags == <<softexit, hardexit>>
vars == <<net, selecting, requests, pipe, work, jammed, flags, crashed>>

Pill == -1
Exit == 0                                   \* the message "exit"

ClientStates == {"away", "idle", "sending", "waiting", "dead"}
Inputs == {"none", "header", "body", "whole", "exit"}
MainPlaces == {"test", "entering", "select", "scan", "stop", "join", "done"}
WorkerPlaces == {"test", "get", "read", "body", "handle", "return", "leave", "bye", "lost", "done"}

Init ==
    /\ conn = {}
    /\ client = [c \in Fds |-> "away"]
    /\ input = [c \in Fds |-> "none"]
    /\ pending = 0
    /\ readset = {SocketFd, PipeFd}
    /\ copy = {}
    /\ maxfd = SocketFd
    /\ main = "test"
    /\ queue = <<>>
    /\ room = MaxRequests
    /\ told = 0
    /\ pipe = <<>>
    /\ worker = [w \in Workers |-> "test"]
    /\ serving = [w \in Workers |-> NoFd]
    /\ jammed = FALSE
    /\ softexit = FALSE
    /\ hardexit = FALSE
    /\ crashed = FALSE

Runs == ~crashed /\ main # "done"

-----------------------------------------------------------------------------
(* The clients: connect, and the parts of sendRequest.  Two bounds:        *)
(* MaxPending, and a descriptor is free for every connection.              *)
Connect ==
    /\ Runs
    /\ pending < MaxPending
    /\ pending + Cardinality(conn) < Cardinality(Fds)
    /\ pending' = pending + 1
    /\ UNCHANGED <<conn, client, input, selecting, requests, pipe, work, jammed, flags, crashed>>

ClientStep(c, from, to, data) ==
    /\ Runs
    /\ client[c] = from
    /\ client' = [client EXCEPT ![c] = to]
    /\ input' = [input EXCEPT ![c] = data]
    /\ UNCHANGED <<conn, pending, selecting, requests, pipe, work, jammed, flags, crashed>>

SendHeader(c) == ClientStep(c, "idle", "sending", "header")
SendBody(c) == ClientStep(c, "sending", "waiting", IF input[c] = "header" THEN "whole" ELSE "body")
SendShort(c) == ClientStep(c, "idle", "waiting", "whole")
SendExit(c) == c \notin Mortal /\ ClientStep(c, "idle", "waiting", "exit")

(* The client process ends without REQ_EXIT; what it sent can still be     *)
(* read, and then the end of the file.                                     *)
ClientDies(c) ==
    c \in Mortal /\ \E from \in {"idle", "sending", "waiting"} : ClientStep(c, from, "dead", input[c])

EndOfFile(c) == input[c] = "none" /\ client[c] = "dead"

(* SIGHUP or SIGINT, and a third bound: only one of them.                  *)
Signal(soft) ==
    /\ Runs
    /\ ~softexit /\ ~hardexit
    /\ softexit' = soft
    /\ hardexit' = ~soft
    /\ main' = IF main = "select" THEN "stop" ELSE main
    /\ UNCHANGED <<net, readset, copy, maxfd, requests, pipe, work, jammed, crashed>>

-----------------------------------------------------------------------------
(* The main thread.                                                        *)
MainAt(p) == ~crashed /\ main = p

Ready(fd) ==
    \/ fd = SocketFd /\ pending > 0
    \/ fd = PipeFd /\ pipe # <<>>
    \/ fd \in conn /\ (input[fd] # "none" \/ EndOfFile(fd))

ReadyFds == {fd \in readset : fd <= maxfd /\ Ready(fd)}

(* while(!hardexit), and the copy of the set for the next select.          *)
TestExit ==
    /\ MainAt("test")
    /\ \/ /\ hardexit
          /\ main' = "stop"
          /\ UNCHANGED copy
       \/ /\ ~hardexit
          /\ main' = "entering"
          /\ copy' = readset
    /\ UNCHANGED <<net, readset, maxfd, requests, pipe, work, jammed, flags, crashed>>

EnterSelect ==
    /\ MainAt("entering")
    /\ main' = "select"
    /\ UNCHANGED <<net, readset, copy, maxfd, requests, pipe, work, jammed, flags, crashed>>

ReturnSelect ==
    /\ MainAt("select")
    /\ ReadyFds # {}
    /\ copy' = ReadyFds
    /\ main' = "scan"
    /\ UNCHANGED <<net, readset, maxfd, requests, pipe, work, jammed, flags, crashed>>

(* The for loop over the descriptors, from the lowest.                     *)
ToScan == {fd \in copy : fd <= maxfd}
Scanned(fd) ==
    /\ MainAt("scan")
    /\ fd \in ToScan
    /\ \A other \in ToScan : fd <= other

ScanEnd ==
    /\ MainAt("scan")
    /\ ToScan = {}
    /\ main' = "test"
    /\ copy' = {}
    /\ UNCHANGED <<net, readset, maxfd, requests, pipe, work, jammed, flags, crashed>>

(* A client comes back: it goes into the copy, for this same scan.         *)
RaisedNot(fd) == maxfd                              \* mutant: maxfd is kept
Raised(fd) == IF fd > maxfd THEN fd ELSE maxfd

ScanPipe ==
    /\ Scanned(PipeFd)
    /\ pipe' = Tail(pipe)
    /\ \/ /\ Head(pipe) = Exit
          /\ main' = "test"
          /\ copy' = {}
          /\ UNCHANGED maxfd
       \/ /\ Head(pipe) # Exit
          /\ copy' = (copy \ {PipeFd}) \cup {Head(pipe)}
          /\ maxfd' = Raised(Head(pipe))
          /\ UNCHANGED main
    /\ UNCHANGED <<net, readset, requests, work, jammed, flags, crashed>>

(* accept returns the lowest descriptor that is free.  Once softexit is    *)
(* set the new connection is closed at once.                               *)
ScanSocket ==
    /\ Scanned(SocketFd)
    /\ copy' = copy \ {SocketFd}
    /\ pending' = pending - 1
    /\ \/ /\ softexit
          /\ UNCHANGED <<conn, client, readset, maxfd>>
       \/ /\ ~softexit
          /\ \E c \in Fds \ conn :
                /\ \A d \in Fds \ conn : c <= d
                /\ conn' = conn \cup {c}
                /\ client' = [client EXCEPT ![c] = "idle"]
                /\ readset' = readset \cup {c}
                /\ maxfd' = Raised(c)
    /\ UNCHANGED <<input, main, requests, pipe, work, jammed, flags, crashed>>

(* putRequestor: it waits while the queue is full, and a queue that is     *)
(* full stays so, because getRequestor takes from maxsize what it takes    *)
(* from currentsize.                                                       *)
Put(fd) ==
    /\ room > 0
    /\ room' = room - 1
    /\ queue' = Append(queue, fd)

(* A client can be read: it leaves the set and enters the queue.           *)
NotCleared(fd) == readset                           \* mutant: no FD_CLR
Cleared(fd) == readset \ {fd}
LoweredAlways(fd) == maxfd - 1                      \* mutant: for every client
Lowered(fd) == IF fd = maxfd THEN maxfd - 1 ELSE maxfd

ScanClient(c) ==
    /\ Scanned(c)
    /\ readset' = Cleared(c)
    /\ copy' = copy \ {c}
    /\ maxfd' = Lowered(c)
    /\ Put(c)
    /\ UNCHANGED <<net, main, told, pipe, work, jammed, flags, crashed>>

(* After the loop: one -1 for each worker, then wait for all of them.      *)
PillsShort == Cardinality(Workers) - 1              \* mutant: one less
Pills == Cardinality(Workers)

StopWorker ==
    /\ MainAt("stop")
    /\ told < Pills
    /\ Put(Pill)
    /\ told' = told + 1
    /\ UNCHANGED <<net, selecting, pipe, work, jammed, flags, crashed>>

StopEnd ==
    /\ MainAt("stop")
    /\ told >= Pills
    /\ main' = "join"
    /\ UNCHANGED <<net, readset, copy, maxfd, requests, pipe, work, jammed, flags, crashed>>

JoinWorkers ==
    /\ MainAt("join")
    /\ \A w \in Workers : worker[w] = "done"
    /\ main' = "done"
    /\ UNCHANGED <<net, readset, copy, maxfd, requests, pipe, work, jammed, flags, crashed>>

-----------------------------------------------------------------------------
(* The workers.                                                            *)
WorkerAt(w, p) == Runs /\ worker[w] = p
Step(w, p) == worker' = [worker EXCEPT ![w] = p]

(* while(!hardexit && !softexit).                                          *)
TestFlags(w) ==
    /\ WorkerAt(w, "test")
    /\ Step(w, IF hardexit \/ softexit THEN "done" ELSE "get")
    /\ UNCHANGED <<net, selecting, requests, pipe, serving, jammed, flags, crashed>>

(* getRequestor; a -1 only makes the worker test the flags again.          *)
StopsNever(c) == FALSE                              \* mutant: -1 is not tested
Stops(c) == c = Pill

GetRequestor(w) ==
    /\ WorkerAt(w, "get")
    /\ queue # <<>>
    /\ queue' = Tail(queue)
    /\ UNCHANGED <<room, told>>
    /\ \/ /\ Stops(Head(queue))
          /\ Step(w, "test")
          /\ UNCHANGED serving
       \/ /\ ~Stops(Head(queue))
          /\ Step(w, "read")
          /\ serving' = [serving EXCEPT ![w] = Head(queue)]
    /\ UNCHANGED <<net, selecting, pipe, jammed, flags, crashed>>

(* getRequest: read blocks until there is data or the end of the file.     *)
(* The end of the file in the middle of a request passes for its rest; at  *)
(* the beginning it leaves the request code 0.                             *)
Read(w, data, to) ==
    /\ input[serving[w]] = data
    /\ input' = [input EXCEPT ![serving[w]] = "none"]
    /\ Step(w, to)
    /\ UNCHANGED <<conn, client, pending, selecting, requests, pipe, serving, jammed, flags, crashed>>

GetRequest(w) ==
    /\ WorkerAt(w, "read")
    /\ \/ Read(w, "header", "body")
       \/ Read(w, "whole", "handle")
       \/ Read(w, "exit", "leave")
       \/ EndOfFile(serving[w]) /\ Read(w, "none", "lost")

GetRestNot(w) ==                                    \* mutant: the rest stays unread
    /\ WorkerAt(w, "body")
    /\ Step(w, "handle")
    /\ UNCHANGED <<net, selecting, requests, pipe, serving, jammed, flags, crashed>>
GetRest(w) ==
    /\ WorkerAt(w, "body")
    /\ \/ Read(w, "body", "handle")
       \/ EndOfFile(serving[w]) /\ Read(w, "none", "handle")

(* The handler runs under storagemtx and answers, or it ends the process,  *)
(* as it does when nobody reads the answer any more: write fails.          *)
Handle(w) ==
    LET c == serving[w]
    IN  /\ WorkerAt(w, "handle")
        /\ ~jammed
        /\ \/ /\ client[c] # "dead"
              /\ client' = [client EXCEPT ![c] = "idle"]
              /\ Step(w, "return")
              /\ UNCHANGED crashed
           \/ /\ crashed' = TRUE
              /\ UNCHANGED <<client, worker>>
        /\ UNCHANGED <<conn, input, pending, selecting, requests, pipe, serving, jammed, flags>>

(* The client goes back to the main thread.                                *)
ReturnedNot(w) == pipe                              \* mutant: the write is forgotten
Returned(w) == Append(pipe, serving[w])

ReturnClient(w) ==
    /\ WorkerAt(w, "return")
    /\ pipe' = Returned(w)
    /\ Step(w, "test")
    /\ serving' = [serving EXCEPT ![w] = NoFd]
    /\ UNCHANGED <<net, selecting, requests, jammed, flags, crashed>>

(* EXIT gives up the client's locks and opens, which may end the process,  *)
(* writes "exit" into the pipe, answers, and closes the connection.        *)
ExitMessage(w) ==
    /\ WorkerAt(w, "leave")
    /\ ~jammed
    /\ \/ /\ pipe' = Append(pipe, Exit)
          /\ Step(w, "bye")
          /\ UNCHANGED crashed
       \/ /\ crashed' = TRUE
          /\ UNCHANGED <<pipe, worker>>
    /\ UNCHANGED <<net, selecting, requests, serving, jammed, flags>>

ExitClose(w) ==
    LET c == serving[w]
    IN  /\ WorkerAt(w, "bye")
        /\ \/ /\ client[c] # "dead"
              /\ conn' = conn \ {c}
              /\ client' = [client EXCEPT ![c] = "away"]
              /\ Step(w, "test")
              /\ serving' = [serving EXCEPT ![w] = NoFd]
              /\ UNCHANGED crashed
           \/ /\ client[c] = "dead"
              /\ crashed' = TRUE
              /\ UNCHANGED <<conn, client, work>>
        /\ UNCHANGED <<input, pending, selecting, requests, pipe, jammed, flags>>

(* Request code 0: storagemtx is locked, no case of the switch unlocks it, *)
(* and nobody keeps the descriptor.                                        *)
Forget(w) ==
    /\ WorkerAt(w, "lost")
    /\ ~jammed
    /\ jammed' = TRUE
    /\ Step(w, "test")
    /\ serving' = [serving EXCEPT ![w] = NoFd]
    /\ UNCHANGED <<net, selecting, requests, pipe, flags, crashed>>

-----------------------------------------------------------------------------
Main ==
    \/ TestExit \/ EnterSelect \/ ReturnSelect \/ ScanEnd \/ ScanPipe \/ ScanSocket
    \/ \E c \in Fds : ScanClient(c)
    \/ StopWorker \/ StopEnd \/ JoinWorkers

(* What a worker does outside the handlers, and the handlers from the lock *)
(* of storagemtx to the answer.                                            *)
Attend(w) ==
    \/ TestFlags(w) \/ GetRequestor(w) \/ GetRequest(w) \/ GetRest(w)
    \/ ReturnClient(w) \/ ExitClose(w)

Handler(w) == Handle(w) \/ ExitMessage(w) \/ Forget(w)

Work(w) == Attend(w) \/ Handler(w)

Environment ==
    \/ Connect
    \/ \E c \in Fds : SendHeader(c) \/ SendBody(c) \/ SendShort(c) \/ SendExit(c) \/ ClientDies(c)
    \/ \E soft \in BOOLEAN : Signal(soft)

Next == Main \/ (\E w \in Workers : Work(w)) \/ Environment

(* Fairness: every thread of the server goes on when it can.  Nothing is   *)
(* assumed of the clients and of the signals, nor that a handler ends: it  *)
(* may sleep on writecond for good or never get a mutex (FileLocks.tla).   *)
Fairness == WF_vars(Main) /\ \A w \in Workers : WF_vars(Attend(w))

Spec == Init /\ [][Next]_vars /\ Fairness

-----------------------------------------------------------------------------
(* The types of the descriptors, sets, queues and places.                  *)
TypeOK ==
    /\ conn \subseteq Fds
    /\ client \in [Fds -> ClientStates]
    /\ input \in [Fds -> Inputs]
    /\ pending \in 0 .. MaxPending
    /\ readset \subseteq Fds \cup {SocketFd, PipeFd}
    /\ copy \subseteq Fds \cup {SocketFd, PipeFd}
    /\ maxfd \in Nat
    /\ main \in MainPlaces
    /\ queue \in Seq(Fds \cup {Pill})
    /\ room \in 0 .. MaxRequests
    /\ told \in 0 .. Cardinality(Workers)
    /\ pipe \in Seq(Fds \cup {Exit})
    /\ worker \in [Workers -> WorkerPlaces]
    /\ serving \in [Workers -> Fds \cup {NoFd}]
    /\ {jammed, softexit, hardexit, crashed} \subseteq BOOLEAN

(* A connected client is in one place only, be it selected, returned by    *)
(* the pipe in this scan, queued, with a worker or in the pipe: it is not  *)
(* served by two workers, and it is not lost, except by the end of its     *)
(* file, which a worker cannot take twice (server.c:144-149, 191-197).     *)
Times(s, c) == Cardinality({i \in DOMAIN s : s[i] = c})
Holders(c) == {w \in Workers : serving[w] = c}
PlacesOf(c) ==
    Times(queue, c) + Times(pipe, c) + Cardinality(Holders(c))
      + (IF c \in readset \cup copy THEN 1 ELSE 0)

OnePlace ==
    \A c \in Fds :
        /\ PlacesOf(c) <= 1
        /\ PlacesOf(c) = 1 => c \in conn
        /\ c \in conn /\ PlacesOf(c) = 0 => jammed /\ EndOfFile(c)

(* Server and client agree on how much of a request has been sent, read    *)
(* and answered: a worker that has read the header of a request waits for  *)
(* its body only, what is left unread in a connection is the beginning of  *)
(* a request, and only a client that waits for an answer to all it has     *)
(* sent gets one (comms.c:193-226, server.c:244-262).  It holds until the  *)
(* client process ends.                                                    *)
Unread(c) ==
    \/ client[c] \in {"away", "idle"} /\ input[c] = "none"
    \/ client[c] = "sending" /\ input[c] = "header"
    \/ client[c] = "waiting" /\ input[c] \in {"whole", "exit"}
HalfRead(c) ==
    \/ client[c] = "sending" /\ input[c] = "none"
    \/ client[c] = "waiting" /\ input[c] = "body"
AllRead(c) == client[c] = "waiting" /\ input[c] = "none"

InStep ==
    \A c \in Fds : client[c] # "dead" =>
        LET at == {worker[w] : w \in Holders(c)}
        IN  \/ Unread(c) /\ at \subseteq {"read", "return"}
            \/ HalfRead(c) /\ at = {"body"}
            \/ AllRead(c) /\ at \in {{"handle"}, {"leave"}, {"bye"}}

(* The bound that select gets covers everything it has to watch: every     *)
(* client in the set, whatever maxfd was raised and lowered to before      *)
(* (server.c:146, 181, 193), and the pipe as soon as something is in it,   *)
(* although maxfd starts below it (server.c:105).                          *)
Watched ==
    /\ \A c \in (readset \cup copy) \cap Fds : c <= maxfd
    /\ pipe # <<>> => PipeFd <= maxfd

(* The dispatching implements the rounds of the clients: no client skips   *)
(* the queue or comes back from a worker other than through the pipe, no   *)
(* step moves two of them, and one client at most is lost, with            *)
(* storagemtx, at the end of its file (server.c:127-198, 244-252).         *)
PlaceOf(c) ==
    IF c \notin conn THEN "away"
    ELSE IF c \in readset \cup copy THEN "main"
    ELSE IF Times(queue, c) > 0 THEN "queue"
    ELSE IF Times(pipe, c) > 0 THEN "pipe"
    ELSE IF Holders(c) # {} THEN "worker"
    ELSE "lost"

Abstract == INSTANCE Rounds WITH Clients <- Fds, place <- [c \in Fds |-> PlaceOf(c)]
ImplementsRounds == Abstract!Spec

(* A worker that waits in read for a client that says nothing, one in a    *)
(* handler, and a main thread in putRequestor with the queue full.         *)
Blocked(w) ==
    /\ worker[w] \in {"read", "body"}
    /\ input[serving[w]] = "none"
    /\ client[serving[w]] # "dead"

InHandler(w) == worker[w] \in {"handle", "leave", "lost"}

MainStuck ==
    /\ room = 0
    /\ \/ main = "scan" /\ ToScan \cap Fds # {} /\ ToScan \cap {SocketFd, PipeFd} = {}
       \/ main = "stop" /\ told < Pills

(* A client that has sent a request gets an answer, unless the server      *)
(* ends, or from some point on for ever: its own handler does not end, it  *)
(* is queued and every worker is in a handler or in read for a client that *)
(* says nothing, or the main thread is in putRequestor and has not queued  *)
(* it yet.  A client that was served once is enqueued again at once, not   *)
(* selected (server.c:148), so that with more clients than workers the     *)
(* silence of some keeps the others from being served.                     *)
Ending == softexit \/ hardexit \/ crashed

Excused(c) ==
    \/ Ending
    \/ \E w \in Holders(c) : InHandler(w)
    \/ PlaceOf(c) = "queue" /\ \A w \in Workers : Blocked(w) \/ InHandler(w)
    \/ PlaceOf(c) \in {"main", "pipe"} /\ MainStuck

Served ==
    \A c \in Fds :
        (client[c] = "waiting" ~> client[c] # "waiting") \/ <>[]Excused(c)

(* SIGINT and SIGQUIT end the server, unless from some point on for ever:  *)
(* a worker waits for a silent client or does not come out of a handler,   *)
(* the main thread is in putRequestor with the queue full, or the signal   *)
(* came between the test of hardexit and the select, which then waits for  *)
(* an event (server.c:128-130, 193, 200-206).                              *)
Delayed ==
    \/ \E w \in Workers : Blocked(w) \/ InHandler(w)
    \/ MainStuck
    \/ main = "select" /\ ReadyFds = {}

HardExitEnds == (hardexit ~> main = "done" \/ crashed) \/ <>[]Delayed

-----------------------------------------------------------------------------
(* On SIGHUP the server first serves all requests and then ends            *)
(* (RelazioneSOL.pdf, page 2).  The code leaves in the queue the requests  *)
(* that no worker has taken up yet (server.c:130-134, 245).                *)
SoftExitServesAll ==
    main = "done" /\ ~hardexit =>
        \A c \in Fds : client[c] = "waiting" => Times(queue, c) = 0
=============================================================================
