------------------------- MODULE ClientServer_proofs -------------------------
(***************************************************************************)
(* The storage under the clients of ClientServer is the storage of the     *)
(* module Storage, so that all that is proved of that holds of it.  Beside *)
(* its invariant the proofs need that a WRITE in its eviction loop belongs *)
(* to an option that waits for its answer (WriterAtWork), that a client    *)
(* about to WRITE has its file open (WriterReady), and that careful        *)
(* clients have open what they work on (OpensInOrder).                     *)
(***************************************************************************)
EXTENDS ClientServer, StorageSpace_proofs

JobsTyped ==
    /\ job \in [Clients -> Jobs \cup {NoJob}]
    /\ careless \subseteq Clients

(* The file of a running WRITE is the one that the option of its client    *)
(* works on, and if it is still stored then that client has created it.    *)
AtWork(c, p) == job[c] # NoJob /\ job[c].next = "write" /\ job[c].path = p

WriterAtWork ==
    writing # NoWrite =>
        /\ AtWork(writing.client, writing.path)
        /\ writing.path \in hashtable => creator[writing.path] = writing.client

CInv == IInv /\ JobsTyped /\ WriterAtWork

USE OptionsAssumption, NoJobAssumption

-----------------------------------------------------------------------------
(* Every request of a client is a step of the storage.                     *)
LEMMA RequestIsNext ==
    ASSUME NEW c \in Clients, NEW p \in Paths, NEW call \in Calls, Request(c, p, call)
    PROVE  Next
  BY DEF Request, Next

(* What follows a call is a call, or the end of the option.                *)
LEMMA FollowingType ==
    ASSUME NEW option \in Options, NEW call \in Calls, NEW ok \in BOOLEAN
    PROVE  Following(option, call, ok) \subseteq Calls \cup {"none"}
  <1>1. Middle(option) \in Calls
    BY DEF Middle, Writing, Options, Calls
  <1> QED BY <1>1 DEF Following, Writing, Options, Calls

(* The answer to a call leaves the jobs typed.                             *)
LEMMA AnsweredType ==
    ASSUME JobsTyped, NEW c \in Clients, NEW j \in Jobs, Answered(c, j)
    PROVE  JobsTyped'
  <1>1. j.option \in Options /\ j.next \in Calls
    BY DEF Jobs
  <1>2. \A next \in Calls : [j EXCEPT !.next = next] \in Jobs
    BY DEF Jobs
  <1>3. CASE job' = [job EXCEPT ![c] = j] /\ UNCHANGED careless
    BY <1>3 DEF JobsTyped
  <1>4. ASSUME NEW ok \in BOOLEAN, NEW next \in Following(j.option, j.next, ok), GoOn(c, j, next),
               careless' \in {careless, careless \cup {c}}
        PROVE  JobsTyped'
    <2>1. next \in Calls \cup {"none"}
      BY <1>1, <1>4, FollowingType
    <2> QED BY <1>2, <1>4, <2>1 DEF GoOn, JobsTyped
  <1>5. ASSUME NEW r \in sent', NEW next \in Following(j.option, j.next, r.code = "OK"),
               GoOn(c, j, next),
               careless' = IF LeavesOpen(j, next, r.code = "OK") THEN careless \cup {c} ELSE careless
        PROVE  JobsTyped'
    <2>1. (r.code = "OK") \in BOOLEAN
      OBVIOUS
    <2>2. careless' \in {careless, careless \cup {c}}
      BY <1>5
    <2> QED BY <1>4, <1>5, <2>1, <2>2
  <1> QED BY <1>3, <1>5 DEF Answered

(* A request leaves no WRITE behind but its own, which waits.              *)
LEMMA CallWriter ==
    ASSUME CInv, NEW c \in Clients, NEW j \in Jobs, Call(c, j)
    PROVE  WriterAtWork'
  <1>0. j.path \in Paths /\ Request(c, j.path, j.next) /\ Answered(c, j) /\ job \in [Clients -> Jobs \cup {NoJob}]
    BY DEF Call, Jobs, CInv, JobsTyped
  <1>1. CASE writing' = NoWrite
    BY <1>1 DEF WriterAtWork
  <1>2. CASE writing' # NoWrite
    <2>1. PICK n \in Sizes :
              /\ j.next = "write"
              /\ MayWrite(c, j.path)
              /\ writing' = [client |-> c, path |-> j.path, size |-> n, evicted |-> <<>>]
              /\ sent' = {} /\ UNCHANGED store
      BY <1>0, <1>2 DEF Request, Serving, OpenCreate, OpenExisting, WriteFile, AppendToFile,
             ReadFile, LockFile, UnlockFile, RemoveFile, CloseFile, Answer, Die, StoreNew
    <2>2. job' = [job EXCEPT ![c] = j]
      BY <1>0, <2>1 DEF Answered
    <2>3. job'[c] = j /\ j # NoJob
      BY <1>0, <2>2
    <2> QED BY <2>1, <2>3 DEF WriterAtWork, AtWork, MayWrite, store, fields
  <1> QED BY <1>1, <1>2

-----------------------------------------------------------------------------
(* Each step of the clients: a step of the storage or none of it, and the  *)
(* two facts about the jobs.                                               *)
LEMMA CallStep ==
    ASSUME CInv, NEW c \in Clients, NEW j \in Jobs, Call(c, j)
    PROVE  [Next]_vars /\ JobsTyped' /\ WriterAtWork'
  <1>1. j.path \in Paths /\ j.next \in Calls
    BY DEF Jobs
  <1>2. Next
    BY <1>1, RequestIsNext DEF Call
  <1>3. JobsTyped'
    BY AnsweredType DEF Call, CInv
  <1> QED BY <1>2, <1>3, CallWriter

(* writeFile goes on from OPEN to WRITE.                                   *)
LEMMA ContinueWriteStep ==
    ASSUME CInv, ContinueWrite
    PROVE  [Next]_vars /\ JobsTyped' /\ WriterAtWork'
  <1>1. CASE EvictOne /\ UNCHANGED <<job, careless>>
    <2>1. CASE status' = "noevictable" /\ UNCHANGED <<store, writing>>
      BY <1>1, <2>1 DEF Next, CInv, JobsTyped, WriterAtWork, AtWork, store, fields
    <2>2. CASE HasVictim /\ Forget({Victim}) /\ writing' = [writing EXCEPT !.evicted = Reported]
      <3>1. writing \in Writes
        BY <1>1 DEF EvictOne, CInv, IInv, TypeOK
      <3>2. writing'.client = writing.client /\ writing'.path = writing.path
        BY <2>2, <3>1 DEF Writes
      <3>3. writing.path \in hashtable' => writing.path \in hashtable /\ creator'[writing.path] = creator[writing.path]
        BY <2>2, <3>1 DEF Forget, Reset, Writes
      <3>4. writing # NoWrite
        BY <1>1 DEF EvictOne
      <3>5. WriterAtWork'
        BY <1>1, <3>2, <3>3, <3>4 DEF CInv, WriterAtWork, AtWork
      <3> QED BY <1>1, <3>5 DEF Next, CInv, JobsTyped
    <2> QED BY <1>1, <2>1, <2>2 DEF EvictOne, Die
  <1>2. CASE FinishWrite /\ Answered(writing.client, job[writing.client])
    <2>1. writing \in Writes /\ writing # NoWrite
      BY <1>2 DEF FinishWrite, CInv, IInv, TypeOK
    <2>2. writing.client \in Clients
      BY <2>1 DEF Writes
    <2>3. job[writing.client] \in Jobs
      BY <2>1, <2>2 DEF CInv, JobsTyped, WriterAtWork, AtWork
    <2>4. JobsTyped'
      BY <1>2, <2>2, <2>3, AnsweredType DEF CInv
    <2>5. CASE writing' = NoWrite
      BY <1>2, <2>4, <2>5 DEF Next, WriterAtWork
    <2>6. CASE sent' = {} /\ UNCHANGED <<store, writing>>
      <3>1. job' = job
        BY <1>2, <2>2, <2>6 DEF Answered, CInv, JobsTyped
      <3> QED BY <1>2, <2>4, <2>6, <3>1 DEF Next, CInv, WriterAtWork, AtWork, store, fields
    <2> QED BY <1>2, <2>5, <2>6 DEF FinishWrite, Die
  <1> QED BY <1>1, <1>2 DEF ContinueWrite

(* A call that fails in the client sends nothing.                          *)
LEMMA LocalFailureStep ==
    ASSUME CInv, NEW c \in Clients, LocalFailure(c)
    PROVE  [Next]_vars /\ JobsTyped' /\ WriterAtWork'
  <1>1. PICK next \in {"close", "none"} :
            GoOn(c, job[c], next) /\ careless' \in {careless, careless \cup {c}}
    BY DEF LocalFailure
  <1>2. UNCHANGED vars /\ writing = NoWrite /\ job[c] \in Jobs
    BY DEF LocalFailure, CInv, JobsTyped
  <1>3. [job[c] EXCEPT !.next = "close"] \in Jobs
    BY <1>2 DEF Jobs, Calls
  <1>4. JobsTyped'
    BY <1>1, <1>3 DEF GoOn, CInv, JobsTyped
  <1> QED BY <1>2, <1>4 DEF WriterAtWork, vars

(* readNFiles, connections, and clients that are killed.                   *)
LEMMA OtherStep ==
    ASSUME CInv, NEW c \in Clients, ReadN(c) \/ Connection(c) \/ Killed(c)
    PROVE  [Next]_vars /\ JobsTyped' /\ WriterAtWork'
  <1>1. Next
    BY DEF ReadN, Connection, Killed, Next
  <1>2. UNCHANGED <<job, careless>>
    BY DEF ReadN, Connection, Killed
  <1>3. UNCHANGED <<writing, hashtable, creator>>
    BY DEF ReadN, Connection, Killed, ReadNFiles, Accept, CloseConnection, ClientDies, Answer, Die, store, fields
  <1> QED BY <1>1, <1>2, <1>3 DEF CInv, JobsTyped, WriterAtWork, AtWork

(* All steps of the clients.                                               *)
LEMMA ClientsStep ==
    ASSUME CInv, ClientsNext
    PROVE  [Next]_vars /\ JobsTyped' /\ WriterAtWork'
  <1>1. ASSUME NEW c \in Clients, NEW option \in Options, NEW p \in Paths, Begin(c, option, p)
        PROVE  [Next]_vars /\ JobsTyped' /\ WriterAtWork'
    <2>1. [option |-> option, path |-> p, next |-> FirstCall(option)] \in Jobs
      BY DEF Jobs, FirstCall, Calls
    <2> QED BY <1>1, <2>1, CallStep DEF Begin
  <1>2. ASSUME NEW c \in Clients, Continue(c)
        PROVE  [Next]_vars /\ JobsTyped' /\ WriterAtWork'
    <2>1. job[c] \in Jobs
      BY <1>2 DEF Continue, CInv, JobsTyped
    <2> QED BY <1>2, <2>1, CallStep DEF Continue
  <1> QED BY <1>1, <1>2, ContinueWriteStep, LocalFailureStep, OtherStep DEF ClientsNext

(* The clients start outside of every call.                                *)
LEMMA InitCInv == ClientsInit => CInv
  <1> SUFFICES ASSUME ClientsInit PROVE CInv
    OBVIOUS
  <1>1. IInv /\ writing = NoWrite
    BY InitIInv DEF ClientsInit, Init
  <1> QED BY <1>1 DEF ClientsInit, CInv, JobsTyped, WriterAtWork

(* Every step keeps the invariant, and is one of the storage or none.      *)
LEMMA StepCInv == CInv /\ [ClientsNext]_clientvars => CInv' /\ [Next]_vars
  <1>1. CASE UNCHANGED clientvars
    BY <1>1, StepIInv DEF clientvars, vars, store, fields, CInv, JobsTyped, WriterAtWork, AtWork
  <1>2. ASSUME CInv, ClientsNext
        PROVE  CInv' /\ [Next]_vars
    BY <1>2, ClientsStep, StepIInv DEF CInv
  <1> QED BY <1>1, <1>2

(* Whatever options the clients use, every reachable state of the storage  *)
(* satisfies its invariant, and a running WRITE has its client waiting.    *)
THEOREM ClientsInductive == ClientsSpec => []CInv
  BY InitCInv, StepCInv, PTL DEF ClientsSpec

(* The storage of the clients is a behaviour of Storage: every theorem of  *)
(* Storage_proofs and StorageSpace_proofs holds of it.                     *)
THEOREM ClientsUseTheStorage == ClientsSpec => Spec
  <1>1. ClientsInit => Init
    BY DEF ClientsInit
  <1> QED BY <1>1, StepCInv, ClientsInductive, PTL DEF ClientsSpec, Spec

(* Through the calls of api.c and the options of client.c the users get    *)
(* the promises of the storage: a store of files within both limits, whose *)
(* files are created empty, filled once and only grow (storage.c:81-205).  *)
THEOREM ClientsGetAStore == ClientsSpec => ImplementsFileStore
  BY ClientsUseTheStorage, Refinement, PTL

(* The storage, the jobs of the clients and the history keep their types.  *)
THEOREM ClientsTypeCorrect == ClientsSpec => []ClientsTypeOK
  <1>1. CInv => ClientsTypeOK
    BY DEF CInv, IInv, JobsTyped, ClientsTypeOK
  <1> QED BY <1>1, ClientsInductive, PTL

-----------------------------------------------------------------------------
(* Files that are empty and that nobody is filling.                        *)
Orphaned(p) ==
    p \in hashtable /\ datasize[p] = 0 /\ ~Filling(p) /\ p \in hashtable'

(* A request does not touch an empty file: only WRITE fills one, in the    *)
(* step that ends its eviction loop, and APPEND needs one without creator. *)
LEMMA RequestOrphan ==
    ASSUME CInv, NEW c \in Clients, NEW q \in Paths, NEW call \in Calls, Request(c, q, call),
           NEW p, Orphaned(p)
    PROVE  datasize'[p] = 0 /\ creator'[p] = creator[p]
  <1>0. /\ p \in Paths /\ p \in hashtable /\ datasize[p] = 0 /\ p \in hashtable'
        /\ datasize \in [Paths -> Nat] /\ creator \in [Paths -> Clients \cup {0}]
    BY DEF Orphaned, CInv, IInv, TypeOK
  <1>1. CASE UNCHANGED <<datasize, creator>>
    BY <1>0, <1>1
  <1>2. CASE UNCHANGED store
    BY <1>1, <1>2 DEF store, fields
  <1>3. ASSUME NEW lock, OpenCreate(c, q, lock)
        PROVE  datasize'[p] = 0 /\ creator'[p] = creator[p]
    <2>1. ASSUME NEW gone, NEW rest, q \notin hashtable, StoreNew(c, q, lock, gone, rest)
          PROVE  datasize'[p] = 0 /\ creator'[p] = creator[p]
      <3>1. p # q /\ p \notin gone
        BY <1>0, <2>1 DEF StoreNew
      <3> QED BY <1>0, <2>1, <3>1 DEF StoreNew, Reset
    <2> QED BY <1>2, <1>3, <2>1 DEF OpenCreate, Answer, Die
  <1>4. ASSUME NEW n, AppendToFile(c, q, n)
        PROVE  datasize'[p] = 0 /\ creator'[p] = creator[p]
    <2>1. CASE MayAppend(c, q) /\ datasize' = [datasize EXCEPT ![q] = @ + n] /\ UNCHANGED creator
      <3>1. p # q
        BY <1>0, <2>1 DEF MayAppend, CInv, IInv, EmptyUntilWritten
      <3> QED BY <1>0, <2>1, <3>1
    <2> QED BY <1>2, <1>4, <2>1 DEF AppendToFile, Answer, Die
  <1>5. CASE RemoveFile(c, q)
    <2>1. CASE Forget({q})
      BY <1>0, <2>1 DEF Forget, Reset
    <2> QED BY <1>2, <1>5, <2>1 DEF RemoveFile, Answer, Die
  <1>6. ASSUME NEW n, WriteFile(c, q, n)
        PROVE  UNCHANGED store
    BY <1>6 DEF WriteFile, Answer
  <1>7. ASSUME OpenExisting(c, q, FALSE) \/ ReadFile(c, q) \/ LockFile(c, q) \/ UnlockFile(c, q) \/ CloseFile(c, q)
        PROVE  UNCHANGED <<datasize, creator>>
    BY <1>7 DEF OpenExisting, ReadFile, LockFile, UnlockFile, CloseFile, Answer, Die, store, fields
  <1> QED BY <1>1, <1>2, <1>3, <1>4, <1>5, <1>6, <1>7 DEF Request

(* What OPEN created and no WRITE filled stays empty.                      *)
LEMMA OrphanKept ==
    ASSUME CInv, ClientsNext
    PROVE  OrphanStep
  <1> SUFFICES ASSUME NEW p, Orphaned(p)
               PROVE  datasize'[p] = 0 /\ creator'[p] = creator[p]
    BY DEF OrphanStep, Orphaned
  <1>0. p \in Paths /\ p \in hashtable /\ datasize[p] = 0 /\ ~Filling(p) /\ p \in hashtable'
    BY DEF Orphaned, CInv, IInv, TypeOK
  <1>1. ASSUME NEW c \in Clients, NEW j \in Jobs, Call(c, j)
        PROVE  datasize'[p] = 0 /\ creator'[p] = creator[p]
    BY <1>1, RequestOrphan DEF Call, Jobs
  <1>2. ASSUME NEW c \in Clients, NEW option \in Options, NEW q \in Paths, Begin(c, option, q)
        PROVE  datasize'[p] = 0 /\ creator'[p] = creator[p]
    <2>1. [option |-> option, path |-> q, next |-> FirstCall(option)] \in Jobs
      BY DEF Jobs, FirstCall, Calls
    <2> QED BY <1>1, <1>2, <2>1 DEF Begin
  <1>3. ASSUME NEW c \in Clients, Continue(c)
        PROVE  datasize'[p] = 0 /\ creator'[p] = creator[p]
    <2>1. job[c] \in Jobs
      BY <1>3 DEF Continue, CInv, JobsTyped
    <2> QED BY <1>1, <1>3, <2>1 DEF Continue
  <1>4. CASE UNCHANGED <<datasize, creator>>
    BY <1>0, <1>4
  <1>5. CASE EvictOne
    <2>1. CASE Forget({Victim})
      BY <1>0, <2>1 DEF Forget, Reset
    <2> QED BY <1>4, <1>5, <2>1 DEF EvictOne, Die, store, fields
  <1>6. CASE FinishWrite
    <2>1. writing # NoWrite /\ writing \in Writes
      BY <1>6 DEF FinishWrite, CInv, IInv, TypeOK
    <2>2. p # writing.path
      <3> SUFFICES ASSUME p = writing.path PROVE FALSE
        OBVIOUS
      <3>1. writing.client \in Clients /\ AtWork(writing.client, p) /\ creator[p] = writing.client
        BY <1>0, <2>1 DEF CInv, WriterAtWork, Writes
      <3> QED BY <1>0, <3>1 DEF AtWork, Filling
    <2>3. CASE UNCHANGED store
      BY <1>4, <2>3 DEF store, fields
    <2>4. CASE /\ datasize' = [datasize EXCEPT ![writing.path] = writing.size]
               /\ creator' = [creator EXCEPT ![writing.path] = 0]
      BY <1>0, <2>2, <2>4 DEF CInv, IInv, TypeOK
    <2> QED BY <1>4, <1>6, <2>3, <2>4 DEF FinishWrite, Die
  <1>7. ASSUME NEW c \in Clients, LocalFailure(c) \/ ReadN(c) \/ Connection(c) \/ Killed(c)
        PROVE  UNCHANGED <<datasize, creator>>
    BY <1>7 DEF LocalFailure, ReadN, Connection, Killed, ReadNFiles, Accept, CloseConnection,
                ClientDies, Answer, Die, vars, store, fields
  <1> QED BY <1>2, <1>3, <1>4, <1>5, <1>6, <1>7 DEF ClientsNext, ContinueWrite

(* A file that its creator is no longer about to fill stays empty for as   *)
(* long as it is stored, whatever any client does and whoever gets the     *)
(* descriptor of its creator (server.c:583, 592, 712).                     *)
THEOREM OrphansAreFinal == ClientsSpec => OrphansStay
  <1>1. CInv /\ [ClientsNext]_clientvars => [OrphanStep]_clientvars
    BY OrphanKept
  <1> QED BY <1>1, ClientsInductive, PTL DEF ClientsSpec, OrphansStay

-----------------------------------------------------------------------------
(* A client that is about to WRITE the file it has created has not lost    *)
(* its place among the openers: others open and close for themselves.      *)
WriterReady ==
    \A d \in Clients, p \in Paths :
        AtWork(d, p) /\ p \in hashtable /\ creator[p] = d => IsOpener(p, d)

(* An option comes to its WRITE by an OPEN that was answered OK.           *)
LEMMA AnsweredWork ==
    ASSUME JobsTyped, NEW c \in Clients, NEW j \in Jobs, Answered(c, j),
           j.next = "write" => j = job[c],
           NEW d \in Clients, NEW p \in Paths, AtWork(d, p)'
    PROVE  \/ AtWork(d, p) /\ (d = c => j.next = "write")
           \/ /\ d = c /\ j.path = p /\ j.next = "create"
              /\ \E r \in sent' : r.code = "OK" /\ r.to = c /\ r.path = p
  <1>1. j # NoJob /\ j.option \in Options /\ j.next \in Calls /\ job \in [Clients -> Jobs \cup {NoJob}]
    BY DEF Jobs, JobsTyped
  <1>2. CASE d # c
    BY <1>1, <1>2 DEF Answered, GoOn, AtWork
  <1>3. CASE d = c /\ job' = [job EXCEPT ![c] = j]
    BY <1>1, <1>3 DEF AtWork
  <1>4. ASSUME d = c, NEW r \in sent', r.to = c, r.path = j.path,
               NEW next \in Following(j.option, j.next, r.code = "OK"), GoOn(c, j, next)
        PROVE  j.path = p /\ j.next = "create" /\ r.code = "OK"
    <2>1. job'[c] = IF next = "none" THEN NoJob ELSE [j EXCEPT !.next = next]
      BY <1>1, <1>4 DEF GoOn
    <2>2. next # "none" /\ [j EXCEPT !.next = next].next = "write" /\ [j EXCEPT !.next = next].path = p
      BY <1>4, <2>1 DEF AtWork
    <2>3. next = "write" /\ j.path = p
      BY <2>2 DEF Jobs
    <2>4. Middle(j.option) # "write"
      BY <1>1 DEF Middle, Writing, Options
    <2> QED BY <1>1, <1>4, <2>3, <2>4 DEF Following, Calls, Writing, Options
  <1> QED BY <1>2, <1>3, <1>4 DEF Answered

(* A request takes nobody but its own client out of the openers.           *)
LEMMA RequestOpeners ==
    ASSUME CInv, NEW c \in Clients, NEW q \in Paths, NEW call \in Calls, Request(c, q, call),
           NEW p \in hashtable', NEW d \in Clients, creator'[p] = d
    PROVE  \/ IsOpener(p, d)'
           \/ d = c /\ call = "close"
           \/ p \in hashtable /\ creator[p] = d /\ ~IsOpener(p, d)
  <1>0. /\ hashtable \subseteq Paths
        /\ creator \in [Paths -> Clients \cup {0}] /\ openers \in [Paths -> List(Clients)]
        /\ d # 0
    BY ClientsAssumption DEF CInv, IInv, TypeOK
  <1>1. CASE UNCHANGED <<hashtable, creator, openers>>
    BY <1>0, <1>1 DEF IsOpener
  <1>2. CASE UNCHANGED store
    BY <1>1, <1>2 DEF store, fields
  <1>3. CASE OpenCreate(c, q, FALSE)
    <2>1. ASSUME NEW gone, NEW rest, StoreNew(c, q, FALSE, gone, rest)
          PROVE  \/ IsOpener(p, d)'
                 \/ p \in hashtable /\ creator[p] = d /\ ~IsOpener(p, d)
      <3>1. CASE p = q
        <4>1. creator'[p] = c /\ openers'[p] = PutLast(EmptyList, c)
          BY <1>0, <2>1, <3>1 DEF StoreNew, Reset
        <4>2. EmptyList \in List(Clients)
          BY EmptyListList
        <4>3. Elements(PutLast(EmptyList, c)) = {c}
          BY <4>2, PutLastKeeps
        <4> QED BY <4>1, <4>3 DEF IsOpener
      <3>2. CASE p # q
        <4>1. p \in hashtable /\ p \notin gone
          BY <2>1, <3>2 DEF StoreNew
        <4>2. creator'[p] = creator[p] /\ openers'[p] = openers[p]
          BY <1>0, <2>1, <3>2, <4>1 DEF StoreNew, Reset
        <4> QED BY <4>1, <4>2 DEF IsOpener
      <3> QED BY <3>1, <3>2
    <2> QED BY <1>2, <1>3, <2>1 DEF OpenCreate, Answer, Die
  <1>4. CASE OpenExisting(c, q, FALSE)
    <2>1. CASE openers' = [openers EXCEPT ![q] = PutLast(@, c)] /\ UNCHANGED <<hashtable, creator>>
      <3>1. Elements(openers[q]) \subseteq Elements(PutLast(openers[q], c))
        BY <1>0, PutLastKeeps
      <3> QED BY <1>0, <2>1, <3>1 DEF IsOpener
    <2> QED BY <1>2, <1>4, <2>1 DEF OpenExisting, Answer
  <1>5. CASE CloseFile(c, q) /\ call = "close"
    <2>1. CASE openers' = [openers EXCEPT ![q] = removeFd(@, c)] /\ UNCHANGED <<hashtable, creator>>
      <3>1. d # c /\ d \in Elements(openers[q]) => d \in Elements(removeFd(openers[q], c))
        BY <1>0, removeFdKeeps
      <3> QED BY <1>0, <1>5, <2>1, <3>1 DEF IsOpener
    <2> QED BY <1>2, <1>5, <2>1 DEF CloseFile, Answer, Die
  <1>6. CASE RemoveFile(c, q)
    <2>1. CASE Forget({q})
      BY <1>0, <2>1 DEF Forget, Reset, IsOpener
    <2> QED BY <1>2, <1>6, <2>1 DEF RemoveFile, Answer, Die
  <1>7. ASSUME NEW n, WriteFile(c, q, n) \/ AppendToFile(c, q, n)
        PROVE  UNCHANGED <<hashtable, creator, openers>>
    BY <1>7 DEF WriteFile, AppendToFile, Answer, Die, store, fields
  <1>8. ASSUME ReadFile(c, q) \/ LockFile(c, q) \/ UnlockFile(c, q)
        PROVE  UNCHANGED <<hashtable, creator, openers>>
    BY <1>8 DEF ReadFile, LockFile, UnlockFile, Answer, Die, store, fields
  <1> QED BY <1>1, <1>3, <1>4, <1>5, <1>6, <1>7, <1>8 DEF Request

(* A call keeps the writers among the openers.                             *)
LEMMA CallReady ==
    ASSUME CInv, WriterReady, NEW c \in Clients, NEW j \in Jobs, Call(c, j),
           j.next = "write" => j = job[c]
    PROVE  WriterReady'
  <1> SUFFICES ASSUME NEW d \in Clients, NEW p \in Paths,
                      AtWork(d, p)', p \in hashtable', creator'[p] = d
               PROVE  IsOpener(p, d)'
    BY DEF WriterReady
  <1>1. JobsTyped /\ Request(c, j.path, j.next) /\ Answered(c, j) /\ j.path \in Paths /\ j.next \in Calls
    BY DEF Call, CInv, Jobs
  <1>2. \/ IsOpener(p, d)'
        \/ d = c /\ j.next = "close"
        \/ p \in hashtable /\ creator[p] = d /\ ~IsOpener(p, d)
    BY <1>1, RequestOpeners
  <1>3. CASE AtWork(d, p) /\ (d = c => j.next = "write")
    BY <1>2, <1>3 DEF WriterReady
  <1>4. CASE /\ d = c /\ j.path = p /\ j.next = "create"
             /\ \E r \in sent' : r.code = "OK" /\ r.to = c /\ r.path = p
    <2>1. OpenCreate(c, p, FALSE)
      BY <1>1, <1>4 DEF Request
    <2>2. PICK r \in sent' : r.code = "OK"
      BY <1>4
    <2>3. p \notin hashtable
      <3> SUFFICES ASSUME Answer(c, "OPEN", p, "ALREADYEXISTS", <<>>) PROVE FALSE
        BY <2>1 DEF OpenCreate
      <3> QED BY <2>2 DEF Answer, Reply
    <2> QED BY <1>2, <1>4, <2>3
  <1> QED BY <1>1, <1>3, <1>4, AnsweredWork

(* The eviction loop of a WRITE, and its end.                              *)
LEMMA ContinueWriteReady ==
    ASSUME CInv, WriterReady, ContinueWrite
    PROVE  WriterReady'
  <1> SUFFICES ASSUME NEW d \in Clients, NEW p \in Paths,
                      AtWork(d, p)', p \in hashtable', creator'[p] = d
               PROVE  IsOpener(p, d)'
    BY DEF WriterReady
  <1>0. /\ hashtable \subseteq Paths /\ JobsTyped
        /\ creator \in [Paths -> Clients \cup {0}] /\ openers \in [Paths -> List(Clients)]
        /\ d # 0
    BY ClientsAssumption DEF CInv, IInv, TypeOK
  <1>1. CASE EvictOne /\ UNCHANGED <<job, careless>>
    <2>1. AtWork(d, p)
      BY <1>1 DEF AtWork
    <2>2. CASE Forget({Victim})
      <3>1. p \in hashtable /\ p # Victim
        BY <2>2 DEF Forget
      <3>2. creator'[p] = creator[p] /\ openers'[p] = openers[p]
        BY <1>0, <2>2, <3>1 DEF Forget, Reset
      <3> QED BY <2>1, <3>1, <3>2 DEF WriterReady, IsOpener
    <2>3. CASE UNCHANGED store
      BY <2>1, <2>3 DEF WriterReady, IsOpener, store, fields
    <2> QED BY <1>1, <2>2, <2>3 DEF EvictOne, Die
  <1>2. CASE FinishWrite /\ Answered(writing.client, job[writing.client])
    <2>1. writing \in Writes /\ writing # NoWrite
      BY <1>2 DEF FinishWrite, CInv, IInv, TypeOK
    <2>2. writing.client \in Clients
      BY <2>1 DEF Writes
    <2>3. job[writing.client] \in Jobs /\ job[writing.client].next = "write"
      BY <1>0, <2>1, <2>2 DEF CInv, JobsTyped, WriterAtWork, AtWork
    <2>4. AtWork(d, p)
      BY <1>0, <1>2, <2>2, <2>3, AnsweredWork
    <2>5. hashtable' = hashtable /\ openers' = openers
      BY <1>2 DEF FinishWrite, Die, store, fields
    <2>6. creator[p] = d
      BY <1>0, <1>2 DEF FinishWrite, Die, store, fields
    <2> QED BY <2>4, <2>5, <2>6 DEF WriterReady, IsOpener
  <1> QED BY <1>1, <1>2 DEF ContinueWrite

(* Failures in the client, readNFiles, connections and clients killed: the *)
(* one that leaves has no call to make.                                    *)
LEMMA OtherReady ==
    ASSUME CInv, WriterReady, NEW c \in Clients,
           LocalFailure(c) \/ ReadN(c) \/ Connection(c) \/ Killed(c)
    PROVE  WriterReady'
  <1> SUFFICES ASSUME NEW d \in Clients, NEW p \in Paths,
                      AtWork(d, p)', p \in hashtable', creator'[p] = d
               PROVE  IsOpener(p, d)'
    BY DEF WriterReady
  <1>0. openers \in [Paths -> List(Clients)] /\ job \in [Clients -> Jobs \cup {NoJob}]
    BY DEF CInv, IInv, TypeOK, JobsTyped
  <1>1. UNCHANGED <<hashtable, creator>>
    BY DEF LocalFailure, ReadN, Connection, Killed, ReadNFiles, Accept, CloseConnection, ClientDies,
           Answer, Die, vars, store, fields
  <1>2. CASE LocalFailure(c)
    <2>1. UNCHANGED openers
      BY <1>2 DEF LocalFailure, vars, store, fields
    <2>2. PICK next \in {"close", "none"} : GoOn(c, job[c], next)
      BY <1>2 DEF LocalFailure
    <2>3. job[c] \in Jobs
      BY <1>0, <1>2 DEF LocalFailure
    <2>4. d # c
      BY <1>0, <2>2, <2>3 DEF GoOn, AtWork, Jobs
    <2>5. AtWork(d, p)
      BY <1>0, <2>2, <2>4 DEF GoOn, AtWork
    <2> QED BY <1>1, <2>1, <2>5 DEF WriterReady, IsOpener
  <1>3. CASE UNCHANGED <<job, openers>>
    BY <1>1, <1>3 DEF WriterReady, IsOpener, AtWork
  <1>4. CASE ReadN(c) \/ Killed(c)
    BY <1>3, <1>4 DEF ReadN, Killed, ReadNFiles, ClientDies, Answer, Die, store, fields
  <1>5. CASE Connection(c)
    <2>1. AtWork(d, p) /\ d # c
      BY <1>5 DEF Connection, AtWork
    <2>2. IsOpener(p, d)
      BY <1>1, <2>1 DEF WriterReady
    <2>3. d \in Elements(removeFd(openers[p], c))
      BY <1>0, <2>1, <2>2, removeFdKeeps DEF IsOpener
    <2>4. openers'[p] = openers[p] \/ openers'[p] = removeFd(openers[p], c)
      BY <1>5 DEF Connection, Accept, CloseConnection, Die, store, fields
    <2> QED BY <2>2, <2>3, <2>4 DEF IsOpener
  <1> QED BY <1>2, <1>4, <1>5

(* Every step keeps the writers among the openers.                         *)
LEMMA StepReady == CInv /\ WriterReady /\ [ClientsNext]_clientvars => WriterReady'
  <1>1. CASE CInv /\ WriterReady /\ UNCHANGED clientvars
    BY <1>1 DEF clientvars, vars, store, fields, WriterReady, AtWork, IsOpener
  <1>2. ASSUME CInv, WriterReady, ClientsNext
        PROVE  WriterReady'
    <2>1. ASSUME NEW c \in Clients, NEW option \in Options, NEW p \in Paths, Begin(c, option, p)
          PROVE  WriterReady'
      <3> DEFINE j == [option |-> option, path |-> p, next |-> FirstCall(option)]
      <3>1. j \in Jobs /\ j.next # "write"
        BY DEF Jobs, FirstCall, Calls
      <3>2. Call(c, j)
        BY <2>1 DEF Begin
      <3> HIDE DEF j
      <3> QED BY <1>2, <3>1, <3>2, CallReady
    <2>2. ASSUME NEW c \in Clients, Continue(c)
          PROVE  WriterReady'
      <3>1. job[c] \in Jobs /\ Call(c, job[c])
        BY <1>2, <2>2 DEF Continue, CInv, JobsTyped
      <3> QED BY <1>2, <3>1, CallReady
    <2> QED BY <1>2, <2>1, <2>2, ContinueWriteReady, OtherReady DEF ClientsNext
  <1> QED BY <1>1, <1>2

(* Only WRITE sends answers to WRITE, and it denies what it finds amiss.   *)
LEMMA RequestRefused ==
    ASSUME CInv, NEW c \in Clients, NEW q \in Paths, NEW call \in Calls, Request(c, q, call),
           NEW r \in sent', r.op = "WRITE", r.code = "DENIED"
    PROVE  call = "write" /\ r.to = c /\ r.path = q /\ q \in hashtable /\ ~MayWrite(c, q)
  <1>1. ASSUME NEW n, WriteFile(c, q, n)
        PROVE  r.to = c /\ r.path = q /\ q \in hashtable /\ ~MayWrite(c, q)
    BY <1>1 DEF WriteFile, Answer, Reply
  <1>2. ASSUME NEW n, AppendToFile(c, q, n)
        PROVE  FALSE
    <2>1. sent' = {} \/ \E code : sent' = {Reply(c, "APPEND", q, code, <<>>)}
      BY <1>2 DEF AppendToFile, Answer, Die
    <2> QED BY <2>1 DEF Reply
  <1>3. ASSUME OpenCreate(c, q, FALSE) \/ OpenExisting(c, q, FALSE)
        PROVE  FALSE
    <2>1. r.op \in {"OPEN", "LOCK"}
      <3>1. \A code, files : Reply(c, "OPEN", q, code, files).op = "OPEN"
        BY DEF Reply
      <3>2. \A reply \in WaitersToldGone(Victim) : reply.op = "LOCK"
        BY DEF WaitersToldGone, Reply
      <3>3. CASE OpenCreate(c, q, FALSE)
        <4>1. \/ \E code, files : sent' = {Reply(c, "OPEN", q, code, files)}
              \/ sent' = {Reply(c, "OPEN", q, "OK", <<Victim>>)} \cup WaitersToldGone(Victim)
              \/ sent' = {}
          BY <3>3 DEF OpenCreate, Answer, Die
        <4> QED BY <3>1, <3>2, <4>1
      <3>4. CASE OpenExisting(c, q, FALSE)
        BY <3>1, <3>4 DEF OpenExisting, Answer
      <3> QED BY <1>3, <3>3, <3>4
    <2> QED BY <2>1
  <1>4. ASSUME ReadFile(c, q) \/ RemoveFile(c, q) \/ CloseFile(c, q)
        PROVE  FALSE
    BY <1>4 DEF ReadFile, RemoveFile, CloseFile, Answer, Die, Reply
  <1>5. ASSUME LockFile(c, q) \/ UnlockFile(c, q)
        PROVE  FALSE
    BY <1>5 DEF LockFile, UnlockFile, Answer, Die, Reply
  <1> QED BY <1>1, <1>2, <1>3, <1>4, <1>5 DEF Request

(* The call that is denied so has a client at work, with its file open.    *)
LEMMA CallRefused ==
    ASSUME CInv, WriterReady, NEW c \in Clients, NEW j \in Jobs, Call(c, j),
           j.next = "write" => j = job[c]
    PROVE  WriteRefused
  <1> SUFFICES ASSUME NEW r \in sent', r.op = "WRITE", r.code = "DENIED", creator[r.path] = r.to
               PROVE  locker[r.path] \notin {0, r.to}
    BY DEF WriteRefused
  <1>1. Request(c, j.path, j.next) /\ j.path \in Paths /\ j.next \in Calls
    BY DEF Call, Jobs
  <1>2. /\ j.next = "write" /\ r.to = c /\ r.path = j.path
        /\ j.path \in hashtable /\ ~MayWrite(c, j.path)
    BY <1>1, RequestRefused
  <1>3. AtWork(c, j.path)
    BY <1>2 DEF AtWork, CInv, JobsTyped
  <1>4. IsOpener(j.path, c)
    BY <1>1, <1>2, <1>3 DEF WriterReady
  <1>5. creator[j.path] = c /\ c # 0
    BY <1>2, ClientsAssumption
  <1>6. datasize[j.path] = 0
    <2>1. datasize[j.path] \in Nat
      BY <1>1 DEF CInv, IInv, TypeOK
    <2> QED BY <1>2, <1>5, <2>1 DEF CInv, IInv, EmptyUntilWritten
  <1> QED BY <1>2, <1>4, <1>5, <1>6 DEF MayWrite, MayLock

(* No step of the clients refuses a WRITE for another reason.              *)
LEMMA StepRefused == CInv /\ WriterReady /\ [ClientsNext]_clientvars => [WriteRefused]_sent
  <1> SUFFICES ASSUME CInv, WriterReady, ClientsNext, sent' # sent
               PROVE  WriteRefused
    BY DEF clientvars, vars
  <1>1. ASSUME NEW c \in Clients, NEW option \in Options, NEW p \in Paths, Begin(c, option, p)
        PROVE  WriteRefused
    <2> DEFINE j == [option |-> option, path |-> p, next |-> FirstCall(option)]
    <2>1. j \in Jobs /\ j.next # "write"
      BY DEF Jobs, FirstCall, Calls
    <2>2. Call(c, j)
      BY <1>1 DEF Begin
    <2> HIDE DEF j
    <2> QED BY <2>1, <2>2, CallRefused
  <1>2. ASSUME NEW c \in Clients, Continue(c)
        PROVE  WriteRefused
    <2>1. job[c] \in Jobs /\ Call(c, job[c])
      BY <1>2 DEF Continue, CInv, JobsTyped
    <2> QED BY <2>1, CallRefused
  <1>3. CASE ContinueWrite
    BY <1>3 DEF ContinueWrite, EvictOne, FinishWrite, WaitersToldGone, Die, Reply, WriteRefused
  <1>4. ASSUME NEW c \in Clients, LocalFailure(c)
        PROVE  WriteRefused
    BY <1>4 DEF LocalFailure, vars
  <1>5. ASSUME NEW c \in Clients, ReadN(c) \/ Connection(c) \/ Killed(c)
        PROVE  WriteRefused
    BY <1>5 DEF ReadN, Connection, Killed, ReadNFiles, Accept, CloseConnection, ClientDies,
                Answer, Die, Reply, WriteRefused
  <1> QED BY <1>1, <1>2, <1>3, <1>4, <1>5 DEF ClientsNext

(* A WRITE is denied only if another client has locked or replaced the     *)
(* file between the two requests of writeFile (client.c:259-260,           *)
(* server.c:583).                                                          *)
THEOREM WritesAreServed == ClientsSpec => WriteOnlyRefusedIfTaken
  <1>1. ClientsInit => WriterReady
    BY DEF ClientsInit, WriterReady, AtWork
  <1>2. CInv /\ WriterReady /\ [ClientsNext]_clientvars => WriterReady'
    BY StepReady
  <1>3. CInv /\ WriterReady /\ [ClientsNext]_clientvars => [WriteRefused]_sent
    BY StepRefused
  <1> QED BY <1>1, <1>2, <1>3, ClientsInductive, PTL DEF ClientsSpec, WriteOnlyRefusedIfTaken

-----------------------------------------------------------------------------
(* The openers of all stored files, in the FIFO or not: a client that was  *)
(* never careless is among them once, for the file of its option, and only *)
(* after the option has opened it.                                         *)
Working(c, p) ==
    job[c] # NoJob /\ job[c].path = p /\ job[c].next \notin {"create", "open"}

OpensInOrder ==
    \A d \in Clients \ careless : \A p \in hashtable :
        IsOpener(p, d) => Once(openers[p], d) /\ Working(d, p)

(* What a request does to the openers of a file.                           *)
OpensKept(c, q, call, d, p) ==
    /\ p \in hashtable
    /\ IsOpener(p, d)
    /\ Once(openers[p], d) /\ ~(d = c /\ p = q /\ call \in {"create", "open"}) =>
           Once(openers'[p], d)

OpensNew(c, q, call, d, p) ==
    /\ d = c /\ p = q /\ call \in {"create", "open"}
    /\ Once(openers'[p], d)
    /\ sent' # {} /\ \A r \in sent' : r.to = c /\ r.path = q => r.code = "OK"

LEMMA RequestOpens ==
    ASSUME CInv, NEW c \in Clients, NEW q \in Paths, NEW call \in Calls, Request(c, q, call),
           NEW p \in hashtable', NEW d \in Clients, IsOpener(p, d)'
    PROVE  OpensKept(c, q, call, d, p) \/ OpensNew(c, q, call, d, p)
  <1>0. hashtable \subseteq Paths /\ openers \in [Paths -> List(Clients)]
    BY DEF CInv, IInv, TypeOK
  <1>1. CASE p \in hashtable /\ openers'[p] = openers[p]
    BY <1>1 DEF IsOpener, OpensKept
  <1>2. CASE UNCHANGED store
    BY <1>1, <1>2 DEF store, fields
  <1>3. CASE OpenCreate(c, q, FALSE) /\ call = "create"
    <2>1. ASSUME NEW gone, NEW rest, NEW gonefiles,
                 q \notin hashtable, StoreNew(c, q, FALSE, gone, rest), q \notin gone,
                 sent' = {Reply(c, "OPEN", q, "OK", gonefiles)}
                            \cup UNION {WaitersToldGone(v) : v \in gone}
          PROVE  OpensKept(c, q, call, d, p) \/ OpensNew(c, q, call, d, p)
      <3>1. CASE p = q
        <4>1. openers'[p] = PutLast(EmptyList, c)
          BY <1>0, <2>1, <3>1 DEF StoreNew, Reset
        <4>2. EmptyList \in List(Clients) /\ Elements(EmptyList) = {} /\ Once(EmptyList, c)
          BY EmptyListList DEF EmptyList, Once
        <4>3. Elements(PutLast(EmptyList, c)) = {c} /\ Once(PutLast(EmptyList, c), c)
          BY <4>2, PutLastKeeps, PutLastOnce
        <4>4. \A r \in UNION {WaitersToldGone(v) : v \in gone} : r.path \in gone
          BY DEF WaitersToldGone, Reply
        <4>5. Reply(c, "OPEN", q, "OK", gonefiles).code = "OK"
          BY DEF Reply
        <4>6. sent' # {} /\ \A r \in sent' : r.to = c /\ r.path = q => r.code = "OK"
          BY <2>1, <4>4, <4>5
        <4> QED BY <1>3, <3>1, <4>1, <4>3, <4>6 DEF IsOpener, OpensNew
      <3>2. CASE p # q
        <4>1. p \in hashtable /\ p \notin gone
          BY <2>1, <3>2 DEF StoreNew
        <4>2. openers'[p] = openers[p]
          BY <1>0, <2>1, <3>2, <4>1 DEF StoreNew, Reset
        <4> QED BY <1>1, <4>1, <4>2
      <3> QED BY <3>1, <3>2
    <2>2. CASE /\ q \notin hashtable
               /\ StoreNew(c, q, FALSE, {}, filepaths)
               /\ sent' = {Reply(c, "OPEN", q, "OK", <<>>)}
      BY <2>1, <2>2
    <2>3. CASE /\ q \notin hashtable /\ HasVictim
               /\ StoreNew(c, q, FALSE, {Victim}, DropFirst(filepaths))
               /\ sent' = {Reply(c, "OPEN", q, "OK", <<Victim>>)} \cup WaitersToldGone(Victim)
      <3>1. UNION {WaitersToldGone(v) : v \in {Victim}} = WaitersToldGone(Victim)
        OBVIOUS
      <3>2. q \notin {Victim}
        BY <2>3 DEF HasVictim, Victim
      <3> QED BY <2>1, <2>3, <3>1, <3>2
    <2>4. CASE Answer(c, "OPEN", q, "ALREADYEXISTS", <<>>) \/ Die("noevictable")
      BY <1>2, <2>4 DEF Answer, Die
    <2> QED BY <1>3, <2>2, <2>3, <2>4 DEF OpenCreate
  <1>4. CASE OpenExisting(c, q, FALSE) /\ call = "open"
    <2>1. CASE /\ openers' = [openers EXCEPT ![q] = PutLast(@, c)]
               /\ sent' = {Reply(c, "OPEN", q, "OK", <<>>)}
               /\ hashtable' = hashtable
      <3>1. CASE p # q
        BY <1>0, <1>1, <2>1, <3>1
      <3>2. CASE p = q
        <4>1. openers'[p] = PutLast(openers[p], c) /\ openers[p] \in List(Clients)
          BY <1>0, <2>1, <3>2
        <4>2. d \in Elements(openers[p]) \cup {c}
          BY <4>1, PutLastList DEF IsOpener
        <4>3. CASE d = c /\ ~IsOpener(p, d)
          <5>1. Once(openers[p], d)
            BY <4>1, <4>3 DEF Once, IsOpener, Elements, ToSet
          <5>2. Once(openers'[p], d)
            BY <4>1, <4>3, <5>1, PutLastOnce DEF IsOpener
          <5>3. sent' # {} /\ \A r \in sent' : r.code = "OK"
            BY <2>1 DEF Reply
          <5> QED BY <1>4, <3>2, <4>3, <5>2, <5>3 DEF OpensNew
        <4>4. CASE d = c /\ IsOpener(p, d)
          BY <1>4, <2>1, <3>2, <4>4 DEF OpensKept
        <4>5. CASE d # c
          <5>1. Once(openers[p], d) => Once(openers'[p], d)
            BY <4>1, <4>5, PutLastOnce
          <5> QED BY <2>1, <4>2, <4>5, <5>1 DEF OpensKept, IsOpener
        <4> QED BY <4>3, <4>4, <4>5
      <3> QED BY <3>1, <3>2
    <2> QED BY <1>2, <1>4, <2>1 DEF OpenExisting, Answer
  <1>5. CASE CloseFile(c, q)
    <2>1. CASE openers' = [openers EXCEPT ![q] = removeFd(@, c)] /\ hashtable' = hashtable
      <3>1. CASE p # q
        BY <1>0, <1>1, <2>1, <3>1
      <3>2. CASE p = q
        <4>1. openers'[p] = removeFd(openers[p], c) /\ openers[p] \in List(Clients)
          BY <1>0, <2>1, <3>2
        <4>2. Once(openers[p], d) => Once(openers'[p], d)
          BY <4>1, removeFdOnce
        <4>3. IsOpener(p, d)
          BY <4>1, removeFdList DEF IsOpener
        <4> QED BY <2>1, <4>2, <4>3 DEF OpensKept
      <3> QED BY <3>1, <3>2
    <2> QED BY <1>2, <1>5, <2>1 DEF CloseFile, Answer, Die
  <1>6. CASE RemoveFile(c, q)
    <2>1. CASE Forget({q})
      BY <1>0, <1>1, <2>1 DEF Forget, Reset
    <2> QED BY <1>2, <1>6, <2>1 DEF RemoveFile, Answer, Die
  <1>7. ASSUME NEW n, WriteFile(c, q, n) \/ AppendToFile(c, q, n)
        PROVE  UNCHANGED <<hashtable, openers>>
    BY <1>7 DEF WriteFile, AppendToFile, Answer, Die, store, fields
  <1>8. ASSUME ReadFile(c, q) \/ LockFile(c, q) \/ UnlockFile(c, q)
        PROVE  UNCHANGED <<hashtable, openers>>
    BY <1>8 DEF ReadFile, LockFile, UnlockFile, Answer, Die, store, fields
  <1> QED BY <1>1, <1>3, <1>4, <1>5, <1>6, <1>7, <1>8 DEF Request

(* After an answer to CLOSE its client is no opener any more, if it was    *)
(* one only once.                                                          *)
LEMMA CloseGone ==
    ASSUME CInv, NEW c \in Clients, NEW q \in Paths, CloseFile(c, q), sent' # {},
           q \in hashtable', Once(openers[q], c)
    PROVE  ~IsOpener(q, c)'
  <1>1. openers \in [Paths -> List(Clients)]
    BY DEF CInv, IInv, TypeOK
  <1>2. openers' = [openers EXCEPT ![q] = removeFd(@, c)]
    BY DEF CloseFile, Answer, Die, store, fields
  <1>3. c \notin Elements(removeFd(openers[q], c))
    BY <1>1, removeFdOnce
  <1> QED BY <1>1, <1>2, <1>3 DEF IsOpener

(* After a REMOVE that is answered OK there is no such file.               *)
LEMMA RemoveGone ==
    ASSUME NEW c \in Clients, NEW q \in Paths, RemoveFile(c, q), NEW r \in sent', r.code = "OK"
    PROVE  q \notin hashtable'
  BY DEF RemoveFile, Answer, Die, Reply, Forget

(* The answer to a call, for the client that made it.                      *)
LEMMA AnsweredOwn ==
    ASSUME JobsTyped, NEW c \in Clients, NEW j \in Jobs, Answered(c, j)
    PROVE  /\ careless \subseteq careless'
           /\ \A d \in Clients \ {c} : job'[d] = job[d]
           /\ \/ sent' = {} /\ job'[c] = j
              \/ \E r \in sent' :
                    /\ r.to = c /\ r.path = j.path
                    /\ \E next \in Following(j.option, j.next, r.code = "OK") :
                          /\ LeavesOpen(j, next, r.code = "OK") => c \in careless'
                          /\ next # "none" => job'[c] = [j EXCEPT !.next = next]
  BY DEF Answered, GoOn, JobsTyped

(* A call keeps the opens in order.                                        *)
LEMMA CallInOrder ==
    ASSUME CInv, OpensInOrder, NEW c \in Clients, NEW j \in Jobs, Call(c, j),
           j = job[c] \/ (job[c] = NoJob /\ j.next \in {"create", "open"})
    PROVE  OpensInOrder'
  <1> SUFFICES ASSUME NEW d \in Clients, d \notin careless', NEW p \in hashtable', IsOpener(p, d)'
               PROVE  Once(openers'[p], d) /\ Working(d, p)'
    BY DEF OpensInOrder
  <1>1. JobsTyped /\ Request(c, j.path, j.next) /\ Answered(c, j) /\ j.path \in Paths /\ j.next \in Calls
        /\ j.option \in Options /\ j # NoJob
    BY DEF Call, CInv, Jobs
  <1>2. OpensKept(c, j.path, j.next, d, p) \/ OpensNew(c, j.path, j.next, d, p)
    BY <1>1, RequestOpens
  <1>3. d \notin careless
    BY <1>1, AnsweredOwn
  <1>4. CASE d # c
    <2>1. OpensKept(c, j.path, j.next, d, p) /\ Working(d, p) /\ Once(openers[p], d)
      BY <1>2, <1>3, <1>4 DEF OpensNew, OpensKept, OpensInOrder
    <2>2. job'[d] = job[d]
      BY <1>1, <1>4, AnsweredOwn
    <2> QED BY <1>4, <2>1, <2>2 DEF OpensKept, Working
  <1>5. CASE d = c
    <2>1. ASSUME OpensKept(c, j.path, j.next, d, p)
          PROVE  /\ Once(openers[p], c) /\ Once(openers'[p], c)
                 /\ j.path = p /\ j.next \notin {"create", "open"}
      <3>1. Once(openers[p], c) /\ Working(c, p)
        BY <1>3, <1>5, <2>1 DEF OpensKept, OpensInOrder
      <3> QED BY <1>5, <2>1, <3>1 DEF OpensKept, Working
    <2>2. CASE sent' = {} /\ job'[c] = j
      BY <1>1, <1>2, <1>5, <2>1, <2>2 DEF OpensNew, Working
    <2>3. ASSUME NEW r \in sent', r.to = c, r.path = j.path,
                 NEW next \in Following(j.option, j.next, r.code = "OK"),
                 LeavesOpen(j, next, r.code = "OK") => c \in careless',
                 next # "none" => job'[c] = [j EXCEPT !.next = next]
          PROVE  Once(openers'[p], d) /\ Working(d, p)'
      <3>1. next = "none" => j.next = "close" \/ (j.next = "remove" /\ r.code = "OK")
        BY <1>5, <2>3 DEF LeavesOpen
      <3>2. Middle(j.option) \in {"append", "read", "lock", "unlock", "remove"}
        BY <1>1 DEF Middle, Writing, Options
      <3>3. next \in Calls \cup {"none"}
        BY <1>1, FollowingType
      <3>4. j.path = p /\ Once(openers'[p], c)
        BY <1>2, <1>5, <2>1 DEF OpensNew
      <3>5. ASSUME next # "none", next \notin {"create", "open"}
            PROVE  Working(c, p)'
        <4>1. [j EXCEPT !.next = next] \in Jobs
          BY <3>3, <3>5 DEF Jobs
        <4>2. [j EXCEPT !.next = next].path = p /\ [j EXCEPT !.next = next].next = next
          BY <3>4 DEF Jobs
        <4> QED BY <2>3, <3>5, <4>1, <4>2 DEF Working
      <3>6. CASE OpensKept(c, j.path, j.next, d, p)
        <4>1. j.next # "close" \/ next # "none"
          <5> SUFFICES ASSUME j.next = "close" PROVE FALSE
            OBVIOUS
          <5>1. CloseFile(c, p)
            BY <1>1, <3>4 DEF Request
          <5>2. ~IsOpener(p, c)'
            BY <1>1, <2>1, <2>3, <3>4, <3>6, <5>1, CloseGone
          <5> QED BY <1>5, <5>2
        <4>2. ~(j.next = "remove" /\ r.code = "OK")
          <5> SUFFICES ASSUME j.next = "remove", r.code = "OK" PROVE FALSE
            OBVIOUS
          <5>1. RemoveFile(c, p)
            BY <1>1, <3>4 DEF Request
          <5> QED BY <1>1, <2>3, <3>4, <5>1, RemoveGone
        <4>3. next # "none"
          BY <3>1, <4>1, <4>2
        <4>4. next \notin {"create", "open"}
          BY <1>1, <2>1, <2>3, <3>6, <4>3 DEF Following, Calls
        <4> QED BY <1>5, <3>4, <3>5, <4>3, <4>4
      <3>7. CASE OpensNew(c, j.path, j.next, d, p)
        <4>1. r.code = "OK" /\ j.next \in {"create", "open"}
          BY <2>3, <3>7 DEF OpensNew
        <4>2. next # "none"
          BY <3>1, <4>1
        <4>3. next \notin {"create", "open"}
          BY <1>1, <2>3, <3>2, <4>1 DEF Following
        <4> QED BY <1>5, <3>4, <3>5, <4>2, <4>3
      <3> QED BY <1>2, <3>6, <3>7
    <2>4. \/ sent' = {} /\ job'[c] = j
          \/ \E r \in sent' :
                /\ r.to = c /\ r.path = j.path
                /\ \E next \in Following(j.option, j.next, r.code = "OK") :
                      /\ LeavesOpen(j, next, r.code = "OK") => c \in careless'
                      /\ next # "none" => job'[c] = [j EXCEPT !.next = next]
      BY <1>1, AnsweredOwn
    <2> QED BY <2>2, <2>3, <2>4
  <1> QED BY <1>4, <1>5

(* So do the eviction loop of a WRITE, and its end.                        *)
LEMMA ContinueWriteInOrder ==
    ASSUME CInv, OpensInOrder, ContinueWrite
    PROVE  OpensInOrder'
  <1> SUFFICES ASSUME NEW d \in Clients, d \notin careless', NEW p \in hashtable', IsOpener(p, d)'
               PROVE  Once(openers'[p], d) /\ Working(d, p)'
    BY DEF OpensInOrder
  <1>0. hashtable \subseteq Paths /\ openers \in [Paths -> List(Clients)] /\ JobsTyped
    BY DEF CInv, IInv, TypeOK
  <1>1. ASSUME p \in hashtable, openers'[p] = openers[p], d \notin careless
        PROVE  Once(openers'[p], d) /\ Working(d, p)
    BY <1>1 DEF OpensInOrder, IsOpener
  <1>2. CASE EvictOne /\ UNCHANGED <<job, careless>>
    <2>1. p \in hashtable /\ openers'[p] = openers[p]
      <3>1. CASE Forget({Victim})
        BY <1>0, <3>1 DEF Forget, Reset
      <3> QED BY <1>2, <3>1 DEF EvictOne, Die, store, fields
    <2> QED BY <1>1, <1>2, <2>1 DEF Working
  <1>3. CASE FinishWrite /\ Answered(writing.client, job[writing.client])
    <2>1. writing \in Writes /\ writing # NoWrite
      BY <1>3 DEF FinishWrite, CInv, IInv, TypeOK
    <2>2. writing.client \in Clients
      BY <2>1 DEF Writes
    <2>3. PICK c \in Clients : c = writing.client
      BY <2>2
    <2>4. PICK j \in Jobs : j = job[c]
      BY <1>0, <2>1, <2>3 DEF CInv, JobsTyped, WriterAtWork, AtWork
    <2>5. j.next = "write" /\ Answered(c, j)
      BY <1>3, <2>1, <2>3, <2>4 DEF CInv, WriterAtWork, AtWork
    <2>6. careless \subseteq careless'
      BY <1>0, <2>5, AnsweredOwn
    <2>7. Once(openers'[p], d) /\ Working(d, p)
      BY <1>1, <1>3, <2>6 DEF FinishWrite, Die, store, fields
    <2>8. CASE d # c
      <3>1. job'[d] = job[d]
        BY <1>0, <2>5, <2>8, AnsweredOwn
      <3> QED BY <2>7, <3>1 DEF Working
    <2>9. CASE d = c
      <3>0. \A ok \in BOOLEAN : Following(j.option, j.next, ok) = {"close"}
        BY <2>5 DEF Following
      <3>1. job'[c] = j \/ job'[c] = [j EXCEPT !.next = "close"]
        <4>1. CASE job'[c] = j
          BY <4>1
        <4>2. CASE \E r \in sent' : \E next \in Following(j.option, j.next, r.code = "OK") :
                      next # "none" => job'[c] = [j EXCEPT !.next = next]
          <5>1. PICK r \in sent' : \E next \in Following(j.option, j.next, r.code = "OK") :
                      next # "none" => job'[c] = [j EXCEPT !.next = next]
            BY <4>2
          <5>2. Following(j.option, j.next, r.code = "OK") = {"close"}
            BY <3>0
          <5> QED BY <5>1, <5>2
        <4>3. \/ sent' = {} /\ job'[c] = j
              \/ \E r \in sent' :
                    /\ r.to = c /\ r.path = j.path
                    /\ \E next \in Following(j.option, j.next, r.code = "OK") :
                          /\ LeavesOpen(j, next, r.code = "OK") => c \in careless'
                          /\ next # "none" => job'[c] = [j EXCEPT !.next = next]
          BY <1>0, <2>5, AnsweredOwn
        <4> QED BY <4>1, <4>2, <4>3
      <3>2. [j EXCEPT !.next = "close"] \in Jobs
        BY DEF Jobs, Calls
      <3>3. [j EXCEPT !.next = "close"].path = j.path /\ [j EXCEPT !.next = "close"].next = "close"
        BY DEF Jobs
      <3> QED BY <2>4, <2>5, <2>7, <2>9, <3>1, <3>2, <3>3 DEF Working
    <2> QED BY <2>8, <2>9
  <1> QED BY <1>2, <1>3 DEF ContinueWrite

(* And what clients do without a call, or without an option.               *)
LEMMA OtherInOrder ==
    ASSUME CInv, OpensInOrder, NEW c \in Clients,
           LocalFailure(c) \/ ReadN(c) \/ Connection(c) \/ Killed(c)
    PROVE  OpensInOrder'
  <1> SUFFICES ASSUME NEW d \in Clients, d \notin careless', NEW p \in hashtable', IsOpener(p, d)'
               PROVE  Once(openers'[p], d) /\ Working(d, p)'
    BY DEF OpensInOrder
  <1>0. /\ hashtable \subseteq Paths /\ openers \in [Paths -> List(Clients)]
        /\ job \in [Clients -> Jobs \cup {NoJob}]
    BY DEF CInv, IInv, TypeOK, JobsTyped
  <1>1. UNCHANGED hashtable
    BY DEF LocalFailure, ReadN, Connection, Killed, ReadNFiles, Accept, CloseConnection, ClientDies,
           Answer, Die, vars, store, fields
  <1>2. CASE LocalFailure(c)
    <2>1. PICK next \in {"close", "none"} :
              /\ GoOn(c, job[c], next)
              /\ careless' = IF next = "none" THEN careless \cup {c} ELSE careless
      BY <1>2 DEF LocalFailure
    <2>2. UNCHANGED openers /\ job[c] \in Jobs
      BY <1>0, <1>2 DEF LocalFailure, vars, store, fields
    <2>3. Once(openers'[p], d) /\ Working(d, p)
      BY <1>1, <2>1, <2>2 DEF OpensInOrder, IsOpener
    <2>4. CASE d # c
      BY <1>0, <2>1, <2>3, <2>4 DEF GoOn, Working
    <2>5. CASE d = c
      <3>1. job'[c] = [job[c] EXCEPT !.next = "close"]
        BY <1>0, <2>1, <2>5 DEF GoOn
      <3>2. [job[c] EXCEPT !.next = "close"] \in Jobs
        BY <2>2 DEF Jobs, Calls
      <3>3. /\ [job[c] EXCEPT !.next = "close"].path = job[c].path
            /\ [job[c] EXCEPT !.next = "close"].next = "close"
        BY <2>2 DEF Jobs
      <3> QED BY <2>3, <2>5, <3>1, <3>2, <3>3 DEF Working
    <2> QED BY <2>4, <2>5
  <1>3. CASE UNCHANGED <<job, careless, openers>>
    BY <1>1, <1>3 DEF OpensInOrder, IsOpener, Working
  <1>4. CASE ReadN(c) \/ Killed(c)
    BY <1>3, <1>4 DEF ReadN, Killed, ReadNFiles, ClientDies, Answer, Die, store, fields
  <1>5. CASE Connection(c)
    <2>1. UNCHANGED <<job, careless>>
      BY <1>5 DEF Connection
    <2>2. openers'[p] = openers[p] \/ openers'[p] = removeFd(openers[p], c)
      BY <1>0, <1>1, <1>5 DEF Connection, Accept, CloseConnection, Die, store, fields
    <2>3. IsOpener(p, d)
      BY <1>0, <1>1, <2>2, removeFdList DEF IsOpener
    <2>4. Once(openers[p], d) /\ Working(d, p)
      BY <1>1, <2>1, <2>3 DEF OpensInOrder
    <2>5. Once(openers'[p], d)
      BY <1>0, <1>1, <2>2, <2>4, removeFdOnce
    <2> QED BY <2>1, <2>4, <2>5 DEF Working
  <1> QED BY <1>2, <1>4, <1>5

(* Every step does.                                                        *)
LEMMA StepInOrder == CInv /\ OpensInOrder /\ [ClientsNext]_clientvars => OpensInOrder'
  <1>1. CASE CInv /\ OpensInOrder /\ UNCHANGED clientvars
    BY <1>1 DEF clientvars, vars, store, fields, OpensInOrder, Working, IsOpener
  <1>2. ASSUME CInv, OpensInOrder, ClientsNext
        PROVE  OpensInOrder'
    <2>1. ASSUME NEW c \in Clients, NEW option \in Options, NEW p \in Paths, Begin(c, option, p)
          PROVE  OpensInOrder'
      <3> DEFINE j == [option |-> option, path |-> p, next |-> FirstCall(option)]
      <3>1. j \in Jobs /\ j.next \in {"create", "open"}
        BY DEF Jobs, FirstCall, Calls
      <3>2. Call(c, j) /\ job[c] = NoJob
        BY <2>1 DEF Begin
      <3> HIDE DEF j
      <3> QED BY <1>2, <3>1, <3>2, CallInOrder
    <2>2. ASSUME NEW c \in Clients, Continue(c)
          PROVE  OpensInOrder'
      <3>1. job[c] \in Jobs /\ Call(c, job[c])
        BY <1>2, <2>2 DEF Continue, CInv, JobsTyped
      <3> QED BY <1>2, <3>1, CallInOrder
    <2> QED BY <1>2, <2>1, <2>2, ContinueWriteInOrder, OtherInOrder DEF ClientsNext
  <1> QED BY <1>1, <1>2

(* No open of a client that always comes to its CLOSE outlives the option  *)
(* that made it, whatever happens to the file in between                   *)
(* (client.c:247-476, server.c:418, 983).                                  *)
THEOREM OpensAreClosed == ClientsSpec => []CarefulClientsClose
  <1>1. ClientsInit => OpensInOrder
    BY DEF ClientsInit, Init, OpensInOrder
  <1>2. CInv /\ OpensInOrder => CarefulClientsClose
    <2> SUFFICES ASSUME CInv, OpensInOrder, NEW c \in Clients \ careless,
                        NEW p \in Elements(filepaths), IsOpener(p, c)
                 PROVE  Opens(c, p) = 1 /\ job[c] # NoJob /\ job[c].path = p
      BY DEF CarefulClientsClose
    <2>1. p \in hashtable
      BY DEF CInv, IInv, IndexAgrees
    <2>2. Once(openers[p], c) /\ Working(c, p)
      BY <2>1 DEF OpensInOrder
    <2>3. PICK i \in DOMAIN openers[p].items : openers[p].items[i] = c
      BY DEF IsOpener, Elements, ToSet
    <2>4. {k \in DOMAIN openers[p].items : openers[p].items[k] = c} = {i}
      BY <2>2, <2>3 DEF Once
    <2>5. Opens(c, p) = 1
      BY <2>4, FS_Singleton DEF Opens
    <2> QED BY <2>2, <2>5 DEF Working
  <1> QED BY <1>1, <1>2, StepInOrder, ClientsInductive, PTL DEF ClientsSpec
=============================================================================
