# A TLA+ model of the SOL storage server

The repository is a file storage server for one machine (`src/code`): client
processes send requests over a Unix socket, a main thread selects the sockets
that are ready and puts them into a queue, and a pool of worker threads serves
one request at a time on a storage kept in memory, with a limit on the number
of files and on their bytes. When a limit is reached the oldest files are
evicted. This directory holds the TLA+ modules of its logic, the TLC
configurations that check them on small instances, and proofs for instances of
any size, checked by the TLA+ proof system (TLAPS).

## 1. Inventory

| Component | State | Operations | Interaction |
|---|---|---|---|
| Request queue, `requestqueue.c` | linked list, `currentsize`, `maxsize`, `queuemtx`, conditions `empty` and `full` | `putRequestor`, `getRequestor` | main thread produces, workers consume |
| Linked lists, `storage.c` | `head`, `tail` of `FdList` and `FilepathList` | `putFd`, `getFirstFd`, `removeFd`, `checkFd`, `addFilepath`, `popFilepathList`, `deleteFilepathNode` | called by the handlers |
| Storage and handlers, `storage.c`, `work()` in `server.c` | hash table of `File`s, FIFO of paths, `currfiles`, `currsize`; per file size, creator, locker, openers, lock waiters | OPEN, CLOSE, READ, READN, WRITE, APPEND, REMOVE, LOCK, UNLOCK, EXIT | called by the workers under `storagemtx`; answers the client, sometimes other clients |
| Per-file locks, `work()` | `mtx`, `ordering`, `writecond`, `readers`, `writer` | lock order and waits inside the handlers | between workers |
| Dispatcher, `main()` of `server.c` | select sets, `maxfd`, `connectedclients`, `softexit`, `hardexit`, a pipe | accept, enqueue, take back fds, shut down | pipe from the workers, queue to them, signals |
| Hash table, `icl_hash.c` | buckets | find, insert, delete | third-party code, called by the handlers |
| Wire protocol, `comms.c` | none | `sendRequest`, `getRequest`, `sendResponse`, `getResponse` | client library and workers |
| Client library, `api.c` | one socket | `openConnection` ... `closeConnection` | requests to the server |
| Client, `client.c`, `optparsing.c` | option list | the calls an option makes, in order | uses the client library |
| Configuration, `configparsing.c` | none after start | read the limits | start of the server |
| Log, statistics | a file, counters | `logprint` | written by the workers, read by no decision |

What is hard in it:

* **Threads.** The producer and the consumers of the queue meet on two
  condition variables; workers meet on `storagemtx` and on two mutexes and one
  condition per file, taken in different orders by different handlers.
* **Three records of the same files.** The hash table, the FIFO and the
  counters are updated in different handlers and must agree for eviction, READN
  and EXIT to work.
* **Lists with a tail pointer** that unlinking does not maintain.
* **Limits.** Evictions at the limit, of one file or of several, possibly of
  the file that is being written, and a queue whose capacity shrinks.
* **Failure.** A handler that cannot go on ends the process (the `PERR` macros
  of `utils.h`); a client may vanish; file descriptors are reused and double as
  identities of clients (`creator`, `locker`, `openers`).

What makes each part correct:

* queue: FIFO, nothing lost, no worker asleep beside a request, a request in
  the queue is taken, a producer that waits for room gets it;
* storage: table, FIFO and counters agree; the limits hold; a file is filled
  once, by its creator, and then only grows; a lock keeps others out and does
  not outlive its client; no file disappears unreported;
* per-file locks: what each mutex excludes, no access to a freed file, every
  waiter woken, no deadlock, and which of these the code does not deliver;
* dispatcher: a client is in one place at a time, selected when it should be,
  served in the end; shutdown ends;
* client: each option opens, uses and closes its file, whatever it is answered.

## 2. Modules

| Module | What it is |
|---|---|
| `FifoQueue` | abstract bounded FIFO buffer |
| `RequestQueue` | `requestqueue.c`, main thread and workers around it |
| `LinkedLists` | the two kinds of list of `storage.c`, as operators |
| `FileStore` | abstract store: created empty, filled once, grown, dropped, within the limits |
| `ReadersWriters` | abstract sharing of the contents of the Files, and the end of their memory |
| `Rounds` | abstract way of the clients: from main to the queue, to a worker, through the pipe, back to main |
| `Storage` | storage and request handlers, one worker at a time |
| `FileLocks` | the mutexes and condition of the handlers, many workers at a time |
| `Server` | main thread, outer loop of the workers, pipe, signals, shutdown, the clients' ends of the connections |
| `ClientServer` | `Storage` driven by the options of the command line client |
| `RequestQueue_proofs`, `LinkedLists_proofs`, `Storage_proofs`, `StorageSpace_proofs`, `FileLocks_proofs`, `Server_proofs`, `ClientServer_proofs` | theorems |
| `MCRequestQueue`, `MCStorage`, `MCFileLocks`, `MCServer`, `MCClientServer` | instances for TLC |

They fit together as follows. `RequestQueue` is the queue and its mutex;
`Server` uses the sequence that it implements (`ImplementsFifo`), with the room
it has for its whole life (`LifetimeBudget`). The handlers
of `work()` are modelled twice: `Storage` has all their decisions, one handler
after the other, and `FileLocks` has all their locking, any number of workers
interleaved, with the decisions left open. `ClientServer` EXTENDS `Storage` with
the clients that send the requests. Four abstract specifications say what the
parts are for: `RequestQueue` implements `FifoQueue`, `Storage` (and with it
`ClientServer`) `FileStore`, `FileLocks` `ReadersWriters`, and `Server`
`Rounds`.

### RequestQueue

One step is one section between taking `queuemtx` and giving it up, by unlock
or by `pthread_cond_wait`. `main` and `worker` say whether a thread is outside,
"waiting" on its condition, or "woken" and about to repeat its while test;
`ResumePut` and `ResumeGet` are that repetition, `SpuriousMain` and
`SpuriousWorker` the wakeups without a broadcast that POSIX allows. `queue` is
the list, `currentsize` and `maxsize` the counters beside it. `inserted` and
`taken` are history variables.

`getRequestor` tests `currentsize == (queue->maxsize)--` (requestqueue.c:108).
The model keeps the side effect. It makes the history finite: `LifetimeBudget`
says that insertions plus free room are always `MAX_REQUESTS`, so the state
space is finite without any artificial bound.

### LinkedLists

A list is the sequence of the elements reachable from `head` and the flag
`tailok`: does `tail` point to the last of them? Unlinking the last of several
nodes clears the flag (storage.c:77, 294). A later append through such a tail
writes to freed memory, the element is not reachable, and whatever has been
allocated there may be damaged: `PutLast` returns the list unchanged, and
`MayCorrupt` of `Storage` adds the outcome "undefined". `RemoveFdFaults` and
`DeletePathFaults` tell when the loops of `removeFd` and `deleteFilepathNode`
follow a null pointer.

### Storage

One action is one handler of `work()`, from the request to the answer, as one
worker executes it with no other inside a handler. WRITE is split at its
eviction loop: `WriteFile` makes the tests, `EvictOne` is one round,
`FinishWrite` the rest; `Accept` and `ClientDies` may come in between.

| Action | Code (server.c) |
|---|---|
| `Accept` | 160-184 |
| `OpenCreate`, `OpenExisting`, `OpenBadFlags` | 270-349, 350-397, 398-411 |
| `CloseFile`, `ReadFile`, `ReadNFiles` | 412-440, 441-513, 514-562 |
| `WriteFile`, `EvictOne`, `FinishWrite` | 563-691, 607-643, 645-673 |
| `AppendToFile`, `RemoveFile` | 692-803, 804-850 |
| `LockFile`, `UnlockFile`, `CloseConnection` | 851-890, 891-948, 949-1011 |
| `ClientDies` | end of file at comms.c:195 then no case at server.c:268, or a failed write at comms.c:165 |

The hash table is the set `hashtable`; the fields of the `File`s are functions
of their paths, with initial values where no file is stored. Contents are
sizes. Clients are file descriptors, as in the code: `Accept` takes the lowest
free one, so a descriptor is reused. `sent` holds the replies of the last step.

`status` is "running" until something ends the process or blocks it for good:

| Value | Cause |
|---|---|
| `noevictable` | eviction with an empty FIFO (`PERRNULL`, server.c:295, 611, 731) |
| `appendevict` | APPEND has to evict, and deletes with the wrong key (server.c:739) |
| `lockwait` | LOCK of a file locked by another client (server.c:882) |
| `deadclient` | a reply to a client that is gone |
| `nullptr` | `removeFd` or `deleteFilepathNode` runs off a list; `strlen` of the null data of an empty WRITE (server.c:656), `strcat` of those of an empty APPEND (server.c:771) |
| `undefined` | an append behind a dangling tail, or `strcat` past its buffer (server.c:771), did damage |
| `stuck` | end of file from a client: `storagemtx` is not released |

After that nothing happens, which is why the storage runs do not look for
deadlock. `lockwaiters` is modelled completely, although in this code only a
handler that is about to end the process puts a client there: `NoWaiters` in
`Storage_proofs` proves it, so the hand-over of locks in `UnlockFile` and
`CloseConnection` is code that the program cannot reach.

### FileLocks

One step is the code from one blocking operation to the next. `pc` says where a
worker is, `op` which handler it runs, `at` whose locks it uses, `file` which
File an OPEN creates or a WRITE or APPEND fills, and `todo` what an EXIT has
still to visit. A File is an object with a life of its own: allocated, in the
table (`stored`), taken out (`gone`), freed (`freed`).

| Action | Code (server.c) |
|---|---|
| `BeginFile`, `BeginFill`, `BeginCreate`, `BeginReadN`, `BeginExit` | the lock of `storagemtx` at 266, and the look-up in each handler |
| `BeginNothing` | request code 0, the end of a client's file (comms.c:195): the lock at 266, no case at 268, the next round of the loop at 1013 |
| `LockOrdering`, `LockMtx`, `Sleep`, `Resume` | `ordering`, `mtx` and `writecond` in OPEN, CLOSE, READ, LOCK, UNLOCK, WRITE, APPEND, REMOVE and the eviction |
| `OpenFile`, `CloseFile` | 350-397, 412-440 |
| `ReadStart`, `ReadDenied`, `ReadEnd` | 441-513, the answer being sent between the first and the last |
| `LockFile`, `LockDenied`, `UnlockFile`, `UnlockDenied` | 851-890, 891-948 |
| `RemoveFile`, `FreeFile` | 804-850, `freeFile` of storage.c |
| `CreateEvict`, `CreateInsert` | 270-349 |
| `EvictStart`, `EvictEnd`, `Fill`, `WriteStart`, `WriteEnd` | 607-643, 645-673, and the same part of APPEND |
| `AppendEvict`, `ReadNFiles` | 725-745, 514-562 |
| `ExitNext`, `ExitMtx`, `ExitOrdering`, `ExitVisit` | 949-1011 |

Which requests are denied, and when the capacity tests ask for an eviction, is
left open. `MustWait` is the set of while conditions around
`pthread_cond_wait`. `ImplementsReadersWriters` maps `pc` and `at` to the
abstract sharing: a File is read by the workers that send it and written by the
one that fills it, from `writer = 1` to `writer = 0`. A reader counts from
`readers++` to `readers--`, longer than it looks at the contents, which it
copies into the answer under `mtx` (server.c:488). Two other copies are made
without the locks of the File, by READN (server.c:541) and by an OPEN that
evicts (server.c:300); they are no accesses in this sense, and what `storagemtx`
still means for them is `StorageExclusive`. From glibc it takes three things: an
unlock frees a default mutex whoever holds it; destroying a mutex that is held
fails, and `PERR` ends the process; destroying a condition variable waits until
nobody sleeps on it. `released` is a history variable: some WRITE has gone
through its eviction loop, which gives up `storagemtx` in each round and goes
on without it. `Left` owns `storagemtx` after a request with code 0: the worker
is back in its loop and will not unlock it. `StorageExclusive` says that the
handlers themselves always give `storagemtx` back, `JammedForGood` that after
code 0 this helps nobody, since only the stray unlocks of an eviction loop
could free it.

### Server

One step is the code from one blocking call or one shared access to the next.

| Action | Code |
|---|---|
| `TestExit`, `EnterSelect`, `ReturnSelect` | server.c:128-136: the test, the copy of the set, select |
| `ScanPipe`, `ScanSocket`, `ScanClient`, `ScanEnd` | 137-198: the loop over the descriptors |
| `StopWorker`, `StopEnd`, `JoinWorkers` | 200-206: one -1 at a time, the end of that loop, the joins |
| `Put`, in `ScanClient` and `StopWorker` | `putRequestor`, which blocks main when there is no room |
| `TestFlags`, `GetRequestor` | 245-250 and `getRequestor` |
| `GetRequest`, `GetRest` | `getRequest` of comms.c: header, then path and data |
| `Handle`, `ReturnClient` | a handler under `storagemtx` with its answer, or the end of the process; the write to the pipe |
| `ExitMessage`, `ExitClose` | EXIT: "exit" into the pipe, the answer, close |
| `Forget` | request code 0: end of file |
| `Signal` | the handlers of SIGHUP, SIGINT and SIGQUIT |
| `Connect`, `Send...`, `ClientDies` | the client processes: `sendRequest` in two parts |

`copy` holds what the scan has not come to yet, so that a client that comes back
through the pipe is put into the scan that is going on, as the code does.
Signals are delivered to the main thread and interrupt its select. A client may
end after any part of a request: before it, `Forget` jams `storagemtx`; in the
middle the end of file passes for the rest; before the answer, writing it ends
the process. The handlers are one step here, since `Storage` and `FileLocks`
are about them, and the answer reaches the client in one step; that step may
also end the process, and it need not come: no fairness is assumed of it, so
that a worker may stay in its handler, as one does that sleeps on `writecond`
(`SleepersStay`) or is in a deadlock (`DeadlocksKnown`).

`room` is `maxsize - currentsize`. `getRequestor` takes one from both
(requestqueue.c:108), so only `Put` changes it, and main that finds no room
stays in `putRequestor` for good: the action is never enabled again. `told`
counts the -1 that main has put.

`PlaceOf` maps this state to the places of `Rounds`: a client is with main while
its descriptor is in `readset` or in `copy`, with a worker while one serves it,
and lost when a worker has forgotten it at its end of file. Every step of main
and workers moves at most one client, by one leg. `InStep` relates the two ends
of a connection: what the client has sent, what is unread, and at which point of
the request its worker is.

### ClientServer

One step is one call of `api.c`: request, handler of `Storage`, and what
`makeApiCall` or `recDirWrite` of `client.c` do with the answer.

| Operator or action | Code |
|---|---|
| `FirstCall`, `Middle`, `Following` | the call sequences of client.c:247-476 |
| `Request` | the functions of `api.c`, as requests |
| `Begin`, `Continue`, `ContinueWrite` | one call after the other |
| `LocalFailure` | a file to send that cannot be read |
| `ReadN`, `Connection`, `Killed` | `readNFiles`, `openConnection` and `closeConnection`, kill |

`job` is the option a client works at, its file and its next call. An option
with several files is several options. `careless` is a history variable: the
descriptors whose client has left an option before its CLOSE (a local failure of
-W, a failed save of -r, a refused REMOVE). A new client that gets the
descriptor counts as careless too, since the server cannot tell.

## 3. Runs

| Run | Instance | Shows |
|---|---|---|
| `request_queue` | 3 workers, 2 fds, 4 places | `TypeOK`, `FifoOrder`, `NoLostWakeup`, `LifetimeBudget`; `BlockedForGood`; `QueuedIsTaken` (liveness); `ImplementsFifo` (refinement of `FifoQueue`) |
| `queue_drain` | the same, `BusySpec` | violation of `FullQueueDrains` |
| `storage_space` | 1 client, 4 paths, at most 3 files, 2 bytes | `TypeOK`, `IndexAgrees`, `FilesWithinCapacity`, `BytesWithinCapacity`, `IndexedLockersConnected`, `OnlyLossStarves`; `NoSilentLoss`, `EvictsInOrder`, `RoomLostForGood`; `ImplementsFileStore` (refinement of `FileStore`) |
| `storage_sharing` | 2 clients, 3 paths, at most 2 files, 2 bytes | `EmptyUntilWritten`; `LockProtects` |
| `storage_index` | as `storage_space` | violation of `IndexComplete` |
| `storage_unlock` | as `storage_sharing` | violation of `UnlockReleases` |
| `storage_lockwait` | as `storage_sharing` | violation of `LockWaitersWait` |
| `file_locks` | 3 workers, 3 Files | `TypeOK`, `StorageExclusive`, `LocksAccounted`, `ReadersCounted`, `RemovedUnused`, `DanglingReaders`, `DeadlocksKnown`; `SleepersStay`, `JammedForGood`; `ImplementsReadersWriters` (refinement of `ReadersWriters`) |
| `server` | 2 workers, 2 descriptors, one of which may vanish, room for 4 requests | `TypeOK`, `OnePlace`, `InStep`, `Watched`; `ImplementsRounds` (refinement of `Rounds`) |
| `server_waiting` | 1 worker, 2 descriptors, room for 6 requests | `Served`, `HardExitEnds` (liveness) |
| `server_softexit` | as `server` | violation of `SoftExitServesAll` |
| `client_calls` | 2 clients, 2 paths, at most 2 files, 1 byte | `ClientsTypeOK`, `CarefulClientsClose`; `WriteOnlyRefusedIfTaken`, `OrphansStay` |

**Bounds.** Four places in the queue and three workers are enough for two
requests to be linked while several workers sleep, for a worker to steal a
request from a woken one, and for the producer to block with and without
requests left. Four paths with room for three give a FIFO that loses its tail
with two files left in it, and OPEN and WRITE evictions of every position. Two
bytes and requests of 0 to 3 bytes give the empty file, the exact fit, one
eviction, two in one WRITE, the eviction of the file being written, and the
request that never fits. `MaxOpens` bounds the opens of one file by the same
client, which the code does not bound; two are enough to make a list whose tail
is unlinked and whose loop runs off the end (84,000 states in `storage_space`).
Paths are interchangeable
(SYMMETRY); descriptors are not, since `Accept` takes the lowest. The view
leaves out `sent`, which no action reads.

Three workers and three Files let a reader, an eviction of its file and a third
worker that waits meet, and leave a File for an OPEN; both are interchangeable
(332,000 states). In `server`, two workers and two clients give a worker for each
client and the races between two workers; room for four requests lets both
clients be served and one of them twice, or once and then both -1 be put, and
lets main block in a scan and in the shutdown (912,000 states). In
`server_waiting` one worker has two clients, so that one client waits while the
worker reads for the other, which is the case of more clients than workers; the
room of six is for three rounds of each client, or two and the shutdown, before
main blocks (283,000 states). In both, `MaxPending` allows one
connection to wait, there is one signal at most, and a connection is made only
while a descriptor is free.
One of the clients leaves with REQ_EXIT, so that its descriptor is used again,
the other may vanish at any point. In `client_calls` the options are divided
between the two clients (`OptionsOf`): what the properties need is one client
that fills, locks and reads and one that fills and removes; all options for both
clients give the same steps of each, in a state space too large for a routine
run. The proofs have no such bound. One byte makes every second WRITE evict, and
REMOVE, which does not count, makes an OPEN evict.

**Fairness.** `RequestQueue!Spec` assumes weak fairness only of a thread that
has been woken inside the queue: it gets the mutex in the end. Nothing is
assumed of a worker outside, which may serve its client for ever, as workers of
this server do. `BusySpec` adds that workers keep coming, the kindest
environment, so that the counterexample to `FullQueueDrains` cannot be blamed on
idle workers. `Server!Spec` has weak fairness of the main thread and of
each worker outside the handlers (`Attend`): the operating system runs a thread
that is not blocked. Nothing is assumed of the handlers, which FileLocks shows
may never end, of clients, who may be silent for ever, nor of signals. `Storage`,
`FileLocks` and `ClientServer` state safety only and no fairness: what keeps
their requests coming is in `Server`, and what stops a handler for good is
stated as a safety property (`DeadlocksKnown`, `SleepersStay`).

**What the liveness runs say.** `Served` and `HardExitEnds` hold with the
exceptions in their statement, and the exceptions are the content: leaving out
any of them makes the property false in this instance. A client that waits for
an answer gets one, unless the server ends, or from some point on for ever

* its own handler does not end: it sleeps on `writecond`, is in a deadlock, or
  waits for a `storagemtx` that somebody left locked;
* it is in the queue, and every worker is in a handler or in `read` for a client
  that is silent. A client that was served once is enqueued again at once
  (server.c:148), so that with more clients than workers the silence of some
  keeps the others out;
* the main thread is in `putRequestor` and the room of the queue is used up
  (violation 1), before it has queued this client.

SIGINT ends the server, unless from some point on for ever a worker is in a
handler or in `read` for a silent client, main is in `putRequestor` with the
queue full, in the scan or while it tells the workers to stop (server.c:193,
201), or the signal came between the test of `hardexit` and select and nothing
else happens. What the two properties say of this server is therefore that there
is no further way to be left waiting: no client is lost between main, queue,
worker and pipe, no wakeup by -1 is missing, and the end of a client that
vanished delays a shutdown only through the `storagemtx` that it leaves.

**What the violations show.**

1. *The queue is used up* (requestqueue.c:108). After `MAX_REQUESTS` requests the
   main thread blocks in `putRequestor` for ever and the server answers nobody,
   signals included (`test3.sh` kills the server and waits for it).
2. *The FIFO loses files* (storage.c:294), although the report says that queue
   and table are always updated together. Such a file is never evicted.
3. *UNLOCK does not unlock* when nobody waits (server.c:923-928).
4. *Waiting for a lock ends the server* (server.c:869-882).
5. *SIGHUP drops requests* (server.c:245). The workers test `softexit` before
   they look at the queue, so a request that is queued when the signal comes is
   not answered, although the report says that all requests are served first.

**What passing properties say of defects.** REMOVE does not count down
(server.c:832): READN, whose test is commented "checking if there are files in
the storage" (server.c:516), answers OK with nothing afterwards, and evictions
come too early, or find no file and end the server. `RoomLostForGood` and
`OnlyLossStarves` say that the damage is never repaired and that there is no
other way to find no file than this, a WRITE whose own file was evicted, and a
lost path (item 2). `JammedForGood` says that one client that vanishes between
two requests ends the service of all. `removeFd` leaves its tail behind as
`deleteFilepathNode` does (storage.c:77), so that a later opener may be missing
from the list and be denied; no document says what such a client can expect, and
no property states it: `WriteOnlyRefusedIfTaken` is about the creator of a file,
who stays at the head of the list.

## 4. Proofs

All theorems hold for every value of the constants under the assumptions in the
modules: sets of workers, descriptors and paths of any size, positive
descriptors, limits in `Nat`.

**RequestQueue_proofs.** The inductive invariant joins loose types, `FifoOrder`,
`NoLostWakeup` and `LifetimeBudget` with `BlockedIsFull`: a main thread inside
`putRequestor` has a descriptor to insert and found the room spent, that is
`currentsize = maxsize`, which every get preserves because it takes one from
both sides. The bounds of `TypeOK` follow from the budget. From it:
`TypeCorrect`, `Ordered`, `NoWakeupIsLost`, `Budget`, `NeverReleased` (the
action property `BlockedForGood`) and `Refinement` (`ImplementsFifo`: the
initial state maps to the initial state, every step to a `Put`, a `Get` or a
stutter).

**LinkedLists_proofs.** The operations of the lists preserve the type, add or
keep no other elements than they should, and preserve distinctness; removing an
element from a list without duplicates removes it altogether, and `removeFd` of
one client leaves every other in its place. `PutLastOrder`, `DropFirstOrder` and
`UnlinkOrder` say that none of them changes the order (`Before`) of what stays.

**Storage_proofs.** `IInv` joins the invariants of the runs with three facts
that make them inductive: the table is finite, so that its files can be
counted; nobody waits for a lock while the server runs (`NoWaiters`), so no
lock is handed to a client that may be gone; and the file of a running WRITE is
not locked by somebody else (`WriterMayLock`), which `LockProtects` needs for
the step that stores the data. The counter stays in `Nat` only because it never
undercounts the files, so typing and capacity are proved together. One lemma
per action, resting on lemmas for the common shapes of a step: an answer
(`AnswerStep`), a fatal end (`DieStep`), a step that leaves table and FIFO alone
(`SteadyStep`), a new file (`StoreNewStep`), a file taken out (`ForgetStep`).
Theorems: `TypeCorrect`, `IndexSound`, `FilesBounded`, `WrittenOnce`,
`NoOrphanLock`, `NobodyWaits`, and for the action properties `LocksHold`,
`LossReported` and `EvictionInOrder`. The last one says that the FIFO is one even
when it has lost its tail: each step keeps the order of what stays, puts the new
behind it, and what goes unasked is the oldest.

**StorageSpace_proofs.** The two properties about bytes. The sum of the sizes is
stated as the number of pairs of a file and one of its bytes (`TotalSize`), so
that what a step adds or takes is a disjoint union or a difference of finite
sets, and no induction over the files is needed. `SpaceInv` is `IInv` with
`BytesInv`, the counter never undercounts the bytes, and `WriterFresh`, the file
of a running WRITE is still empty, without which filling it would not add just
its size. Theorems: `BytesBounded` (`BytesWithinCapacity`) and `Refinement`
(`ImplementsFileStore`: one step of the abstract store, or none, for each
handler and for each round of an eviction). `LostRoomStaysLost` is the other
half of the story of the counters: `FilesBounded` and `BytesBounded` say that
they never count too little, this one that what they count too much never
becomes less, for files (`FilesLostStep`) and for bytes (a conjunct of each of
the byte lemmas). `StarvationIsInherited` (`OnlyLossStarves`) names their
consequence: an eviction that finds no file, which ends the server, comes only
after a counter has lost room or the FIFO a file. Its invariant adds that a
running WRITE would fit into an empty storage (`WriterFits`), from the test
that answers NOMEM.

**FileLocks_proofs.** The inductive invariant has the parts `Base` (types, and
which places and Files belong to which request), `Lists` (the sequences, and an
EXIT that visits a file has it in `todo`), `StorageExclusive`, `LocksAccounted`,
`Counted` (readers are the workers that send, a set that changes by one element
per step), `WriterHolds` (a writer is at work and holds `mtx`), `Lifetimes`
(freed Files are gone, gone Files are not stored, a File being created is
neither), `RemovedUnused` and `DanglingReaders`. `SleepersStay` follows from
`LocksAccounted`: every broadcast is made with the `ordering` that the sleeper
keeps. `JammedForGood` follows from `StorageExclusive`: while `Left` owns
`storagemtx` no worker is in code that unlocks it or starts an eviction
(`JamKept`). `DeadlocksKnown` follows by cases on what a worker waits for: without a
sleeper and without `released`, the worker that holds `storagemtx` or an
`ordering` is not the one that waits, except for EXIT, which takes the mutexes
in the other order. `ExcludesReadersAndWriters` is the refinement. It needs one
more part of the invariant, `Accessed`: the locks of freed memory are free,
nobody frees what is freed or what another frees, and a worker that writes a
File has found `readers = 0`, which stays so, since a reader counts itself under
the `mtx` and `ordering` that the writer holds. It holds without the exception
`released`: the mutexes of the File do this alone.

**Server_proofs.** `Base` joins the types with: the room of the queue and the
workers told to stop (`Budget`), which places have a client (`Employed`), what a scan has left (`Scanning`), that `maxfd` stays below the
pipe only until the first client is scanned (`Started`), and `Watched`. `Placed`
adds `OnePlace` and `Lost`: the client that a worker is about to forget has come
to the end of its file, and nobody but accept opens the connection again.
`Agreed` is the strengthening for `InStep`: it says the same of each worker by
itself instead of the set of those that serve a client, which `OnePlace` turns
back into one, and adds that a client process has no connection exactly when
the server has none, without which an accept could find old data unread.
For `ImplementsRounds` the parts of the sum in `OnePlace` are followed through
each step (`ScanPipeMoves`, `ScanClientMoves`, `GetRequestorMoves`,
`ReturnClientMoves`), and `Spots` turns the one part that is not 0 into the
place. Theorems: `TypeCorrect`, `SelectWatchesAll`, `ClientsHaveOnePlace`,
`ExchangesInStep`, `DispatchesInRounds`.

**ClientServer_proofs.** `ClientsUseTheStorage` says `ClientsSpec => Spec`, so
that every theorem about `Storage` holds of it whatever the clients are;
`ClientsGetAStore` draws the conclusion that matters to its users,
`ClientsSpec => ImplementsFileStore`.
`CInv` adds to `IInv` the types of the jobs and `WriterAtWork`, a running WRITE
belongs to an option that waits for its answer. Two further invariants:
`WriterReady`, whoever is about to WRITE the file it created is an opener of
it, for which other clients' opens and closes must leave it there, gives
`WriteOnlyRefusedIfTaken`; `OpensInOrder`, a careful client is an opener once
and only of the file of its option after its OPEN, which is stated for all
stored files because the FIFO may lose some, gives `CarefulClientsClose`.
`OrphansAreFinal` follows from `CInv` alone.

**Model-checked only.** Liveness (`QueuedIsTaken`, `Served`, `HardExitEnds`) and
the temporal counterexample, because the prover does not handle ENABLED and
fairness here. Every invariant and every other action property of a passing run
is proved.

## 5. Not modelled, and why

* Reading of options and of the configuration: local string handling before any
  interaction.
* Log, statistics, verbose output: nothing depends on them.
* File contents, names, directories, the saving of evicted files by the client:
  data that the properties do not distinguish. An empty path is not a path.
* The buckets of `icl_hash.c`, third-party code: the handlers use it as a map
  from paths to Files.
* `openConnection` before it connects: its loop tests `begin - now`, which is
  never positive, so it never tries again (api.c:87); there is no state behind
  it.
* Parts of an answer: `Server` gives it to the client in one step, and the
  client reads nothing else meanwhile.
* Exhausted memory: every `malloc` succeeds; the code's only reaction is to end
  the process.
* `freeRequestQueue`, `freeStorage` and the like: they run after all threads are
  joined.
* Tests under `storagemtx` of what changes under `mtx` (openers, locker,
  creator; server.c:583, 708, 817) need the decisions of `Storage` with the
  interleavings of `FileLocks`. The state space of the product is out of reach,
  and the hazard is listed without a property.

## 6. Plan

What is left, in order of value:

1. `Storage` with two workers for the four handlers that share one file (OPEN,
   CLOSE, LOCK, WRITE) on a single path: the tests listed last in section 5,
   and a proof of what `storagemtx` and `mtx` together still guarantee of them.
2. A composition of `Server` with `RequestQueue` by INSTANCE in place of the
   sequence and its room, and a proof that the composition implements `Server`.
3. The answer in its parts, with the client's reading of it, so that a file list
   and what the client expects of it can be compared.
