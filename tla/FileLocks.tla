------------------------------ MODULE FileLocks ------------------------------
(***************************************************************************)
(* The mutexes of the storage and of its files, as several workers use     *)
(* them inside the handlers of work() in server.c: storagemtx, and for     *)
(* every File ordering, mtx, the condition variable writecond and the      *)
(* fields readers and writer.  One step is the code from one blocking      *)
(* operation to the next.                                                  *)
(*                                                                         *)
(* What Storage.tla models is left open here: whether a client may do what *)
(* it asks, and whether a capacity test asks for an eviction; both         *)
(* outcomes are steps.  A request that is answered under storagemtx alone  *)
(* changes nothing and has no step.  Nobody waits in lockwaiters: a LOCK   *)
(* that would put a client there ends the process (server.c:882).          *)
(*                                                                         *)
(* A File is an object, not a path: it is allocated once, and may outlive  *)
(* its entry in the hash table.  An unlock sets a mutex free whoever holds *)
(* it, which is what the default mutex of glibc does; there, too,          *)
(* destroying a mutex that is held fails, and destroying a condition       *)
(* variable waits until nobody sleeps on it.                               *)
(***************************************************************************)
EXTENDS Integers, FiniteSets, LinkedLists

CONSTANTS
    Workers,        \* the threads in work()
    Files,          \* the File objects that can be allocated
    Nobody,         \* the owner of a mutex that is free
    Left,           \* and of storagemtx once a worker has gone on without unlocking it
    NoFile          \* no File

ASSUME WorkersAssumption == Nobody \notin Workers /\ Left \notin Workers \cup {Nobody}
ASSUME FilesAssumption == NoFile \notin Files
ASSUME FiniteAssumption == IsFiniteSet(Workers)

VARIABLES
    storagemtx,     \* the owner of storagemtx
    ordering, mtx,  \* the owners of the two mutexes of each File
    readers, writer,  \* the two fields they guard
    stored,         \* the Files in the hash table
    filepaths,      \* the Files of the FIFO, oldest first
    gone,           \* the Files taken out of the table
    freed,          \* and those whose memory was freed
    pc,             \* where each worker is
    op,             \* the request it handles
    file,           \* the File that an OPEN creates, a WRITE or an APPEND fills
    at,             \* the File whose locks it uses
    todo,           \* the Files an EXIT has still to visit
    status,         \* "running", or what ended the process
    released        \* history: a WRITE has given up storagemtx in its loop

locks == <<storagemtx, ordering, mtx>>
counts == <<readers, writer>>
table == <<stored, filepaths, gone, freed>>
job == <<op, file, at, todo>>
vars == <<locks, counts, table, pc, job, status, released>>

(* The handlers that give up storagemtx as soon as they hold mtx, and      *)
(* those that keep it.  EVICT is a WRITE that works on its victim.         *)
Releasing == {"OPEN", "CLOSE", "READ", "LOCK", "UNLOCK"}
Keeping == {"CREATE", "READN", "WRITE", "EVICT", "APPEND", "REMOVE", "EXIT"}
Ops == Releasing \cup Keeping

Places == {"idle", "start", "ordering", "mtx", "inside", "asleep", "woken", "writing",
           "sending", "freeing", "inserting", "exitmtx", "exitordering"}

Ends == {"noevictable",  \* eviction finds no path, or a path that is not stored
         "appendevict",  \* APPEND fails to delete the file it evicts
         "lockwait",     \* LOCK answers a waiter with no response
         "unlisted",     \* a path is no longer in the table
         "busy",         \* a mutex is destroyed while it is held
         "undefined"}    \* freed memory is used, or a mutex that is not held is waited with

Init ==
    /\ storagemtx = Nobody
    /\ ordering = [f \in Files |-> Nobody]
    /\ mtx = [f \in Files |-> Nobody]
    /\ readers = [f \in Files |-> 0]
    /\ writer = [f \in Files |-> Nobody]
    /\ stored = {}
    /\ filepaths = <<>>
    /\ gone = {}
    /\ freed = {}
    /\ pc = [w \in Workers |-> "idle"]
    /\ op = [w \in Workers |-> "EXIT"]
    /\ file = [w \in Workers |-> NoFile]
    /\ at = [w \in Workers |-> NoFile]
    /\ todo = [w \in Workers |-> <<>>]
    /\ status = "running"
    /\ released = FALSE

-----------------------------------------------------------------------------
(* Worker w is at p and the process runs.                                  *)
At(w, p) == status = "running" /\ pc[w] = p
In(w, p, o) == At(w, p) /\ op[w] = o

Goto(w, p) == pc' = [pc EXCEPT ![w] = p]

(* The handler is over.                                                    *)
Forgotten(w) ==
    /\ op' = [op EXCEPT ![w] = "EXIT"]
    /\ file' = [file EXCEPT ![w] = NoFile]
    /\ at' = [at EXCEPT ![w] = NoFile]
    /\ todo' = [todo EXCEPT ![w] = <<>>]

Leave(w) == Goto(w, "idle") /\ Forgotten(w)

Die(why) ==
    /\ status' = why
    /\ UNCHANGED <<locks, counts, table, pc, job, released>>

(* pthread_mutex_unlock of both mutexes of a File, and of mtx alone.       *)
UnlockMtx(f) == mtx' = [mtx EXCEPT ![f] = Nobody]
UnlockMtxOnly(f) == UnlockMtx(f) /\ UNCHANGED ordering      \* mutant: ordering is kept
UnlockBoth(f) == UnlockMtx(f) /\ ordering' = [ordering EXCEPT ![f] = Nobody]

(* pthread_cond_broadcast of writecond of f.                               *)
Broadcast(f) ==
    [v \in Workers |-> IF pc[v] = "asleep" /\ at[v] = f THEN "woken" ELSE pc[v]]

(* pthread_cond_signal: one sleeper, if there is any.                      *)
Signals(f) ==
    LET sleepers == {v \in Workers : pc[v] = "asleep" /\ at[v] = f}
    IN  IF sleepers = {} THEN {pc}
        ELSE {[pc EXCEPT ![v] = "woken"] : v \in sleepers}

(* The while conditions around pthread_cond_wait.                          *)
MustWaitHasty(w) ==                                 \* mutant: REMOVE tests like EXIT
    LET r == readers[at[w]]
        b == writer[at[w]] # Nobody
    IN  \/ op[w] = "READ" /\ b
        \/ op[w] \in {"LOCK", "UNLOCK", "EVICT"} /\ (r # 0 \/ b)
        \/ op[w] \in {"WRITE", "APPEND"} /\ r > 0
        \/ op[w] \in {"EXIT", "REMOVE"} /\ r # 0 /\ b
MustWait(w) ==
    LET r == readers[at[w]]
        b == writer[at[w]] # Nobody
    IN  \/ op[w] = "READ" /\ b
        \/ op[w] \in {"LOCK", "UNLOCK", "REMOVE", "EVICT"} /\ (r # 0 \/ b)
        \/ op[w] \in {"WRITE", "APPEND"} /\ r > 0
        \/ op[w] = "EXIT" /\ r # 0 /\ b

-----------------------------------------------------------------------------
(* A worker takes up a request, and with it storagemtx.                    *)
Begin(w, o) ==
    /\ At(w, "idle")
    /\ storagemtx = Nobody
    /\ storagemtx' = w
    /\ op' = [op EXCEPT ![w] = o]
    /\ UNCHANGED <<ordering, mtx, counts, table, status, released>>

(* One that finds its File, and goes for the locks of the File.            *)
BeginFile(w, o, f) ==
    /\ o \in Releasing \cup {"REMOVE"}
    /\ f \in stored
    /\ Begin(w, o)
    /\ at' = [at EXCEPT ![w] = f]
    /\ Goto(w, "ordering")
    /\ UNCHANGED <<file, todo>>

(* WRITE and APPEND have to make room first.                               *)
BeginFill(w, o, f) ==
    /\ o \in {"WRITE", "APPEND"}
    /\ f \in stored
    /\ Begin(w, o)
    /\ file' = [file EXCEPT ![w] = f]
    /\ Goto(w, "start")
    /\ UNCHANGED <<at, todo>>

(* OPEN of a new file allocates it.                                        *)
BeginCreate(w, f) ==
    /\ f \notin stored \cup gone
    /\ \A v \in Workers : file[v] # f
    /\ Begin(w, "CREATE")
    /\ file' = [file EXCEPT ![w] = f]
    /\ Goto(w, "start")
    /\ UNCHANGED <<at, todo>>

BeginReadN(w) ==
    /\ Begin(w, "READN")
    /\ Goto(w, "start")
    /\ UNCHANGED <<file, at, todo>>

(* EXIT walks along the FIFO, which can change under it only after a WRITE *)
(* has released storagemtx.                                                *)
BeginExit(w) ==
    /\ Begin(w, "EXIT")
    /\ todo' = [todo EXCEPT ![w] = filepaths]
    /\ Goto(w, "start")
    /\ UNCHANGED <<file, at>>

(* Request code 0, which the end of a client's file leaves: the switch has *)
(* no case for it that would unlock, and the worker goes on.               *)
BeginNothing(w) ==
    /\ At(w, "idle")
    /\ storagemtx = Nobody
    /\ storagemtx' = Left
    /\ UNCHANGED <<ordering, mtx, counts, table, pc, job, status, released>>

-----------------------------------------------------------------------------
(* pthread_mutex_lock of ordering, then of mtx; some handlers then give up *)
(* storagemtx.                                                             *)
LockOrdering(w) ==
    /\ At(w, "ordering")
    /\ at[w] \notin freed
    /\ ordering[at[w]] = Nobody
    /\ ordering' = [ordering EXCEPT ![at[w]] = w]
    /\ Goto(w, "mtx")
    /\ UNCHANGED <<storagemtx, mtx, counts, table, job, status, released>>

GivesUpEarly(w) == op[w] \in Releasing \cup {"REMOVE"}      \* mutant: REMOVE too
GivesUp(w) == op[w] \in Releasing

LockMtx(w) ==
    /\ At(w, "mtx")
    /\ mtx[at[w]] = Nobody
    /\ mtx' = [mtx EXCEPT ![at[w]] = w]
    /\ storagemtx' = IF GivesUp(w) THEN Nobody ELSE storagemtx
    /\ Goto(w, "inside")
    /\ UNCHANGED <<ordering, counts, table, job, status, released>>

(* pthread_cond_wait on writecond keeps ordering.                          *)
WaitUnlocked(w) == UnlockBoth(at[w])                \* mutant: ordering is given up, too
WaitLocked(w) == UnlockMtx(at[w]) /\ UNCHANGED ordering

Sleep(w) ==
    /\ At(w, "inside")
    /\ MustWait(w)
    /\ WaitLocked(w)
    /\ Goto(w, "asleep")
    /\ UNCHANGED <<storagemtx, counts, table, job, status, released>>

(* Back from pthread_cond_wait with mtx, to repeat the while test.         *)
Resume(w) ==
    /\ At(w, "woken")
    /\ mtx[at[w]] = Nobody
    /\ mtx' = [mtx EXCEPT ![at[w]] = w]
    /\ Goto(w, "inside")
    /\ UNCHANGED <<storagemtx, ordering, counts, table, job, status, released>>

(* POSIX lets pthread_cond_wait return by itself.                          *)
SpuriousWake(w) ==
    /\ At(w, "asleep")
    /\ Goto(w, "woken")
    /\ UNCHANGED <<locks, counts, table, job, status, released>>

(* A mutex of a File that was freed is locked.                             *)
UseFreed(w) ==
    /\ status = "running"
    /\ pc[w] \in {"ordering", "exitmtx", "sending"}
    /\ at[w] \in freed
    /\ Die("undefined")

-----------------------------------------------------------------------------
(* What the handlers do with the locks of the File.                        *)
Proceed(w, o) == In(w, "inside", o) /\ ~MustWait(w)

OpenFile(w) ==
    /\ Proceed(w, "OPEN")
    /\ UnlockBoth(at[w])
    /\ Leave(w)
    /\ UNCHANGED <<storagemtx, counts, table, status, released>>

CloseFile(w) ==
    /\ Proceed(w, "CLOSE")
    /\ pc' = [IF readers[at[w]] = 0 THEN Broadcast(at[w]) ELSE pc EXCEPT ![w] = "idle"]
    /\ UnlockBoth(at[w])
    /\ Forgotten(w)
    /\ UNCHANGED <<storagemtx, counts, table, status, released>>

(* READ is refused before it would wait.                                   *)
ReadDenied(w) ==
    /\ In(w, "inside", "READ")
    /\ UnlockBoth(at[w])
    /\ Leave(w)
    /\ UNCHANGED <<storagemtx, counts, table, status, released>>

EntersNot(f) == UNCHANGED readers                   \* mutant: readers is not counted up
Enters(f) == readers' = [readers EXCEPT ![f] = @ + 1]

ReadStart(w) ==
    /\ Proceed(w, "READ")
    /\ Enters(at[w])
    /\ UnlockBoth(at[w])
    /\ Goto(w, "sending")
    /\ UNCHANGED <<storagemtx, writer, table, job, status, released>>

(* The answer, with a copy of the contents made before the unlocks, is     *)
(* sent: the reader locks mtx again to leave, and wakes one sleeper if it  *)
(* sees a writer.                                                          *)
LeavesLate(f) == UNCHANGED readers                  \* mutant: readers is not counted down
Leaves(f) == readers' = [readers EXCEPT ![f] = @ - 1]

ReadEnd(w) ==
    /\ At(w, "sending")
    /\ at[w] \notin freed
    /\ mtx[at[w]] = Nobody
    /\ Leaves(at[w])
    /\ \E q \in IF writer[at[w]] # Nobody THEN Signals(at[w]) ELSE {pc} :
           pc' = [q EXCEPT ![w] = "idle"]
    /\ Forgotten(w)
    /\ UNCHANGED <<locks, writer, table, status, released>>

(* LOCK: the file is free or locked by the same client, or by another.     *)
LockFile(w) ==
    /\ Proceed(w, "LOCK")
    /\ pc' = [Broadcast(at[w]) EXCEPT ![w] = "idle"]
    /\ UnlockBoth(at[w])
    /\ Forgotten(w)
    /\ UNCHANGED <<storagemtx, counts, table, status, released>>

LockDenied(w) == Proceed(w, "LOCK") /\ Die("lockwait")

UnlockFile(w) ==
    /\ Proceed(w, "UNLOCK")
    /\ pc' = [Broadcast(at[w]) EXCEPT ![w] = "idle"]
    /\ UnlockBoth(at[w])
    /\ Forgotten(w)
    /\ UNCHANGED <<storagemtx, counts, table, status, released>>

UnlockDenied(w) ==
    /\ Proceed(w, "UNLOCK")
    /\ UnlockBoth(at[w])
    /\ Leave(w)
    /\ UNCHANGED <<storagemtx, counts, table, status, released>>

(* The File leaves the hash table and the FIFO.                            *)
Delete(f) ==
    /\ stored' = stored \ {f}
    /\ gone' = gone \cup {f}

Without(s, f) == IF f \in ToSet(s) THEN RemoveAt(s, FirstIndex(s, f)) ELSE s

RemoveFile(w) ==
    /\ Proceed(w, "REMOVE")
    /\ \/ /\ at[w] \in stored
          /\ Delete(at[w])
          /\ filepaths' = Without(filepaths, at[w])
          /\ UnlockBoth(at[w])
          /\ Goto(w, "freeing")
          /\ UNCHANGED <<storagemtx, counts, freed, job, status, released>>
       \/ /\ at[w] \notin stored
          /\ Die("unlisted")

(* freeFile destroys writecond, then the mutexes.  REMOVE is then done,    *)
(* OPEN goes on to insert its new file.                                    *)
FreeFile(w) ==
    /\ At(w, "freeing")
    /\ \A v \in Workers : pc[v] = "asleep" => at[v] # at[w]
    /\ \/ /\ ordering[at[w]] = Nobody /\ mtx[at[w]] = Nobody
          /\ freed' = freed \cup {at[w]}
          /\ \/ /\ op[w] = "REMOVE"
                /\ storagemtx' = Nobody
                /\ Leave(w)
             \/ /\ op[w] = "CREATE"
                /\ Goto(w, "inserting")
                /\ at' = [at EXCEPT ![w] = NoFile]
                /\ UNCHANGED <<storagemtx, op, file, todo>>
          /\ UNCHANGED <<ordering, mtx, counts, stored, filepaths, gone, status, released>>
       \/ /\ ordering[at[w]] # Nobody \/ mtx[at[w]] # Nobody
          /\ Die("busy")

-----------------------------------------------------------------------------
(* The oldest file of the FIFO, if the hash table knows it.                *)
HasVictim == filepaths # <<>> /\ Head(filepaths) \in stored
Victim == Head(filepaths)

(* OPEN of a new file: one is evicted first, or none.                      *)
CreateEvict(w) ==
    /\ In(w, "start", "CREATE")
    /\ \/ /\ HasVictim
          /\ Delete(Victim)
          /\ filepaths' = Tail(filepaths)
          /\ at' = [at EXCEPT ![w] = Victim]
          /\ Goto(w, "freeing")
          /\ UNCHANGED <<locks, counts, freed, op, file, todo, status, released>>
       \/ /\ ~HasVictim
          /\ Die("noevictable")

CreateInsert(w) ==
    /\ status = "running"
    /\ op[w] = "CREATE"
    /\ pc[w] \in {"start", "inserting"}
    /\ stored' = stored \cup {file[w]}
    /\ filepaths' = Append(filepaths, file[w])
    /\ storagemtx' = Nobody
    /\ Leave(w)
    /\ UNCHANGED <<ordering, mtx, counts, gone, freed, status, released>>

(* READN copies the files under storagemtx, without their locks.           *)
ReadNFiles(w) ==
    /\ In(w, "start", "READN")
    /\ storagemtx' = Nobody
    /\ Leave(w)
    /\ UNCHANGED <<ordering, mtx, counts, table, status, released>>

(* One round of the eviction loop of WRITE.                                *)
EvictStart(w) ==
    /\ In(w, "start", "WRITE")
    /\ \/ /\ HasVictim
          /\ filepaths' = Tail(filepaths)
          /\ at' = [at EXCEPT ![w] = Victim]
          /\ op' = [op EXCEPT ![w] = "EVICT"]
          /\ Goto(w, "ordering")
          /\ UNCHANGED <<locks, counts, stored, gone, freed, file, todo, status, released>>
       \/ /\ ~HasVictim
          /\ Die("noevictable")

(* Its end gives up storagemtx, and the loop goes on.  The File is leaked. *)
EvictEnd(w) ==
    /\ Proceed(w, "EVICT")
    /\ \/ /\ at[w] \in stored
          /\ Delete(at[w])
          /\ UnlockBoth(at[w])
          /\ storagemtx' = Nobody
          /\ released' = TRUE
          /\ op' = [op EXCEPT ![w] = "WRITE"]
          /\ at' = [at EXCEPT ![w] = NoFile]
          /\ Goto(w, "start")
          /\ UNCHANGED <<counts, filepaths, freed, file, todo, status>>
       \/ /\ at[w] \notin stored
          /\ Die("unlisted")

(* APPEND waits without holding the mutex, or fails to delete its victim.  *)
AppendEvict(w) ==
    /\ In(w, "start", "APPEND")
    /\ Die(IF ~HasVictim THEN "noevictable"
           ELSE IF readers[Victim] > 0 \/ writer[Victim] # Nobody THEN "undefined"
           ELSE "appendevict")

(* The data fits: WRITE and APPEND lock their file, fill it and leave.     *)
Fill(w) ==
    /\ At(w, "start")
    /\ op[w] \in {"WRITE", "APPEND"}
    /\ at' = [at EXCEPT ![w] = file[w]]
    /\ Goto(w, "ordering")
    /\ UNCHANGED <<locks, counts, table, op, file, todo, status, released>>

WriteStart(w) ==
    /\ At(w, "inside")
    /\ op[w] \in {"WRITE", "APPEND"}
    /\ ~MustWait(w)
    /\ writer' = [writer EXCEPT ![at[w]] = w]
    /\ Goto(w, "writing")
    /\ UNCHANGED <<locks, readers, table, job, status, released>>

WriteEnd(w) ==
    /\ At(w, "writing")
    /\ writer' = [writer EXCEPT ![at[w]] = Nobody]
    /\ UnlockBoth(at[w])
    /\ storagemtx' = Nobody
    /\ Leave(w)
    /\ UNCHANGED <<readers, table, status, released>>

-----------------------------------------------------------------------------
(* EXIT visits a file: mtx before ordering.                                *)
ExitNext(w) ==
    /\ In(w, "start", "EXIT")
    /\ \/ /\ todo[w] = <<>>
          /\ storagemtx' = Nobody
          /\ Leave(w)
          /\ UNCHANGED <<ordering, mtx, counts, table, status, released>>
       \/ /\ todo[w] # <<>>
          /\ Head(todo[w]) \in stored
          /\ at' = [at EXCEPT ![w] = Head(todo[w])]
          /\ Goto(w, "exitmtx")
          /\ UNCHANGED <<locks, counts, table, op, file, todo, status, released>>
       \/ /\ todo[w] # <<>>
          /\ Head(todo[w]) \notin stored
          /\ Die("unlisted")

ExitMtx(w) ==
    /\ At(w, "exitmtx")
    /\ at[w] \notin freed
    /\ mtx[at[w]] = Nobody
    /\ mtx' = [mtx EXCEPT ![at[w]] = w]
    /\ Goto(w, "exitordering")
    /\ UNCHANGED <<storagemtx, ordering, counts, table, job, status, released>>

ExitOrdering(w) ==
    /\ At(w, "exitordering")
    /\ ordering[at[w]] = Nobody
    /\ ordering' = [ordering EXCEPT ![at[w]] = w]
    /\ Goto(w, "inside")
    /\ UNCHANGED <<storagemtx, mtx, counts, table, job, status, released>>

(* It tells the sleepers if it gives up a lock of its client.              *)
ExitVisit(w) ==
    /\ Proceed(w, "EXIT")
    /\ \E q \in {pc, Broadcast(at[w])} : pc' = [q EXCEPT ![w] = "start"]
    /\ UnlockBoth(at[w])
    /\ todo' = [todo EXCEPT ![w] = Tail(@)]
    /\ at' = [at EXCEPT ![w] = NoFile]
    /\ UNCHANGED <<storagemtx, counts, table, op, file, status, released>>

Locking(w) ==
    \/ LockOrdering(w) \/ LockMtx(w) \/ Sleep(w) \/ Resume(w) \/ ExitMtx(w) \/ ExitOrdering(w)

Handling(w) ==
    \/ OpenFile(w) \/ CloseFile(w) \/ ReadDenied(w) \/ ReadStart(w) \/ ReadEnd(w)
    \/ LockFile(w) \/ LockDenied(w) \/ UnlockFile(w) \/ UnlockDenied(w)
    \/ RemoveFile(w) \/ FreeFile(w) \/ CreateEvict(w) \/ CreateInsert(w) \/ ReadNFiles(w)
    \/ EvictStart(w) \/ EvictEnd(w) \/ AppendEvict(w) \/ Fill(w) \/ WriteStart(w) \/ WriteEnd(w)
    \/ ExitNext(w) \/ ExitVisit(w) \/ UseFreed(w)

Beginning(w) ==
    \/ \E o \in Ops, f \in Files : BeginFile(w, o, f) \/ BeginFill(w, o, f)
    \/ \E f \in Files : BeginCreate(w, f)
    \/ BeginReadN(w)
    \/ BeginExit(w)
    \/ BeginNothing(w)

Next == \E w \in Workers : Beginning(w) \/ Locking(w) \/ Handling(w) \/ SpuriousWake(w)

Spec == Init /\ [][Next]_vars

-----------------------------------------------------------------------------
(* The types of the mutexes, of the fields of File and of the workers.     *)
TypeOK ==
    /\ storagemtx \in Workers \cup {Nobody, Left}
    /\ ordering \in [Files -> Workers \cup {Nobody}]
    /\ mtx \in [Files -> Workers \cup {Nobody}]
    /\ readers \in [Files -> Nat]
    /\ writer \in [Files -> Workers \cup {Nobody}]
    /\ stored \subseteq Files
    /\ filepaths \in Seq(Files)
    /\ gone \subseteq Files
    /\ freed \subseteq Files
    /\ pc \in [Workers -> Places]
    /\ op \in [Workers -> Ops]
    /\ file \in [Workers -> Files \cup {NoFile}]
    /\ at \in [Workers -> Files \cup {NoFile}]
    /\ todo \in [Workers -> Seq(Files)]
    /\ status \in Ends \cup {"running"}
    /\ released \in BOOLEAN

(* Worker w is in code that storagemtx, or the locks of File f, guard.     *)
InStorage(w) ==
    /\ pc[w] \notin {"idle", "sending"}
    /\ op[w] \in Releasing => pc[w] \in {"ordering", "mtx"}

InOrdering(w, f) ==
    at[w] = f /\ pc[w] \in {"mtx", "inside", "asleep", "woken", "writing"}

InMtx(w, f) == at[w] = f /\ pc[w] \in {"inside", "writing", "exitordering"}

(* Until a WRITE evicts, storagemtx keeps its promise: two workers are     *)
(* never both between its lock and its unlock, and every path through a    *)
(* handler gives it back (server.c:266 and its 30 unlocks); a worker that  *)
(* has gone on with it locked was in no handler (server.c:268), and from   *)
(* then on nobody is between lock and unlock.  The eviction loop unlocks   *)
(* it in every round and WRITE once more at its end (server.c:642, 668),   *)
(* after which it excludes nobody.                                         *)
StorageExclusive ==
    ~released => \A w \in Workers : InStorage(w) <=> storagemtx = w

(* A request with code 0 ends the service: until a WRITE has evicted, what *)
(* the handlers that are under way unlock never frees the storagemtx that  *)
(* it leaves locked (comms.c:195, server.c:266-268), and no such WRITE can *)
(* begin any more.                                                         *)
JamStep ==
    ~released /\ storagemtx = Left => storagemtx' = Left /\ ~released'

JammedForGood == [][JamStep]_vars

(* On every path through the handlers, also through those of the eviction  *)
(* loop, the mutexes of a File are held exactly by the worker that is      *)
(* between their lock and their unlock, so there is never more than one.   *)
LocksAccounted ==
    \A f \in Files : \A w \in Workers :
        /\ InOrdering(w, f) <=> ordering[f] = w
        /\ InMtx(w, f) <=> mtx[f] = w

(* readers counts the workers that send the contents of the file, and a    *)
(* file has a writer only while mtx is held: nobody who tests writer under *)
(* mtx ever finds one, so READ never waits and the signal of a reader that *)
(* leaves is never sent (server.c:478, 500, 652).                          *)
Sending(f) == {w \in Workers : pc[w] = "sending" /\ at[w] = f}

ReadersCounted ==
    \A f \in Files :
        /\ readers[f] = Cardinality(Sending(f))
        /\ writer[f] # Nobody => mtx[f] = writer[f] /\ pc[writer[f]] = "writing"

(* The locks of the Files implement exclusion of readers and writers: a    *)
(* WRITE or an APPEND fills a file while nobody sends it, a READ begins    *)
(* while nobody fills it, no access begins once the memory is freed, and   *)
(* no memory is freed twice or under a writer, all of it also after        *)
(* storagemtx has been given up (server.c:477-500, 648-666, 825-838).  A   *)
(* READ counts as an access until it has counted itself out, longer than   *)
(* it reads the contents: it copies them before it unlocks (server.c:488). *)
(* READN and the evictions of OPEN, which copy without these locks         *)
(* (server.c:300, 541), are not accesses here.                             *)
Writing(f) == {w \in Workers : pc[w] = "writing" /\ at[w] = f}

Contents == INSTANCE ReadersWriters WITH
    reading <- [f \in Files |-> Sending(f)],
    writing <- [f \in Files |-> Writing(f)]
ImplementsReadersWriters == Contents!Spec

(* While REMOVE frees a file no other worker works on it or has a pointer  *)
(* to it (server.c:825-838), as long as storagemtx keeps its promise.      *)
RemovedUnused ==
    \A w \in Workers :
        ~released /\ pc[w] = "freeing" /\ op[w] = "REMOVE" =>
            \A v \in Workers \ {w} : at[w] \notin {at[v], file[v]}

(* A pointer to freed memory is left only with a reader that sends a file  *)
(* which an OPEN evicts meanwhile (server.c:331, 491-500), or after a      *)
(* WRITE has given up storagemtx.                                          *)
DanglingReaders ==
    \A w \in Workers :
        {at[w], file[w]} \cap freed # {} => released \/ pc[w] = "sending"

(* Nobody wakes a worker that sleeps on writecond: the broadcasts of       *)
(* CLOSE, LOCK, UNLOCK and EXIT need the ordering that the sleeper keeps,  *)
(* and a reader that leaves sees no writer to signal for (server.c:500).   *)
WakeStep ==
    \A w \in Workers : pc[w] = "asleep" => pc'[w] = "asleep" \/ SpuriousWake(w)

SleepersStay == [][WakeStep]_vars

(* If workers are inside handlers and none of them can go on, then one of  *)
(* them sleeps on writecond, or one that woke by itself faces an EXIT,     *)
(* which takes mtx before ordering (server.c:959), or a WRITE has given up *)
(* storagemtx: there is no other deadlock.  A worker that waits for        *)
(* storagemtx has not begun its handler and is not among them: see         *)
(* StorageExclusive and JammedForGood.                                     *)
CanStep(w) ==
    CASE pc[w] = "asleep" -> FALSE
      [] pc[w] \in {"mtx", "woken"} -> mtx[at[w]] = Nobody
      [] pc[w] = "ordering" -> at[w] \in freed \/ ordering[at[w]] = Nobody
      [] pc[w] = "exitordering" -> ordering[at[w]] = Nobody
      [] pc[w] \in {"exitmtx", "sending"} -> at[w] \in freed \/ mtx[at[w]] = Nobody
      [] pc[w] = "freeing" -> \A v \in Workers : pc[v] = "asleep" => at[v] # at[w]
      [] OTHER -> TRUE

Busy == {w \in Workers : pc[w] # "idle"}

DeadlocksKnown ==
    (status = "running" /\ Busy # {} /\ \A w \in Busy : ~CanStep(w)) =>
        \/ released
        \/ \E w \in Busy : pc[w] = "asleep"
        \/ \E v, w \in Busy : pc[v] = "woken" /\ pc[w] = "exitordering" /\ at[v] = at[w]
=============================================================================
