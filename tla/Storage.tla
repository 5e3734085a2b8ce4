------------------------------- MODULE Storage -------------------------------
(***************************************************************************)
(* The storage of the server (storage.c) and the ten request handlers that *)
(* work on it (work() in server.c), as a single worker runs them: one      *)
(* request is read, handled and answered before the next.  Only the        *)
(* eviction loop of WRITE is split, one step per evicted file.             *)
(*                                                                         *)
(* The hash table is the set of stored paths with the fields of each File  *)
(* beside it; the fields of a path that is not stored have their initial   *)
(* values.  Of the contents of a file only the size is kept.  Clients are  *)
(* file descriptors: positive, and 0 is nobody, as in the code.            *)
(*                                                                         *)
(* Whatever ends the process (the PERR macros, a null pointer, the first   *)
(* write through a dangling pointer that hurts) or blocks it for ever is a *)
(* value of status; nothing happens after it.                              *)
(***************************************************************************)
EXTENDS Integers, FiniteSets, LinkedLists

CONSTANTS
    Clients,        \* the fds accept can return
    Paths,          \* the names of files
    MaxFiles,       \* the configured limits: storage->maxfiles
    MaxSize,        \* and storage->maxsize
    Sizes,          \* the data sizes of the requests
    Counts,         \* the N of the readNFiles requests
    MaxOpens,       \* bound: nodes in the list of openers of one file
    NoPath,         \* the path of a reply about no path
    NoWrite         \* no WRITE is in its eviction loop

ASSUME ClientsAssumption == Clients \subseteq Nat \ {0}
ASSUME LimitsAssumption == MaxFiles \in Nat /\ MaxSize \in Nat
ASSUME SizesAssumption == Sizes \subseteq Nat /\ Counts \subseteq Nat
ASSUME BoundsAssumption == MaxOpens \in Nat
ASSUME NoPathAssumption == NoPath \notin Paths

VARIABLES
    hashtable,      \* the paths in the hash table
    datasize, creator, locker, openers, lockwaiters,  \* the fields of their Files
    filepaths,      \* the FIFO list of paths, oldest first
    currfiles,      \* the two counters of storage
    currsize,
    conn,           \* the connected clients
    writing,        \* the WRITE request whose eviction loop runs
    sent,           \* the replies of the last step
    status          \* "running", or what ended the process

fields == <<datasize, creator, locker, openers, lockwaiters>>
store == <<hashtable, fields, filepaths, currfiles, currsize>>
vars == <<store, conn, writing, sent, status>>

Ends == {"noevictable",  \* eviction finds no path, or a path that is not stored
         "appendevict",  \* APPEND fails to delete the file it evicts
         "lockwait",     \* LOCK answers a waiter with no response
         "deadclient",   \* a reply cannot be written
         "nullptr",      \* a null pointer is dereferenced
         "undefined",    \* memory is corrupted
         "stuck"}        \* storagemtx is never released

Codes == {"OK", "DENIED", "NOTFOUND", "ALREADYEXISTS", "NOMEM", "BADREQ"}
Ops == {"OPEN", "CLOSE", "READ", "READN", "WRITE", "APPEND", "REMOVE", "LOCK", "UNLOCK", "EXIT"}
Replies == [to : Clients, op : Ops, path : Paths \cup {NoPath}, code : Codes, files : Seq(Paths)]
Writes == [client : Clients, path : Paths, size : Nat, evicted : Seq(Paths)]

ASSUME NoWriteAssumption == NoWrite \notin Writes

Init ==
    /\ hashtable = {}
    /\ datasize = [p \in Paths |-> 0]
    /\ creator = [p \in Paths |-> 0]
    /\ locker = [p \in Paths |-> 0]
    /\ openers = [p \in Paths |-> EmptyList]
    /\ lockwaiters = [p \in Paths |-> EmptyList]
    /\ filepaths = EmptyList
    /\ currfiles = 0
    /\ currsize = 0
    /\ conn = {}
    /\ writing = NoWrite
    /\ sent = {}
    /\ status = "running"

-----------------------------------------------------------------------------
(* A worker may take up a request of client c.                             *)
Serving(c) == status = "running" /\ c \in conn /\ writing = NoWrite

Reply(c, op, p, code, files) ==
    [to |-> c, op |-> op, path |-> p, code |-> code, files |-> files]

(* The handler only answers.                                               *)
Answer(c, op, p, code, files) ==
    /\ sent' = {Reply(c, op, p, code, files)}
    /\ UNCHANGED <<store, conn, writing, status>>

(* The process ends or blocks in the middle of a handler.                  *)
Die(why) ==
    /\ status' = why
    /\ sent' = {}
    /\ UNCHANGED <<store, conn, writing>>

(* A write through the dangling tail of a list loses the new element, and  *)
(* may corrupt whatever has been allocated there since.                    *)
MayCorrupt(b) == status' \in IF b THEN {"running", "undefined"} ELSE {"running"}

IsOpener(p, c) == c \in Elements(openers[p])

MayLockAnything(p, c) == TRUE                       \* mutant: no test of the locker
MayLock(p, c) == locker[p] \in {0, c}

(* The two capacity tests: for one more file, and for n more bytes.        *)
TooManyLate == currfiles > MaxFiles                 \* mutant: off by one
TooMany == currfiles + 1 > MaxFiles

TooBigLate(n) == currsize > MaxSize                 \* mutant: n is forgotten
TooBigEarly(n) == currsize + n >= MaxSize           \* mutant: an exact fit is refused
TooBig(n) == currsize + n > MaxSize

(* The head of the FIFO can be evicted: the list is not empty, and the     *)
(* hash table knows the path.                                              *)
HasVictim == filepaths.items # <<>> /\ Head(filepaths.items) \in hashtable
Victim == Head(filepaths.items)

(* The byte counter without the victim.                                    *)
FreedMore == currsize - datasize[Victim] - 1        \* mutant: a terminator is counted, too
Freed == currsize - datasize[Victim]

(* The clients that wait to lock p are told that it is gone.               *)
WaitersToldGone(p) ==
    {Reply(w, "LOCK", p, "NOTFOUND", <<>>) : w \in Elements(lockwaiters[p])}

(* The function f with value v at the paths of S.                          *)
ResetNothing(f, S, v) == f                          \* mutant: stale fields
Reset(f, S, v) == [q \in Paths |-> IF q \in S THEN v ELSE f[q]]

(* The Files of the paths in S are freed or leaked.                        *)
Forget(S) ==
    /\ hashtable' = hashtable \ S
    /\ datasize' = Reset(datasize, S, 0)
    /\ creator' = Reset(creator, S, 0)
    /\ locker' = Reset(locker, S, 0)
    /\ openers' = Reset(openers, S, EmptyList)
    /\ lockwaiters' = Reset(lockwaiters, S, EmptyList)

-----------------------------------------------------------------------------
(* accept returns the lowest fd that is free.                              *)
Accept(c) ==
    /\ status = "running"
    /\ c \notin conn
    /\ \A d \in Clients \ conn : c <= d
    /\ conn' = conn \cup {c}
    /\ sent' = {}
    /\ UNCHANGED <<store, writing, status>>

(* The server notices that a client vanished without REQ_EXIT.  A worker   *)
(* that reads its end of file finds request code 0, for which the switch   *)
(* has no case and no unlock of storagemtx; a worker that answers it gets  *)
(* EPIPE and exits.                                                        *)
ClientDies(c) ==
    /\ status = "running"
    /\ c \in conn
    /\ status' \in {"stuck", "deadclient"}
    /\ sent' = {}
    /\ UNCHANGED <<store, conn, writing>>

(* OPEN stores a new File, in place of those in gone, rest being what is   *)
(* left of the FIFO.                                                       *)
StoreNew(c, p, lock, gone, rest) ==
    /\ hashtable' = (hashtable \ gone) \cup {p}
    /\ datasize' = Reset(datasize, gone \cup {p}, 0)
    /\ creator' = [Reset(creator, gone, 0) EXCEPT ![p] = c]
    /\ locker' = [Reset(locker, gone, 0) EXCEPT ![p] = IF lock THEN c ELSE 0]
    /\ openers' = [Reset(openers, gone, EmptyList) EXCEPT ![p] = PutLast(EmptyList, c)]
    /\ lockwaiters' = Reset(lockwaiters, gone \cup {p}, EmptyList)
    /\ filepaths' = PutLast(rest, p)
    /\ MayCorrupt(Dangling(rest))
    /\ UNCHANGED <<conn, writing>>

(* OPEN with O_CREATE, or with O_BOTH when lock holds.                     *)
OpenCreate(c, p, lock) ==
    /\ Serving(c)
    /\ \/ /\ p \in hashtable
          /\ Answer(c, "OPEN", p, "ALREADYEXISTS", <<>>)
       \/ /\ p \notin hashtable
          /\ ~TooMany
          /\ StoreNew(c, p, lock, {}, filepaths)
          /\ currfiles' = currfiles + 1
          /\ currsize' = currsize
          /\ sent' = {Reply(c, "OPEN", p, "OK", <<>>)}
       \/ /\ p \notin hashtable
          /\ TooMany
          /\ HasVictim
          /\ StoreNew(c, p, lock, {Victim}, DropFirst(filepaths))
          /\ currfiles' = currfiles
          /\ currsize' = Freed
          /\ sent' = {Reply(c, "OPEN", p, "OK", <<Victim>>)} \cup WaitersToldGone(Victim)
       \/ /\ p \notin hashtable
          /\ TooMany
          /\ ~HasVictim
          /\ Die("noevictable")

(* OPEN with O_NONE, or with O_LOCK when lock holds: O_LOCK is denied even *)
(* to the client that holds the lock.                                      *)
OpenExisting(c, p, lock) ==
    /\ Serving(c)
    /\ Len(openers[p].items) < MaxOpens
    /\ LET allowed == IF lock THEN locker[p] = 0 ELSE MayLock(p, c)
       IN  \/ /\ p \notin hashtable
              /\ Answer(c, "OPEN", p, "NOTFOUND", <<>>)
           \/ /\ p \in hashtable
              /\ ~allowed
              /\ Answer(c, "OPEN", p, "DENIED", <<>>)
           \/ /\ p \in hashtable
              /\ allowed
              /\ locker' = IF lock THEN [locker EXCEPT ![p] = c] ELSE locker
              /\ openers' = [openers EXCEPT ![p] = PutLast(@, c)]
              /\ MayCorrupt(Dangling(openers[p]))
              /\ sent' = {Reply(c, "OPEN", p, "OK", <<>>)}
              /\ UNCHANGED <<hashtable, datasize, creator, lockwaiters>>
              /\ UNCHANGED <<filepaths, currfiles, currsize, conn, writing>>

(* OPEN with any other flags.                                              *)
OpenBadFlags(c, p) == Serving(c) /\ Answer(c, "OPEN", p, "BADREQ", <<>>)

(* CLOSE: the client need not have the file open.                          *)
CloseFile(c, p) ==
    /\ Serving(c)
    /\ \/ /\ p \notin hashtable
          /\ Answer(c, "CLOSE", p, "NOTFOUND", <<>>)
       \/ /\ p \in hashtable
          /\ RemoveFdFaults(openers[p], c)
          /\ Die("nullptr")
       \/ /\ p \in hashtable
          /\ ~RemoveFdFaults(openers[p], c)
          /\ openers' = [openers EXCEPT ![p] = removeFd(@, c)]
          /\ sent' = {Reply(c, "CLOSE", p, "OK", <<>>)}
          /\ UNCHANGED <<hashtable, datasize, creator, locker, lockwaiters>>
          /\ UNCHANGED <<filepaths, currfiles, currsize, conn, writing, status>>

(* READ.                                                                   *)
ReadFile(c, p) ==
    /\ Serving(c)
    /\ \/ /\ p \notin hashtable
          /\ Answer(c, "READ", p, "NOTFOUND", <<>>)
       \/ /\ p \in hashtable
          /\ ~(IsOpener(p, c) /\ MayLock(p, c))
          /\ Answer(c, "READ", p, "DENIED", <<>>)
       \/ /\ p \in hashtable
          /\ IsOpener(p, c) /\ MayLock(p, c)
          /\ Answer(c, "READ", p, "OK", <<p>>)

(* READN: the first n files of the FIFO, or all of them when n is 0.       *)
ReadNFiles(c, n) ==
    /\ Serving(c)
    /\ \/ /\ currfiles = 0
          /\ Answer(c, "READN", NoPath, "NOTFOUND", <<>>)
       \/ /\ currfiles # 0
          /\ LET all == filepaths.items
             IN  Answer(c, "READN", NoPath, "OK",
                        IF n = 0 \/ n >= Len(all) THEN all ELSE SubSeq(all, 1, n))

(* WRITE of n bytes, up to its eviction loop: only the creator of a file   *)
(* that is still empty may do it.                                          *)
MayWrite(c, p) ==
    datasize[p] = 0 /\ creator[p] = c /\ IsOpener(p, c) /\ MayLock(p, c)

WriteFile(c, p, n) ==
    /\ Serving(c)
    /\ \/ /\ n > MaxSize
          /\ Answer(c, "WRITE", p, "NOMEM", <<>>)
       \/ /\ n <= MaxSize
          /\ p \notin hashtable
          /\ Answer(c, "WRITE", p, "NOTFOUND", <<>>)
       \/ /\ n <= MaxSize
          /\ p \in hashtable
          /\ ~MayWrite(c, p)
          /\ Answer(c, "WRITE", p, "DENIED", <<>>)
       \/ /\ n <= MaxSize
          /\ p \in hashtable
          /\ MayWrite(c, p)
          /\ writing' = [client |-> c, path |-> p, size |-> n, evicted |-> <<>>]
          /\ sent' = {}
          /\ UNCHANGED <<store, conn, status>>

(* The list of evicted files that the answer will carry.                   *)
ReportedLast == <<Victim>>                          \* mutant: a new list in every round
Reported == Append(writing.evicted, Victim)

(* One round of the loop: the oldest file goes, be it the one written to.  *)
EvictOne ==
    /\ status = "running"
    /\ writing # NoWrite
    /\ TooBig(writing.size)
    /\ \/ /\ HasVictim
          /\ Forget({Victim})
          /\ filepaths' = DropFirst(filepaths)
          /\ currsize' = Freed
          /\ currfiles' = currfiles - 1
          /\ writing' = [writing EXCEPT !.evicted = Reported]
          /\ sent' = WaitersToldGone(Victim)
          /\ UNCHANGED <<conn, status>>
       \/ /\ ~HasVictim
          /\ Die("noevictable")

(* The data fits: it goes into the File, which may have been evicted from  *)
(* the table meanwhile.  An empty request has no data to take strlen of.   *)
FinishWrite ==
    /\ status = "running"
    /\ writing # NoWrite
    /\ ~TooBig(writing.size)
    /\ \/ /\ writing.size = 0
          /\ Die("nullptr")
       \/ /\ writing.size > 0
          /\ LET p == writing.path
             IN  /\ IF p \in hashtable
                    THEN /\ datasize' = [datasize EXCEPT ![p] = writing.size]
                         /\ creator' = [creator EXCEPT ![p] = 0]
                    ELSE UNCHANGED <<datasize, creator>>
                 /\ sent' = {Reply(writing.client, "WRITE", p, "OK", writing.evicted)}
          /\ currsize' = currsize + writing.size
          /\ writing' = NoWrite
          /\ UNCHANGED <<hashtable, locker, openers, lockwaiters>>
          /\ UNCHANGED <<filepaths, currfiles, conn, status>>

(* APPEND of n bytes.  Its eviction passes the File itself as the key to   *)
(* delete, which the table does not have.  The strcat runs past a buffer   *)
(* that was allocated for what is already there; without data to append it *)
(* reads from a null pointer.                                              *)
MayAppendEarly(c, p) == IsOpener(p, c) /\ MayLock(p, c)  \* mutant: before WRITE
MayAppend(c, p) == creator[p] = 0 /\ IsOpener(p, c) /\ MayLock(p, c)

AppendToFile(c, p, n) ==
    /\ Serving(c)
    /\ \/ /\ n > MaxSize
          /\ Answer(c, "APPEND", p, "NOMEM", <<>>)
       \/ /\ n <= MaxSize
          /\ p \notin hashtable
          /\ Answer(c, "APPEND", p, "NOTFOUND", <<>>)
       \/ /\ n <= MaxSize
          /\ p \in hashtable
          /\ ~MayAppend(c, p)
          /\ Answer(c, "APPEND", p, "DENIED", <<>>)
       \/ /\ n <= MaxSize
          /\ p \in hashtable
          /\ MayAppend(c, p)
          /\ TooBig(n)
          /\ Die(IF HasVictim THEN "appendevict" ELSE "noevictable")
       \/ /\ n <= MaxSize
          /\ p \in hashtable
          /\ MayAppend(c, p)
          /\ ~TooBig(n)
          /\ n = 0
          /\ Die("nullptr")
       \/ /\ n <= MaxSize
          /\ p \in hashtable
          /\ MayAppend(c, p)
          /\ ~TooBig(n)
          /\ n # 0
          /\ datasize' = [datasize EXCEPT ![p] = @ + n]
          /\ currsize' = currsize + n
          /\ MayCorrupt(TRUE)
          /\ sent' = {Reply(c, "APPEND", p, "OK", <<>>)}
          /\ UNCHANGED <<hashtable, creator, locker, openers, lockwaiters>>
          /\ UNCHANGED <<filepaths, currfiles, conn, writing>>

(* REMOVE: neither counter is told.                                        *)
RemoveFile(c, p) ==
    /\ Serving(c)
    /\ \/ /\ p \notin hashtable
          /\ Answer(c, "REMOVE", p, "NOTFOUND", <<>>)
       \/ /\ p \in hashtable
          /\ ~MayLock(p, c)
          /\ Answer(c, "REMOVE", p, "DENIED", <<>>)
       \/ /\ p \in hashtable
          /\ MayLock(p, c)
          /\ DeletePathFaults(filepaths, p)
          /\ Die("nullptr")
       \/ /\ p \in hashtable
          /\ MayLock(p, c)
          /\ ~DeletePathFaults(filepaths, p)
          /\ Forget({p})
          /\ filepaths' = deleteFilepathNode(filepaths, p)
          /\ sent' = {Reply(c, "REMOVE", p, "OK", <<>>)}
          /\ UNCHANGED <<currfiles, currsize, conn, writing, status>>

(* LOCK: a client that finds the file locked by another joins its waiters, *)
(* and then the handler sends a response that it never made.               *)
LockFile(c, p) ==
    /\ Serving(c)
    /\ \/ /\ p \notin hashtable
          /\ Answer(c, "LOCK", p, "NOTFOUND", <<>>)
       \/ /\ p \in hashtable
          /\ ~MayLock(p, c)
          /\ lockwaiters' = [lockwaiters EXCEPT ![p] = PutLast(@, c)]
          /\ status' = "lockwait"
          /\ sent' = {}
          /\ UNCHANGED <<hashtable, datasize, creator, locker, openers>>
          /\ UNCHANGED <<filepaths, currfiles, currsize, conn, writing>>
       \/ /\ p \in hashtable
          /\ MayLock(p, c)
          /\ locker' = [locker EXCEPT ![p] = c]
          /\ sent' = {Reply(c, "LOCK", p, "OK", <<>>)}
          /\ UNCHANGED <<hashtable, datasize, creator, openers, lockwaiters>>
          /\ UNCHANGED <<filepaths, currfiles, currsize, conn, writing, status>>

(* UNLOCK hands the lock to the first waiter; without one the file stays   *)
(* locked and the client is told OK.                                       *)
UnlockFile(c, p) ==
    /\ Serving(c)
    /\ \/ /\ p \notin hashtable
          /\ Answer(c, "UNLOCK", p, "NOTFOUND", <<>>)
       \/ /\ p \in hashtable
          /\ locker[p] # c
          /\ Answer(c, "UNLOCK", p, "DENIED", <<>>)
       \/ /\ p \in hashtable
          /\ locker[p] = c
          /\ IF lockwaiters[p].items # <<>>
             THEN LET w == Head(lockwaiters[p].items)
                  IN  /\ locker' = [locker EXCEPT ![p] = w]
                      /\ lockwaiters' = [lockwaiters EXCEPT ![p] = DropFirst(@)]
                      /\ sent' = {Reply(w, "LOCK", p, "OK", <<>>), Reply(c, "UNLOCK", p, "OK", <<>>)}
             ELSE /\ sent' = {Reply(c, "UNLOCK", p, "OK", <<>>)}
                  /\ UNCHANGED <<locker, lockwaiters>>
          /\ UNCHANGED <<hashtable, datasize, creator, openers>>
          /\ UNCHANGED <<filepaths, currfiles, currsize, conn, writing, status>>

(* EXIT visits the files of the FIFO: it gives up the locks of the client, *)
(* and takes it out of the openers and the waiters, once each.             *)
Handed(c, p) == locker[p] = c /\ lockwaiters[p].items # <<>>
WaitersLeft(c, p) == IF Handed(c, p) THEN DropFirst(lockwaiters[p]) ELSE lockwaiters[p]

HeirIfAny(c, p) ==                                  \* mutant: locker is not cleared
    IF Handed(c, p) THEN Head(lockwaiters[p].items) ELSE locker[p]
HeirUntested(c, p) ==                               \* mutant: the -1 of getFirstFd is stored
    IF Handed(c, p) THEN Head(lockwaiters[p].items) ELSE -1
Heir(c, p) == IF Handed(c, p) THEN Head(lockwaiters[p].items) ELSE 0

ExitFaults(c) ==
    \E p \in Elements(filepaths) :
        \/ p \notin hashtable
        \/ RemoveFdFaults(openers[p], c)
        \/ RemoveFdFaults(WaitersLeft(c, p), c)

CloseConnection(c) ==
    /\ Serving(c)
    /\ \/ /\ ExitFaults(c)
          /\ Die("nullptr")
       \/ /\ ~ExitFaults(c)
          /\ LET visited == Elements(filepaths)
             IN  /\ locker' = [p \in Paths |->
                        IF p \in visited /\ locker[p] = c THEN Heir(c, p) ELSE locker[p]]
                 /\ openers' = [p \in Paths |->
                        IF p \in visited THEN removeFd(openers[p], c) ELSE openers[p]]
                 /\ lockwaiters' = [p \in Paths |->
                        IF p \in visited THEN removeFd(WaitersLeft(c, p), c) ELSE lockwaiters[p]]
                 /\ sent' = {Reply(c, "EXIT", NoPath, "OK", <<>>)}
                      \cup {Reply(Heir(c, p), "LOCK", p, "OK", <<>>) :
                                p \in {q \in visited : Handed(c, q)}}
          /\ conn' = conn \ {c}
          /\ UNCHANGED <<hashtable, datasize, creator, filepaths, currfiles, currsize>>
          /\ UNCHANGED <<writing, status>>

Next ==
    \/ \E c \in Clients : Accept(c)
    \/ \E c \in Clients : ClientDies(c)
    \/ \E c \in Clients, p \in Paths, lock \in BOOLEAN : OpenCreate(c, p, lock)
    \/ \E c \in Clients, p \in Paths, lock \in BOOLEAN : OpenExisting(c, p, lock)
    \/ \E c \in Clients, p \in Paths : OpenBadFlags(c, p)
    \/ \E c \in Clients, p \in Paths : CloseFile(c, p)
    \/ \E c \in Clients, p \in Paths : ReadFile(c, p)
    \/ \E c \in Clients, n \in Counts : ReadNFiles(c, n)
    \/ \E c \in Clients, p \in Paths, n \in Sizes : WriteFile(c, p, n)
    \/ EvictOne
    \/ FinishWrite
    \/ \E c \in Clients, p \in Paths, n \in Sizes : AppendToFile(c, p, n)
    \/ \E c \in Clients, p \in Paths : RemoveFile(c, p)
    \/ \E c \in Clients, p \in Paths : LockFile(c, p)
    \/ \E c \in Clients, p \in Paths : UnlockFile(c, p)
    \/ \E c \in Clients : CloseConnection(c)

Spec == Init /\ [][Next]_vars

-----------------------------------------------------------------------------
(* The types of the fields of Storage and File (storage.h:39-78).          *)
TypeOK ==
    /\ hashtable \subseteq Paths
    /\ datasize \in [Paths -> Nat]
    /\ creator \in [Paths -> Clients \cup {0}]
    /\ locker \in [Paths -> Clients \cup {0}]
    /\ openers \in [Paths -> List(Clients)]
    /\ lockwaiters \in [Paths -> List(Clients)]
    /\ filepaths \in List(Paths)
    /\ currfiles \in Nat
    /\ currsize \in Int
    /\ conn \subseteq Clients
    /\ writing \in Writes \cup {NoWrite}
    /\ sent \subseteq Replies
    /\ status \in Ends \cup {"running"}

(* The FIFO names every file at most once and names only files that are in *)
(* the hash table: eviction, READN and EXIT never follow it to a path that *)
(* is gone (server.c:295, 538, 611 and 957).                               *)
IndexAgrees ==
    /\ Distinct(filepaths)
    /\ Elements(filepaths) \subseteq hashtable

(* The counter that decides on evictions never undercounts the files, so   *)
(* that there are never more of them than configured (server.c:293).       *)
FilesWithinCapacity ==
    Cardinality(hashtable) <= currfiles /\ currfiles <= MaxFiles

(* The byte counter never undercounts what the files hold, so that they    *)
(* never hold more than the configured size (server.c:607 and 727).        *)
Bytes(files, size) == UNION {{p} \X (1 .. size[p]) : p \in files}
TotalSize == Cardinality(Bytes(hashtable, datasize))

BytesWithinCapacity == TotalSize <= currsize /\ currsize <= MaxSize

(* A stored file has a creator exactly as long as it is empty: WRITE can   *)
(* fill it only once (server.c:583, 592) and APPEND never finds it without *)
(* a data buffer to strcat to (server.c:712, 771).                         *)
EmptyUntilWritten ==
    \A p \in hashtable : creator[p] = 0 <=> datasize[p] > 0

(* A file that the FIFO names is not locked by a client that has gone:     *)
(* EXIT has visited it (server.c:951-997), whatever was evicted, removed   *)
(* or created since the lock was taken.                                    *)
IndexedLockersConnected ==
    \A p \in Elements(filepaths) : locker[p] \in conn \cup {0}

(* Room that the counters have lost stays lost: what they count beyond the *)
(* files and bytes that are stored grows with every REMOVE and with every  *)
(* WRITE to a file that its own eviction took, and no open, eviction or    *)
(* EXIT ever gives any of it back (server.c:317-318, 343, 623-624, 662,    *)
(* 832-837).                                                               *)
LostFiles == currfiles - Cardinality(hashtable)
LostBytes == currsize - TotalSize

RoomLostForGood == [][LostFiles' >= LostFiles /\ LostBytes' >= LostBytes]_vars

(* An eviction that finds no file to evict, and ends the server, is always *)
(* the late effect of an earlier fault: a counter has lost room, or the    *)
(* FIFO a file.  A WRITE that evicts everything, its own file included,    *)
(* fits in the end (server.c:295, 565, 607-611, 731).                      *)
OnlyLossStarves ==
    status = "noevictable" /\ MaxFiles > 0 =>
        LostFiles > 0 \/ LostBytes > 0 \/ ~(hashtable \subseteq Elements(filepaths))

(* The FIFO is one: no step changes the order of two files that stay in    *)
(* it, a new file goes behind all of them, and a file that leaves the      *)
(* storage is the oldest one that the FIFO names unless it was removed,    *)
(* whatever the list has lost at its tail (storage.c:226-302,              *)
(* server.c:295, 608, 834).                                                *)
FifoStep ==
    LET old == Elements(filepaths)
        new == Elements(filepaths')
    IN  /\ \A p, q \in old \cap new : Before(filepaths, p, q) => Before(filepaths', p, q)
        /\ \A p \in old \cap new, q \in new \ old : Before(filepaths', p, q)
        /\ \A p \in hashtable \ hashtable' :
               \/ \E r \in sent' : r.op = "REMOVE" /\ r.path = p
               \/ p \in old /\ \A q \in old \ {p} : Before(filepaths, p, q)

EvictsInOrder == [][FifoStep]_vars

(* While a client holds the lock of a file, a step that changes its size,  *)
(* gives its lock away or removes it is an answer to that client; only the *)
(* eviction of the oldest file does not ask (server.c:594, 714, 817).      *)
LockStep ==
    \A p \in hashtable : locker[p] # 0 =>
        \/ \E r \in sent' : r.to = locker[p] /\ r.code = "OK"
        \/ /\ p \in hashtable'
           /\ datasize'[p] = datasize[p]
           /\ locker'[p] = locker[p]
        \/ p = Head(filepaths.items) /\ filepaths'.items = Tail(filepaths.items)
        \/ p = Head(filepaths.items) /\ \E r \in sent' : r.op = "OPEN" /\ r.files = <<p>>

LockProtects == [][LockStep]_vars

(* A file leaves the storage only by a REMOVE answered OK, or by an        *)
(* eviction that is reported: in the answer to the OPEN that caused it, or *)
(* in the list that the answer to the WRITE carries, complete, when its    *)
(* loop is over (server.c:300, 621, 645).                                  *)
ReportedLoss ==
    \A p \in hashtable \ hashtable' :
        \/ \E r \in sent' : r.op = "REMOVE" /\ r.path = p /\ r.code = "OK"
        \/ \E r \in sent' : p \in ToSet(r.files)
        \/ writing' # NoWrite /\ p \in ToSet(writing'.evicted)

ListCarried ==
    writing # NoWrite /\ status' = "running" =>
        \/ writing' # NoWrite /\ ToSet(writing.evicted) \subseteq ToSet(writing'.evicted)
        \/ \E r \in sent' : r.to = writing.client /\ r.files = writing.evicted

NoSilentLoss == [][ReportedLoss /\ ListCarried]_vars

(* The storage implements the abstract store of files.                     *)
Abstract == INSTANCE FileStore WITH size <- [p \in hashtable |-> datasize[p]]
ImplementsFileStore == Abstract!Spec

-----------------------------------------------------------------------------
(* What the documents say and the code does not do.                        *)

(* The FIFO and the hash table are updated together and hold the same      *)
(* files (RelazioneSOL.pdf, page 2).  An append behind the dangling tail   *)
(* that a removal leaves is lost.                                          *)
IndexComplete == status = "running" => hashtable = Elements(filepaths)

(* After an UNLOCK answered OK the file is no longer locked by the client  *)
(* that asked: "readable/writable" for the others (server.c:924).          *)
UnlockReleases ==
    \A r \in sent : r.op = "UNLOCK" /\ r.code = "OK" => locker[r.path] # r.to

(* A client can wait to lock a file (storage.h:52) and the server goes on. *)
LockWaitersWait ==
    (\E p \in hashtable : lockwaiters[p].items # <<>>) => status = "running"
=============================================================================
