---------------------------- MODULE Storage_proofs ----------------------------
(***************************************************************************)
(* The invariants of the storage, for any number of clients and files and  *)
(* any limits.  IInv is inductive: what the properties need beside each    *)
(* other is that the table is finite (so that its files can be counted),   *)
(* that nobody waits for a lock while the server runs (a waiter's handler  *)
(* has ended it), and that the file under a running WRITE is not locked    *)
(* by another client.                                                      *)
(***************************************************************************)
EXTENDS Storage, LinkedLists_proofs, FiniteSetTheorems

NoWaiters == status = "running" => \A p \in Paths : lockwaiters[p].items = <<>>

WriterMayLock ==
    writing # NoWrite /\ writing.path \in hashtable =>
        locker[writing.path] \in {0, writing.client}

IInv ==
    /\ TypeOK
    /\ IsFiniteSet(hashtable)
    /\ IndexAgrees
    /\ FilesWithinCapacity
    /\ EmptyUntilWritten
    /\ IndexedLockersConnected
    /\ NoWaiters
    /\ WriterMayLock

-----------------------------------------------------------------------------
(* The replies that the handlers build are replies.                        *)
LEMMA ReplyType ==
    ASSUME NEW c \in Clients, NEW op \in Ops, NEW p \in Paths \cup {NoPath},
           NEW code \in Codes, NEW files \in Seq(Paths)
    PROVE  Reply(c, op, p, code, files) \in Replies
  BY DEF Reply, Replies

LEMMA ToldGoneType ==
    ASSUME TypeOK, NEW p \in Paths
    PROVE  WaitersToldGone(p) \subseteq Replies
  <1>1. Elements(lockwaiters[p]) \subseteq Clients
    BY ElementsType DEF TypeOK
  <1>2. <<>> \in Seq(Paths)
    OBVIOUS
  <1>3. \A w \in Clients : Reply(w, "LOCK", p, "NOTFOUND", <<>>) \in Replies
    BY <1>2, ReplyType DEF Ops, Codes
  <1> QED BY <1>1, <1>3 DEF WaitersToldGone

(* The victim of an eviction is a stored file, and the rest of the FIFO    *)
(* does not name it.                                                       *)
LEMMA VictimFacts ==
    ASSUME IInv, HasVictim
    PROVE  /\ Victim \in hashtable
           /\ Victim \in Paths
           /\ Freed \in Int
           /\ DropFirst(filepaths) \in List(Paths)
           /\ Distinct(DropFirst(filepaths))
           /\ Elements(DropFirst(filepaths)) \subseteq Elements(filepaths) \ {Victim}
  <1>1. /\ filepaths \in List(Paths) /\ filepaths.items # <<>> /\ Distinct(filepaths)
        /\ Victim \in hashtable /\ hashtable \subseteq Paths
        /\ datasize \in [Paths -> Nat] /\ currsize \in Int
    BY DEF IInv, TypeOK, IndexAgrees, HasVictim, Victim
  <1>2. Freed \in Int
    BY <1>1 DEF Freed
  <1>3. /\ DropFirst(filepaths) \in List(Paths)
        /\ Elements(DropFirst(filepaths)) \subseteq Elements(filepaths)
        /\ Distinct(DropFirst(filepaths))
        /\ Victim \notin Elements(DropFirst(filepaths))
    BY <1>1, DropFirstList DEF Victim
  <1> QED BY <1>1, <1>2, <1>3

(* A step that answers, and no more.                                       *)
LEMMA QuietStep ==
    ASSUME IInv, sent' \subseteq Replies, UNCHANGED <<store, conn, writing, status>>
    PROVE  IInv'
  BY DEF IInv, TypeOK, IndexAgrees, FilesWithinCapacity, EmptyUntilWritten,
         IndexedLockersConnected, NoWaiters, WriterMayLock, store, fields

LEMMA AnswerStep ==
    ASSUME IInv,
           NEW c \in Clients, NEW op \in Ops, NEW p \in Paths \cup {NoPath},
           NEW code \in Codes, NEW files \in Seq(Paths),
           Answer(c, op, p, code, files)
    PROVE  IInv'
  <1>1. sent' \subseteq Replies /\ UNCHANGED <<store, conn, writing, status>>
    BY ReplyType DEF Answer
  <1> QED BY <1>1, QuietStep

(* A step that ends the process.                                           *)
LEMMA FatalStep ==
    ASSUME IInv, status' \in Ends, sent' = {}, UNCHANGED <<store, conn, writing>>
    PROVE  IInv'
  <1>1. status' # "running"
    BY DEF Ends
  <1>2. /\ hashtable' = hashtable /\ datasize' = datasize /\ creator' = creator
        /\ locker' = locker /\ openers' = openers /\ lockwaiters' = lockwaiters
        /\ filepaths' = filepaths /\ currfiles' = currfiles /\ currsize' = currsize
        /\ conn' = conn /\ writing' = writing
    BY DEF store, fields
  <1>3. TypeOK'
    BY <1>2 DEF IInv, TypeOK
  <1> QED BY <1>1, <1>2, <1>3 DEF IInv, IndexAgrees, FilesWithinCapacity, EmptyUntilWritten,
         IndexedLockersConnected, NoWaiters, WriterMayLock

LEMMA DieStep ==
    ASSUME IInv, NEW why \in Ends, Die(why)
    PROVE  IInv'
  BY FatalStep DEF Die

(* A step that leaves the table, the FIFO and the file counter alone.      *)
LEMMA SteadyStep ==
    ASSUME IInv, UNCHANGED <<hashtable, filepaths, currfiles>>,
           TypeOK', EmptyUntilWritten', IndexedLockersConnected', NoWaiters', WriterMayLock'
    PROVE  IInv'
  BY DEF IInv, IndexAgrees, FilesWithinCapacity

-----------------------------------------------------------------------------
(* What storing a new file preserves, whatever was evicted for it.         *)
LEMMA StoreNewStep ==
    ASSUME IInv, writing = NoWrite, status = "running",
           NEW c \in conn, NEW p \in Paths \ hashtable, NEW lock \in BOOLEAN,
           NEW gone, gone \subseteq hashtable,
           NEW rest \in List(Paths), Distinct(rest),
           Elements(rest) \subseteq Elements(filepaths) \ gone,
           StoreNew(c, p, lock, gone, rest),
           currsize' \in Int, currfiles' \in Nat, sent' \subseteq Replies,
           IsFiniteSet(hashtable'), FilesWithinCapacity'
    PROVE  IInv'
  <1> USE DEF StoreNew
  <1>1. c \in Clients /\ c \in Clients \cup {0} /\ 0 \in Clients \cup {0}
    BY DEF IInv, TypeOK
  <1>2. EmptyList \in List(Clients) /\ PutLast(EmptyList, c) \in List(Clients)
    BY <1>1, EmptyListList, PutLastList
  <1>3. /\ filepaths' \in List(Paths)
        /\ Elements(filepaths') \subseteq Elements(rest) \cup {p}
        /\ Distinct(filepaths')
    <2>1. p \notin Elements(rest)
      BY DEF IInv, IndexAgrees
    <2> QED BY <2>1, PutLastList
  <1>4. TypeOK'
    <2>1. (hashtable \subseteq Paths)' /\ (conn \subseteq Clients)' /\ (writing \in Writes \cup {NoWrite})'
      BY DEF IInv, TypeOK
    <2>2. (datasize \in [Paths -> Nat])'
      BY DEF IInv, TypeOK, Reset
    <2>3. (creator \in [Paths -> Clients \cup {0}])' /\ (locker \in [Paths -> Clients \cup {0}])'
      BY <1>1 DEF IInv, TypeOK, Reset
    <2>4. (openers \in [Paths -> List(Clients)])' /\ (lockwaiters \in [Paths -> List(Clients)])'
      BY <1>2 DEF IInv, TypeOK, Reset
    <2>5. (status \in Ends \cup {"running"})'
      BY DEF MayCorrupt, Ends
    <2> QED BY <1>3, <2>1, <2>2, <2>3, <2>4, <2>5 DEF TypeOK
  <1>5. IndexAgrees'
    BY <1>3 DEF IInv, IndexAgrees
  <1>6. EmptyUntilWritten'
    <2> SUFFICES ASSUME NEW q \in hashtable'
                 PROVE  (creator[q] = 0)' <=> (datasize[q] > 0)'
      BY DEF EmptyUntilWritten
    <2>1. CASE q = p
      BY <1>1, <2>1, ClientsAssumption DEF IInv, TypeOK, Reset
    <2>2. CASE q # p
      BY <2>2 DEF IInv, TypeOK, EmptyUntilWritten, Reset
    <2> QED BY <2>1, <2>2
  <1>7. IndexedLockersConnected'
    <2> SUFFICES ASSUME NEW q \in Elements(filepaths')
                 PROVE  locker'[q] \in conn' \cup {0}
      BY DEF IndexedLockersConnected
    <2>1. CASE q = p
      BY <2>1 DEF IInv, TypeOK, Reset
    <2>2. CASE q # p
      <3>1. q \in Elements(filepaths) \ gone /\ q \in Paths
        BY <1>3, <2>2 DEF IInv, TypeOK, IndexAgrees
      <3> QED BY <2>2, <3>1 DEF IInv, IndexedLockersConnected, Reset
    <2> QED BY <2>1, <2>2
  <1>8. NoWaiters'
    BY DEF IInv, TypeOK, NoWaiters, Reset, EmptyList
  <1>9. WriterMayLock'
    BY DEF WriterMayLock
  <1> QED BY <1>4, <1>5, <1>6, <1>7, <1>8, <1>9 DEF IInv

(* What taking a file out of the table and the FIFO preserves.             *)
LEMMA ForgetStep ==
    ASSUME IInv, status = "running",
           NEW p \in hashtable, Forget({p}), UNCHANGED <<conn, status>>,
           filepaths' \in List(Paths), Distinct(filepaths'),
           Elements(filepaths') \subseteq Elements(filepaths) \ {p},
           writing' \in Writes \cup {NoWrite}, WriterMayLock',
           currsize' \in Int, currfiles' \in Nat, sent' \subseteq Replies,
           FilesWithinCapacity'
    PROVE  IInv'
  <1> USE DEF Forget
  <1>1. EmptyList \in List(Clients)
    BY EmptyListList
  <1>2. TypeOK'
    <2>1. (hashtable \subseteq Paths)' /\ (conn \subseteq Clients)' /\ (status \in Ends \cup {"running"})'
      BY DEF IInv, TypeOK
    <2>2. (datasize \in [Paths -> Nat])'
      BY DEF IInv, TypeOK, Reset
    <2>3. (creator \in [Paths -> Clients \cup {0}])' /\ (locker \in [Paths -> Clients \cup {0}])'
      BY DEF IInv, TypeOK, Reset
    <2>4. (openers \in [Paths -> List(Clients)])' /\ (lockwaiters \in [Paths -> List(Clients)])'
      BY <1>1 DEF IInv, TypeOK, Reset
    <2> QED BY <2>1, <2>2, <2>3, <2>4 DEF TypeOK
  <1>3. IsFiniteSet(hashtable')
    BY FS_RemoveElement DEF IInv
  <1>4. IndexAgrees'
    BY DEF IInv, IndexAgrees
  <1>5. EmptyUntilWritten'
    BY DEF IInv, TypeOK, EmptyUntilWritten, Reset
  <1>6. IndexedLockersConnected'
    BY DEF IInv, TypeOK, IndexAgrees, IndexedLockersConnected, Reset
  <1>7. NoWaiters'
    BY DEF IInv, NoWaiters, Reset, EmptyList
  <1> QED BY <1>2, <1>3, <1>4, <1>5, <1>6, <1>7 DEF IInv

(* Counting the files before and after.                                    *)
LEMMA Counting ==
    ASSUME IInv, NEW p
    PROVE  /\ Cardinality(hashtable) \in Nat
           /\ p \in hashtable =>
                /\ IsFiniteSet(hashtable \ {p})
                /\ Cardinality(hashtable \ {p}) = Cardinality(hashtable) - 1
           /\ p \notin hashtable =>
                /\ IsFiniteSet(hashtable \cup {p})
                /\ Cardinality(hashtable \cup {p}) = Cardinality(hashtable) + 1
  BY FS_CardinalityType, FS_AddElement, FS_RemoveElement DEF IInv

-----------------------------------------------------------------------------
(* One lemma per action.                                                   *)
LEMMA AcceptStep ==
    ASSUME IInv, NEW c \in Clients, Accept(c)
    PROVE  IInv'
  <1> USE DEF Accept, store, fields
  <1>1. TypeOK'
    BY DEF IInv, TypeOK
  <1>2. IndexedLockersConnected'
    BY DEF IInv, IndexedLockersConnected
  <1>3. EmptyUntilWritten' /\ NoWaiters' /\ WriterMayLock'
    BY DEF IInv, EmptyUntilWritten, NoWaiters, WriterMayLock
  <1> QED BY <1>1, <1>2, <1>3, SteadyStep

LEMMA ClientDiesStep ==
    ASSUME IInv, NEW c \in Clients, ClientDies(c)
    PROVE  IInv'
  BY FatalStep DEF ClientDies, Ends

LEMMA OpenCreateStep ==
    ASSUME IInv, NEW c \in Clients, NEW p \in Paths, NEW lock \in BOOLEAN, OpenCreate(c, p, lock)
    PROVE  IInv'
  <1>1. c \in conn /\ writing = NoWrite /\ status = "running"
    BY DEF OpenCreate, Serving
  <1>2. /\ currfiles \in Nat /\ currsize \in Int /\ filepaths \in List(Paths)
        /\ Distinct(filepaths) /\ MaxFiles \in Nat
        /\ Cardinality(hashtable) <= currfiles /\ currfiles <= MaxFiles
    BY LimitsAssumption DEF IInv, TypeOK, IndexAgrees, FilesWithinCapacity
  <1>3. CASE p \in hashtable /\ Answer(c, "OPEN", p, "ALREADYEXISTS", <<>>)
    <2>1. <<>> \in Seq(Paths)
      OBVIOUS
    <2> QED BY <1>3, <2>1, AnswerStep DEF Ops, Codes
  <1>4. CASE /\ p \notin hashtable
             /\ ~TooMany
             /\ StoreNew(c, p, lock, {}, filepaths)
             /\ currfiles' = currfiles + 1
             /\ currsize' = currsize
             /\ sent' = {Reply(c, "OPEN", p, "OK", <<>>)}
    <2>1. sent' \subseteq Replies
      <3>1. <<>> \in Seq(Paths)
        OBVIOUS
      <3> QED BY <1>4, <3>1, ReplyType DEF Ops, Codes
    <2>2. hashtable' = hashtable \cup {p}
      BY <1>4 DEF StoreNew
    <2>3. IsFiniteSet(hashtable') /\ FilesWithinCapacity'
      <3>1. /\ Cardinality(hashtable) \in Nat /\ IsFiniteSet(hashtable')
            /\ Cardinality(hashtable') = Cardinality(hashtable) + 1
        BY <1>4, <2>2, Counting
      <3> QED BY <1>2, <1>4, <3>1 DEF FilesWithinCapacity, TooMany
    <2>4. {} \subseteq hashtable /\ Elements(filepaths) \subseteq Elements(filepaths) \ {}
      OBVIOUS
    <2>5. currfiles' \in Nat /\ currsize' \in Int
      BY <1>2, <1>4
    <2> QED BY <1>1, <1>2, <1>4, <2>1, <2>3, <2>4, <2>5, StoreNewStep
  <1>5. CASE /\ p \notin hashtable
             /\ TooMany
             /\ HasVictim
             /\ StoreNew(c, p, lock, {Victim}, DropFirst(filepaths))
             /\ currfiles' = currfiles
             /\ currsize' = Freed
             /\ sent' = {Reply(c, "OPEN", p, "OK", <<Victim>>)} \cup WaitersToldGone(Victim)
    <2>1. /\ Victim \in hashtable /\ Victim \in Paths /\ Freed \in Int
          /\ DropFirst(filepaths) \in List(Paths) /\ Distinct(DropFirst(filepaths))
          /\ Elements(DropFirst(filepaths)) \subseteq Elements(filepaths) \ {Victim}
      BY <1>5, VictimFacts
    <2>2. sent' \subseteq Replies
      <3>1. <<Victim>> \in Seq(Paths)
        BY <2>1
      <3>2. WaitersToldGone(Victim) \subseteq Replies
        BY <2>1, ToldGoneType DEF IInv
      <3>3. Reply(c, "OPEN", p, "OK", <<Victim>>) \in Replies
        BY <3>1, ReplyType DEF Ops, Codes
      <3> QED BY <1>5, <3>2, <3>3
    <2>3. IsFiniteSet(hashtable') /\ FilesWithinCapacity'
      <3> DEFINE less == hashtable \ {Victim}
      <3>1. /\ IsFiniteSet(less) /\ Cardinality(less) = Cardinality(hashtable) - 1
            /\ Cardinality(hashtable) \in Nat
        BY <2>1, Counting
      <3>2. hashtable' = less \cup {p} /\ p \notin less
        BY <1>5 DEF StoreNew
      <3> HIDE DEF less
      <3>3. IsFiniteSet(hashtable') /\ Cardinality(hashtable') = Cardinality(less) + 1
        BY <3>1, <3>2, FS_AddElement
      <3> QED BY <1>2, <1>5, <3>1, <3>3 DEF FilesWithinCapacity
    <2>4. currfiles' \in Nat /\ currsize' \in Int /\ {Victim} \subseteq hashtable
      BY <1>2, <1>5, <2>1
    <2> QED BY <1>1, <1>5, <2>1, <2>2, <2>3, <2>4, StoreNewStep
  <1>6. CASE p \notin hashtable /\ TooMany /\ ~HasVictim /\ Die("noevictable")
    BY <1>6, DieStep DEF Ends
  <1> QED BY <1>3, <1>4, <1>5, <1>6 DEF OpenCreate

LEMMA OpenExistingStep ==
    ASSUME IInv, NEW c \in Clients, NEW p \in Paths, NEW lock \in BOOLEAN, OpenExisting(c, p, lock)
    PROVE  IInv'
  <1>1. c \in conn /\ writing = NoWrite /\ status = "running"
    BY DEF OpenExisting, Serving
  <1>2. CASE Answer(c, "OPEN", p, "NOTFOUND", <<>>) \/ Answer(c, "OPEN", p, "DENIED", <<>>)
    <2>1. <<>> \in Seq(Paths)
      OBVIOUS
    <2> QED BY <1>2, <2>1, AnswerStep DEF Ops, Codes
  <1>3. CASE /\ locker' = IF lock THEN [locker EXCEPT ![p] = c] ELSE locker
             /\ openers' = [openers EXCEPT ![p] = PutLast(@, c)]
             /\ MayCorrupt(Dangling(openers[p]))
             /\ sent' = {Reply(c, "OPEN", p, "OK", <<>>)}
             /\ UNCHANGED <<hashtable, datasize, creator, lockwaiters>>
             /\ UNCHANGED <<filepaths, currfiles, currsize, conn, writing>>
    <2>1. TypeOK'
      <3>1. (sent \subseteq Replies)'
        <4>1. <<>> \in Seq(Paths)
          OBVIOUS
        <4> QED BY <1>3, <4>1, ReplyType DEF Ops, Codes
      <3>2. (openers \in [Paths -> List(Clients)])'
        <4>1. PutLast(openers[p], c) \in List(Clients)
          BY PutLastList DEF IInv, TypeOK
        <4> QED BY <1>3, <4>1 DEF IInv, TypeOK
      <3>3. (locker \in [Paths -> Clients \cup {0}])'
        BY <1>3 DEF IInv, TypeOK
      <3>4. (status \in Ends \cup {"running"})'
        BY <1>3 DEF MayCorrupt, Ends
      <3> QED BY <1>3, <3>1, <3>2, <3>3, <3>4 DEF IInv, TypeOK
    <2>2. EmptyUntilWritten' /\ NoWaiters' /\ WriterMayLock'
      BY <1>1, <1>3 DEF IInv, EmptyUntilWritten, NoWaiters, WriterMayLock
    <2>3. IndexedLockersConnected'
      BY <1>1, <1>3 DEF IInv, TypeOK, IndexedLockersConnected
    <2> QED BY <1>3, <2>1, <2>2, <2>3, SteadyStep
  <1> QED BY <1>2, <1>3 DEF OpenExisting

LEMMA OpenBadFlagsStep ==
    ASSUME IInv, NEW c \in Clients, NEW p \in Paths, OpenBadFlags(c, p)
    PROVE  IInv'
  <1>1. <<>> \in Seq(Paths)
    OBVIOUS
  <1> QED BY <1>1, AnswerStep DEF OpenBadFlags, Ops, Codes

LEMMA CloseFileStep ==
    ASSUME IInv, NEW c \in Clients, NEW p \in Paths, CloseFile(c, p)
    PROVE  IInv'
  <1>1. CASE Answer(c, "CLOSE", p, "NOTFOUND", <<>>)
    <2>1. <<>> \in Seq(Paths)
      OBVIOUS
    <2> QED BY <1>1, <2>1, AnswerStep DEF Ops, Codes
  <1>2. CASE Die("nullptr")
    BY <1>2, DieStep DEF Ends
  <1>3. CASE /\ openers' = [openers EXCEPT ![p] = removeFd(@, c)]
             /\ sent' = {Reply(c, "CLOSE", p, "OK", <<>>)}
             /\ UNCHANGED <<hashtable, datasize, creator, locker, lockwaiters>>
             /\ UNCHANGED <<filepaths, currfiles, currsize, conn, writing, status>>
    <2>1. (sent \subseteq Replies)'
      <3>1. <<>> \in Seq(Paths)
        OBVIOUS
      <3> QED BY <1>3, <3>1, ReplyType DEF Ops, Codes
    <2>2. (openers \in [Paths -> List(Clients)])'
      <3>1. removeFd(openers[p], c) \in List(Clients)
        BY removeFdList DEF IInv, TypeOK
      <3> QED BY <1>3, <3>1 DEF IInv, TypeOK
    <2>3. TypeOK'
      BY <1>3, <2>1, <2>2 DEF IInv, TypeOK
    <2>4. EmptyUntilWritten' /\ IndexedLockersConnected' /\ NoWaiters' /\ WriterMayLock'
      BY <1>3 DEF IInv, EmptyUntilWritten, IndexedLockersConnected, NoWaiters, WriterMayLock
    <2> QED BY <1>3, <2>3, <2>4, SteadyStep
  <1> QED BY <1>1, <1>2, <1>3 DEF CloseFile

LEMMA ReadFileStep ==
    ASSUME IInv, NEW c \in Clients, NEW p \in Paths, ReadFile(c, p)
    PROVE  IInv'
  <1>1. <<>> \in Seq(Paths) /\ <<p>> \in Seq(Paths)
    OBVIOUS
  <1> QED BY <1>1, AnswerStep DEF ReadFile, Ops, Codes

LEMMA ReadNFilesStep ==
    ASSUME IInv, NEW c \in Clients, NEW n \in Counts, ReadNFiles(c, n)
    PROVE  IInv'
  <1> DEFINE all == filepaths.items
             files == IF n = 0 \/ n >= Len(all) THEN all ELSE SubSeq(all, 1, n)
  <1>1. <<>> \in Seq(Paths) /\ NoPath \in Paths \cup {NoPath}
    OBVIOUS
  <1>2. all \in Seq(Paths) /\ n \in Nat
    BY SizesAssumption DEF IInv, TypeOK, List
  <1>3. files \in Seq(Paths)
    <2> HIDE DEF all
    <2>1. CASE n = 0 \/ n >= Len(all)
      BY <1>2, <2>1
    <2>2. CASE ~(n = 0 \/ n >= Len(all))
      <3>1. \A i \in 1 .. n : all[i] \in Paths
        BY <1>2, <2>2
      <3>2. SubSeq(all, 1, n) \in Seq(Paths)
        BY <1>2, <3>1, SubSeqProperties
      <3> QED BY <2>2, <3>2
    <2> QED BY <2>1, <2>2
  <1>4. \/ Answer(c, "READN", NoPath, "NOTFOUND", <<>>)
        \/ Answer(c, "READN", NoPath, "OK", files)
    BY DEF ReadNFiles
  <1> HIDE DEF files
  <1> QED BY <1>1, <1>3, <1>4, AnswerStep DEF Ops, Codes

LEMMA WriteFileStep ==
    ASSUME IInv, NEW c \in Clients, NEW p \in Paths, NEW n \in Sizes, WriteFile(c, p, n)
    PROVE  IInv'
  <1>0. <<>> \in Seq(Paths) /\ n \in Nat
    BY SizesAssumption
  <1>1. CASE \E code \in {"NOMEM", "NOTFOUND", "DENIED"} : Answer(c, "WRITE", p, code, <<>>)
    BY <1>0, <1>1, AnswerStep DEF Ops, Codes
  <1>2. CASE /\ p \in hashtable
             /\ MayWrite(c, p)
             /\ writing' = [client |-> c, path |-> p, size |-> n, evicted |-> <<>>]
             /\ sent' = {}
             /\ UNCHANGED <<store, conn, status>>
    <2> USE DEF store, fields
    <2>1. writing' \in Writes
      BY <1>0, <1>2 DEF Writes
    <2>2. TypeOK'
      BY <1>2, <2>1 DEF IInv, TypeOK
    <2>3. WriterMayLock'
      BY <1>2 DEF MayWrite, MayLock, WriterMayLock
    <2>4. EmptyUntilWritten' /\ IndexedLockersConnected' /\ NoWaiters'
      BY <1>2 DEF IInv, EmptyUntilWritten, IndexedLockersConnected, NoWaiters
    <2> QED BY <1>2, <2>2, <2>3, <2>4, SteadyStep
  <1> QED BY <1>1, <1>2 DEF WriteFile

LEMMA EvictOneStep ==
    ASSUME IInv, EvictOne
    PROVE  IInv'
  <1>1. /\ status = "running" /\ writing \in Writes /\ currfiles \in Nat
        /\ Cardinality(hashtable) <= currfiles /\ currfiles <= MaxFiles /\ MaxFiles \in Nat
    BY LimitsAssumption DEF EvictOne, IInv, TypeOK, FilesWithinCapacity
  <1>2. CASE /\ HasVictim
             /\ Forget({Victim})
             /\ filepaths' = DropFirst(filepaths)
             /\ currsize' = Freed
             /\ currfiles' = currfiles - 1
             /\ writing' = [writing EXCEPT !.evicted = Reported]
             /\ sent' = WaitersToldGone(Victim)
             /\ UNCHANGED <<conn, status>>
    <2>1. /\ Victim \in hashtable /\ Victim \in Paths /\ Freed \in Int
          /\ DropFirst(filepaths) \in List(Paths) /\ Distinct(DropFirst(filepaths))
          /\ Elements(DropFirst(filepaths)) \subseteq Elements(filepaths) \ {Victim}
      BY <1>2, VictimFacts
    <2>2. writing' \in Writes
      <3>1. Reported \in Seq(Paths)
        <4>1. writing.evicted \in Seq(Paths)
          BY <1>1 DEF Writes
        <4> QED BY <2>1, <4>1 DEF Reported
      <3> HIDE DEF Reported
      <3> QED BY <1>1, <1>2, <3>1 DEF Writes
    <2>3. currfiles' \in Nat /\ FilesWithinCapacity'
      <3>1. hashtable' = hashtable \ {Victim}
        BY <1>2 DEF Forget
      <3>2. /\ Cardinality(hashtable) \in Nat
            /\ Cardinality(hashtable') = Cardinality(hashtable) - 1
            /\ IsFiniteSet(hashtable')
        BY <2>1, <3>1, Counting
      <3>3. Cardinality(hashtable') \in Nat
        BY <3>2, FS_CardinalityType
      <3> QED BY <1>1, <1>2, <3>2, <3>3 DEF FilesWithinCapacity
    <2>4. sent' \subseteq Replies
      BY <1>2, <2>1, ToldGoneType DEF IInv
    <2>5. WriterMayLock'
      <3>1. writing # NoWrite
        BY DEF EvictOne
      <3>2. /\ writing'.path = writing.path /\ writing'.client = writing.client
            /\ writing.path \in Paths
        BY <1>1, <1>2 DEF Writes
      <3>3. ASSUME writing.path \in hashtable'
            PROVE  locker'[writing.path] = locker[writing.path] /\ writing.path \in hashtable
        BY <1>2, <3>2, <3>3 DEF Forget, Reset
      <3> QED BY <3>1, <3>2, <3>3 DEF IInv, WriterMayLock
    <2> QED BY <1>1, <1>2, <2>1, <2>2, <2>3, <2>4, <2>5, ForgetStep
  <1>3. CASE Die("noevictable")
    BY <1>3, DieStep DEF Ends
  <1> QED BY <1>2, <1>3 DEF EvictOne

LEMMA FinishWriteStep ==
    ASSUME IInv, FinishWrite
    PROVE  IInv'
  <1>1. /\ status = "running" /\ writing \in Writes
        /\ writing.client \in Clients /\ writing.path \in Paths
        /\ writing.size \in Nat /\ writing.evicted \in Seq(Paths)
    BY DEF FinishWrite, IInv, TypeOK, Writes
  <1>2. CASE Die("nullptr")
    BY <1>2, DieStep DEF Ends
  <1>3. CASE /\ writing.size > 0
             /\ IF writing.path \in hashtable
                THEN /\ datasize' = [datasize EXCEPT ![writing.path] = writing.size]
                     /\ creator' = [creator EXCEPT ![writing.path] = 0]
                ELSE UNCHANGED <<datasize, creator>>
             /\ sent' = {Reply(writing.client, "WRITE", writing.path, "OK", writing.evicted)}
             /\ currsize' = currsize + writing.size
             /\ writing' = NoWrite
             /\ UNCHANGED <<hashtable, locker, openers, lockwaiters>>
             /\ UNCHANGED <<filepaths, currfiles, conn, status>>
    <2>1. (sent \subseteq Replies)'
      BY <1>1, <1>3, ReplyType DEF Ops, Codes
    <2>2. (datasize \in [Paths -> Nat])' /\ (creator \in [Paths -> Clients \cup {0}])'
      BY <1>1, <1>3 DEF IInv, TypeOK
    <2>3. (currsize \in Int)'
      BY <1>1, <1>3 DEF IInv, TypeOK
    <2>4. TypeOK'
      BY <1>3, <2>1, <2>2, <2>3 DEF IInv, TypeOK
    <2>5. EmptyUntilWritten'
      <3> SUFFICES ASSUME NEW q \in hashtable
                   PROVE  (creator[q] = 0)' <=> (datasize[q] > 0)'
        BY <1>3 DEF EmptyUntilWritten
      <3>1. CASE q = writing.path
        BY <1>1, <1>3, <3>1 DEF IInv, TypeOK
      <3>2. CASE q # writing.path
        BY <1>1, <1>3, <3>2 DEF IInv, TypeOK, EmptyUntilWritten
      <3> QED BY <3>1, <3>2
    <2>6. IndexedLockersConnected' /\ NoWaiters' /\ WriterMayLock'
      BY <1>3 DEF IInv, IndexedLockersConnected, NoWaiters, WriterMayLock
    <2> QED BY <1>3, <2>4, <2>5, <2>6, SteadyStep
  <1> QED BY <1>2, <1>3 DEF FinishWrite

LEMMA AppendToFileStep ==
    ASSUME IInv, NEW c \in Clients, NEW p \in Paths, NEW n \in Sizes, AppendToFile(c, p, n)
    PROVE  IInv'
  <1>0. <<>> \in Seq(Paths) /\ n \in Nat /\ status = "running" /\ writing = NoWrite
    BY SizesAssumption DEF AppendToFile, Serving
  <1>1. CASE \E code \in {"NOMEM", "NOTFOUND", "DENIED"} : Answer(c, "APPEND", p, code, <<>>)
    BY <1>0, <1>1, AnswerStep DEF Ops, Codes
  <1>2. CASE Die("nullptr") \/ Die(IF HasVictim THEN "appendevict" ELSE "noevictable")
    BY <1>2, DieStep DEF Ends
  <1>3. CASE /\ p \in hashtable
             /\ MayAppend(c, p)
             /\ n # 0
             /\ datasize' = [datasize EXCEPT ![p] = @ + n]
             /\ currsize' = currsize + n
             /\ MayCorrupt(TRUE)
             /\ sent' = {Reply(c, "APPEND", p, "OK", <<>>)}
             /\ UNCHANGED <<hashtable, creator, locker, openers, lockwaiters>>
             /\ UNCHANGED <<filepaths, currfiles, conn, writing>>
    <2>1. (sent \subseteq Replies)'
      BY <1>0, <1>3, ReplyType DEF Ops, Codes
    <2>2. (datasize \in [Paths -> Nat])' /\ (currsize \in Int)'
      BY <1>0, <1>3 DEF IInv, TypeOK
    <2>3. (status \in Ends \cup {"running"})'
      BY <1>3 DEF MayCorrupt, Ends
    <2>4. TypeOK'
      BY <1>3, <2>1, <2>2, <2>3 DEF IInv, TypeOK
    <2>5. EmptyUntilWritten'
      BY <1>0, <1>3 DEF IInv, TypeOK, EmptyUntilWritten, MayAppend
    <2>6. IndexedLockersConnected' /\ NoWaiters' /\ WriterMayLock'
      BY <1>0, <1>3 DEF IInv, IndexedLockersConnected, NoWaiters, WriterMayLock
    <2> QED BY <1>3, <2>4, <2>5, <2>6, SteadyStep
  <1> QED BY <1>1, <1>2, <1>3 DEF AppendToFile

LEMMA RemoveFileStep ==
    ASSUME IInv, NEW c \in Clients, NEW p \in Paths, RemoveFile(c, p)
    PROVE  IInv'
  <1>0. /\ <<>> \in Seq(Paths) /\ status = "running" /\ writing = NoWrite
        /\ filepaths \in List(Paths) /\ Distinct(filepaths)
    BY DEF RemoveFile, Serving, IInv, TypeOK, IndexAgrees
  <1>1. CASE \E code \in {"NOTFOUND", "DENIED"} : Answer(c, "REMOVE", p, code, <<>>)
    BY <1>0, <1>1, AnswerStep DEF Ops, Codes
  <1>2. CASE Die("nullptr")
    BY <1>2, DieStep DEF Ends
  <1>3. CASE /\ p \in hashtable
             /\ Forget({p})
             /\ filepaths' = deleteFilepathNode(filepaths, p)
             /\ sent' = {Reply(c, "REMOVE", p, "OK", <<>>)}
             /\ UNCHANGED <<currfiles, currsize, conn, writing, status>>
    <2>1. /\ filepaths' \in List(Paths) /\ Distinct(filepaths')
          /\ Elements(filepaths') \subseteq Elements(filepaths) \ {p}
      BY <1>0, <1>3, deleteFilepathNodeList
    <2>2. sent' \subseteq Replies
      BY <1>0, <1>3, ReplyType DEF Ops, Codes
    <2>3. FilesWithinCapacity'
      <3>1. /\ Cardinality(hashtable) \in Nat
            /\ Cardinality(hashtable') = Cardinality(hashtable) - 1
        BY <1>3, Counting DEF Forget
      <3> QED BY <1>3, <3>1 DEF IInv, TypeOK, FilesWithinCapacity
    <2>4. writing' \in Writes \cup {NoWrite} /\ currsize' \in Int /\ currfiles' \in Nat
      BY <1>3 DEF IInv, TypeOK
    <2>5. WriterMayLock'
      BY <1>0, <1>3 DEF WriterMayLock
    <2> QED BY <1>0, <1>3, <2>1, <2>2, <2>3, <2>4, <2>5, ForgetStep
  <1> QED BY <1>1, <1>2, <1>3 DEF RemoveFile

LEMMA LockFileStep ==
    ASSUME IInv, NEW c \in Clients, NEW p \in Paths, LockFile(c, p)
    PROVE  IInv'
  <1>0. <<>> \in Seq(Paths) /\ c \in conn /\ writing = NoWrite /\ status = "running"
    BY DEF LockFile, Serving
  <1>1. CASE Answer(c, "LOCK", p, "NOTFOUND", <<>>)
    BY <1>0, <1>1, AnswerStep DEF Ops, Codes
  <1>2. CASE /\ lockwaiters' = [lockwaiters EXCEPT ![p] = PutLast(@, c)]
             /\ status' = "lockwait"
             /\ sent' = {}
             /\ UNCHANGED <<hashtable, datasize, creator, locker, openers>>
             /\ UNCHANGED <<filepaths, currfiles, currsize, conn, writing>>
    <2>1. (lockwaiters \in [Paths -> List(Clients)])'
      <3>1. PutLast(lockwaiters[p], c) \in List(Clients)
        BY PutLastList DEF IInv, TypeOK
      <3> QED BY <1>2, <3>1 DEF IInv, TypeOK
    <2>2. TypeOK'
      BY <1>2, <2>1 DEF IInv, TypeOK, Ends
    <2>3. EmptyUntilWritten' /\ IndexedLockersConnected' /\ NoWaiters' /\ WriterMayLock'
      BY <1>2 DEF IInv, EmptyUntilWritten, IndexedLockersConnected, NoWaiters, WriterMayLock
    <2> QED BY <1>2, <2>2, <2>3, SteadyStep
  <1>3. CASE /\ locker' = [locker EXCEPT ![p] = c]
             /\ sent' = {Reply(c, "LOCK", p, "OK", <<>>)}
             /\ UNCHANGED <<hashtable, datasize, creator, openers, lockwaiters>>
             /\ UNCHANGED <<filepaths, currfiles, currsize, conn, writing, status>>
    <2>1. (sent \subseteq Replies)'
      BY <1>0, <1>3, ReplyType DEF Ops, Codes
    <2>2. TypeOK'
      BY <1>3, <2>1 DEF IInv, TypeOK
    <2>3. EmptyUntilWritten' /\ NoWaiters' /\ WriterMayLock'
      BY <1>0, <1>3 DEF IInv, EmptyUntilWritten, NoWaiters, WriterMayLock
    <2>4. IndexedLockersConnected'
      BY <1>0, <1>3 DEF IInv, TypeOK, IndexedLockersConnected
    <2> QED BY <1>3, <2>2, <2>3, <2>4, SteadyStep
  <1> QED BY <1>1, <1>2, <1>3 DEF LockFile

LEMMA UnlockFileStep ==
    ASSUME IInv, NEW c \in Clients, NEW p \in Paths, UnlockFile(c, p)
    PROVE  IInv'
  <1>0. <<>> \in Seq(Paths) /\ writing = NoWrite /\ status = "running"
    BY DEF UnlockFile, Serving
  <1>1. CASE \E code \in {"NOTFOUND", "DENIED"} : Answer(c, "UNLOCK", p, code, <<>>)
    BY <1>0, <1>1, AnswerStep DEF Ops, Codes
  <1>2. CASE /\ sent' = {Reply(c, "UNLOCK", p, "OK", <<>>)}
             /\ UNCHANGED <<locker, lockwaiters>>
             /\ UNCHANGED <<hashtable, datasize, creator, openers>>
             /\ UNCHANGED <<filepaths, currfiles, currsize, conn, writing, status>>
    <2>1. sent' \subseteq Replies
      BY <1>0, <1>2, ReplyType DEF Ops, Codes
    <2>2. UNCHANGED <<store, conn, writing, status>>
      BY <1>2 DEF store, fields
    <2> QED BY <2>1, <2>2, QuietStep
  <1>3. lockwaiters[p].items = <<>>
    BY <1>0 DEF IInv, NoWaiters
  <1> QED BY <1>1, <1>2, <1>3 DEF UnlockFile

LEMMA CloseConnectionStep ==
    ASSUME IInv, NEW c \in Clients, CloseConnection(c)
    PROVE  IInv'
  <1>0. <<>> \in Seq(Paths) /\ writing = NoWrite /\ status = "running" /\ c \in conn
    BY DEF CloseConnection, Serving
  <1> DEFINE visited == Elements(filepaths)
  <1>1. \A p \in Paths : ~Handed(c, p) /\ WaitersLeft(c, p) = lockwaiters[p] /\ Heir(c, p) = 0
    BY <1>0 DEF IInv, NoWaiters, Handed, WaitersLeft, Heir
  <1>2. visited \subseteq Paths
    BY DEF IInv, IndexAgrees, TypeOK
  <1>3. CASE Die("nullptr")
    BY <1>3, DieStep DEF Ends
  <1> HIDE DEF visited
  <1>4. CASE /\ locker' = [p \in Paths |->
                    IF p \in visited /\ locker[p] = c THEN Heir(c, p) ELSE locker[p]]
             /\ openers' = [p \in Paths |->
                    IF p \in visited THEN removeFd(openers[p], c) ELSE openers[p]]
             /\ lockwaiters' = [p \in Paths |->
                    IF p \in visited THEN removeFd(WaitersLeft(c, p), c) ELSE lockwaiters[p]]
             /\ sent' = {Reply(c, "EXIT", NoPath, "OK", <<>>)}
                  \cup {Reply(Heir(c, p), "LOCK", p, "OK", <<>>) :
                            p \in {q \in visited : Handed(c, q)}}
             /\ conn' = conn \ {c}
             /\ UNCHANGED <<hashtable, datasize, creator, filepaths, currfiles, currsize>>
             /\ UNCHANGED <<writing, status>>
    <2>1. sent' = {Reply(c, "EXIT", NoPath, "OK", <<>>)}
      BY <1>1, <1>2, <1>4
    <2>2. (sent \subseteq Replies)'
      BY <1>0, <2>1, ReplyType DEF Ops, Codes
    <2>3. (locker \in [Paths -> Clients \cup {0}])'
      BY <1>1, <1>4 DEF IInv, TypeOK
    <2>4. (openers \in [Paths -> List(Clients)])'
      <3>1. \A p \in Paths : removeFd(openers[p], c) \in List(Clients)
        BY removeFdList DEF IInv, TypeOK
      <3> QED BY <1>4, <3>1 DEF IInv, TypeOK
    <2>5. (lockwaiters \in [Paths -> List(Clients)])' /\ NoWaiters'
      <3>1. \A p \in Paths : lockwaiters[p].items = <<>> /\ lockwaiters[p] \in List(Clients)
        BY <1>0 DEF IInv, NoWaiters, TypeOK
      <3>2. \A p \in Paths : removeFd(lockwaiters[p], c) = lockwaiters[p]
        BY <3>1 DEF removeFd, Elements, ToSet
      <3>3. lockwaiters' = [p \in Paths |-> lockwaiters[p]]
        BY <1>1, <1>4, <3>2
      <3> QED BY <3>1, <3>3 DEF NoWaiters
    <2>6. TypeOK'
      BY <1>4, <2>2, <2>3, <2>4, <2>5 DEF IInv, TypeOK
    <2>7. IndexedLockersConnected'
      BY <1>1, <1>2, <1>4 DEF visited, IInv, TypeOK, IndexedLockersConnected
    <2>8. EmptyUntilWritten' /\ WriterMayLock'
      BY <1>0, <1>4 DEF IInv, EmptyUntilWritten, WriterMayLock
    <2> QED BY <1>4, <2>5, <2>6, <2>7, <2>8, SteadyStep
  <1> QED BY <1>3, <1>4 DEF CloseConnection, visited

-----------------------------------------------------------------------------
(* The inductive invariant.                                                *)
LEMMA InitIInv == Init => IInv
  <1> SUFFICES ASSUME Init
               PROVE  IInv
    OBVIOUS
  <1>1. EmptyList \in List(Clients) /\ EmptyList \in List(Paths)
    BY EmptyListList
  <1>2. TypeOK
    BY <1>1 DEF Init, TypeOK
  <1>3. IsFiniteSet(hashtable) /\ Cardinality(hashtable) = 0
    BY FS_EmptySet DEF Init
  <1>4. IndexAgrees
    BY EmptyListList DEF Init, IndexAgrees
  <1>5. FilesWithinCapacity
    BY <1>3, LimitsAssumption DEF Init, FilesWithinCapacity
  <1>6. EmptyUntilWritten /\ NoWaiters /\ WriterMayLock
    BY DEF Init, EmptyUntilWritten, NoWaiters, WriterMayLock, EmptyList
  <1>7. IndexedLockersConnected
    BY EmptyListList DEF Init, IndexedLockersConnected
  <1> QED BY <1>2, <1>3, <1>4, <1>5, <1>6, <1>7 DEF IInv

LEMMA StepIInv == IInv /\ [Next]_vars => IInv'
  <1>1. CASE UNCHANGED vars
    BY <1>1 DEF vars, store, fields, IInv, TypeOK, IndexAgrees, FilesWithinCapacity,
                EmptyUntilWritten, IndexedLockersConnected, NoWaiters, WriterMayLock
  <1>2. ASSUME IInv, Next
        PROVE  IInv'
    BY <1>2, AcceptStep, ClientDiesStep, OpenCreateStep, OpenExistingStep, OpenBadFlagsStep,
       CloseFileStep, ReadFileStep, ReadNFilesStep, WriteFileStep, EvictOneStep, FinishWriteStep,
       AppendToFileStep, RemoveFileStep, LockFileStep, UnlockFileStep, CloseConnectionStep
    DEF Next
  <1> QED BY <1>1, <1>2

THEOREM Inductive == Spec => []IInv
  BY InitIInv, StepIInv, PTL DEF Spec

(* Every variable stays in its type (Storage and File, storage.h:39-78).   *)
THEOREM TypeCorrect == Spec => []TypeOK
  BY Inductive, PTL DEF IInv

(* The FIFO list never names a file that is gone, nor one twice: the       *)
(* handlers that follow it (server.c:295, 538, 611, 957) find every file.  *)
THEOREM IndexSound == Spec => []IndexAgrees
  BY Inductive, PTL DEF IInv

(* The table never holds more files than currfiles counts, nor more than   *)
(* the configured limit (server.c:293).                                    *)
THEOREM FilesBounded == Spec => []FilesWithinCapacity
  BY Inductive, PTL DEF IInv

(* A stored file has a creator exactly as long as it is empty              *)
(* (server.c:583, 712).                                                    *)
THEOREM WrittenOnce == Spec => []EmptyUntilWritten
  BY Inductive, PTL DEF IInv

(* No file that the FIFO names is locked by a client that has gone         *)
(* (server.c:951-997).                                                     *)
THEOREM NoOrphanLock == Spec => []IndexedLockersConnected
  BY Inductive, PTL DEF IInv

(* Nobody ever waits for a lock while the server runs: the handler that    *)
(* puts a client among the waiters ends it (server.c:870, 882), so that a  *)
(* single worker never hands a lock over, in UNLOCK, EXIT or an eviction.  *)
THEOREM NobodyWaits == Spec => []NoWaiters
  BY Inductive, PTL DEF IInv

-----------------------------------------------------------------------------
(* What a step may not do to a locked file.  Three kinds of step keep it   *)
(* as it is: those that do not touch the table, the file or its lock, ...  *)
Kept(p) ==
    p \in hashtable' /\ datasize'[p] = datasize[p] /\ locker'[p] = locker[p]

LEMMA StoreKept ==
    ASSUME UNCHANGED store
    PROVE  LockStep
  BY DEF LockStep, store, fields

(* ... and the others.                                                     *)
LEMMA StepLock ==
    ASSUME IInv, Next
    PROVE  LockStep
  <1> SUFFICES ASSUME NEW p \in hashtable, locker[p] # 0
               PROVE  \/ \E r \in sent' : r.to = locker[p] /\ r.code = "OK"
                      \/ Kept(p)
                      \/ p = Head(filepaths.items) /\ filepaths'.items = Tail(filepaths.items)
                      \/ p = Head(filepaths.items) /\ \E r \in sent' : r.op = "OPEN" /\ r.files = <<p>>
    BY DEF LockStep, Kept
  <1>0. /\ p \in Paths
        /\ locker \in [Paths -> Clients \cup {0}] /\ datasize \in [Paths -> Nat]
        /\ hashtable \subseteq Paths
    BY DEF IInv, TypeOK
  <1>1. CASE UNCHANGED store
    BY <1>1 DEF Kept, store, fields
  <1>2. ASSUME NEW c, NEW q \in Paths, NEW lock, OpenCreate(c, q, lock)
        PROVE  \/ Kept(p)
               \/ p = Head(filepaths.items) /\ \E r \in sent' : r.op = "OPEN" /\ r.files = <<p>>
    <2>1. ASSUME NEW gone, NEW rest, q \notin hashtable, StoreNew(c, q, lock, gone, rest), p \notin gone
          PROVE  Kept(p)
      BY <1>0, <2>1 DEF Kept, StoreNew, Reset
    <2>2. CASE UNCHANGED store
      BY <2>2 DEF Kept, store, fields
    <2>3. CASE /\ q \notin hashtable
               /\ StoreNew(c, q, lock, {}, filepaths)
      BY <2>1, <2>3
    <2>4. CASE /\ q \notin hashtable
               /\ StoreNew(c, q, lock, {Victim}, DropFirst(filepaths))
               /\ sent' = {Reply(c, "OPEN", q, "OK", <<Victim>>)} \cup WaitersToldGone(Victim)
      <3>1. CASE p # Victim
        BY <2>1, <2>4, <3>1
      <3>2. CASE p = Victim
        <4>1. Reply(c, "OPEN", q, "OK", <<Victim>>).op = "OPEN"
              /\ Reply(c, "OPEN", q, "OK", <<Victim>>).files = <<Victim>>
          BY DEF Reply
        <4> QED BY <2>4, <3>2, <4>1 DEF Victim
      <3> QED BY <3>1, <3>2
    <2> QED BY <1>2, <2>2, <2>3, <2>4 DEF OpenCreate, Answer, Die
  <1>3. ASSUME NEW c, NEW q \in Paths, NEW lock, OpenExisting(c, q, lock)
        PROVE  Kept(p)
    <2>1. CASE UNCHANGED store
      BY <2>1 DEF Kept, store, fields
    <2>2. CASE /\ (IF lock THEN locker[q] = 0 ELSE MayLock(q, c))
               /\ locker' = IF lock THEN [locker EXCEPT ![q] = c] ELSE locker
               /\ UNCHANGED <<hashtable, datasize>>
      BY <1>0, <2>2 DEF Kept
    <2> QED BY <1>3, <2>1, <2>2 DEF OpenExisting, Answer
  <1>4. ASSUME NEW c, NEW q \in Paths, CloseFile(c, q)
        PROVE  Kept(p)
    BY <1>1, <1>4 DEF CloseFile, Kept, Answer, Die, store, fields
  <1>5. ASSUME EvictOne
        PROVE  Kept(p) \/ (p = Head(filepaths.items) /\ filepaths'.items = Tail(filepaths.items))
    <2>1. CASE UNCHANGED store
      BY <2>1 DEF Kept, store, fields
    <2>2. CASE Forget({Victim}) /\ filepaths' = DropFirst(filepaths)
      <3>1. CASE p = Victim
        BY <2>2, <3>1 DEF Victim, DropFirst
      <3>2. CASE p # Victim
        BY <1>0, <2>2, <3>2 DEF Forget, Reset, Kept
      <3> QED BY <3>1, <3>2
    <2> QED BY <1>5, <2>1, <2>2 DEF EvictOne, Die
  <1>6. ASSUME FinishWrite
        PROVE  Kept(p) \/ \E r \in sent' : r.to = locker[p] /\ r.code = "OK"
    <2>1. CASE UNCHANGED store
      BY <2>1 DEF Kept, store, fields
    <2>2. CASE /\ writing # NoWrite
               /\ IF writing.path \in hashtable
                  THEN /\ datasize' = [datasize EXCEPT ![writing.path] = writing.size]
                       /\ creator' = [creator EXCEPT ![writing.path] = 0]
                  ELSE UNCHANGED <<datasize, creator>>
               /\ sent' = {Reply(writing.client, "WRITE", writing.path, "OK", writing.evicted)}
               /\ UNCHANGED <<hashtable, locker>>
      <3>1. CASE p # writing.path
        BY <1>0, <2>2, <3>1 DEF Kept
      <3>2. CASE p = writing.path
        <4>1. locker[p] = writing.client
          BY <2>2, <3>2 DEF IInv, WriterMayLock
        <4> QED BY <2>2, <4>1 DEF Reply
      <3> QED BY <3>1, <3>2
    <2> QED BY <1>6, <2>1, <2>2 DEF FinishWrite, Die
  <1>7. ASSUME NEW c, NEW q \in Paths, NEW n, AppendToFile(c, q, n)
        PROVE  Kept(p) \/ \E r \in sent' : r.to = locker[p] /\ r.code = "OK"
    <2>1. CASE UNCHANGED store
      BY <2>1 DEF Kept, store, fields
    <2>2. CASE /\ MayAppend(c, q)
               /\ datasize' = [datasize EXCEPT ![q] = @ + n]
               /\ sent' = {Reply(c, "APPEND", q, "OK", <<>>)}
               /\ UNCHANGED <<hashtable, locker>>
      BY <1>0, <2>2 DEF Kept, MayAppend, MayLock, Reply
    <2> QED BY <1>7, <2>1, <2>2 DEF AppendToFile, Answer, Die
  <1>8. ASSUME NEW c, NEW q \in Paths, RemoveFile(c, q)
        PROVE  Kept(p) \/ \E r \in sent' : r.to = locker[p] /\ r.code = "OK"
    <2>1. CASE UNCHANGED store
      BY <2>1 DEF Kept, store, fields
    <2>2. CASE /\ MayLock(q, c)
               /\ Forget({q})
               /\ sent' = {Reply(c, "REMOVE", q, "OK", <<>>)}
      BY <1>0, <2>2 DEF Kept, MayLock, Forget, Reset, Reply
    <2> QED BY <1>8, <2>1, <2>2 DEF RemoveFile, Answer, Die
  <1>9. ASSUME NEW c, NEW q \in Paths, LockFile(c, q)
        PROVE  Kept(p) \/ \E r \in sent' : r.to = locker[p] /\ r.code = "OK"
    <2>1. CASE UNCHANGED store
      BY <2>1 DEF Kept, store, fields
    <2>2. CASE UNCHANGED <<hashtable, datasize, locker>>
      BY <2>2 DEF Kept
    <2>3. CASE /\ MayLock(q, c)
               /\ locker' = [locker EXCEPT ![q] = c]
               /\ sent' = {Reply(c, "LOCK", q, "OK", <<>>)}
               /\ UNCHANGED <<hashtable, datasize>>
      BY <1>0, <2>3 DEF Kept, MayLock, Reply
    <2> QED BY <1>9, <2>1, <2>2, <2>3 DEF LockFile, Answer
  <1>10. ASSUME NEW c, NEW q \in Paths, UnlockFile(c, q)
         PROVE  Kept(p) \/ \E r \in sent' : r.to = locker[p] /\ r.code = "OK"
    <2>1. CASE UNCHANGED store
      BY <2>1 DEF Kept, store, fields
    <2>2. CASE /\ locker[q] = c
               /\ Reply(c, "UNLOCK", q, "OK", <<>>) \in sent'
               /\ locker' = [locker EXCEPT ![q] = locker'[q]]
               /\ UNCHANGED <<hashtable, datasize>>
      BY <1>0, <2>2 DEF Kept, Reply
    <2>3. CASE /\ locker[q] = c
               /\ IF lockwaiters[q].items # <<>>
                  THEN LET w == Head(lockwaiters[q].items)
                       IN  /\ locker' = [locker EXCEPT ![q] = w]
                           /\ sent' = {Reply(w, "LOCK", q, "OK", <<>>), Reply(c, "UNLOCK", q, "OK", <<>>)}
                  ELSE /\ sent' = {Reply(c, "UNLOCK", q, "OK", <<>>)}
                       /\ UNCHANGED locker
               /\ UNCHANGED <<hashtable, datasize>>
      BY <1>0, <2>2, <2>3
    <2> QED BY <1>10, <2>1, <2>3 DEF UnlockFile, Answer
  <1>11. ASSUME NEW c, CloseConnection(c)
         PROVE  Kept(p) \/ \E r \in sent' : r.to = locker[p] /\ r.code = "OK"
    <2>1. CASE UNCHANGED store
      BY <2>1 DEF Kept, store, fields
    <2>2. CASE /\ \A q \in Paths : locker[q] # c => locker'[q] = locker[q]
               /\ Reply(c, "EXIT", NoPath, "OK", <<>>) \in sent'
               /\ UNCHANGED <<hashtable, datasize>>
      BY <1>0, <2>2 DEF Kept, Reply
    <2> QED BY <1>11, <2>1, <2>2 DEF CloseConnection, Die
  <1> QED BY <1>1, <1>2, <1>3, <1>4, <1>5, <1>6, <1>7, <1>8, <1>9, <1>10, <1>11
    DEF Next, Accept, ClientDies, OpenBadFlags, ReadFile, ReadNFiles, WriteFile, Answer

(* While a client holds the lock of a file, only an answer to that client  *)
(* or an eviction changes or removes it (server.c:594, 714, 817).          *)
THEOREM LocksHold == Spec => LockProtects
  <1>1. IInv /\ [Next]_vars => [LockStep]_vars
    BY StepLock
  <1> QED BY <1>1, Inductive, PTL DEF LockProtects, Spec

-----------------------------------------------------------------------------
(* What an eviction adds to the list that WRITE reports.                   *)
LEMMA ReportedFacts ==
    ASSUME IInv, writing # NoWrite, HasVictim, writing' = [writing EXCEPT !.evicted = Reported]
    PROVE  /\ writing' # NoWrite
           /\ Victim \in ToSet(writing'.evicted)
           /\ ToSet(writing.evicted) \subseteq ToSet(writing'.evicted)
  <1> DEFINE old == writing.evicted
             new == writing'.evicted
  <1>1. writing \in Writes /\ old \in Seq(Paths) /\ Victim \in Paths
    BY VictimFacts DEF IInv, TypeOK, Writes
  <1>2. new = Append(old, Victim)
    BY <1>1 DEF Writes, Reported
  <1>3. /\ new \in Seq(Paths)
        /\ Len(old) \in Nat /\ Len(new) = Len(old) + 1
        /\ \A i \in 1 .. Len(new) : new[i] = IF i <= Len(old) THEN old[i] ELSE Victim
    <2> HIDE DEF old, new
    <2> QED BY <1>1, <1>2
  <1>4. writing' \in Writes
    BY <1>1, <1>3 DEF Writes
  <1>5. Victim \in ToSet(new)
    <2> HIDE DEF old, new
    <2>1. Len(new) \in 1 .. Len(new) /\ new[Len(new)] = Victim
      BY <1>3
    <2> QED BY <1>3, <2>1 DEF ToSet
  <1>6. ToSet(old) \subseteq ToSet(new)
    <2> HIDE DEF old, new
    <2>1. \A i \in 1 .. Len(old) : i \in 1 .. Len(new) /\ new[i] = old[i]
      BY <1>3
    <2> QED BY <1>1, <1>3, <2>1 DEF ToSet
  <1> QED BY <1>4, <1>5, <1>6, NoWriteAssumption

LEMMA StepLoss ==
    ASSUME IInv, Next
    PROVE  ReportedLoss
  <1> SUFFICES ASSUME NEW p \in hashtable, p \notin hashtable'
               PROVE  \/ \E r \in sent' : r.op = "REMOVE" /\ r.path = p /\ r.code = "OK"
                      \/ \E r \in sent' : p \in ToSet(r.files)
                      \/ writing' # NoWrite /\ p \in ToSet(writing'.evicted)
    BY DEF ReportedLoss
  <1>1. UNCHANGED hashtable => FALSE
    OBVIOUS
  <1>2. ASSUME NEW c, NEW q \in Paths, NEW lock, OpenCreate(c, q, lock)
        PROVE  \E r \in sent' : p \in ToSet(r.files)
    <2>1. /\ Reply(c, "OPEN", q, "OK", <<Victim>>) \in sent'
          /\ p = Victim
      BY <1>2 DEF OpenCreate, StoreNew, Answer, Die, store
    <2>2. Reply(c, "OPEN", q, "OK", <<Victim>>).files = <<Victim>>
      BY DEF Reply
    <2>3. Victim \in ToSet(<<Victim>>)
      BY DEF ToSet
    <2> QED BY <2>1, <2>2, <2>3
  <1>3. ASSUME EvictOne
        PROVE  writing' # NoWrite /\ p \in ToSet(writing'.evicted)
    <2>1. /\ writing # NoWrite /\ HasVictim /\ p = Victim
          /\ writing' = [writing EXCEPT !.evicted = Reported]
      BY <1>3 DEF EvictOne, Forget, Die, store
    <2> QED BY <2>1, ReportedFacts
  <1>4. ASSUME NEW c, NEW q \in Paths, RemoveFile(c, q)
        PROVE  \E r \in sent' : r.op = "REMOVE" /\ r.path = p /\ r.code = "OK"
    <2>1. Reply(c, "REMOVE", q, "OK", <<>>) \in sent' /\ p = q
      BY <1>4 DEF RemoveFile, Forget, Answer, Die, store
    <2> QED BY <2>1 DEF Reply
  <1>5. ASSUME NEW c, NEW q, NEW lock, OpenExisting(c, q, lock)
        PROVE  FALSE
    BY <1>1, <1>5 DEF OpenExisting, Answer, store
  <1>6. ASSUME NEW c, NEW q, CloseFile(c, q) \/ LockFile(c, q) \/ UnlockFile(c, q)
        PROVE  FALSE
    BY <1>1, <1>6 DEF CloseFile, LockFile, UnlockFile, Answer, Die, store
  <1>7. ASSUME NEW c, NEW q, NEW n, AppendToFile(c, q, n)
        PROVE  FALSE
    BY <1>1, <1>7 DEF AppendToFile, Answer, Die, store
  <1>8. ASSUME NEW c, CloseConnection(c)
        PROVE  FALSE
    BY <1>1, <1>8 DEF CloseConnection, Die, store
  <1>9. ASSUME FinishWrite
        PROVE  FALSE
    BY <1>1, <1>9 DEF FinishWrite, Die, store
  <1>10. UNCHANGED store => FALSE
    BY <1>1 DEF store
  <1> QED BY <1>2, <1>3, <1>4, <1>5, <1>6, <1>7, <1>8, <1>9, <1>10
    DEF Next, Accept, ClientDies, OpenBadFlags, ReadFile, ReadNFiles, WriteFile, Answer

LEMMA StepList ==
    ASSUME IInv, Next
    PROVE  ListCarried
  <1> SUFFICES ASSUME writing # NoWrite, status' = "running"
               PROVE  \/ writing' # NoWrite /\ ToSet(writing.evicted) \subseteq ToSet(writing'.evicted)
                      \/ \E r \in sent' : r.to = writing.client /\ r.files = writing.evicted
    BY DEF ListCarried
  <1>1. ASSUME EvictOne
        PROVE  writing' # NoWrite /\ ToSet(writing.evicted) \subseteq ToSet(writing'.evicted)
    <2>1. HasVictim /\ writing' = [writing EXCEPT !.evicted = Reported]
      BY <1>1 DEF EvictOne, Die
    <2> QED BY <2>1, ReportedFacts
  <1>2. ASSUME FinishWrite
        PROVE  \E r \in sent' : r.to = writing.client /\ r.files = writing.evicted
    <2>1. Reply(writing.client, "WRITE", writing.path, "OK", writing.evicted) \in sent'
      BY <1>2 DEF FinishWrite, Die
    <2> QED BY <2>1 DEF Reply
  <1>3. CASE UNCHANGED writing
    BY <1>3
  <1>4. ASSUME NEW c, Serving(c)
        PROVE  FALSE
    BY <1>4 DEF Serving
  <1> QED BY <1>1, <1>2, <1>3, <1>4
    DEF Next, Accept, ClientDies, OpenCreate, OpenExisting, OpenBadFlags, CloseFile, ReadFile,
        ReadNFiles, WriteFile, AppendToFile, RemoveFile, LockFile, UnlockFile, CloseConnection

(* A file leaves the table only by a REMOVE answered OK or by an eviction  *)
(* that the answer to the request that caused it reports                   *)
(* (server.c:300, 621, 645).                                               *)
THEOREM LossReported == Spec => NoSilentLoss
  <1>1. IInv /\ Next => ReportedLoss /\ ListCarried
    BY StepLoss, StepList
  <1>2. IInv /\ [Next]_vars => [ReportedLoss /\ ListCarried]_vars
    BY <1>1
  <1> QED BY <1>2, Inductive, PTL DEF NoSilentLoss, Spec

-----------------------------------------------------------------------------
(* The FIFO is one, action by action.                                      *)
LEMMA StepFifo ==
    ASSUME IInv, Next
    PROVE  FifoStep
  <1> DEFINE old == Elements(filepaths)
             new == Elements(filepaths')
             Order == \A p, q \in old \cap new : Before(filepaths, p, q) => Before(filepaths', p, q)
             Behind == \A p \in old \cap new, q \in new \ old : Before(filepaths', p, q)
             Oldest == \A p \in hashtable \ hashtable' :
                          \/ \E r \in sent' : r.op = "REMOVE" /\ r.path = p
                          \/ p \in old /\ \A q \in old \ {p} : Before(filepaths, p, q)
  <1>0. /\ filepaths \in List(Paths) /\ Distinct(filepaths) /\ old \subseteq hashtable
        /\ FifoStep <=> Order /\ Behind /\ Oldest
    BY DEF IInv, TypeOK, IndexAgrees, FifoStep
  <1>1. ASSUME UNCHANGED <<hashtable, filepaths>>
        PROVE  FifoStep
    <2>1. Order /\ Behind /\ Oldest
      BY <1>1
    <2> QED BY <1>0, <2>1
  <1>2. ASSUME HasVictim
        PROVE  /\ Victim \in old /\ DropFirst(filepaths) \in List(Paths)
               /\ Elements(DropFirst(filepaths)) \subseteq old \ {Victim}
               /\ \A q \in old \ {Victim} : Before(filepaths, Victim, q)
               /\ \A p, q : Before(filepaths, p, q) /\ p # Victim => Before(DropFirst(filepaths), p, q)
    <2>1. filepaths.items # <<>> /\ Victim = Head(filepaths.items)
      BY <1>2 DEF HasVictim, Victim
    <2>2. /\ Victim \in old /\ DropFirst(filepaths) \in List(Paths)
          /\ Elements(DropFirst(filepaths)) \subseteq old \ {Victim}
      BY <1>0, <1>2, <2>1, VictimFacts, DropFirstList
    <2>3. /\ \A q \in old : q # Victim => Before(filepaths, Victim, q)
          /\ \A p, q : Before(filepaths, p, q) /\ p # Victim => Before(DropFirst(filepaths), p, q)
      BY <1>0, <2>1, DropFirstOrder
    <2> QED BY <2>2, <2>3
  <1>3. ASSUME NEW p \in Paths, p \notin hashtable, NEW rest \in List(Paths),
               filepaths' = PutLast(rest, p), Elements(rest) \subseteq old,
               \A d \in Elements(rest) : \A q : Before(filepaths, d, q) => Before(rest, d, q)
        PROVE  Order /\ Behind
    <2>1. /\ new \subseteq Elements(rest) \cup {p} /\ p \notin old /\ p \notin Elements(rest)
          /\ \A d, q : Before(rest, d, q) => Before(filepaths', d, q)
          /\ p \in new => \A d \in Elements(rest) : Before(filepaths', d, p)
      BY <1>0, <1>3, PutLastList, PutLastOrder
    <2>2. \A d \in old \cap new : d \in Elements(rest)
      BY <2>1
    <2>3. Order
      BY <1>3, <2>1, <2>2
    <2>4. \A q \in new \ old : q = p
      BY <1>3, <2>1
    <2>5. p \in new => \A d \in old \cap new : Before(filepaths', d, p)
      BY <2>1, <2>2
    <2>6. Behind
      <3> HIDE DEF old, new
      <3> QED BY <2>4, <2>5
    <2> QED BY <2>3, <2>6
  <1>4. ASSUME NEW c \in Clients, NEW p \in Paths, NEW lock \in BOOLEAN, OpenCreate(c, p, lock)
        PROVE  FifoStep
    <2>1. CASE UNCHANGED store
      BY <1>1, <2>1 DEF store
    <2>2. CASE p \notin hashtable /\ hashtable' = (hashtable \ {}) \cup {p} /\ filepaths' = PutLast(filepaths, p)
      <3>1. Order /\ Behind
        BY <1>0, <1>3, <2>2
      <3>2. Oldest
        BY <2>2
      <3> QED BY <1>0, <3>1, <3>2
    <2>3. CASE /\ p \notin hashtable /\ HasVictim /\ hashtable' = (hashtable \ {Victim}) \cup {p}
               /\ filepaths' = PutLast(DropFirst(filepaths), p)
      <3>1. Order /\ Behind
        BY <1>2, <1>3, <2>3
      <3>2. hashtable \ hashtable' \subseteq {Victim}
        BY <2>3
      <3>3. Oldest
        BY <1>2, <2>3, <3>2
      <3> QED BY <1>0, <3>1, <3>3
    <2> HIDE DEF Order, Behind, Oldest, old, new
    <2> QED BY <1>4, <2>1, <2>2, <2>3 DEF OpenCreate, StoreNew, Answer, Die
  <1>5. CASE EvictOne
    <2>1. CASE UNCHANGED store
      BY <1>1, <2>1 DEF store
    <2>2. CASE HasVictim /\ hashtable' = hashtable \ {Victim} /\ filepaths' = DropFirst(filepaths)
      <3>1. Order
        BY <1>2, <2>2
      <3>2. Behind
        BY <1>2, <2>2
      <3>3. Oldest
        BY <1>2, <2>2
      <3> QED BY <1>0, <3>1, <3>2, <3>3
    <2> HIDE DEF Order, Behind, Oldest, old, new
    <2> QED BY <1>5, <2>1, <2>2 DEF EvictOne, Forget, Die
  <1>6. ASSUME NEW c \in Clients, NEW p \in Paths, RemoveFile(c, p)
        PROVE  FifoStep
    <2>1. CASE UNCHANGED store
      BY <1>1, <2>1 DEF store
    <2>2. CASE /\ hashtable' = hashtable \ {p} /\ filepaths' = deleteFilepathNode(filepaths, p)
               /\ Reply(c, "REMOVE", p, "OK", <<>>) \in sent'
      <3>1. new \subseteq old \ {p}
        BY <1>0, <2>2, deleteFilepathNodeList
      <3>2. \A d, q : d # p /\ q # p /\ Before(filepaths, d, q) => Before(filepaths', d, q)
        BY <1>0, <2>2, UnlinkOrder DEF deleteFilepathNode
      <3>3. Order
        BY <3>1, <3>2
      <3>4. Behind
        BY <3>1
      <3>5. Oldest
        <4>1. Reply(c, "REMOVE", p, "OK", <<>>).op = "REMOVE" /\ Reply(c, "REMOVE", p, "OK", <<>>).path = p
          BY DEF Reply
        <4> QED BY <2>2, <4>1
      <3> QED BY <1>0, <3>3, <3>4, <3>5
    <2> HIDE DEF Order, Behind, Oldest, old, new
    <2> QED BY <1>6, <2>1, <2>2 DEF RemoveFile, Forget, Answer, Die
  <1> HIDE DEF Order, Behind, Oldest, old, new
  <1>7. ASSUME NEW c \in Clients,
               \/ Accept(c) \/ ClientDies(c) \/ CloseConnection(c)
               \/ \E n \in Counts : ReadNFiles(c, n)
        PROVE  UNCHANGED <<hashtable, filepaths>>
    BY <1>7 DEF Accept, ClientDies, CloseConnection, ReadNFiles, Answer, Die, store
  <1>8. ASSUME NEW c \in Clients, NEW p \in Paths,
               \/ \E lock \in BOOLEAN : OpenExisting(c, p, lock)
               \/ OpenBadFlags(c, p) \/ CloseFile(c, p) \/ ReadFile(c, p)
               \/ LockFile(c, p) \/ UnlockFile(c, p)
               \/ \E n \in Sizes : WriteFile(c, p, n) \/ AppendToFile(c, p, n)
        PROVE  UNCHANGED <<hashtable, filepaths>>
    BY <1>8 DEF OpenExisting, OpenBadFlags, CloseFile, ReadFile, LockFile, UnlockFile, WriteFile,
       AppendToFile, Answer, Die, store
  <1>9. CASE FinishWrite
    BY <1>1, <1>9 DEF FinishWrite, Die, store
  <1> QED BY <1>1, <1>4, <1>5, <1>6, <1>7, <1>8, <1>9 DEF Next

(* The files are evicted in the order in which they were created, whatever *)
(* nodes the list has lost behind its dangling tail (storage.c:226-302,    *)
(* server.c:295, 608, 834).                                                *)
THEOREM EvictionInOrder == Spec => EvictsInOrder
  <1>1. IInv /\ [Next]_vars => [FifoStep]_vars
    BY StepFifo
  <1> QED BY <1>1, Inductive, PTL DEF EvictsInOrder, Spec
===============================================================================
