-------------------------- MODULE FileLocks_proofs --------------------------
(***************************************************************************)
(* What the mutexes of the storage and of its files guarantee, for any     *)
(* number of workers and of files.                                         *)
(*                                                                         *)
(* The inductive invariant IInv adds to the properties of FileLocks what a *)
(* worker does at each place and the File it refers to there (Shape), and  *)
(* when a File is allocated, stored, taken out of the table and freed      *)
(* (Lifetimes).  Each conjunct has a lemma with one case per action.       *)
(***************************************************************************)
EXTENDS FileLocks, LinkedLists_proofs, FiniteSetTheorems

(* The types of everything but the two kinds of sequences, and of these.   *)
Fields ==
    /\ storagemtx \in Workers \cup {Nobody, Left}
    /\ ordering \in [Files -> Workers \cup {Nobody}]
    /\ mtx \in [Files -> Workers \cup {Nobody}]
    /\ readers \in [Files -> Nat]
    /\ writer \in [Files -> Workers \cup {Nobody}]
    /\ stored \subseteq Files
    /\ gone \subseteq Files
    /\ freed \subseteq Files
    /\ pc \in [Workers -> Places]
    /\ op \in [Workers -> Ops]
    /\ file \in [Workers -> Files \cup {NoFile}]
    /\ at \in [Workers -> Files \cup {NoFile}]
    /\ status \in Ends \cup {"running"}
    /\ released \in BOOLEAN

Lists ==
    /\ filepaths \in Seq(Files)
    /\ todo \in [Workers -> Seq(Files)]
    /\ \A w \in Workers : op[w] = "EXIT" /\ at[w] # NoFile => todo[w] # <<>>

(* The requests that have a File of their own, and those that use locks.   *)
Filling == {"CREATE", "WRITE", "EVICT", "APPEND"}
Using == Ops \ {"CREATE", "READN"}

Shape ==
    \A w \in Workers :
        /\ pc[w] = "idle" => op[w] = "EXIT"
        /\ pc[w] = "start" => op[w] \in {"CREATE", "READN", "WRITE", "APPEND", "EXIT"}
        /\ pc[w] \in {"ordering", "mtx"} => op[w] \in Using \ {"EXIT"}
        /\ pc[w] \in {"inside", "asleep", "woken"} => op[w] \in Using
        /\ pc[w] = "writing" => op[w] \in {"WRITE", "APPEND"}
        /\ pc[w] = "sending" => op[w] = "READ"
        /\ pc[w] = "freeing" => op[w] \in {"REMOVE", "CREATE"}
        /\ pc[w] = "inserting" => op[w] = "CREATE"
        /\ pc[w] \in {"exitmtx", "exitordering"} => op[w] = "EXIT"
        /\ IF pc[w] \in {"idle", "start", "inserting"} THEN at[w] = NoFile ELSE at[w] \in Files
        /\ IF op[w] \in Filling THEN file[w] \in Files ELSE file[w] = NoFile

Base == Fields /\ Shape

Lifetimes ==
    /\ freed \subseteq gone
    /\ \A w \in Workers : pc[w] = "freeing" => at[w] \in gone
    /\ stored \cap gone = {}
    /\ \A w \in Workers : op[w] = "CREATE" => file[w] \notin stored \cup gone
    /\ \A v, w \in Workers : op[v] = "CREATE" /\ op[w] = "CREATE" /\ v # w => file[v] # file[w]

(* The two halves of ReadersCounted.                                       *)
Counted == \A f \in Files : readers[f] = Cardinality(Sending(f))

WriterHolds ==
    \A f \in Files : writer[f] # Nobody => mtx[f] = writer[f] /\ pc[writer[f]] = "writing"

IInv ==
    /\ Base
    /\ Lists
    /\ StorageExclusive
    /\ LocksAccounted
    /\ Counted
    /\ WriterHolds
    /\ Lifetimes
    /\ RemovedUnused
    /\ DanglingReaders

(* What the exclusion of readers and writers needs besides: a mutex that   *)
(* was freed is free, a File is freed by one worker and only once, and a   *)
(* file that is written has no readers.                                    *)
Accessed ==
    /\ \A f \in freed : ordering[f] = Nobody /\ mtx[f] = Nobody
    /\ \A w \in Workers : pc[w] = "freeing" => at[w] \notin freed
    /\ \A v, w \in Workers : pc[v] = "freeing" /\ pc[w] = "freeing" /\ v # w => at[v] # at[w]
    /\ \A w \in Workers : pc[w] = "writing" => readers[at[w]] = 0

USE WorkersAssumption, FilesAssumption
USE DEF At, In, Goto, Forgotten, locks, counts, table, job

-----------------------------------------------------------------------------
(* The types.                                                              *)

(* A worker that sends a file is counted.                                  *)
LEMMA SenderCounted ==
    ASSUME Base, Counted, NEW w \in Workers, pc[w] = "sending"
    PROVE  readers[at[w]] > 0
  <1>1. at[w] \in Files /\ w \in Sending(at[w])
    BY DEF Base, Fields, Shape, Sending
  <1>2. IsFiniteSet(Sending(at[w]))
    BY FiniteAssumption, FS_Subset DEF Sending
  <1>3. Cardinality(Sending(at[w])) # 0 /\ Cardinality(Sending(at[w])) \in Nat
    BY <1>1, <1>2, FS_EmptySet, FS_CardinalityType
  <1> QED BY <1>1, <1>3 DEF Counted

(* The types of the fields of the files and of the threads.                *)
LEMMA FieldsStep ==
    ASSUME Base, Counted, NEW w \in Workers, Beginning(w) \/ Locking(w) \/ Handling(w) \/ SpuriousWake(w)
    PROVE  Fields'
  <1> USE DEF Base, Fields, Places, Ops, Releasing, Keeping, Ends, UnlockMtx, UnlockBoth
  <1>1. CASE \E o \in Ops, f \in Files : BeginFile(w, o, f)
    BY <1>1 DEF BeginFile, Begin
  <1>2. CASE \E o \in Ops, f \in Files : BeginFill(w, o, f)
    BY <1>2 DEF BeginFill, Begin
  <1>3. CASE \E f \in Files : BeginCreate(w, f)
    BY <1>3 DEF BeginCreate, Begin
  <1>4. CASE BeginReadN(w)
    BY <1>4 DEF BeginReadN, Begin
  <1>5. CASE BeginExit(w)
    BY <1>5 DEF BeginExit, Begin
  <1>36. CASE BeginNothing(w)
    BY <1>36 DEF BeginNothing
  <1>6. CASE LockOrdering(w)
    BY <1>6 DEF LockOrdering
  <1>7. CASE LockMtx(w)
    BY <1>7 DEF LockMtx, GivesUp
  <1>8. CASE Sleep(w)
    BY <1>8 DEF Sleep, WaitLocked, UnlockMtx
  <1>9. CASE Resume(w)
    BY <1>9 DEF Resume
  <1>10. CASE ExitMtx(w)
    BY <1>10 DEF ExitMtx
  <1>11. CASE ExitOrdering(w)
    BY <1>11 DEF ExitOrdering
  <1>12. CASE OpenFile(w)
    BY <1>12 DEF OpenFile, Proceed, Leave
  <1>13. CASE CloseFile(w)
    BY <1>13 DEF CloseFile, Proceed, Broadcast
  <1>14. CASE ReadDenied(w)
    BY <1>14 DEF ReadDenied, Leave
  <1>15. CASE ReadStart(w)
    BY <1>15 DEF ReadStart, Proceed, Enters, Shape
  <1>16. CASE ReadEnd(w)
    <2>1. at[w] \in Files /\ readers[at[w]] > 0
      BY <1>16, SenderCounted DEF ReadEnd, Shape
    <2>2. readers' \in [Files -> Nat]
      BY <1>16, <2>1 DEF ReadEnd, Leaves
    <2>3. \A q \in Signals(at[w]) : q \in [Workers -> Places]
      BY DEF Signals
    <2> QED BY <1>16, <2>2, <2>3 DEF ReadEnd
  <1>17. CASE LockFile(w)
    BY <1>17 DEF LockFile, Proceed, Broadcast
  <1>18. CASE LockDenied(w)
    BY <1>18 DEF LockDenied, Proceed, Die
  <1>19. CASE UnlockFile(w)
    BY <1>19 DEF UnlockFile, Proceed, Broadcast
  <1>20. CASE UnlockDenied(w)
    BY <1>20 DEF UnlockDenied, Proceed, Leave
  <1>21. CASE RemoveFile(w)
    BY <1>21 DEF RemoveFile, Proceed, Delete, Die
  <1>22. CASE FreeFile(w)
    BY <1>22 DEF FreeFile, Leave, Die, Shape
  <1>23. CASE CreateEvict(w)
    BY <1>23 DEF CreateEvict, Delete, HasVictim, Victim, Die
  <1>24. CASE CreateInsert(w)
    BY <1>24 DEF CreateInsert, Leave, Shape, Filling
  <1>25. CASE ReadNFiles(w)
    BY <1>25 DEF ReadNFiles, Leave
  <1>26. CASE EvictStart(w)
    <2>1. CASE HasVictim
      <3>1. Victim \in Files
        BY <2>1 DEF HasVictim, Victim
      <3>2. /\ at' = [at EXCEPT ![w] = Victim]
            /\ op' = [op EXCEPT ![w] = "EVICT"]
            /\ pc' = [pc EXCEPT ![w] = "ordering"]
            /\ UNCHANGED <<locks, counts, stored, gone, freed, file, status, released>>
        BY <1>26, <2>1 DEF EvictStart
      <3> QED BY <3>1, <3>2
    <2>2. CASE ~HasVictim
      BY <1>26, <2>2 DEF EvictStart, Die
    <2> QED BY <2>1, <2>2
  <1>27. CASE EvictEnd(w)
    BY <1>27 DEF EvictEnd, Proceed, Delete, Die
  <1>28. CASE AppendEvict(w)
    BY <1>28 DEF AppendEvict, Die
  <1>29. CASE Fill(w)
    BY <1>29 DEF Fill
  <1>30. CASE WriteStart(w)
    BY <1>30 DEF WriteStart
  <1>31. CASE WriteEnd(w)
    BY <1>31 DEF WriteEnd, Leave
  <1>32. CASE ExitNext(w)
    BY <1>32 DEF ExitNext, Leave, Die
  <1>33. CASE ExitVisit(w)
    <2>1. Broadcast(at[w]) \in [Workers -> Places]
      BY DEF Broadcast
    <2> QED BY <1>33, <2>1 DEF ExitVisit, Proceed
  <1>34. CASE UseFreed(w)
    BY <1>34 DEF UseFreed, Die
  <1>35. CASE SpuriousWake(w)
    BY <1>35 DEF SpuriousWake
  <1> QED BY <1>1, <1>2, <1>3, <1>4, <1>5, <1>6, <1>7, <1>8, <1>9, <1>10,
           <1>11, <1>12, <1>13, <1>14, <1>15, <1>16, <1>17, <1>18, <1>19, <1>20, <1>21,
           <1>22, <1>23, <1>24, <1>25, <1>26, <1>27, <1>28, <1>29, <1>30, <1>31, <1>32,
           <1>33, <1>34, <1>35, <1>36 DEF Beginning, Locking, Handling

(* A File leaves the FIFO.                                                 *)
LEMMA WithoutSeq ==
    ASSUME NEW s \in Seq(Files), NEW f
    PROVE  Without(s, f) \in Seq(Files)
  <1>1. CASE f \in ToSet(s)
    <2>1. FirstIndex(s, f) \in 1 .. Len(s)
      BY <1>1, FirstIndexSeq
    <2>2. RemoveAt(s, FirstIndex(s, f)) \in Seq(Files)
      BY <2>1, RemoveAtSeq
    <2> QED BY <1>1, <2>2 DEF Without
  <1>2. CASE f \notin ToSet(s)
    BY <1>2 DEF Without
  <1> QED BY <1>1, <1>2

(* The sequences change in few places.                                     *)
LEMMA ListsStep ==
    ASSUME Base, Lists, NEW w \in Workers, Beginning(w) \/ Locking(w) \/ Handling(w) \/ SpuriousWake(w)
    PROVE  Lists'
  <1> DEFINE Oldest == \/ filepaths' = filepaths
                       \/ filepaths # <<>> /\ filepaths' = Tail(filepaths)
                       \/ \E f \in Files : filepaths' = Append(filepaths, f)
                       \/ \E f \in Files : filepaths' = Without(filepaths, f)
             Visits == \/ todo' = todo
                       \/ todo' = [todo EXCEPT ![w] = <<>>]
                       \/ todo' = [todo EXCEPT ![w] = filepaths]
                       \/ todo' = [todo EXCEPT ![w] = Tail(todo[w])] /\ todo[w] # <<>>
             Visiting == \A v \in Workers : op[v] = "EXIT" /\ at[v] # NoFile => todo[v] # <<>>
  <1>1. Oldest /\ Visits /\ Visiting'
    <2> USE DEF Base, Fields, Lists
    <2>1. CASE \E o \in Ops, f \in Files : BeginFile(w, o, f)
      BY <2>1 DEF BeginFile, Begin, Releasing
    <2>2. CASE \E o \in Ops, f \in Files : BeginFill(w, o, f)
      BY <2>2 DEF BeginFill, Begin
    <2>3. CASE \E f \in Files : BeginCreate(w, f)
      BY <2>3 DEF BeginCreate, Begin
    <2>4. CASE BeginReadN(w)
      BY <2>4 DEF BeginReadN, Begin
    <2>5. CASE BeginExit(w)
      BY <2>5 DEF BeginExit, Begin, Shape
    <2>36. CASE BeginNothing(w)
      BY <2>36 DEF BeginNothing
    <2>6. CASE LockOrdering(w)
      BY <2>6 DEF LockOrdering
    <2>7. CASE LockMtx(w)
      BY <2>7 DEF LockMtx, GivesUp
    <2>8. CASE Sleep(w)
      BY <2>8 DEF Sleep, WaitLocked, UnlockMtx
    <2>9. CASE Resume(w)
      BY <2>9 DEF Resume
    <2>10. CASE ExitMtx(w)
      BY <2>10 DEF ExitMtx
    <2>11. CASE ExitOrdering(w)
      BY <2>11 DEF ExitOrdering
    <2>12. CASE OpenFile(w)
      BY <2>12 DEF OpenFile, Proceed, Leave
    <2>13. CASE CloseFile(w)
      BY <2>13 DEF CloseFile, Proceed, Broadcast
    <2>14. CASE ReadDenied(w)
      BY <2>14 DEF ReadDenied, Leave
    <2>15. CASE ReadStart(w)
      BY <2>15 DEF ReadStart, Proceed, Enters
    <2>16. CASE ReadEnd(w)
      BY <2>16 DEF ReadEnd, Leaves, Signals
    <2>17. CASE LockFile(w)
      BY <2>17 DEF LockFile, Proceed, Broadcast
    <2>18. CASE LockDenied(w)
      BY <2>18 DEF LockDenied, Proceed, Die
    <2>19. CASE UnlockFile(w)
      BY <2>19 DEF UnlockFile, Proceed, Broadcast
    <2>20. CASE UnlockDenied(w)
      BY <2>20 DEF UnlockDenied, Proceed, Leave
    <2>21. CASE RemoveFile(w)
      BY <2>21 DEF RemoveFile, Proceed, Delete, Die
    <2>22. CASE FreeFile(w)
      BY <2>22 DEF FreeFile, Leave, Die
    <2>23. CASE CreateEvict(w)
      BY <2>23 DEF CreateEvict, Delete, HasVictim, Victim, Die
    <2>24. CASE CreateInsert(w)
      BY <2>24 DEF CreateInsert, Leave, Shape, Filling
    <2>25. CASE ReadNFiles(w)
      BY <2>25 DEF ReadNFiles, Leave
    <2>26. CASE EvictStart(w)
      BY <2>26 DEF EvictStart, HasVictim, Victim, Die
    <2>27. CASE EvictEnd(w)
      BY <2>27 DEF EvictEnd, Proceed, Delete, Die
    <2>28. CASE AppendEvict(w)
      BY <2>28 DEF AppendEvict, Die
    <2>29. CASE Fill(w)
      BY <2>29 DEF Fill
    <2>30. CASE WriteStart(w)
      BY <2>30 DEF WriteStart
    <2>31. CASE WriteEnd(w)
      BY <2>31 DEF WriteEnd, Leave
    <2>32. CASE ExitNext(w)
      BY <2>32 DEF ExitNext, Leave, Die
    <2>33. CASE ExitVisit(w)
      BY <2>33 DEF ExitVisit, Proceed, Shape
    <2>34. CASE UseFreed(w)
      BY <2>34 DEF UseFreed, Die
    <2>35. CASE SpuriousWake(w)
      BY <2>35 DEF SpuriousWake
    <2> QED BY <2>1, <2>2, <2>3, <2>4, <2>5, <2>6, <2>7, <2>8, <2>9, <2>10,
             <2>11, <2>12, <2>13, <2>14, <2>15, <2>16, <2>17, <2>18, <2>19, <2>20, <2>21,
             <2>22, <2>23, <2>24, <2>25, <2>26, <2>27, <2>28, <2>29, <2>30, <2>31, <2>32,
             <2>33, <2>34, <2>35, <2>36 DEF Beginning, Locking, Handling
  <1>2. filepaths' \in Seq(Files)
    <2>1. filepaths \in Seq(Files)
      BY DEF Lists
    <2>2. \A f \in Files : Append(filepaths, f) \in Seq(Files)
      BY <2>1
    <2>3. filepaths # <<>> => Tail(filepaths) \in Seq(Files)
      BY <2>1
    <2> QED BY <1>1, <2>1, <2>2, <2>3, WithoutSeq
  <1>3. todo' \in [Workers -> Seq(Files)]
    <2>1. todo \in [Workers -> Seq(Files)] /\ filepaths \in Seq(Files)
      BY DEF Lists
    <2>2. todo[w] # <<>> => Tail(todo[w]) \in Seq(Files)
      BY <2>1
    <2>3. <<>> \in Seq(Files)
      OBVIOUS
    <2> HIDE DEF Visiting
    <2> QED BY <1>1, <2>1, <2>2, <2>3
  <1> QED BY <1>1, <1>2, <1>3 DEF Lists

(* What a worker does where, and with which Files.                         *)
LEMMA ShapeStep ==
    ASSUME Base, NEW w \in Workers, Beginning(w) \/ Locking(w) \/ Handling(w) \/ SpuriousWake(w)
    PROVE  Shape'
  <1> USE DEF Base, Fields, Shape, Filling, Using, Releasing, Keeping, Ops, UnlockMtx, UnlockBoth
  <1>1. CASE \E o \in Ops, f \in Files : BeginFile(w, o, f)
    BY <1>1 DEF BeginFile, Begin
  <1>2. CASE \E o \in Ops, f \in Files : BeginFill(w, o, f)
    BY <1>2 DEF BeginFill, Begin
  <1>3. CASE \E f \in Files : BeginCreate(w, f)
    BY <1>3 DEF BeginCreate, Begin
  <1>4. CASE BeginReadN(w)
    BY <1>4 DEF BeginReadN, Begin
  <1>5. CASE BeginExit(w)
    BY <1>5 DEF BeginExit, Begin
  <1>36. CASE BeginNothing(w)
    BY <1>36 DEF BeginNothing
  <1>6. CASE LockOrdering(w)
    BY <1>6 DEF LockOrdering
  <1>7. CASE LockMtx(w)
    BY <1>7 DEF LockMtx, GivesUp
  <1>8. CASE Sleep(w)
    BY <1>8 DEF Sleep, WaitLocked, UnlockMtx
  <1>9. CASE Resume(w)
    BY <1>9 DEF Resume
  <1>10. CASE ExitMtx(w)
    BY <1>10 DEF ExitMtx
  <1>11. CASE ExitOrdering(w)
    BY <1>11 DEF ExitOrdering
  <1>12. CASE OpenFile(w)
    BY <1>12 DEF OpenFile, Proceed, Leave
  <1>13. CASE CloseFile(w)
    BY <1>13 DEF CloseFile, Proceed, Broadcast
  <1>14. CASE ReadDenied(w)
    BY <1>14 DEF ReadDenied, Leave
  <1>15. CASE ReadStart(w)
    BY <1>15 DEF ReadStart, Proceed, Enters
  <1>16. CASE ReadEnd(w)
    BY <1>16 DEF ReadEnd, Leaves, Signals
  <1>17. CASE LockFile(w)
    BY <1>17 DEF LockFile, Proceed, Broadcast
  <1>18. CASE LockDenied(w)
    BY <1>18 DEF LockDenied, Proceed, Die
  <1>19. CASE UnlockFile(w)
    BY <1>19 DEF UnlockFile, Proceed, Broadcast
  <1>20. CASE UnlockDenied(w)
    BY <1>20 DEF UnlockDenied, Proceed, Leave
  <1>21. CASE RemoveFile(w)
    BY <1>21 DEF RemoveFile, Proceed, Delete, Die
  <1>22. CASE FreeFile(w)
    BY <1>22 DEF FreeFile, Leave, Die
  <1>23. CASE CreateEvict(w)
    BY <1>23 DEF CreateEvict, Delete, HasVictim, Victim, Die
  <1>24. CASE CreateInsert(w)
    BY <1>24 DEF CreateInsert, Leave
  <1>25. CASE ReadNFiles(w)
    BY <1>25 DEF ReadNFiles, Leave
  <1>26. CASE EvictStart(w)
    BY <1>26 DEF EvictStart, HasVictim, Victim, Die
  <1>27. CASE EvictEnd(w)
    BY <1>27 DEF EvictEnd, Proceed, Delete, Die
  <1>28. CASE AppendEvict(w)
    BY <1>28 DEF AppendEvict, Die
  <1>29. CASE Fill(w)
    BY <1>29 DEF Fill
  <1>30. CASE WriteStart(w)
    BY <1>30 DEF WriteStart
  <1>31. CASE WriteEnd(w)
    BY <1>31 DEF WriteEnd, Leave
  <1>32. CASE ExitNext(w)
    BY <1>32 DEF ExitNext, Leave, Die
  <1>33. CASE ExitVisit(w)
    BY <1>33 DEF ExitVisit, Proceed, Broadcast
  <1>34. CASE UseFreed(w)
    BY <1>34 DEF UseFreed, Die
  <1>35. CASE SpuriousWake(w)
    BY <1>35 DEF SpuriousWake
  <1> QED BY <1>1, <1>2, <1>3, <1>4, <1>5, <1>6, <1>7, <1>8, <1>9, <1>10,
           <1>11, <1>12, <1>13, <1>14, <1>15, <1>16, <1>17, <1>18, <1>19, <1>20, <1>21,
           <1>22, <1>23, <1>24, <1>25, <1>26, <1>27, <1>28, <1>29, <1>30, <1>31, <1>32,
           <1>33, <1>34, <1>35, <1>36 DEF Beginning, Locking, Handling

-----------------------------------------------------------------------------
(* The mutexes.                                                            *)

(* storagemtx changes hands only while nobody is in its code.              *)
LEMMA StorageStep ==
    ASSUME Base, StorageExclusive, NEW w \in Workers,
           Beginning(w) \/ Locking(w) \/ Handling(w) \/ SpuriousWake(w)
    PROVE  StorageExclusive'
  <1> USE DEF Base, Fields, Shape, StorageExclusive, InStorage, Releasing, Using, UnlockMtx, UnlockBoth
  <1>1. CASE \E o \in Ops, f \in Files : BeginFile(w, o, f)
    BY <1>1 DEF BeginFile, Begin
  <1>2. CASE \E o \in Ops, f \in Files : BeginFill(w, o, f)
    BY <1>2 DEF BeginFill, Begin
  <1>3. CASE \E f \in Files : BeginCreate(w, f)
    BY <1>3 DEF BeginCreate, Begin
  <1>4. CASE BeginReadN(w)
    BY <1>4 DEF BeginReadN, Begin
  <1>5. CASE BeginExit(w)
    BY <1>5 DEF BeginExit, Begin
  <1>36. CASE BeginNothing(w)
    BY <1>36 DEF BeginNothing
  <1>6. CASE LockOrdering(w)
    BY <1>6 DEF LockOrdering
  <1>7. CASE LockMtx(w)
    BY <1>7 DEF LockMtx, GivesUp
  <1>8. CASE Sleep(w)
    BY <1>8 DEF Sleep, WaitLocked, UnlockMtx
  <1>9. CASE Resume(w)
    BY <1>9 DEF Resume
  <1>10. CASE ExitMtx(w)
    BY <1>10 DEF ExitMtx
  <1>11. CASE ExitOrdering(w)
    BY <1>11 DEF ExitOrdering
  <1>12. CASE OpenFile(w)
    BY <1>12 DEF OpenFile, Proceed, Leave
  <1>13. CASE CloseFile(w)
    BY <1>13 DEF CloseFile, Proceed, Broadcast
  <1>14. CASE ReadDenied(w)
    BY <1>14 DEF ReadDenied, Leave
  <1>15. CASE ReadStart(w)
    BY <1>15 DEF ReadStart, Proceed, Enters
  <1>16. CASE ReadEnd(w)
    BY <1>16 DEF ReadEnd, Leaves, Signals
  <1>17. CASE LockFile(w)
    BY <1>17 DEF LockFile, Proceed, Broadcast
  <1>18. CASE LockDenied(w)
    BY <1>18 DEF LockDenied, Proceed, Die
  <1>19. CASE UnlockFile(w)
    BY <1>19 DEF UnlockFile, Proceed, Broadcast
  <1>20. CASE UnlockDenied(w)
    BY <1>20 DEF UnlockDenied, Proceed, Leave
  <1>21. CASE RemoveFile(w)
    BY <1>21 DEF RemoveFile, Proceed, Delete, Die
  <1>22. CASE FreeFile(w)
    BY <1>22 DEF FreeFile, Leave, Die
  <1>23. CASE CreateEvict(w)
    BY <1>23 DEF CreateEvict, Delete, HasVictim, Victim, Die
  <1>24. CASE CreateInsert(w)
    BY <1>24 DEF CreateInsert, Leave
  <1>25. CASE ReadNFiles(w)
    BY <1>25 DEF ReadNFiles, Leave
  <1>26. CASE EvictStart(w)
    BY <1>26 DEF EvictStart, HasVictim, Victim, Die
  <1>27. CASE EvictEnd(w)
    BY <1>27 DEF EvictEnd, Proceed, Delete, Die
  <1>28. CASE AppendEvict(w)
    BY <1>28 DEF AppendEvict, Die
  <1>29. CASE Fill(w)
    BY <1>29 DEF Fill
  <1>30. CASE WriteStart(w)
    BY <1>30 DEF WriteStart
  <1>31. CASE WriteEnd(w)
    BY <1>31 DEF WriteEnd, Leave
  <1>32. CASE ExitNext(w)
    <2>1. CASE todo[w] = <<>>
      <3>1. /\ pc[w] = "start" /\ op[w] = "EXIT" /\ storagemtx' = Nobody
            /\ Leave(w)
            /\ UNCHANGED <<stored, gone, freed, released>>
        BY <1>32, <2>1 DEF ExitNext
      <3> QED BY <3>1 DEF Leave
    <2>2. CASE todo[w] # <<>> /\ Head(todo[w]) \in stored
      <3>1. PICK f \in stored : at' = [at EXCEPT ![w] = f]
        BY <1>32, <2>2 DEF ExitNext
      <3>2. /\ pc[w] = "start" /\ op[w] = "EXIT"
            /\ pc' = [pc EXCEPT ![w] = "exitmtx"]
            /\ UNCHANGED <<locks, counts, table, op, file, released>>
        BY <1>32, <2>2 DEF ExitNext
      <3> QED BY <3>1, <3>2
    <2>3. CASE todo[w] # <<>> /\ Head(todo[w]) \notin stored
      BY <1>32, <2>3 DEF ExitNext, Die
    <2> QED BY <2>1, <2>2, <2>3
  <1>33. CASE ExitVisit(w)
    BY <1>33 DEF ExitVisit, Proceed, Broadcast
  <1>34. CASE UseFreed(w)
    BY <1>34 DEF UseFreed, Die
  <1>35. CASE SpuriousWake(w)
    BY <1>35 DEF SpuriousWake
  <1> QED BY <1>1, <1>2, <1>3, <1>4, <1>5, <1>6, <1>7, <1>8, <1>9, <1>10,
           <1>11, <1>12, <1>13, <1>14, <1>15, <1>16, <1>17, <1>18, <1>19, <1>20, <1>21,
           <1>22, <1>23, <1>24, <1>25, <1>26, <1>27, <1>28, <1>29, <1>30, <1>31, <1>32,
           <1>33, <1>34, <1>35, <1>36 DEF Beginning, Locking, Handling

(* Whoever unlocks a mutex of a File holds it.                             *)
LEMMA LocksStep ==
    ASSUME Base, LocksAccounted, NEW w \in Workers,
           Beginning(w) \/ Locking(w) \/ Handling(w) \/ SpuriousWake(w)
    PROVE  LocksAccounted'
  <1> USE DEF Base, Fields, Shape, LocksAccounted, InOrdering, InMtx, UnlockMtx, UnlockBoth
  <1>1. CASE \E o \in Ops, f \in Files : BeginFile(w, o, f)
    BY <1>1 DEF BeginFile, Begin
  <1>2. CASE \E o \in Ops, f \in Files : BeginFill(w, o, f)
    BY <1>2 DEF BeginFill, Begin
  <1>3. CASE \E f \in Files : BeginCreate(w, f)
    BY <1>3 DEF BeginCreate, Begin
  <1>4. CASE BeginReadN(w)
    BY <1>4 DEF BeginReadN, Begin
  <1>5. CASE BeginExit(w)
    BY <1>5 DEF BeginExit, Begin
  <1>36. CASE BeginNothing(w)
    BY <1>36 DEF BeginNothing
  <1>6. CASE LockOrdering(w)
    BY <1>6 DEF LockOrdering
  <1>7. CASE LockMtx(w)
    BY <1>7 DEF LockMtx, GivesUp
  <1>8. CASE Sleep(w)
    BY <1>8 DEF Sleep, WaitLocked, UnlockMtx
  <1>9. CASE Resume(w)
    BY <1>9 DEF Resume
  <1>10. CASE ExitMtx(w)
    BY <1>10 DEF ExitMtx
  <1>11. CASE ExitOrdering(w)
    BY <1>11 DEF ExitOrdering
  <1>12. CASE OpenFile(w)
    BY <1>12 DEF OpenFile, Proceed, Leave
  <1>13. CASE CloseFile(w)
    BY <1>13 DEF CloseFile, Proceed, Broadcast
  <1>14. CASE ReadDenied(w)
    BY <1>14 DEF ReadDenied, Leave
  <1>15. CASE ReadStart(w)
    BY <1>15 DEF ReadStart, Proceed, Enters
  <1>16. CASE ReadEnd(w)
    BY <1>16 DEF ReadEnd, Leaves, Signals
  <1>17. CASE LockFile(w)
    BY <1>17 DEF LockFile, Proceed, Broadcast
  <1>18. CASE LockDenied(w)
    BY <1>18 DEF LockDenied, Proceed, Die
  <1>19. CASE UnlockFile(w)
    BY <1>19 DEF UnlockFile, Proceed, Broadcast
  <1>20. CASE UnlockDenied(w)
    BY <1>20 DEF UnlockDenied, Proceed, Leave
  <1>21. CASE RemoveFile(w)
    BY <1>21 DEF RemoveFile, Proceed, Delete, Die
  <1>22. CASE FreeFile(w)
    BY <1>22 DEF FreeFile, Leave, Die
  <1>23. CASE CreateEvict(w)
    BY <1>23 DEF CreateEvict, Delete, HasVictim, Victim, Die
  <1>24. CASE CreateInsert(w)
    BY <1>24 DEF CreateInsert, Leave
  <1>25. CASE ReadNFiles(w)
    BY <1>25 DEF ReadNFiles, Leave
  <1>26. CASE EvictStart(w)
    BY <1>26 DEF EvictStart, HasVictim, Victim, Die
  <1>27. CASE EvictEnd(w)
    BY <1>27 DEF EvictEnd, Proceed, Delete, Die
  <1>28. CASE AppendEvict(w)
    BY <1>28 DEF AppendEvict, Die
  <1>29. CASE Fill(w)
    BY <1>29 DEF Fill
  <1>30. CASE WriteStart(w)
    BY <1>30 DEF WriteStart
  <1>31. CASE WriteEnd(w)
    BY <1>31 DEF WriteEnd, Leave
  <1>32. CASE ExitNext(w)
    BY <1>32 DEF ExitNext, Leave, Die
  <1>33. CASE ExitVisit(w)
    BY <1>33 DEF ExitVisit, Proceed, Broadcast
  <1>34. CASE UseFreed(w)
    BY <1>34 DEF UseFreed, Die
  <1>35. CASE SpuriousWake(w)
    BY <1>35 DEF SpuriousWake
  <1> QED BY <1>1, <1>2, <1>3, <1>4, <1>5, <1>6, <1>7, <1>8, <1>9, <1>10,
           <1>11, <1>12, <1>13, <1>14, <1>15, <1>16, <1>17, <1>18, <1>19, <1>20, <1>21,
           <1>22, <1>23, <1>24, <1>25, <1>26, <1>27, <1>28, <1>29, <1>30, <1>31, <1>32,
           <1>33, <1>34, <1>35, <1>36 DEF Beginning, Locking, Handling

(* A writer keeps mtx until it is no longer the writer.                    *)
LEMMA WriterStep ==
    ASSUME Base, LocksAccounted, WriterHolds, NEW w \in Workers,
           Beginning(w) \/ Locking(w) \/ Handling(w) \/ SpuriousWake(w)
    PROVE  WriterHolds'
  <1> USE DEF Base, Fields, Shape, LocksAccounted, InOrdering, InMtx, WriterHolds, UnlockMtx, UnlockBoth
  <1>1. CASE \E o \in Ops, f \in Files : BeginFile(w, o, f)
    BY <1>1 DEF BeginFile, Begin
  <1>2. CASE \E o \in Ops, f \in Files : BeginFill(w, o, f)
    BY <1>2 DEF BeginFill, Begin
  <1>3. CASE \E f \in Files : BeginCreate(w, f)
    BY <1>3 DEF BeginCreate, Begin
  <1>4. CASE BeginReadN(w)
    BY <1>4 DEF BeginReadN, Begin
  <1>5. CASE BeginExit(w)
    BY <1>5 DEF BeginExit, Begin
  <1>36. CASE BeginNothing(w)
    BY <1>36 DEF BeginNothing
  <1>6. CASE LockOrdering(w)
    BY <1>6 DEF LockOrdering
  <1>7. CASE LockMtx(w)
    BY <1>7 DEF LockMtx, GivesUp
  <1>8. CASE Sleep(w)
    BY <1>8 DEF Sleep, WaitLocked, UnlockMtx
  <1>9. CASE Resume(w)
    BY <1>9 DEF Resume
  <1>10. CASE ExitMtx(w)
    BY <1>10 DEF ExitMtx
  <1>11. CASE ExitOrdering(w)
    BY <1>11 DEF ExitOrdering
  <1>12. CASE OpenFile(w)
    BY <1>12 DEF OpenFile, Proceed, Leave
  <1>13. CASE CloseFile(w)
    BY <1>13 DEF CloseFile, Proceed, Broadcast
  <1>14. CASE ReadDenied(w)
    BY <1>14 DEF ReadDenied, Leave
  <1>15. CASE ReadStart(w)
    BY <1>15 DEF ReadStart, Proceed, Enters
  <1>16. CASE ReadEnd(w)
    BY <1>16 DEF ReadEnd, Leaves, Signals
  <1>17. CASE LockFile(w)
    BY <1>17 DEF LockFile, Proceed, Broadcast
  <1>18. CASE LockDenied(w)
    BY <1>18 DEF LockDenied, Proceed, Die
  <1>19. CASE UnlockFile(w)
    BY <1>19 DEF UnlockFile, Proceed, Broadcast
  <1>20. CASE UnlockDenied(w)
    BY <1>20 DEF UnlockDenied, Proceed, Leave
  <1>21. CASE RemoveFile(w)
    BY <1>21 DEF RemoveFile, Proceed, Delete, Die
  <1>22. CASE FreeFile(w)
    BY <1>22 DEF FreeFile, Leave, Die
  <1>23. CASE CreateEvict(w)
    BY <1>23 DEF CreateEvict, Delete, HasVictim, Victim, Die
  <1>24. CASE CreateInsert(w)
    BY <1>24 DEF CreateInsert, Leave
  <1>25. CASE ReadNFiles(w)
    BY <1>25 DEF ReadNFiles, Leave
  <1>26. CASE EvictStart(w)
    BY <1>26 DEF EvictStart, HasVictim, Victim, Die
  <1>27. CASE EvictEnd(w)
    BY <1>27 DEF EvictEnd, Proceed, Delete, Die
  <1>28. CASE AppendEvict(w)
    BY <1>28 DEF AppendEvict, Die
  <1>29. CASE Fill(w)
    BY <1>29 DEF Fill
  <1>30. CASE WriteStart(w)
    BY <1>30 DEF WriteStart
  <1>31. CASE WriteEnd(w)
    BY <1>31 DEF WriteEnd, Leave
  <1>32. CASE ExitNext(w)
    BY <1>32 DEF ExitNext, Leave, Die
  <1>33. CASE ExitVisit(w)
    BY <1>33 DEF ExitVisit, Proceed, Broadcast
  <1>34. CASE UseFreed(w)
    BY <1>34 DEF UseFreed, Die
  <1>35. CASE SpuriousWake(w)
    BY <1>35 DEF SpuriousWake
  <1> QED BY <1>1, <1>2, <1>3, <1>4, <1>5, <1>6, <1>7, <1>8, <1>9, <1>10,
           <1>11, <1>12, <1>13, <1>14, <1>15, <1>16, <1>17, <1>18, <1>19, <1>20, <1>21,
           <1>22, <1>23, <1>24, <1>25, <1>26, <1>27, <1>28, <1>29, <1>30, <1>31, <1>32,
           <1>33, <1>34, <1>35, <1>36 DEF Beginning, Locking, Handling

-----------------------------------------------------------------------------
(* The lives of the Files.                                                 *)
LEMMA LifetimesStep ==
    ASSUME Base, Lifetimes, NEW w \in Workers,
           Beginning(w) \/ Locking(w) \/ Handling(w) \/ SpuriousWake(w)
    PROVE  Lifetimes'
  <1> USE DEF Base, Fields, Shape, Lifetimes, Filling, Using, UnlockMtx, UnlockBoth
  <1>1. CASE \E o \in Ops, f \in Files : BeginFile(w, o, f)
    BY <1>1 DEF BeginFile, Begin
  <1>2. CASE \E o \in Ops, f \in Files : BeginFill(w, o, f)
    BY <1>2 DEF BeginFill, Begin
  <1>3. CASE \E f \in Files : BeginCreate(w, f)
    BY <1>3 DEF BeginCreate, Begin
  <1>4. CASE BeginReadN(w)
    BY <1>4 DEF BeginReadN, Begin
  <1>5. CASE BeginExit(w)
    BY <1>5 DEF BeginExit, Begin
  <1>36. CASE BeginNothing(w)
    BY <1>36 DEF BeginNothing
  <1>6. CASE LockOrdering(w)
    BY <1>6 DEF LockOrdering
  <1>7. CASE LockMtx(w)
    BY <1>7 DEF LockMtx, GivesUp
  <1>8. CASE Sleep(w)
    BY <1>8 DEF Sleep, WaitLocked, UnlockMtx
  <1>9. CASE Resume(w)
    BY <1>9 DEF Resume
  <1>10. CASE ExitMtx(w)
    BY <1>10 DEF ExitMtx
  <1>11. CASE ExitOrdering(w)
    BY <1>11 DEF ExitOrdering
  <1>12. CASE OpenFile(w)
    BY <1>12 DEF OpenFile, Proceed, Leave
  <1>13. CASE CloseFile(w)
    BY <1>13 DEF CloseFile, Proceed, Broadcast
  <1>14. CASE ReadDenied(w)
    BY <1>14 DEF ReadDenied, Leave
  <1>15. CASE ReadStart(w)
    BY <1>15 DEF ReadStart, Proceed, Enters
  <1>16. CASE ReadEnd(w)
    BY <1>16 DEF ReadEnd, Leaves, Signals
  <1>17. CASE LockFile(w)
    BY <1>17 DEF LockFile, Proceed, Broadcast
  <1>18. CASE LockDenied(w)
    BY <1>18 DEF LockDenied, Proceed, Die
  <1>19. CASE UnlockFile(w)
    BY <1>19 DEF UnlockFile, Proceed, Broadcast
  <1>20. CASE UnlockDenied(w)
    BY <1>20 DEF UnlockDenied, Proceed, Leave
  <1>21. CASE RemoveFile(w)
    BY <1>21 DEF RemoveFile, Proceed, Delete, Die
  <1>22. CASE FreeFile(w)
    <2>1. at[w] \in gone
      BY <1>22 DEF FreeFile
    <2>2. CASE ordering[at[w]] = Nobody /\ mtx[at[w]] = Nobody
      <3>1. /\ freed' = freed \cup {at[w]}
            /\ UNCHANGED <<gone, stored>>
            /\ pc'[w] \in {"idle", "inserting"}
            /\ op'[w] = "CREATE" => op[w] = "CREATE" /\ file'[w] = file[w]
            /\ \A v \in Workers \ {w} :
                   pc'[v] = pc[v] /\ at'[v] = at[v] /\ op'[v] = op[v] /\ file'[v] = file[v]
        BY <1>22, <2>2 DEF FreeFile, Leave
      <3> QED BY <2>1, <3>1
    <2>3. CASE ordering[at[w]] # Nobody \/ mtx[at[w]] # Nobody
      BY <1>22, <2>3 DEF FreeFile, Die
    <2> QED BY <2>2, <2>3
  <1>23. CASE CreateEvict(w)
    <2>1. CASE HasVictim
      <3>1. PICK f \in stored : Delete(f) /\ at' = [at EXCEPT ![w] = f]
        BY <1>23, <2>1 DEF CreateEvict, HasVictim, Victim
      <3>2. /\ pc' = [pc EXCEPT ![w] = "freeing"]
            /\ UNCHANGED <<freed, op, file>>
        BY <1>23, <2>1 DEF CreateEvict
      <3> QED BY <3>1, <3>2 DEF Delete
    <2>2. CASE ~HasVictim
      BY <1>23, <2>2 DEF CreateEvict, Die
    <2> QED BY <2>1, <2>2
  <1>24. CASE CreateInsert(w)
    BY <1>24 DEF CreateInsert, Leave
  <1>25. CASE ReadNFiles(w)
    BY <1>25 DEF ReadNFiles, Leave
  <1>26. CASE EvictStart(w)
    <2>1. \/ /\ op' = [op EXCEPT ![w] = "EVICT"]
             /\ pc' = [pc EXCEPT ![w] = "ordering"]
             /\ \A v \in Workers \ {w} : at'[v] = at[v]
             /\ UNCHANGED <<stored, gone, freed, file>>
          \/ UNCHANGED <<table, pc, job>>
      BY <1>26 DEF EvictStart, Die
    <2> QED BY <2>1
  <1>27. CASE EvictEnd(w)
    BY <1>27 DEF EvictEnd, Proceed, Delete, Die
  <1>28. CASE AppendEvict(w)
    BY <1>28 DEF AppendEvict, Die
  <1>29. CASE Fill(w)
    BY <1>29 DEF Fill
  <1>30. CASE WriteStart(w)
    BY <1>30 DEF WriteStart
  <1>31. CASE WriteEnd(w)
    BY <1>31 DEF WriteEnd, Leave
  <1>32. CASE ExitNext(w)
    <2>1. CASE todo[w] = <<>>
      <3>1. /\ pc[w] = "start" /\ op[w] = "EXIT" /\ storagemtx' = Nobody
            /\ Leave(w)
            /\ UNCHANGED <<stored, gone, freed, released>>
        BY <1>32, <2>1 DEF ExitNext
      <3> QED BY <3>1 DEF Leave
    <2>2. CASE todo[w] # <<>> /\ Head(todo[w]) \in stored
      <3>1. PICK f \in stored : at' = [at EXCEPT ![w] = f]
        BY <1>32, <2>2 DEF ExitNext
      <3>2. /\ pc[w] = "start" /\ op[w] = "EXIT"
            /\ pc' = [pc EXCEPT ![w] = "exitmtx"]
            /\ UNCHANGED <<locks, counts, table, op, file, released>>
        BY <1>32, <2>2 DEF ExitNext
      <3> QED BY <3>1, <3>2
    <2>3. CASE todo[w] # <<>> /\ Head(todo[w]) \notin stored
      BY <1>32, <2>3 DEF ExitNext, Die
    <2> QED BY <2>1, <2>2, <2>3
  <1>33. CASE ExitVisit(w)
    BY <1>33 DEF ExitVisit, Proceed, Broadcast
  <1>34. CASE UseFreed(w)
    BY <1>34 DEF UseFreed, Die
  <1>35. CASE SpuriousWake(w)
    BY <1>35 DEF SpuriousWake
  <1> QED BY <1>1, <1>2, <1>3, <1>4, <1>5, <1>6, <1>7, <1>8, <1>9, <1>10,
           <1>11, <1>12, <1>13, <1>14, <1>15, <1>16, <1>17, <1>18, <1>19, <1>20, <1>21,
           <1>22, <1>23, <1>24, <1>25, <1>26, <1>27, <1>28, <1>29, <1>30, <1>31, <1>32,
           <1>33, <1>34, <1>35, <1>36 DEF Beginning, Locking, Handling

(* While storagemtx keeps its promise, the workers beside the one in its   *)
(* code have no File but one that they send, or whose ordering they hold.  *)
LEMMA Bystander ==
    ASSUME Base, LocksAccounted, StorageExclusive, ~released,
           NEW w \in Workers, InStorage(w), NEW v \in Workers \ {w}
    PROVE  /\ ~InStorage(v)
           /\ file[v] = NoFile
           /\ at[v] = NoFile \/ pc[v] = "sending" \/ ordering[at[v]] = v
  <1>1. ~InStorage(v)
    BY DEF StorageExclusive
  <1>2. op[v] \notin Filling
    BY <1>1 DEF InStorage, Base, Fields, Shape, Filling, Using, Releasing
  <1>3. file[v] = NoFile
    BY <1>2 DEF Base, Fields, Shape
  <1>4. pc[v] \in {"idle", "sending", "inside", "asleep", "woken"}
    BY <1>1, <1>2 DEF InStorage, Base, Fields, Shape, Places, Ops, Filling, Using, Releasing
  <1>5. pc[v] = "idle" => at[v] = NoFile
    BY DEF Base, Shape
  <1>6. pc[v] \in {"inside", "asleep", "woken"} => ordering[at[v]] = v
    BY DEF Base, Shape, LocksAccounted, InOrdering
  <1> QED BY <1>1, <1>3, <1>4, <1>5, <1>6

(* While storagemtx is kept, nobody uses a file that REMOVE destroys.      *)
LEMMA RemovedStep ==
    ASSUME Base, LocksAccounted, StorageExclusive, Counted, RemovedUnused, NEW w \in Workers,
           Beginning(w) \/ Locking(w) \/ Handling(w) \/ SpuriousWake(w)
    PROVE  RemovedUnused'
  <1> USE DEF Base, Fields, Shape, RemovedUnused, StorageExclusive, LocksAccounted, InStorage
  <1> USE DEF InOrdering, Filling, Using, Releasing, UnlockMtx, UnlockBoth
  <1>1. CASE \E o \in Ops, f \in Files : BeginFile(w, o, f)
    BY <1>1 DEF BeginFile, Begin
  <1>2. CASE \E o \in Ops, f \in Files : BeginFill(w, o, f)
    BY <1>2 DEF BeginFill, Begin
  <1>3. CASE \E f \in Files : BeginCreate(w, f)
    BY <1>3 DEF BeginCreate, Begin
  <1>4. CASE BeginReadN(w)
    BY <1>4 DEF BeginReadN, Begin
  <1>5. CASE BeginExit(w)
    BY <1>5 DEF BeginExit, Begin
  <1>36. CASE BeginNothing(w)
    BY <1>36 DEF BeginNothing
  <1>6. CASE LockOrdering(w)
    BY <1>6 DEF LockOrdering
  <1>7. CASE LockMtx(w)
    BY <1>7 DEF LockMtx, GivesUp
  <1>8. CASE Sleep(w)
    BY <1>8 DEF Sleep, WaitLocked, UnlockMtx
  <1>9. CASE Resume(w)
    BY <1>9 DEF Resume
  <1>10. CASE ExitMtx(w)
    BY <1>10 DEF ExitMtx
  <1>11. CASE ExitOrdering(w)
    BY <1>11 DEF ExitOrdering
  <1>12. CASE OpenFile(w)
    BY <1>12 DEF OpenFile, Proceed, Leave
  <1>13. CASE CloseFile(w)
    BY <1>13 DEF CloseFile, Proceed, Broadcast
  <1>14. CASE ReadDenied(w)
    BY <1>14 DEF ReadDenied, Leave
  <1>15. CASE ReadStart(w)
    BY <1>15 DEF ReadStart, Proceed, Enters
  <1>16. CASE ReadEnd(w)
    BY <1>16 DEF ReadEnd, Leaves, Signals
  <1>17. CASE LockFile(w)
    BY <1>17 DEF LockFile, Proceed, Broadcast
  <1>18. CASE LockDenied(w)
    BY <1>18 DEF LockDenied, Proceed, Die
  <1>19. CASE UnlockFile(w)
    BY <1>19 DEF UnlockFile, Proceed, Broadcast
  <1>20. CASE UnlockDenied(w)
    BY <1>20 DEF UnlockDenied, Proceed, Leave
  <1>21. CASE RemoveFile(w)
    <2>1. CASE at[w] \in stored
      <3> DEFINE f == at[w]
      <3>1. Sending(f) = {}
        <4>1. readers[f] = 0 /\ IsFiniteSet(Sending(f))
          BY <1>21, FiniteAssumption, FS_Subset DEF RemoveFile, Proceed, MustWait, Sending
        <4> QED BY <1>21, <4>1, FS_EmptySet DEF RemoveFile, Proceed, Counted
      <3>2. InStorage(w) /\ f \in Files /\ ordering[f] = w
        BY <1>21 DEF RemoveFile, Proceed
      <3>3. \A v \in Workers \ {w} :
                ~released => ~InStorage(v) /\ at[v] # f /\ file[v] # f
        BY <3>1, <3>2, Bystander DEF Sending
      <3>4. /\ pc' = [pc EXCEPT ![w] = "freeing"]
            /\ UNCHANGED <<at, op, file, released>>
        BY <1>21, <2>1 DEF RemoveFile
      <3> HIDE DEF f
      <3>5. ASSUME NEW v \in Workers, ~released, pc'[v] = "freeing", op[v] = "REMOVE"
            PROVE  \A u \in Workers \ {v} : at[v] \notin {at[u], file[u]}
        BY <1>21, <3>3, <3>4, <3>5 DEF f, RemoveFile, Proceed
      <3> QED BY <3>4, <3>5
    <2>2. CASE at[w] \notin stored
      BY <1>21, <2>2 DEF RemoveFile, Die
    <2> QED BY <2>1, <2>2
  <1>22. CASE FreeFile(w)
    BY <1>22 DEF FreeFile, Leave, Die
  <1>23. CASE CreateEvict(w)
    <2>1. \A v \in Workers \ {w} : ~released => pc[v] # "freeing"
      <3>1. InStorage(w)
        BY <1>23 DEF CreateEvict
      <3> QED BY <3>1, Bystander
    <2>2. pc'[w] # "freeing" \/ op'[w] # "REMOVE"
      BY <1>23 DEF CreateEvict, Leave, Die
    <2>3. \A v \in Workers \ {w} : pc'[v] = pc[v] /\ released' = released
      BY <1>23 DEF CreateEvict, Leave, Die
    <2> QED BY <2>1, <2>2, <2>3
  <1>24. CASE CreateInsert(w)
    BY <1>24 DEF CreateInsert, Leave
  <1>25. CASE ReadNFiles(w)
    BY <1>25 DEF ReadNFiles, Leave
  <1>26. CASE EvictStart(w)
    <2>1. \A v \in Workers \ {w} : ~released => pc[v] # "freeing"
      <3>1. InStorage(w)
        BY <1>26 DEF EvictStart
      <3> QED BY <3>1, Bystander
    <2>2. pc'[w] # "freeing" \/ op'[w] # "REMOVE"
      BY <1>26 DEF EvictStart, Leave, Die
    <2>3. \A v \in Workers \ {w} : pc'[v] = pc[v] /\ released' = released
      BY <1>26 DEF EvictStart, Leave, Die
    <2> QED BY <2>1, <2>2, <2>3
  <1>27. CASE EvictEnd(w)
    BY <1>27 DEF EvictEnd, Proceed, Delete, Die
  <1>28. CASE AppendEvict(w)
    BY <1>28 DEF AppendEvict, Die
  <1>29. CASE Fill(w)
    BY <1>29 DEF Fill
  <1>30. CASE WriteStart(w)
    BY <1>30 DEF WriteStart
  <1>31. CASE WriteEnd(w)
    BY <1>31 DEF WriteEnd, Leave
  <1>32. CASE ExitNext(w)
    <2>1. \A v \in Workers \ {w} : ~released => pc[v] # "freeing"
      <3>1. InStorage(w)
        BY <1>32 DEF ExitNext
      <3> QED BY <3>1, Bystander
    <2>2. pc'[w] # "freeing" \/ op'[w] # "REMOVE"
      BY <1>32 DEF ExitNext, Leave, Die
    <2>3. \A v \in Workers \ {w} : pc'[v] = pc[v] /\ released' = released
      BY <1>32 DEF ExitNext, Leave, Die
    <2> QED BY <2>1, <2>2, <2>3
  <1>33. CASE ExitVisit(w)
    BY <1>33 DEF ExitVisit, Proceed, Broadcast
  <1>34. CASE UseFreed(w)
    BY <1>34 DEF UseFreed, Die
  <1>35. CASE SpuriousWake(w)
    BY <1>35 DEF SpuriousWake
  <1> QED BY <1>1, <1>2, <1>3, <1>4, <1>5, <1>6, <1>7, <1>8, <1>9, <1>10,
           <1>11, <1>12, <1>13, <1>14, <1>15, <1>16, <1>17, <1>18, <1>19, <1>20, <1>21,
           <1>22, <1>23, <1>24, <1>25, <1>26, <1>27, <1>28, <1>29, <1>30, <1>31, <1>32,
           <1>33, <1>34, <1>35, <1>36 DEF Beginning, Locking, Handling

(* Only a reader that sends may still have a file that was freed.          *)
LEMMA DanglingStep ==
    ASSUME Base, LocksAccounted, StorageExclusive, RemovedUnused, Lifetimes, DanglingReaders,
           NEW w \in Workers, Beginning(w) \/ Locking(w) \/ Handling(w) \/ SpuriousWake(w)
    PROVE  DanglingReaders'
  <1> USE DEF Base, Fields, Shape, DanglingReaders, RemovedUnused, StorageExclusive, LocksAccounted
  <1> USE DEF Lifetimes, InStorage, InOrdering, Filling, Using, Releasing, UnlockMtx, UnlockBoth
  <1>1. CASE \E o \in Ops, f \in Files : BeginFile(w, o, f)
    BY <1>1 DEF BeginFile, Begin
  <1>2. CASE \E o \in Ops, f \in Files : BeginFill(w, o, f)
    BY <1>2 DEF BeginFill, Begin
  <1>3. CASE \E f \in Files : BeginCreate(w, f)
    BY <1>3 DEF BeginCreate, Begin
  <1>4. CASE BeginReadN(w)
    BY <1>4 DEF BeginReadN, Begin
  <1>5. CASE BeginExit(w)
    BY <1>5 DEF BeginExit, Begin
  <1>36. CASE BeginNothing(w)
    BY <1>36 DEF BeginNothing
  <1>6. CASE LockOrdering(w)
    BY <1>6 DEF LockOrdering
  <1>7. CASE LockMtx(w)
    BY <1>7 DEF LockMtx, GivesUp
  <1>8. CASE Sleep(w)
    BY <1>8 DEF Sleep, WaitLocked, UnlockMtx
  <1>9. CASE Resume(w)
    BY <1>9 DEF Resume
  <1>10. CASE ExitMtx(w)
    BY <1>10 DEF ExitMtx
  <1>11. CASE ExitOrdering(w)
    BY <1>11 DEF ExitOrdering
  <1>12. CASE OpenFile(w)
    BY <1>12 DEF OpenFile, Proceed, Leave
  <1>13. CASE CloseFile(w)
    BY <1>13 DEF CloseFile, Proceed, Broadcast
  <1>14. CASE ReadDenied(w)
    BY <1>14 DEF ReadDenied, Leave
  <1>15. CASE ReadStart(w)
    BY <1>15 DEF ReadStart, Proceed, Enters
  <1>16. CASE ReadEnd(w)
    BY <1>16 DEF ReadEnd, Leaves, Signals
  <1>17. CASE LockFile(w)
    BY <1>17 DEF LockFile, Proceed, Broadcast
  <1>18. CASE LockDenied(w)
    BY <1>18 DEF LockDenied, Proceed, Die
  <1>19. CASE UnlockFile(w)
    BY <1>19 DEF UnlockFile, Proceed, Broadcast
  <1>20. CASE UnlockDenied(w)
    BY <1>20 DEF UnlockDenied, Proceed, Leave
  <1>21. CASE RemoveFile(w)
    BY <1>21 DEF RemoveFile, Proceed, Delete, Die
  <1>22. CASE FreeFile(w)
    <2>1. CASE ordering[at[w]] = Nobody /\ mtx[at[w]] = Nobody
      <3>1. /\ freed' = freed \cup {at[w]}
            /\ UNCHANGED <<gone, stored, released>>
            /\ pc'[w] \in {"idle", "inserting"} /\ at'[w] = NoFile
            /\ file'[w] \in {file[w], NoFile}
            /\ \A v \in Workers \ {w} : pc'[v] = pc[v] /\ at'[v] = at[v] /\ file'[v] = file[v]
        BY <1>22, <2>1 DEF FreeFile, Leave
      <3>2. InStorage(w) /\ at[w] \in Files
        BY <1>22 DEF FreeFile
      <3>3. \A v \in Workers \ {w} :
                ~released => file[v] = NoFile /\ (at[v] = at[w] => pc[v] = "sending")
        BY <2>1, <3>2, Bystander
      <3>4. op[w] = "REMOVE" => file[w] = NoFile
        BY <1>22
      <3>5. op[w] = "CREATE" => file[w] \notin gone /\ file[w] # at[w]
        BY <1>22 DEF FreeFile
      <3>6. at[w] \in Files /\ op[w] \in {"REMOVE", "CREATE"}
        BY <1>22 DEF FreeFile
      <3> QED BY <3>1, <3>3, <3>4, <3>5, <3>6
    <2>2. CASE ordering[at[w]] # Nobody \/ mtx[at[w]] # Nobody
      BY <1>22, <2>2 DEF FreeFile, Die
    <2> QED BY <2>1, <2>2
  <1>23. CASE CreateEvict(w)
    BY <1>23 DEF CreateEvict, Delete, HasVictim, Victim, Die
  <1>24. CASE CreateInsert(w)
    BY <1>24 DEF CreateInsert, Leave
  <1>25. CASE ReadNFiles(w)
    BY <1>25 DEF ReadNFiles, Leave
  <1>26. CASE EvictStart(w)
    BY <1>26 DEF EvictStart, HasVictim, Victim, Die
  <1>27. CASE EvictEnd(w)
    BY <1>27 DEF EvictEnd, Proceed, Delete, Die
  <1>28. CASE AppendEvict(w)
    BY <1>28 DEF AppendEvict, Die
  <1>29. CASE Fill(w)
    BY <1>29 DEF Fill
  <1>30. CASE WriteStart(w)
    BY <1>30 DEF WriteStart
  <1>31. CASE WriteEnd(w)
    BY <1>31 DEF WriteEnd, Leave
  <1>32. CASE ExitNext(w)
    BY <1>32 DEF ExitNext, Leave, Die
  <1>33. CASE ExitVisit(w)
    BY <1>33 DEF ExitVisit, Proceed, Broadcast
  <1>34. CASE UseFreed(w)
    BY <1>34 DEF UseFreed, Die
  <1>35. CASE SpuriousWake(w)
    BY <1>35 DEF SpuriousWake
  <1> QED BY <1>1, <1>2, <1>3, <1>4, <1>5, <1>6, <1>7, <1>8, <1>9, <1>10,
           <1>11, <1>12, <1>13, <1>14, <1>15, <1>16, <1>17, <1>18, <1>19, <1>20, <1>21,
           <1>22, <1>23, <1>24, <1>25, <1>26, <1>27, <1>28, <1>29, <1>30, <1>31, <1>32,
           <1>33, <1>34, <1>35, <1>36 DEF Beginning, Locking, Handling

(* Nobody wakes a worker that sleeps on writecond.                         *)
LEMMA WakesStep ==
    ASSUME Base, LocksAccounted, WriterHolds, NEW w \in Workers,
           Beginning(w) \/ Locking(w) \/ Handling(w) \/ SpuriousWake(w)
    PROVE  WakeStep
  <1> USE DEF Base, Fields, Shape, WakeStep, LocksAccounted, InOrdering, InMtx, WriterHolds
  <1>1. CASE \E o \in Ops, f \in Files : BeginFile(w, o, f)
    BY <1>1 DEF BeginFile, Begin
  <1>2. CASE \E o \in Ops, f \in Files : BeginFill(w, o, f)
    BY <1>2 DEF BeginFill, Begin
  <1>3. CASE \E f \in Files : BeginCreate(w, f)
    BY <1>3 DEF BeginCreate, Begin
  <1>4. CASE BeginReadN(w)
    BY <1>4 DEF BeginReadN, Begin
  <1>5. CASE BeginExit(w)
    BY <1>5 DEF BeginExit, Begin
  <1>36. CASE BeginNothing(w)
    BY <1>36 DEF BeginNothing
  <1>6. CASE LockOrdering(w)
    BY <1>6 DEF LockOrdering
  <1>7. CASE LockMtx(w)
    BY <1>7 DEF LockMtx, GivesUp
  <1>8. CASE Sleep(w)
    BY <1>8 DEF Sleep, WaitLocked, UnlockMtx
  <1>9. CASE Resume(w)
    BY <1>9 DEF Resume
  <1>10. CASE ExitMtx(w)
    BY <1>10 DEF ExitMtx
  <1>11. CASE ExitOrdering(w)
    BY <1>11 DEF ExitOrdering
  <1>12. CASE OpenFile(w)
    BY <1>12 DEF OpenFile, Proceed, Leave
  <1>13. CASE CloseFile(w)
    BY <1>13 DEF CloseFile, Proceed, Broadcast
  <1>14. CASE ReadDenied(w)
    BY <1>14 DEF ReadDenied, Leave
  <1>15. CASE ReadStart(w)
    BY <1>15 DEF ReadStart, Proceed, Enters
  <1>16. CASE ReadEnd(w)
    <2>1. writer[at[w]] = Nobody
      BY <1>16 DEF ReadEnd
    <2> QED BY <1>16, <2>1 DEF ReadEnd
  <1>17. CASE LockFile(w)
    BY <1>17 DEF LockFile, Proceed, Broadcast
  <1>18. CASE LockDenied(w)
    BY <1>18 DEF LockDenied, Proceed, Die
  <1>19. CASE UnlockFile(w)
    BY <1>19 DEF UnlockFile, Proceed, Broadcast
  <1>20. CASE UnlockDenied(w)
    BY <1>20 DEF UnlockDenied, Proceed, Leave
  <1>21. CASE RemoveFile(w)
    BY <1>21 DEF RemoveFile, Proceed, Delete, Die
  <1>22. CASE FreeFile(w)
    BY <1>22 DEF FreeFile, Leave, Die
  <1>23. CASE CreateEvict(w)
    BY <1>23 DEF CreateEvict, Delete, HasVictim, Victim, Die
  <1>24. CASE CreateInsert(w)
    BY <1>24 DEF CreateInsert, Leave
  <1>25. CASE ReadNFiles(w)
    BY <1>25 DEF ReadNFiles, Leave
  <1>26. CASE EvictStart(w)
    BY <1>26 DEF EvictStart, HasVictim, Victim, Die
  <1>27. CASE EvictEnd(w)
    BY <1>27 DEF EvictEnd, Proceed, Delete, Die
  <1>28. CASE AppendEvict(w)
    BY <1>28 DEF AppendEvict, Die
  <1>29. CASE Fill(w)
    BY <1>29 DEF Fill
  <1>30. CASE WriteStart(w)
    BY <1>30 DEF WriteStart
  <1>31. CASE WriteEnd(w)
    BY <1>31 DEF WriteEnd, Leave
  <1>32. CASE ExitNext(w)
    BY <1>32 DEF ExitNext, Leave, Die
  <1>33. CASE ExitVisit(w)
    BY <1>33 DEF ExitVisit, Proceed, Broadcast
  <1>34. CASE UseFreed(w)
    BY <1>34 DEF UseFreed, Die
  <1>35. CASE SpuriousWake(w)
    <2>1. \A v \in Workers \ {w} : pc'[v] = pc[v]
      BY <1>35 DEF SpuriousWake
    <2> QED BY <1>35, <2>1
  <1> QED BY <1>1, <1>2, <1>3, <1>4, <1>5, <1>6, <1>7, <1>8, <1>9, <1>10,
           <1>11, <1>12, <1>13, <1>14, <1>15, <1>16, <1>17, <1>18, <1>19, <1>20, <1>21,
           <1>22, <1>23, <1>24, <1>25, <1>26, <1>27, <1>28, <1>29, <1>30, <1>31, <1>32,
           <1>33, <1>34, <1>35, <1>36 DEF Beginning, Locking, Handling

(* A reader enters and leaves the workers that send the file.              *)
LEMMA CountedStep ==
    ASSUME Base, Counted, NEW w \in Workers,
           Beginning(w) \/ Locking(w) \/ Handling(w) \/ SpuriousWake(w)
    PROVE  Counted'
  <1> USE DEF Base, Fields, Shape, Sending, UnlockMtx, UnlockBoth
  <1> DEFINE Same == readers' = readers /\ \A v \in Workers :
                         \/ pc'[v] # "sending" /\ pc[v] # "sending"
                         \/ pc'[v] = pc[v] /\ at'[v] = at[v]
  <1>a. ASSUME Same PROVE Counted'
    <2>1. \A f \in Files : Sending(f)' = Sending(f)
      BY <1>a
    <2> QED BY <1>a, <2>1 DEF Counted
  <1>b. \A f \in Files : IsFiniteSet(Sending(f))
    BY FiniteAssumption, FS_Subset
  <1> HIDE DEF Sending
  <1>1. CASE \E o \in Ops, f \in Files : BeginFile(w, o, f)
    <2>1. Same
      BY <1>1 DEF BeginFile, Begin
    <2> QED BY <2>1, <1>a
  <1>2. CASE \E o \in Ops, f \in Files : BeginFill(w, o, f)
    <2>1. Same
      BY <1>2 DEF BeginFill, Begin
    <2> QED BY <2>1, <1>a
  <1>3. CASE \E f \in Files : BeginCreate(w, f)
    <2>1. Same
      BY <1>3 DEF BeginCreate, Begin
    <2> QED BY <2>1, <1>a
  <1>4. CASE BeginReadN(w)
    <2>1. Same
      BY <1>4 DEF BeginReadN, Begin
    <2> QED BY <2>1, <1>a
  <1>5. CASE BeginExit(w)
    <2>1. Same
      BY <1>5 DEF BeginExit, Begin
    <2> QED BY <2>1, <1>a
  <1>36. CASE BeginNothing(w)
    <2>1. Same
      BY <1>36 DEF BeginNothing
    <2> QED BY <2>1, <1>a
  <1>6. CASE LockOrdering(w)
    <2>1. Same
      BY <1>6 DEF LockOrdering
    <2> QED BY <2>1, <1>a
  <1>7. CASE LockMtx(w)
    <2>1. Same
      BY <1>7 DEF LockMtx, GivesUp
    <2> QED BY <2>1, <1>a
  <1>8. CASE Sleep(w)
    <2>1. Same
      BY <1>8 DEF Sleep, WaitLocked, UnlockMtx
    <2> QED BY <2>1, <1>a
  <1>9. CASE Resume(w)
    <2>1. Same
      BY <1>9 DEF Resume
    <2> QED BY <2>1, <1>a
  <1>10. CASE ExitMtx(w)
    <2>1. Same
      BY <1>10 DEF ExitMtx
    <2> QED BY <2>1, <1>a
  <1>11. CASE ExitOrdering(w)
    <2>1. Same
      BY <1>11 DEF ExitOrdering
    <2> QED BY <2>1, <1>a
  <1>12. CASE OpenFile(w)
    <2>1. Same
      BY <1>12 DEF OpenFile, Proceed, Leave
    <2> QED BY <2>1, <1>a
  <1>13. CASE CloseFile(w)
    <2>1. Same
      BY <1>13 DEF CloseFile, Proceed, Broadcast
    <2> QED BY <2>1, <1>a
  <1>14. CASE ReadDenied(w)
    <2>1. Same
      BY <1>14 DEF ReadDenied, Leave
    <2> QED BY <2>1, <1>a
  <1>15. CASE ReadStart(w)
    <2>1. PICK f \in Files : f = at[w]
      BY <1>15 DEF ReadStart, Proceed
    <2>2. /\ Sending(f)' = Sending(f) \cup {w}
          /\ w \notin Sending(f)
          /\ \A g \in Files \ {f} : Sending(g)' = Sending(g)
      BY <1>15, <2>1 DEF ReadStart, Proceed, Sending
    <2>3. Cardinality(Sending(f) \cup {w}) = Cardinality(Sending(f)) + 1
      BY <1>b, <2>2, FS_AddElement
    <2>4. readers' = [readers EXCEPT ![f] = @ + 1]
      BY <1>15, <2>1 DEF ReadStart, Enters
    <2> QED BY <2>2, <2>3, <2>4 DEF Counted
  <1>16. CASE ReadEnd(w)
    <2>1. PICK f \in Files : f = at[w] /\ w \in Sending(f)
      BY <1>16 DEF ReadEnd, Sending
    <2>2. PICK q \in IF writer[f] # Nobody THEN Signals(f) ELSE {pc} :
              pc' = [q EXCEPT ![w] = "idle"]
      BY <1>16, <2>1 DEF ReadEnd
    <2>3. /\ q \in [Workers -> Places]
          /\ \A v \in Workers : q[v] = pc[v] \/ (q[v] = "woken" /\ pc[v] = "asleep")
      BY <2>2 DEF Signals, Places
    <2>4. at' = [at EXCEPT ![w] = NoFile]
      BY <1>16 DEF ReadEnd
    <2>5. /\ Sending(f)' = Sending(f) \ {w}
          /\ \A g \in Files \ {f} : Sending(g)' = Sending(g)
      BY <1>16, <2>1, <2>2, <2>3, <2>4 DEF ReadEnd, Sending
    <2>6. Cardinality(Sending(f) \ {w}) = Cardinality(Sending(f)) - 1
      BY <1>b, <2>1, FS_RemoveElement
    <2>7. readers' = [readers EXCEPT ![f] = @ - 1]
      BY <1>16, <2>1 DEF ReadEnd, Leaves
    <2> QED BY <2>5, <2>6, <2>7 DEF Counted
  <1>17. CASE LockFile(w)
    <2>1. Same
      BY <1>17 DEF LockFile, Proceed, Broadcast
    <2> QED BY <2>1, <1>a
  <1>18. CASE LockDenied(w)
    <2>1. Same
      BY <1>18 DEF LockDenied, Proceed, Die
    <2> QED BY <2>1, <1>a
  <1>19. CASE UnlockFile(w)
    <2>1. Same
      BY <1>19 DEF UnlockFile, Proceed, Broadcast
    <2> QED BY <2>1, <1>a
  <1>20. CASE UnlockDenied(w)
    <2>1. Same
      BY <1>20 DEF UnlockDenied, Proceed, Leave
    <2> QED BY <2>1, <1>a
  <1>21. CASE RemoveFile(w)
    <2>1. Same
      BY <1>21 DEF RemoveFile, Proceed, Delete, Die
    <2> QED BY <2>1, <1>a
  <1>22. CASE FreeFile(w)
    <2>1. Same
      BY <1>22 DEF FreeFile, Leave, Die
    <2> QED BY <2>1, <1>a
  <1>23. CASE CreateEvict(w)
    <2>1. Same
      BY <1>23 DEF CreateEvict, Delete, HasVictim, Victim, Die
    <2> QED BY <2>1, <1>a
  <1>24. CASE CreateInsert(w)
    <2>1. Same
      BY <1>24 DEF CreateInsert, Leave
    <2> QED BY <2>1, <1>a
  <1>25. CASE ReadNFiles(w)
    <2>1. Same
      BY <1>25 DEF ReadNFiles, Leave
    <2> QED BY <2>1, <1>a
  <1>26. CASE EvictStart(w)
    <2>1. Same
      BY <1>26 DEF EvictStart, HasVictim, Victim, Die
    <2> QED BY <2>1, <1>a
  <1>27. CASE EvictEnd(w)
    <2>1. Same
      BY <1>27 DEF EvictEnd, Proceed, Delete, Die
    <2> QED BY <2>1, <1>a
  <1>28. CASE AppendEvict(w)
    <2>1. Same
      BY <1>28 DEF AppendEvict, Die
    <2> QED BY <2>1, <1>a
  <1>29. CASE Fill(w)
    <2>1. Same
      BY <1>29 DEF Fill
    <2> QED BY <2>1, <1>a
  <1>30. CASE WriteStart(w)
    <2>1. Same
      BY <1>30 DEF WriteStart
    <2> QED BY <2>1, <1>a
  <1>31. CASE WriteEnd(w)
    <2>1. Same
      BY <1>31 DEF WriteEnd, Leave
    <2> QED BY <2>1, <1>a
  <1>32. CASE ExitNext(w)
    <2>1. Same
      BY <1>32 DEF ExitNext, Leave, Die
    <2> QED BY <2>1, <1>a
  <1>33. CASE ExitVisit(w)
    <2>1. Same
      BY <1>33 DEF ExitVisit, Proceed, Broadcast
    <2> QED BY <2>1, <1>a
  <1>34. CASE UseFreed(w)
    <2>1. Same
      BY <1>34 DEF UseFreed, Die
    <2> QED BY <2>1, <1>a
  <1>35. CASE SpuriousWake(w)
    <2>1. Same
      BY <1>35 DEF SpuriousWake
    <2> QED BY <2>1, <1>a
  <1> QED BY <1>1, <1>2, <1>3, <1>4, <1>5, <1>6, <1>7, <1>8, <1>9, <1>10,
           <1>11, <1>12, <1>13, <1>14, <1>15, <1>16, <1>17, <1>18, <1>19, <1>20, <1>21,
           <1>22, <1>23, <1>24, <1>25, <1>26, <1>27, <1>28, <1>29, <1>30, <1>31, <1>32,
           <1>33, <1>34, <1>35, <1>36 DEF Beginning, Locking, Handling

-----------------------------------------------------------------------------
(* The accesses to the contents of the Files.                              *)

(* Freed mutexes are free, no File is freed twice, and a writer has waited *)
(* for all readers.                                                        *)
LEMMA AccessedStep ==
    ASSUME IInv, Accessed, NEW w \in Workers,
           Beginning(w) \/ Locking(w) \/ Handling(w) \/ SpuriousWake(w)
    PROVE  Accessed'
  <1> USE DEF IInv, Base, Fields, Shape, LocksAccounted, InOrdering, InMtx, Lifetimes, Accessed
  <1> USE DEF Filling, Using, UnlockMtx, UnlockBoth
  <1>1. CASE \E o \in Ops, f \in Files : BeginFile(w, o, f)
    BY <1>1 DEF BeginFile, Begin
  <1>2. CASE \E o \in Ops, f \in Files : BeginFill(w, o, f)
    BY <1>2 DEF BeginFill, Begin
  <1>3. CASE \E f \in Files : BeginCreate(w, f)
    BY <1>3 DEF BeginCreate, Begin
  <1>4. CASE BeginReadN(w)
    BY <1>4 DEF BeginReadN, Begin
  <1>5. CASE BeginExit(w)
    BY <1>5 DEF BeginExit, Begin
  <1>36. CASE BeginNothing(w)
    BY <1>36 DEF BeginNothing
  <1>6. CASE LockOrdering(w)
    BY <1>6 DEF LockOrdering
  <1>7. CASE LockMtx(w)
    BY <1>7 DEF LockMtx, GivesUp
  <1>8. CASE Sleep(w)
    BY <1>8 DEF Sleep, WaitLocked, UnlockMtx
  <1>9. CASE Resume(w)
    BY <1>9 DEF Resume
  <1>10. CASE ExitMtx(w)
    BY <1>10 DEF ExitMtx
  <1>11. CASE ExitOrdering(w)
    BY <1>11 DEF ExitOrdering
  <1>12. CASE OpenFile(w)
    BY <1>12 DEF OpenFile, Proceed, Leave
  <1>13. CASE CloseFile(w)
    <2>1. \A v \in Workers : pc'[v] \in {pc[v], "woken", "idle"}
      BY <1>13 DEF CloseFile, Broadcast
    <2>2. /\ pc'[w] = "idle" /\ at' = [at EXCEPT ![w] = NoFile] /\ UNCHANGED <<readers, freed>>
          /\ ordering' = [ordering EXCEPT ![at[w]] = Nobody] /\ mtx' = [mtx EXCEPT ![at[w]] = Nobody]
      BY <1>13 DEF CloseFile, Broadcast
    <2> QED BY <2>1, <2>2
  <1>14. CASE ReadDenied(w)
    BY <1>14 DEF ReadDenied, Leave
  <1>15. CASE ReadStart(w)
    BY <1>15 DEF ReadStart, Proceed, Enters
  <1>16. CASE ReadEnd(w)
    <2>1. PICK f \in Files : f = at[w] /\ readers[f] > 0
      BY <1>16, SenderCounted DEF ReadEnd
    <2>2. readers' = [readers EXCEPT ![f] = @ - 1] /\ at' = [at EXCEPT ![w] = NoFile]
      BY <1>16, <2>1 DEF ReadEnd, Leaves
    <2>3. \A v \in Workers : pc'[v] \in {pc[v], "woken", "idle"}
      BY <1>16 DEF ReadEnd, Signals
    <2>4. pc'[w] = "idle" /\ UNCHANGED <<ordering, mtx, freed>>
      BY <1>16 DEF ReadEnd, Signals
    <2> QED BY <2>1, <2>2, <2>3, <2>4
  <1>17. CASE LockFile(w)
    <2>1. \A v \in Workers : pc'[v] \in {pc[v], "woken", "idle"}
      BY <1>17 DEF LockFile, Broadcast
    <2>2. /\ pc'[w] = "idle" /\ at' = [at EXCEPT ![w] = NoFile] /\ UNCHANGED <<readers, freed>>
          /\ ordering' = [ordering EXCEPT ![at[w]] = Nobody] /\ mtx' = [mtx EXCEPT ![at[w]] = Nobody]
      BY <1>17 DEF LockFile, Broadcast
    <2> QED BY <2>1, <2>2
  <1>18. CASE LockDenied(w)
    BY <1>18 DEF LockDenied, Proceed, Die
  <1>19. CASE UnlockFile(w)
    <2>1. \A v \in Workers : pc'[v] \in {pc[v], "woken", "idle"}
      BY <1>19 DEF UnlockFile, Broadcast
    <2>2. /\ pc'[w] = "idle" /\ at' = [at EXCEPT ![w] = NoFile] /\ UNCHANGED <<readers, freed>>
          /\ ordering' = [ordering EXCEPT ![at[w]] = Nobody] /\ mtx' = [mtx EXCEPT ![at[w]] = Nobody]
      BY <1>19 DEF UnlockFile, Broadcast
    <2> QED BY <2>1, <2>2
  <1>20. CASE UnlockDenied(w)
    BY <1>20 DEF UnlockDenied, Proceed, Leave
  <1>21. CASE RemoveFile(w)
    BY <1>21 DEF RemoveFile, Proceed, Delete, Die
  <1>22. CASE FreeFile(w)
    <2>1. CASE UNCHANGED <<ordering, mtx, freed, pc, at, readers>>
      BY <2>1
    <2>2. CASE freed' = freed \cup {at[w]}
      <3>1. PICK f \in Files : f = at[w] /\ f \notin freed
        BY <1>22 DEF FreeFile
      <3>2. /\ ordering[f] = Nobody /\ mtx[f] = Nobody
            /\ freed' = freed \cup {f}
            /\ UNCHANGED <<ordering, mtx, readers>>
            /\ \E p \in {"idle", "inserting"} : pc' = [pc EXCEPT ![w] = p]
            /\ at' = [at EXCEPT ![w] = NoFile]
        BY <1>22, <2>2, <3>1 DEF FreeFile, Leave, Die
      <3> QED BY <1>22, <3>1, <3>2 DEF FreeFile
    <2> QED BY <1>22, <2>1, <2>2 DEF FreeFile, Die
  <1>23. CASE CreateEvict(w)
    <2>1. CASE HasVictim
      <3>1. PICK f \in Files : f = Victim /\ f \in stored
        BY <2>1 DEF HasVictim, Victim
      <3>2. at' = [at EXCEPT ![w] = f] /\ pc' = [pc EXCEPT ![w] = "freeing"]
        BY <1>23, <2>1, <3>1 DEF CreateEvict
      <3>3. UNCHANGED <<ordering, mtx, readers, freed>>
        BY <1>23, <2>1 DEF CreateEvict
      <3> QED BY <1>23, <3>1, <3>2, <3>3 DEF CreateEvict
    <2>2. CASE ~HasVictim
      BY <1>23, <2>2 DEF CreateEvict, Die
    <2> QED BY <2>1, <2>2
  <1>24. CASE CreateInsert(w)
    BY <1>24 DEF CreateInsert, Leave
  <1>25. CASE ReadNFiles(w)
    BY <1>25 DEF ReadNFiles, Leave
  <1>26. CASE EvictStart(w)
    <2>1. \A v \in Workers : (pc'[v] = pc[v] /\ at'[v] = at[v]) \/ pc'[v] = "ordering"
      BY <1>26 DEF EvictStart, Die
    <2>2. UNCHANGED <<ordering, mtx, readers, freed>>
      BY <1>26 DEF EvictStart, Die
    <2> QED BY <2>1, <2>2
  <1>27. CASE EvictEnd(w)
    BY <1>27 DEF EvictEnd, Proceed, Delete, Die
  <1>28. CASE AppendEvict(w)
    BY <1>28 DEF AppendEvict, Die
  <1>29. CASE Fill(w)
    BY <1>29 DEF Fill
  <1>30. CASE WriteStart(w)
    BY <1>30 DEF WriteStart, MustWait
  <1>31. CASE WriteEnd(w)
    BY <1>31 DEF WriteEnd, Leave
  <1>32. CASE ExitNext(w)
    <2>1. \A v \in Workers : (pc'[v] = pc[v] /\ at'[v] = at[v]) \/ pc'[v] \in {"idle", "exitmtx"}
      BY <1>32 DEF ExitNext, Leave, Die
    <2>2. UNCHANGED <<ordering, mtx, readers, freed>>
      BY <1>32 DEF ExitNext, Leave, Die
    <2> QED BY <2>1, <2>2
  <1>33. CASE ExitVisit(w)
    <2>1. \A v \in Workers : (pc'[v] = pc[v] /\ at'[v] = at[v]) \/ pc'[v] \in {"start", "woken"}
      BY <1>33 DEF ExitVisit, Broadcast
    <2>2. \A f \in Files : /\ ordering[f] = Nobody => ordering'[f] = Nobody
                           /\ mtx[f] = Nobody => mtx'[f] = Nobody
      BY <1>33 DEF ExitVisit
    <2>3. UNCHANGED <<readers, freed>>
      BY <1>33 DEF ExitVisit
    <2> QED BY <2>1, <2>2, <2>3
  <1>34. CASE UseFreed(w)
    BY <1>34 DEF UseFreed, Die
  <1>35. CASE SpuriousWake(w)
    BY <1>35 DEF SpuriousWake
  <1> QED BY <1>1, <1>2, <1>3, <1>4, <1>5, <1>6, <1>7, <1>8, <1>9, <1>10,
           <1>11, <1>12, <1>13, <1>14, <1>15, <1>16, <1>17, <1>18, <1>19, <1>20, <1>21,
           <1>22, <1>23, <1>24, <1>25, <1>26, <1>27, <1>28, <1>29, <1>30, <1>31, <1>32,
           <1>33, <1>34, <1>35, <1>36 DEF Beginning, Locking, Handling

(* Every step is one of the abstract accesses, or none.                    *)
LEMMA AccessStep ==
    ASSUME IInv, Accessed, NEW w \in Workers,
           Beginning(w) \/ Locking(w) \/ Handling(w) \/ SpuriousWake(w)
    PROVE  [Contents!Next]_Contents!vars
  <1> USE DEF IInv, Base, Fields, Shape, LocksAccounted, InMtx, Accessed, UnlockMtx, UnlockBoth
  <1> DEFINE Same == freed' = freed /\ \A v \in Workers :
                         \/ pc'[v] \notin {"sending", "writing"} /\ pc[v] \notin {"sending", "writing"}
                         \/ pc'[v] = pc[v] /\ at'[v] = at[v]
  <1>a. ASSUME Same PROVE [Contents!Next]_Contents!vars
    <2> HIDE DEF IInv, Base, Fields, Shape, LocksAccounted, InMtx, Accessed
    <2>1. \A f \in Files : Sending(f)' = Sending(f) /\ Writing(f)' = Writing(f)
      BY <1>a DEF Sending, Writing
    <2>2. /\ [f \in Files |-> Sending(f)]' = [f \in Files |-> Sending(f)]
          /\ [f \in Files |-> Writing(f)]' = [f \in Files |-> Writing(f)]
      BY <2>1
    <2> QED BY <1>a, <2>2 DEF Contents!vars
  <1>1. CASE \E o \in Ops, f \in Files : BeginFile(w, o, f)
    <2>1. Same
      BY <1>1 DEF BeginFile, Begin
    <2> QED BY <2>1, <1>a
  <1>2. CASE \E o \in Ops, f \in Files : BeginFill(w, o, f)
    <2>1. Same
      BY <1>2 DEF BeginFill, Begin
    <2> QED BY <2>1, <1>a
  <1>3. CASE \E f \in Files : BeginCreate(w, f)
    <2>1. Same
      BY <1>3 DEF BeginCreate, Begin
    <2> QED BY <2>1, <1>a
  <1>4. CASE BeginReadN(w)
    <2>1. Same
      BY <1>4 DEF BeginReadN, Begin
    <2> QED BY <2>1, <1>a
  <1>5. CASE BeginExit(w)
    <2>1. Same
      BY <1>5 DEF BeginExit, Begin
    <2> QED BY <2>1, <1>a
  <1>36. CASE BeginNothing(w)
    <2>1. Same
      BY <1>36 DEF BeginNothing
    <2> QED BY <2>1, <1>a
  <1>6. CASE LockOrdering(w)
    <2>1. Same
      BY <1>6 DEF LockOrdering
    <2> QED BY <2>1, <1>a
  <1>7. CASE LockMtx(w)
    <2>1. Same
      BY <1>7 DEF LockMtx, GivesUp
    <2> QED BY <2>1, <1>a
  <1>8. CASE Sleep(w)
    <2>1. Same
      BY <1>8 DEF Sleep, WaitLocked, UnlockMtx
    <2> QED BY <2>1, <1>a
  <1>9. CASE Resume(w)
    <2>1. Same
      BY <1>9 DEF Resume
    <2> QED BY <2>1, <1>a
  <1>10. CASE ExitMtx(w)
    <2>1. Same
      BY <1>10 DEF ExitMtx
    <2> QED BY <2>1, <1>a
  <1>11. CASE ExitOrdering(w)
    <2>1. Same
      BY <1>11 DEF ExitOrdering
    <2> QED BY <2>1, <1>a
  <1>12. CASE OpenFile(w)
    <2>1. Same
      BY <1>12 DEF OpenFile, Proceed, Leave
    <2> QED BY <2>1, <1>a
  <1>13. CASE CloseFile(w)
    <2>1. Same
      BY <1>13 DEF CloseFile, Proceed, Broadcast
    <2> QED BY <2>1, <1>a
  <1>14. CASE ReadDenied(w)
    <2>1. Same
      BY <1>14 DEF ReadDenied, Leave
    <2> QED BY <2>1, <1>a
  <1>15. CASE ReadStart(w)
    <2>1. PICK g \in Files : g = at[w] /\ mtx[g] = w /\ w \notin Sending(g)
      BY <1>15 DEF ReadStart, Proceed, Sending
    <2>2. Writing(g) = {} /\ g \notin freed
      BY <1>15, <2>1 DEF ReadStart, Proceed, Writing
    <2>3. pc' = [pc EXCEPT ![w] = "sending"] /\ at' = at /\ freed' = freed
      BY <1>15 DEF ReadStart
    <2>4. \A f \in Files : /\ Sending(f)' = IF f = g THEN Sending(f) \cup {w} ELSE Sending(f)
                           /\ Writing(f)' = Writing(f)
      BY <1>15, <2>1, <2>3 DEF ReadStart, Proceed, Sending, Writing
    <2> HIDE DEF IInv, Base, Fields, Shape, LocksAccounted, InMtx, Accessed
    <2>5. Contents!StartRead(w, g)
      BY <2>1, <2>2, <2>3, <2>4 DEF Contents!StartRead
    <2> QED BY <2>5 DEF Contents!Next
  <1>16. CASE ReadEnd(w)
    <2>1. PICK g \in Files : g = at[w] /\ w \in Sending(g) /\ g \notin freed
      BY <1>16 DEF ReadEnd, Sending
    <2>2. /\ \A v \in Workers : pc'[v] = pc[v] \/ (pc[v] = "asleep" /\ pc'[v] = "woken") \/ v = w
          /\ pc'[w] = "idle"
      BY <1>16 DEF ReadEnd, Signals
    <2>3. at' = [at EXCEPT ![w] = NoFile] /\ freed' = freed
      BY <1>16 DEF ReadEnd
    <2>4. \A f \in Files : /\ Sending(f)' = IF f = g THEN Sending(f) \ {w} ELSE Sending(f)
                           /\ Writing(f)' = Writing(f)
      BY <1>16, <2>1, <2>2, <2>3 DEF ReadEnd, Sending, Writing
    <2> HIDE DEF IInv, Base, Fields, Shape, LocksAccounted, InMtx, Accessed
    <2>5. Contents!EndRead(w, g)
      BY <2>1, <2>3, <2>4 DEF Contents!EndRead
    <2> QED BY <2>5 DEF Contents!Next
  <1>17. CASE LockFile(w)
    <2>1. Same
      BY <1>17 DEF LockFile, Proceed, Broadcast
    <2> QED BY <2>1, <1>a
  <1>18. CASE LockDenied(w)
    <2>1. Same
      BY <1>18 DEF LockDenied, Proceed, Die
    <2> QED BY <2>1, <1>a
  <1>19. CASE UnlockFile(w)
    <2>1. Same
      BY <1>19 DEF UnlockFile, Proceed, Broadcast
    <2> QED BY <2>1, <1>a
  <1>20. CASE UnlockDenied(w)
    <2>1. Same
      BY <1>20 DEF UnlockDenied, Proceed, Leave
    <2> QED BY <2>1, <1>a
  <1>21. CASE RemoveFile(w)
    <2>1. Same
      BY <1>21 DEF RemoveFile, Proceed, Delete, Die
    <2> QED BY <2>1, <1>a
  <1>22. CASE FreeFile(w)
    <2>1. CASE UNCHANGED <<freed, pc, at>>
      BY <2>1, <1>a
    <2>2. CASE freed' = freed \cup {at[w]}
      <3>1. PICK g \in Files : g = at[w] /\ g \notin freed /\ mtx[g] = Nobody
        BY <1>22, <2>2 DEF FreeFile, Die
      <3>2. Writing(g) = {}
        BY <3>1 DEF Writing
      <3>3. \A v \in Workers : (pc'[v] = pc[v] /\ at'[v] = at[v]) \/ v = w
        BY <1>22 DEF FreeFile, Leave, Die
      <3>4. pc[w] = "freeing" /\ pc'[w] \in {"idle", "inserting", "freeing"}
        BY <1>22 DEF FreeFile, Leave, Die
      <3>5. \A f \in Files : Writing(f)' = Writing(f) /\ Sending(f)' = Sending(f)
        BY <3>3, <3>4 DEF Sending, Writing
      <3>6. Contents!Free(g)
        BY <2>2, <3>1, <3>2, <3>5 DEF Contents!Free
      <3> QED BY <3>6 DEF Contents!Next
    <2> QED BY <1>22, <2>1, <2>2 DEF FreeFile, Die
  <1>23. CASE CreateEvict(w)
    <2>1. Same
      BY <1>23 DEF CreateEvict, Delete, HasVictim, Victim, Die
    <2> QED BY <2>1, <1>a
  <1>24. CASE CreateInsert(w)
    <2>1. Same
      BY <1>24 DEF CreateInsert, Leave
    <2> QED BY <2>1, <1>a
  <1>25. CASE ReadNFiles(w)
    <2>1. Same
      BY <1>25 DEF ReadNFiles, Leave
    <2> QED BY <2>1, <1>a
  <1>26. CASE EvictStart(w)
    <2>1. Same
      BY <1>26 DEF EvictStart, HasVictim, Victim, Die
    <2> QED BY <2>1, <1>a
  <1>27. CASE EvictEnd(w)
    <2>1. Same
      BY <1>27 DEF EvictEnd, Proceed, Delete, Die
    <2> QED BY <2>1, <1>a
  <1>28. CASE AppendEvict(w)
    <2>1. Same
      BY <1>28 DEF AppendEvict, Die
    <2> QED BY <2>1, <1>a
  <1>29. CASE Fill(w)
    <2>1. Same
      BY <1>29 DEF Fill
    <2> QED BY <2>1, <1>a
  <1>30. CASE WriteStart(w)
    <2>1. PICK g \in Files : g = at[w] /\ mtx[g] = w /\ readers[g] = 0
      BY <1>30 DEF WriteStart, MustWait
    <2>2. Sending(g) = {}
      <3>1. IsFiniteSet(Sending(g)) /\ Cardinality(Sending(g)) = 0
        BY <2>1, FiniteAssumption, FS_Subset DEF Sending, Counted
      <3> QED BY <3>1, FS_EmptySet
    <2>3. Writing(g) = {} /\ g \notin freed
      BY <1>30, <2>1 DEF WriteStart, Writing
    <2>4. pc' = [pc EXCEPT ![w] = "writing"] /\ at' = at /\ freed' = freed
      BY <1>30 DEF WriteStart
    <2>5. \A f \in Files : /\ Writing(f)' = IF f = g THEN {w} ELSE Writing(f)
                           /\ Sending(f)' = Sending(f)
      BY <1>30, <2>1, <2>3, <2>4 DEF WriteStart, Sending, Writing
    <2> HIDE DEF IInv, Base, Fields, Shape, LocksAccounted, InMtx, Accessed
    <2>6. Contents!StartWrite(w, g)
      BY <2>2, <2>3, <2>4, <2>5 DEF Contents!StartWrite
    <2> QED BY <2>6 DEF Contents!Next
  <1>31. CASE WriteEnd(w)
    <2>1. PICK g \in Files : g = at[w] /\ mtx[g] = w /\ g \notin freed
      BY <1>31 DEF WriteEnd
    <2>2. Writing(g) = {w}
      BY <1>31, <2>1 DEF WriteEnd, Writing
    <2>3. pc' = [pc EXCEPT ![w] = "idle"] /\ at' = [at EXCEPT ![w] = NoFile] /\ freed' = freed
      BY <1>31 DEF WriteEnd, Leave
    <2>4. \A f \in Files : /\ Writing(f)' = IF f = g THEN {} ELSE Writing(f)
                           /\ Sending(f)' = Sending(f)
      BY <1>31, <2>1, <2>2, <2>3 DEF WriteEnd, Sending, Writing
    <2> HIDE DEF IInv, Base, Fields, Shape, LocksAccounted, InMtx, Accessed
    <2>5. Contents!EndWrite(w, g)
      BY <2>1, <2>2, <2>3, <2>4 DEF Contents!EndWrite
    <2> QED BY <2>5 DEF Contents!Next
  <1>32. CASE ExitNext(w)
    <2>1. Same
      BY <1>32 DEF ExitNext, Leave, Die
    <2> QED BY <2>1, <1>a
  <1>33. CASE ExitVisit(w)
    <2>1. Same
      BY <1>33 DEF ExitVisit, Proceed, Broadcast
    <2> QED BY <2>1, <1>a
  <1>34. CASE UseFreed(w)
    <2>1. Same
      BY <1>34 DEF UseFreed, Die
    <2> QED BY <2>1, <1>a
  <1>35. CASE SpuriousWake(w)
    <2>1. Same
      BY <1>35 DEF SpuriousWake
    <2> QED BY <2>1, <1>a
  <1> QED BY <1>1, <1>2, <1>3, <1>4, <1>5, <1>6, <1>7, <1>8, <1>9, <1>10,
           <1>11, <1>12, <1>13, <1>14, <1>15, <1>16, <1>17, <1>18, <1>19, <1>20, <1>21,
           <1>22, <1>23, <1>24, <1>25, <1>26, <1>27, <1>28, <1>29, <1>30, <1>31, <1>32,
           <1>33, <1>34, <1>35, <1>36 DEF Beginning, Locking, Handling

-----------------------------------------------------------------------------
(* The invariant, and what follows from it.                                *)
LEMMA InitIInv == Init => IInv
  <1> SUFFICES ASSUME Init PROVE IInv
    OBVIOUS
  <1> USE DEF Init
  <1>1. Base
    BY DEF Base, Fields, Shape, Places, Ops, Releasing, Keeping, Filling
  <1>2. Lists
    <2>1. \A w \in Workers : at[w] = NoFile
      OBVIOUS
    <2>2. <<>> \in Seq(Files)
      OBVIOUS
    <2> QED BY <2>1, <2>2 DEF Lists
  <1>3. StorageExclusive
    BY DEF StorageExclusive, InStorage
  <1>4. LocksAccounted
    BY DEF LocksAccounted, InOrdering, InMtx
  <1>5. Counted
    <2>1. \A f \in Files : Sending(f) = {}
      BY DEF Sending
    <2> QED BY <2>1, FS_EmptySet DEF Counted
  <1>6. WriterHolds
    BY DEF WriterHolds
  <1>7. Lifetimes
    BY DEF Lifetimes
  <1>8. RemovedUnused
    BY DEF RemovedUnused
  <1>9. DanglingReaders
    BY DEF DanglingReaders
  <1> QED BY <1>1, <1>2, <1>3, <1>4, <1>5, <1>6, <1>7, <1>8, <1>9 DEF IInv

(* While storagemtx is left locked nobody is in its code, and only who is  *)
(* there can unlock it.                                                    *)
LEMMA JamKept ==
    ASSUME Base, StorageExclusive, ~released, storagemtx = Left, NEW w \in Workers,
           Beginning(w) \/ Locking(w) \/ Handling(w) \/ SpuriousWake(w)
    PROVE  storagemtx' = Left /\ ~released'
  <1>1. \A v \in Workers : ~InStorage(v)
    BY DEF StorageExclusive
  <1>2. \/ pc[w] \in {"idle", "sending"}
        \/ op[w] \in Releasing /\ pc[w] \in {"inside", "asleep", "woken"}
    BY <1>1 DEF InStorage, Base, Fields, Shape, Places, Ops, Releasing, Keeping
  <1>3. ~Beginning(w) \/ BeginNothing(w)
    BY DEF Beginning, BeginFile, BeginFill, BeginCreate, BeginReadN, BeginExit, BeginNothing, Begin
  <1>4. CASE BeginNothing(w)
    BY <1>4 DEF BeginNothing
  <1>5. CASE Locking(w)
    BY <1>2, <1>5 DEF Locking, LockOrdering, LockMtx, Sleep, Resume, ExitMtx, ExitOrdering, Releasing
  <1>6. CASE Handling(w)
    <2>1. CASE pc[w] = "sending"
      BY <1>6, <2>1 DEF Handling, Proceed, Die,
             OpenFile, CloseFile, ReadDenied, ReadStart, ReadEnd, LockFile, LockDenied, UnlockFile,
             UnlockDenied, RemoveFile, FreeFile, CreateEvict, CreateInsert, ReadNFiles, EvictStart,
             EvictEnd, AppendEvict, Fill, WriteStart, WriteEnd, ExitNext, ExitVisit, UseFreed
    <2>2. CASE pc[w] = "inside" /\ op[w] \in Releasing
      BY <1>6, <2>2 DEF Handling, Proceed, Die,
             OpenFile, CloseFile, ReadDenied, ReadStart, ReadEnd, LockFile, LockDenied, UnlockFile,
             UnlockDenied, RemoveFile, FreeFile, CreateEvict, CreateInsert, ReadNFiles, EvictStart,
             EvictEnd, AppendEvict, Fill, WriteStart, WriteEnd, ExitNext, ExitVisit, UseFreed, Releasing
    <2>3. CASE pc[w] \in {"idle", "asleep", "woken"}
      BY <1>6, <2>3 DEF Handling, Proceed, Die,
             OpenFile, CloseFile, ReadDenied, ReadStart, ReadEnd, LockFile, LockDenied, UnlockFile,
             UnlockDenied, RemoveFile, FreeFile, CreateEvict, CreateInsert, ReadNFiles, EvictStart,
             EvictEnd, AppendEvict, Fill, WriteStart, WriteEnd, ExitNext, ExitVisit, UseFreed
    <2> QED BY <1>2, <2>1, <2>2, <2>3
  <1>7. CASE SpuriousWake(w)
    BY <1>7 DEF SpuriousWake
  <1> QED BY <1>3, <1>4, <1>5, <1>6, <1>7

(* Every step keeps the inductive invariant.                               *)
LEMMA StepIInv == IInv /\ [Next]_vars => IInv'
  <1> SUFFICES ASSUME IInv, [Next]_vars PROVE IInv'
    OBVIOUS
  <1>1. CASE Next
    <2>1. PICK w \in Workers : Beginning(w) \/ Locking(w) \/ Handling(w) \/ SpuriousWake(w)
      BY <1>1 DEF Next
    <2>2. Fields' /\ Shape'
      BY <2>1, FieldsStep, ShapeStep DEF IInv
    <2>3. Lists'
      BY <2>1, ListsStep DEF IInv
    <2>4. StorageExclusive' /\ LocksAccounted'
      BY <2>1, StorageStep, LocksStep DEF IInv
    <2>5. Counted' /\ WriterHolds'
      BY <2>1, CountedStep, WriterStep DEF IInv
    <2>6. Lifetimes' /\ RemovedUnused' /\ DanglingReaders'
      BY <2>1, LifetimesStep, RemovedStep, DanglingStep DEF IInv
    <2> QED BY <2>2, <2>3, <2>4, <2>5, <2>6 DEF IInv, Base
  <1>2. CASE UNCHANGED vars
    <2> USE <1>2 DEF IInv, vars
    <2>1. Base' /\ Lists'
      BY DEF Base, Fields, Shape, Lists
    <2>2. StorageExclusive' /\ LocksAccounted'
      BY DEF StorageExclusive, InStorage, LocksAccounted, InOrdering, InMtx
    <2>3. Counted' /\ WriterHolds'
      BY DEF Counted, Sending, WriterHolds
    <2>4. Lifetimes' /\ RemovedUnused' /\ DanglingReaders'
      BY DEF Lifetimes, RemovedUnused, DanglingReaders
    <2> QED BY <2>1, <2>2, <2>3, <2>4
  <1> QED BY <1>1, <1>2

(* Every reachable state has the types, the shape of each worker's work,   *)
(* the accounting of the mutexes and the lives of the Files that the other *)
(* theorems rest on.                                                       *)
THEOREM Inductive == Spec => []IInv
  BY InitIInv, StepIInv, PTL DEF Spec

(* The mutexes, the fields of File and the places of the workers keep      *)
(* their types.                                                            *)
THEOREM TypeCorrect == Spec => []TypeOK
  <1>1. IInv => TypeOK
    BY DEF IInv, Base, Fields, Lists, TypeOK
  <1> QED BY <1>1, Inductive, PTL

(* Until a WRITE evicts, a worker is between the lock and the unlock of    *)
(* storagemtx exactly while it holds it, so at most one is; when the       *)
(* request code 0 has left it locked, none is (server.c:266-268).          *)
THEOREM StorageIsExclusive == Spec => []StorageExclusive
  <1>1. IInv => StorageExclusive
    BY DEF IInv
  <1> QED BY <1>1, Inductive, PTL

(* Once the request code 0 has left storagemtx locked, before any WRITE    *)
(* has evicted, it is locked for good, whatever the handlers under way do  *)
(* (comms.c:195, server.c:266-268): no worker begins a handler again.      *)
THEOREM JamsForGood == Spec => JammedForGood
  <1>1. IInv /\ [Next]_vars => [JamStep]_vars
    <2> SUFFICES ASSUME IInv, Next PROVE JamStep
      OBVIOUS
    <2>1. PICK w \in Workers : Beginning(w) \/ Locking(w) \/ Handling(w) \/ SpuriousWake(w)
      BY DEF Next
    <2> QED BY <2>1, JamKept DEF IInv, JamStep
  <1> QED BY <1>1, Inductive, PTL DEF Spec, JammedForGood

(* The mutexes ordering and mtx of every File are held by the worker that  *)
(* is in their code and by no other, eviction loop or not.                 *)
THEOREM LocksAreAccounted == Spec => []LocksAccounted
  <1>1. IInv => LocksAccounted
    BY DEF IInv
  <1> QED BY <1>1, Inductive, PTL

(* readers is the number of workers that send the file, and nobody who     *)
(* holds mtx to test writer ever finds one (server.c:478, 500, 652).       *)
THEOREM ReadersAreCounted == Spec => []ReadersCounted
  <1>1. IInv => ReadersCounted
    BY DEF IInv, Counted, WriterHolds, ReadersCounted
  <1> QED BY <1>1, Inductive, PTL

(* What REMOVE frees is used by no other worker (server.c:825-838).        *)
THEOREM RemovedFilesUnused == Spec => []RemovedUnused
  <1>1. IInv => RemovedUnused
    BY DEF IInv
  <1> QED BY <1>1, Inductive, PTL

(* Until a WRITE evicts, only readers that send a file an OPEN evicts are  *)
(* left with a pointer to freed memory (server.c:331, 491-500).            *)
THEOREM OnlyReadersDangle == Spec => []DanglingReaders
  <1>1. IInv => DanglingReaders
    BY DEF IInv
  <1> QED BY <1>1, Inductive, PTL

(* No worker is ever woken from writecond by another (server.c:425, 500,   *)
(* 875, 925): a LOCK, UNLOCK, REMOVE, WRITE or APPEND that has to wait for *)
(* readers keeps ordering, and with it the file, for good.                 *)
THEOREM SleepersAreNotWoken == Spec => SleepersStay
  <1>1. IInv /\ [Next]_vars => [WakeStep]_vars
    <2> SUFFICES ASSUME IInv, Next PROVE WakeStep
      OBVIOUS
    <2>1. PICK w \in Workers : Beginning(w) \/ Locking(w) \/ Handling(w) \/ SpuriousWake(w)
      BY DEF Next
    <2> QED BY <2>1, WakesStep DEF IInv
  <1> QED BY <1>1, Inductive, PTL DEF Spec, SleepersStay

(* While nobody sleeps on writecond and no WRITE has evicted, the workers  *)
(* can all be stuck only through an EXIT, which holds mtx and wants        *)
(* ordering, and a worker that woke by itself, which holds ordering and    *)
(* wants mtx (server.c:959).                                               *)
THEOREM DeadlocksAreKnown == Spec => []DeadlocksKnown
  <1>1. IInv => DeadlocksKnown
    <2> SUFFICES ASSUME IInv, status = "running", Busy # {}, \A w \in Busy : ~CanStep(w),
                        ~released, \A w \in Busy : pc[w] # "asleep"
                 PROVE  \E v, w \in Busy : pc[v] = "woken" /\ pc[w] = "exitordering" /\ at[v] = at[w]
      BY DEF DeadlocksKnown
    <2> DEFINE Stuck == {"mtx", "woken", "ordering", "exitordering", "exitmtx", "sending"}
    <2>1. \A w \in Busy :
              /\ w \in Workers /\ at[w] \in Files /\ pc[w] \in Stuck
              /\ pc[w] \in {"ordering", "exitordering"} => ordering[at[w]] # Nobody
              /\ pc[w] \in {"mtx", "woken", "exitmtx", "sending"} => mtx[at[w]] # Nobody
      <3> TAKE w \in Busy
      <3>1. w \in Workers /\ ~CanStep(w) /\ pc[w] # "asleep" /\ pc[w] \in Places
        BY DEF Busy, IInv, Base, Fields
      <3>2. pc[w] # "freeing"
        BY <3>1 DEF CanStep, Busy
      <3>3. pc[w] \in Stuck
        BY <3>1, <3>2 DEF CanStep, Places, Busy
      <3>4. at[w] \in Files
        BY <3>1, <3>3 DEF IInv, Base, Shape
      <3> QED BY <3>1, <3>3, <3>4 DEF CanStep
    <2>2. \A f \in Files : mtx[f] # Nobody =>
              mtx[f] \in Busy /\ pc[mtx[f]] = "exitordering" /\ at[mtx[f]] = f
      <3> SUFFICES ASSUME NEW f \in Files, mtx[f] # Nobody
                   PROVE  mtx[f] \in Busy /\ pc[mtx[f]] = "exitordering" /\ at[mtx[f]] = f
        OBVIOUS
      <3>1. mtx[f] \in Workers /\ InMtx(mtx[f], f)
        BY DEF IInv, Base, Fields, LocksAccounted
      <3>2. mtx[f] \in Busy
        BY <3>1 DEF InMtx, Busy
      <3> QED BY <3>1, <3>2, <2>1 DEF InMtx
    <2>3. \A f \in Files : ordering[f] # Nobody =>
              ordering[f] \in Busy /\ pc[ordering[f]] \in {"mtx", "woken"} /\ at[ordering[f]] = f
      <3> SUFFICES ASSUME NEW f \in Files, ordering[f] # Nobody
                   PROVE  /\ ordering[f] \in Busy /\ at[ordering[f]] = f
                          /\ pc[ordering[f]] \in {"mtx", "woken"}
        OBVIOUS
      <3>1. ordering[f] \in Workers /\ InOrdering(ordering[f], f)
        BY DEF IInv, Base, Fields, LocksAccounted
      <3>2. ordering[f] \in Busy
        BY <3>1 DEF InOrdering, Busy
      <3> QED BY <3>1, <3>2, <2>1 DEF InOrdering
    <2>4. PICK w \in Busy : pc[w] = "exitordering"
      <3>1. PICK u \in Busy : TRUE
        OBVIOUS
      <3>2. CASE pc[u] \in {"mtx", "woken", "exitmtx", "sending"}
        BY <3>2, <2>1, <2>2
      <3>3. CASE pc[u] \in {"ordering", "exitordering"}
        BY <3>3, <2>1, <2>2, <2>3
      <3> QED BY <3>2, <3>3, <2>1
    <2>5. PICK v \in Busy : v = ordering[at[w]] /\ pc[v] \in {"mtx", "woken"} /\ at[v] = at[w]
      BY <2>1, <2>3, <2>4
    <2>6. pc[v] # "mtx"
      <3> SUFFICES ASSUME pc[v] = "mtx" PROVE FALSE
        OBVIOUS
      <3>1. op[w] = "EXIT" /\ InStorage(w) /\ InStorage(v)
        BY <2>1, <2>4 DEF IInv, Base, Shape, InStorage, Releasing
      <3>2. w = v
        BY <3>1, <2>1 DEF IInv, StorageExclusive
      <3> QED BY <3>2, <2>4
    <2> QED BY <2>4, <2>5, <2>6
  <1> QED BY <1>1, Inductive, PTL

(* READ, WRITE, APPEND and the two handlers that free a File implement the *)
(* exclusion of readers and writers, for any number of workers and files   *)
(* and also after a WRITE has given up storagemtx (server.c:477-500,       *)
(* 648-666, 825-838): no file is sent while it is filled or filled twice   *)
(* at a time, and no File is freed under a writer or freed twice.          *)
THEOREM ExcludesReadersAndWriters == Spec => ImplementsReadersWriters
  <1>1. Init => IInv /\ Accessed
    BY InitIInv DEF Init, Accessed
  <1>2. IInv /\ Accessed /\ [Next]_vars => Accessed'
    <2> SUFFICES ASSUME IInv, Accessed, [Next]_vars PROVE Accessed'
      OBVIOUS
    <2>1. CASE Next
      BY <2>1, AccessedStep DEF Next
    <2>2. CASE UNCHANGED vars
      BY <2>2 DEF vars, Accessed
    <2> QED BY <2>1, <2>2
  <1>3. Init => Contents!Init
    BY DEF Init, Contents!Init, Sending, Writing
  <1>4. IInv /\ Accessed /\ [Next]_vars => [Contents!Next]_Contents!vars
    <2> SUFFICES ASSUME IInv, Accessed, [Next]_vars PROVE [Contents!Next]_Contents!vars
      OBVIOUS
    <2>1. CASE Next
      BY <2>1, AccessStep DEF Next
    <2>2. CASE UNCHANGED vars
      BY <2>2 DEF vars, Contents!vars, Sending, Writing
    <2> QED BY <2>1, <2>2
  <1> QED BY <1>1, <1>2, <1>3, <1>4, StepIInv, PTL DEF Spec, ImplementsReadersWriters, Contents!Spec
=============================================================================
