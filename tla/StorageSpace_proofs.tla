------------------------- MODULE StorageSpace_proofs -------------------------
(***************************************************************************)
(* The bytes of the storage, for any number of files and any limits: the   *)
(* files never hold more than the configured size, and the storage         *)
(* implements FileStore.  The sum of the sizes is the number of bytes, so  *)
(* that facts about it are facts about finite sets.                        *)
(***************************************************************************)
EXTENDS Storage_proofs

(* The bytes of the files can be counted, and currsize counts them all.    *)
BytesInv == IsFiniteSet(Bytes(hashtable, datasize)) /\ BytesWithinCapacity

(* The file under a running WRITE is empty.                                *)
WriterFresh == writing # NoWrite /\ writing.path \in hashtable => datasize[writing.path] = 0

SpaceInv == IInv /\ BytesInv /\ WriterFresh

-----------------------------------------------------------------------------
(* A file of n bytes has n bytes.                                          *)
LEMMA FileBytes ==
    ASSUME NEW p, NEW n \in Nat
    PROVE  IsFiniteSet({p} \X (1 .. n)) /\ Cardinality({p} \X (1 .. n)) = n
  <1>1. IsFiniteSet({p}) /\ Cardinality({p}) = 1
    BY FS_Singleton
  <1>2. IsFiniteSet(1 .. n) /\ Cardinality(1 .. n) = n
    BY FS_Interval
  <1>3. /\ IsFiniteSet({p} \X (1 .. n))
        /\ Cardinality({p} \X (1 .. n)) = Cardinality({p}) * Cardinality(1 .. n)
    BY <1>1, <1>2, FS_Product
  <1> QED BY <1>1, <1>2, <1>3

(* The bytes depend on the sizes of the files only.                        *)
LEMMA BytesSame ==
    ASSUME NEW H, NEW f, NEW g, \A q \in H : g[q] = f[q]
    PROVE  Bytes(H, g) = Bytes(H, f)
  <1>1. {{q} \X (1 .. g[q]) : q \in H} = {{q} \X (1 .. f[q]) : q \in H}
    OBVIOUS
  <1> QED BY <1>1 DEF Bytes

(* A file is its own bytes beside those of the others.                     *)
LEMMA BytesSplit ==
    ASSUME NEW H, NEW p \in H, NEW f
    PROVE  /\ Bytes(H, f) = Bytes(H \ {p}, f) \cup ({p} \X (1 .. f[p]))
           /\ Bytes(H \ {p}, f) \cap ({p} \X (1 .. f[p])) = {}
  BY DEF Bytes

(* A new empty file has no bytes.                                          *)
LEMMA BytesNew ==
    ASSUME NEW H, NEW p, NEW f, f[p] = 0
    PROVE  Bytes(H \cup {p}, f) = Bytes(H, f)
  <1>1. 1 .. f[p] = {}
    OBVIOUS
  <1> QED BY <1>1 DEF Bytes

(* A file less.                                                            *)
LEMMA BytesRemove ==
    ASSUME NEW H, NEW p \in H, NEW f, f[p] \in Nat, IsFiniteSet(Bytes(H, f))
    PROVE  /\ IsFiniteSet(Bytes(H \ {p}, f))
           /\ Cardinality(Bytes(H \ {p}, f)) \in Nat
           /\ Cardinality(Bytes(H, f)) = Cardinality(Bytes(H \ {p}, f)) + f[p]
  <1> DEFINE A == Bytes(H \ {p}, f)
             B == {p} \X (1 .. f[p])
  <1>1. Bytes(H, f) = A \cup B /\ A \cap B = {}
    BY BytesSplit
  <1>2. IsFiniteSet(B) /\ Cardinality(B) = f[p]
    BY FileBytes
  <1>3. A \in SUBSET Bytes(H, f)
    BY <1>1
  <1>4. IsFiniteSet(A)
    BY <1>3, FS_Subset
  <1>5. Cardinality(A) \in Nat
    BY <1>4, FS_CardinalityType
  <1>6. Cardinality(A \cup B) = Cardinality(A) + Cardinality(B) - Cardinality(A \cap B)
    BY <1>2, <1>4, FS_Union
  <1>7. Cardinality(A \cap B) = 0
    BY <1>1, FS_EmptySet
  <1> HIDE DEF A, B
  <1>8. Cardinality(Bytes(H, f)) = Cardinality(A) + f[p]
    BY <1>1, <1>2, <1>5, <1>6, <1>7
  <1> QED BY <1>4, <1>5, <1>8 DEF A

(* A file gets another size.                                               *)
LEMMA BytesResize ==
    ASSUME NEW H, NEW p \in H, NEW f, NEW g, f[p] \in Nat, g[p] \in Nat,
           \A q \in H \ {p} : g[q] = f[q], IsFiniteSet(Bytes(H, f))
    PROVE  /\ IsFiniteSet(Bytes(H, g))
           /\ Cardinality(Bytes(H, g)) = Cardinality(Bytes(H, f)) - f[p] + g[p]
  <1>1. /\ IsFiniteSet(Bytes(H \ {p}, f)) /\ Cardinality(Bytes(H \ {p}, f)) \in Nat
        /\ Cardinality(Bytes(H, f)) = Cardinality(Bytes(H \ {p}, f)) + f[p]
    BY BytesRemove
  <1>2. Bytes(H \ {p}, g) = Bytes(H \ {p}, f)
    BY BytesSame
  <1>3. Bytes(H, g) = Bytes(H \ {p}, f) \cup ({p} \X (1 .. g[p]))
    BY <1>2, BytesSplit
  <1>4. IsFiniteSet({p} \X (1 .. g[p]))
    BY FileBytes
  <1>5. IsFiniteSet(Bytes(H, g))
    <2> DEFINE A == Bytes(H \ {p}, f)
               B == {p} \X (1 .. g[p])
    <2>1. IsFiniteSet(A) /\ IsFiniteSet(B)
      BY <1>1, <1>4
    <2> HIDE DEF A, B
    <2>2. IsFiniteSet(A \cup B)
      BY <2>1, FS_Union
    <2> QED BY <1>3, <2>2 DEF A, B
  <1>6. Cardinality(Bytes(H, g)) = Cardinality(Bytes(H \ {p}, g)) + g[p]
    BY <1>5, BytesRemove
  <1> QED BY <1>1, <1>2, <1>5, <1>6

-----------------------------------------------------------------------------
(* What WRITE and APPEND do to the sizes.                                  *)
LEMMA Resized ==
    ASSUME SpaceInv, NEW p \in hashtable, NEW n \in Nat, ~TooBig(n),
           hashtable' = hashtable, currsize' = currsize + n,
           NEW m \in Nat, m <= datasize[p] + n, datasize' = [datasize EXCEPT ![p] = m]
    PROVE  BytesInv' /\ LostBytes' >= LostBytes
  <1>1. /\ IsFiniteSet(Bytes(hashtable, datasize)) /\ datasize \in [Paths -> Nat] /\ p \in Paths
        /\ Cardinality(Bytes(hashtable, datasize)) <= currsize /\ currsize <= MaxSize
        /\ currsize \in Int /\ MaxSize \in Nat
    BY LimitsAssumption DEF SpaceInv, IInv, TypeOK, BytesInv, BytesWithinCapacity, TotalSize
  <1>2. Cardinality(Bytes(hashtable, datasize)) \in Nat
    BY <1>1, FS_CardinalityType
  <1>3. /\ datasize[p] \in Nat /\ datasize'[p] \in Nat /\ datasize'[p] = m
        /\ \A q \in hashtable \ {p} : datasize'[q] = datasize[q]
    BY <1>1 DEF SpaceInv, IInv, TypeOK
  <1>4. /\ IsFiniteSet(Bytes(hashtable, datasize'))
        /\ Cardinality(Bytes(hashtable, datasize'))
              = Cardinality(Bytes(hashtable, datasize)) - datasize[p] + datasize'[p]
    <2>1. PICK g : g = datasize'
      OBVIOUS
    <2>2. PICK f, H : f = datasize /\ H = hashtable
      OBVIOUS
    <2>3. p \in H /\ f[p] \in Nat /\ g[p] \in Nat /\ (\A q \in H \ {p} : g[q] = f[q]) /\ IsFiniteSet(Bytes(H, f))
      BY <1>1, <1>3, <2>1, <2>2
    <2>4. IsFiniteSet(Bytes(H, g)) /\ Cardinality(Bytes(H, g)) = Cardinality(Bytes(H, f)) - f[p] + g[p]
      BY <2>3, BytesResize
    <2> QED BY <2>1, <2>2, <2>4
  <1>5. /\ Cardinality(Bytes(hashtable, datasize')) <= currsize + n /\ currsize + n <= MaxSize
        /\ (currsize + n) - Cardinality(Bytes(hashtable, datasize'))
              >= currsize - Cardinality(Bytes(hashtable, datasize))
    BY <1>1, <1>2, <1>3, <1>4 DEF TooBig
  <1>6. BytesInv'
    BY <1>4, <1>5 DEF BytesInv, BytesWithinCapacity, TotalSize
  <1>7. LostBytes' >= LostBytes
    <2>1. PICK g, T : g = datasize' /\ T = Cardinality(Bytes(hashtable, g))
      OBVIOUS
    <2>2. TotalSize' = T
      BY <2>1 DEF TotalSize
    <2>3. LostBytes' = (currsize + n) - T
      BY <2>2 DEF LostBytes
    <2>4. LostBytes = currsize - Cardinality(Bytes(hashtable, datasize))
      BY DEF LostBytes, TotalSize
    <2> QED BY <1>5, <2>1, <2>3, <2>4
  <1> QED BY <1>6, <1>7

(* What evictions and REMOVE do: freed bytes are told to the counter, or   *)
(* not.                                                                    *)
LEMMA Emptied ==
    ASSUME SpaceInv, NEW p \in hashtable,
           hashtable' = hashtable \ {p}, datasize' = Reset(datasize, {p}, 0),
           currsize' \in {currsize, currsize - datasize[p]}
    PROVE  BytesInv' /\ LostBytes' >= LostBytes
  <1>1. /\ IsFiniteSet(Bytes(hashtable, datasize)) /\ datasize[p] \in Nat /\ hashtable \subseteq Paths
        /\ Cardinality(Bytes(hashtable, datasize)) <= currsize /\ currsize <= MaxSize
        /\ currsize \in Int /\ MaxSize \in Nat
    BY LimitsAssumption DEF SpaceInv, IInv, TypeOK, BytesInv, BytesWithinCapacity, TotalSize
  <1>2. /\ IsFiniteSet(Bytes(hashtable \ {p}, datasize))
        /\ Cardinality(Bytes(hashtable \ {p}, datasize)) \in Nat
        /\ Cardinality(Bytes(hashtable, datasize)) = Cardinality(Bytes(hashtable \ {p}, datasize)) + datasize[p]
    BY <1>1, BytesRemove
  <1>3. \A q \in hashtable \ {p} : datasize'[q] = datasize[q]
    BY <1>1 DEF Reset
  <1>4. Bytes(hashtable', datasize') = Bytes(hashtable \ {p}, datasize)
    BY <1>3, BytesSame
  <1> QED BY <1>1, <1>2, <1>4 DEF BytesInv, BytesWithinCapacity, TotalSize, LostBytes

LEMMA Unresized ==
    ASSUME SpaceInv, UNCHANGED <<hashtable, datasize, currsize>>
    PROVE  BytesInv' /\ LostBytes' >= LostBytes
  <1>1. currsize \in Int /\ TotalSize \in Nat
    BY FS_CardinalityType DEF SpaceInv, IInv, TypeOK, BytesInv, TotalSize
  <1> QED BY <1>1 DEF SpaceInv, BytesInv, BytesWithinCapacity, TotalSize, LostBytes

(* What OPEN does: a new empty file, in place of the victim if need be.    *)
LEMMA OpenBytes ==
    ASSUME SpaceInv, NEW c \in Clients, NEW p \in Paths, NEW lock \in BOOLEAN, OpenCreate(c, p, lock)
    PROVE  BytesInv' /\ LostBytes' >= LostBytes
  <1>1. CASE UNCHANGED store
    BY <1>1, Unresized DEF store, fields
  <1>2. /\ IsFiniteSet(Bytes(hashtable, datasize)) /\ datasize \in [Paths -> Nat] /\ hashtable \subseteq Paths
        /\ Cardinality(Bytes(hashtable, datasize)) <= currsize /\ currsize <= MaxSize
        /\ currsize \in Int /\ MaxSize \in Nat
    BY LimitsAssumption DEF SpaceInv, IInv, TypeOK, BytesInv, BytesWithinCapacity, TotalSize
  <1>3. ASSUME p \notin hashtable, NEW gone, gone \subseteq hashtable,
               hashtable' = (hashtable \ gone) \cup {p}, datasize' = Reset(datasize, gone \cup {p}, 0)
        PROVE  Bytes(hashtable', datasize') = Bytes(hashtable \ gone, datasize)
    <2>1. datasize'[p] = 0 /\ \A q \in hashtable \ gone : datasize'[q] = datasize[q]
      BY <1>2, <1>3 DEF Reset
    <2>2. Bytes((hashtable \ gone) \cup {p}, datasize') = Bytes(hashtable \ gone, datasize')
      BY <2>1, BytesNew
    <2>3. Bytes(hashtable \ gone, datasize') = Bytes(hashtable \ gone, datasize)
      BY <2>1, BytesSame
    <2> QED BY <1>3, <2>2, <2>3
  <1>4. CASE /\ p \notin hashtable /\ currsize' = currsize
             /\ hashtable' = (hashtable \ {}) \cup {p} /\ datasize' = Reset(datasize, {} \cup {p}, 0)
    <2>1. Bytes(hashtable', datasize') = Bytes(hashtable, datasize)
      <3>1. {} \subseteq hashtable /\ hashtable \ {} = hashtable
        OBVIOUS
      <3> QED BY <1>3, <1>4, <3>1
    <2> QED BY <1>2, <1>4, <2>1, FS_CardinalityType DEF BytesInv, BytesWithinCapacity, TotalSize, LostBytes
  <1>5. CASE /\ p \notin hashtable /\ HasVictim /\ currsize' = Freed
             /\ hashtable' = (hashtable \ {Victim}) \cup {p} /\ datasize' = Reset(datasize, {Victim} \cup {p}, 0)
    <2>1. Victim \in hashtable /\ Victim \in Paths
      BY <1>5, VictimFacts DEF SpaceInv
    <2>2. Bytes(hashtable', datasize') = Bytes(hashtable \ {Victim}, datasize)
      BY <1>3, <1>5, <2>1
    <2>3. /\ IsFiniteSet(Bytes(hashtable \ {Victim}, datasize))
          /\ Cardinality(Bytes(hashtable \ {Victim}, datasize)) \in Nat
          /\ Cardinality(Bytes(hashtable, datasize))
                = Cardinality(Bytes(hashtable \ {Victim}, datasize)) + datasize[Victim]
          /\ datasize[Victim] \in Nat
      BY <1>2, <2>1, BytesRemove
    <2> QED BY <1>2, <1>5, <2>2, <2>3 DEF Freed, BytesInv, BytesWithinCapacity, TotalSize, LostBytes
  <1> QED BY <1>1, <1>4, <1>5 DEF OpenCreate, StoreNew, Answer, Die

LEMMA BytesStep ==
    ASSUME SpaceInv, Next
    PROVE  BytesInv' /\ LostBytes' >= LostBytes
  <1>1. ASSUME NEW c \in Clients, NEW p \in Paths, NEW lock \in BOOLEAN, OpenCreate(c, p, lock)
        PROVE  BytesInv' /\ LostBytes' >= LostBytes
    BY <1>1, OpenBytes
  <1>2. CASE EvictOne
    <2>1. CASE UNCHANGED store
      BY <2>1, Unresized DEF store, fields
    <2>2. CASE HasVictim /\ Forget({Victim}) /\ currsize' = Freed
      <3>1. Victim \in hashtable
        BY <2>2, VictimFacts DEF SpaceInv
      <3> QED BY <2>2, <3>1, Emptied DEF Forget, Freed
    <2> QED BY <1>2, <2>1, <2>2 DEF EvictOne, Die
  <1>3. CASE FinishWrite
    <2>1. writing \in Writes /\ writing.size \in Nat /\ writing.path \in Paths /\ ~TooBig(writing.size)
      BY <1>3 DEF FinishWrite, SpaceInv, IInv, TypeOK, Writes
    <2>2. CASE UNCHANGED store
      BY <2>2, Unresized DEF store, fields
    <2>3. CASE /\ writing.path \in hashtable /\ datasize' = [datasize EXCEPT ![writing.path] = writing.size]
               /\ UNCHANGED hashtable /\ currsize' = currsize + writing.size
      <3>1. datasize[writing.path] \in Nat
        BY <2>1 DEF SpaceInv, IInv, TypeOK
      <3>2. writing.size <= datasize[writing.path] + writing.size
        BY <2>1, <3>1
      <3> QED BY <2>1, <2>3, <3>2, Resized
    <2>4. CASE UNCHANGED <<hashtable, datasize>> /\ currsize' = currsize + writing.size
      <3>1. /\ IsFiniteSet(Bytes(hashtable, datasize)) /\ currsize \in Int /\ MaxSize \in Nat
            /\ Cardinality(Bytes(hashtable, datasize)) <= currsize
        BY LimitsAssumption DEF SpaceInv, IInv, TypeOK, BytesInv, BytesWithinCapacity, TotalSize
      <3>2. Cardinality(Bytes(hashtable, datasize)) \in Nat
        BY <3>1, FS_CardinalityType
      <3> QED BY <2>1, <2>4, <3>1, <3>2 DEF TooBig, BytesInv, BytesWithinCapacity, TotalSize, LostBytes
    <2> QED BY <1>3, <2>2, <2>3, <2>4 DEF FinishWrite, Die
  <1>4. ASSUME NEW c \in Clients, NEW p \in Paths, NEW n \in Sizes, AppendToFile(c, p, n)
        PROVE  BytesInv' /\ LostBytes' >= LostBytes
    <2>1. CASE UNCHANGED store
      BY <2>1, Unresized DEF store, fields
    <2>2. CASE /\ p \in hashtable /\ ~TooBig(n) /\ datasize' = [datasize EXCEPT ![p] = @ + n]
               /\ UNCHANGED hashtable /\ currsize' = currsize + n
      <3>1. datasize[p] + n \in Nat /\ n \in Nat /\ datasize[p] + n <= datasize[p] + n
        BY SizesAssumption DEF SpaceInv, IInv, TypeOK
      <3>2. datasize' = [datasize EXCEPT ![p] = datasize[p] + n]
        BY <2>2
      <3> QED BY <2>2, <3>1, <3>2, Resized
    <2> QED BY <1>4, <2>1, <2>2 DEF AppendToFile, Answer, Die
  <1>5. ASSUME NEW c \in Clients, NEW p \in Paths, RemoveFile(c, p)
        PROVE  BytesInv' /\ LostBytes' >= LostBytes
    <2>1. CASE UNCHANGED store
      BY <2>1, Unresized DEF store, fields
    <2>2. CASE p \in hashtable /\ Forget({p}) /\ UNCHANGED currsize
      BY <2>2, Emptied DEF Forget
    <2> QED BY <1>5, <2>1, <2>2 DEF RemoveFile, Answer, Die
  <1>6. CASE UNCHANGED <<hashtable, datasize, currsize>>
    BY <1>6, Unresized
  <1>7. ASSUME NEW c \in Clients,
               \/ Accept(c) \/ ClientDies(c) \/ CloseConnection(c)
               \/ \E n \in Counts : ReadNFiles(c, n)
        PROVE  UNCHANGED <<hashtable, datasize, currsize>>
    BY <1>7 DEF Accept, ClientDies, CloseConnection, ReadNFiles, Answer, Die, store, fields
  <1>8. ASSUME NEW c \in Clients, NEW p \in Paths,
               \/ \E lock \in BOOLEAN : OpenExisting(c, p, lock)
               \/ OpenBadFlags(c, p) \/ CloseFile(c, p) \/ ReadFile(c, p)
               \/ LockFile(c, p) \/ UnlockFile(c, p)
               \/ \E n \in Sizes : WriteFile(c, p, n)
        PROVE  UNCHANGED <<hashtable, datasize, currsize>>
    BY <1>8 DEF OpenExisting, OpenBadFlags, CloseFile, ReadFile, LockFile, UnlockFile, WriteFile,
       Answer, Die, store, fields
  <1> QED BY <1>1, <1>2, <1>3, <1>4, <1>5, <1>6, <1>7, <1>8 DEF Next

LEMMA FreshStep ==
    ASSUME SpaceInv, Next
    PROVE  WriterFresh'
  <1> USE DEF SpaceInv, WriterFresh
  <1>0. /\ datasize \in [Paths -> Nat] /\ hashtable \subseteq Paths
        /\ writing # NoWrite => writing \in Writes
    BY DEF IInv, TypeOK
  <1>1. CASE UNCHANGED <<hashtable, datasize, writing>>
    BY <1>1
  <1>2. CASE writing' = NoWrite
    BY <1>2
  <1>3. ASSUME NEW c \in Clients, NEW p \in Paths, NEW n \in Sizes, WriteFile(c, p, n)
        PROVE  WriterFresh'
    <2>1. CASE UNCHANGED <<store, writing>>
      BY <2>1 DEF store, fields
    <2>2. CASE /\ datasize[p] = 0 /\ UNCHANGED store
               /\ writing' = [client |-> c, path |-> p, size |-> n, evicted |-> <<>>]
      BY <2>2 DEF store, fields
    <2> QED BY <1>3, <2>1, <2>2 DEF WriteFile, MayWrite, Answer
  <1>4. CASE EvictOne
    <2>1. CASE UNCHANGED <<store, writing>>
      BY <2>1 DEF store, fields
    <2>2. CASE HasVictim /\ Forget({Victim}) /\ writing' = [writing EXCEPT !.evicted = Reported]
      <3>1. writing'.path = writing.path /\ writing # NoWrite
        BY <1>0, <1>4, <2>2 DEF EvictOne, Writes
      <3>2. writing.path \in hashtable' => writing.path \in hashtable /\ datasize'[writing.path] = datasize[writing.path]
        BY <1>0, <2>2 DEF Forget, Reset
      <3> QED BY <3>1, <3>2
    <2> QED BY <1>4, <2>1, <2>2 DEF EvictOne, Die
  <1>5. ASSUME writing = NoWrite, writing' = writing
        PROVE  WriterFresh'
    BY <1>5
  <1>6. ASSUME NEW c \in Clients, Serving(c), writing' = writing
        PROVE  WriterFresh'
    BY <1>5, <1>6 DEF Serving
  <1>7. CASE FinishWrite
    <2>1. CASE UNCHANGED <<store, writing>>
      BY <1>1, <2>1 DEF store, fields
    <2> QED BY <1>2, <1>7, <2>1 DEF FinishWrite, Die
  <1>8. ASSUME NEW c \in Clients, Accept(c) \/ ClientDies(c)
        PROVE  WriterFresh'
    BY <1>1, <1>8 DEF Accept, ClientDies, store, fields
  <1>9. ASSUME NEW c \in Clients, NEW p \in Paths, NEW lock \in BOOLEAN,
               OpenCreate(c, p, lock) \/ OpenExisting(c, p, lock)
        PROVE  WriterFresh'
    BY <1>6, <1>9 DEF OpenCreate, OpenExisting, StoreNew, Answer, Die
  <1>10. ASSUME NEW c \in Clients, NEW p \in Paths,
                \/ OpenBadFlags(c, p) \/ CloseFile(c, p) \/ ReadFile(c, p) \/ RemoveFile(c, p)
                \/ LockFile(c, p) \/ UnlockFile(c, p) \/ (\E n \in Sizes : AppendToFile(c, p, n))
         PROVE  WriterFresh'
    <2>1. Serving(c) /\ writing' = writing
      BY <1>10 DEF OpenBadFlags, CloseFile, ReadFile, RemoveFile, LockFile, UnlockFile, AppendToFile,
         Answer, Die
    <2> QED BY <1>6, <2>1
  <1>11. ASSUME NEW c \in Clients, (\E n \in Counts : ReadNFiles(c, n)) \/ CloseConnection(c)
         PROVE  WriterFresh'
    BY <1>6, <1>11 DEF ReadNFiles, CloseConnection, Answer, Die
  <1> QED BY <1>3, <1>4, <1>7, <1>8, <1>9, <1>10, <1>11 DEF Next

(* The types, the bytes and the running WRITE together are inductive.      *)
THEOREM SpaceInductive == Spec => []SpaceInv
  <1>1. Init => SpaceInv
    <2> SUFFICES ASSUME Init PROVE BytesInv /\ WriterFresh
      BY InitIInv DEF SpaceInv
    <2>1. Bytes({}, datasize) = {} /\ 0 <= MaxSize
      BY LimitsAssumption DEF Bytes
    <2>2. IsFiniteSet({}) /\ Cardinality({}) = 0
      BY FS_EmptySet
    <2> QED BY <2>1, <2>2 DEF Init, BytesInv, BytesWithinCapacity, TotalSize, WriterFresh
  <1>2. SpaceInv /\ [Next]_vars => SpaceInv'
    <2>1. CASE UNCHANGED vars
      BY <2>1, StepIInv, Unresized DEF vars, store, fields, SpaceInv, WriterFresh
    <2>2. ASSUME SpaceInv, Next
          PROVE  SpaceInv'
      BY <2>2, StepIInv, BytesStep, FreshStep DEF SpaceInv
    <2> QED BY <2>1, <2>2
  <1> QED BY <1>1, <1>2, PTL DEF Spec

(* The files never hold more bytes than the counter says, nor more than    *)
(* the configured size, whatever is evicted, removed, written or appended  *)
(* (server.c:607, 727).                                                    *)
THEOREM BytesBounded == Spec => []BytesWithinCapacity
  <1>1. SpaceInv => BytesWithinCapacity
    BY DEF SpaceInv, BytesInv
  <1> QED BY <1>1, SpaceInductive, PTL

-----------------------------------------------------------------------------
(* What the file counter counts beyond the files never shrinks: an         *)
(* eviction tells it of one file, a new file is counted, REMOVE is not.    *)
LEMMA FilesLostStep ==
    ASSUME IInv, Next
    PROVE  LostFiles' >= LostFiles
  <1>0. currfiles \in Nat /\ Cardinality(hashtable) \in Nat /\ IsFiniteSet(hashtable)
    BY FS_CardinalityType DEF IInv, TypeOK
  <1>1. CASE UNCHANGED <<hashtable, currfiles>>
    BY <1>0, <1>1 DEF LostFiles
  <1>2. ASSUME NEW c \in Clients, NEW p \in Paths, NEW lock \in BOOLEAN, OpenCreate(c, p, lock)
        PROVE  LostFiles' >= LostFiles
    <2>1. CASE UNCHANGED store
      BY <1>1, <2>1 DEF store
    <2>2. CASE /\ p \notin hashtable /\ hashtable' = (hashtable \ {}) \cup {p}
               /\ currfiles' = currfiles + 1
      <3>1. hashtable' = hashtable \cup {p} /\ Cardinality(hashtable') = Cardinality(hashtable) + 1
        BY <2>2, Counting
      <3> QED BY <1>0, <2>2, <3>1 DEF LostFiles
    <2>3. CASE /\ p \notin hashtable /\ HasVictim /\ hashtable' = (hashtable \ {Victim}) \cup {p}
               /\ currfiles' = currfiles
      <3>1. PICK less : less = hashtable \ {Victim}
        OBVIOUS
      <3>2. IsFiniteSet(less) /\ Cardinality(less) = Cardinality(hashtable) - 1
        BY <2>3, <3>1, VictimFacts, Counting
      <3>3. hashtable' = less \cup {p} /\ p \notin less
        BY <2>3, <3>1
      <3>4. Cardinality(hashtable') = Cardinality(less) + 1
        BY <3>2, <3>3, FS_AddElement
      <3> QED BY <1>0, <2>3, <3>2, <3>4 DEF LostFiles
    <2> QED BY <1>2, <2>1, <2>2, <2>3 DEF OpenCreate, StoreNew, Answer, Die
  <1>3. CASE EvictOne
    <2>1. CASE UNCHANGED store
      BY <1>1, <2>1 DEF store
    <2>2. CASE HasVictim /\ hashtable' = hashtable \ {Victim} /\ currfiles' = currfiles - 1
      <3>1. Cardinality(hashtable') = Cardinality(hashtable) - 1
        BY <2>2, VictimFacts, Counting
      <3> QED BY <1>0, <2>2, <3>1 DEF LostFiles
    <2> QED BY <1>3, <2>1, <2>2 DEF EvictOne, Forget, Die
  <1>4. ASSUME NEW c \in Clients, NEW p \in Paths, RemoveFile(c, p)
        PROVE  LostFiles' >= LostFiles
    <2>1. CASE UNCHANGED store
      BY <1>1, <2>1 DEF store
    <2>2. CASE p \in hashtable /\ hashtable' = hashtable \ {p} /\ UNCHANGED currfiles
      <3>1. Cardinality(hashtable') = Cardinality(hashtable) - 1
        BY <2>2, Counting
      <3> QED BY <1>0, <2>2, <3>1 DEF LostFiles
    <2> QED BY <1>4, <2>1, <2>2 DEF RemoveFile, Forget, Answer, Die
  <1>5. ASSUME NEW c \in Clients,
               \/ Accept(c) \/ ClientDies(c) \/ CloseConnection(c)
               \/ \E n \in Counts : ReadNFiles(c, n)
        PROVE  UNCHANGED <<hashtable, currfiles>>
    BY <1>5 DEF Accept, ClientDies, CloseConnection, ReadNFiles, Answer, Die, store
  <1>6. ASSUME NEW c \in Clients, NEW p \in Paths,
               \/ \E lock \in BOOLEAN : OpenExisting(c, p, lock)
               \/ OpenBadFlags(c, p) \/ CloseFile(c, p) \/ ReadFile(c, p)
               \/ LockFile(c, p) \/ UnlockFile(c, p)
               \/ \E n \in Sizes : WriteFile(c, p, n) \/ AppendToFile(c, p, n)
        PROVE  UNCHANGED <<hashtable, currfiles>>
    BY <1>6 DEF OpenExisting, OpenBadFlags, CloseFile, ReadFile, LockFile, UnlockFile, WriteFile,
       AppendToFile, Answer, Die, store
  <1>7. CASE FinishWrite
    BY <1>1, <1>7 DEF FinishWrite, Die, store
  <1> QED BY <1>1, <1>2, <1>3, <1>4, <1>5, <1>6, <1>7 DEF Next

(* Neither counter ever gets back the room it has lost to a REMOVE or to a *)
(* WRITE whose file was evicted under it: the storage only shrinks         *)
(* (server.c:317-318, 343, 623-624, 662, 832-837).                         *)
THEOREM LostRoomStaysLost == Spec => RoomLostForGood
  <1>1. SpaceInv /\ [Next]_vars => [LostFiles' >= LostFiles /\ LostBytes' >= LostBytes]_vars
    BY FilesLostStep, BytesStep DEF SpaceInv
  <1> QED BY <1>1, SpaceInductive, PTL DEF RoomLostForGood, Spec

-----------------------------------------------------------------------------
(* Why an eviction can find no file.  A running WRITE would fit into an    *)
(* empty storage.                                                          *)
WriterFits == writing # NoWrite => writing.size <= MaxSize

StarvedInv == WriterFits /\ OnlyLossStarves

(* Without a victim either the FIFO misses a file or there is none.        *)
LEMMA NoVictim ==
    ASSUME SpaceInv, ~HasVictim, hashtable \subseteq Elements(filepaths)
    PROVE  LostFiles = currfiles /\ LostBytes = currsize
  <1>1. filepaths \in List(Paths) /\ Elements(filepaths) \subseteq hashtable
    BY DEF SpaceInv, IInv, TypeOK, IndexAgrees
  <1>2. filepaths.items = <<>>
    <2>1. ASSUME filepaths.items # <<>>
          PROVE  Head(filepaths.items) \in Elements(filepaths)
      BY <1>1, <2>1, DropFirstList
    <2> QED BY <1>1, <2>1 DEF HasVictim
  <1>3. hashtable = {}
    BY <1>2, EmptyListList DEF Elements, EmptyList
  <1>4. Bytes(hashtable, datasize) = {}
    BY <1>3 DEF Bytes
  <1>5. Cardinality(hashtable) = 0 /\ Cardinality(Bytes(hashtable, datasize)) = 0
    BY <1>3, <1>4, FS_EmptySet
  <1>6. currfiles \in Nat /\ currsize \in Int
    BY DEF SpaceInv, IInv, TypeOK
  <1> QED BY <1>5, <1>6 DEF LostFiles, LostBytes, TotalSize

(* The three handlers that evict may die of it, each after its tests.      *)
LEMMA StarvedStep ==
    ASSUME SpaceInv, StarvedInv, Next
    PROVE  StarvedInv'
  <1>0. /\ currfiles \in Nat /\ currsize \in Int /\ MaxFiles \in Nat /\ MaxSize \in Nat
        /\ writing # NoWrite => writing \in Writes /\ writing.size \in Nat
    BY LimitsAssumption DEF SpaceInv, IInv, TypeOK, Writes
  <1>1. status = "running"
    BY DEF Next, Accept, ClientDies, Serving, OpenCreate, OpenExisting, OpenBadFlags, CloseFile,
       ReadFile, ReadNFiles, WriteFile, EvictOne, FinishWrite, AppendToFile, RemoveFile, LockFile,
       UnlockFile, CloseConnection
  <1>2. ASSUME writing' \in {writing, NoWrite}, status' # "noevictable"
        PROVE  StarvedInv'
    BY <1>2 DEF StarvedInv, WriterFits, OnlyLossStarves
  <1>3. ASSUME UNCHANGED <<store, writing>>,
               MaxFiles > 0 =>
                   LostFiles > 0 \/ LostBytes > 0 \/ ~(hashtable \subseteq Elements(filepaths))
        PROVE  StarvedInv'
    BY <1>3 DEF StarvedInv, WriterFits, OnlyLossStarves, LostFiles, LostBytes, TotalSize, Bytes,
       store, fields
  <1>4. ASSUME NEW c \in Clients, NEW p \in Paths, NEW lock \in BOOLEAN, OpenCreate(c, p, lock)
        PROVE  StarvedInv'
    <2>1. CASE TooMany /\ ~HasVictim /\ Die("noevictable")
      <3>1. MaxFiles > 0 => currfiles > 0
        BY <1>0, <2>1 DEF TooMany
      <3> QED BY <1>3, <2>1, <3>1, NoVictim DEF Die
    <2>2. CASE UNCHANGED <<writing, status>>
      BY <1>1, <1>2, <2>2
    <2>3. CASE writing' = writing /\ status' \in {"running", "undefined"}
      BY <1>2, <2>3
    <2> QED BY <1>4, <2>1, <2>2, <2>3 DEF OpenCreate, StoreNew, Answer, MayCorrupt
  <1>5. CASE EvictOne
    <2>1. CASE TooBig(writing.size) /\ writing # NoWrite /\ ~HasVictim /\ Die("noevictable")
      <3>1. currsize > 0
        BY <1>0, <2>1 DEF TooBig, StarvedInv, WriterFits
      <3> QED BY <1>3, <2>1, <3>1, NoVictim DEF Die
    <2>2. CASE writing # NoWrite /\ writing' = [writing EXCEPT !.evicted = Reported] /\ UNCHANGED status
      <3>1. writing'.size = writing.size
        BY <1>0, <2>2 DEF Writes
      <3> QED BY <1>1, <2>2, <3>1 DEF StarvedInv, WriterFits, OnlyLossStarves
    <2> QED BY <1>5, <2>1, <2>2 DEF EvictOne
  <1>6. ASSUME NEW c \in Clients, NEW p \in Paths, NEW n \in Sizes, WriteFile(c, p, n)
        PROVE  StarvedInv'
    <2>1. CASE UNCHANGED <<writing, status>>
      BY <1>1, <1>2, <2>1
    <2>2. CASE /\ n <= MaxSize /\ UNCHANGED status
               /\ writing' = [client |-> c, path |-> p, size |-> n, evicted |-> <<>>]
      BY <1>1, <2>2 DEF StarvedInv, WriterFits, OnlyLossStarves
    <2> QED BY <1>6, <2>1, <2>2 DEF WriteFile, Answer
  <1>7. ASSUME NEW c \in Clients, NEW p \in Paths, NEW n \in Sizes, AppendToFile(c, p, n)
        PROVE  StarvedInv'
    <2>1. CASE n <= MaxSize /\ TooBig(n) /\ ~HasVictim /\ Die("noevictable")
      <3>1. currsize > 0
        BY <1>0, <2>1, SizesAssumption DEF TooBig
      <3> QED BY <1>3, <2>1, <3>1, NoVictim DEF Die
    <2>2. CASE UNCHANGED <<writing, status>>
      BY <1>1, <1>2, <2>2
    <2>3. CASE writing' = writing /\ status' \in {"running", "undefined", "appendevict", "nullptr"}
      BY <1>2, <2>3
    <2> QED BY <1>7, <2>1, <2>2, <2>3 DEF AppendToFile, Answer, Die, MayCorrupt
  <1>8. CASE FinishWrite
    BY <1>1, <1>2, <1>8 DEF FinishWrite, Die, MayCorrupt
  <1>9. ASSUME NEW c \in Clients,
               \/ Accept(c) \/ ClientDies(c) \/ CloseConnection(c)
               \/ \E n \in Counts : ReadNFiles(c, n)
        PROVE  StarvedInv'
    BY <1>1, <1>2, <1>9 DEF Accept, ClientDies, CloseConnection, ReadNFiles, Answer, Die, MayCorrupt
  <1>10. ASSUME NEW c \in Clients, NEW p \in Paths,
                \/ \E lock \in BOOLEAN : OpenExisting(c, p, lock)
                \/ OpenBadFlags(c, p) \/ CloseFile(c, p) \/ ReadFile(c, p) \/ RemoveFile(c, p)
                \/ LockFile(c, p) \/ UnlockFile(c, p)
         PROVE  StarvedInv'
    BY <1>1, <1>2, <1>10 DEF OpenExisting, OpenBadFlags, CloseFile, ReadFile, RemoveFile, LockFile,
       UnlockFile, Answer, Die, MayCorrupt
  <1> QED BY <1>4, <1>5, <1>6, <1>7, <1>8, <1>9, <1>10 DEF Next

(* An OPEN, a WRITE or an APPEND that finds no file to evict pays for an   *)
(* earlier REMOVE, for a WRITE whose own file was evicted, or for the lost *)
(* tail of the FIFO (server.c:295, 607-611, 731; storage.c:294).           *)
THEOREM StarvationIsInherited == Spec => []OnlyLossStarves
  <1>1. Init => StarvedInv
    BY DEF Init, StarvedInv, WriterFits, OnlyLossStarves
  <1>2. SpaceInv /\ StarvedInv /\ [Next]_vars => StarvedInv'
    <2>1. CASE UNCHANGED vars
      BY <2>1 DEF vars, store, fields, StarvedInv, WriterFits, OnlyLossStarves, LostFiles, LostBytes,
         TotalSize, Bytes
    <2> QED BY <2>1, StarvedStep
  <1>3. StarvedInv => OnlyLossStarves
    BY DEF StarvedInv
  <1> QED BY <1>1, <1>2, <1>3, SpaceInductive, PTL DEF Spec

-----------------------------------------------------------------------------
(* The abstract store of the storage.                                      *)
Files == [p \in hashtable |-> datasize[p]]

(* FileStore counts as Storage does.                                       *)
LEMMA SameCardinality ==
    ASSUME NEW S
    PROVE  Abstract!Cardinality(S) = Cardinality(S)
  BY DEF Cardinality, Abstract!Cardinality

LEMMA FilesBytes == DOMAIN Files = hashtable /\ Abstract!Total(Files) = TotalSize
  <1>1. {{p} \X (1 .. Files[p]) : p \in DOMAIN Files} = {{p} \X (1 .. datasize[p]) : p \in hashtable}
    BY DEF Files
  <1>2. DOMAIN Files = hashtable
    BY DEF Files
  <1>3. Abstract!Total(Files) = Cardinality(UNION {{p} \X (1 .. Files[p]) : p \in DOMAIN Files})
    BY SameCardinality DEF Abstract!Total
  <1>4. TotalSize = Cardinality(UNION {{p} \X (1 .. datasize[p]) : p \in hashtable})
    BY DEF TotalSize, Bytes
  <1> QED BY <1>1, <1>2, <1>3, <1>4

(* Each step of the storage creates, drops, fills or grows one file, or    *)
(* leaves them all as they are.                                            *)
LEMMA StoreStep ==
    ASSUME SpaceInv, SpaceInv', Next
    PROVE  [Abstract!Next]_Files
  <1> DEFINE A(p) == \/ \E gone \in SUBSET hashtable : Abstract!Create(p, gone)
                     \/ Abstract!Drop(p)
                     \/ \E n \in 1 .. MaxSize : Abstract!Fill(p, n) \/ Abstract!Grow(p, n)
  <1>0. /\ hashtable \subseteq Paths /\ datasize \in [Paths -> Nat] /\ currfiles \in Nat
        /\ IsFiniteSet(hashtable) /\ Cardinality(hashtable) <= currfiles /\ currfiles <= MaxFiles
        /\ MaxFiles \in Nat /\ MaxSize \in Nat /\ currsize \in Int
        /\ Cardinality(hashtable) \in Nat
    BY LimitsAssumption, FS_CardinalityType DEF SpaceInv, IInv, TypeOK, FilesWithinCapacity
  <1>1. ASSUME NEW p \in Paths, A(p)
        PROVE  Abstract!Next
    BY <1>1 DEF Abstract!Next, Abstract!Stored, Files
  <1>2. CASE UNCHANGED <<hashtable, datasize>>
    BY <1>2 DEF Files
  <1>3. ASSUME NEW p \in hashtable, Forget({p})
        PROVE  Abstract!Next
    <2>1. Files' = [q \in hashtable \ {p} |-> datasize[q]]
      BY <1>0, <1>3 DEF Files, Forget, Reset
    <2>2. Abstract!Drop(p)
      BY <2>1 DEF Abstract!Drop, Abstract!Stored, Files
    <2> QED BY <1>0, <1>1, <2>2
  <1>4. Abstract!Total(Files)' <= MaxSize
    <2>1. TotalSize' <= MaxSize
      <3>1. /\ currsize' \in Int /\ TotalSize' <= currsize' /\ currsize' <= MaxSize
            /\ IsFiniteSet(Bytes(hashtable, datasize))'
        BY DEF SpaceInv, BytesInv, BytesWithinCapacity, IInv, TypeOK
      <3>2. TotalSize' \in Nat
        BY <3>1, FS_CardinalityType DEF TotalSize
      <3> QED BY <1>0, <3>1, <3>2
    <2>2. (Abstract!Total(Files) = TotalSize)'
      BY FilesBytes, PTL
    <2> QED BY <2>1, <2>2
  <1>5. ASSUME NEW c \in Clients, NEW p \in Paths, NEW lock \in BOOLEAN, OpenCreate(c, p, lock)
        PROVE  [Abstract!Next]_Files
    <2>1. CASE UNCHANGED store
      BY <1>2, <2>1 DEF store, fields
    <2>2. ASSUME p \notin hashtable, NEW gone \in SUBSET hashtable,
                 Cardinality(hashtable \ gone) < MaxFiles,
                 hashtable' = (hashtable \ gone) \cup {p}, datasize' = Reset(datasize, gone \cup {p}, 0)
          PROVE  Abstract!Next
      <3>1. Files' = [q \in (hashtable \ gone) \cup {p} |-> IF q = p THEN 0 ELSE datasize[q]]
        BY <1>0, <2>2 DEF Files, Reset
      <3>2. \A q \in (hashtable \ gone) \cup {p} : q # p => Files[q] = datasize[q]
        BY DEF Files
      <3>3. Files' = [q \in (hashtable \ gone) \cup {p} |-> IF q = p THEN 0 ELSE Files[q]]
        BY <3>1, <3>2
      <3>4. DOMAIN Files = hashtable
        BY DEF Files
      <3>5. Abstract!Create(p, gone)
        BY <2>2, <3>3, <3>4, SameCardinality DEF Abstract!Create, Abstract!Stored, Files
      <3> QED BY <1>1, <2>2, <3>5
    <2>3. CASE /\ p \notin hashtable /\ ~TooMany
               /\ hashtable' = (hashtable \ {}) \cup {p} /\ datasize' = Reset(datasize, {} \cup {p}, 0)
      <3>1. hashtable \ {} = hashtable /\ {} \in SUBSET hashtable
        OBVIOUS
      <3>2. Cardinality(hashtable \ {}) < MaxFiles
        BY <1>0, <2>3, <3>1 DEF TooMany
      <3> QED BY <2>2, <2>3, <3>1, <3>2
    <2>4. CASE /\ p \notin hashtable /\ HasVictim
               /\ hashtable' = (hashtable \ {Victim}) \cup {p} /\ datasize' = Reset(datasize, {Victim} \cup {p}, 0)
      <3>1. Victim \in hashtable
        BY <2>4, VictimFacts DEF SpaceInv
      <3>2. Cardinality(hashtable \ {Victim}) = Cardinality(hashtable) - 1
        BY <3>1, Counting DEF SpaceInv
      <3>3. Cardinality(hashtable \ {Victim}) < MaxFiles
        BY <1>0, <3>2
      <3>4. {Victim} \in SUBSET hashtable
        BY <3>1
      <3> QED BY <2>2, <2>4, <3>3, <3>4
    <2> QED BY <1>5, <2>1, <2>3, <2>4 DEF OpenCreate, StoreNew, Answer, Die
  <1>6. CASE EvictOne
    <2>1. CASE UNCHANGED store
      BY <1>2, <2>1 DEF store, fields
    <2>2. CASE HasVictim /\ Forget({Victim})
      <3>1. Victim \in hashtable
        BY <2>2, VictimFacts DEF SpaceInv
      <3> QED BY <1>3, <2>2, <3>1
    <2> QED BY <1>6, <2>1, <2>2 DEF EvictOne, Die
  <1>7. CASE FinishWrite
    <2>1. /\ writing \in Writes /\ writing # NoWrite /\ writing.size \in Nat /\ writing.path \in Paths
          /\ ~TooBig(writing.size)
      BY <1>7 DEF FinishWrite, SpaceInv, IInv, TypeOK, Writes
    <2>2. CASE UNCHANGED <<hashtable, datasize>>
      BY <1>2, <2>2
    <2>3. CASE /\ writing.path \in hashtable /\ datasize' = [datasize EXCEPT ![writing.path] = writing.size]
               /\ UNCHANGED hashtable /\ writing.size > 0
      <3>1. PICK p, n : p = writing.path /\ n = writing.size
        OBVIOUS
      <3>2. datasize[p] = 0
        BY <2>1, <2>3, <3>1 DEF SpaceInv, WriterFresh
      <3>3. n \in 1 .. MaxSize
        <4>1. TotalSize \in Nat /\ TotalSize <= currsize
          BY FS_CardinalityType DEF SpaceInv, BytesInv, BytesWithinCapacity, TotalSize
        <4>2. ~(currsize + n > MaxSize) /\ n \in Nat /\ n > 0
          BY <2>1, <2>3, <3>1 DEF TooBig
        <4> QED BY <1>0, <4>1, <4>2
      <3>4. Files' = [Files EXCEPT ![p] = n]
        BY <1>0, <2>3, <3>1 DEF Files
      <3>5. Abstract!Fill(p, n)
        BY <1>4, <2>3, <3>1, <3>2, <3>4 DEF Abstract!Fill, Abstract!Stored, Files, Abstract!Total
      <3> QED BY <1>1, <2>1, <3>1, <3>3, <3>5
    <2> QED BY <1>7, <2>2, <2>3 DEF FinishWrite, Die, store, fields
  <1>8. ASSUME NEW c \in Clients, NEW p \in Paths, NEW n \in Sizes, AppendToFile(c, p, n)
        PROVE  [Abstract!Next]_Files
    <2>1. CASE UNCHANGED store
      BY <1>2, <2>1 DEF store, fields
    <2>2. CASE /\ p \in hashtable /\ MayAppend(c, p) /\ n # 0 /\ n <= MaxSize
               /\ datasize' = [datasize EXCEPT ![p] = @ + n] /\ UNCHANGED hashtable
      <3>1. datasize[p] > 0 /\ n \in 1 .. MaxSize
        BY <1>0, <2>2, SizesAssumption DEF MayAppend, SpaceInv, IInv, EmptyUntilWritten
      <3>2. Files' = [Files EXCEPT ![p] = @ + n]
        BY <1>0, <2>2 DEF Files
      <3>3. Abstract!Grow(p, n)
        BY <1>4, <2>2, <3>1, <3>2 DEF Abstract!Grow, Abstract!Stored, Files, Abstract!Total
      <3> QED BY <1>1, <3>1, <3>3
    <2> QED BY <1>8, <2>1, <2>2 DEF AppendToFile, Answer, Die
  <1>9. ASSUME NEW c \in Clients, NEW p \in Paths, RemoveFile(c, p)
        PROVE  [Abstract!Next]_Files
    <2>1. CASE UNCHANGED store
      BY <1>2, <2>1 DEF store, fields
    <2>2. CASE p \in hashtable /\ Forget({p})
      BY <1>3, <2>2
    <2> QED BY <1>9, <2>1, <2>2 DEF RemoveFile, Answer, Die
  <1> QED BY <1>2, <1>5, <1>6, <1>7, <1>8, <1>9 DEF Next, Accept, ClientDies, OpenExisting, OpenBadFlags,
         CloseFile, ReadFile, ReadNFiles, WriteFile, LockFile, UnlockFile, CloseConnection, Answer, Die,
         store, fields

(* The storage implements the store of files that are created empty,       *)
(* filled once and then only grow, within both limits.                     *)
THEOREM Refinement == Spec => ImplementsFileStore
  <1>1. Init => Abstract!Init
    BY DEF Init, Abstract!Init
  <1>2. SpaceInv /\ SpaceInv' /\ [Next]_vars => [Abstract!Next]_Files
    BY StoreStep DEF vars, store, fields, Files
  <1> QED BY <1>1, <1>2, SpaceInductive, PTL DEF Spec, ImplementsFileStore, Abstract!Spec, Files
=============================================================================
