-------------------------- MODULE LinkedLists_proofs --------------------------
(***************************************************************************)
(* What the operations of the linked lists preserve, for lists of any      *)
(* elements: the type, the distinctness of the elements, and which         *)
(* elements are left.                                                      *)
(***************************************************************************)
EXTENDS LinkedLists, SequenceTheorems, WellFoundedInduction, TLAPS

(* Every element of a list over S is in S.                                 *)
LEMMA ElementsType ==
    ASSUME NEW S, NEW l \in List(S)
    PROVE  Elements(l) \subseteq S
  BY DEF List, Elements, ToSet

(* An append adds at most the new element.                                 *)
LEMMA PutLastList ==
    ASSUME NEW S, NEW l \in List(S), NEW e \in S
    PROVE  /\ PutLast(l, e) \in List(S)
           /\ Elements(PutLast(l, e)) \subseteq Elements(l) \cup {e}
           /\ Distinct(l) /\ e \notin Elements(l) => Distinct(PutLast(l, e))
  <1>1. CASE Dangling(l)
    BY <1>1 DEF PutLast
  <1>2. CASE ~Dangling(l)
    <2> DEFINE s == Append(l.items, e)
    <2>1. PutLast(l, e) = [items |-> s, tailok |-> TRUE]
      BY <1>2 DEF PutLast
    <2>2. /\ l.items \in Seq(S)
          /\ s \in Seq(S)
          /\ Len(s) = Len(l.items) + 1
          /\ \A i \in 1 .. Len(s) : s[i] = IF i <= Len(l.items) THEN l.items[i] ELSE e
      BY DEF List
    <2> HIDE DEF s
    <2>3. PutLast(l, e) \in List(S)
      BY <2>1, <2>2 DEF List
    <2>4. Elements(PutLast(l, e)) \subseteq Elements(l) \cup {e}
      BY <2>1, <2>2 DEF Elements, ToSet
    <2>5. ASSUME Distinct(l), e \notin Elements(l)
          PROVE  Distinct(PutLast(l, e))
      <3> SUFFICES ASSUME NEW i \in 1 .. Len(s), NEW j \in 1 .. Len(s), s[i] = s[j]
                   PROVE  i = j
        BY <2>1, <2>2 DEF Distinct
      <3>1. \A k \in 1 .. Len(l.items) : l.items[k] # e
        BY <2>2, <2>5 DEF Elements, ToSet
      <3>2. \A k, m \in 1 .. Len(l.items) : l.items[k] = l.items[m] => k = m
        BY <2>2, <2>5 DEF Distinct
      <3>3. CASE i <= Len(l.items) /\ j <= Len(l.items)
        BY <2>2, <3>2, <3>3
      <3>4. CASE i <= Len(l.items) /\ j > Len(l.items)
        BY <2>2, <3>1, <3>4
      <3>5. CASE i > Len(l.items) /\ j <= Len(l.items)
        BY <2>2, <3>1, <3>5
      <3>6. CASE i > Len(l.items) /\ j > Len(l.items)
        BY <2>2, <3>6
      <3> QED BY <2>2, <3>3, <3>4, <3>5, <3>6
    <2> QED BY <2>3, <2>4, <2>5
  <1> QED BY <1>1, <1>2

(* Taking the head leaves the other elements.                              *)
LEMMA DropFirstList ==
    ASSUME NEW S, NEW l \in List(S), l.items # <<>>
    PROVE  /\ DropFirst(l) \in List(S)
           /\ Elements(DropFirst(l)) \subseteq Elements(l)
           /\ Head(l.items) \in Elements(l)
           /\ Distinct(l) => /\ Distinct(DropFirst(l))
                             /\ Head(l.items) \notin Elements(DropFirst(l))
  <1> DEFINE t == Tail(l.items)
  <1>1. /\ l.items \in Seq(S)
        /\ Len(l.items) \in Nat \ {0}
        /\ t \in Seq(S)
        /\ Len(t) = Len(l.items) - 1
        /\ \A i \in 1 .. Len(t) : t[i] = l.items[i + 1]
        /\ Head(l.items) = l.items[1]
    BY DEF List
  <1>2. DropFirst(l).items = t /\ DropFirst(l).tailok \in BOOLEAN /\ DropFirst(l) \in [items : {t}, tailok : BOOLEAN]
    BY DEF DropFirst, List
  <1> HIDE DEF t
  <1>3. DropFirst(l) \in List(S)
    BY <1>1, <1>2 DEF List
  <1>4. Elements(DropFirst(l)) \subseteq Elements(l)
    BY <1>1, <1>2 DEF Elements, ToSet
  <1>5. Head(l.items) \in Elements(l)
    BY <1>1 DEF Elements, ToSet
  <1>6. ASSUME Distinct(l)
        PROVE  Distinct(DropFirst(l)) /\ Head(l.items) \notin Elements(DropFirst(l))
    <2>1. \A k, m \in 1 .. Len(l.items) : l.items[k] = l.items[m] => k = m
      BY <1>1, <1>6 DEF Distinct
    <2>2. \A i, j \in 1 .. Len(t) : t[i] = t[j] => i = j
      BY <1>1, <2>1
    <2>3. \A i \in 1 .. Len(t) : t[i] # Head(l.items)
      BY <1>1, <2>1
    <2> QED BY <1>1, <1>2, <2>2, <2>3 DEF Distinct, Elements, ToSet
  <1> QED BY <1>3, <1>4, <1>5, <1>6

(* A sequence without its i-th element.                                    *)
LEMMA RemoveAtSeq ==
    ASSUME NEW S, NEW s \in Seq(S), NEW i \in 1 .. Len(s)
    PROVE  /\ RemoveAt(s, i) \in Seq(S)
           /\ Len(RemoveAt(s, i)) = Len(s) - 1
           /\ \A j \in 1 .. Len(s) - 1 : RemoveAt(s, i)[j] = IF j < i THEN s[j] ELSE s[j + 1]
  <1> DEFINE a == SubSeq(s, 1, i - 1)
             b == SubSeq(s, i + 1, Len(s))
  <1>1. a \in Seq(S) /\ Len(a) = i - 1 /\ \A j \in 1 .. i - 1 : a[j] = s[j]
    OBVIOUS
  <1>2. b \in Seq(S) /\ Len(b) = Len(s) - i /\ \A j \in 1 .. Len(s) - i : b[j] = s[i + j]
    OBVIOUS
  <1>3. RemoveAt(s, i) = a \o b
    BY DEF RemoveAt
  <1> HIDE DEF a, b
  <1>4. /\ a \o b \in Seq(S)
        /\ Len(a \o b) = Len(a) + Len(b)
        /\ \A j \in 1 .. Len(a) + Len(b) :
                (a \o b)[j] = IF j <= Len(a) THEN a[j] ELSE b[j - Len(a)]
    BY <1>1, <1>2, ConcatProperties
  <1>5. Len(s) \in Nat /\ i \in Nat
    OBVIOUS
  <1>6. Len(RemoveAt(s, i)) = Len(s) - 1
    BY <1>1, <1>2, <1>3, <1>4, <1>5
  <1>7. ASSUME NEW j \in 1 .. Len(s) - 1
        PROVE  RemoveAt(s, i)[j] = IF j < i THEN s[j] ELSE s[j + 1]
    <2>1. CASE j < i
      BY <1>1, <1>2, <1>3, <1>4, <1>5, <2>1
    <2>2. CASE j >= i
      <3>1. (a \o b)[j] = b[j - (i - 1)]
        BY <1>1, <1>2, <1>4, <1>5, <2>2
      <3>2. j - (i - 1) \in 1 .. Len(s) - i /\ i + (j - (i - 1)) = j + 1
        BY <1>5, <2>2
      <3>3. b[j - (i - 1)] = s[j + 1]
        BY <1>2, <3>2
      <3> QED BY <1>3, <1>5, <2>2, <3>1, <3>3
    <2> QED BY <1>5, <2>1, <2>2
  <1> QED BY <1>3, <1>4, <1>6, <1>7

(* The first occurrence of an element of a sequence exists.                *)
LEMMA FirstIndexSeq ==
    ASSUME NEW S, NEW s \in Seq(S), NEW e \in ToSet(s)
    PROVE  FirstIndex(s, e) \in 1 .. Len(s) /\ s[FirstIndex(s, e)] = e
  <1> DEFINE I == {i \in 1 .. Len(s) : s[i] = e}
             less == OpToRel(<, Nat)
  <1>1. I # {} /\ I \subseteq Nat
    BY DEF ToSet
  <1>2. IsWellFoundedOn(less, Nat)
    BY NatLessThanWellFounded
  <1>3. PICK m \in I : \A i \in I : <<i, m>> \notin less
    <2> HIDE DEF I, less
    <2> QED BY <1>1, <1>2, WFMin
  <1>4. \A i \in I : ~(i < m)
    BY <1>1, <1>3 DEF OpToRel
  <1>5. /\ m \in DOMAIN s
        /\ s[m] = e /\ \A j \in 1 .. m - 1 : s[j] # e
    BY <1>4
  <1> QED BY <1>5 DEF FirstIndex

(* Unlinking an element keeps the others and, of a list without duplicates *)
(* (no other does the code keep in the FIFO), leaves none of its kind.     *)
LEMMA UnlinkList ==
    ASSUME NEW S, NEW l \in List(S), NEW e \in Elements(l)
    PROVE  /\ Unlink(l, e) \in List(S)
           /\ Elements(Unlink(l, e)) \subseteq Elements(l)
           /\ Distinct(l) => /\ Distinct(Unlink(l, e))
                             /\ e \notin Elements(Unlink(l, e))
  <1> DEFINE s == l.items
             k == FirstIndex(s, e)
             r == RemoveAt(s, k)
             u == Unlink(l, e)
  <1>1. s \in Seq(S) /\ Len(s) \in Nat /\ l.tailok \in BOOLEAN /\ e \in ToSet(s)
    BY DEF List, Elements
  <1>2. k \in 1 .. Len(s) /\ s[k] = e
    <2> HIDE DEF s
    <2> QED BY <1>1, FirstIndexSeq
  <1>3. u.items = r /\ u \in [items : {r}, tailok : BOOLEAN]
    <2>1. u = [items |-> r, tailok |-> IF k = Len(s) THEN k = 1 ELSE l.tailok]
      BY DEF Unlink
    <2> HIDE DEF s, k, r, u
    <2> QED BY <1>1, <2>1
  <1> HIDE DEF k
  <1>4. /\ r \in Seq(S)
        /\ Len(r) = Len(s) - 1
        /\ \A j \in 1 .. Len(s) - 1 : r[j] = IF j < k THEN s[j] ELSE s[j + 1]
    <2> HIDE DEF s
    <2> QED BY <1>1, <1>2, RemoveAtSeq
  <1> HIDE DEF r, u
  <1>5. u \in List(S)
    BY <1>3, <1>4 DEF List
  <1>6. \A j \in 1 .. Len(r) : \E i \in 1 .. Len(s) : i # k /\ r[j] = s[i]
    <2> TAKE j \in 1 .. Len(r)
    <2>1. CASE j < k
      <3>1. j \in 1 .. Len(s) /\ j # k /\ r[j] = s[j]
        BY <1>1, <1>2, <1>4, <2>1
      <3> QED BY <3>1
    <2>2. CASE j >= k
      <3>1. j + 1 \in 1 .. Len(s) /\ j + 1 # k /\ r[j] = s[j + 1]
        BY <1>1, <1>2, <1>4, <2>2
      <3> QED BY <3>1
    <2> QED BY <1>1, <1>2, <1>4, <2>1, <2>2
  <1>7. Elements(u) \subseteq Elements(l)
    BY <1>1, <1>3, <1>4, <1>6 DEF Elements, ToSet
  <1>8. ASSUME Distinct(l)
        PROVE  Distinct(u) /\ e \notin Elements(u)
    <2>1. \A i, j \in 1 .. Len(s) : s[i] = s[j] => i = j
      BY <1>1, <1>8 DEF Distinct
    <2>2. \A i, j \in 1 .. Len(r) : r[i] = r[j] => i = j
      <3> SUFFICES ASSUME NEW i \in 1 .. Len(r), NEW j \in 1 .. Len(r), r[i] = r[j]
                   PROVE  i = j
        OBVIOUS
      <3> DEFINE at(n) == IF n < k THEN n ELSE n + 1
      <3>1. /\ at(i) \in 1 .. Len(s) /\ r[i] = s[at(i)]
            /\ at(j) \in 1 .. Len(s) /\ r[j] = s[at(j)]
        BY <1>1, <1>2, <1>4
      <3>2. at(i) = at(j)
        <4> HIDE DEF at
        <4> QED BY <2>1, <3>1
      <3> QED BY <1>1, <1>2, <1>4, <3>2
    <2>3. \A j \in 1 .. Len(r) : r[j] # e
      BY <1>2, <1>6, <2>1
    <2> QED BY <1>3, <1>4, <2>2, <2>3 DEF Distinct, Elements, ToSet
  <1> QED BY <1>5, <1>7, <1>8 DEF u

(* An append loses no element, and an empty list takes the new one.        *)
LEMMA PutLastKeeps ==
    ASSUME NEW S, NEW l \in List(S), NEW e \in S
    PROVE  /\ Elements(l) \subseteq Elements(PutLast(l, e))
           /\ Elements(PutLast(EmptyList, e)) = {e}
  <1>1. l.items \in Seq(S) /\ Len(l.items) \in Nat
    BY DEF List
  <1>2. /\ Len(Append(l.items, e)) = Len(l.items) + 1
        /\ \A i \in 1 .. Len(l.items) : Append(l.items, e)[i] = l.items[i]
    BY <1>1
  <1>3. ASSUME Dangling(l)
        PROVE  Elements(l) \subseteq Elements(PutLast(l, e))
    BY <1>3 DEF PutLast
  <1>4. ASSUME ~Dangling(l)
        PROVE  Elements(l) \subseteq Elements(PutLast(l, e))
    <2>1. PutLast(l, e).items = Append(l.items, e)
      BY <1>4 DEF PutLast
    <2> QED BY <1>1, <1>2, <2>1 DEF Elements, ToSet
  <1>5. PutLast(EmptyList, e).items = <<e>>
    BY DEF PutLast, Dangling, EmptyList
  <1>6. Elements(PutLast(EmptyList, e)) = {e}
    BY <1>5 DEF Elements, ToSet
  <1> QED BY <1>3, <1>4, <1>6

(* Unlinking one element keeps all others.                                 *)
LEMMA UnlinkKeeps ==
    ASSUME NEW S, NEW l \in List(S), NEW e \in Elements(l), NEW d \in Elements(l), d # e
    PROVE  d \in Elements(Unlink(l, e))
  <1> DEFINE s == l.items
             k == FirstIndex(s, e)
             r == RemoveAt(s, k)
  <1>1. s \in Seq(S) /\ Len(s) \in Nat /\ e \in ToSet(s)
    BY DEF List, Elements
  <1>2. k \in 1 .. Len(s) /\ s[k] = e
    <2> HIDE DEF s
    <2> QED BY <1>1, FirstIndexSeq
  <1>3. Unlink(l, e).items = r
    BY DEF Unlink
  <1> HIDE DEF k
  <1>4. /\ r \in Seq(S)
        /\ Len(r) = Len(s) - 1
        /\ \A j \in 1 .. Len(s) - 1 : r[j] = IF j < k THEN s[j] ELSE s[j + 1]
    <2> HIDE DEF s
    <2> QED BY <1>1, <1>2, RemoveAtSeq
  <1>5. PICK i \in 1 .. Len(s) : s[i] = d
    BY <1>1 DEF Elements, ToSet
  <1> HIDE DEF r
  <1>6. PICK j \in 1 .. Len(r) : r[j] = d
    <2>1. CASE i < k
      <3>1. i \in 1 .. Len(r) /\ r[i] = d
        BY <1>1, <1>2, <1>4, <1>5, <2>1
      <3> QED BY <3>1
    <2>2. CASE i > k
      <3>1. i - 1 \in 1 .. Len(r) /\ r[i - 1] = d
        BY <1>1, <1>2, <1>4, <1>5, <2>2
      <3> QED BY <3>1
    <2> QED BY <1>1, <1>2, <1>5, <2>1, <2>2
  <1> QED BY <1>3, <1>4, <1>6 DEF Elements, ToSet

(* removeFd and deleteFilepathNode, of any list.                           *)
LEMMA removeFdList ==
    ASSUME NEW S, NEW l \in List(S), NEW fd
    PROVE  removeFd(l, fd) \in List(S) /\ Elements(removeFd(l, fd)) \subseteq Elements(l)
  BY UnlinkList DEF removeFd

LEMMA deleteFilepathNodeList ==
    ASSUME NEW S, NEW l \in List(S), NEW path
    PROVE  /\ deleteFilepathNode(l, path) \in List(S)
           /\ Elements(deleteFilepathNode(l, path)) \subseteq Elements(l)
           /\ Distinct(l) => /\ Distinct(deleteFilepathNode(l, path))
                             /\ path \notin Elements(deleteFilepathNode(l, path))
  BY UnlinkList DEF deleteFilepathNode

(* removeFd only takes its own descriptor out.                             *)
LEMMA removeFdKeeps ==
    ASSUME NEW S, NEW l \in List(S), NEW fd, NEW d \in Elements(l), d # fd
    PROVE  d \in Elements(removeFd(l, fd))
  BY UnlinkKeeps DEF removeFd

(* Of the elements of a list that is in it at most once.                   *)
Once(l, e) == \A i, j \in DOMAIN l.items : l.items[i] = e /\ l.items[j] = e => i = j

(* An append keeps e so, unless it adds it to itself.                      *)
LEMMA PutLastOnce ==
    ASSUME NEW S, NEW l \in List(S), NEW e \in S, NEW d, Once(l, d), d = e => d \notin Elements(l)
    PROVE  Once(PutLast(l, e), d)
  <1>1. l.items \in Seq(S) /\ Len(l.items) \in Nat
    BY DEF List
  <1>2. /\ Append(l.items, e) \in Seq(S)
        /\ Len(Append(l.items, e)) = Len(l.items) + 1
        /\ \A i \in 1 .. Len(l.items) : Append(l.items, e)[i] = l.items[i]
        /\ Append(l.items, e)[Len(l.items) + 1] = e
    BY <1>1
  <1>3. CASE Dangling(l)
    BY <1>3 DEF PutLast
  <1>4. CASE ~Dangling(l)
    <2>1. PutLast(l, e).items = Append(l.items, e)
      BY <1>4 DEF PutLast
    <2>2. \A i \in 1 .. Len(l.items) : l.items[i] = d => d # e
      BY <1>1 DEF Elements, ToSet
    <2>3. \A i, j \in 1 .. Len(l.items) : l.items[i] = d /\ l.items[j] = d => i = j
      BY <1>1 DEF Once
    <2>4. \A i, j \in 1 .. Len(l.items) + 1 :
              Append(l.items, e)[i] = d /\ Append(l.items, e)[j] = d => i = j
      BY <1>1, <1>2, <2>2, <2>3
    <2> QED BY <1>1, <1>2, <2>1, <2>4 DEF Once
  <1> QED BY <1>3, <1>4

(* Unlinking takes the only one away, and adds none.                       *)
LEMMA UnlinkOnce ==
    ASSUME NEW S, NEW l \in List(S), NEW e \in Elements(l), NEW d, Once(l, d)
    PROVE  Once(Unlink(l, e), d) /\ (d = e => d \notin Elements(Unlink(l, e)))
  <1> DEFINE s == l.items
             k == FirstIndex(s, e)
             r == RemoveAt(s, k)
  <1>1. s \in Seq(S) /\ Len(s) \in Nat /\ e \in ToSet(s)
    BY DEF List, Elements
  <1>2. k \in 1 .. Len(s) /\ s[k] = e
    <2> HIDE DEF s
    <2> QED BY <1>1, FirstIndexSeq
  <1>3. Unlink(l, e).items = r
    BY DEF Unlink
  <1> HIDE DEF k
  <1>4. /\ r \in Seq(S)
        /\ Len(r) = Len(s) - 1
        /\ \A j \in 1 .. Len(s) - 1 : r[j] = IF j < k THEN s[j] ELSE s[j + 1]
    <2> HIDE DEF s
    <2> QED BY <1>1, <1>2, RemoveAtSeq
  <1> HIDE DEF r
  <1>5. \A i, j \in 1 .. Len(s) : s[i] = d /\ s[j] = d => i = j
    BY <1>1 DEF Once
  <1> DEFINE from(n) == IF n < k THEN n ELSE n + 1
  <1>6. \A j \in 1 .. Len(r) : from(j) \in 1 .. Len(s) /\ from(j) # k /\ r[j] = s[from(j)]
    BY <1>1, <1>2, <1>4
  <1>7. \A i, j \in 1 .. Len(r) : from(i) = from(j) => i = j
    BY <1>1, <1>2, <1>4
  <1> HIDE DEF from
  <1>8. \A i, j \in 1 .. Len(r) : r[i] = d /\ r[j] = d => i = j
    BY <1>5, <1>6, <1>7
  <1>9. d = e => \A j \in 1 .. Len(r) : r[j] # d
    BY <1>2, <1>5, <1>6
  <1> QED BY <1>3, <1>4, <1>8, <1>9 DEF Once, Elements, ToSet

(* removeFd, likewise.                                                     *)
LEMMA removeFdOnce ==
    ASSUME NEW S, NEW l \in List(S), NEW fd, NEW d, Once(l, d)
    PROVE  Once(removeFd(l, fd), d) /\ (d = fd => d \notin Elements(removeFd(l, fd)))
  BY UnlinkOnce DEF removeFd

-----------------------------------------------------------------------------
(* An append changes the order of nothing, and puts a new element last.    *)
LEMMA PutLastOrder ==
    ASSUME NEW S, NEW l \in List(S), NEW e \in S
    PROVE  /\ \A p, q : Before(l, p, q) => Before(PutLast(l, e), p, q)
           /\ e \in Elements(PutLast(l, e)) /\ e \notin Elements(l) =>
                  \A p \in Elements(l) : Before(PutLast(l, e), p, e)
  <1> DEFINE s == l.items
             a == Append(s, e)
  <1>1. s \in Seq(S) /\ Len(s) \in Nat
    BY DEF List
  <1>2. CASE Dangling(l)
    BY <1>2 DEF PutLast
  <1>3. CASE ~Dangling(l)
    <2>1. /\ a \in Seq(S) /\ Len(a) = Len(s) + 1
          /\ \A i \in 1 .. Len(s) : a[i] = s[i]
          /\ a[Len(s) + 1] = e
      <3> HIDE DEF s
      <3> QED BY <1>1
    <2>2. PutLast(l, e).items = a
      BY <1>3 DEF PutLast
    <2>3. DOMAIN s = 1 .. Len(s) /\ DOMAIN a = 1 .. Len(s) + 1
      <3> HIDE DEF s, a
      <3> QED BY <1>1, <2>1
    <2> HIDE DEF s, a
    <2>4. ASSUME NEW p, NEW q, NEW i \in DOMAIN s, NEW j \in DOMAIN s, i < j, s[i] = p, s[j] = q
          PROVE  i \in DOMAIN a /\ j \in DOMAIN a /\ i < j /\ a[i] = p /\ a[j] = q
      BY <1>1, <2>1, <2>3, <2>4
    <2>5. ASSUME NEW p \in Elements(l)
          PROVE  Before(PutLast(l, e), p, e)
      <3>1. PICK i \in DOMAIN s : s[i] = p
        BY DEF Elements, ToSet, s
      <3>2. i \in DOMAIN a /\ Len(s) + 1 \in DOMAIN a /\ i < Len(s) + 1 /\ a[i] = p
        BY <1>1, <2>1, <2>3, <3>1
      <3> QED BY <2>1, <2>2, <3>2 DEF Before
    <2>6. ASSUME NEW p, NEW q, Before(l, p, q)
          PROVE  Before(PutLast(l, e), p, q)
      <3>1. PICK i, j \in DOMAIN s : i < j /\ s[i] = p /\ s[j] = q
        BY <2>6 DEF Before, s
      <3> QED BY <2>2, <2>4, <3>1 DEF Before
    <2> QED BY <2>5, <2>6
  <1> QED BY <1>2, <1>3

(* The first element is before all others, and leaves their order alone.   *)
LEMMA DropFirstOrder ==
    ASSUME NEW S, NEW l \in List(S), l.items # <<>>
    PROVE  /\ \A q \in Elements(l) : q # Head(l.items) => Before(l, Head(l.items), q)
           /\ \A p, q : Before(l, p, q) /\ p # Head(l.items) => Before(DropFirst(l), p, q)
  <1> DEFINE s == l.items
             t == Tail(s)
  <1>1. /\ s \in Seq(S) /\ Len(s) \in Nat \ {0} /\ Head(s) = s[1]
        /\ t \in Seq(S) /\ Len(t) = Len(s) - 1 /\ \A i \in 1 .. Len(t) : t[i] = s[i + 1]
    BY DEF List
  <1>2. DropFirst(l).items = t
    BY DEF DropFirst
  <1>3. Elements(l) = {s[i] : i \in DOMAIN s}
    BY DEF Elements, ToSet
  <1>4. \A p, q : Before(l, p, q) <=> \E i, j \in DOMAIN s : i < j /\ s[i] = p /\ s[j] = q
    BY DEF Before
  <1>5. \A p, q : Before(DropFirst(l), p, q) <=> \E i, j \in DOMAIN t : i < j /\ t[i] = p /\ t[j] = q
    BY <1>2 DEF Before
  <1> HIDE DEF s, t
  <1>6. DOMAIN s = 1 .. Len(s) /\ DOMAIN t = 1 .. Len(s) - 1
    BY <1>1
  <1>7. ASSUME NEW q \in Elements(l), q # Head(s)
        PROVE  Before(l, Head(s), q)
    <2>1. PICK j \in DOMAIN s : s[j] = q
      BY <1>3
    <2>2. 1 \in DOMAIN s /\ 1 < j
      BY <1>1, <1>6, <1>7, <2>1
    <2> QED BY <1>1, <1>4, <2>1, <2>2
  <1>8. ASSUME NEW p, NEW q, Before(l, p, q), p # Head(s)
        PROVE  Before(DropFirst(l), p, q)
    <2>1. PICK i, j \in DOMAIN s : i < j /\ s[i] = p /\ s[j] = q
      BY <1>4, <1>8
    <2>2. i - 1 \in DOMAIN t /\ j - 1 \in DOMAIN t /\ i - 1 < j - 1
      BY <1>1, <1>6, <1>8, <2>1
    <2>3. t[i - 1] = p /\ t[j - 1] = q
      BY <1>1, <1>6, <2>1, <2>2
    <2> QED BY <1>5, <2>2, <2>3
  <1> QED BY <1>7, <1>8 DEF s

(* Unlinking an element leaves the order of the others alone.              *)
LEMMA UnlinkOrder ==
    ASSUME NEW S, NEW l \in List(S), NEW e \in Elements(l), NEW p, NEW q,
           p # e, q # e, Before(l, p, q)
    PROVE  Before(Unlink(l, e), p, q)
  <1> DEFINE s == l.items
             k == FirstIndex(s, e)
             r == RemoveAt(s, k)
  <1>1. s \in Seq(S) /\ Len(s) \in Nat /\ e \in ToSet(s)
    BY DEF List, Elements
  <1>2. k \in 1 .. Len(s) /\ s[k] = e
    <2> HIDE DEF s
    <2> QED BY <1>1, FirstIndexSeq
  <1>3. Unlink(l, e).items = r
    BY DEF Unlink
  <1>4. PICK i, j \in DOMAIN s : i < j /\ s[i] = p /\ s[j] = q
    BY DEF Before
  <1> HIDE DEF s, k
  <1>5. /\ r \in Seq(S) /\ Len(r) = Len(s) - 1
        /\ \A n \in 1 .. Len(s) - 1 : r[n] = IF n < k THEN s[n] ELSE s[n + 1]
    BY <1>1, <1>2, RemoveAtSeq
  <1> DEFINE at(n) == IF n < k THEN n ELSE n - 1
  <1> HIDE DEF r
  <1>6. DOMAIN s = 1 .. Len(s) /\ DOMAIN r = 1 .. Len(s) - 1 /\ i # k /\ j # k
    BY <1>1, <1>2, <1>4, <1>5
  <1>7. at(i) \in DOMAIN r /\ at(j) \in DOMAIN r /\ at(i) < at(j)
    BY <1>1, <1>2, <1>4, <1>6
  <1>8. r[at(i)] = p /\ r[at(j)] = q
    <2>1. \A n \in DOMAIN s : n # k /\ at(n) \in DOMAIN r => r[at(n)] = s[n]
      BY <1>1, <1>2, <1>5, <1>6
    <2> QED BY <1>4, <1>6, <1>7, <2>1
  <1> HIDE DEF at
  <1> QED BY <1>3, <1>7, <1>8 DEF Before

(* The empty list is a list.                                               *)
LEMMA EmptyListList ==
    ASSUME NEW S
    PROVE  /\ EmptyList \in List(S)
           /\ Elements(EmptyList) = {}
           /\ Distinct(EmptyList)
  BY DEF EmptyList, List, Elements, Distinct, ToSet
===============================================================================
