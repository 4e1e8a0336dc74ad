-------------------------- MODULE LRUIndex_proofs ---------------------------
(***************************************************************************)
(* Lemmas about the operators of LRUIndex: the integer arithmetic of the   *)
(* code, what each method keeps of the index invariant IndexInv, what it   *)
(* does to the map, and what it evicts.                                    *)
(***************************************************************************)
EXTENDS LRUIndex, Sums_proofs, WellFoundedInduction

-----------------------------------------------------------------------------
(***************************************************************************)
(* Ranges, and the arithmetic by which a total follows what it counts.     *)
(***************************************************************************)

\* What a function yields is in its range.
LEMMA InRange == ASSUME NEW f, NEW i \in DOMAIN f PROVE f[i] \in Range(f)
  BY DEF Range

\* What is in the range of a function is yielded somewhere.
LEMMA OfRange == ASSUME NEW f, NEW x \in Range(f) PROVE \E i \in DOMAIN f : f[i] = x
  BY DEF Range

\* A total cur that exceeds the sum used by the reservations res, once the
\* sum grows by d and then falls to rest, exceeds rest by res again.
LEMMA Rebalance ==
    ASSUME NEW cur \in Int, NEW used \in Int, NEW res \in Int, NEW d \in Int,
           NEW rest \in Int, cur = res + used
    PROVE  (cur - (used + d) + rest) + d = res + rest
  OBVIOUS

\* A total from which no less is taken than is given back does not grow.
LEMMA Below ==
    ASSUME NEW cur \in Int, NEW used \in Int, NEW rest \in Int, rest <= used
    PROVE  cur - used + rest \in Int /\ cur - used + rest <= cur
  OBVIOUS

\* A total lowered by what is dropped follows the sum of what is left.
LEMMA Lowered ==
    ASSUME NEW cur \in Int, NEW used \in Int, NEW dropped \in Int
    PROVE  cur - dropped = cur - used + (used - dropped)
  OBVIOUS

-----------------------------------------------------------------------------
(***************************************************************************)
(* Arithmetic.                                                             *)
(***************************************************************************)

\* The machine sum is the sum when it fits.
LEMMA PlusExact ==
    ASSUME NEW a \in Int, NEW b \in Int, a + b <= MaxInt, a + b >= -(MaxInt + 1)
    PROVE  Plus(a, b) = a + b
  BY SizeAssumption DEF Plus

\* sumLargerThan compares the true sum, for all arguments that its comment
\* allows: the sign test catches exactly the sums that wrap.
THEOREM SumLargerThanExact ==
    ASSUME NEW a \in 1 .. MaxInt, NEW b \in 0 .. MaxInt, NEW c \in 1 .. MaxInt
    PROVE  sumLargerThan(a, b, c) <=> a + b > c
  BY SizeAssumption DEF sumLargerThan, Plus

\* roundUp4k rounds up, to less than one block more.
LEMMA RoundUp ==
    ASSUME NEW n \in Nat, n + BlockSize <= MaxInt
    PROVE  /\ roundUp4k(n) \in Nat
           /\ n <= roundUp4k(n)
           /\ roundUp4k(n) < n + BlockSize
<1>1. Plus(n, BlockSize - 1) = n + BlockSize - 1
  BY PlusExact, SizeAssumption
<1>2. /\ (n + BlockSize - 1) \div BlockSize \in Nat
      /\ ((n + BlockSize - 1) \div BlockSize) * BlockSize <= n + BlockSize - 1
      /\ ((n + BlockSize - 1) \div BlockSize) * BlockSize + BlockSize
            > n + BlockSize - 1
  BY SizeAssumption, Z3
<1> QED
  BY <1>1, <1>2, SizeAssumption DEF roundUp4k

\* The usage of every item is a natural number.
LEMMA ItemUsage ==
    ASSUME NEW item \in Item
    PROVE  roundUp4k(item.sizeOnDisk) \in Nat /\ roundUp4k(item.size) \in Nat
  BY RoundUp, ItemAssumption

\* A non-empty set of naturals has a least element.
LEMMA LeastStop ==
    ASSUME NEW l, NEW stops \in SUBSET Nat, stops # {}
    PROVE  Evictions(l, stops) \in stops /\ \A m \in stops : Evictions(l, stops) <= m
<1>1. \E n \in stops : \A m \in stops : ~(<<m, n>> \in OpToRel(<, Nat))
  BY NatLessThanWellFounded, WFMin, Zenon
<1>2. PICK n \in stops : \A m \in stops : ~(<<m, n>> \in OpToRel(<, Nat))
  BY <1>1
<1>3. ASSUME NEW m \in stops PROVE n <= m
  <2>1. ~(<<m, n>> \in {ss \in Nat \X Nat : ss[1] < ss[2]})
    BY <1>2, Zenon DEF OpToRel
  <2> QED
    BY <2>1
<1> QED
  BY <1>3 DEF Evictions

-----------------------------------------------------------------------------
(***************************************************************************)
(* The eviction list.                                                      *)
(***************************************************************************)

\* A list has finitely many keys.
LEMMA RangeFinite ==
    ASSUME NEW ll \in Seq(Key)
    PROVE  IsFiniteSet(Range(ll))
<1>1. ll \in Surjection(1 .. Len(ll), Range(ll))
  BY DEF Surjection, Range
<1>2. IsFiniteSet(1 .. Len(ll))
  BY FS_Interval
<1> QED
  BY <1>1, <1>2, FS_Surjection

\* The list without its entry p: the later entries move up by one.
LEMMA RemoveAtEntries ==
    ASSUME NEW ll \in Seq(Key), NEW p \in 1 .. Len(ll)
    PROVE  LET r == RemoveAt(ll, p) IN
           /\ r \in Seq(Key)
           /\ Len(r) = Len(ll) - 1
           /\ \A i \in 1 .. Len(ll) - 1 : r[i] = IF i < p THEN ll[i] ELSE ll[i + 1]
<1> DEFINE r == RemoveAt(ll, p)
<1> DEFINE a == SubSeq(ll, 1, p - 1)
           b == SubSeq(ll, p + 1, Len(ll))
<1>1. /\ a \in Seq(Key) /\ Len(a) = p - 1
      /\ \A i \in 1 .. p - 1 : a[i] = ll[i]
  OBVIOUS
<1>2. /\ b \in Seq(Key) /\ Len(b) = Len(ll) - p
      /\ \A i \in 1 .. Len(ll) - p : b[i] = ll[p + i]
  OBVIOUS
<1>3. r = a \o b
  BY DEF RemoveAt
<1> HIDE DEF a, b, r
<1>4. r \in Seq(Key) /\ Len(r) = Len(ll) - 1
  BY <1>1, <1>2, <1>3
<1>5. ASSUME NEW i \in 1 .. Len(ll) - 1
      PROVE  r[i] = IF i < p THEN ll[i] ELSE ll[i + 1]
  <2>1. CASE i < p
    BY <1>1, <1>2, <1>3, <2>1
  <2>2. CASE ~(i < p)
    <3>1. r[i] = b[i - (p - 1)]
      <4>1. i \in Len(a) + 1 .. Len(a) + Len(b)
        <5>1. Len(ll) \in Nat /\ i \in p .. Len(ll) - 1
          BY <2>2
        <5>2. Len(a) + 1 = p /\ Len(a) + Len(b) = Len(ll) - 1
          BY <1>1, <1>2, <5>1
        <5> QED
          BY <5>1, <5>2, Zenon
      <4>2. (a \o b)[i] = b[i - Len(a)]
        BY <1>1, <1>2, <4>1
      <4> QED
        BY <1>1, <1>3, <4>2, Zenon
    <3>2. i - (p - 1) \in 1 .. Len(ll) - p /\ p + (i - (p - 1)) = i + 1
      BY <2>2
    <3>3. b[i - (p - 1)] = ll[p + (i - (p - 1))]
      BY <1>2, <3>2
    <3> QED
      BY <2>2, <3>1, <3>2, <3>3
  <2> QED
    BY <2>1, <2>2
<1> QED
  BY <1>4, <1>5 DEF r

\* Removing a key from a list without repetitions removes it and only it.
LEMMA RemoveAtPosition ==
    ASSUME NEW ll \in Seq(Key), IsInjective(ll), NEW k \in Range(ll)
    PROVE  LET r == RemoveAt(ll, PositionOf(ll, k)) IN
           r \in Seq(Key) /\ IsInjective(r) /\ Range(r) = Range(ll) \ {k}
<1> DEFINE p == PositionOf(ll, k)
           r == RemoveAt(ll, p)
<1>1. p \in 1 .. Len(ll) /\ ll[p] = k
  BY DEF PositionOf, Range
<1> HIDE DEF p
<1>2. /\ r \in Seq(Key)
      /\ Len(r) = Len(ll) - 1
      /\ \A i \in 1 .. Len(ll) - 1 : r[i] = IF i < p THEN ll[i] ELSE ll[i + 1]
  BY <1>1, RemoveAtEntries
<1> HIDE DEF r
<1>3. IsInjective(r)
  <2>1. DOMAIN r = 1 .. Len(ll) - 1 /\ DOMAIN ll = 1 .. Len(ll) /\ Len(ll) \in Nat
    BY <1>2
  <2>2. ASSUME NEW i \in 1 .. Len(ll) - 1, NEW j \in 1 .. Len(ll) - 1, r[i] = r[j]
        PROVE  i = j
    <3> DEFINE f(n) == IF n < p THEN n ELSE n + 1
    <3>1. f(i) \in DOMAIN ll /\ f(j) \in DOMAIN ll
      BY <1>1, <2>1
    <3>2. ll[f(i)] = ll[f(j)]
      BY <1>1, <1>2, <2>2
    <3>3. f(i) = f(j)
      BY <3>1, <3>2 DEF IsInjective
    <3> QED
      BY <1>1, <3>3
  <2> QED
    BY <2>1, <2>2 DEF IsInjective
<1>4. ASSUME NEW x \in Range(r) PROVE x \in Range(ll) \ {k}
  <2>1. PICK i \in 1 .. Len(ll) - 1 : r[i] = x
    BY <1>2 DEF Range
  <2>2. PICK j \in 1 .. Len(ll) : j # p /\ ll[j] = x
    <3>1. CASE i < p
      BY <1>1, <1>2, <2>1, <3>1
    <3>2. CASE ~(i < p)
      <4>1. i + 1 \in 1 .. Len(ll) /\ i + 1 # p /\ ll[i + 1] = x
        BY <1>1, <1>2, <2>1, <3>2
      <4> QED
        BY <4>1
    <3> QED
      BY <3>1, <3>2
  <2>3. p \in DOMAIN ll /\ j \in DOMAIN ll
    BY <1>1
  <2>4. x # k
    BY <1>1, <2>2, <2>3 DEF IsInjective
  <2> QED
    BY <2>2, <2>3, <2>4, InRange
<1>5. ASSUME NEW x \in Range(ll) \ {k} PROVE x \in Range(r)
  <2>1. PICK i \in 1 .. Len(ll) : ll[i] = x
    BY DEF Range
  <2>2. i # p
    BY <1>1, <2>1
  <2>3. CASE i < p
    <3>1. i \in 1 .. Len(ll) - 1 /\ r[i] = x
      BY <1>1, <1>2, <2>1, <2>3
    <3>2. i \in DOMAIN r
      BY <1>2, <3>1
    <3> QED
      BY <3>1, <3>2, InRange
  <2>4. CASE i > p
    <3>1. i - 1 \in 1 .. Len(ll) - 1 /\ r[i - 1] = x
      BY <1>1, <1>2, <2>1, <2>4
    <3> QED
      BY <1>2, <3>1 DEF Range
  <2> QED
    BY <1>1, <2>2, <2>3, <2>4
<1> QED
  BY <1>2, <1>3, <1>4, <1>5 DEF r, p

\* Putting a new key at the front of a list without repetitions.
LEMMA PushFront ==
    ASSUME NEW ll \in Seq(Key), IsInjective(ll), NEW k \in Key, k \notin Range(ll)
    PROVE  LET r == <<k>> \o ll IN
           r \in Seq(Key) /\ IsInjective(r) /\ Range(r) = Range(ll) \cup {k}
<1> DEFINE r == <<k>> \o ll
<1>1. /\ r \in Seq(Key)
      /\ Len(r) = Len(ll) + 1
      /\ r[1] = k
      /\ \A i \in 1 .. Len(ll) : r[i + 1] = ll[i]
      /\ \A i \in 2 .. Len(ll) + 1 : r[i] = ll[i - 1]
  OBVIOUS
<1> HIDE DEF r
<1>2. IsInjective(r)
  BY <1>1 DEF IsInjective, Range
<1>3. Range(r) = Range(ll) \cup {k}
  <2>1. ASSUME NEW x \in Range(ll) PROVE x \in Range(r)
    <3>1. PICK i \in 1 .. Len(ll) : ll[i] = x
      BY DEF Range
    <3>2. r[i + 1] = x
      BY <1>1, <3>1
    <3>3. i + 1 \in DOMAIN r
      BY <1>1
    <3> QED
      BY <3>2, <3>3, InRange
  <2>2. k \in Range(r)
    BY <1>1 DEF Range
  <2>3. ASSUME NEW x \in Range(r) PROVE x \in Range(ll) \cup {k}
    <3>1. PICK i \in 1 .. Len(ll) + 1 : r[i] = x
      BY <1>1 DEF Range
    <3>2. CASE i = 1
      BY <1>1, <3>1, <3>2
    <3>3. CASE i # 1
      <4>1. i - 1 \in 1 .. Len(ll) /\ ll[i - 1] = x
        BY <1>1, <3>1, <3>3
      <4> QED
        BY <4>1 DEF Range
    <3> QED
      BY <3>2, <3>3
  <2> QED
    BY <2>1, <2>2, <2>3
<1> QED
  BY <1>1, <1>2, <1>3 DEF r

\* MoveToFront keeps the keys of the list.
LEMMA MoveToFrontKeeps ==
    ASSUME NEW ll \in Seq(Key), IsInjective(ll), NEW k \in Range(ll)
    PROVE  LET r == MoveToFront(ll, k) IN
           r \in Seq(Key) /\ IsInjective(r) /\ Range(r) = Range(ll)
<1> DEFINE q == RemoveAt(ll, PositionOf(ll, k))
<1>1. q \in Seq(Key) /\ IsInjective(q) /\ Range(q) = Range(ll) \ {k}
  BY RemoveAtPosition
<1>2. k \in Key
  BY DEF Range
<1> HIDE DEF q
<1>3. LET r == <<k>> \o q IN
      r \in Seq(Key) /\ IsInjective(r) /\ Range(r) = Range(q) \cup {k}
  BY <1>1, <1>2, PushFront
<1> QED
  BY <1>1, <1>3 DEF MoveToFront, q

-----------------------------------------------------------------------------
(***************************************************************************)
(* The index.                                                              *)
(***************************************************************************)

\* The list and the map agree.
IndexShape(l) ==
    /\ l \in LRUType
    /\ IsInjective(l.ll)
    /\ DOMAIN l.cache = Range(l.ll)

\* The sizes are the sums they stand for and fit into the cache.
IndexInv(l) ==
    /\ IndexShape(l)
    /\ l.reservedSize \in Nat
    /\ l.currentSize = l.reservedSize + Used(l)
    /\ l.uncompressedSize = UsedLogical(l)
    /\ l.currentSize <= MaxSize

\* The invariant holds of a new index.
LEMMA NewIndexInv == IndexInv(NewSizedLRU) /\ NewSizedLRU.reservedSize = 0
<1> DEFINE l == NewSizedLRU
<1>1. /\ l.ll = <<>> /\ l.cache = [k \in {} |-> 0] /\ l.currentSize = 0
      /\ l.uncompressedSize = 0 /\ l.reservedSize = 0
  BY DEF NewSizedLRU
<1>2. l \in LRUType
  <2>1. [k \in {} |-> 0] \in CacheMaps
    <3>1. [k \in {} |-> 0] \in [{} -> Item]
      OBVIOUS
    <3> QED
      BY <3>1 DEF CacheMaps
  <2> QED
    BY <2>1 DEF NewSizedLRU, LRUType
<1> HIDE DEF l
<1>3. IsInjective(l.ll) /\ DOMAIN l.cache = Range(l.ll)
  BY <1>1 DEF IsInjective, Range
<1>4. DOMAIN l.cache = {}
  BY <1>1
<1>5. Used(l) = 0 /\ UsedLogical(l) = 0
  BY <1>4, SumEmpty DEF Used, UsedLogical
<1>6. IndexInv(l)
  BY <1>1, <1>2, <1>3, <1>5, SizeAssumption DEF IndexInv, IndexShape
<1> QED
  BY <1>1, <1>6 DEF l

\* The usage of each item of a map, and its sums, are natural numbers.
LEMMA UsageType ==
    ASSUME NEW l \in LRUType, IsFiniteSet(DOMAIN l.cache)
    PROVE  /\ \A k \in DOMAIN l.cache :
                 /\ DiskUsage(l.cache)[k] \in Nat
                 /\ LogicalUsage(l.cache)[k] \in Nat
           /\ Used(l) \in Nat
           /\ UsedLogical(l) \in Nat
<1>1. \A k \in DOMAIN l.cache : l.cache[k] \in Item
  BY DEF LRUType, CacheMaps
<1>2. \A k \in DOMAIN l.cache :
         /\ DiskUsage(l.cache)[k] \in Nat
         /\ LogicalUsage(l.cache)[k] \in Nat
  BY <1>1, ItemUsage DEF DiskUsage, LogicalUsage
<1> QED
  BY <1>2, SumType DEF Used, UsedLogical

\* Dropping keys lowers the totals by exactly the usage of what is dropped.
LEMMA DropAccounts ==
    ASSUME NEW l \in LRUType, IsFiniteSet(DOMAIN l.cache),
           NEW ll \in Seq(Key), NEW gone \in SUBSET DOMAIN l.cache
    PROVE  LET d == Drop(l, ll, gone) IN
           /\ d \in LRUType
           /\ d.ll = ll
           /\ DOMAIN d.cache = DOMAIN l.cache \ gone
           /\ d.reservedSize = l.reservedSize
           /\ d.currentSize = l.currentSize - Used(l) + Used(d)
           /\ d.uncompressedSize = l.uncompressedSize - UsedLogical(l) + UsedLogical(d)
<1> DEFINE d == Drop(l, ll, gone)
           S == DOMAIN l.cache
           disk == DiskUsage(l.cache)
           logical == LogicalUsage(l.cache)
<1>1. /\ \A k \in S : disk[k] \in Nat /\ logical[k] \in Nat
      /\ Used(l) \in Nat /\ UsedLogical(l) \in Nat
  BY UsageType
<1>2. IsFiniteSet(gone) /\ IsFiniteSet(S \ gone)
  BY FS_Subset
<1>3. SumOver(disk, gone) \in Nat /\ SumOver(logical, gone) \in Nat
  <2> HIDE DEF disk, logical
  <2> QED BY <1>1, <1>2, SumType
<1>4. /\ d.ll = ll
      /\ d.cache = [k \in S \ gone |-> l.cache[k]]
      /\ d.reservedSize = l.reservedSize
      /\ d.currentSize = l.currentSize - SumOver(disk, gone)
      /\ d.uncompressedSize = l.uncompressedSize - SumOver(logical, gone)
      /\ d = [ll |-> d.ll, cache |-> d.cache, currentSize |-> d.currentSize,
              uncompressedSize |-> d.uncompressedSize,
              reservedSize |-> d.reservedSize]
  BY DEF Drop, Restrict, LRUType
<1>5. d.cache \in [S \ gone -> Item] /\ S \ gone \subseteq Key
  BY <1>4 DEF LRUType, CacheMaps
<1>6. d \in LRUType
  <2>1. /\ l.currentSize \in Int /\ l.uncompressedSize \in Int
        /\ l.reservedSize \in Int
    BY DEF LRUType
  <2> HIDE DEF d, disk, logical, S
  <2>2. d.ll \in Seq(Key) /\ d.reservedSize \in Int
    BY <1>4, <2>1
  <2>3. d.currentSize \in Int /\ d.uncompressedSize \in Int
    BY <1>3, <1>4, <2>1
  <2>4. d.cache \in CacheMaps
    BY <1>5 DEF CacheMaps
  <2>5. d = [ll |-> d.ll, cache |-> d.cache, currentSize |-> d.currentSize,
             uncompressedSize |-> d.uncompressedSize,
             reservedSize |-> d.reservedSize]
    BY <1>4
  <2> QED
    BY <2>2, <2>3, <2>4, <2>5 DEF LRUType
<1>7. /\ SumOver(disk, S \ gone) = Used(l) - SumOver(disk, gone)
      /\ SumOver(logical, S \ gone) = UsedLogical(l) - SumOver(logical, gone)
  <2>1. Used(l) = SumOver(disk, S) /\ UsedLogical(l) = SumOver(logical, S)
    BY DEF Used, UsedLogical
  <2> HIDE DEF disk, logical, S
  <2>2. SumOver(disk, S \ gone) = SumOver(disk, S) - SumOver(disk, gone)
    BY <1>1, SumWithout DEF S
  <2>3. SumOver(logical, S \ gone) = SumOver(logical, S) - SumOver(logical, gone)
    BY <1>1, SumWithout DEF S
  <2> QED
    BY <2>1, <2>2, <2>3
<1>8. DOMAIN d.cache = S \ gone
  BY <1>4
<1>9. Used(d) = SumOver(disk, S \ gone) /\ UsedLogical(d) = SumOver(logical, S \ gone)
  <2>1. \A k \in S \ gone : /\ DiskUsage(d.cache)[k] = disk[k]
                            /\ LogicalUsage(d.cache)[k] = logical[k]
    <3> HIDE DEF d
    <3> QED BY <1>4 DEF DiskUsage, LogicalUsage
  <2> HIDE DEF disk, logical, S, d
  <2>2. /\ SumOver(DiskUsage(d.cache), S \ gone) = SumOver(disk, S \ gone)
        /\ SumOver(LogicalUsage(d.cache), S \ gone) = SumOver(logical, S \ gone)
    BY <2>1, SumSame
  <2> QED
    BY <1>8, <2>2 DEF Used, UsedLogical
<1>10. l.currentSize \in Int /\ l.uncompressedSize \in Int
  BY DEF LRUType
<1> HIDE DEF d, disk, logical, S
<1>11. /\ d.currentSize = l.currentSize - Used(l) + Used(d)
       /\ d.uncompressedSize = l.uncompressedSize - UsedLogical(l) + UsedLogical(d)
  <2>1. /\ Used(d) = Used(l) - SumOver(disk, gone)
        /\ UsedLogical(d) = UsedLogical(l) - SumOver(logical, gone)
    BY <1>7, <1>9, Zenon
  <2>2. l.currentSize - SumOver(disk, gone)
          = l.currentSize - Used(l) + (Used(l) - SumOver(disk, gone))
    BY <1>1, <1>3, <1>10, Lowered
  <2>3. l.uncompressedSize - SumOver(logical, gone)
          = l.uncompressedSize - UsedLogical(l)
              + (UsedLogical(l) - SumOver(logical, gone))
    BY <1>1, <1>3, <1>10, Lowered
  <2> QED
    BY <1>4, <2>1, <2>2, <2>3, Zenon
<1> QED
  BY <1>4, <1>6, <1>8, <1>11 DEF d, S

\* Evicting from the cold end keeps the list and the map in agreement; with
\* everything evicted only the reservations are left.
LEMMA EvictOldestKeeps ==
    ASSUME NEW l, IndexShape(l), NEW n \in 0 .. Len(l.ll)
    PROVE  LET e == EvictOldest(l, n) IN
           /\ IndexShape(e)
           /\ Used(e) \in Nat
           /\ e.reservedSize = l.reservedSize
           /\ e.currentSize = l.currentSize - Used(l) + Used(e)
           /\ e.uncompressedSize = l.uncompressedSize - UsedLogical(l) + UsedLogical(e)
           /\ Used(e) <= Used(l)
           /\ n = Len(l.ll) => Used(e) = 0
<1> DEFINE front == SubSeq(l.ll, 1, Len(l.ll) - n)
           gone  == Oldest(l, n)
           e     == Drop(l, front, gone)
<1>1. l.ll \in Seq(Key) /\ Len(l.ll) \in Nat /\ DOMAIN l.ll = 1 .. Len(l.ll)
  BY DEF IndexShape, LRUType
<1>2. /\ front \in Seq(Key)
      /\ Len(front) = Len(l.ll) - n
      /\ DOMAIN front = 1 .. Len(l.ll) - n
      /\ \A i \in 1 .. Len(l.ll) - n : front[i] = l.ll[i]
  BY <1>1
<1>3. gone \subseteq DOMAIN l.cache
  BY <1>1 DEF Oldest, Range, IndexShape
<1>4. IsFiniteSet(DOMAIN l.cache)
  BY <1>1, RangeFinite DEF IndexShape
<1> HIDE DEF front, gone
<1>5. /\ e \in LRUType
      /\ e.ll = front
      /\ DOMAIN e.cache = DOMAIN l.cache \ gone
      /\ e.reservedSize = l.reservedSize
      /\ e.currentSize = l.currentSize - Used(l) + Used(e)
      /\ e.uncompressedSize = l.uncompressedSize - UsedLogical(l) + UsedLogical(e)
  BY <1>2, <1>3, <1>4, DropAccounts DEF IndexShape
<1> HIDE DEF e
<1>6. IsInjective(front)
  <2>1. ASSUME NEW i \in DOMAIN front, NEW j \in DOMAIN front, front[i] = front[j]
        PROVE  i = j
    <3>1. /\ i \in 1 .. Len(l.ll) - n /\ j \in 1 .. Len(l.ll) - n
          /\ i \in DOMAIN l.ll /\ j \in DOMAIN l.ll
      BY <1>1, <1>2
    <3>2. l.ll[i] = l.ll[j]
      BY <1>2, <2>1, <3>1
    <3> QED
      BY <3>1, <3>2 DEF IsInjective, IndexShape
  <2> QED
    BY <2>1 DEF IsInjective
<1>7. Range(front) = DOMAIN l.cache \ gone
  <2>1. ASSUME NEW x \in Range(front) PROVE x \in DOMAIN l.cache \ gone
    <3>1. PICK i \in 1 .. Len(l.ll) - n : front[i] = x
      BY <1>2 DEF Range
    <3>2. i \in DOMAIN l.ll /\ l.ll[i] = x
      <4>1. i \in DOMAIN l.ll
        BY <1>1
      <4>2. front[i] = l.ll[i]
        BY <1>2
      <4> QED
        BY <3>1, <4>1, <4>2
    <3>3. x \notin gone
      <4>1. SUFFICES ASSUME x \in gone PROVE FALSE
        OBVIOUS
      <4>2. PICK j \in Len(l.ll) - n + 1 .. Len(l.ll) : l.ll[j] = x
        BY <4>1 DEF gone, Oldest
      <4>3. j \in DOMAIN l.ll /\ j # i
        BY <1>1, <3>1
      <4> QED
        BY <3>2, <4>2, <4>3 DEF IndexShape, IsInjective
    <3> QED
      BY <3>2, <3>3 DEF IndexShape, Range
  <2>2. ASSUME NEW x \in DOMAIN l.cache \ gone PROVE x \in Range(front)
    <3>1. PICK i \in 1 .. Len(l.ll) : l.ll[i] = x
      BY <1>1 DEF IndexShape, Range
    <3>2. i \in 1 .. Len(l.ll) - n
      BY <1>1, <3>1 DEF gone, Oldest
    <3> QED
      BY <1>2, <3>1, <3>2 DEF Range
  <2> QED
    BY <2>1, <2>2
<1>8. IsFiniteSet(DOMAIN e.cache)
  BY <1>4, <1>5, FS_Subset
<1>9. Used(e) \in Nat
  BY <1>5, <1>8, UsageType
<1>10. ASSUME n = Len(l.ll) PROVE Used(e) = 0
  <2>1. DOMAIN e.cache = {}
    BY <1>1, <1>2, <1>5, <1>7, <1>10 DEF Range
  <2> QED
    BY <2>1, SumEmpty DEF Used
<1>11. Used(e) <= Used(l)
  <2>1. e.currentSize = l.currentSize - SumOver(DiskUsage(l.cache), gone)
    BY DEF e, Drop
  <2>2. Used(l) \in Nat /\ \A k \in gone : DiskUsage(l.cache)[k] \in Nat
    BY <1>3, <1>4, UsageType DEF IndexShape
  <2>3. IsFiniteSet(gone)
    BY <1>3, <1>4, FS_Subset
  <2>4. SumOver(DiskUsage(l.cache), gone) \in Nat
    BY <2>2, <2>3, SumType
  <2>5. l.currentSize \in Int
    BY DEF IndexShape, LRUType
  <2> QED
    BY <1>5, <1>9, <2>1, <2>2, <2>4, <2>5
<1>12. EvictOldest(l, n) = e
  BY DEF EvictOldest, e, front, gone
<1> QED
  BY <1>5, <1>6, <1>7, <1>9, <1>10, <1>11, <1>12 DEF IndexShape

\* Get changes the order of the list only.
LEMMA GetKeeps ==
    ASSUME NEW l, IndexInv(l), NEW k \in Key
    PROVE  /\ IndexInv(Get(l, k))
           /\ Get(l, k).reservedSize = l.reservedSize
<1>1. CASE k \notin DOMAIN l.cache
  BY <1>1 DEF Get
<1>2. CASE k \in DOMAIN l.cache
  <2> DEFINE r == MoveToFront(l.ll, k)
             g == [l EXCEPT !.ll = r]
  <2>1. r \in Seq(Key) /\ IsInjective(r) /\ Range(r) = Range(l.ll)
    BY <1>2, MoveToFrontKeeps DEF IndexInv, IndexShape, LRUType
  <2>2. Get(l, k) = g
    BY <1>2 DEF Get
  <2> HIDE DEF r
  <2>3. /\ g \in LRUType /\ g.ll = r /\ g.cache = l.cache
        /\ g.currentSize = l.currentSize
        /\ g.uncompressedSize = l.uncompressedSize
        /\ g.reservedSize = l.reservedSize
    BY <2>1 DEF IndexInv, IndexShape, LRUType
  <2> HIDE DEF g
  <2> QED
    BY <2>1, <2>2, <2>3 DEF IndexInv, IndexShape, Used, UsedLogical
<1> QED
  BY <1>1, <1>2

\* Remove gives back what the item used.
LEMMA RemoveKeeps ==
    ASSUME NEW l, IndexInv(l), NEW k \in Key
    PROVE  /\ IndexInv(RemoveKey(l, k).lru)
           /\ RemoveKey(l, k).lru.reservedSize = l.reservedSize
<1>1. CASE k \notin DOMAIN l.cache
  BY <1>1 DEF RemoveKey
<1>2. CASE k \in DOMAIN l.cache
  <2> DEFINE r == RemoveAt(l.ll, PositionOf(l.ll, k))
             d == Drop(l, r, {k})
  <2>1. r \in Seq(Key) /\ IsInjective(r) /\ Range(r) = Range(l.ll) \ {k}
    BY <1>2, RemoveAtPosition DEF IndexInv, IndexShape, LRUType
  <2>2. RemoveKey(l, k).lru = d
    BY <1>2 DEF RemoveKey, removeElement
  <2>3. IsFiniteSet(DOMAIN l.cache)
    BY RangeFinite DEF IndexInv, IndexShape, LRUType
  <2> HIDE DEF r
  <2>4. /\ d \in LRUType
        /\ d.ll = r
        /\ DOMAIN d.cache = DOMAIN l.cache \ {k}
        /\ d.reservedSize = l.reservedSize
        /\ d.currentSize = l.currentSize - Used(l) + Used(d)
        /\ d.uncompressedSize = l.uncompressedSize - UsedLogical(l) + UsedLogical(d)
    BY <1>2, <2>1, <2>3, DropAccounts DEF IndexInv, IndexShape
  <2> HIDE DEF d
  <2>5. /\ Used(l) \in Nat /\ UsedLogical(l) \in Nat
    BY <2>3, UsageType DEF IndexInv, IndexShape
  <2>6. /\ Used(d) \in Nat /\ UsedLogical(d) \in Nat
    BY <2>3, <2>4, UsageType, FS_Subset
  <2>7. IndexShape(d)
    BY <2>1, <2>4 DEF IndexInv, IndexShape
  <2>8. Used(d) <= Used(l)
    <3>1. d.currentSize = l.currentSize - SumOver(DiskUsage(l.cache), {k})
      BY DEF d, Drop
    <3>2. SumOver(DiskUsage(l.cache), {k}) \in Nat
      BY <1>2, <2>3, UsageType, SumOne DEF IndexInv, IndexShape
    <3>3. l.currentSize \in Int
      BY DEF IndexInv, IndexShape, LRUType
    <3> QED
      BY <2>4, <2>5, <2>6, <3>1, <3>2, <3>3
  <2> QED
    BY <2>2, <2>4, <2>5, <2>6, <2>7, <2>8, SizeAssumption DEF IndexInv
<1> QED
  BY <1>1, <1>2

\* What IndexInv says of the totals.
LEMMA IndexBounds ==
    ASSUME NEW l, IndexInv(l)
    PROVE  /\ IsFiniteSet(DOMAIN l.cache)
           /\ Used(l) \in Nat
           /\ UsedLogical(l) \in Nat
           /\ l.reservedSize \in 0 .. MaxSize
           /\ l.currentSize \in 0 .. MaxSize
           /\ Len(l.ll) \in Nat
<1>1. IsFiniteSet(DOMAIN l.cache)
  BY RangeFinite DEF IndexInv, IndexShape, LRUType
<1>2. Used(l) \in Nat /\ UsedLogical(l) \in Nat
  BY <1>1, UsageType DEF IndexInv, IndexShape
<1>3. Len(l.ll) \in Nat
  BY DEF IndexInv, IndexShape, LRUType
<1> QED
  BY <1>1, <1>2, <1>3, SizeAssumption DEF IndexInv

\* An index keeps the invariant when its reservations change within capacity.
LEMMA Resize ==
    ASSUME NEW l, IndexShape(l), NEW m, NEW res \in Nat,
           m = [l EXCEPT !.currentSize = res + Used(l), !.reservedSize = res],
           l.uncompressedSize = UsedLogical(l),
           res + Used(l) <= MaxSize
    PROVE  IndexInv(m) /\ m.reservedSize = res
<1>1. IsFiniteSet(DOMAIN l.cache)
  BY RangeFinite DEF IndexShape, LRUType
<1>2. Used(l) \in Nat
  BY <1>1, UsageType DEF IndexShape
<1>3. /\ m.ll = l.ll /\ m.cache = l.cache
      /\ m.currentSize = res + Used(l)
      /\ m.reservedSize = res
      /\ m.uncompressedSize = l.uncompressedSize
  <2> DEFINE u == res + Used(l)
  <2>1. m = [l EXCEPT !.currentSize = u, !.reservedSize = res]
    OBVIOUS
  <2> HIDE DEF u
  <2>2. /\ m.ll = l.ll /\ m.cache = l.cache /\ m.currentSize = u
        /\ m.reservedSize = res /\ m.uncompressedSize = l.uncompressedSize
    BY <2>1 DEF IndexShape, LRUType
  <2> QED
    BY <2>2 DEF u
<1>4. m \in LRUType
  <2> DEFINE u == res + Used(l)
  <2>1. u \in Int
    BY <1>2
  <2> DEFINE h == [l EXCEPT !.currentSize = u]
  <2>2. m = [h EXCEPT !.reservedSize = res]
    OBVIOUS
  <2> HIDE DEF u
  <2>3. h \in LRUType
    BY <2>1 DEF IndexShape, LRUType
  <2> HIDE DEF h
  <2>4. [h EXCEPT !.reservedSize = res] \in LRUType
    BY <2>3 DEF LRUType
  <2> QED
    BY <2>2, <2>4
<1> QED
  BY <1>3, <1>4 DEF IndexInv, IndexShape, Used, UsedLogical

\* Reserve never runs out of items, and grants a positive size exactly when it
\* fits next to the other reservations.
THEOREM ReserveKeeps ==
    ASSUME NEW l, IndexInv(l), NEW size \in Int, size <= MaxInt
    PROVE  LET r == Reserve(l, size) IN
           /\ IndexInv(r.lru)
           /\ r.err \in {"none", "refused"}
           /\ r.lru.reservedSize =
                l.reservedSize + (IF r.err = "none" THEN size ELSE 0)
           /\ r.err = "none" => size >= 0
           /\ size > 0 => (r.err = "none" <=> l.reservedSize + size <= MaxSize)
<1> DEFINE r     == Reserve(l, size)
           stops == ReserveStops(l, size)
           n     == Evictions(l, stops)
           e     == EvictOldest(l, n)
<1>1. /\ Used(l) \in Nat
      /\ l.reservedSize \in 0 .. MaxSize
      /\ l.currentSize \in 0 .. MaxSize
      /\ Len(l.ll) \in Nat
  BY IndexBounds
<1>2. CASE size = 0
  <2>1. r = [err |-> "none", lru |-> l, evicted |-> {}]
    BY <1>2 DEF Reserve
  <2> HIDE DEF r
  <2> QED
    BY <1>1, <1>2, <2>1 DEF r
<1>3. CASE size # 0 /\ ReserveRefused(l, size)
  <2>1. r = [err |-> "refused", lru |-> l, evicted |-> {}]
    BY <1>3 DEF Reserve
  <2>2. size > 0 => ~(l.reservedSize + size <= MaxSize)
    BY <1>1, <1>3, SumLargerThanExact, SizeAssumption DEF ReserveRefused
  <2> HIDE DEF r
  <2> QED
    BY <1>1, <2>1, <2>2 DEF r
<1>4. CASE size # 0 /\ ~ReserveRefused(l, size)
  <2>1. size \in 1 .. MaxSize /\ l.reservedSize + size <= MaxSize
    BY <1>1, <1>4, SumLargerThanExact, SizeAssumption DEF ReserveRefused
  <2>2. ASSUME NEW m \in 0 .. Len(l.ll)
        PROVE  LET x == EvictOldest(l, m) IN
               /\ IndexShape(x)
               /\ Used(x) \in Nat
               /\ x.reservedSize = l.reservedSize
               /\ x.currentSize = l.reservedSize + Used(x)
               /\ x.uncompressedSize = UsedLogical(x)
               /\ Used(x) <= Used(l)
               /\ m = Len(l.ll) => Used(x) = 0
    <3> DEFINE x == EvictOldest(l, m)
    <3>1. /\ IndexShape(x)
          /\ Used(x) \in Nat
          /\ x.reservedSize = l.reservedSize
          /\ x.currentSize = l.currentSize - Used(l) + Used(x)
          /\ x.uncompressedSize = l.uncompressedSize - UsedLogical(l) + UsedLogical(x)
          /\ Used(x) <= Used(l)
          /\ m = Len(l.ll) => Used(x) = 0
      BY EvictOldestKeeps DEF IndexInv
    <3>2. l.currentSize = l.reservedSize + Used(l) /\ l.uncompressedSize = UsedLogical(l)
      BY DEF IndexInv
    <3>3. UsedLogical(l) \in Nat /\ UsedLogical(x) \in Nat
      <4>1. IsFiniteSet(DOMAIN x.cache) /\ x \in LRUType
        BY <3>1, RangeFinite DEF IndexShape, LRUType
      <4> QED
        BY <4>1, IndexBounds, UsageType
    <3> HIDE DEF x
    <3> QED
      BY <1>1, <3>1, <3>2, <3>3 DEF x
  <2>3. Len(l.ll) \in stops
    <3>1. EvictOldest(l, Len(l.ll)).currentSize = l.reservedSize
      <4>1. Len(l.ll) \in 0 .. Len(l.ll)
        BY <1>1
      <4>2. /\ EvictOldest(l, Len(l.ll)).currentSize
                 = l.reservedSize + Used(EvictOldest(l, Len(l.ll)))
            /\ Used(EvictOldest(l, Len(l.ll))) = 0
        BY <2>2, <4>1
      <4> QED
        BY <1>1, <4>2
    <3>2. ~sumLargerThan(size, l.reservedSize, MaxSize)
      BY <1>4 DEF ReserveRefused
    <3> QED
      BY <1>1, <3>1, <3>2 DEF ReserveStops
  <2>4. stops \subseteq 0 .. Len(l.ll)
    BY DEF ReserveStops
  <2>5. n \in stops /\ n \in 0 .. Len(l.ll)
    <3>1. stops \in SUBSET Nat /\ stops # {}
      BY <2>3, <2>4
    <3> HIDE DEF stops
    <3>2. n \in stops
      BY <3>1, LeastStop
    <3> HIDE DEF n
    <3> QED
      BY <2>4, <3>2
  <2>6. ~sumLargerThan(size, e.currentSize, MaxSize)
    <3> HIDE DEF n
    <3> QED BY <2>5 DEF ReserveStops
  <2>7. /\ IndexShape(e)
        /\ Used(e) \in Nat
        /\ e.reservedSize = l.reservedSize
        /\ e.currentSize = l.reservedSize + Used(e)
        /\ e.uncompressedSize = UsedLogical(e)
        /\ Used(e) <= Used(l)
    BY <2>2, <2>5
  <2>8. r.err = "none"
        /\ r.lru = [e EXCEPT !.currentSize = @ + size, !.reservedSize = @ + size]
    BY <1>4, <2>3 DEF Reserve
  <2> HIDE DEF e, r, n, stops
  <2>9. size + e.currentSize <= MaxSize
    <3>1. e.currentSize \in 0 .. MaxInt
      BY <1>1, <2>7, SizeAssumption DEF IndexInv
    <3> QED
      BY <2>1, <2>6, <3>1, SumLargerThanExact, SizeAssumption
  <2>10. r.lru = [e EXCEPT !.currentSize = (l.reservedSize + size) + Used(e),
                           !.reservedSize = l.reservedSize + size]
    <3>1. e.currentSize + size = (l.reservedSize + size) + Used(e)
      BY <1>1, <2>1, <2>7
    <3> QED
      BY <2>7, <2>8, <3>1
  <2>11. IndexInv(r.lru) /\ r.lru.reservedSize = l.reservedSize + size
    <3>1. l.reservedSize + size \in Nat
      BY <1>1, <2>1
    <3>2. (l.reservedSize + size) + Used(e) <= MaxSize
      <4>1. size + e.currentSize = (l.reservedSize + size) + Used(e)
        BY <1>1, <2>1, <2>7
      <4> QED
        BY <2>9, <4>1
    <3> DEFINE res == l.reservedSize + size
    <3>3. /\ r.lru = [e EXCEPT !.currentSize = res + Used(e), !.reservedSize = res]
          /\ res \in Nat
          /\ res + Used(e) <= MaxSize
      BY <2>10, <3>1, <3>2
    <3> HIDE DEF res
    <3>4. IndexInv(r.lru) /\ r.lru.reservedSize = res
      BY <2>7, <3>3, Resize
    <3> QED
      BY <3>4 DEF res
  <2> QED
    BY <2>1, <2>8, <2>11 DEF r
<1> QED
  BY <1>2, <1>3, <1>4

\* Unreserve of at most what is reserved succeeds.
LEMMA UnreserveKeeps ==
    ASSUME NEW l, IndexInv(l), NEW size \in Nat, size <= l.reservedSize
    PROVE  LET r == Unreserve(l, size) IN
           /\ r.ok
           /\ IndexInv(r.lru)
           /\ r.lru.reservedSize = l.reservedSize - size
<1>1. /\ Used(l) \in Nat
      /\ l.reservedSize \in 0 .. MaxSize
      /\ l.currentSize = l.reservedSize + Used(l)
      /\ l.currentSize <= MaxSize
      /\ l.uncompressedSize = UsedLogical(l)
      /\ IndexShape(l)
  BY IndexBounds DEF IndexInv
<1>2. ~UnreserveRefused(l, size)
  BY <1>1 DEF UnreserveRefused
<1>3. /\ l.currentSize - size = (l.reservedSize - size) + Used(l)
      /\ l.reservedSize - size \in Nat
      /\ (l.reservedSize - size) + Used(l) <= MaxSize
  BY <1>1, SizeAssumption
<1> DEFINE m == [l EXCEPT !.currentSize = @ - size, !.reservedSize = @ - size]
<1>4. m = [l EXCEPT !.currentSize = (l.reservedSize - size) + Used(l),
                    !.reservedSize = l.reservedSize - size]
  BY <1>3
<1>5. Unreserve(l, size) = [ok |-> TRUE, lru |-> m]
  BY <1>2 DEF Unreserve
<1> HIDE DEF m
<1>6. IndexInv(m) /\ m.reservedSize = l.reservedSize - size
  BY <1>1, <1>3, <1>4, Resize
<1> QED
  BY <1>5, <1>6

\* Putting the item of an Add into the list and the map changes the usage by
\* the two differences that Add computes.
LEMMA InsertedKeeps ==
    ASSUME NEW l, IndexInv(l), NEW k \in Key, NEW item \in Item
    PROVE  LET ins == Inserted(l, k, item) IN
           /\ IndexShape(ins)
           /\ Used(ins) = Used(l) + sizeDelta(l, k, item)
           /\ UsedLogical(ins) = UsedLogical(l) + uncompressedSizeDelta(l, k, item)
           /\ ins.reservedSize = l.reservedSize
           /\ ins.currentSize = l.currentSize
           /\ ins.uncompressedSize = l.uncompressedSize
           /\ sizeDelta(l, k, item) \in Int
           /\ uncompressedSizeDelta(l, k, item) \in Int
           /\ sizeDelta(l, k, item) <= roundUp4k(item.sizeOnDisk)
<1> DEFINE S   == DOMAIN l.cache
           map == [x \in S \cup {k} |-> IF x = k THEN item ELSE l.cache[x]]
           ll  == IF k \in S THEN MoveToFront(l.ll, k) ELSE <<k>> \o l.ll
           ins == Inserted(l, k, item)
           old  == DiskUsage(l.cache)
           new  == DiskUsage(map)
           oldL == LogicalUsage(l.cache)
           newL == LogicalUsage(map)
<1>1. /\ IndexShape(l) /\ l \in LRUType /\ l.ll \in Seq(Key) /\ IsInjective(l.ll)
      /\ S = Range(l.ll) /\ S \subseteq Key
      /\ \A x \in S : l.cache[x] \in Item
  BY DEF IndexInv, IndexShape, LRUType, CacheMaps
<1>2. ll \in Seq(Key) /\ IsInjective(ll) /\ Range(ll) = S \cup {k}
  <2> HIDE DEF S
  <2>1. CASE k \in S
    BY <1>1, <2>1, MoveToFrontKeeps
  <2>2. CASE k \notin S
    BY <1>1, <2>2, PushFront
  <2> QED
    BY <2>1, <2>2
<1>3. map \in CacheMaps /\ DOMAIN map = S \cup {k}
  <2>1. map \in [S \cup {k} -> Item]
    BY <1>1
  <2>2. S \cup {k} \in SUBSET Key
    BY <1>1
  <2> HIDE DEF map
  <2> QED
    BY <2>1, <2>2 DEF CacheMaps
<1>4. ins = [[l EXCEPT !.ll = ll] EXCEPT !.cache = map]
  BY <1>1 DEF Inserted, LRUType
<1> HIDE DEF ll, map, ins
<1>5. ins \in LRUType
  <2> DEFINE h == [l EXCEPT !.ll = ll]
  <2>1. h \in LRUType
    BY <1>1, <1>2 DEF LRUType
  <2> HIDE DEF h
  <2>2. [h EXCEPT !.cache = map] \in LRUType
    BY <1>3, <2>1 DEF LRUType
  <2> QED
    BY <1>4, <2>2 DEF h
<1>6. /\ ins.ll = ll /\ ins.cache = map /\ ins.reservedSize = l.reservedSize
      /\ ins.currentSize = l.currentSize
      /\ ins.uncompressedSize = l.uncompressedSize
  BY <1>1, <1>4 DEF LRUType
<1>7. IndexShape(ins)
  BY <1>2, <1>3, <1>5, <1>6 DEF IndexShape
<1>8. IsFiniteSet(S) /\ IsFiniteSet(S \cup {k})
  BY <1>1, RangeFinite, FS_AddElement
<1>9. /\ roundUp4k(item.sizeOnDisk) \in Nat /\ roundUp4k(item.size) \in Nat
      /\ \A x \in S : old[x] \in Nat /\ oldL[x] \in Nat
      /\ \A x \in S \cup {k} : new[x] \in Nat /\ newL[x] \in Nat
  <2>1. roundUp4k(item.sizeOnDisk) \in Nat /\ roundUp4k(item.size) \in Nat
    BY ItemUsage
  <2>2. \A x \in S : old[x] \in Nat /\ oldL[x] \in Nat
    BY <1>1, <1>8, UsageType
  <2>3. \A x \in S \cup {k} : new[x] \in Nat /\ newL[x] \in Nat
    BY <1>3, <1>5, <1>6, <1>8, UsageType
  <2> QED
    BY <2>1, <2>2, <2>3
<1>10. /\ new[k] = roundUp4k(item.sizeOnDisk) /\ newL[k] = roundUp4k(item.size)
       /\ \A x \in S \ {k} : new[x] = old[x] /\ newL[x] = oldL[x]
       /\ k \in S => /\ old[k] = roundUp4k(l.cache[k].sizeOnDisk)
                     /\ oldL[k] = roundUp4k(l.cache[k].size)
  BY <1>1, <1>3 DEF map, DiskUsage, LogicalUsage
<1>11. /\ Used(l) = SumOver(old, S) /\ Used(ins) = SumOver(new, S \cup {k})
       /\ UsedLogical(l) = SumOver(oldL, S)
       /\ UsedLogical(ins) = SumOver(newL, S \cup {k})
  BY <1>3, <1>6 DEF Used, UsedLogical
<1>12. SumOver(old, S) \in Nat /\ SumOver(oldL, S) \in Nat
  <2> HIDE DEF old, oldL, S
  <2> QED BY <1>8, <1>9, SumType
<1>13. CASE k \in S
  <2>1. S \cup {k} = S
    BY <1>13
  <2> HIDE DEF S, old, new, oldL, newL
  <2>2. SumOver(new, S) = SumOver(old, S) - old[k] + new[k]
    <3>1. /\ \A x \in S : old[x] \in Nat /\ new[x] \in Nat
          /\ \A x \in S \ {k} : old[x] = new[x]
      BY <1>9, <1>10
    <3> QED
      BY <1>8, <1>13, <3>1, SumUpdate
  <2>3. SumOver(newL, S) = SumOver(oldL, S) - oldL[k] + newL[k]
    <3>1. /\ \A x \in S : oldL[x] \in Nat /\ newL[x] \in Nat
          /\ \A x \in S \ {k} : oldL[x] = newL[x]
      BY <1>9, <1>10
    <3> QED
      BY <1>8, <1>13, <3>1, SumUpdate
  <2>4. /\ sizeDelta(l, k, item) = new[k] - old[k]
        /\ uncompressedSizeDelta(l, k, item) = newL[k] - oldL[k]
    BY <1>10, <1>13 DEF sizeDelta, uncompressedSizeDelta, S
  <2>5. old[k] \in Nat /\ oldL[k] \in Nat /\ new[k] \in Nat /\ newL[k] \in Nat
    BY <1>9, <1>13
  <2>6. /\ Used(ins) = Used(l) + sizeDelta(l, k, item)
        /\ UsedLogical(ins) = UsedLogical(l) + uncompressedSizeDelta(l, k, item)
    <3>1. Used(ins) = SumOver(new, S) /\ UsedLogical(ins) = SumOver(newL, S)
      BY <1>11, <2>1, Zenon
    <3> QED
      BY <1>11, <1>12, <2>2, <2>3, <2>4, <2>5, <3>1
  <2> QED
    BY <1>6, <1>7, <1>10, <2>4, <2>5, <2>6 DEF ins
<1>14. CASE k \notin S
  <2> HIDE DEF S, old, new, oldL, newL
  <2>1. /\ SumOver(new, S \cup {k}) = SumOver(new, S) + SumOver(new, {k})
        /\ SumOver(newL, S \cup {k}) = SumOver(newL, S) + SumOver(newL, {k})
    <3>1. IsFiniteSet({k}) /\ S \cap {k} = {}
      BY <1>14, FS_Singleton
    <3> QED
      BY <1>8, <1>9, <3>1, SumSplit
  <2>2. SumOver(new, {k}) = new[k] /\ SumOver(newL, {k}) = newL[k]
    BY <1>9, SumOne
  <2>3. SumOver(new, S) = SumOver(old, S) /\ SumOver(newL, S) = SumOver(oldL, S)
    <3>1. \A x \in S : new[x] = old[x] /\ newL[x] = oldL[x]
      BY <1>10, <1>14
    <3> QED
      BY <3>1, SumSame
  <2>4. /\ sizeDelta(l, k, item) = new[k]
        /\ uncompressedSizeDelta(l, k, item) = newL[k]
    BY <1>9, <1>10, <1>14 DEF sizeDelta, uncompressedSizeDelta, S
  <2>5. new[k] \in Nat /\ newL[k] \in Nat
    BY <1>9
  <2>6. /\ Used(ins) = Used(l) + sizeDelta(l, k, item)
        /\ UsedLogical(ins) = UsedLogical(l) + uncompressedSizeDelta(l, k, item)
    BY <1>11, <1>12, <2>1, <2>2, <2>3, <2>4, <2>5
  <2> QED
    BY <1>6, <1>7, <1>10, <2>4, <2>5, <2>6 DEF ins
<1> QED
  BY <1>13, <1>14

\* After any number of evictions of Add's loop its machine sum is exact: the
\* reservations and the usage of what is left, with the new item counted.
LEMMA AddLoopSums ==
    ASSUME NEW l, IndexInv(l), NEW k \in Key, NEW item \in Item,
           ~AddRefused(l, k, item), NEW m \in 0 .. Len(Inserted(l, k, item).ll)
    PROVE  LET x == EvictOldest(Inserted(l, k, item), m)
               delta == sizeDelta(l, k, item)
               udelta == uncompressedSizeDelta(l, k, item)
           IN  /\ IndexShape(x)
               /\ Used(x) \in Nat
               /\ UsedLogical(x) \in Nat
               /\ x.reservedSize = l.reservedSize
               /\ x.currentSize \in Int
               /\ x.currentSize + delta = l.reservedSize + Used(x)
               /\ x.uncompressedSize + udelta = UsedLogical(x)
               /\ Plus(x.currentSize, delta) = l.reservedSize + Used(x)
               /\ m = Len(Inserted(l, k, item).ll) => Used(x) = 0
<1> DEFINE delta == sizeDelta(l, k, item)
           udelta == uncompressedSizeDelta(l, k, item)
           ins   == Inserted(l, k, item)
<1>1. /\ Used(l) \in Nat /\ UsedLogical(l) \in Nat
      /\ l.reservedSize \in 0 .. MaxSize
      /\ l.currentSize \in 0 .. MaxSize
      /\ l.currentSize = l.reservedSize + Used(l)
      /\ l.uncompressedSize = UsedLogical(l)
  BY IndexBounds DEF IndexInv
<1>2. /\ IndexShape(ins)
      /\ Used(ins) = Used(l) + delta
      /\ UsedLogical(ins) = UsedLogical(l) + udelta
      /\ ins.reservedSize = l.reservedSize
      /\ ins.currentSize = l.currentSize
      /\ ins.uncompressedSize = l.uncompressedSize
      /\ delta \in Int /\ udelta \in Int
      /\ delta <= roundUp4k(item.sizeOnDisk)
  BY InsertedKeeps
<1>3. Len(ins.ll) \in Nat
  BY <1>2 DEF IndexShape, LRUType
<1>4. delta <= MaxSize /\ 2 * MaxSize <= MaxInt
  BY <1>2, ItemUsage, ItemAssumption, SizeAssumption DEF AddRefused
<1> DEFINE x == EvictOldest(ins, m)
<1> HIDE DEF ins, delta, udelta
<1>5. /\ IndexShape(x)
      /\ Used(x) \in Nat
      /\ x.reservedSize = ins.reservedSize
      /\ x.currentSize = ins.currentSize - Used(ins) + Used(x)
      /\ x.uncompressedSize = ins.uncompressedSize - UsedLogical(ins) + UsedLogical(x)
      /\ Used(x) <= Used(ins)
      /\ m = Len(ins.ll) => Used(x) = 0
  <2>1. m \in 0 .. Len(ins.ll)
    BY DEF ins
  <2> QED
    BY <1>2, <2>1, EvictOldestKeeps
<1> HIDE DEF x
<1>6. UsedLogical(x) \in Nat
  <2>1. IsFiniteSet(DOMAIN x.cache) /\ x \in LRUType
    BY <1>5, RangeFinite DEF IndexShape, LRUType
  <2> QED
    BY <2>1, UsageType
<1>7. /\ x.currentSize \in Int
      /\ x.currentSize + delta = l.reservedSize + Used(x)
      /\ x.currentSize + delta <= MaxInt
      /\ x.uncompressedSize + udelta = UsedLogical(x)
  <2>1. /\ Used(l) \in Int /\ Used(x) \in Int /\ delta \in Int
        /\ l.reservedSize \in Int /\ l.currentSize \in Int
        /\ l.currentSize = l.reservedSize + Used(l)
        /\ l.currentSize <= MaxSize
    <3>1. Used(l) \in Int /\ Used(x) \in Int /\ delta \in Int
      BY <1>1, <1>2, <1>5
    <3>2. /\ l.reservedSize \in Int /\ l.currentSize \in Int
          /\ l.currentSize <= MaxSize
      BY <1>1, SizeAssumption
    <3> QED
      BY <1>1, <3>1, <3>2, Zenon
  <2>2. x.currentSize = l.currentSize - (Used(l) + delta) + Used(x)
    BY <1>2, <1>5, Zenon
  <2>3. x.currentSize \in Int /\ x.currentSize <= l.currentSize
    <3>1. Used(x) <= Used(l) + delta
      BY <1>2, <1>5, Zenon
    <3>2. Used(l) + delta \in Int
      BY <2>1
    <3>3. /\ l.currentSize - (Used(l) + delta) + Used(x) \in Int
          /\ l.currentSize - (Used(l) + delta) + Used(x) <= l.currentSize
      BY <2>1, <3>1, <3>2, Below
    <3> QED
      BY <2>2, <3>3, Zenon
  <2>4. x.currentSize + delta = l.reservedSize + Used(x)
    <3>1. (l.currentSize - (Used(l) + delta) + Used(x)) + delta
            = l.reservedSize + Used(x)
      BY <2>1, Rebalance
    <3> QED
      BY <2>2, <3>1, Zenon
  <2>5. x.currentSize + delta <= MaxInt
    BY <1>4, <2>1, <2>3, SizeAssumption
  <2>6. x.uncompressedSize = l.uncompressedSize - UsedLogical(ins) + UsedLogical(x)
    BY <1>2, <1>5
  <2>7. x.uncompressedSize + udelta = UsedLogical(x)
    <3>1. UsedLogical(l) \in Int /\ udelta \in Int /\ UsedLogical(x) \in Int
      BY <1>1, <1>2, <1>6
    <3>2. (UsedLogical(l) - (UsedLogical(l) + udelta) + UsedLogical(x)) + udelta
            = UsedLogical(x)
      BY <3>1
    <3> QED
      BY <1>1, <1>2, <2>6, <3>2, Zenon
  <2> QED
    BY <2>3, <2>4, <2>5, <2>7
<1>8. x.currentSize + delta >= -(MaxInt + 1)
  <2>1. l.reservedSize + Used(x) \in Nat
    BY <1>1, <1>5
  <2> QED
    BY <1>7, <2>1, SizeAssumption
<1>9. Plus(x.currentSize, delta) = x.currentSize + delta
  BY <1>2, <1>7, <1>8, PlusExact
<1> QED
  BY <1>2, <1>5, <1>6, <1>7, <1>9 DEF x, ins, delta, udelta

\* Add never meets an empty list with its eviction loop unfinished, and keeps
\* the totals right and within the capacity.
THEOREM AddKeeps ==
    ASSUME NEW l, IndexInv(l), NEW k \in Key, NEW item \in Item
    PROVE  LET r == Add(l, k, item) IN
           /\ ~r.hung
           /\ r.ok \in BOOLEAN
           /\ IndexInv(r.lru)
           /\ r.lru.reservedSize = l.reservedSize
<1> DEFINE r     == Add(l, k, item)
           delta == sizeDelta(l, k, item)
           udelta == uncompressedSizeDelta(l, k, item)
           ins   == Inserted(l, k, item)
           stops == AddStops(ins, delta)
           n     == Evictions(ins, stops)
           e     == EvictOldest(ins, n)
<1>1. /\ Used(l) \in Nat /\ UsedLogical(l) \in Nat
      /\ l.reservedSize \in 0 .. MaxSize
      /\ l.currentSize \in 0 .. MaxSize
      /\ l.currentSize = l.reservedSize + Used(l)
      /\ l.uncompressedSize = UsedLogical(l)
  BY IndexBounds DEF IndexInv
<1>2. CASE AddRefused(l, k, item)
  <2>1. r = [ok |-> FALSE, lru |-> l, evicted |-> {}, hung |-> FALSE]
    BY <1>2 DEF Add
  <2> QED
    BY <2>1
<1>3. CASE ~AddRefused(l, k, item)
  <2>1. /\ IndexShape(ins)
        /\ Used(ins) = Used(l) + delta
        /\ UsedLogical(ins) = UsedLogical(l) + udelta
        /\ ins.reservedSize = l.reservedSize
        /\ ins.currentSize = l.currentSize
        /\ ins.uncompressedSize = l.uncompressedSize
        /\ delta \in Int /\ udelta \in Int
        /\ delta <= roundUp4k(item.sizeOnDisk)
    BY InsertedKeeps
  <2>2. Len(ins.ll) \in Nat
    BY <2>1 DEF IndexShape, LRUType
  <2> HIDE DEF ins, delta, udelta
  <2>4. ASSUME NEW m \in 0 .. Len(ins.ll)
        PROVE  LET x == EvictOldest(ins, m) IN
               /\ IndexShape(x)
               /\ Used(x) \in Nat
               /\ UsedLogical(x) \in Nat
               /\ x.reservedSize = l.reservedSize
               /\ x.currentSize + delta = l.reservedSize + Used(x)
               /\ x.uncompressedSize + udelta = UsedLogical(x)
               /\ Plus(x.currentSize, delta) = l.reservedSize + Used(x)
               /\ m = Len(ins.ll) => Used(x) = 0
    BY <1>3, AddLoopSums DEF ins, delta, udelta
  <2>5. Len(ins.ll) \in stops
    <3>1. Len(ins.ll) \in 0 .. Len(ins.ll)
      BY <2>2
    <3>2. /\ Plus(EvictOldest(ins, Len(ins.ll)).currentSize, delta)
               = l.reservedSize + Used(EvictOldest(ins, Len(ins.ll)))
          /\ Used(EvictOldest(ins, Len(ins.ll))) = 0
      BY <2>4, <3>1
    <3>3. ~(Plus(EvictOldest(ins, Len(ins.ll)).currentSize, delta) > MaxSize)
      BY <1>1, <3>2, SizeAssumption
    <3> QED
      BY <3>1, <3>3 DEF AddStops
  <2>6. stops \subseteq 0 .. Len(ins.ll)
    BY DEF AddStops
  <2>7. n \in stops /\ n \in 0 .. Len(ins.ll)
    <3>1. stops \in SUBSET Nat /\ stops # {}
      BY <2>5, <2>6
    <3> HIDE DEF stops
    <3>2. n \in stops
      BY <3>1, LeastStop
    <3> HIDE DEF n
    <3> QED
      BY <2>6, <3>2
  <2>8. ~(Plus(e.currentSize, delta) > MaxSize)
    <3> HIDE DEF n
    <3> QED BY <2>7 DEF AddStops
  <2>9. /\ IndexShape(e)
        /\ Used(e) \in Nat
        /\ UsedLogical(e) \in Nat
        /\ e.reservedSize = l.reservedSize
        /\ e.uncompressedSize + udelta = UsedLogical(e)
        /\ Plus(e.currentSize, delta) = l.reservedSize + Used(e)
    BY <2>4, <2>7
  <2> DEFINE m == [e EXCEPT !.currentSize = Plus(@, delta),
                            !.uncompressedSize = @ + udelta]
  <2>10. ~r.hung /\ r.ok = TRUE /\ r.lru = m
    BY <1>3, <2>5 DEF Add, ins, delta, udelta
  <2> HIDE DEF e, n, stops, r
  <2>11. m = [[e EXCEPT !.currentSize = l.reservedSize + Used(e)]
                 EXCEPT !.uncompressedSize = UsedLogical(e)]
    BY <2>9 DEF IndexShape, LRUType
  <2> HIDE DEF m
  <2> DEFINE u == l.reservedSize + Used(e)
             v == UsedLogical(e)
             h == [e EXCEPT !.currentSize = u]
  <2>12. u \in Int /\ v \in Int /\ u <= MaxSize
    BY <1>1, <2>8, <2>9, SizeAssumption
  <2>13. m = [h EXCEPT !.uncompressedSize = v]
    BY <2>11
  <2> HIDE DEF u, v
  <2>14. /\ h \in LRUType /\ h.ll = e.ll /\ h.cache = e.cache
         /\ h.reservedSize = e.reservedSize /\ h.currentSize = u
    BY <2>9, <2>12 DEF IndexShape, LRUType
  <2> HIDE DEF h
  <2>15. /\ m \in LRUType /\ m.ll = h.ll /\ m.cache = h.cache
         /\ m.reservedSize = h.reservedSize /\ m.currentSize = h.currentSize
         /\ m.uncompressedSize = v
    BY <2>12, <2>13, <2>14 DEF LRUType
  <2>16. IndexShape(m)
    BY <2>9, <2>14, <2>15 DEF IndexShape
  <2>17. Used(m) = Used(e) /\ UsedLogical(m) = UsedLogical(e)
    BY <2>14, <2>15 DEF Used, UsedLogical
  <2>18. IndexInv(m) /\ m.reservedSize = l.reservedSize
    BY <1>1, <2>9, <2>12, <2>14, <2>15, <2>16, <2>17 DEF IndexInv, u, v
  <2> QED
    BY <2>10, <2>18 DEF r
<1> QED
  BY <1>2, <1>3

-----------------------------------------------------------------------------
(***************************************************************************)
(* What each method does to the map, and what it hands to onEvict.         *)
(***************************************************************************)

\* Map m is map f without the keys in gone.
Without(m, f, gone) == m = Restrict(f, DOMAIN f \ gone)

\* Map f with item under key k.
With(f, k, item) == [x \in DOMAIN f \cup {k} |-> IF x = k THEN item ELSE f[x]]

\* An eviction loop evicts no more than the list holds.
LEMMA EvictionsInList ==
    ASSUME NEW l, Len(l.ll) \in Nat, NEW stops \in SUBSET (0 .. Len(l.ll))
    PROVE  Evictions(l, stops) \in 0 .. Len(l.ll)
<1>1. CASE stops = {}
  BY <1>1 DEF Evictions
<1>2. CASE stops # {}
  <2>1. stops \in SUBSET Nat
    OBVIOUS
  <2>2. Evictions(l, stops) \in stops
    BY <1>2, <2>1, LeastStop
  <2> QED
    BY <2>2
<1> QED
  BY <1>1, <1>2

\* The loop takes the oldest keys out of the map.
LEMMA EvictOldestDrops ==
    ASSUME NEW l, IndexShape(l), NEW n \in 0 .. Len(l.ll)
    PROVE  /\ Oldest(l, n) \subseteq DOMAIN l.cache
           /\ Without(EvictOldest(l, n).cache, l.cache, Oldest(l, n))
           /\ EvictOldest(l, n) \in LRUType
<1>1. l.ll \in Seq(Key) /\ Len(l.ll) \in Nat /\ DOMAIN l.ll = 1 .. Len(l.ll)
  BY DEF IndexShape, LRUType
<1>2. Oldest(l, n) \subseteq DOMAIN l.cache
  BY <1>1 DEF Oldest, Range, IndexShape
<1>3. EvictOldest(l, n).cache = Restrict(l.cache, DOMAIN l.cache \ Oldest(l, n))
  BY DEF EvictOldest, Drop
<1>4. EvictOldest(l, n) \in LRUType
  BY EvictOldestKeeps DEF IndexShape
<1> QED
  BY <1>2, <1>3, <1>4 DEF Without

\* Get leaves the map alone.
LEMMA GetMap ==
    ASSUME NEW l, IndexInv(l), NEW k
    PROVE  Get(l, k).cache = l.cache
  BY DEF Get, IndexInv, IndexShape, LRUType

\* Unreserve leaves the map alone.
LEMMA UnreserveMap ==
    ASSUME NEW l, IndexInv(l), NEW size
    PROVE  Unreserve(l, size).lru.cache = l.cache
<1> DEFINE m == [l EXCEPT !.currentSize = @ - size, !.reservedSize = @ - size]
<1>1. m.cache = l.cache
  BY DEF IndexInv, IndexShape, LRUType
<1> HIDE DEF m
<1>2. Unreserve(l, size).lru \in {l, m}
  BY DEF Unreserve, m
<1> QED
  BY <1>1, <1>2

\* Reserve takes exactly what it hands to onEvict out of the map.
THEOREM ReserveDrops ==
    ASSUME NEW l, IndexInv(l), NEW size
    PROVE  \E gone \in SUBSET DOMAIN l.cache :
             /\ Without(Reserve(l, size).lru.cache, l.cache, gone)
             /\ Reserve(l, size).evicted = Entries(l.cache, gone)
<1> DEFINE r     == Reserve(l, size)
           stops == ReserveStops(l, size)
           n     == Evictions(l, stops)
           e     == EvictOldest(l, n)
           grown == [e EXCEPT !.currentSize = @ + size, !.reservedSize = @ + size]
<1>1. IndexShape(l) /\ Len(l.ll) \in Nat
  BY IndexBounds DEF IndexInv
<1>2. CASE r.lru = l /\ r.evicted = {}
  <2>1. Without(l.cache, l.cache, {})
    <3>1. l.cache = [x \in DOMAIN l.cache |-> l.cache[x]]
      BY <1>1 DEF IndexShape, LRUType, CacheMaps
    <3> QED
      BY <3>1 DEF Without, Restrict
  <2>2. Entries(l.cache, {}) = {}
    BY DEF Entries
  <2> HIDE DEF r
  <2> QED
    BY <1>2, <2>1, <2>2 DEF r
<1>3. CASE size # 0 /\ ~ReserveRefused(l, size)
  <2>1. n \in 0 .. Len(l.ll)
    <3>1. stops \in SUBSET (0 .. Len(l.ll))
      BY DEF ReserveStops
    <3> QED
      BY <1>1, <3>1, EvictionsInList
  <2> HIDE DEF n
  <2>2. /\ Oldest(l, n) \subseteq DOMAIN l.cache
        /\ Without(e.cache, l.cache, Oldest(l, n))
        /\ e \in LRUType
    BY <1>1, <2>1, EvictOldestDrops
  <2>3. r.lru \in {e, grown} /\ r.evicted = Entries(l.cache, Oldest(l, n))
    BY <1>3 DEF Reserve, n
  <2> HIDE DEF e, r
  <2>4. grown.cache = e.cache
    BY <2>2 DEF LRUType
  <2> QED
    BY <2>2, <2>3, <2>4 DEF r
<1>4. CASE size = 0 \/ ReserveRefused(l, size)
  BY <1>2, <1>4 DEF Reserve
<1> QED
  BY <1>3, <1>4

\* A failed Add changes nothing; one that succeeds puts its item into the map, and
\* takes exactly what it hands to onEvict out of it, the item that was replaced and
\* perhaps the new one included.
THEOREM AddReplaces ==
    ASSUME NEW l, IndexInv(l), NEW k \in Key, NEW item \in Item
    PROVE  LET r == Add(l, k, item)
               f == With(l.cache, k, item)
           IN  /\ ~r.ok => r.lru = l /\ r.evicted = {}
               /\ r.ok => \E gone \in SUBSET DOMAIN f :
                    /\ Without(r.lru.cache, f, gone)
                    /\ r.evicted = Entries(l.cache, {k} \cap DOMAIN l.cache)
                                     \cup Entries(f, gone)
<1> DEFINE r     == Add(l, k, item)
           f     == With(l.cache, k, item)
           delta == sizeDelta(l, k, item)
           ins   == Inserted(l, k, item)
           stops == AddStops(ins, delta)
           n     == Evictions(ins, stops)
           e     == EvictOldest(ins, n)
           sized == [e EXCEPT !.currentSize = Plus(@, delta),
                              !.uncompressedSize =
                                 @ + uncompressedSizeDelta(l, k, item)]
<1>1. ~r.hung
  BY AddKeeps
<1>2. CASE AddRefused(l, k, item)
  <2>1. r = [ok |-> FALSE, lru |-> l, evicted |-> {}, hung |-> FALSE]
    BY <1>2 DEF Add
  <2> QED
    BY <2>1
<1>3. CASE ~AddRefused(l, k, item)
  <2>1. IndexShape(ins) /\ ins.cache = f
    <3>1. l \in LRUType
      BY DEF IndexInv, IndexShape
    <3>2. ins.cache = f
      BY <3>1 DEF Inserted, LRUType, With
    <3> QED
      BY <3>2, InsertedKeeps
  <2> HIDE DEF ins, f
  <2>2. n \in 0 .. Len(ins.ll)
    <3>1. stops \in SUBSET (0 .. Len(ins.ll))
      BY DEF AddStops
    <3>2. Len(ins.ll) \in Nat
      BY <2>1 DEF IndexShape, LRUType
    <3> QED
      BY <3>1, <3>2, EvictionsInList
  <2>3. /\ r.ok
        /\ r.lru = sized
        /\ r.evicted = Entries(l.cache, {k} \cap DOMAIN l.cache)
                         \cup Entries(ins.cache, Oldest(ins, n))
    BY <1>1, <1>3 DEF Add, ins
  <2> HIDE DEF n
  <2>4. /\ Oldest(ins, n) \subseteq DOMAIN ins.cache
        /\ Without(e.cache, ins.cache, Oldest(ins, n))
        /\ e \in LRUType
    BY <2>1, <2>2, EvictOldestDrops
  <2> HIDE DEF e, r
  <2>5. sized.cache = e.cache
    BY <2>4 DEF LRUType
  <2> QED
    BY <2>1, <2>3, <2>4, <2>5 DEF r, f
<1> QED
  BY <1>2, <1>3

-----------------------------------------------------------------------------
(***************************************************************************)
(* The order of eviction.                                                  *)
(***************************************************************************)

\* Key x was used more recently than key y.
Precedes(ll, x, y) == \E i, j \in DOMAIN ll : i < j /\ ll[i] = x /\ ll[j] = y

\* In a list without repetitions a key is where it is found.
LEMMA PositionIs ==
    ASSUME NEW ll, IsInjective(ll), NEW i \in DOMAIN ll
    PROVE  PositionOf(ll, ll[i]) = i
  BY DEF PositionOf, IsInjective

\* The key that precedes has the smaller position.
LEMMA PrecedesPosition ==
    ASSUME NEW ll, IsInjective(ll), NEW x, NEW y, Precedes(ll, x, y)
    PROVE  PositionOf(ll, x) < PositionOf(ll, y)
<1>1. PICK i \in DOMAIN ll, j \in DOMAIN ll : i < j /\ ll[i] = x /\ ll[j] = y
  BY DEF Precedes
<1>2. PositionOf(ll, ll[i]) = i /\ PositionOf(ll, ll[j]) = j
  BY PositionIs
<1> QED
  BY <1>1, <1>2

\* Two keys of a list without repetitions do not precede each other.
LEMMA PrecedesOneWay ==
    ASSUME NEW ll \in Seq(Key), IsInjective(ll), NEW x, NEW y,
           Precedes(ll, x, y), Precedes(ll, y, x)
    PROVE  FALSE
<1>1. PICK i \in DOMAIN ll, j \in DOMAIN ll : i < j /\ ll[i] = x /\ ll[j] = y
  BY DEF Precedes
<1>2. PICK p \in DOMAIN ll, q \in DOMAIN ll : p < q /\ ll[p] = y /\ ll[q] = x
  BY DEF Precedes
<1>3. i = q /\ j = p
  BY <1>1, <1>2 DEF IsInjective
<1>4. i \in Int /\ j \in Int
  OBVIOUS
<1> QED
  BY <1>1, <1>2, <1>3, <1>4

\* Removing another key keeps the order of two keys.
LEMMA RemoveKeepsOrder ==
    ASSUME NEW ll \in Seq(Key), IsInjective(ll), NEW k \in Range(ll), NEW x, NEW y,
           Precedes(ll, x, y), x # k, y # k
    PROVE  Precedes(RemoveAt(ll, PositionOf(ll, k)), x, y)
<1> DEFINE p == PositionOf(ll, k)
           r == RemoveAt(ll, p)
           f(n) == IF n < p THEN n ELSE n - 1
<1>1. p \in 1 .. Len(ll) /\ ll[p] = k
  BY DEF PositionOf, Range
<1> HIDE DEF p
<1>2. /\ r \in Seq(Key)
      /\ Len(r) = Len(ll) - 1
      /\ \A i \in 1 .. Len(ll) - 1 : r[i] = IF i < p THEN ll[i] ELSE ll[i + 1]
  BY <1>1, RemoveAtEntries
<1> HIDE DEF r
<1>3. Len(ll) \in Nat /\ DOMAIN ll = 1 .. Len(ll) /\ DOMAIN r = 1 .. Len(ll) - 1
  BY <1>2
<1>4. ASSUME NEW n \in 1 .. Len(ll), n # p
      PROVE  f(n) \in 1 .. Len(ll) - 1 /\ r[f(n)] = ll[n]
  <2>1. CASE n < p
    BY <1>1, <1>2, <1>3, <2>1
  <2>2. CASE n > p
    <3>1. n - 1 \in 1 .. Len(ll) - 1 /\ ~(n - 1 < p) /\ (n - 1) + 1 = n
      BY <1>1, <1>3, <2>2
    <3>2. r[n - 1] = ll[(n - 1) + 1]
      BY <1>2, <3>1
    <3>3. f(n) = n - 1
      BY <1>1, <2>2
    <3> QED
      BY <3>1, <3>2, <3>3
  <2> QED
    BY <1>1, <1>4, <2>1, <2>2
<1>5. PICK i \in 1 .. Len(ll), j \in 1 .. Len(ll) : i < j /\ ll[i] = x /\ ll[j] = y
  BY <1>3 DEF Precedes
<1>6. i # p /\ j # p
  BY <1>1, <1>5
<1>7. /\ f(i) \in DOMAIN r /\ f(j) \in DOMAIN r
      /\ r[f(i)] = x /\ r[f(j)] = y
  BY <1>3, <1>4, <1>5, <1>6
<1>8. f(i) < f(j)
  BY <1>1, <1>5, <1>6
<1> HIDE DEF f
<1> QED
  BY <1>7, <1>8 DEF Precedes, r, p

\* A key put at the front precedes all others, which keep their order.
LEMMA PushKeepsOrder ==
    ASSUME NEW ll \in Seq(Key), NEW k \in Key
    PROVE  LET r == <<k>> \o ll IN
           /\ \A x, y : Precedes(ll, x, y) => Precedes(r, x, y)
           /\ \A x \in Range(ll) : Precedes(r, k, x)
<1> DEFINE r == <<k>> \o ll
<1>1. /\ DOMAIN ll = 1 .. Len(ll) /\ Len(ll) \in Nat
      /\ DOMAIN r = 1 .. Len(ll) + 1
      /\ r[1] = k
      /\ \A i \in 1 .. Len(ll) : r[i + 1] = ll[i]
  OBVIOUS
<1> HIDE DEF r
<1>2. ASSUME NEW x, NEW y, Precedes(ll, x, y) PROVE Precedes(r, x, y)
  <2>1. PICK i \in 1 .. Len(ll), j \in 1 .. Len(ll) : i < j /\ ll[i] = x /\ ll[j] = y
    BY <1>1, <1>2 DEF Precedes
  <2>2. /\ i + 1 \in DOMAIN r /\ j + 1 \in DOMAIN r /\ i + 1 < j + 1
        /\ r[i + 1] = x /\ r[j + 1] = y
    BY <1>1, <2>1
  <2> QED
    BY <2>2 DEF Precedes
<1>3. ASSUME NEW x \in Range(ll) PROVE Precedes(r, k, x)
  <2>1. PICK i \in 1 .. Len(ll) : ll[i] = x
    BY <1>1 DEF Range
  <2>2. /\ 1 \in DOMAIN r /\ i + 1 \in DOMAIN r /\ 1 < i + 1
        /\ r[1] = k /\ r[i + 1] = x
    BY <1>1, <2>1
  <2> QED
    BY <2>2 DEF Precedes
<1> QED
  BY <1>2, <1>3 DEF r

\* MoveToFront does so to a key of the list.
LEMMA MoveKeepsOrder ==
    ASSUME NEW ll \in Seq(Key), IsInjective(ll), NEW k \in Range(ll)
    PROVE  LET r == MoveToFront(ll, k) IN
           /\ \A x, y : Precedes(ll, x, y) /\ x # k /\ y # k => Precedes(r, x, y)
           /\ \A x \in Range(ll) \ {k} : Precedes(r, k, x)
<1> DEFINE q == RemoveAt(ll, PositionOf(ll, k))
<1>1. q \in Seq(Key) /\ Range(q) = Range(ll) \ {k} /\ k \in Key
  <2>1. k \in Key
    BY DEF Range
  <2> QED
    BY <2>1, RemoveAtPosition
<1>2. ASSUME NEW x, NEW y, Precedes(ll, x, y), x # k, y # k PROVE Precedes(q, x, y)
  BY <1>2, RemoveKeepsOrder
<1>3. MoveToFront(ll, k) = <<k>> \o q
  BY DEF MoveToFront
<1> HIDE DEF q
<1>4. /\ \A x, y : Precedes(q, x, y) => Precedes(<<k>> \o q, x, y)
      /\ \A x \in Range(q) : Precedes(<<k>> \o q, k, x)
  BY <1>1, PushKeepsOrder
<1> QED
  BY <1>1, <1>2, <1>3, <1>4

\* What Add has put in its list comes first there; the other keys keep their order.
LEMMA InsertedKeepsOrder ==
    ASSUME NEW l, IndexInv(l), NEW k \in Key, NEW item \in Item
    PROVE  LET ins == Inserted(l, k, item) IN
           /\ \A x, y : Precedes(l.ll, x, y) /\ x # k /\ y # k
                          => Precedes(ins.ll, x, y)
           /\ \A x \in Range(l.ll) \ {k} : Precedes(ins.ll, k, x)
           /\ Range(ins.ll) = Range(l.ll) \cup {k}
           /\ \A x \in Range(l.ll) \ {k} :
                 DiskUsage(ins.cache)[x] = DiskUsage(l.cache)[x]
<1> DEFINE S   == DOMAIN l.cache
           map == [x \in S \cup {k} |-> IF x = k THEN item ELSE l.cache[x]]
           ll  == IF k \in S THEN MoveToFront(l.ll, k) ELSE <<k>> \o l.ll
           ins == Inserted(l, k, item)
<1>1. /\ l \in LRUType /\ l.ll \in Seq(Key) /\ IsInjective(l.ll) /\ S = Range(l.ll)
  BY DEF IndexInv, IndexShape, LRUType
<1>2. ins.ll = ll /\ ins.cache = map
  BY <1>1 DEF Inserted, LRUType
<1>3. Range(ins.ll) = S \cup {k}
  BY <1>2, InsertedKeeps DEF IndexShape
<1>4. \A x \in S \ {k} : DiskUsage(map)[x] = DiskUsage(l.cache)[x]
  BY DEF DiskUsage
<1>5. CASE k \in S
  <2>1. ll = MoveToFront(l.ll, k)
    BY <1>5
  <2> HIDE DEF ll, S, map, ins
  <2>2. /\ \A x, y : Precedes(l.ll, x, y) /\ x # k /\ y # k => Precedes(ll, x, y)
        /\ \A x \in Range(l.ll) \ {k} : Precedes(ll, k, x)
    BY <1>1, <1>5, <2>1, MoveKeepsOrder
  <2> QED
    BY <1>1, <1>2, <1>3, <1>4, <2>2 DEF ins
<1>6. CASE k \notin S
  <2>1. ll = <<k>> \o l.ll
    BY <1>6
  <2> HIDE DEF ll, S, map, ins
  <2>2. /\ \A x, y : Precedes(l.ll, x, y) => Precedes(ll, x, y)
        /\ \A x \in Range(l.ll) : Precedes(ll, k, x)
    BY <1>1, <2>1, PushKeepsOrder
  <2> QED
    BY <1>1, <1>2, <1>3, <1>4, <2>2 DEF ins
<1> QED
  BY <1>5, <1>6

\* An eviction loop spares whatever precedes a key that it spares, and keeps the
\* order of what it spares.
LEMMA EvictKeepsOrder ==
    ASSUME NEW l, IndexShape(l), NEW n \in 0 .. Len(l.ll), NEW x, NEW y,
           Precedes(l.ll, x, y), y \in DOMAIN EvictOldest(l, n).cache
    PROVE  /\ x \in DOMAIN EvictOldest(l, n).cache
           /\ Precedes(EvictOldest(l, n).ll, x, y)
<1> DEFINE e == EvictOldest(l, n)
<1>1. l.ll \in Seq(Key) /\ Len(l.ll) \in Nat /\ DOMAIN l.ll = 1 .. Len(l.ll)
  BY DEF IndexShape, LRUType
<1>2. IndexShape(e)
  BY EvictOldestKeeps
<1>3. e.ll = SubSeq(l.ll, 1, Len(l.ll) - n)
  BY DEF EvictOldest, Drop
<1>4. /\ DOMAIN e.ll = 1 .. Len(l.ll) - n
      /\ \A i \in 1 .. Len(l.ll) - n : e.ll[i] = l.ll[i]
  BY <1>1, <1>3
<1> HIDE DEF e
<1>5. PICK i \in 1 .. Len(l.ll), j \in 1 .. Len(l.ll) :
         i < j /\ l.ll[i] = x /\ l.ll[j] = y
  BY <1>1 DEF Precedes
<1>6. PICK m \in 1 .. Len(l.ll) - n : e.ll[m] = y
  BY <1>2, <1>4 DEF IndexShape, Range, e
<1>7. m = j
  <2>1. m \in DOMAIN l.ll /\ l.ll[m] = y
    BY <1>1, <1>4, <1>6
  <2> QED
    BY <1>1, <1>5, <2>1 DEF IndexShape, IsInjective
<1>8. i \in DOMAIN e.ll /\ j \in DOMAIN e.ll /\ e.ll[i] = x /\ e.ll[j] = y
  BY <1>1, <1>4, <1>5, <1>6, <1>7
<1>9. x \in DOMAIN e.cache
  BY <1>2, <1>8 DEF IndexShape, Range
<1> QED
  BY <1>5, <1>8, <1>9 DEF Precedes, e

\* The last key that an eviction loop takes made it lower the total once more.
LEMMA LastEviction ==
    ASSUME NEW l, IndexShape(l), NEW n \in 1 .. Len(l.ll)
    PROVE  LET k == l.ll[Len(l.ll) - n + 1] IN
           /\ k \in DOMAIN l.cache
           /\ k \notin DOMAIN EvictOldest(l, n).cache
           /\ DiskUsage(l.cache)[k] \in Nat
           /\ EvictOldest(l, n - 1).currentSize
                = EvictOldest(l, n).currentSize + DiskUsage(l.cache)[k]
<1> DEFINE m == Len(l.ll) - n + 1
           k == l.ll[m]
           f == DiskUsage(l.cache)
           A == Oldest(l, n - 1)
           B == Oldest(l, n)
<1>1. l \in LRUType /\ Len(l.ll) \in Nat /\ DOMAIN l.ll = 1 .. Len(l.ll)
  BY DEF IndexShape, LRUType
<1>2. m \in 1 .. Len(l.ll) /\ k \in DOMAIN l.cache
  BY <1>1 DEF IndexShape, Range
<1>3. k \notin A
  <2>1. SUFFICES ASSUME k \in A PROVE FALSE
    OBVIOUS
  <2>2. PICK j \in Len(l.ll) - (n - 1) + 1 .. Len(l.ll) : l.ll[j] = k
    BY <2>1 DEF Oldest
  <2>3. j \in DOMAIN l.ll /\ m \in DOMAIN l.ll /\ j # m
    BY <1>1
  <2> QED
    BY <2>2, <2>3 DEF IndexShape, IsInjective
<1>4. B = A \cup {k}
  <2>1. (m .. Len(l.ll)) = ((m + 1) .. Len(l.ll)) \cup {m}
    BY <1>1, <1>2
  <2>2. Len(l.ll) - (n - 1) + 1 = m + 1
    BY <1>1
  <2>3. A = {l.ll[i] : i \in (m + 1) .. Len(l.ll)} /\ B = {l.ll[i] : i \in m .. Len(l.ll)}
    BY <2>2 DEF Oldest
  <2> HIDE DEF A, B, m
  <2> QED
    BY <2>1, <2>3
<1>5. A \subseteq DOMAIN l.cache /\ IsFiniteSet(A) /\ IsFiniteSet(DOMAIN l.cache)
  <2>1. IsFiniteSet(DOMAIN l.cache)
    BY RangeFinite DEF IndexShape, LRUType
  <2>2. n - 1 \in 0 .. Len(l.ll)
    BY <1>1
  <2>3. A \subseteq DOMAIN l.cache
    BY <2>2, EvictOldestDrops
  <2> QED
    BY <2>1, <2>3, FS_Subset
<1>6. \A x \in DOMAIN l.cache : f[x] \in Nat
  BY <1>1, <1>5, UsageType
<1>7. /\ EvictOldest(l, n - 1).currentSize = l.currentSize - SumOver(f, A)
      /\ EvictOldest(l, n).currentSize = l.currentSize - SumOver(f, B)
      /\ DOMAIN EvictOldest(l, n).cache = DOMAIN l.cache \ B
      /\ l.currentSize \in Int
  BY <1>1 DEF EvictOldest, Drop, Restrict, LRUType
<1> HIDE DEF A, B, f, k
<1>8. SumOver(f, B) = SumOver(f, A) + f[k]
  <2>1. SumOver(f, A \cup {k}) = SumOver(f, A) + SumOver(f, {k})
    <3>1. IsFiniteSet({k}) /\ A \cap {k} = {}
      BY <1>3, FS_Singleton
    <3> QED
      BY <1>2, <1>5, <1>6, <3>1, SumSplit
  <2>2. SumOver(f, {k}) = f[k]
    BY <1>2, <1>6, SumOne
  <2> QED
    BY <1>4, <2>1, <2>2
<1>9. SumOver(f, A) \in Nat /\ f[k] \in Nat
  BY <1>2, <1>5, <1>6, SumType
<1>10. EvictOldest(l, n - 1).currentSize = EvictOldest(l, n).currentSize + f[k]
  BY <1>7, <1>8, <1>9
<1> QED
  BY <1>2, <1>4, <1>7, <1>9, <1>10 DEF f, k, m

\* The eviction loop that spares a key less spares everything before its last
\* victim.
LEMMA FirstVictim ==
    ASSUME NEW l, IndexShape(l), NEW n \in 0 .. Len(l.ll), NEW x \in Range(l.ll),
           x \notin DOMAIN EvictOldest(l, n).cache
    PROVE  /\ n \in 1 .. Len(l.ll)
           /\ \/ x = l.ll[Len(l.ll) - n + 1]
              \/ Precedes(l.ll, l.ll[Len(l.ll) - n + 1], x)
<1>1. Len(l.ll) \in Nat /\ DOMAIN l.ll = 1 .. Len(l.ll)
  BY DEF IndexShape, LRUType
<1>2. DOMAIN EvictOldest(l, n).cache = DOMAIN l.cache \ Oldest(l, n)
  BY DEF EvictOldest, Drop, Restrict
<1>3. x \in Oldest(l, n)
  BY <1>2 DEF IndexShape
<1>4. PICK i \in Len(l.ll) - n + 1 .. Len(l.ll) : l.ll[i] = x
  BY <1>3 DEF Oldest
<1>5. n \in 1 .. Len(l.ll) /\ Len(l.ll) - n + 1 \in DOMAIN l.ll /\ i \in DOMAIN l.ll
  BY <1>1, <1>4
<1>6. CASE i = Len(l.ll) - n + 1
  BY <1>4, <1>5, <1>6
<1>7. CASE i # Len(l.ll) - n + 1
  <2>1. Len(l.ll) - n + 1 < i
    BY <1>1, <1>4, <1>7
  <2> QED
    BY <1>4, <1>5, <2>1 DEF Precedes
<1> QED
  BY <1>6, <1>7

\* Index m has evicted from the cold end of index l, the keys K apart: it spares
\* what precedes a key that it spares, and keeps the order of the other keys.
ColdEnd(l, m, K) ==
    \A x, y : /\ Precedes(l.ll, x, y)
              /\ y \notin K
              /\ y \in DOMAIN m.cache
              => /\ x \in DOMAIN m.cache
                 /\ x \notin K => Precedes(m.ll, x, y)

\* Index m has no room for the most recently used key that index l has lost.
NoRoom(l, m, K) ==
    \A x \in Range(l.ll) \ K :
        /\ x \notin DOMAIN m.cache
        /\ \A z : Precedes(l.ll, z, x) => z \in DOMAIN m.cache \cup K
        => m.currentSize + DiskUsage(l.cache)[x] > MaxSize

\* An index that has not changed.
LEMMA SameIndex ==
    ASSUME NEW l, IndexInv(l)
    PROVE  ColdEnd(l, l, {}) /\ NoRoom(l, l, {})
<1>1. ASSUME NEW x, NEW y, Precedes(l.ll, x, y) PROVE x \in DOMAIN l.cache
  BY <1>1 DEF Precedes, IndexInv, IndexShape, Range
<1>2. DOMAIN l.cache = Range(l.ll)
  BY DEF IndexInv, IndexShape
<1> QED
  BY <1>1, <1>2 DEF ColdEnd, NoRoom

\* Reserve evicts from the cold end, and no more than it needs.
THEOREM ReserveEvicts ==
    ASSUME NEW l, IndexInv(l), NEW size \in Int, size <= MaxInt
    PROVE  /\ ColdEnd(l, Reserve(l, size).lru, {})
           /\ NoRoom(l, Reserve(l, size).lru, {})
<1> DEFINE r     == Reserve(l, size)
           stops == ReserveStops(l, size)
           n     == Evictions(l, stops)
           e     == EvictOldest(l, n)
           grown == [e EXCEPT !.currentSize = @ + size, !.reservedSize = @ + size]
<1>1. /\ IndexShape(l) /\ Len(l.ll) \in Nat
      /\ l.reservedSize \in 0 .. MaxSize /\ l.currentSize \in 0 .. MaxSize
      /\ l.currentSize = l.reservedSize + Used(l) /\ Used(l) \in Nat
  BY IndexBounds DEF IndexInv
<1>2. CASE size = 0 \/ ReserveRefused(l, size)
  <2>1. r.lru = l
    BY <1>2 DEF Reserve
  <2> QED
    BY <2>1, SameIndex
<1>3. CASE size # 0 /\ ~ReserveRefused(l, size)
  <2>1. size \in 1 .. MaxSize
    BY <1>1, <1>3, SizeAssumption DEF ReserveRefused
  <2>2. stops # {} /\ r.lru = grown
    <3>1. r.err \in {"none", "refused"}
      BY ReserveKeeps
    <3>2. r.err = IF stops = {} THEN "errReservation" ELSE "none"
      BY <1>3 DEF Reserve
    <3>3. stops # {}
      BY <3>1, <3>2
    <3> QED
      BY <1>3, <3>3 DEF Reserve
  <2>3. stops \in SUBSET (0 .. Len(l.ll)) /\ stops \in SUBSET Nat
    BY DEF ReserveStops
  <2> HIDE DEF stops
  <2>4. n \in stops /\ n \in 0 .. Len(l.ll) /\ \A m \in stops : n <= m
    BY <2>2, <2>3, LeastStop
  <2> HIDE DEF n
  <2>5. IndexShape(e) /\ e \in LRUType
    BY <1>1, <2>4, EvictOldestKeeps DEF IndexShape
  <2>6. grown.ll = e.ll /\ grown.cache = e.cache /\ grown.currentSize = e.currentSize + size
    <3> HIDE DEF e
    <3> QED BY <2>5 DEF LRUType
  <2>7. ColdEnd(l, grown, {})
    <3>1. ASSUME NEW x, NEW y, Precedes(l.ll, x, y), y \in DOMAIN e.cache
          PROVE  x \in DOMAIN e.cache /\ Precedes(e.ll, x, y)
      BY <1>1, <2>4, <3>1, EvictKeepsOrder
    <3> HIDE DEF e, grown
    <3> QED
      BY <2>6, <3>1 DEF ColdEnd
  <2>8. ASSUME NEW x \in Range(l.ll), x \notin DOMAIN e.cache,
               \A z : Precedes(l.ll, z, x) => z \in DOMAIN e.cache
        PROVE  e.currentSize + size + DiskUsage(l.cache)[x] > MaxSize
    <3> DEFINE z == l.ll[Len(l.ll) - n + 1]
               u == DiskUsage(l.cache)[z]
               c == EvictOldest(l, n - 1).currentSize
    <3>1. n \in 1 .. Len(l.ll) /\ (x = z \/ Precedes(l.ll, z, x))
      BY <1>1, <2>4, <2>8, FirstVictim
    <3>2. z \notin DOMAIN e.cache /\ u \in Nat /\ c = e.currentSize + u
      BY <1>1, <3>1, LastEviction
    <3>3. x = z
      BY <2>8, <3>1, <3>2
    <3>4. n - 1 \in 0 .. Len(l.ll) /\ n - 1 \notin stops
      BY <1>1, <2>4, <3>1
    <3>5. sumLargerThan(size, c, MaxSize)
      BY <3>4 DEF stops, ReserveStops
    <3>6. c \in 0 .. MaxInt
      <4> DEFINE d == EvictOldest(l, n - 1)
      <4>1. /\ Used(d) \in Nat /\ Used(d) <= Used(l)
            /\ d.currentSize = l.currentSize - Used(l) + Used(d)
        BY <1>1, <3>4, EvictOldestKeeps
      <4> HIDE DEF d
      <4>2. d.currentSize \in 0 .. MaxInt
        BY <1>1, <4>1, SizeAssumption
      <4> QED
        BY <4>2 DEF d
    <3>7. e.currentSize \in Int
      BY <2>5 DEF LRUType
    <3> HIDE DEF c, e, u
    <3>8. size + c > MaxSize
      BY <2>1, <3>5, <3>6, SumLargerThanExact, SizeAssumption
    <3>9. e.currentSize + size + u > MaxSize
      BY <2>1, <3>2, <3>7, <3>8
    <3> QED
      BY <3>3, <3>9 DEF u
  <2>9. NoRoom(l, grown, {})
    <3> HIDE DEF e, grown
    <3> QED BY <2>6, <2>8 DEF NoRoom
  <2> QED
    BY <2>2, <2>7, <2>9
<1> QED
  BY <1>2, <1>3

\* Add evicts from the cold end, apart from the key it is called for, which becomes
\* the most recently used one; and, unless it evicts that one too, no more than it
\* needs.
THEOREM AddEvicts ==
    ASSUME NEW l, IndexInv(l), NEW k \in Key, NEW item \in Item
    PROVE  LET m == Add(l, k, item).lru IN
           /\ ColdEnd(l, m, {k})
           /\ k \in DOMAIN m.cache => NoRoom(l, m, {k})
<1> DEFINE r     == Add(l, k, item)
           delta == sizeDelta(l, k, item)
           ins   == Inserted(l, k, item)
           stops == AddStops(ins, delta)
           n     == Evictions(ins, stops)
           e     == EvictOldest(ins, n)
           sized == [e EXCEPT !.currentSize = Plus(@, delta),
                              !.uncompressedSize =
                                 @ + uncompressedSizeDelta(l, k, item)]
<1>1. ~r.hung
  BY AddKeeps
<1>2. CASE AddRefused(l, k, item)
  <2>1. r.lru = l
    BY <1>2 DEF Add
  <2>2. ColdEnd(l, l, {}) /\ NoRoom(l, l, {})
    BY SameIndex
  <2>3. ColdEnd(l, l, {k}) /\ NoRoom(l, l, {k})
    BY <2>2 DEF ColdEnd, NoRoom, IndexInv, IndexShape
  <2> QED
    BY <2>1, <2>3
<1>3. CASE ~AddRefused(l, k, item)
  <2>1. stops # {} /\ r.lru = sized
    BY <1>1, <1>3 DEF Add
  <2>2. IndexShape(ins) /\ delta \in Int
    BY InsertedKeeps
  <2>3. /\ \A x, y : Precedes(l.ll, x, y) /\ x # k /\ y # k => Precedes(ins.ll, x, y)
        /\ \A x \in Range(l.ll) \ {k} : Precedes(ins.ll, k, x)
        /\ Range(ins.ll) = Range(l.ll) \cup {k}
        /\ \A x \in Range(l.ll) \ {k} :
              DiskUsage(ins.cache)[x] = DiskUsage(l.cache)[x]
    BY InsertedKeepsOrder
  <2>4. ASSUME NEW m \in 0 .. Len(ins.ll)
        PROVE  /\ EvictOldest(ins, m).currentSize \in Int
               /\ Plus(EvictOldest(ins, m).currentSize, delta)
                    = EvictOldest(ins, m).currentSize + delta
    BY <1>3, AddLoopSums
  <2>5. stops \in SUBSET (0 .. Len(ins.ll)) /\ stops \in SUBSET Nat
    BY DEF AddStops
  <2> HIDE DEF stops, ins, delta
  <2>6. n \in stops /\ n \in 0 .. Len(ins.ll) /\ \A m \in stops : n <= m
    BY <2>1, <2>5, LeastStop
  <2> HIDE DEF n
  <2>7. IndexShape(e) /\ e \in LRUType
    BY <2>2, <2>6, EvictOldestKeeps DEF IndexShape
  <2>8. /\ sized.ll = e.ll /\ sized.cache = e.cache
        /\ sized.currentSize = Plus(e.currentSize, delta)
    <3> HIDE DEF e
    <3> QED BY <2>7 DEF LRUType
  <2>9. ASSUME NEW x, NEW y, Precedes(ins.ll, x, y), y \in DOMAIN e.cache
        PROVE  x \in DOMAIN e.cache /\ Precedes(e.ll, x, y)
    BY <2>2, <2>6, <2>9, EvictKeepsOrder
  <2>10. ASSUME NEW x, NEW y, Precedes(l.ll, x, y) PROVE x \in Range(l.ll) /\ y \in Range(l.ll)
    BY <2>10 DEF Precedes, Range
  <2>11. ColdEnd(l, sized, {k})
    <3> HIDE DEF e, sized
    <3>1. ASSUME NEW x, NEW y, Precedes(l.ll, x, y), y # k, y \in DOMAIN e.cache
          PROVE  x \in DOMAIN e.cache /\ (x # k => Precedes(e.ll, x, y))
      <4>1. Precedes(ins.ll, x, y)
        BY <2>3, <2>10, <3>1
      <4> QED
        BY <2>9, <3>1, <4>1
    <3> QED
      BY <2>8, <3>1 DEF ColdEnd
  <2>12. ASSUME k \in DOMAIN e.cache, NEW x \in Range(l.ll) \ {k}, x \notin DOMAIN e.cache,
                \A z : Precedes(l.ll, z, x) => z \in DOMAIN e.cache \cup {k}
         PROVE  Plus(e.currentSize, delta) + DiskUsage(l.cache)[x] > MaxSize
    <3> DEFINE z == ins.ll[Len(ins.ll) - n + 1]
               u == DiskUsage(ins.cache)[z]
               c == EvictOldest(ins, n - 1).currentSize
    <3>1. n \in 1 .. Len(ins.ll) /\ (x = z \/ Precedes(ins.ll, z, x))
      BY <2>2, <2>3, <2>6, <2>12, FirstVictim
    <3>2. z \in DOMAIN ins.cache /\ z \notin DOMAIN e.cache /\ u \in Nat /\ c = e.currentSize + u
      BY <2>2, <3>1, LastEviction
    <3>3. z # k /\ z \in Range(l.ll)
      BY <2>2, <2>3, <2>12, <3>2 DEF IndexShape
    <3> HIDE DEF z
    <3>4. x = z
      <4>1. SUFFICES ASSUME x # z PROVE FALSE
        OBVIOUS
      <4>2. Precedes(ins.ll, z, x)
        BY <3>1, <4>1
      <4>3. Precedes(l.ll, z, x) \/ Precedes(l.ll, x, z)
        <5>1. l.ll \in Seq(Key)
          BY DEF IndexInv, IndexShape, LRUType
        <5>2. PICK i \in DOMAIN l.ll : l.ll[i] = x
          BY OfRange
        <5>3. PICK j \in DOMAIN l.ll : l.ll[j] = z
          BY <3>3, OfRange
        <5>4. i < j \/ j < i
          BY <4>1, <5>1, <5>2, <5>3
        <5> QED
          BY <5>2, <5>3, <5>4 DEF Precedes
      <4>4. CASE Precedes(l.ll, z, x)
        BY <2>12, <3>2, <3>3, <4>4
      <4>5. CASE Precedes(l.ll, x, z)
        <5>1. Precedes(ins.ll, x, z)
          BY <2>3, <3>3, <4>5
        <5>2. ins.ll \in Seq(Key) /\ IsInjective(ins.ll)
          BY <2>2 DEF IndexShape, LRUType
        <5> QED
          BY <4>2, <5>1, <5>2, PrecedesOneWay
      <4> QED
        BY <4>3, <4>4, <4>5
    <3>5. n - 1 \in 0 .. Len(ins.ll) /\ n - 1 \notin stops
      <4>1. Len(ins.ll) \in Nat
        BY <2>2 DEF IndexShape, LRUType
      <4> QED
        BY <2>6, <3>1, <4>1
    <3>6. Plus(c, delta) > MaxSize
      BY <3>5 DEF stops, AddStops
    <3>7. Plus(c, delta) = c + delta /\ Plus(e.currentSize, delta) = e.currentSize + delta
          /\ e.currentSize \in Int
      BY <2>4, <2>6, <3>5
    <3>8. DiskUsage(l.cache)[x] = u
      BY <2>3, <3>3, <3>4
    <3> HIDE DEF c, e, u
    <3>9. e.currentSize + delta + u > MaxSize
      BY <2>2, <3>2, <3>6, <3>7
    <3> QED
      BY <3>7, <3>8, <3>9
  <2>13. k \in DOMAIN sized.cache => NoRoom(l, sized, {k})
    <3> HIDE DEF e, sized
    <3> QED BY <2>8, <2>12 DEF NoRoom
  <2> HIDE DEF sized, r
  <2> QED
    BY <2>1, <2>11, <2>13 DEF r
<1> QED
  BY <1>2, <1>3

\* Get moves its key to the front and keeps the order of the others.
LEMMA GetEvicts ==
    ASSUME NEW l, IndexInv(l), NEW k \in Key
    PROVE  ColdEnd(l, Get(l, k), {k})
<1>1. CASE k \notin DOMAIN l.cache
  <2>1. Get(l, k) = l /\ ColdEnd(l, l, {})
    BY <1>1, SameIndex DEF Get
  <2> QED
    BY <2>1 DEF ColdEnd
<1>2. CASE k \in DOMAIN l.cache
  <2> DEFINE g == Get(l, k)
  <2>1. l.ll \in Seq(Key) /\ IsInjective(l.ll) /\ DOMAIN l.cache = Range(l.ll)
    BY DEF IndexInv, IndexShape, LRUType
  <2>2. g.ll = MoveToFront(l.ll, k) /\ g.cache = l.cache
    BY <1>2 DEF Get, IndexInv, IndexShape, LRUType
  <2>3. \A x, y : Precedes(l.ll, x, y) /\ x # k /\ y # k
                    => Precedes(MoveToFront(l.ll, k), x, y)
    BY <1>2, <2>1, MoveKeepsOrder
  <2> HIDE DEF g
  <2>4. ASSUME NEW x, NEW y, Precedes(l.ll, x, y) PROVE x \in Range(l.ll)
    BY <2>4 DEF Precedes, Range
  <2> QED
    BY <2>1, <2>2, <2>3, <2>4 DEF ColdEnd, g
<1> QED
  BY <1>1, <1>2
=============================================================================
