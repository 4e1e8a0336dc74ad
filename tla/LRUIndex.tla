------------------------------ MODULE LRUIndex ------------------------------
(***************************************************************************)
(* The size-bounded LRU index of cache/disk/lru.go as operators on a       *)
(* record, one operator per method of SizedLRU.  The index is the record   *)
(*                                                                         *)
(*   ll                the keys of the eviction list, most recent first    *)
(*   cache             a function from the keys present to their lruItem   *)
(*   currentSize       bytes used, the reserved ones included              *)
(*   uncompressedSize  bytes used if every blob were uncompressed          *)
(*   reservedSize      bytes reserved for incoming blobs                   *)
(*                                                                         *)
(* An operator that the code lets evict returns, with the new index, the   *)
(* set of <<key, item>> pairs it hands to the onEvict callback.  The       *)
(* Prometheus gauges and counters are left out.                            *)
(*                                                                         *)
(* In all modules an operator whose name ends in _ and a fault is a wrong  *)
(* version of the one that follows it: a property is shown to notice it.   *)
(***************************************************************************)
EXTENDS Sums, SequencesExt

CONSTANTS
    Key,       \* the lookup keys
    Item,      \* the lruItem values: records with at least size, sizeOnDisk
    BlockSize, \* file sizes are rounded up to a multiple of this (4096)
    MaxSize,   \* the capacity of the cache in bytes
    MaxInt     \* the largest value of the code's integers (2^63 - 1)

ASSUME SizeAssumption ==
    /\ BlockSize \in Nat \ {0}
    /\ MaxSize \in Nat \ {0}
    /\ MaxInt \in Nat
    /\ MaxSize <= MaxInt

\* The values of an index.
CacheMaps == UNION {[D -> Item] : D \in SUBSET Key}
LRUType ==
    [ll : Seq(Key), cache : CacheMaps,
     currentSize : Int, uncompressedSize : Int, reservedSize : Int]

\* What Add relies on but does not check: its sums of two sizes do not wrap.
\* (Reserve does check, and is right up to MaxSize = MaxInt.)
ASSUME ItemAssumption ==
    \A item \in Item :
        /\ item.size \in Nat
        /\ item.sizeOnDisk \in Nat
        /\ item.size + BlockSize <= MaxInt
        /\ item.sizeOnDisk + BlockSize <= MaxInt
        /\ 2 * MaxSize <= MaxInt

-----------------------------------------------------------------------------
(***************************************************************************)
(* Integer arithmetic of the code.                                         *)
(***************************************************************************)

\* The machine sum of two integers of the code's width.
Plus(a, b) ==
    CASE a + b > MaxInt        -> a + b - 2 * (MaxInt + 1)
      [] a + b < -(MaxInt + 1) -> a + b + 2 * (MaxInt + 1)
      [] OTHER                 -> a + b

sumLargerThan(a, b, c) == Plus(a, b) > c \/ Plus(a, b) <= 0

roundUp4k(n) == (Plus(n, BlockSize - 1) \div BlockSize) * BlockSize

-----------------------------------------------------------------------------
(***************************************************************************)
(* The eviction list and the sizes of what is in it.                       *)
(***************************************************************************)

\* The disk usage that the index accounts for each item of a map, and the
\* usage there would be without compression.
DiskUsage(cache) == [k \in DOMAIN cache |-> roundUp4k(cache[k].sizeOnDisk)]
LogicalUsage(cache) == [k \in DOMAIN cache |-> roundUp4k(cache[k].size)]

Used(l) == SumOver(DiskUsage(l.cache), DOMAIN l.cache)
UsedLogical(l) == SumOver(LogicalUsage(l.cache), DOMAIN l.cache)

PositionOf(ll, k) == CHOOSE i \in DOMAIN ll : ll[i] = k

MoveToFront(ll, k) == <<k>> \o RemoveAt(ll, PositionOf(ll, k))

\* The entries of map cache with a key in S, as they reach onEvict.
Entries(cache, S) == {<<k, cache[k]>> : k \in S}

NewSizedLRU ==
    [ll |-> <<>>, cache |-> [k \in {} |-> 0],
     currentSize |-> 0, uncompressedSize |-> 0, reservedSize |-> 0]

\* Index l without the keys in gone, whose list is then ll.
Drop(l, ll, gone) ==
    [ll               |-> ll,
     cache            |-> Restrict(l.cache, DOMAIN l.cache \ gone),
     currentSize      |-> l.currentSize - SumOver(DiskUsage(l.cache), gone),
     uncompressedSize |-> l.uncompressedSize
                            - SumOver(LogicalUsage(l.cache), gone),
     reservedSize     |-> l.reservedSize]

removeElement(l, k) == Drop(l, RemoveAt(l.ll, PositionOf(l.ll, k)), {k})

\* The n least recently used keys, and the index after the eviction loop has
\* called removeElement on ll.Back() n times.
Oldest(l, n) == {l.ll[i] : i \in Len(l.ll) - n + 1 .. Len(l.ll)}
EvictOldest_Newest(l, n) ==
    Drop(l, SubSeq(l.ll, n + 1, Len(l.ll)), {l.ll[i] : i \in 1 .. n})
EvictOldest(l, n) == Drop(l, SubSeq(l.ll, 1, Len(l.ll) - n), Oldest(l, n))

\* How often an eviction loop calls removeElement: until its condition is first
\* false, or until the list is empty.  stops is the set of the numbers of
\* evictions after which the condition is false.
Evictions(l, stops) ==
    IF stops = {} THEN Len(l.ll) ELSE CHOOSE n \in stops : \A m \in stops : n <= m

-----------------------------------------------------------------------------
(***************************************************************************)
(* The methods.                                                            *)
(***************************************************************************)

Get(l, k) ==
    IF k \in DOMAIN l.cache THEN [l EXCEPT !.ll = MoveToFront(@, k)] ELSE l

RemoveKey(l, k) ==
    IF k \in DOMAIN l.cache
    THEN [lru |-> removeElement(l, k), evicted |-> Entries(l.cache, {k})]
    ELSE [lru |-> l, evicted |-> {}]

sizeDelta_IgnoresOld(l, k, item) == roundUp4k(item.sizeOnDisk)

\* By how much an Add of item under k changes the disk and the logical usage.
sizeDelta(l, k, item) ==
    roundUp4k(item.sizeOnDisk)
      - IF k \in DOMAIN l.cache THEN roundUp4k(l.cache[k].sizeOnDisk) ELSE 0
uncompressedSizeDelta(l, k, item) ==
    roundUp4k(item.size)
      - IF k \in DOMAIN l.cache THEN roundUp4k(l.cache[k].size) ELSE 0

AddRefused(l, k, item) ==
    \/ roundUp4k(item.sizeOnDisk) > MaxSize
    \/ Plus(l.reservedSize, sizeDelta(l, k, item)) > MaxSize

Inserted_Twice(l, k, item) ==
    [l EXCEPT !.ll = <<k>> \o @,
              !.cache = [x \in DOMAIN @ \cup {k} |-> IF x = k THEN item ELSE @[x]]]

\* The index once Add has put the item in the list and the map, with the sizes
\* still those from before: the eviction loop runs on this index, and can
\* evict the new item itself.
Inserted(l, k, item) ==
    [l EXCEPT !.ll = IF k \in DOMAIN l.cache THEN MoveToFront(@, k)
                                             ELSE <<k>> \o @,
              !.cache = [x \in DOMAIN @ \cup {k} |->
                            IF x = k THEN item ELSE @[x]]]

AddStops_NoDelta(l, delta) ==
    {n \in 0 .. Len(l.ll) : EvictOldest(l, n).currentSize <= MaxSize}
AddStops(l, delta) ==
    {n \in 0 .. Len(l.ll) :
        ~(Plus(EvictOldest(l, n).currentSize, delta) > MaxSize)}

\* hung: the loop of Add has no exit for an empty list and would spin forever.
Add(l, k, item) ==
    LET delta == sizeDelta(l, k, item)
        ins   == Inserted(l, k, item)
        stops == AddStops(ins, delta)
        n     == Evictions(ins, stops)
        out   == EvictOldest(ins, n)
        sized == [out EXCEPT !.currentSize = Plus(@, delta),
                             !.uncompressedSize =
                                @ + uncompressedSizeDelta(l, k, item)]
    IN  IF AddRefused(l, k, item)
        THEN [ok |-> FALSE, lru |-> l, evicted |-> {}, hung |-> FALSE]
        ELSE [ok |-> stops # {},
              lru |-> IF stops = {} THEN out ELSE sized,
              evicted |-> Entries(l.cache, {k} \cap DOMAIN l.cache)
                            \cup Entries(ins.cache, Oldest(ins, n)),
              hung |-> stops = {}]

ReserveStops(l, size) ==
    {n \in 0 .. Len(l.ll) :
        ~sumLargerThan(size, EvictOldest(l, n).currentSize, MaxSize)}

ReserveRefused_NoReservedTest(l, size) == size < 0 \/ size > MaxSize
ReserveRefused_NoEviction(l, size) ==
    size < 0 \/ size > MaxSize \/ sumLargerThan(size, l.currentSize, MaxSize)
ReserveRefused(l, size) ==
    \/ size < 0
    \/ size > MaxSize
    \/ sumLargerThan(size, l.reservedSize, MaxSize)

\* err is "none", "refused", or "errReservation" when the list runs out, which
\* "should have been caught at the start".
Reserve(l, size) ==
    LET stops == ReserveStops(l, size)
        n     == Evictions(l, stops)
        out   == EvictOldest(l, n)
        grown == [out EXCEPT !.currentSize = @ + size, !.reservedSize = @ + size]
    IN  CASE size = 0 -> [err |-> "none", lru |-> l, evicted |-> {}]
          [] size # 0 /\ ReserveRefused(l, size) ->
               [err |-> "refused", lru |-> l, evicted |-> {}]
          [] size # 0 /\ ~ReserveRefused(l, size) ->
               [err |-> IF stops = {} THEN "errReservation" ELSE "none",
                lru |-> IF stops = {} THEN out ELSE grown,
                evicted |-> Entries(l.cache, Oldest(l, n))]

UnreserveRefused(l, size) ==
    size < 0 \/ l.currentSize - size < 0 \/ l.reservedSize - size < 0

Unreserve(l, size) ==
    IF UnreserveRefused(l, size)
    THEN [ok |-> FALSE, lru |-> l]
    ELSE [ok |-> TRUE, lru |-> [l EXCEPT !.currentSize = @ - size,
                                         !.reservedSize = @ - size]]
=============================================================================
