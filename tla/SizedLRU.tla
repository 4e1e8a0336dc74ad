------------------------------ MODULE SizedLRU ------------------------------
(***************************************************************************)
(* The LRU index of cache/disk/lru.go as a state machine: any sequence of  *)
(* calls of its methods, each atomic because the callers in disk.go hold   *)
(* diskCache.mu.  A client stands for a request of disk.go, which reserves *)
(* space at most once and later gives exactly that much back.              *)
(***************************************************************************)
EXTENDS LRUIndex

CONSTANTS
    Client, \* the requests that reserve space
    Size    \* the sizes that they ask for

ASSUME ClientAssumption ==
    /\ IsFiniteSet(Client)
    /\ Size \subseteq -1 .. MaxInt

VARIABLES
    lru,  \* the index
    held, \* what each client has reserved and not given back
    last  \* the latest call, and what it returned

vars == <<lru, held, last>>

-----------------------------------------------------------------------------

\* A call, the key or the size it was given, how it ended ("ok", "refused", or
\* one of the endings the code rules out) and what it passed to onEvict.
Call(op, arg, end, evicted) ==
    [op |-> op, arg |-> arg, end |-> end, evicted |-> evicted]

Init ==
    /\ lru = NewSizedLRU
    /\ held = [c \in Client |-> 0]
    /\ last = Call("New", 0, "ok", {})

\* Nothing follows a call that never returns: it holds the lock.
Unlocked == last.end # "hung"

DoAdd(k, item) ==
    LET r == Add(lru, k, item) IN
    /\ Unlocked
    /\ lru' = r.lru
    /\ last' = Call("Add", k, CASE r.hung -> "hung"
                                [] r.ok -> "ok"
                                [] OTHER -> "refused", r.evicted)
    /\ UNCHANGED held

DoGet(k) ==
    /\ Unlocked
    /\ lru' = Get(lru, k)
    /\ last' = Call("Get", k, IF k \in DOMAIN lru.cache THEN "ok" ELSE "refused", {})
    /\ UNCHANGED held

DoRemove(k) ==
    LET r == RemoveKey(lru, k) IN
    /\ Unlocked
    /\ lru' = r.lru
    /\ last' = Call("Remove", k, "ok", r.evicted)
    /\ UNCHANGED held

DoReserve(c, size) ==
    LET r == Reserve(lru, size) IN
    /\ Unlocked
    /\ held[c] = 0
    /\ lru' = r.lru
    /\ held' = [held EXCEPT ![c] = IF r.err = "none" THEN size ELSE 0]
    /\ last' = Call("Reserve", size, CASE r.err = "none" -> "ok"
                                        [] r.err = "refused" -> "refused"
                                        [] OTHER -> "errReservation", r.evicted)

DoUnreserve(c) ==
    LET r == Unreserve(lru, held[c]) IN
    /\ Unlocked
    /\ held[c] > 0
    /\ lru' = r.lru
    /\ held' = [held EXCEPT ![c] = 0]
    /\ last' = Call("Unreserve", held[c],
                    IF r.ok THEN "ok" ELSE "failed to unreserve", {})

Next ==
    \/ \E k \in Key, item \in Item : DoAdd(k, item)
    \/ \E k \in Key : DoGet(k)
    \/ \E k \in Key : DoRemove(k)
    \/ \E c \in Client, size \in Size : DoReserve(c, size)
    \/ \E c \in Client : DoUnreserve(c)

Spec == Init /\ [][Next]_vars

-----------------------------------------------------------------------------
(***************************************************************************)
(* Properties.                                                             *)
(***************************************************************************)

\* The variables have their types.
TypeOK ==
    /\ lru \in LRUType
    /\ held \in [Client -> Nat]
    /\ last.end \in {"ok", "refused", "hung", "errReservation",
                     "failed to unreserve"}

\* The list and the map hold the same keys, each once: an item found by Get can
\* be evicted, and an eviction removes one item (Add, removeElement).
ListMatchesMap ==
    /\ IsInjective(lru.ll)
    /\ DOMAIN lru.cache = Range(lru.ll)

\* The running totals, which every method adjusts by differences, are the sums
\* over what is in the cache plus what the clients hold reserved.
SizesAccounted ==
    /\ lru.reservedSize = SumOver(held, Client)
    /\ lru.currentSize = lru.reservedSize + Used(lru)
    /\ lru.uncompressedSize = UsedLogical(lru)

\* "SizedLRU will evict items as needed to maintain the total size of the cache
\* below maxSize": reserved space included, after every call.
WithinCapacity == lru.currentSize <= MaxSize

\* The endings the code rules out do not happen: Add's eviction loop never meets
\* an empty list (it would spin with the lock held), Reserve never runs out of
\* items after its checks, and no client fails to give back what it reserved.
NoInternalError == last.end \in {"ok", "refused"}

\* The step is a call of Add or Get about key k.
Subject(k) == last'.op \in {"Add", "Get"} /\ k = last'.arg

\* A call evicts from the cold end only: if a key survives a step other than
\* Remove, so does every key that was used more recently, and the keys that the
\* call is not about keep their order.
FromColdEnd ==
    last'.op # "Remove" =>
        \A i, j \in DOMAIN lru.ll :
            /\ i < j
            /\ ~Subject(lru.ll[j])
            /\ lru.ll[j] \in DOMAIN lru'.cache
            => /\ lru.ll[i] \in DOMAIN lru'.cache
               /\ ~Subject(lru.ll[i]) =>
                    PositionOf(lru'.ll, lru.ll[i]) < PositionOf(lru'.ll, lru.ll[j])

\* Add and Reserve stop evicting as soon as there is room: with the most recently
\* used of the evicted items put back the cache would be over its capacity.
\* The exception is an Add that evicts the item it adds (see AddedIsPresent).
NoMoreThanNeeded ==
    \A i \in DOMAIN lru.ll :
        LET k == lru.ll[i] IN
        /\ \/ last'.op = "Reserve"
           \/ last'.op = "Add" /\ last'.arg \in DOMAIN lru'.cache
        /\ ~Subject(k)
        /\ k \notin DOMAIN lru'.cache
        /\ \A j \in DOMAIN lru.ll :
              j < i => lru.ll[j] \in DOMAIN lru'.cache \/ Subject(lru.ll[j])
        => lru'.currentSize + DiskUsage(lru.cache)[k] > MaxSize

\* Eviction in Add and Reserve: the least recently used items go, and no more of
\* them than the call needs.
EvictsOldestAsNeeded == [][FromColdEnd /\ NoMoreThanNeeded]_vars

\* A reservation of a valid size is granted exactly when evicting every item
\* makes room for it next to the other reservations: the overflow test of
\* sumLargerThan neither lets a sum that wraps through nor refuses one that fits.
ReserveExact ==
    [][last'.op = "Reserve" /\ last'.arg > 0 =>
         (last'.end = "ok" <=> SumOver(held, Client) + last'.arg <= MaxSize)
      ]_vars

\* What the comment on Add says: it "returns false and does not add the item if
\* [...] the item cannot be added to the cache because too much space is
\* reserved"; so after an Add that returned true the item is in the cache.
AddedIsPresent ==
    last.op = "Add" /\ last.end = "ok" => last.arg \in DOMAIN lru.cache
=============================================================================
