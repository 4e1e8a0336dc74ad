-------------------------- MODULE SizedLRU_proofs ---------------------------
(***************************************************************************)
(* The invariants of SizedLRU hold for every set of keys, items, clients   *)
(* and sizes, every block size and every capacity.                         *)
(***************************************************************************)
EXTENDS SizedLRU, LRUIndex_proofs

\* The inductive invariant: the invariant of the index, and the clients' view of
\* its reservations.
IInv ==
    /\ IndexInv(lru)
    /\ held \in [Client -> Nat]
    /\ lru.reservedSize = SumOver(held, Client)
    /\ last.end \in {"ok", "refused"}

\* It implies each of the invariants that the runs of SizedLRU check.
LEMMA IInvImplies ==
    IInv => /\ TypeOK
            /\ ListMatchesMap
            /\ SizesAccounted
            /\ WithinCapacity
            /\ NoInternalError
  BY DEF IInv, IndexInv, IndexShape, TypeOK, ListMatchesMap, SizesAccounted,
         WithinCapacity, NoInternalError

\* The invariant holds of a new cache.
LEMMA InitIInv == Init => IInv
<1> SUFFICES ASSUME Init PROVE IInv
  OBVIOUS
<1>1. IndexInv(lru) /\ lru.reservedSize = 0
  BY NewIndexInv DEF Init
<1>2. held \in [Client -> Nat] /\ SumOver(held, Client) = 0
  BY SumZero DEF Init
<1> QED
  BY <1>1, <1>2 DEF Init, Call, IInv

\* Changing one client's reservation changes the sum of all of them by as much.
LEMMA HeldUpdate ==
    ASSUME held \in [Client -> Nat], NEW c \in Client, NEW n \in Nat
    PROVE  /\ [held EXCEPT ![c] = n] \in [Client -> Nat]
           /\ SumOver([held EXCEPT ![c] = n], Client)
                = SumOver(held, Client) - held[c] + n
           /\ SumOver(held, Client) \in Nat
           /\ held[c] <= SumOver(held, Client)
<1> DEFINE h == [held EXCEPT ![c] = n]
           z == [held EXCEPT ![c] = 0]
<1>1. h \in [Client -> Nat] /\ h[c] = n /\ \A x \in Client \ {c} : held[x] = h[x]
  OBVIOUS
<1>2. z \in [Client -> Nat] /\ z[c] = 0 /\ \A x \in Client \ {c} : held[x] = z[x]
  OBVIOUS
<1> HIDE DEF h, z
<1>3. SumOver(h, Client) = SumOver(held, Client) - held[c] + n
  BY <1>1, SumUpdate, ClientAssumption
<1>4. SumOver(z, Client) = SumOver(held, Client) - held[c] + 0
  BY <1>2, SumUpdate, ClientAssumption
<1>5. SumOver(z, Client) \in Nat /\ SumOver(held, Client) \in Nat
  BY <1>2, SumType, ClientAssumption
<1>6. held[c] <= SumOver(held, Client)
  BY <1>4, <1>5
<1> QED
  BY <1>1, <1>3, <1>5, <1>6 DEF h

\* Every call keeps the invariant.
LEMMA NextIInv == IInv /\ [Next]_vars => IInv'
<1> SUFFICES ASSUME IInv, [Next]_vars PROVE IInv'
  OBVIOUS
<1>1. /\ IndexInv(lru)
      /\ held \in [Client -> Nat]
      /\ lru.reservedSize = SumOver(held, Client)
  BY DEF IInv
<1>2. ASSUME NEW k \in Key, NEW item \in Item, DoAdd(k, item) PROVE IInv'
  <2> DEFINE r == Add(lru, k, item)
  <2>1. ~r.hung /\ r.ok \in BOOLEAN /\ IndexInv(r.lru)
        /\ r.lru.reservedSize = lru.reservedSize
    BY <1>1, AddKeeps
  <2>2. /\ lru' = r.lru /\ held' = held
        /\ last'.end = CASE r.hung -> "hung" [] r.ok -> "ok" [] OTHER -> "refused"
    BY <1>2 DEF DoAdd, Call
  <2> HIDE DEF r
  <2> QED
    BY <1>1, <2>1, <2>2 DEF IInv
<1>3. ASSUME NEW k \in Key, DoGet(k) PROVE IInv'
  <2>1. IndexInv(Get(lru, k)) /\ Get(lru, k).reservedSize = lru.reservedSize
    BY <1>1, GetKeeps
  <2>2. lru' = Get(lru, k) /\ held' = held /\ last'.end \in {"ok", "refused"}
    BY <1>3 DEF DoGet, Call
  <2> QED
    BY <1>1, <2>1, <2>2 DEF IInv
<1>4. ASSUME NEW k \in Key, DoRemove(k) PROVE IInv'
  <2> DEFINE r == RemoveKey(lru, k)
  <2>1. IndexInv(r.lru) /\ r.lru.reservedSize = lru.reservedSize
    BY <1>1, RemoveKeeps
  <2>2. lru' = r.lru /\ held' = held /\ last'.end = "ok"
    BY <1>4 DEF DoRemove, Call
  <2> HIDE DEF r
  <2> QED
    BY <1>1, <2>1, <2>2 DEF IInv
<1>5. ASSUME NEW c \in Client, NEW size \in Size, DoReserve(c, size) PROVE IInv'
  <2> DEFINE r == Reserve(lru, size)
             n == IF r.err = "none" THEN size ELSE 0
  <2>1. size \in Int /\ size <= MaxInt
    BY ClientAssumption, SizeAssumption
  <2>2. /\ IndexInv(r.lru)
        /\ r.err \in {"none", "refused"}
        /\ r.lru.reservedSize = lru.reservedSize + n
        /\ r.err = "none" => size >= 0
    BY <1>1, <2>1, ReserveKeeps
  <2>3. /\ lru' = r.lru /\ held[c] = 0 /\ held' = [held EXCEPT ![c] = n]
        /\ last'.end = CASE r.err = "none" -> "ok"
                         [] r.err = "refused" -> "refused"
                         [] OTHER -> "errReservation"
    BY <1>5 DEF DoReserve, Call
  <2>4. n \in Nat
    BY <2>1, <2>2
  <2> HIDE DEF r, n
  <2>5. /\ held' \in [Client -> Nat]
        /\ SumOver(held', Client) = SumOver(held, Client) - held[c] + n
        /\ SumOver(held, Client) \in Nat
    BY <1>1, <2>3, <2>4, HeldUpdate
  <2>6. lru'.reservedSize = SumOver(held', Client)
    BY <1>1, <2>2, <2>3, <2>4, <2>5
  <2> QED
    BY <2>2, <2>3, <2>5, <2>6 DEF IInv
<1>6. ASSUME NEW c \in Client, DoUnreserve(c) PROVE IInv'
  <2> DEFINE r == Unreserve(lru, held[c])
  <2>1. /\ [held EXCEPT ![c] = 0] \in [Client -> Nat]
        /\ SumOver([held EXCEPT ![c] = 0], Client)
              = SumOver(held, Client) - held[c] + 0
        /\ SumOver(held, Client) \in Nat
        /\ held[c] <= SumOver(held, Client)
        /\ held[c] \in Nat
    BY <1>1, HeldUpdate
  <2>2. r.ok /\ IndexInv(r.lru) /\ r.lru.reservedSize = lru.reservedSize - held[c]
    BY <1>1, <2>1, UnreserveKeeps
  <2>3. /\ lru' = r.lru /\ held' = [held EXCEPT ![c] = 0]
        /\ last'.end = IF r.ok THEN "ok" ELSE "failed to unreserve"
    BY <1>6 DEF DoUnreserve, Call
  <2> HIDE DEF r
  <2> QED
    BY <1>1, <2>1, <2>2, <2>3 DEF IInv
<1>7. CASE UNCHANGED vars
  BY <1>7 DEF vars, IInv
<1> QED
  BY <1>2, <1>3, <1>4, <1>5, <1>6, <1>7 DEF Next

\* The inductive invariant is an invariant of SizedLRU.
THEOREM Invariance == Spec => []IInv
  BY InitIInv, NextIInv, PTL DEF Spec

\* The variables of SizedLRU keep their types.
THEOREM TypeCorrect == Spec => []TypeOK
  BY Invariance, IInvImplies, PTL

\* The eviction list and the map of SizedLRU always hold the same keys, once.
THEOREM ListAndMapAgree == Spec => []ListMatchesMap
  BY Invariance, IInvImplies, PTL

\* The running totals of SizedLRU never drift from what they count.
THEOREM TotalsAreExact == Spec => []SizesAccounted
  BY Invariance, IInvImplies, PTL

\* SizedLRU never holds or promises more than its capacity.
THEOREM CapacityIsKept == Spec => []WithinCapacity
  BY Invariance, IInvImplies, PTL

\* Add never spins on an empty list, Reserve never returns errReservation and
\* Unreserve never fails for a client that gives back what it reserved.
THEOREM NoCallFailsInternally == Spec => []NoInternalError
  BY Invariance, IInvImplies, PTL

\* A reservation is granted exactly when it fits next to the others, at every
\* capacity up to the largest integer.
THEOREM ReservationsAreExact == Spec => ReserveExact
<1> DEFINE A == last'.op = "Reserve" /\ last'.arg > 0 =>
                  (last'.end = "ok" <=> SumOver(held, Client) + last'.arg <= MaxSize)
<1>1. IInv /\ [Next]_vars => [A]_vars
  <2> SUFFICES ASSUME IInv, Next PROVE [A]_vars
    BY DEF vars
  <2>1. ASSUME NEW c \in Client, NEW size \in Size, DoReserve(c, size) PROVE A
    <3> DEFINE r == Reserve(lru, size)
    <3>1. size \in Int /\ size <= MaxInt
      BY ClientAssumption, SizeAssumption
    <3>2. /\ r.err \in {"none", "refused"}
          /\ size > 0 => (r.err = "none" <=> lru.reservedSize + size <= MaxSize)
      BY <3>1, ReserveKeeps DEF IInv
    <3>3. /\ last'.end = CASE r.err = "none" -> "ok"
                           [] r.err = "refused" -> "refused"
                           [] OTHER -> "errReservation"
          /\ last'.arg = size
      BY <2>1 DEF DoReserve, Call
    <3> HIDE DEF r
    <3> QED
      BY <3>2, <3>3 DEF IInv
  <2>2. ASSUME NEW k \in Key, NEW item \in Item, DoAdd(k, item) PROVE A
    BY <2>2 DEF DoAdd, Call
  <2>3. ASSUME NEW k \in Key, DoGet(k) PROVE A
    BY <2>3 DEF DoGet, Call
  <2>4. ASSUME NEW k \in Key, DoRemove(k) PROVE A
    BY <2>4 DEF DoRemove, Call
  <2>5. ASSUME NEW c \in Client, DoUnreserve(c) PROVE A
    BY <2>5 DEF DoUnreserve, Call
  <2> HIDE DEF A
  <2> QED
    BY <2>1, <2>2, <2>3, <2>4, <2>5 DEF Next
<1> QED
  BY <1>1, Invariance, PTL DEF Spec, ReserveExact

\* A step that evicts from the cold end, the keys K that it is about apart.
LEMMA ColdEndStep ==
    ASSUME IndexInv(lru), IndexInv(lru'), NEW K, \A x : Subject(x) <=> x \in K,
           ColdEnd(lru, lru', K)
    PROVE  FromColdEnd
<1> SUFFICES ASSUME NEW i \in DOMAIN lru.ll, NEW j \in DOMAIN lru.ll, i < j,
                    ~Subject(lru.ll[j]), lru.ll[j] \in DOMAIN lru'.cache
             PROVE  /\ lru.ll[i] \in DOMAIN lru'.cache
                    /\ ~Subject(lru.ll[i]) =>
                         PositionOf(lru'.ll, lru.ll[i]) < PositionOf(lru'.ll, lru.ll[j])
  BY DEF FromColdEnd
<1> DEFINE x == lru.ll[i]
           y == lru.ll[j]
<1>1. Precedes(lru.ll, x, y)
  BY DEF Precedes
<1> HIDE DEF x, y
<1>2. x \in DOMAIN lru'.cache /\ (x \notin K => Precedes(lru'.ll, x, y))
  BY <1>1 DEF ColdEnd, x, y
<1>3. IsInjective(lru'.ll)
  BY DEF IndexInv, IndexShape
<1>4. x \notin K => PositionOf(lru'.ll, x) < PositionOf(lru'.ll, y)
  BY <1>2, <1>3, PrecedesPosition
<1> QED
  BY <1>2, <1>4 DEF x, y

\* A step that leaves no room for the last key it evicts.
LEMMA NoRoomStep ==
    ASSUME IndexInv(lru), NEW K, \A x : Subject(x) <=> x \in K, NoRoom(lru, lru', K)
    PROVE  NoMoreThanNeeded
<1> SUFFICES ASSUME NEW i \in DOMAIN lru.ll, ~Subject(lru.ll[i]),
                    lru.ll[i] \notin DOMAIN lru'.cache,
                    \A j \in DOMAIN lru.ll :
                       j < i => lru.ll[j] \in DOMAIN lru'.cache \/ Subject(lru.ll[j])
             PROVE  lru'.currentSize + DiskUsage(lru.cache)[lru.ll[i]] > MaxSize
  BY DEF NoMoreThanNeeded
<1> DEFINE x == lru.ll[i]
<1>1. x \in Range(lru.ll)
  BY InRange
<1>2. ASSUME NEW z, Precedes(lru.ll, z, x) PROVE z \in DOMAIN lru'.cache \cup K
  <2>1. PICK p \in DOMAIN lru.ll, q \in DOMAIN lru.ll :
           p < q /\ lru.ll[p] = z /\ lru.ll[q] = lru.ll[i]
    BY <1>2 DEF Precedes
  <2>2. q = i
    BY <2>1 DEF IndexInv, IndexShape, IsInjective
  <2> QED
    BY <2>1, <2>2
<1> HIDE DEF x
<1> QED
  BY <1>1, <1>2 DEF NoRoom, x

\* Whatever the sequence of calls, Add and Reserve evict the least recently used
\* items, and no more of them than they need.
THEOREM EvictionIsMinimal == Spec => EvictsOldestAsNeeded
<1> DEFINE A == FromColdEnd /\ NoMoreThanNeeded
<1>1. IInv /\ [Next]_vars => [A]_vars
  <2> SUFFICES ASSUME IInv, Next PROVE A
    BY DEF vars
  <2>1. IndexInv(lru) /\ IndexInv(lru')
    BY NextIInv DEF IInv
  <2>2. ASSUME NEW k \in Key, NEW item \in Item, DoAdd(k, item) PROVE A
    <3>1. lru' = Add(lru, k, item).lru /\ last'.op = "Add" /\ last'.arg = k
      BY <2>2 DEF DoAdd, Call
    <3>2. ColdEnd(lru, lru', {k}) /\ (k \in DOMAIN lru'.cache => NoRoom(lru, lru', {k}))
      BY <2>1, <3>1, AddEvicts
    <3>3. \A x : Subject(x) <=> x \in {k}
      BY <3>1 DEF Subject
    <3>4. FromColdEnd
      BY <2>1, <3>2, <3>3, ColdEndStep
    <3>5. CASE k \in DOMAIN lru'.cache
      BY <2>1, <3>2, <3>3, <3>4, <3>5, NoRoomStep
    <3>6. CASE k \notin DOMAIN lru'.cache
      BY <3>1, <3>4, <3>6 DEF NoMoreThanNeeded
    <3> QED
      BY <3>5, <3>6
  <2>3. ASSUME NEW k \in Key, DoGet(k) PROVE A
    <3>1. lru' = Get(lru, k) /\ last'.op = "Get" /\ last'.arg = k
      BY <2>3 DEF DoGet, Call
    <3>2. \A x : Subject(x) <=> x \in {k}
      BY <3>1 DEF Subject
    <3>3. ColdEnd(lru, lru', {k})
      BY <2>1, <3>1, GetEvicts
    <3>4. FromColdEnd
      BY <2>1, <3>2, <3>3, ColdEndStep
    <3> QED
      BY <3>1, <3>4 DEF NoMoreThanNeeded
  <2>4. ASSUME NEW k \in Key, DoRemove(k) PROVE A
    BY <2>4 DEF DoRemove, Call, FromColdEnd, NoMoreThanNeeded
  <2>5. ASSUME NEW c \in Client, NEW size \in Size, DoReserve(c, size) PROVE A
    <3>1. lru' = Reserve(lru, size).lru /\ last'.op = "Reserve"
      BY <2>5 DEF DoReserve, Call
    <3>2. size \in Int /\ size <= MaxInt
      BY ClientAssumption, SizeAssumption
    <3>3. ColdEnd(lru, lru', {}) /\ NoRoom(lru, lru', {})
      BY <2>1, <3>1, <3>2, ReserveEvicts
    <3>4. \A x : Subject(x) <=> x \in {}
      BY <3>1 DEF Subject
    <3> QED
      BY <2>1, <3>3, <3>4, ColdEndStep, NoRoomStep
  <2>6. ASSUME NEW c \in Client, DoUnreserve(c) PROVE A
    <3> DEFINE n == held[c]
               m == [lru EXCEPT !.currentSize = @ - n, !.reservedSize = @ - n]
    <3>1. lru' = Unreserve(lru, n).lru /\ last'.op = "Unreserve"
      BY <2>6 DEF DoUnreserve, Call
    <3>2. m.ll = lru.ll /\ m.cache = lru.cache
      <4> HIDE DEF n
      <4> QED BY <2>1 DEF IndexInv, IndexShape, LRUType
    <3> HIDE DEF m
    <3>3. Unreserve(lru, n).lru \in {lru, m}
      BY DEF Unreserve, m
    <3>4. lru'.ll = lru.ll /\ lru'.cache = lru.cache
      BY <3>1, <3>2, <3>3
    <3>5. ColdEnd(lru, lru', {})
      BY <2>1, <3>4, SameIndex DEF ColdEnd
    <3>6. \A x : Subject(x) <=> x \in {}
      BY <3>1 DEF Subject
    <3>7. FromColdEnd
      BY <2>1, <3>5, <3>6, ColdEndStep
    <3> QED
      BY <3>1, <3>7 DEF NoMoreThanNeeded
  <2> HIDE DEF A
  <2> QED
    BY <2>2, <2>3, <2>4, <2>5, <2>6 DEF Next
<1> QED
  BY <1>1, Invariance, PTL DEF Spec, EvictsOldestAsNeeded
=============================================================================
