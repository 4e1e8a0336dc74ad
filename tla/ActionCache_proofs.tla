------------------------- MODULE ActionCache_proofs -------------------------
(***************************************************************************)
(* The safety of action results, for any number of calls of every kind, any*)
(* results, blobs, sizes and limits: answers name only blobs that were there,*)
(* inlining is bounded, closures are complete, the capture budget is exact,*)
(* and what is confirmed is stored.                                        *)
(***************************************************************************)
EXTENDS ActionCache, Sums_proofs

\* What a digest or contents can be, and the values of a call.
AnyBlob == Blob \cup {EmptyBlob, NoBlob}
CallType ==
    [kind : Get \cup Update,
     pc : {"start", "trees", "validate", "inline", "putAC", "emit", "putCAS",
           "returned"},
     ar : Result \cup {NoResult}, slots : Seq(Slot), want : Want \cup {{}},
     todo : SUBSET AnyBlob, leaves : SUBSET AnyBlob, sized : SUBSET AnyBlob,
     rest : Seq(Nat), soFar : Nat, acked : SUBSET AnyBlob, holds : BOOLEAN,
     emitted : BOOLEAN, excused : SUBSET AnyBlob,
     end : {"none", "ok", "error", "notfound"}]

\* A call that has not started, or that has failed: it has seen nothing.
Idle(q) == q.pc = "start" \/ q.end \in {"error", "notfound"}

\* Which kind of call is where, and what it keeps there.
PhaseInv(q) ==
    /\ q.pc = "start" => q = NewCall(q.kind)
    /\ ~Idle(q) => q.ar \in Result
    /\ q.end = "none" <=> q.pc # "returned"
    /\ q.pc \in {"trees", "validate"} =>
          /\ q.kind \in {"grpcGet", "http"}
          /\ q.slots = Slots(q.ar)
          /\ q.leaves = Pending(q.ar) \cup q.ar.dirs
          /\ q.soFar = 0
    /\ q.pc = "inline" => q.kind = "grpcGet"
    /\ q.pc \in {"putAC", "emit"} => q.kind \in {"grpcUpdate", "httpPut"}
    /\ q.pc = "putCAS" => q.kind \in {"grpcUpdate", "batch"}
    /\ q.holds => q.pc \in {"putAC", "emit"}

\* The blobs that a call has looked for were there; sn is what it has seen.
SeenInv(q, sn) ==
    /\ Idle(q) => sn = {}
    /\ ~Idle(q) => EmptyBlob \in sn
    /\ q.sized \subseteq sn
    /\ q.pc = "trees" => q.ar.dirs \ q.todo \subseteq sn
    /\ q.pc \in {"validate", "inline"} => q.ar.dirs \subseteq sn
    /\ q.pc = "validate" => Pending(q.ar) \ q.todo \subseteq sn \cup q.excused
    /\ q.pc = "inline" =>
          Pending(q.ar) \cup ByDigest(q.slots) \subseteq sn \cup q.excused
    /\ q.kind \in {"grpcGet", "http"} /\ q.end = "ok" =>
          ByDigest(q.slots) \cup q.ar.dirs \cup TreeBlobs(q.ar)
            \subseteq sn \cup q.excused

\* The closure, once emitted, and while the leaves of a write are looked up.
ClosureInv(q, sn) ==
    /\ q.emitted =>
          /\ q.pc \in {"inline", "putCAS", "returned"}
          /\ Named(q.ar) \ InlinedFiles(q.ar) \subseteq q.leaves
          /\ q.leaves \subseteq sn
    /\ q.pc = "emit" =>
          /\ q.ar.dirs = {}
          /\ q.leaves = Pending(q.ar)
          /\ q.leaves \ q.todo \subseteq sn

\* The slots that maybeInline has visited.
Visited(q) == 1 .. Len(q.slots) - Len(q.rest)

\* What is inlined so far was asked for, and is counted.
InlineInv(q) ==
    /\ q.pc = "inline" =>
          /\ Len(q.rest) <= Len(q.slots)
          /\ \A j \in 1 .. Len(q.rest) : q.rest[j] = Len(q.slots) - Len(q.rest) + j
          /\ Filled(q.slots) \cap Visited(q) \subseteq q.want
          /\ SumOver(Bytes(q.slots), Visited(q)) = q.soFar
          /\ q.soFar <= MaxInline
    /\ q.kind = "grpcGet" /\ q.end = "ok" =>
          /\ Filled(q.slots) \subseteq q.want
          /\ SumOver(Bytes(q.slots), DOMAIN q.slots) <= MaxInline

\* The blobs of a result that its contents stand for.
ContentBlob(ar, i) == DigestOf(Slots(ar)[i])

\* What is confirmed was stored, and nothing is forgotten.
StoreInv(q, sn) ==
    /\ q.acked \ q.excused \subseteq sn
    /\ q.pc = "putCAS" => \A j \in 1 .. Len(q.rest) : q.rest[j] \in DOMAIN Slots(q.ar)
    /\ q.pc = "putCAS" /\ q.kind = "grpcUpdate" =>
          \A i \in Contents(q.ar) : \/ ContentBlob(q.ar, i) \in q.acked
                                    \/ \E j \in 1 .. Len(q.rest) : q.rest[j] = i
    /\ q.kind = "grpcUpdate" /\ q.end = "ok" =>
          {ContentBlob(q.ar, i) : i \in Contents(q.ar)} \subseteq q.acked

CallInv(q, sn) ==
    /\ q \in CallType
    /\ PhaseInv(q)
    /\ SeenInv(q, sn)
    /\ ClosureInv(q, sn)
    /\ InlineInv(q)
    /\ StoreInv(q, sn)

\* The inductive invariant.
ActionInv ==
    /\ ac \in Result \cup {NoResult}
    /\ DOMAIN call = Call
    /\ \A c \in Call : CallInv(call[c], seen[c])
    /\ BudgetAccounted

-----------------------------------------------------------------------------

\* The slots of a result: stdout, stderr, then the files.
LEMMA SlotsOf ==
    ASSUME NEW ar \in Result
    PROVE  /\ Slots(ar) \in Seq(Slot)
           /\ Len(Slots(ar)) = Len(ar.files) + 2
           /\ Len(ar.files) \in Nat
           /\ DOMAIN ar.files = 1 .. Len(ar.files)
           /\ Slots(ar)[1] = ar.stdout
           /\ Slots(ar)[2] = ar.stderr
           /\ \A i \in 1 .. Len(ar.files) : Slots(ar)[i + 2] = ar.files[i]
<1> DEFINE F == Slot
<1>1. ar.stdout \in F /\ ar.stderr \in F /\ ar.files \in Seq(F)
  BY ActionAssumption
<1> HIDE DEF F
<1>2. /\ Slots(ar) \in Seq(F)
      /\ Len(Slots(ar)) = Len(ar.files) + 2
      /\ Len(ar.files) \in Nat
      /\ DOMAIN ar.files = 1 .. Len(ar.files)
      /\ Slots(ar)[1] = ar.stdout
      /\ Slots(ar)[2] = ar.stderr
      /\ \A i \in 1 .. Len(ar.files) : Slots(ar)[i + 2] = ar.files[i]
  BY <1>1 DEF Slots
<1> QED
  BY <1>2 DEF F

\* What a slot holds.
LEMMA SlotFields ==
    ASSUME NEW s \in Slot
    PROVE  s.raw \in AnyBlob /\ s.digest \in AnyBlob /\ DigestOf(s) \in AnyBlob
  BY DEF Slot, AnyBlob, DigestOf

\* The length of anything is a number, and nothing has none.
LEMMA LengthType ==
    ASSUME NEW b \in AnyBlob
    PROVE  Length(b) \in Nat /\ Length(NoBlob) = 0
  BY ActionAssumption DEF AnyBlob, Length

\* The blobs to be checked are blobs; they include whatever the result names and
\* has no contents for.
LEMMA PendingBlobs ==
    ASSUME NEW ar \in Result
    PROVE  /\ Pending(ar) \subseteq AnyBlob
           /\ ar.dirs \subseteq AnyBlob
           /\ ByDigest(Slots(ar)) \subseteq Pending(ar)
           /\ TreeBlobs(ar) \subseteq Pending(ar)
           /\ Named(ar) \ InlinedFiles(ar) \subseteq Pending(ar) \cup ar.dirs
<1>1. /\ ar.stdout \in Slot /\ ar.stderr \in Slot /\ ar.files \in Seq(Slot)
      /\ ar.dirs \subseteq DOMAIN TreeFiles
  BY ActionAssumption
<1>2. \A i \in DOMAIN ar.files : ar.files[i].digest \in AnyBlob
  <2>1. \A i \in DOMAIN ar.files : ar.files[i] \in Slot
    BY <1>1
  <2> QED
    BY <2>1, SlotFields
<1>3. TreeBlobs(ar) \subseteq AnyBlob
  BY <1>1, ActionAssumption DEF AnyBlob, TreeBlobs
<1>4. ar.dirs \subseteq AnyBlob
  BY <1>1, ActionAssumption DEF AnyBlob
<1>5. Pending(ar) \subseteq AnyBlob
  BY <1>1, <1>2, <1>3, SlotFields DEF Pending
<1>6. ByDigest(Slots(ar)) \subseteq Pending(ar)
  <2> SUFFICES ASSUME NEW b \in ByDigest(Slots(ar)) PROVE b \in Pending(ar)
    OBVIOUS
  <2>1. PICK i \in DOMAIN Slots(ar) :
           Slots(ar)[i].raw = NoBlob /\ Slots(ar)[i].digest = b /\ b # NoBlob
    BY DEF ByDigest, Filled
  <2>2. i \in 1 .. Len(ar.files) + 2 /\ Len(ar.files) \in Nat
    BY SlotsOf
  <2>3. CASE i = 1
    BY <2>1, <2>3, SlotsOf DEF Pending
  <2>4. CASE i = 2
    BY <2>1, <2>4, SlotsOf DEF Pending
  <2>5. CASE i > 2
    <3>1. i - 2 \in 1 .. Len(ar.files) /\ (i - 2) + 2 = i
      BY <2>2, <2>5
    <3>2. i - 2 \in DOMAIN ar.files /\ Slots(ar)[i] = ar.files[i - 2]
      BY <3>1, SlotsOf
    <3> QED
      BY <2>1, <3>2 DEF Pending
  <2> QED
    BY <2>2, <2>3, <2>4, <2>5
<1>7. ASSUME NEW b \in Named(ar) \ InlinedFiles(ar) PROVE b \in Pending(ar) \cup ar.dirs
  <2>1. CASE b \in ar.dirs \cup TreeBlobs(ar)
    BY <2>1 DEF Pending
  <2>2. ASSUME NEW i \in DOMAIN Slots(ar), Slots(ar)[i].digest = b, b # NoBlob
        PROVE  b \in Pending(ar)
    <3>1. i \in 1 .. Len(ar.files) + 2 /\ Len(ar.files) \in Nat
      BY SlotsOf
    <3>2. CASE i = 1 \/ i = 2
      BY <2>2, <3>2, SlotsOf DEF Pending
    <3>3. CASE i > 2
      <4>1. i - 2 \in 1 .. Len(ar.files) /\ (i - 2) + 2 = i
        BY <3>1, <3>3
      <4>2. i - 2 \in DOMAIN ar.files /\ Slots(ar)[i] = ar.files[i - 2]
        BY <4>1, SlotsOf
      <4>3. ar.files[i - 2].raw = NoBlob
        BY <1>7, <2>2, <4>2 DEF InlinedFiles
      <4> QED
        BY <2>2, <4>2, <4>3 DEF Pending
    <3> QED
      BY <3>1, <3>2, <3>3
  <2> QED
    BY <1>7, <2>1, <2>2 DEF Named
<1> QED
  BY <1>4, <1>5, <1>6, <1>7 DEF Pending

\* The order of UpdateActionResult has every slot of the result, and no other.
LEMMA StoreOrderSlots ==
    ASSUME NEW ar \in Result
    PROVE  LET o == StoreOrder(ar) IN
           /\ o \in Seq(Nat)
           /\ \A j \in 1 .. Len(o) : o[j] \in DOMAIN Slots(ar)
           /\ \A i \in DOMAIN Slots(ar) : \E j \in 1 .. Len(o) : o[j] = i
<1> DEFINE n == Len(ar.files)
           f == [i \in 1 .. n |-> i + 2]
           o == f \o <<1, 2>>
<1>1. n \in Nat /\ DOMAIN ar.files = 1 .. n /\ DOMAIN Slots(ar) = 1 .. n + 2
  BY SlotsOf
<1>2. StoreOrder(ar) = o
  BY <1>1 DEF StoreOrder
<1> HIDE DEF n
<1>3. f \in Seq(Nat) /\ Len(f) = n /\ \A i \in 1 .. n : f[i] = i + 2
  BY <1>1
<1> HIDE DEF f
<1>4. /\ o \in Seq(Nat) /\ Len(o) = n + 2
      /\ \A j \in 1 .. n : o[j] = j + 2
      /\ o[n + 1] = 1 /\ o[n + 2] = 2
  BY <1>1, <1>3
<1> HIDE DEF o
<1>5. ASSUME NEW j \in 1 .. Len(o) PROVE o[j] \in 1 .. n + 2
  <2>1. j \in 1 .. n \/ j = n + 1 \/ j = n + 2
    BY <1>1, <1>4
  <2>2. CASE j \in 1 .. n
    <3>1. o[j] = j + 2
      BY <1>4, <2>2
    <3> QED
      BY <1>1, <2>2, <3>1
  <2>3. CASE j = n + 1 \/ j = n + 2
    <3>1. o[j] = 1 \/ o[j] = 2
      BY <1>4, <2>3
    <3> QED
      BY <1>1, <3>1
  <2> QED
    BY <2>1, <2>2, <2>3
<1>6. ASSUME NEW i \in 1 .. n + 2 PROVE \E j \in 1 .. Len(o) : o[j] = i
  <2>0. n + 1 \in 1 .. Len(o) /\ n + 2 \in 1 .. Len(o)
    BY <1>1, <1>4
  <2>1. CASE i = 1
    BY <1>4, <2>0, <2>1
  <2>2. CASE i = 2
    BY <1>4, <2>0, <2>2
  <2>3. CASE i > 2
    <3>1. i - 2 \in 1 .. n /\ (i - 2) + 2 = i
      BY <1>1, <2>3
    <3>2. i - 2 \in 1 .. Len(o) /\ o[i - 2] = i
      BY <1>1, <1>4, <3>1
    <3> QED
      BY <3>2
  <2> QED
    BY <1>1, <2>1, <2>2, <2>3
<1> QED
  BY <1>1, <1>2, <1>4, <1>5, <1>6

-----------------------------------------------------------------------------
(***************************************************************************)
(* What each step makes of the state p of its call, which has seen sn.     *)
(***************************************************************************)

\* What a call has seen it has also seen later on.
LEMMA MoreSeen ==
    ASSUME NEW q, NEW sn, NEW more, CallInv(q, sn), sn \subseteq more,
           Idle(q) => more = {}
    PROVE  CallInv(q, more)
  BY DEF CallInv, SeenInv, ClosureInv, StoreInv

\* A blob has been looked at and was there.
AfterFound(p, b, sized) == [p EXCEPT !.todo = @ \ {b}, !.sized = @ \cup sized]
LEMMA FoundKeeps ==
    ASSUME NEW p, NEW sn, CallInv(p, sn), p.pc \in {"trees", "validate", "emit"},
           NEW b \in p.todo, NEW sized, sized \subseteq {b}, b \in sn
    PROVE  LET q == AfterFound(p, b, sized) IN
           CallInv(q, sn) /\ ~Idle(q) /\ q.holds = p.holds /\ q.ar = p.ar
<1> DEFINE todo == p.todo \ {b}
           size == p.sized \cup sized
           q == [p EXCEPT !.todo = todo, !.sized = size]
<1>1. todo \in SUBSET AnyBlob /\ size \in SUBSET AnyBlob
  BY DEF CallInv, CallType
<1> HIDE DEF todo, size
<1>2. /\ q \in CallType
      /\ q.todo = todo /\ q.sized = size
      /\ q.kind = p.kind /\ q.pc = p.pc /\ q.ar = p.ar /\ q.slots = p.slots
      /\ q.want = p.want /\ q.leaves = p.leaves /\ q.rest = p.rest
      /\ q.soFar = p.soFar /\ q.acked = p.acked /\ q.holds = p.holds
      /\ q.emitted = p.emitted /\ q.excused = p.excused /\ q.end = p.end
  BY <1>1 DEF CallInv, CallType
<1> HIDE DEF q
<1>3. PhaseInv(q) /\ ~Idle(q)
  BY <1>2 DEF CallInv, PhaseInv, Idle
<1>4. SeenInv(q, sn)
  BY <1>2 DEF CallInv, PhaseInv, SeenInv, Idle, todo, size
<1>5. ClosureInv(q, sn)
  BY <1>2 DEF CallInv, ClosureInv, todo
<1>6. InlineInv(q) /\ StoreInv(q, sn)
  BY <1>2 DEF CallInv, InlineInv, StoreInv, PhaseInv
<1> QED
  BY <1>2, <1>3, <1>4, <1>5, <1>6 DEF CallInv, AfterFound, q, todo, size

\* The fields of a call that has not started.
LEMMA NewCallFields ==
    ASSUME NEW kind \in Get \cup Update
    PROVE  LET q == NewCall(kind) IN
           /\ q \in CallType
           /\ q.kind = kind /\ q.pc = "start" /\ q.ar = NoResult /\ q.slots = <<>>
           /\ q.want = {} /\ q.todo = {} /\ q.leaves = {} /\ q.sized = {}
           /\ q.rest = <<>> /\ q.soFar = 0 /\ q.acked = {} /\ q.holds = FALSE
           /\ q.emitted = FALSE /\ q.excused = {} /\ q.end = "none"
<1> DEFINE no == FALSE
           q == [kind |-> kind, pc |-> "start", ar |-> NoResult, slots |-> <<>>,
                 want |-> {}, todo |-> {}, leaves |-> {}, sized |-> {},
                 rest |-> <<>>, soFar |-> 0, acked |-> {}, holds |-> no,
                 emitted |-> no, excused |-> {}, end |-> "none"]
<1>1. no \in BOOLEAN
  OBVIOUS
<1>2. NewCall(kind) = q
  BY Zenon DEF NewCall
<1> HIDE DEF no
<1>3. /\ q.kind = kind /\ q.pc = "start" /\ q.ar = NoResult /\ q.slots = <<>>
      /\ q.want = {} /\ q.todo = {} /\ q.leaves = {} /\ q.sized = {}
      /\ q.rest = <<>> /\ q.soFar = 0 /\ q.acked = {} /\ q.holds = no
      /\ q.emitted = no /\ q.excused = {} /\ q.end = "none"
  OBVIOUS
<1>4. q \in CallType
  BY <1>1 DEF CallType
<1> HIDE DEF q
<1> QED
  BY <1>2, <1>3, <1>4 DEF no

\* A call that has not started satisfies the invariant.
LEMMA NewCallKeeps ==
    ASSUME NEW kind \in Get \cup Update
    PROVE  CallInv(NewCall(kind), {})
<1> DEFINE q == NewCall(kind)
<1>1. /\ q \in CallType
      /\ q.kind = kind /\ q.pc = "start" /\ q.sized = {} /\ q.acked = {}
      /\ q.holds = FALSE /\ q.emitted = FALSE /\ q.end = "none"
  BY NewCallFields
<1>2. q = NewCall(q.kind)
  BY <1>1
<1> HIDE DEF q
<1>3. PhaseInv(q)
  BY <1>1, <1>2 DEF PhaseInv, Idle
<1>4. SeenInv(q, {}) /\ ClosureInv(q, {})
  BY <1>1 DEF SeenInv, ClosureInv, Idle
<1>5. InlineInv(q) /\ StoreInv(q, {})
  BY <1>1 DEF InlineInv, StoreInv
<1> QED
  BY <1>1, <1>3, <1>4, <1>5 DEF CallInv, q

\* The fields of a call where it starts.
LEMMA Unstarted ==
    ASSUME NEW p, NEW sn, CallInv(p, sn), p.pc = "start"
    PROVE  /\ p \in CallType /\ p.sized = {} /\ p.acked = {} /\ p.soFar = 0
           /\ p.holds = FALSE /\ p.emitted = FALSE /\ p.end = "none"
<1>1. PICK kind \in Get \cup Update : p = NewCall(kind)
  <2>1. p = NewCall(p.kind) /\ p \in CallType
    BY DEF CallInv, PhaseInv
  <2>2. p.kind \in Get \cup Update
    BY <2>1 DEF CallType
  <2> QED
    BY <2>1, <2>2
<1> QED
  BY <1>1, NewCallFields

\* A call that fails keeps nothing, not even its part of the budget.
LEMMA FailKeeps ==
    ASSUME NEW kind \in Get \cup Update, NEW end \in {"error", "notfound"}
    PROVE  LET q == [NewCall(kind) EXCEPT !.pc = "returned", !.end = end] IN
           CallInv(q, {}) /\ Idle(q) /\ q.holds = FALSE
<1> DEFINE n == NewCall(kind)
           q == [n EXCEPT !.pc = "returned", !.end = end]
<1>1. /\ n \in CallType
      /\ n.kind = kind /\ n.sized = {} /\ n.acked = {}
      /\ n.holds = FALSE /\ n.emitted = FALSE
  BY NewCallFields
<1> HIDE DEF n
<1>2. /\ q \in CallType
      /\ q.kind = kind /\ q.pc = "returned" /\ q.sized = n.sized /\ q.acked = n.acked
      /\ q.holds = n.holds /\ q.emitted = n.emitted /\ q.end = end
  BY <1>1 DEF CallType
<1> HIDE DEF q
<1>3. PhaseInv(q) /\ Idle(q)
  BY <1>1, <1>2 DEF PhaseInv, Idle
<1>4. SeenInv(q, {}) /\ ClosureInv(q, {})
  BY <1>1, <1>2 DEF SeenInv, ClosureInv, Idle
<1>5. InlineInv(q) /\ StoreInv(q, {})
  BY <1>1, <1>2 DEF InlineInv, StoreInv
<1> QED
  BY <1>1, <1>2, <1>3, <1>4, <1>5 DEF CallInv, q, n

\* GetActionResult has read the stored result.
LEMMA StartGetKeeps ==
    ASSUME NEW p, NEW sn, NEW t, CallInv(p, t), p.pc = "start", p.kind \in Get,
           NEW ar \in Result, NEW want \in Want \cup {{}}, EmptyBlob \in sn
    PROVE  LET q == [p EXCEPT
                 !.ar = ar, !.slots = Slots(ar), !.want = want,
                 !.pc = IF p.kind = "nodepsGet" THEN "returned" ELSE "trees",
                 !.end = IF p.kind = "nodepsGet" THEN "ok" ELSE "none",
                 !.todo = ar.dirs, !.leaves = Pending(ar) \cup ar.dirs]
           IN CallInv(q, sn) /\ ~Idle(q) /\ q.holds = FALSE
<1> DEFINE slots == Slots(ar)
           pc == IF p.kind = "nodepsGet" THEN "returned" ELSE "trees"
           end == IF p.kind = "nodepsGet" THEN "ok" ELSE "none"
           todo == ar.dirs
           leaves == Pending(ar) \cup ar.dirs
           q == [p EXCEPT !.ar = ar, !.slots = slots, !.want = want, !.pc = pc,
                          !.end = end, !.todo = todo, !.leaves = leaves]
<1>1. /\ slots \in Seq(Slot)
      /\ todo \in SUBSET AnyBlob /\ leaves \in SUBSET AnyBlob
  BY SlotsOf, PendingBlobs
<1>2. /\ pc \in {"trees", "returned"} /\ end \in {"none", "ok"}
      /\ end = "none" <=> pc # "returned"
      /\ pc = "returned" <=> p.kind = "nodepsGet"
  OBVIOUS
<1>3. /\ p \in CallType /\ p.sized = {} /\ p.acked = {} /\ p.soFar = 0
      /\ p.holds = FALSE /\ p.emitted = FALSE
  BY Unstarted
<1> HIDE DEF slots, pc, end, todo, leaves
<1>4. /\ q \in CallType
      /\ q.ar = ar /\ q.slots = slots /\ q.want = want /\ q.pc = pc /\ q.end = end
      /\ q.todo = todo /\ q.leaves = leaves /\ q.kind = p.kind /\ q.sized = p.sized
      /\ q.soFar = p.soFar /\ q.acked = p.acked /\ q.holds = p.holds
      /\ q.emitted = p.emitted
  BY <1>1, <1>2, <1>3 DEF CallType
<1> HIDE DEF q
<1>5. PhaseInv(q) /\ ~Idle(q)
  BY <1>2, <1>3, <1>4 DEF PhaseInv, Idle, Get, slots, leaves
<1>6. SeenInv(q, sn)
  BY <1>2, <1>3, <1>4, <1>5 DEF SeenInv, todo
<1>7. ClosureInv(q, sn) /\ InlineInv(q) /\ StoreInv(q, sn)
  BY <1>2, <1>3, <1>4 DEF ClosureInv, InlineInv, StoreInv, Get, Update
<1> QED
  BY <1>3, <1>4, <1>5, <1>6, <1>7 DEF CallInv, q, slots, pc, end, todo, leaves

\* All trees have been read.
LEMMA TreesReadKeeps ==
    ASSUME NEW p, NEW sn, CallInv(p, sn), p.pc = "trees", p.todo = {}
    PROVE  LET q == [p EXCEPT !.pc = "validate", !.todo = Pending(p.ar)] IN
           CallInv(q, sn) /\ ~Idle(q) /\ q.holds = p.holds /\ q.ar = p.ar
<1> DEFINE todo == Pending(p.ar)
           q == [p EXCEPT !.pc = "validate", !.todo = todo]
<1>0. p.ar \in Result /\ p.end = "none"
  BY DEF CallInv, PhaseInv, Idle
<1>1. todo \in SUBSET AnyBlob
  BY <1>0, PendingBlobs
<1> HIDE DEF todo
<1>2. /\ q \in CallType
      /\ q.todo = todo /\ q.sized = p.sized
      /\ q.kind = p.kind /\ q.pc = "validate" /\ q.ar = p.ar /\ q.slots = p.slots
      /\ q.want = p.want /\ q.leaves = p.leaves /\ q.rest = p.rest
      /\ q.soFar = p.soFar /\ q.acked = p.acked /\ q.holds = p.holds
      /\ q.emitted = p.emitted /\ q.excused = p.excused /\ q.end = p.end
  BY <1>1 DEF CallInv, CallType
<1> HIDE DEF q
<1>3. PhaseInv(q) /\ ~Idle(q)
  BY <1>0, <1>2 DEF CallInv, PhaseInv, Idle
<1>4. SeenInv(q, sn)
  BY <1>0, <1>2, <1>3 DEF CallInv, PhaseInv, SeenInv, Idle, todo
<1>5. ClosureInv(q, sn)
  BY <1>2 DEF CallInv, ClosureInv
<1>6. InlineInv(q) /\ StoreInv(q, sn)
  BY <1>0, <1>2 DEF CallInv, InlineInv, StoreInv, PhaseInv
<1> QED
  BY <1>2, <1>3, <1>4, <1>5, <1>6 DEF CallInv, q, todo

\* The race of a fail-fast search lets a blob through.
LEMMA ExcusedKeeps ==
    ASSUME NEW p, NEW sn, CallInv(p, sn), p.pc = "validate", NEW b \in p.todo
    PROVE  LET q == [p EXCEPT !.todo = @ \ {b}, !.excused = @ \cup {b}] IN
           CallInv(q, sn) /\ ~Idle(q) /\ q.holds = p.holds /\ q.ar = p.ar
<1> DEFINE todo == p.todo \ {b}
           excused == p.excused \cup {b}
           q == [p EXCEPT !.todo = todo, !.excused = excused]
<1>1. todo \in SUBSET AnyBlob /\ excused \in SUBSET AnyBlob
  BY DEF CallInv, CallType
<1> HIDE DEF todo, excused
<1>2. /\ q \in CallType
      /\ q.todo = todo /\ q.sized = p.sized
      /\ q.kind = p.kind /\ q.pc = p.pc /\ q.ar = p.ar /\ q.slots = p.slots
      /\ q.want = p.want /\ q.leaves = p.leaves /\ q.rest = p.rest
      /\ q.soFar = p.soFar /\ q.acked = p.acked /\ q.holds = p.holds
      /\ q.emitted = p.emitted /\ q.excused = excused /\ q.end = p.end
  BY <1>1 DEF CallInv, CallType
<1> HIDE DEF q
<1>3. PhaseInv(q) /\ ~Idle(q)
  BY <1>2 DEF CallInv, PhaseInv, Idle
<1>4. SeenInv(q, sn)
  BY <1>2 DEF CallInv, PhaseInv, SeenInv, Idle, todo, excused
<1>5. ClosureInv(q, sn)
  BY <1>2 DEF CallInv, ClosureInv, PhaseInv
<1>6. InlineInv(q) /\ StoreInv(q, sn)
  BY <1>2 DEF CallInv, InlineInv, StoreInv, PhaseInv, excused
<1> QED
  BY <1>2, <1>3, <1>4, <1>5, <1>6 DEF CallInv, q, todo, excused

\* All blobs were there: HTTP is done, and gRPC goes on to inline.  The closure is
\* emitted only if the size of every leaf is known.
LEMMA ValidatedKeeps ==
    ASSUME NEW p, NEW sn, CallInv(p, sn), p.pc = "validate", p.todo = {},
           NEW emitted \in BOOLEAN,
           emitted => p.leaves \ {EmptyBlob} \subseteq p.sized
    PROVE  LET http == p.kind # "grpcGet"
               q == [p EXCEPT !.emitted = emitted,
                              !.pc = IF http THEN "returned" ELSE "inline",
                              !.end = IF http THEN "ok" ELSE "none",
                              !.rest = [i \in DOMAIN Slots(p.ar) |-> i]]
           IN CallInv(q, sn) /\ ~Idle(q) /\ q.holds = p.holds /\ q.ar = p.ar
<1> DEFINE pc == IF p.kind # "grpcGet" THEN "returned" ELSE "inline"
           end == IF p.kind # "grpcGet" THEN "ok" ELSE "none"
           rest == [i \in DOMAIN Slots(p.ar) |-> i]
           q == [p EXCEPT !.emitted = emitted, !.pc = pc, !.end = end, !.rest = rest]
<1>1. /\ p.ar \in Result /\ p.end = "none" /\ p.kind \in {"grpcGet", "http"}
      /\ p.holds = FALSE /\ p.slots = Slots(p.ar) /\ p.soFar = 0
      /\ p.leaves = Pending(p.ar) \cup p.ar.dirs
  BY DEF CallInv, CallType, PhaseInv, Idle
<1>2. /\ rest \in Seq(Nat) /\ Len(rest) = Len(Slots(p.ar))
      /\ \A j \in 1 .. Len(rest) : rest[j] = j
      /\ Len(rest) \in Nat
  <2>1. Slots(p.ar) \in Seq(Slot)
    BY <1>1, SlotsOf
  <2> DEFINE n == Len(Slots(p.ar))
  <2>2. n \in Nat /\ DOMAIN Slots(p.ar) = 1 .. n
    BY <2>1
  <2> HIDE DEF n
  <2>3. rest = [i \in 1 .. n |-> i]
    BY <2>2
  <2> QED
    BY <2>2, <2>3 DEF n
<1>3. /\ pc \in {"inline", "returned"} /\ end \in {"none", "ok"}
      /\ end = "none" <=> pc # "returned"
      /\ pc = "inline" <=> p.kind = "grpcGet"
  OBVIOUS
<1> HIDE DEF pc, end, rest
<1>4. /\ q \in CallType
      /\ q.todo = p.todo /\ q.sized = p.sized
      /\ q.kind = p.kind /\ q.pc = pc /\ q.ar = p.ar /\ q.slots = p.slots
      /\ q.want = p.want /\ q.leaves = p.leaves /\ q.rest = rest
      /\ q.soFar = p.soFar /\ q.acked = p.acked /\ q.holds = p.holds
      /\ q.emitted = emitted /\ q.excused = p.excused /\ q.end = end
  BY <1>2, <1>3 DEF CallInv, CallType
<1> HIDE DEF q
<1>5. PhaseInv(q) /\ ~Idle(q)
  BY <1>1, <1>3, <1>4 DEF PhaseInv, Idle
<1>6. /\ p.ar.dirs \subseteq sn /\ p.sized \subseteq sn /\ EmptyBlob \in sn
      /\ Pending(p.ar) \subseteq sn \cup p.excused
  BY <1>1 DEF CallInv, SeenInv, Idle
<1>7. /\ ByDigest(Slots(p.ar)) \subseteq Pending(p.ar)
      /\ TreeBlobs(p.ar) \subseteq Pending(p.ar)
      /\ Named(p.ar) \ InlinedFiles(p.ar) \subseteq Pending(p.ar) \cup p.ar.dirs
  BY <1>1, PendingBlobs
<1>8. SeenInv(q, sn)
  BY <1>1, <1>3, <1>4, <1>5, <1>6, <1>7 DEF SeenInv
<1>9. ClosureInv(q, sn)
  BY <1>1, <1>3, <1>4, <1>6, <1>7 DEF ClosureInv
<1>10. InlineInv(q)
  <2>1. Len(q.slots) = Len(q.rest) /\ Len(q.rest) \in Nat
    BY <1>1, <1>2, <1>4
  <2>2. Visited(q) = {}
    BY <2>1 DEF Visited
  <2>3. SumOver(Bytes(q.slots), {}) = 0
    BY SumEmpty
  <2>4. MaxInline >= 0 /\ MaxInline \in Nat
    BY ActionAssumption
  <2>5. \A j \in 1 .. Len(q.rest) : q.rest[j] = Len(q.slots) - Len(q.rest) + j
    BY <2>1, <1>2, <1>4
  <2>6. Len(q.rest) <= Len(q.slots) /\ q.soFar = 0 /\ 0 <= MaxInline
    BY <2>1, <2>4, <1>1, <1>4
  <2> QED
    BY <2>2, <2>3, <2>5, <2>6, <1>1, <1>3, <1>4 DEF InlineInv
<1>11. StoreInv(q, sn)
  BY <1>1, <1>3, <1>4 DEF CallInv, StoreInv
<1> QED
  BY <1>4, <1>5, <1>8, <1>9, <1>10, <1>11 DEF CallInv, q, pc, end, rest

\* The result may be stored.
AfterStart(p, ar, holds) == [p EXCEPT !.pc = "putAC", !.ar = ar, !.holds = holds]
LEMMA StartStoreKeeps ==
    ASSUME NEW p, NEW sn, NEW t, CallInv(p, t), p.pc = "start",
           p.kind \in {"grpcUpdate", "httpPut"},
           NEW ar \in Result, NEW holds \in BOOLEAN, EmptyBlob \in sn
    PROVE  LET q == AfterStart(p, ar, holds) IN
           CallInv(q, sn) /\ ~Idle(q) /\ q.holds = holds /\ q.ar = ar
<1> DEFINE q == [p EXCEPT !.pc = "putAC", !.ar = ar, !.holds = holds]
<1>1. /\ p \in CallType /\ p.sized = {} /\ p.acked = {}
      /\ p.holds = FALSE /\ p.emitted = FALSE /\ p.end = "none"
  BY Unstarted
<1>2. /\ q \in CallType
      /\ q.kind = p.kind /\ q.pc = "putAC" /\ q.ar = ar /\ q.holds = holds
      /\ q.sized = p.sized /\ q.acked = p.acked /\ q.emitted = p.emitted
      /\ q.end = p.end
  BY <1>1 DEF CallType
<1> HIDE DEF q
<1>3. PhaseInv(q) /\ ~Idle(q)
  BY <1>1, <1>2 DEF PhaseInv, Idle
<1>4. SeenInv(q, sn) /\ ClosureInv(q, sn)
  BY <1>1, <1>2, <1>3 DEF SeenInv, ClosureInv
<1>5. InlineInv(q) /\ StoreInv(q, sn)
  BY <1>1, <1>2 DEF InlineInv, StoreInv
<1> QED
  BY <1>1, <1>2, <1>3, <1>4, <1>5 DEF CallInv, AfterStart, q

\* The requests of a batch are about to be looked at.
LEMMA StartBatchKeeps ==
    ASSUME NEW p, NEW sn, NEW t, CallInv(p, t), p.pc = "start", p.kind = "batch",
           NEW ar \in Result, EmptyBlob \in sn
    PROVE  LET q == [p EXCEPT !.pc = "putCAS", !.ar = ar,
                              !.rest = [i \in DOMAIN ar.files |-> i + 2]]
           IN CallInv(q, sn) /\ ~Idle(q) /\ q.holds = FALSE
<1> DEFINE rest == [i \in DOMAIN ar.files |-> i + 2]
           q == [p EXCEPT !.pc = "putCAS", !.ar = ar, !.rest = rest]
<1>1. /\ p \in CallType /\ p.sized = {} /\ p.acked = {}
      /\ p.holds = FALSE /\ p.emitted = FALSE /\ p.end = "none"
  BY Unstarted
<1>2. /\ rest \in Seq(Nat)
      /\ \A j \in 1 .. Len(rest) : rest[j] \in DOMAIN Slots(ar)
  <2> DEFINE n == Len(ar.files)
  <2>1. n \in Nat /\ DOMAIN ar.files = 1 .. n /\ DOMAIN Slots(ar) = 1 .. n + 2
    BY SlotsOf
  <2> HIDE DEF n
  <2>2. rest = [i \in 1 .. n |-> i + 2]
    BY <2>1
  <2>3. rest \in Seq(Nat) /\ Len(rest) = n /\ \A j \in 1 .. n : rest[j] = j + 2
    BY <2>1, <2>2
  <2> HIDE DEF rest
  <2> QED
    BY <2>1, <2>3
<1> HIDE DEF rest
<1>3. /\ q \in CallType
      /\ q.kind = p.kind /\ q.pc = "putCAS" /\ q.ar = ar /\ q.holds = p.holds
      /\ q.sized = p.sized /\ q.acked = p.acked /\ q.emitted = p.emitted
      /\ q.end = p.end /\ q.rest = rest
  BY <1>1, <1>2 DEF CallType
<1> HIDE DEF q
<1>4. PhaseInv(q) /\ ~Idle(q)
  BY <1>1, <1>3 DEF PhaseInv, Idle
<1>5. SeenInv(q, sn) /\ ClosureInv(q, sn)
  BY <1>1, <1>3, <1>4 DEF SeenInv, ClosureInv
<1>6. InlineInv(q) /\ StoreInv(q, sn)
  BY <1>1, <1>2, <1>3 DEF InlineInv, StoreInv
<1> QED
  BY <1>1, <1>3, <1>4, <1>5, <1>6 DEF CallInv, q, rest

\* The result is stored, and the sizes of its leaves are looked up.
LEMMA EmitKeeps ==
    ASSUME NEW p, NEW sn, CallInv(p, sn), p.pc = "putAC", p.ar.dirs = {}
    PROVE  LET q == [p EXCEPT !.pc = "emit", !.todo = Pending(p.ar),
                              !.leaves = Pending(p.ar)]
           IN CallInv(q, sn) /\ ~Idle(q) /\ q.holds = p.holds /\ q.ar = p.ar
<1> DEFINE leaves == Pending(p.ar)
           q == [p EXCEPT !.pc = "emit", !.todo = leaves, !.leaves = leaves]
<1>0. p.ar \in Result /\ p.end = "none" /\ p.kind \in {"grpcUpdate", "httpPut"}
  BY DEF CallInv, PhaseInv, Idle
<1>1. leaves \in SUBSET AnyBlob
  BY <1>0, PendingBlobs
<1> HIDE DEF leaves
<1>2. /\ q \in CallType
      /\ q.todo = leaves /\ q.sized = p.sized
      /\ q.kind = p.kind /\ q.pc = "emit" /\ q.ar = p.ar /\ q.slots = p.slots
      /\ q.want = p.want /\ q.leaves = leaves /\ q.rest = p.rest
      /\ q.soFar = p.soFar /\ q.acked = p.acked /\ q.holds = p.holds
      /\ q.emitted = p.emitted /\ q.excused = p.excused /\ q.end = p.end
  BY <1>1 DEF CallInv, CallType
<1> HIDE DEF q
<1>3. PhaseInv(q) /\ ~Idle(q)
  BY <1>0, <1>2 DEF PhaseInv, Idle
<1>4. SeenInv(q, sn)
  BY <1>0, <1>2, <1>3 DEF CallInv, SeenInv, Idle
<1>5. ClosureInv(q, sn)
  BY <1>2 DEF CallInv, ClosureInv, leaves
<1>6. InlineInv(q) /\ StoreInv(q, sn)
  BY <1>0, <1>2 DEF CallInv, InlineInv, StoreInv
<1> QED
  BY <1>2, <1>3, <1>4, <1>5, <1>6 DEF CallInv, q, leaves

\* Put has returned, with its closure emitted or not.
LEMMA PutDoneKeeps ==
    ASSUME NEW p, NEW sn, CallInv(p, sn), p.pc \in {"putAC", "emit"},
           NEW emitted \in BOOLEAN,
           emitted => p.pc = "emit" /\ p.todo = {}
    PROVE  LET q == [p EXCEPT
                 !.pc = IF p.kind = "httpPut" THEN "returned" ELSE "putCAS",
                 !.end = IF p.kind = "httpPut" THEN "ok" ELSE "none",
                 !.rest = IF p.kind = "httpPut" THEN <<>> ELSE StoreOrder(p.ar),
                 !.emitted = emitted, !.holds = FALSE]
           IN CallInv(q, sn) /\ ~Idle(q) /\ q.holds = FALSE
<1> DEFINE pc == IF p.kind = "httpPut" THEN "returned" ELSE "putCAS"
           end == IF p.kind = "httpPut" THEN "ok" ELSE "none"
           rest == IF p.kind = "httpPut" THEN <<>> ELSE StoreOrder(p.ar)
           no == FALSE
           q == [p EXCEPT !.pc = pc, !.end = end, !.rest = rest,
                          !.emitted = emitted, !.holds = no]
<1>1. p.ar \in Result /\ p.end = "none" /\ p.kind \in {"grpcUpdate", "httpPut"}
  BY DEF CallInv, PhaseInv, Idle
<1>2. /\ pc \in {"putCAS", "returned"} /\ end \in {"none", "ok"}
      /\ end = "none" <=> pc # "returned"
      /\ pc = "returned" <=> p.kind = "httpPut"
      /\ no \in BOOLEAN
  OBVIOUS
<1>3. rest \in Seq(Nat)
  <2>1. StoreOrder(p.ar) \in Seq(Nat)
    BY <1>1, StoreOrderSlots
  <2> QED
    BY <2>1
<1>4. /\ pc = "putCAS" => rest = StoreOrder(p.ar)
      /\ no = FALSE
  BY <1>2
<1> HIDE DEF pc, end, rest, no
<1>5. /\ q \in CallType
      /\ q.todo = p.todo /\ q.sized = p.sized
      /\ q.kind = p.kind /\ q.pc = pc /\ q.ar = p.ar /\ q.slots = p.slots
      /\ q.want = p.want /\ q.leaves = p.leaves /\ q.rest = rest
      /\ q.soFar = p.soFar /\ q.acked = p.acked /\ q.holds = no
      /\ q.emitted = emitted /\ q.excused = p.excused /\ q.end = end
  BY <1>2, <1>3 DEF CallInv, CallType
<1> HIDE DEF q
<1>6. PhaseInv(q) /\ ~Idle(q)
  BY <1>1, <1>2, <1>4, <1>5 DEF PhaseInv, Idle
<1>7. SeenInv(q, sn)
  BY <1>1, <1>2, <1>5, <1>6 DEF CallInv, SeenInv, Idle
<1>8. ClosureInv(q, sn)
  <2>1. Named(p.ar) \ InlinedFiles(p.ar) \subseteq Pending(p.ar) \cup p.ar.dirs
    BY <1>1, PendingBlobs
  <2> QED
    BY <1>2, <1>5, <2>1 DEF CallInv, ClosureInv
<1>9. InlineInv(q)
  BY <1>1, <1>2, <1>5 DEF InlineInv
<1>10. StoreInv(q, sn)
  <2>1. \A i \in Contents(p.ar) : i \in DOMAIN Slots(p.ar)
    BY DEF Contents, Filled
  <2>2. pc = "putCAS" =>
          /\ \A j \in 1 .. Len(rest) : rest[j] \in DOMAIN Slots(p.ar)
          /\ \A i \in DOMAIN Slots(p.ar) : \E j \in 1 .. Len(rest) : rest[j] = i
    BY <1>1, <1>4, StoreOrderSlots
  <2>3. p.acked \ p.excused \subseteq sn
    BY DEF CallInv, StoreInv
  <2> QED
    BY <1>1, <1>2, <1>5, <2>1, <2>2, <2>3 DEF StoreInv
<1> QED
  BY <1>4, <1>5, <1>6, <1>7, <1>8, <1>9, <1>10 DEF CallInv, q, pc, end, rest, no

\* The rest of a sequence that is not empty, element by element.
LEMMA TailElements ==
    ASSUME NEW s \in Seq(Nat), s # <<>>
    PROVE  /\ Tail(s) \in Seq(Nat) /\ Head(s) = s[1]
           /\ Len(s) \in Nat /\ Len(s) >= 1 /\ Len(Tail(s)) = Len(s) - 1
           /\ \A j \in 1 .. Len(Tail(s)) : Tail(s)[j] = s[j + 1]
           /\ \A i \in 2 .. Len(s) : Tail(s)[i - 1] = s[i]
<1>1. Len(s) \in Nat /\ Len(s) >= 1
  OBVIOUS
<1>2. Tail(s) \in Seq(Nat) /\ Head(s) = s[1] /\ Len(Tail(s)) = Len(s) - 1
  BY <1>1
<1>3. \A j \in 1 .. Len(Tail(s)) : Tail(s)[j] = s[j + 1]
  BY <1>1, <1>2
<1>4. \A i \in 2 .. Len(s) : Tail(s)[i - 1] = s[i]
  BY <1>1, <1>2, <1>3
<1> QED
  BY <1>1, <1>2, <1>3, <1>4

\* The next slot or request: what is confirmed without an excuse was there, and
\* the contents of an action result are confirmed.
AfterConfirm(p, acked, excused) ==
    [p EXCEPT !.rest = Tail(@), !.acked = @ \cup acked, !.excused = @ \cup excused]
LEMMA ConfirmKeeps ==
    ASSUME NEW p, NEW sn, CallInv(p, sn), p.pc = "putCAS", p.rest # <<>>,
           NEW acked \in SUBSET AnyBlob, NEW excused \in SUBSET AnyBlob,
           acked \ excused \subseteq sn,
           p.kind = "grpcUpdate" /\ Head(p.rest) \in Contents(p.ar) =>
               ContentBlob(p.ar, Head(p.rest)) \in acked
    PROVE  LET q == AfterConfirm(p, acked, excused)
           IN CallInv(q, sn) /\ ~Idle(q) /\ q.holds = p.holds /\ q.ar = p.ar
<1> DEFINE rest == Tail(p.rest)
           ack == p.acked \cup acked
           exc == p.excused \cup excused
           q == [p EXCEPT !.rest = rest, !.acked = ack, !.excused = exc]
<1>1. /\ p.rest \in Seq(Nat) /\ ack \in SUBSET AnyBlob /\ exc \in SUBSET AnyBlob
      /\ p.end = "none" /\ p.kind \in {"grpcUpdate", "batch"}
  BY DEF CallInv, CallType, PhaseInv
<1>2. rest \in Seq(Nat)
  BY <1>1, TailElements
<1> HIDE DEF rest, ack, exc
<1>3. /\ q \in CallType
      /\ q.todo = p.todo /\ q.sized = p.sized
      /\ q.kind = p.kind /\ q.pc = p.pc /\ q.ar = p.ar /\ q.slots = p.slots
      /\ q.want = p.want /\ q.leaves = p.leaves /\ q.rest = rest
      /\ q.soFar = p.soFar /\ q.acked = ack /\ q.holds = p.holds
      /\ q.emitted = p.emitted /\ q.excused = exc /\ q.end = p.end
  BY <1>1, <1>2 DEF CallInv, CallType
<1> HIDE DEF q
<1>4. PhaseInv(q) /\ ~Idle(q)
  BY <1>1, <1>3 DEF CallInv, PhaseInv, Idle
<1>5. SeenInv(q, sn)
  BY <1>1, <1>3, <1>4 DEF CallInv, SeenInv, Idle
<1>6. ClosureInv(q, sn) /\ InlineInv(q)
  BY <1>1, <1>3 DEF CallInv, ClosureInv, InlineInv
<1>7. StoreInv(q, sn)
  <2>1. ack \ exc \subseteq sn
    BY DEF CallInv, StoreInv, ack, exc
  <2>2. \A j \in 1 .. Len(rest) : rest[j] \in DOMAIN Slots(p.ar)
    <3> TAKE j \in 1 .. Len(rest)
    <3>1. rest[j] = p.rest[j + 1] /\ j + 1 \in 1 .. Len(p.rest)
      BY <1>1, TailElements DEF rest
    <3> QED
      BY <3>1 DEF CallInv, StoreInv
  <2>3. ASSUME p.kind = "grpcUpdate", NEW i \in Contents(p.ar)
        PROVE  ContentBlob(p.ar, i) \in ack \/ \E j \in 1 .. Len(rest) : rest[j] = i
    <3>1. CASE ContentBlob(p.ar, i) \in p.acked
      BY <3>1 DEF ack
    <3>2. CASE ContentBlob(p.ar, i) \notin p.acked
      <4>1. PICK k \in 1 .. Len(p.rest) : p.rest[k] = i
        BY <2>3, <3>2 DEF CallInv, StoreInv
      <4>2. CASE k = 1
        <5>1. Head(p.rest) = i
          BY <1>1, <4>1, <4>2, TailElements
        <5> QED
          BY <2>3, <5>1 DEF ack
      <4>3. CASE k # 1
        <5>1. k \in 2 .. Len(p.rest) /\ k - 1 \in 1 .. Len(rest)
          BY <1>1, <4>1, <4>3, TailElements DEF rest
        <5>2. rest[k - 1] = i
          BY <1>1, <4>1, <5>1, TailElements DEF rest
        <5> QED
          BY <5>1, <5>2
      <4> QED
        BY <4>2, <4>3
    <3> QED
      BY <3>1, <3>2
  <2> QED
    BY <1>1, <1>3, <2>1, <2>2, <2>3 DEF StoreInv
<1> QED
  BY <1>3, <1>4, <1>5, <1>6, <1>7 DEF CallInv, AfterConfirm, q, rest, ack, exc

\* A sequence with another element in one place.
LEMMA ReplaceAt ==
    ASSUME NEW F, NEW s \in Seq(F), NEW i \in 1 .. Len(s), NEW x \in F
    PROVE  LET t == [s EXCEPT ![i] = x] IN
           /\ t \in Seq(F) /\ Len(t) = Len(s) /\ DOMAIN t = 1 .. Len(s) /\ t[i] = x
           /\ \A j \in 1 .. Len(s) : j # i => t[j] = s[j]
  OBVIOUS

\* maybeInline is done with a slot, which is now s with n bytes inlined: they were
\* asked for and there is room, or the blob is there.
LEMMA SlotDoneKeeps ==
    ASSUME NEW p, NEW sn, CallInv(p, sn), p.pc = "inline", p.rest # <<>>,
           NEW s \in Slot, NEW n \in Nat, n = Length(s.raw), p.soFar + n <= MaxInline,
           s.raw # NoBlob => Head(p.rest) \in p.want,
           s.raw = NoBlob => s.digest \in sn \cup p.excused \cup {NoBlob}
    PROVE  LET q == [p EXCEPT !.rest = Tail(@), !.soFar = @ + n,
                              !.slots[Head(p.rest)] = s]
           IN CallInv(q, sn) /\ ~Idle(q) /\ q.holds = p.holds /\ q.ar = p.ar
<1> DEFINE i == Head(p.rest)
           rest == Tail(p.rest)
           soFar == p.soFar + n
           slots == [p.slots EXCEPT ![i] = s]
           q == [p EXCEPT !.rest = rest, !.soFar = soFar, !.slots = slots]
           v == Len(p.slots) - Len(p.rest)
<1>1. /\ p \in CallType
      /\ p.rest \in Seq(Nat) /\ p.slots \in Seq(Slot) /\ p.soFar \in Nat
      /\ p.end = "none" /\ p.kind = "grpcGet" /\ p.ar \in Result
      /\ p.holds = FALSE
  BY DEF CallInv, CallType, PhaseInv, Idle
<1>2. /\ Len(p.rest) <= Len(p.slots)
      /\ \A j \in 1 .. Len(p.rest) : p.rest[j] = v + j
      /\ Filled(p.slots) \cap Visited(p) \subseteq p.want
      /\ SumOver(Bytes(p.slots), Visited(p)) = p.soFar
  BY DEF CallInv, InlineInv
<1>3. /\ rest \in Seq(Nat) /\ i = p.rest[1] /\ Len(p.rest) \in Nat
      /\ Len(p.rest) >= 1 /\ Len(rest) = Len(p.rest) - 1
      /\ \A j \in 1 .. Len(rest) : rest[j] = p.rest[j + 1]
  BY <1>1, TailElements
<1>4. Len(p.slots) \in Nat /\ DOMAIN p.slots = 1 .. Len(p.slots)
  BY <1>1
<1>5. /\ v \in Nat /\ i = v + 1 /\ i \in 1 .. Len(p.slots)
      /\ Visited(p) = 1 .. v
  <2>1. Visited(p) = 1 .. v
    BY DEF Visited
  <2> HIDE DEF i
  <2>2. 1 \in 1 .. Len(p.rest) /\ i = v + 1
    <3>1. 1 \in 1 .. Len(p.rest)
      BY <1>3
    <3>2. p.rest[1] = v + 1
      BY <1>2, <3>1
    <3> QED
      BY <1>3, <3>1, <3>2
  <2> DEFINE a == Len(p.slots)
             b == Len(p.rest)
  <2>3. a \in Nat /\ b \in Nat /\ b >= 1 /\ b <= a /\ i = a - b + 1
    BY <1>2, <1>3, <1>4, <2>2
  <2> HIDE DEF a, b
  <2>4. a - b \in Nat /\ i \in 1 .. a
    BY <2>3
  <2> QED
    BY <2>1, <2>2, <2>4 DEF a, b
<1>6. /\ slots \in Seq(Slot) /\ Len(slots) = Len(p.slots)
      /\ DOMAIN slots = 1 .. Len(p.slots) /\ slots[i] = s
      /\ \A j \in 1 .. Len(p.slots) : j # i => slots[j] = p.slots[j]
  BY <1>1, <1>5, ReplaceAt
<1>7. soFar \in Nat
  BY <1>1
<1>8. [p EXCEPT !.rest = Tail(@), !.soFar = @ + n, !.slots[Head(p.rest)] = s] = q
  BY <1>1 DEF CallType
<1> HIDE DEF i, rest, soFar, slots, v
<1>9. /\ q \in CallType
      /\ q.todo = p.todo /\ q.sized = p.sized
      /\ q.kind = p.kind /\ q.pc = p.pc /\ q.ar = p.ar /\ q.slots = slots
      /\ q.want = p.want /\ q.leaves = p.leaves /\ q.rest = rest
      /\ q.soFar = soFar /\ q.acked = p.acked /\ q.holds = p.holds
      /\ q.emitted = p.emitted /\ q.excused = p.excused /\ q.end = p.end
  BY <1>1, <1>3, <1>6, <1>7 DEF CallType
<1> HIDE DEF q
<1>10. PhaseInv(q) /\ ~Idle(q)
  BY <1>1, <1>9 DEF PhaseInv, Idle
<1>11. SeenInv(q, sn)
  <2>1. ByDigest(slots) \subseteq ByDigest(p.slots) \cup sn \cup p.excused
    BY <1>4, <1>5, <1>6 DEF ByDigest, Filled
  <2>2. /\ p.sized \subseteq sn /\ p.ar.dirs \subseteq sn /\ EmptyBlob \in sn
        /\ Pending(p.ar) \cup ByDigest(p.slots) \subseteq sn \cup p.excused
    BY <1>1 DEF CallInv, SeenInv, Idle
  <2> QED
    BY <1>1, <1>9, <1>10, <2>1, <2>2 DEF SeenInv
<1>12. ClosureInv(q, sn) /\ StoreInv(q, sn)
  BY <1>1, <1>9 DEF CallInv, ClosureInv, StoreInv
<1>13. InlineInv(q)
  <2>1. /\ Len(q.slots) - Len(q.rest) = v + 1 /\ Len(q.rest) <= Len(q.slots)
        /\ Visited(q) = 1 .. v + 1
    <3> DEFINE a == Len(p.slots)
               b == Len(p.rest)
    <3>1. /\ Len(q.slots) = a /\ Len(q.rest) = b - 1 /\ v = a - b
          /\ a \in Nat /\ b \in Nat /\ b >= 1 /\ b <= a
      BY <1>2, <1>3, <1>4, <1>6, <1>9 DEF v
    <3> HIDE DEF a, b
    <3>2. Len(q.slots) - Len(q.rest) = v + 1 /\ Len(q.rest) <= Len(q.slots)
      BY <3>1
    <3> QED
      BY <3>2 DEF Visited
  <2>2. \A j \in 1 .. Len(q.rest) : q.rest[j] = Len(q.slots) - Len(q.rest) + j
    <3> TAKE j \in 1 .. Len(q.rest)
    <3>1. j \in 1 .. Len(rest) /\ j + 1 \in 1 .. Len(p.rest)
      BY <1>3, <1>9
    <3>2. q.rest[j] = v + (j + 1)
      <4>1. q.rest[j] = p.rest[j + 1]
        BY <1>3, <1>9, <3>1
      <4> QED
        BY <1>2, <3>1, <4>1
    <3>3. v + (j + 1) = (v + 1) + j
      BY <1>5, <3>1
    <3> QED
      BY <2>1, <3>2, <3>3
  <2>3. Filled(q.slots) \cap Visited(q) \subseteq q.want
    <3> SUFFICES ASSUME NEW j \in Filled(slots), j \in 1 .. v + 1 PROVE j \in p.want
      BY <1>9, <2>1
    <3>1. CASE j = i
      BY <1>6, <3>1 DEF Filled, i
    <3>2. CASE j # i
      <4>1. j \in 1 .. v /\ j \in 1 .. Len(p.slots)
        BY <1>4, <1>5, <1>6, <3>2 DEF Filled
      <4>2. slots[j] = p.slots[j] /\ j \in Filled(p.slots)
        BY <1>4, <1>6, <3>2, <4>1 DEF Filled
      <4> QED
        BY <1>2, <1>5, <4>1, <4>2
    <3> QED
      BY <3>1, <3>2
  <2>4. SumOver(Bytes(slots), 1 .. v + 1) = soFar
    <3> DEFINE f == Bytes(slots)
               g == Bytes(p.slots)
    <3>1. \A j \in 1 .. Len(p.slots) : f[j] = Length(slots[j].raw)
      BY <1>6 DEF Bytes
    <3>2. \A j \in 1 .. Len(p.slots) : g[j] = Length(p.slots[j].raw)
      BY <1>4 DEF Bytes
    <3>3. f[i] = n
      BY <1>5, <1>6, <3>1
    <3>4. \A j \in 1 .. v : j \in 1 .. Len(p.slots) /\ j # i
      BY <1>4, <1>5
    <3>5. \A j \in 1 .. v : f[j] = g[j] /\ f[j] \in Nat
      <4> TAKE j \in 1 .. v
      <4>1. f[j] = Length(p.slots[j].raw) /\ g[j] = Length(p.slots[j].raw)
        BY <1>6, <3>1, <3>2, <3>4
      <4>2. p.slots[j] \in Slot
        BY <1>1, <1>4, <3>4
      <4> QED
        BY <4>1, <4>2, SlotFields, LengthType
    <3> HIDE DEF f, g
    <3>6. SumOver(f, 1 .. v) = p.soFar
      <4> DEFINE S == 1 .. v
      <4>1. \A j \in S : f[j] = g[j]
        BY <3>5
      <4> HIDE DEF S
      <4>2. SumOver(f, S) = SumOver(g, S)
        BY <4>1, SumSame
      <4> QED
        BY <1>2, <1>5, <4>2 DEF g, S
    <3>7. SumOver(f, {i}) = n
      BY <3>3, SumOne
    <3>8. /\ 1 .. v + 1 = (1 .. v) \cup {i} /\ (1 .. v) \cap {i} = {}
          /\ \A j \in (1 .. v) \cup {i} : f[j] \in Nat
      BY <1>5, <3>3, <3>5
    <3>9. IsFiniteSet(1 .. v) /\ IsFiniteSet({i})
      <4>1. IsFiniteSet(1 .. v)
        BY <1>5, FS_Interval
      <4>2. IsFiniteSet({i})
        BY FS_Singleton
      <4> QED
        BY <4>1, <4>2
    <3>10. SumOver(f, 1 .. v + 1) = SumOver(f, 1 .. v) + SumOver(f, {i})
      <4> DEFINE S == 1 .. v
                 T == {i}
      <4>1. /\ S \cap T = {} /\ IsFiniteSet(S) /\ IsFiniteSet(T)
            /\ \A j \in S \cup T : f[j] \in Nat
        BY <3>8, <3>9
      <4> HIDE DEF S, T
      <4>2. SumOver(f, S \cup T) = SumOver(f, S) + SumOver(f, T)
        BY <4>1, SumSplit
      <4> QED
        BY <3>8, <4>2 DEF S, T
    <3> QED
      BY <3>6, <3>7, <3>10 DEF f, soFar
  <2>5. soFar <= MaxInline
    BY DEF soFar
  <2> QED
    BY <1>1, <1>9, <2>1, <2>2, <2>3, <2>4, <2>5 DEF InlineInv
<1> QED
  BY <1>8, <1>9, <1>10, <1>11, <1>12, <1>13 DEF CallInv

\* A call has visited all its slots or requests, and succeeds.
LEMMA SucceedKeeps ==
    ASSUME NEW p, NEW sn, CallInv(p, sn), p.pc \in {"inline", "putCAS"}, p.rest = <<>>
    PROVE  LET q == [p EXCEPT !.pc = "returned", !.end = "ok", !.sized = {}, !.soFar = 0]
           IN CallInv(q, sn) /\ ~Idle(q) /\ q.holds = p.holds /\ q.ar = p.ar
<1> DEFINE q == [p EXCEPT !.pc = "returned", !.end = "ok", !.sized = {}, !.soFar = 0]
<1>1. /\ p \in CallType /\ p.slots \in Seq(Slot)
      /\ p.end = "none" /\ p.kind \in {"grpcGet", "grpcUpdate", "batch"}
      /\ p.pc = "inline" <=> p.kind = "grpcGet"
      /\ p.holds = FALSE /\ p.ar \in Result
  BY DEF CallInv, CallType, PhaseInv, Idle
<1>2. /\ q \in CallType
      /\ q.todo = p.todo /\ q.sized = {}
      /\ q.kind = p.kind /\ q.pc = "returned" /\ q.ar = p.ar /\ q.slots = p.slots
      /\ q.want = p.want /\ q.leaves = p.leaves /\ q.rest = p.rest
      /\ q.soFar = 0 /\ q.acked = p.acked /\ q.holds = p.holds
      /\ q.emitted = p.emitted /\ q.excused = p.excused /\ q.end = "ok"
  BY <1>1 DEF CallType
<1> HIDE DEF q
<1>3. PhaseInv(q) /\ ~Idle(q)
  BY <1>1, <1>2 DEF PhaseInv, Idle
<1>4. SeenInv(q, sn)
  <2>1. EmptyBlob \in sn
    BY <1>1 DEF CallInv, SeenInv, Idle
  <2>2. TreeBlobs(p.ar) \subseteq Pending(p.ar)
    BY <1>1, PendingBlobs
  <2>3. p.pc = "inline" =>
          ByDigest(p.slots) \cup p.ar.dirs \cup Pending(p.ar) \subseteq sn \cup p.excused
    BY DEF CallInv, SeenInv
  <2> QED
    BY <1>1, <1>2, <1>3, <2>1, <2>2, <2>3 DEF SeenInv
<1>5. ClosureInv(q, sn)
  BY <1>2 DEF CallInv, ClosureInv
<1>6. InlineInv(q)
  <2> SUFFICES ASSUME p.pc = "inline"
               PROVE  /\ Filled(p.slots) \subseteq p.want
                      /\ SumOver(Bytes(p.slots), DOMAIN p.slots) <= MaxInline
    BY <1>1, <1>2 DEF InlineInv
  <2>1. Len(p.slots) \in Nat /\ DOMAIN p.slots = 1 .. Len(p.slots) /\ Len(p.rest) = 0
    BY <1>1
  <2>2. Visited(p) = DOMAIN p.slots
    BY <2>1 DEF Visited
  <2>3. Filled(p.slots) \subseteq DOMAIN p.slots
    BY DEF Filled
  <2> QED
    BY <2>2, <2>3 DEF CallInv, InlineInv
<1>7. StoreInv(q, sn)
  <2>1. Len(p.rest) = 0
    OBVIOUS
  <2>2. p.kind = "grpcUpdate" =>
          \A i \in Contents(p.ar) : ContentBlob(p.ar, i) \in p.acked
    BY <1>1, <2>1 DEF CallInv, StoreInv
  <2> QED
    BY <1>1, <1>2, <2>2 DEF CallInv, StoreInv
<1> QED
  BY <1>2, <1>3, <1>4, <1>5, <1>6, <1>7 DEF CallInv, q

-----------------------------------------------------------------------------
(***************************************************************************)
(* The steps of the system.                                                *)
(***************************************************************************)

\* What a call has seen after a step in which it goes on to q.
SeenAfter(c, q) ==
    IF Idle(q) THEN {} ELSE seen[c] \cup Present \cup Present'

\* The history of a call that goes on, and of one that does not.
LEMMA WitnessSees ==
    ASSUME ActionInv, Witness, NEW c \in Call
    PROVE  /\ call[c].end # "ok" => seen'[c] = SeenAfter(c, call'[c])
           /\ call[c].end = "ok" /\ call'[c] = call[c] => seen'[c] = seen[c]
<1>1. seen'[c] =
        CASE Idle(call'[c]) -> {}
          [] call[c].end = "ok" -> seen[c]
          [] OTHER -> seen[c] \cup Present \cup Present'
  <2>1. Idle(call'[c]) <=>
          (call'[c].end \in {"error", "notfound"} \/ call'[c].pc = "start")
    BY DEF Idle
  <2> QED
    BY <2>1 DEF Witness
<1>2. call[c].end = "ok" => ~Idle(call[c])
  BY DEF ActionInv, CallInv, PhaseInv, Idle
<1> QED
  BY <1>1, <1>2 DEF SeenAfter

\* A call that does not take part in a step.
LEMMA OthersKeep ==
    ASSUME ActionInv, Witness, NEW c \in Call, call'[c] = call[c]
    PROVE  CallInv(call'[c], seen'[c])
<1>1. CallInv(call[c], seen[c])
  BY DEF ActionInv
<1>2. CASE call[c].end = "ok"
  BY <1>1, <1>2, WitnessSees
<1>3. CASE call[c].end # "ok"
  <2>1. seen'[c] = SeenAfter(c, call[c])
    BY <1>3, WitnessSees
  <2>2. Idle(call[c]) => seen[c] = {} /\ seen'[c] = {}
    BY <1>1, <2>1 DEF CallInv, SeenInv, SeenAfter
  <2>3. seen[c] \subseteq seen'[c]
    BY <2>1, <2>2 DEF SeenAfter
  <2> QED
    BY <1>1, <2>2, <2>3, MoreSeen
<1> QED
  BY <1>2, <1>3

\* What a call in state q holds of the budget.
HeldBy(q) == IF q.holds THEN q.ar.size ELSE 0

\* It is a number.
LEMMA HeldType ==
    ASSUME NEW q, NEW sn, CallInv(q, sn)
    PROVE  HeldBy(q) \in Nat /\ q.holds \in BOOLEAN
<1>1. q.holds \in BOOLEAN
  BY DEF CallInv, CallType
<1>2. q.holds => q.ar \in Result
  BY DEF CallInv, PhaseInv, Idle
<1>3. q.ar \in Result => q.ar.size \in Nat
  BY ActionAssumption
<1> QED
  BY <1>1, <1>2, <1>3 DEF HeldBy

\* A step of a call keeps the invariant if it leaves the call in a good state and
\* changes the budget by what the call takes or gives back.
LEMMA StepKeeps ==
    ASSUME ActionInv, Witness, NEW c \in Call, NEW q, Becomes(c, q),
           call[c].end = "none", CallInv(q, SeenAfter(c, q)),
           ac' \in Result \cup {NoResult},
           budget' = budget - Held(c) + HeldBy(q), budget' <= Budget
    PROVE  ActionInv'
<1>1. DOMAIN call = Call /\ call' = [call EXCEPT ![c] = q]
  BY DEF ActionInv, Becomes
<1>2. DOMAIN call' = Call /\ call'[c] = q /\ \A d \in Call \ {c} : call'[d] = call[d]
  BY <1>1
<1>3. ASSUME NEW d \in Call PROVE CallInv(call'[d], seen'[d])
  <2>1. CASE d = c
    <3>1. seen'[c] = SeenAfter(c, q)
      BY <1>2, WitnessSees
    <3> QED
      BY <1>2, <2>1, <3>1
  <2>2. CASE d # c
    BY <1>2, <2>2, OthersKeep
  <2> QED
    BY <2>1, <2>2
<1>4. (BudgetAccounted)'
  <2> DEFINE f == [d \in Call |-> Held(d)]
             g == [d \in Call |-> HeldBy(call'[d])]
  <2>1. g = [d \in Call |-> (Held(d))']
    BY DEF Held, HeldBy
  <2>2. \A d \in Call : f[d] = HeldBy(call[d]) /\ g[d] = HeldBy(call'[d])
    BY DEF Held, HeldBy
  <2>3. \A d \in Call : HeldBy(call[d]) \in Nat /\ HeldBy(call'[d]) \in Nat
    BY <1>3, HeldType DEF ActionInv
  <2>4. \A d \in Call : f[d] \in Nat /\ g[d] \in Nat
    BY <2>2, <2>3
  <2>5. \A d \in Call \ {c} : f[d] = g[d]
    BY <1>2, <2>2
  <2>6. f[c] = Held(c) /\ g[c] = HeldBy(q)
    BY <1>2, <2>2
  <2>7. budget = SumOver(f, Call)
    BY DEF ActionInv, BudgetAccounted
  <2> HIDE DEF f, g
  <2>8. SumOver(g, Call) = SumOver(f, Call) - f[c] + g[c]
    <3>1. IsFiniteSet(Call)
      BY ActionAssumption
    <3> QED
      BY <2>4, <2>5, <3>1, SumUpdate
  <2>9. budget' = SumOver(g, Call)
    BY <2>6, <2>7, <2>8
  <2> QED
    BY <2>1, <2>9 DEF BudgetAccounted
<1> QED
  BY <1>2, <1>3, <1>4 DEF ActionInv

\* The budget is a number and not more than there is.
LEMMA BudgetType ==
    ASSUME ActionInv
    PROVE  budget \in Nat /\ budget <= Budget /\ Budget \in Nat
<1> DEFINE f == [d \in Call |-> Held(d)]
<1>1. \A d \in Call : f[d] = HeldBy(call[d])
  BY DEF Held, HeldBy
<1>2. \A d \in Call : f[d] \in Nat
  BY <1>1, HeldType DEF ActionInv
<1>3. budget = SumOver(f, Call) /\ budget <= Budget
  BY DEF ActionInv, BudgetAccounted
<1> HIDE DEF f
<1> QED
  BY <1>2, <1>3, SumType, ActionAssumption

\* A step that neither takes nor gives back any of the budget.
LEMMA PlainStep ==
    ASSUME ActionInv, Witness, NEW c \in Call, NEW q, Becomes(c, q),
           call[c].end = "none", CallInv(q, SeenAfter(c, q)),
           q.holds = call[c].holds, q.holds => q.ar = call[c].ar,
           UNCHANGED budget, ac' \in Result \cup {NoResult}
    PROVE  ActionInv'
<1>1. CallInv(call[c], seen[c])
  BY DEF ActionInv
<1>2. HeldBy(q) = Held(c) /\ Held(c) = HeldBy(call[c])
  BY DEF HeldBy, Held
<1>3. Held(c) \in Nat /\ budget \in Nat /\ budget <= Budget
  BY <1>1, <1>2, HeldType, BudgetType
<1>4. budget' = budget - Held(c) + HeldBy(q) /\ budget' <= Budget
  BY <1>2, <1>3
<1> QED
  BY <1>4, StepKeeps

\* A step that gives back what the call holds, or it has none.
LEMMA LastStep ==
    ASSUME ActionInv, Witness, NEW c \in Call, NEW q, Becomes(c, q),
           call[c].end = "none", CallInv(q, SeenAfter(c, q)),
           q.holds = FALSE, budget' = budget - Held(c), ac' \in Result \cup {NoResult}
    PROVE  ActionInv'
<1>1. CallInv(call[c], seen[c])
  BY DEF ActionInv
<1>2. HeldBy(q) = 0 /\ Held(c) = HeldBy(call[c])
  BY DEF HeldBy, Held
<1>3. Held(c) \in Nat /\ budget \in Nat /\ budget <= Budget /\ Budget \in Nat
  BY <1>1, <1>2, HeldType, BudgetType
<1>4. budget' = budget - Held(c) + HeldBy(q) /\ budget' <= Budget
  BY <1>2, <1>3
<1> QED
  BY <1>4, StepKeeps

\* A call that fails.
LEMMA ErrorKeeps ==
    ASSUME ActionInv, Witness, NEW c \in Call, NEW end \in {"error", "notfound"},
           Fail(c, end), call[c].end = "none", budget' = budget - Held(c),
           ac' \in Result \cup {NoResult}
    PROVE  ActionInv'
<1> DEFINE q == [NewCall(call[c].kind) EXCEPT !.pc = "returned", !.end = end]
<1>1. call[c].kind \in Get \cup Update
  BY DEF ActionInv, CallInv, CallType
<1>2. CallInv(q, {}) /\ Idle(q) /\ q.holds = FALSE
  BY <1>1, FailKeeps
<1>3. Becomes(c, q)
  BY DEF Fail
<1> HIDE DEF q
<1>4. CallInv(q, SeenAfter(c, q))
  BY <1>2 DEF SeenAfter
<1> QED
  BY <1>2, <1>3, <1>4, LastStep

\* The same for a call that holds nothing.
LEMMA PlainErrorKeeps ==
    ASSUME ActionInv, Witness, NEW c \in Call,
           Error(c) \/ Fail(c, "notfound"), call[c].end = "none",
           call[c].pc \notin {"putAC", "emit"}, UNCHANGED budget,
           ac' \in Result \cup {NoResult}
    PROVE  ActionInv'
<1>1. PICK end \in {"error", "notfound"} : Fail(c, end)
  BY DEF Error
<1>2. CallInv(call[c], seen[c])
  BY DEF ActionInv
<1>3. call[c].holds = FALSE
  <2>1. call[c].holds \in BOOLEAN
    BY <1>2, HeldType
  <2> QED
    BY <1>2, <2>1 DEF CallInv, PhaseInv
<1>4. Held(c) = 0 /\ budget \in Nat
  BY <1>3, BudgetType DEF Held
<1>5. budget' = budget - Held(c)
  BY <1>4
<1> QED
  BY <1>1, <1>5, ErrorKeeps

\* What a call that has started sees in a step; it may be taken to have seen it
\* already before the step.
LEMMA SeesAlready ==
    ASSUME ActionInv, NEW c \in Call, ~Idle(call[c])
    PROVE  /\ CallInv(call[c], seen[c] \cup Present \cup Present')
           /\ \A q : ~Idle(q) => SeenAfter(c, q) = seen[c] \cup Present \cup Present'
<1>1. CallInv(call[c], seen[c])
  BY DEF ActionInv
<1> QED
  BY <1>1, MoreSeen DEF SeenAfter

\* A call at work has a result, and is not idle.
LEMMA AtWork ==
    ASSUME ActionInv, NEW c \in Call,
           call[c].pc \in {"trees", "validate", "inline", "putAC", "emit", "putCAS"}
    PROVE  /\ ~Idle(call[c]) /\ call[c].ar \in Result /\ call[c].end = "none"
           /\ ac \in Result \cup {NoResult}
           /\ CallInv(call[c], seen[c] \cup Present \cup Present')
           /\ \A q : ~Idle(q) => SeenAfter(c, q) = seen[c] \cup Present \cup Present'
<1>1. call[c].end = "none"
  BY DEF ActionInv, CallInv, PhaseInv
<1>2. ~Idle(call[c])
  BY <1>1 DEF Idle
<1>3. call[c].ar \in Result /\ ac \in Result \cup {NoResult}
  BY <1>2 DEF ActionInv, CallInv, PhaseInv
<1> QED
  BY <1>1, <1>2, <1>3, SeesAlready

\* Get of the stored result.
LEMMA StartGetStep ==
    ASSUME ActionInv, Witness, NEW c \in Call, StartGet(c)
    PROVE  ActionInv'
<1> DEFINE p == call[c]
           sn == seen[c] \cup Present \cup Present'
<1>1. /\ CallInv(p, seen[c]) /\ p.pc = "start" /\ p.kind \in Get
      /\ ac \in Result \cup {NoResult} /\ UNCHANGED ac /\ UNCHANGED budget
  BY DEF ActionInv, StartGet, store
<1>2. p.end = "none" /\ p.holds = FALSE
  BY <1>1, Unstarted
<1>3. CASE Fail(c, "notfound") \/ Error(c)
  BY <1>1, <1>2, <1>3, PlainErrorKeeps
<1>4. ASSUME ac # NoResult, NEW want \in IF p.kind = "grpcGet" THEN Want ELSE {{}},
             Becomes(c, [p EXCEPT
                 !.ar = ac, !.slots = Slots(ac), !.want = want,
                 !.pc = IF p.kind = "nodepsGet" THEN "returned" ELSE "trees",
                 !.end = IF p.kind = "nodepsGet" THEN "ok" ELSE "none",
                 !.todo = ac.dirs, !.leaves = Pending(ac) \cup ac.dirs])
      PROVE  ActionInv'
  <2> DEFINE q == [p EXCEPT
                 !.ar = ac, !.slots = Slots(ac), !.want = want,
                 !.pc = IF p.kind = "nodepsGet" THEN "returned" ELSE "trees",
                 !.end = IF p.kind = "nodepsGet" THEN "ok" ELSE "none",
                 !.todo = ac.dirs, !.leaves = Pending(ac) \cup ac.dirs]
  <2>1. want \in Want \cup {{}} /\ ac \in Result
    BY <1>1, <1>4
  <2>2. EmptyBlob \in sn
    BY DEF Present
  <2> HIDE DEF p, sn
  <2>3. CallInv(q, sn) /\ ~Idle(q) /\ q.holds = FALSE
    BY <1>1, <2>1, <2>2, StartGetKeeps, Zenon
  <2>4. Becomes(c, q)
    BY <1>4 DEF p
  <2> HIDE DEF q
  <2>5. CallInv(q, SeenAfter(c, q))
    BY <2>3 DEF SeenAfter, sn
  <2> QED
    BY <1>1, <1>2, <2>3, <2>4, <2>5, PlainStep DEF p
<1> QED
  BY <1>3, <1>4 DEF StartGet

\* A blob is found by a call that looks for it.
LEMMA FoundStep ==
    ASSUME ActionInv, Witness, NEW c \in Call,
           call[c].pc \in {"trees", "validate", "emit"},
           NEW b \in call[c].todo, NEW sized \in SUBSET {b}, b \in Present \cup Present',
           Found(c, b, sized), UNCHANGED ac, UNCHANGED budget
    PROVE  ActionInv'
<1> DEFINE p == call[c]
           sn == seen[c] \cup Present \cup Present'
           q == AfterFound(p, b, sized)
<1>1. /\ CallInv(p, sn) /\ p.end = "none" /\ ac' \in Result \cup {NoResult}
      /\ \A r : ~Idle(r) => SeenAfter(c, r) = sn
  BY AtWork
<1>2. /\ b \in sn /\ b \in p.todo /\ p.pc \in {"trees", "validate", "emit"}
      /\ sized \subseteq {b}
  OBVIOUS
<1>3. Becomes(c, q)
  BY DEF Found, AfterFound
<1> HIDE DEF p, sn
<1>4. CallInv(q, sn) /\ ~Idle(q) /\ q.holds = p.holds /\ q.ar = p.ar
  BY <1>1, <1>2, FoundKeeps
<1> HIDE DEF q
<1> QED
  BY <1>1, <1>3, <1>4, PlainStep DEF p

\* Reading the trees.
LEMMA ReadTreeStep ==
    ASSUME ActionInv, Witness, NEW c \in Call, NEW b \in call[c].todo, ReadTree(c, b)
    PROVE  ActionInv'
<1>1. call[c].pc = "trees" /\ UNCHANGED ac /\ UNCHANGED budget
  BY DEF ReadTree
<1>2. call[c].end = "none" /\ ac' \in Result \cup {NoResult}
  BY <1>1, AtWork
<1>3. CASE Fail(c, "notfound") \/ Error(c)
  BY <1>1, <1>2, <1>3, PlainErrorKeeps
<1>4. ASSUME b \in Present, NEW sized \in SUBSET {b}, Found(c, b, sized)
      PROVE  ActionInv'
  BY <1>1, <1>4, FoundStep
<1> QED
  BY <1>3, <1>4 DEF ReadTree

\* The trees have been read.
LEMMA TreesReadStep ==
    ASSUME ActionInv, Witness, NEW c \in Call, TreesRead(c)
    PROVE  ActionInv'
<1> DEFINE sn == seen[c] \cup Present \cup Present'
           q == [call[c] EXCEPT !.pc = "validate", !.todo = Pending(call[c].ar)]
<1>1. /\ call[c].pc = "trees" /\ call[c].todo = {} /\ Becomes(c, q)
      /\ UNCHANGED ac /\ UNCHANGED budget
  BY DEF TreesRead, store
<1>2. /\ CallInv(call[c], sn) /\ call[c].end = "none"
      /\ ac' \in Result \cup {NoResult}
      /\ \A r : ~Idle(r) => SeenAfter(c, r) = sn
  BY <1>1, AtWork
<1> HIDE DEF sn
<1>3. CallInv(q, sn) /\ ~Idle(q) /\ q.holds = call[c].holds /\ q.ar = call[c].ar
  BY <1>1, <1>2, TreesReadKeeps
<1> HIDE DEF q
<1> QED
  BY <1>1, <1>2, <1>3, PlainStep

\* The search for the blobs of a result.
LEMMA ValidateStep ==
    ASSUME ActionInv, Witness, NEW c \in Call, NEW b \in call[c].todo, Validate(c, b)
    PROVE  ActionInv'
<1> DEFINE sn == seen[c] \cup Present \cup Present'
           q == [call[c] EXCEPT !.todo = @ \ {b}, !.excused = @ \cup {b}]
<1>1. call[c].pc = "validate" /\ UNCHANGED ac /\ UNCHANGED budget
  BY DEF Validate, store
<1>2. /\ CallInv(call[c], sn) /\ call[c].end = "none"
      /\ ac' \in Result \cup {NoResult}
      /\ \A r : ~Idle(r) => SeenAfter(c, r) = sn
  BY <1>1, AtWork
<1>3. CASE Fail(c, "notfound") \/ Error(c)
  BY <1>1, <1>2, <1>3, PlainErrorKeeps
<1>4. ASSUME b \in Present, NEW sized \in SUBSET {b}, Found(c, b, sized)
      PROVE  ActionInv'
  BY <1>1, <1>4, FoundStep
<1>5. CASE Becomes(c, q)
  <2> HIDE DEF sn
  <2>1. CallInv(q, sn) /\ ~Idle(q) /\ q.holds = call[c].holds /\ q.ar = call[c].ar
    BY <1>1, <1>2, ExcusedKeeps
  <2> HIDE DEF q
  <2> QED
    BY <1>1, <1>2, <1>5, <2>1, PlainStep
<1>6. EmptyBlob \in Present /\ local \subseteq Present
  BY DEF Present
<1>7. HasProxy => remote \subseteq Present
  BY DEF Present
<1> QED
  BY <1>3, <1>4, <1>5, <1>6, <1>7 DEF Validate

\* All blobs were there.
LEMMA ValidatedStep ==
    ASSUME ActionInv, Witness, NEW c \in Call, Validated(c)
    PROVE  ActionInv'
<1> DEFINE sn == seen[c] \cup Present \cup Present'
           p == call[c]
           http == p.kind # "grpcGet"
           e == emitFromHit(c)
           q == [p EXCEPT !.emitted = e,
                          !.pc = IF http THEN "returned" ELSE "inline",
                          !.end = IF http THEN "ok" ELSE "none",
                          !.rest = [i \in DOMAIN Slots(p.ar) |-> i]]
<1>1. /\ p.pc = "validate" /\ p.todo = {} /\ Becomes(c, q)
      /\ UNCHANGED ac /\ UNCHANGED budget
  BY DEF Validated, store
<1>2. /\ CallInv(p, sn) /\ p.end = "none" /\ ac' \in Result \cup {NoResult}
      /\ \A r : ~Idle(r) => SeenAfter(c, r) = sn
  BY <1>1, AtWork
<1>3. e \in BOOLEAN /\ (e => p.leaves \ {EmptyBlob} \subseteq p.sized)
  BY DEF emitFromHit
<1> HIDE DEF sn, e
<1>4. CallInv(q, sn) /\ ~Idle(q) /\ q.holds = p.holds /\ q.ar = p.ar
  BY <1>1, <1>2, <1>3, ValidatedKeeps
<1> HIDE DEF q
<1> QED
  BY <1>1, <1>2, <1>4, PlainStep

\* maybeInline is done with a slot.
LEMMA SlotDoneStep ==
    ASSUME ActionInv, Witness, NEW c \in Call, NEW s \in Slot, NEW n,
           call[c].pc = "inline", call[c].rest # <<>>, SlotDone(c, s, n),
           n = Length(s.raw), call[c].soFar + n <= MaxInline,
           s.raw # NoBlob => Head(call[c].rest) \in call[c].want,
           s.raw = NoBlob =>
               s.digest \in seen[c] \cup Present \cup Present' \cup call[c].excused
                              \cup {NoBlob},
           UNCHANGED ac, UNCHANGED budget
    PROVE  ActionInv'
<1> DEFINE p == call[c]
           sn == seen[c] \cup Present \cup Present'
           q == [p EXCEPT !.rest = Tail(@), !.soFar = @ + n, !.slots[Head(p.rest)] = s]
<1>1. /\ CallInv(p, sn) /\ p.end = "none" /\ ac' \in Result \cup {NoResult}
      /\ \A r : ~Idle(r) => SeenAfter(c, r) = sn
  BY AtWork
<1>2. /\ p.pc = "inline" /\ p.rest # <<>> /\ p.soFar + n <= MaxInline
      /\ s.raw # NoBlob => Head(p.rest) \in p.want
      /\ s.raw = NoBlob => s.digest \in sn \cup p.excused \cup {NoBlob}
  OBVIOUS
<1>3. n \in Nat
  BY SlotFields, LengthType
<1>4. Becomes(c, q)
  BY DEF SlotDone
<1> HIDE DEF p, sn
<1>5. CallInv(q, sn) /\ ~Idle(q) /\ q.holds = p.holds /\ q.ar = p.ar
  BY <1>1, <1>2, <1>3, SlotDoneKeeps, Zenon
<1> HIDE DEF q
<1> QED
  BY <1>1, <1>4, <1>5, PlainStep DEF p

\* The slot whose turn it is.
LEMMA NextSlot ==
    ASSUME ActionInv, NEW c \in Call, call[c].pc = "inline", call[c].rest # <<>>
    PROVE  LET s == call[c].slots[Head(call[c].rest)] IN
           /\ s \in Slot /\ call[c].soFar \in Nat /\ call[c].soFar <= MaxInline
           /\ s.raw = NoBlob => s.digest \in seen[c] \cup call[c].excused \cup {NoBlob}
<1> DEFINE p == call[c]
           i == Head(p.rest)
<1>1. /\ p.slots \in Seq(Slot) /\ p.rest \in Seq(Nat) /\ p.soFar \in Nat
      /\ Len(p.rest) <= Len(p.slots) /\ p.soFar <= MaxInline
      /\ \A j \in 1 .. Len(p.rest) : p.rest[j] = Len(p.slots) - Len(p.rest) + j
      /\ ByDigest(p.slots) \subseteq seen[c] \cup p.excused
  BY DEF ActionInv, CallInv, CallType, InlineInv, SeenInv
<1>2. p.rest # <<>>
  OBVIOUS
<1> HIDE DEF p
<1>3. i = p.rest[1] /\ Len(p.rest) \in Nat /\ Len(p.rest) >= 1
  BY <1>1, <1>2, TailElements
<1>4. i = Len(p.slots) - Len(p.rest) + 1
  <2>1. 1 \in 1 .. Len(p.rest)
    BY <1>3
  <2> QED
    BY <1>1, <1>3, <2>1
<1> HIDE DEF i
<1>5. Len(p.slots) \in Nat /\ DOMAIN p.slots = 1 .. Len(p.slots)
  BY <1>1
<1>6. i \in 1 .. Len(p.slots)
  <2> DEFINE a == Len(p.slots)
             b == Len(p.rest)
  <2>1. a \in Nat /\ b \in Nat /\ b >= 1 /\ b <= a /\ i = a - b + 1
    BY <1>1, <1>3, <1>4, <1>5
  <2> HIDE DEF a, b
  <2>2. i \in 1 .. a
    BY <2>1
  <2> QED
    BY <2>2 DEF a
<1>7. p.slots[i] \in Slot
  BY <1>1, <1>6
<1>8. p.slots[i].raw = NoBlob => p.slots[i].digest \in ByDigest(p.slots) \cup {NoBlob}
  BY <1>5, <1>6 DEF ByDigest, Filled
<1> QED
  BY <1>1, <1>7, <1>8 DEF p, i

\* Contents are moved out of the result.
LEMMA StripContentsStep ==
    ASSUME ActionInv, Witness, NEW c \in Call, StripContents(c)
    PROVE  ActionInv'
<1> DEFINE i == Head(call[c].rest)
           s == call[c].slots[i]
           new == [raw |-> NoBlob, digest |-> DigestOf(s)]
<1>1. /\ call[c].pc = "inline" /\ call[c].rest # <<>> /\ s.raw # NoBlob
      /\ UNCHANGED ac /\ UNCHANGED budget
  BY DEF StripContents
<1>2. call[c].end = "none" /\ ac' \in Result \cup {NoResult}
  BY <1>1, AtWork
<1>3. CASE Error(c)
  BY <1>1, <1>2, <1>3, PlainErrorKeeps
<1>4. ASSUME DigestOf(s) \in Present \cup Present', SlotDone(c, new, 0)
      PROVE  ActionInv'
  <2>1. s \in Slot /\ call[c].soFar \in Nat /\ call[c].soFar <= MaxInline
    BY <1>1, NextSlot
  <2>2. new.raw = NoBlob /\ new.digest = DigestOf(s)
    OBVIOUS
  <2>3. new \in Slot
    BY <1>1, <2>1 DEF Slot, DigestOf
  <2>4. Length(new.raw) = 0
    BY <2>2 DEF Length
  <2>5. call[c].soFar + 0 <= MaxInline
    BY <2>1
  <2> HIDE DEF new, s
  <2> QED
    BY <1>1, <1>4, <2>2, <2>3, <2>4, <2>5, SlotDoneStep
<1>5. CasPut(s, Length(DigestOf(s))) => DigestOf(s) \in Present'
  BY DEF CasPut, Present
<1> QED
  BY <1>3, <1>4, <1>5 DEF StripContents

\* A slot stays as it is.
LEMMA KeepSlotStep ==
    ASSUME ActionInv, Witness, NEW c \in Call, KeepSlot(c)
    PROVE  ActionInv'
<1> DEFINE i == Head(call[c].rest)
           s == call[c].slots[i]
           n == IF inline(c, i) THEN Length(s.raw) ELSE 0
<1>1. /\ call[c].pc = "inline" /\ call[c].rest # <<>> /\ SlotDone(c, s, n)
      /\ ~inline(c, i) => s.raw = NoBlob
      /\ UNCHANGED ac /\ UNCHANGED budget
  BY DEF KeepSlot, store
<1>2. /\ s \in Slot /\ call[c].soFar \in Nat /\ call[c].soFar <= MaxInline
      /\ s.raw = NoBlob => s.digest \in seen[c] \cup call[c].excused \cup {NoBlob}
  BY <1>1, NextSlot
<1>3. inline(c, i) => i \in call[c].want /\ call[c].soFar + Length(s.raw) <= MaxInline
  BY DEF inline
<1>4. n = Length(s.raw)
  BY <1>1 DEF Length
<1>5. call[c].soFar + n <= MaxInline
  BY <1>2, <1>3
<1>6. s.raw # NoBlob => Head(call[c].rest) \in call[c].want
  BY <1>1, <1>3
<1> HIDE DEF s, n
<1> QED
  BY <1>1, <1>2, <1>4, <1>5, <1>6, SlotDoneStep

\* A blob is read into the result.
LEMMA InlineBlobStep ==
    ASSUME ActionInv, Witness, NEW c \in Call, InlineBlob(c)
    PROVE  ActionInv'
<1> DEFINE i == Head(call[c].rest)
           s == call[c].slots[i]
           new == [s EXCEPT !.raw = s.digest]
<1>1. /\ call[c].pc = "inline" /\ call[c].rest # <<>> /\ inline(c, i)
      /\ Length(s.digest) > 0
      /\ UNCHANGED ac /\ UNCHANGED budget
  BY DEF InlineBlob
<1>2. call[c].end = "none" /\ ac' \in Result \cup {NoResult}
  BY <1>1, AtWork
<1>3. CASE Error(c)
  BY <1>1, <1>2, <1>3, PlainErrorKeeps
<1>4. CASE SlotDone(c, new, Length(s.digest))
  <2>1. s \in Slot
    BY <1>1, NextSlot
  <2>2. i \in call[c].want /\ call[c].soFar + Length(s.digest) <= MaxInline
    BY <1>1 DEF inline
  <2>3. s.digest \in Blob
    <3>1. Length(NoBlob) = 0 /\ Length(EmptyBlob) = 0
      BY ActionAssumption DEF Length
    <3>2. s.digest # NoBlob /\ s.digest # EmptyBlob
      BY <1>1, <3>1
    <3> QED
      BY <2>1, <3>2 DEF Slot
  <2> HIDE DEF s
  <2>4. new \in Slot /\ new.raw = s.digest
    BY <2>1, <2>3 DEF Slot
  <2>5. new.raw # NoBlob
    BY <2>3, <2>4, ActionAssumption
  <2> HIDE DEF new
  <2> QED
    BY <1>1, <1>4, <2>2, <2>4, <2>5, SlotDoneStep
<1> QED
  BY <1>3, <1>4 DEF InlineBlob

\* A call that is through succeeds.
LEMMA SucceedStep ==
    ASSUME ActionInv, Witness, NEW c \in Call, Inlined(c) \/ UpdateDone(c)
    PROVE  ActionInv'
<1> DEFINE p == call[c]
           sn == seen[c] \cup Present \cup Present'
           q == [p EXCEPT !.pc = "returned", !.end = "ok", !.sized = {}, !.soFar = 0]
<1>1. /\ p.pc \in {"inline", "putCAS"} /\ p.rest = <<>> /\ Becomes(c, q)
      /\ UNCHANGED ac /\ UNCHANGED budget
  BY DEF Inlined, UpdateDone, Succeed, store
<1>2. /\ CallInv(p, sn) /\ p.end = "none" /\ ac' \in Result \cup {NoResult}
      /\ \A r : ~Idle(r) => SeenAfter(c, r) = sn
  BY <1>1, AtWork
<1> HIDE DEF p, sn
<1>3. CallInv(q, sn) /\ ~Idle(q) /\ q.holds = p.holds /\ q.ar = p.ar
  BY <1>1, <1>2, SucceedKeeps, Zenon
<1> HIDE DEF q
<1> QED
  BY <1>1, <1>2, <1>3, PlainStep DEF p

\* Put starts: the call takes its part of the budget, if there is room.
LEMMA StartStoreStep ==
    ASSUME ActionInv, Witness, NEW c \in Call, NEW ar \in Result,
           call[c].pc = "start", call[c].kind \in {"grpcUpdate", "httpPut"},
           StartStore(c, ar), UNCHANGED ac
    PROVE  ActionInv'
<1> DEFINE p == call[c]
           sn == seen[c] \cup Present \cup Present'
           h == Captured(ar)
           q == AfterStart(p, ar, h)
<1>1. /\ CallInv(p, seen[c]) /\ p.pc = "start" /\ p.kind \in {"grpcUpdate", "httpPut"}
      /\ ac' \in Result \cup {NoResult}
      /\ Becomes(c, q) /\ budget' = budget + IF h THEN ar.size ELSE 0
  BY DEF ActionInv, StartStore, AfterStart
<1>2. p.end = "none" /\ p.holds = FALSE
  BY <1>1, Unstarted
<1>3. EmptyBlob \in sn
  BY DEF Present
<1>4. h \in BOOLEAN /\ (h => budget + ar.size <= Budget)
  BY DEF Captured
<1>5. Held(c) = 0
  BY <1>2 DEF Held
<1> HIDE DEF p, sn, h
<1>6. CallInv(q, sn) /\ ~Idle(q) /\ q.holds = h /\ q.ar = ar
  BY <1>1, <1>3, <1>4, StartStoreKeeps
<1> HIDE DEF q
<1>7. CallInv(q, SeenAfter(c, q))
  BY <1>6 DEF SeenAfter, sn
<1>8. HeldBy(q) = IF h THEN ar.size ELSE 0
  BY <1>6 DEF HeldBy
<1>9. ar.size \in Nat /\ budget \in Nat /\ budget <= Budget
  BY BudgetType, ActionAssumption
<1>10. budget' = budget - Held(c) + HeldBy(q) /\ budget' <= Budget
  BY <1>1, <1>4, <1>5, <1>8, <1>9
<1> QED
  BY <1>1, <1>2, <1>7, <1>10, StepKeeps DEF p

\* The three calls that send a result or blobs.
LEMMA StartPutStep ==
    ASSUME ActionInv, Witness, NEW c \in Call, NEW ar \in Result,
           StartUpdate(c, ar) \/ StartHttpPut(c, ar)
    PROVE  ActionInv'
<1>1. /\ call[c].pc = "start" /\ call[c].kind \in {"grpcUpdate", "httpPut"}
      /\ UNCHANGED ac
      /\ StartStore(c, ar) \/ (Error(c) /\ UNCHANGED budget)
  BY DEF StartUpdate, StartHttpPut, store
<1>2. CASE StartStore(c, ar)
  BY <1>1, <1>2, StartStoreStep
<1>3. CASE Error(c) /\ UNCHANGED budget
  <2>1. CallInv(call[c], seen[c]) /\ ac' \in Result \cup {NoResult}
    BY <1>1 DEF ActionInv
  <2>2. call[c].end = "none"
    BY <1>1, <2>1, Unstarted
  <2> QED
    BY <1>1, <1>3, <2>1, <2>2, PlainErrorKeeps
<1> QED
  BY <1>1, <1>2, <1>3

\* A batch starts.
LEMMA StartBatchStep ==
    ASSUME ActionInv, Witness, NEW c \in Call, NEW ar \in Result, StartBatch(c, ar)
    PROVE  ActionInv'
<1> DEFINE p == call[c]
           sn == seen[c] \cup Present \cup Present'
           q == [p EXCEPT !.pc = "putCAS", !.ar = ar,
                          !.rest = [i \in DOMAIN ar.files |-> i + 2]]
<1>1. /\ CallInv(p, seen[c]) /\ p.pc = "start" /\ p.kind = "batch"
      /\ ac' \in Result \cup {NoResult} /\ Becomes(c, q) /\ UNCHANGED budget
  BY DEF ActionInv, StartBatch, store
<1>2. p.end = "none" /\ p.holds = FALSE
  BY <1>1, Unstarted
<1>3. EmptyBlob \in sn
  BY DEF Present
<1> HIDE DEF p, sn
<1>4. CallInv(q, sn) /\ ~Idle(q) /\ q.holds = FALSE
  BY <1>1, <1>3, StartBatchKeeps, Zenon
<1> HIDE DEF q
<1>5. CallInv(q, SeenAfter(c, q))
  BY <1>4 DEF SeenAfter, sn
<1> QED
  BY <1>1, <1>2, <1>4, <1>5, PlainStep DEF p

\* Put returns, and gives back what it holds of the budget.
LEMMA PutDoneStep ==
    ASSUME ActionInv, Witness, NEW c \in Call, NEW emitted \in BOOLEAN,
           call[c].pc \in {"putAC", "emit"},
           emitted => call[c].pc = "emit" /\ call[c].todo = {},
           PutDone(c, emitted), ac' \in Result \cup {NoResult}
    PROVE  ActionInv'
<1> DEFINE p == call[c]
           sn == seen[c] \cup Present \cup Present'
           q == [p EXCEPT
                 !.pc = IF p.kind = "httpPut" THEN "returned" ELSE "putCAS",
                 !.end = IF p.kind = "httpPut" THEN "ok" ELSE "none",
                 !.rest = IF p.kind = "httpPut" THEN <<>> ELSE StoreOrder(p.ar),
                 !.emitted = emitted, !.holds = FALSE]
<1>1. /\ p.pc \in {"putAC", "emit"} /\ (emitted => p.pc = "emit" /\ p.todo = {})
      /\ Becomes(c, q) /\ budget' = budget - Held(c)
  BY Zenon DEF PutDone
<1>2. /\ CallInv(p, sn) /\ p.end = "none"
      /\ \A r : ~Idle(r) => SeenAfter(c, r) = sn
  BY AtWork
<1> HIDE DEF p, sn
<1>3. CallInv(q, sn) /\ ~Idle(q) /\ q.holds = FALSE
  BY <1>1, <1>2, PutDoneKeeps, Zenon
<1> HIDE DEF q
<1> QED
  BY <1>1, <1>2, <1>3, LastStep DEF p

\* Put commits the result.
LEMMA PutACStep ==
    ASSUME ActionInv, Witness, NEW c \in Call, PutAC(c)
    PROVE  ActionInv'
<1> DEFINE p == call[c]
           sn == seen[c] \cup Present \cup Present'
           q == [p EXCEPT !.pc = "emit", !.todo = Pending(p.ar), !.leaves = Pending(p.ar)]
<1>1. p.pc = "putAC" /\ ac' = p.ar
  BY DEF PutAC
<1>2. /\ CallInv(p, sn) /\ p.end = "none" /\ p.ar \in Result
      /\ \A r : ~Idle(r) => SeenAfter(c, r) = sn
  BY <1>1, AtWork
<1>3. CASE PutDone(c, FALSE)
  BY <1>1, <1>2, <1>3, PutDoneStep
<1>4. CASE p.ar.dirs = {} /\ Becomes(c, q) /\ UNCHANGED budget
  <2> HIDE DEF p, sn
  <2>1. CallInv(q, sn) /\ ~Idle(q) /\ q.holds = p.holds /\ q.ar = p.ar
    BY <1>1, <1>2, <1>4, EmitKeeps, Zenon
  <2> HIDE DEF q
  <2> QED
    BY <1>1, <1>2, <1>4, <2>1, PlainStep DEF p
<1> QED
  BY <1>3, <1>4 DEF PutAC, emitFromWrite

\* Put fails.
LEMMA PutACFailsStep ==
    ASSUME ActionInv, Witness, NEW c \in Call, PutACFails(c)
    PROVE  ActionInv'
<1>1. call[c].pc = "putAC" /\ Error(c) /\ budget' = budget - Held(c) /\ UNCHANGED ac
  BY DEF PutACFails, store
<1>2. call[c].end = "none" /\ ac' \in Result \cup {NoResult}
  BY <1>1, AtWork
<1>3. PICK end \in {"error", "notfound"} : Fail(c, end)
  BY <1>1 DEF Error
<1> QED
  BY <1>1, <1>2, <1>3, ErrorKeeps

\* The leaves of a result that is being stored, and the end of it.
LEMMA EmitStep ==
    ASSUME ActionInv, Witness, NEW c \in Call,
           (\E b \in call[c].todo : LookupLeaf(c, b)) \/ EmitFromWrite(c)
    PROVE  ActionInv'
<1>1. call[c].pc = "emit" /\ UNCHANGED ac
  BY DEF LookupLeaf, EmitFromWrite, store
<1>2. call[c].end = "none" /\ ac' \in Result \cup {NoResult}
  BY <1>1, AtWork
<1>3. CASE EmitFromWrite(c)
  <2>1. call[c].todo = {} /\ PutDone(c, TRUE)
    BY <1>3 DEF EmitFromWrite
  <2> QED
    BY <1>1, <1>2, <2>1, PutDoneStep
<1>4. ASSUME NEW b \in call[c].todo, LookupLeaf(c, b) PROVE ActionInv'
  <2>1. CASE b \in local \cup {EmptyBlob}
    <3>1. Found(c, b, {}) /\ UNCHANGED budget
      BY <1>4, <2>1 DEF LookupLeaf
    <3>2. b \in Present
      BY <2>1 DEF Present
    <3> QED
      BY <1>1, <3>1, <3>2, FoundStep
  <2>2. CASE b \notin local \cup {EmptyBlob}
    <3>1. PutDone(c, FALSE)
      BY <1>4, <2>2 DEF LookupLeaf
    <3> QED
      BY <1>1, <1>2, <3>1, PutDoneStep
  <2> QED
    BY <2>1, <2>2
<1> QED
  BY <1>3, <1>4

\* Blobs are confirmed.
LEMMA ConfirmStep ==
    ASSUME ActionInv, Witness, NEW c \in Call,
           call[c].pc = "putCAS", call[c].rest # <<>>,
           NEW acked \in SUBSET AnyBlob, NEW excused \in SUBSET AnyBlob,
           acked \ excused \subseteq Present \cup Present',
           call[c].kind = "grpcUpdate" /\ Head(call[c].rest) \in Contents(call[c].ar) =>
               ContentBlob(call[c].ar, Head(call[c].rest)) \in acked,
           Confirm(c, acked, excused), UNCHANGED ac, UNCHANGED budget
    PROVE  ActionInv'
<1> DEFINE p == call[c]
           sn == seen[c] \cup Present \cup Present'
           q == AfterConfirm(p, acked, excused)
<1>1. /\ CallInv(p, sn) /\ p.end = "none" /\ ac' \in Result \cup {NoResult}
      /\ \A r : ~Idle(r) => SeenAfter(c, r) = sn
  BY AtWork
<1>2. /\ p.pc = "putCAS" /\ p.rest # <<>> /\ acked \ excused \subseteq sn
      /\ p.kind = "grpcUpdate" /\ Head(p.rest) \in Contents(p.ar) =>
            ContentBlob(p.ar, Head(p.rest)) \in acked
  OBVIOUS
<1>3. Becomes(c, q)
  BY DEF Confirm, AfterConfirm
<1> HIDE DEF p, sn
<1>4. CallInv(q, sn) /\ ~Idle(q) /\ q.holds = p.holds /\ q.ar = p.ar
  BY <1>1, <1>2, ConfirmKeeps
<1> HIDE DEF q
<1> QED
  BY <1>1, <1>3, <1>4, PlainStep DEF p

\* The slot or request whose turn it is.
LEMMA NextRequest ==
    ASSUME ActionInv, NEW c \in Call, call[c].pc = "putCAS", call[c].rest # <<>>
    PROVE  Slots(call[c].ar)[Head(call[c].rest)] \in Slot
<1> DEFINE p == call[c]
<1>1. /\ p.ar \in Result /\ p.rest \in Seq(Nat)
      /\ \A j \in 1 .. Len(p.rest) : p.rest[j] \in DOMAIN Slots(p.ar)
  BY DEF ActionInv, CallInv, CallType, PhaseInv, StoreInv, Idle
<1>2. p.rest # <<>>
  OBVIOUS
<1> HIDE DEF p
<1>3. Head(p.rest) = p.rest[1] /\ 1 \in 1 .. Len(p.rest)
  BY <1>1, <1>2, TailElements
<1>4. Head(p.rest) \in DOMAIN Slots(p.ar)
  BY <1>1, <1>3
<1>5. Slots(p.ar) \in Seq(Slot)
  BY <1>1, SlotsOf
<1>6. Slots(p.ar)[Head(p.rest)] \in Slot
  BY <1>4, <1>5
<1> QED
  BY <1>6 DEF p

\* The contents of an action result go to the CAS.
LEMMA PutContentsStep ==
    ASSUME ActionInv, Witness, NEW c \in Call, PutContents(c)
    PROVE  ActionInv'
<1> DEFINE s == Slots(call[c].ar)[Head(call[c].rest)]
<1>1. /\ call[c].pc = "putCAS" /\ call[c].rest # <<>>
      /\ UNCHANGED ac /\ UNCHANGED budget
  BY DEF PutContents
<1>2. call[c].end = "none" /\ ac' \in Result \cup {NoResult}
  BY <1>1, AtWork
<1>3. s \in Slot
  BY <1>1, NextRequest
<1>4. DigestOf(s) \in AnyBlob
  BY <1>3, SlotFields
<1>5. CASE s.raw = NoBlob /\ Confirm(c, {}, {})
  <2>1. Head(call[c].rest) \notin Contents(call[c].ar)
    BY <1>5 DEF Contents, Filled
  <2> QED
    BY <1>1, <1>5, <2>1, ConfirmStep
<1>6. CASE CasPut(s, Length(DigestOf(s))) /\ Confirm(c, {DigestOf(s)}, {})
  <2>1. DigestOf(s) \in Present'
    BY <1>6 DEF CasPut, Present
  <2>2. ContentBlob(call[c].ar, Head(call[c].rest)) = DigestOf(s)
    BY DEF ContentBlob
  <2> HIDE DEF s
  <2> QED
    BY <1>1, <1>4, <1>6, <2>1, <2>2, ConfirmStep
<1>7. CASE Error(c)
  BY <1>1, <1>2, <1>7, PlainErrorKeeps
<1> QED
  BY <1>5, <1>6, <1>7 DEF PutContents

\* One request of a batch.
LEMMA BatchNextStep ==
    ASSUME ActionInv, Witness, NEW c \in Call, BatchNext(c)
    PROVE  ActionInv'
<1> DEFINE s == Slots(call[c].ar)[Head(call[c].rest)]
<1>1. /\ call[c].pc = "putCAS" /\ call[c].rest # <<>> /\ call[c].kind = "batch"
      /\ UNCHANGED ac /\ UNCHANGED budget
  BY DEF BatchNext
<1>2. call[c].end = "none" /\ ac' \in Result \cup {NoResult}
  BY <1>1, AtWork
<1>3. s \in Slot
  BY <1>1, NextRequest
<1>4. s.digest \in AnyBlob
  BY <1>3, SlotFields
<1>5. CASE Error(c)
  BY <1>1, <1>2, <1>5, PlainErrorKeeps
<1>6. CASE Confirm(c, {}, {})
  BY <1>1, <1>6, ConfirmStep
<1>7. CASE Confirm(c, {s.digest}, {s.digest})
  BY <1>1, <1>4, <1>7, ConfirmStep
<1>8. CASE s.digest # NoBlob /\ CasPut(s, Length(s.raw)) /\ Confirm(c, {s.digest}, {})
  <2>1. s.digest \in Present'
    BY <1>8 DEF CasPut, DigestOf, Present
  <2> HIDE DEF s
  <2> QED
    BY <1>1, <1>4, <1>8, <2>1, ConfirmStep
<1> QED
  BY <1>5, <1>6, <1>7, <1>8 DEF BatchNext

\* What others do to the blobs and to the result.
LEMMA OutsideStep ==
    ASSUME ActionInv, Witness, (\E b \in Lossy : BlobComesOrGoes(b)) \/ ResultGoes
    PROVE  ActionInv'
<1>1. UNCHANGED <<call, budget>> /\ ac' \in {ac, NoResult}
  BY DEF BlobComesOrGoes, ResultGoes
<1>2. \A c \in Call : CallInv(call'[c], seen'[c])
  BY <1>1, OthersKeep
<1>3. (BudgetAccounted)'
  BY <1>1 DEF ActionInv, BudgetAccounted, Held
<1> QED
  BY <1>1, <1>2, <1>3 DEF ActionInv

\* The invariant holds initially.
LEMMA InitActionInv == Init => ActionInv
<1> SUFFICES ASSUME Init PROVE ActionInv
  OBVIOUS
<1>1. PICK kind \in Kind : call = [c \in Call |-> NewCall(kind[c])]
  BY DEF Init
<1>2. kind \in [Call -> Get \cup Update]
  BY ActionAssumption
<1>3. ac \in Result \cup {NoResult} /\ budget = 0 /\ seen = [c \in Call |-> {}]
  BY DEF Init
<1>4. ASSUME NEW c \in Call PROVE CallInv(call[c], seen[c]) /\ call[c].holds = FALSE
  <2>1. call[c] = NewCall(kind[c]) /\ kind[c] \in Get \cup Update /\ seen[c] = {}
    BY <1>1, <1>2, <1>3
  <2> DEFINE k == kind[c]
  <2> HIDE DEF k
  <2>2. k \in Get \cup Update
    BY <2>1 DEF k
  <2>3. CallInv(NewCall(k), {})
    BY <2>2, NewCallKeeps
  <2>4. NewCall(k).holds = FALSE
    BY <2>2, NewCallFields
  <2> QED
    BY <2>1, <2>3, <2>4 DEF k
<1>5. BudgetAccounted
  <2> DEFINE f == [c \in Call |-> Held(c)]
  <2>1. \A c \in Call : f[c] = 0
    BY <1>4 DEF Held
  <2>2. Budget \in Nat
    BY ActionAssumption
  <2>3. budget = SumOver(f, Call)
    <3> HIDE DEF f
    <3> QED
      BY <1>3, <2>1, SumZero
  <2> QED
    BY <1>3, <2>2, <2>3 DEF BudgetAccounted
<1>6. DOMAIN call = Call
  BY <1>1
<1> QED
  BY <1>3, <1>4, <1>5, <1>6 DEF ActionInv

\* Every step preserves it.
LEMMA NextActionInv == ActionInv /\ [Next]_vars => ActionInv'
<1> SUFFICES ASSUME ActionInv, [Next]_vars PROVE ActionInv'
  OBVIOUS
<1>1. CASE UNCHANGED vars
  BY <1>1 DEF vars, ActionInv, BudgetAccounted, Held
<1>2. ASSUME Witness, NEW c \in Call, Step(c) PROVE ActionInv'
  <2>1. CASE StartGet(c)
    BY <1>2, <2>1, StartGetStep
  <2>2. CASE TreesRead(c)
    BY <1>2, <2>2, TreesReadStep
  <2>3. CASE Validated(c)
    BY <1>2, <2>3, ValidatedStep
  <2>4. ASSUME NEW b \in call[c].todo, ReadTree(c, b) PROVE ActionInv'
    BY <1>2, <2>4, ReadTreeStep
  <2>5. ASSUME NEW b \in call[c].todo, Validate(c, b) PROVE ActionInv'
    BY <1>2, <2>5, ValidateStep
  <2>6. CASE (\E b \in call[c].todo : LookupLeaf(c, b)) \/ EmitFromWrite(c)
    BY <1>2, <2>6, EmitStep
  <2>7. CASE StripContents(c)
    BY <1>2, <2>7, StripContentsStep
  <2>8. CASE KeepSlot(c)
    BY <1>2, <2>8, KeepSlotStep
  <2>9. CASE InlineBlob(c)
    BY <1>2, <2>9, InlineBlobStep
  <2>10. CASE Inlined(c) \/ UpdateDone(c)
    BY <1>2, <2>10, SucceedStep
  <2>11. ASSUME NEW ar \in Result, StartUpdate(c, ar) \/ StartHttpPut(c, ar)
         PROVE  ActionInv'
    BY <1>2, <2>11, StartPutStep
  <2>12. ASSUME NEW ar \in Result, StartBatch(c, ar) PROVE ActionInv'
    BY <1>2, <2>12, StartBatchStep
  <2>13. CASE PutAC(c)
    BY <1>2, <2>13, PutACStep
  <2>14. CASE PutACFails(c)
    BY <1>2, <2>14, PutACFailsStep
  <2>15. CASE PutContents(c)
    BY <1>2, <2>15, PutContentsStep
  <2>16. CASE BatchNext(c)
    BY <1>2, <2>16, BatchNextStep
  <2> QED
    BY <1>2, <2>1, <2>2, <2>3, <2>4, <2>5, <2>6, <2>7, <2>8, <2>9, <2>10, <2>11,
       <2>12, <2>13, <2>14, <2>15, <2>16 DEF Step
<1>3. ASSUME Witness, (\E b \in Lossy : BlobComesOrGoes(b)) \/ ResultGoes
      PROVE  ActionInv'
  BY <1>3, OutsideStep
<1> QED
  BY <1>1, <1>2, <1>3 DEF Next

-----------------------------------------------------------------------------
(***************************************************************************)
(* What is confirmed was delivered, and its result was the stored one.     *)
(***************************************************************************)

\* A call that has stored its action result.
Stores(q) ==
    /\ q.kind \in {"grpcUpdate", "httpPut"}
    /\ q.pc \in {"emit", "putCAS"} \/ q.end = "ok"

AckInv ==
    \A c \in Call :
        /\ Stores(call[c]) => c \in stored
        /\ \A d \in call[c].acked \ call[c].excused : Delivers(call[c].ar, d)

\* A call that stores its result has one.
LEMMA StoresResult ==
    ASSUME ActionInv, NEW c \in Call, Stores(call[c])
    PROVE  call[c].ar # NoResult
<1>1. CallInv(call[c], seen[c])
  BY DEF ActionInv
<1>2. ~Idle(call[c])
  BY <1>1 DEF Stores, Idle, CallInv, PhaseInv
<1>3. call[c].ar \in Result
  BY <1>1, <1>2 DEF CallInv, PhaseInv
<1> QED
  BY <1>3, ActionAssumption

\* A step of call c keeps it if its new state does what the invariant says.
LEMMA AckBecomes ==
    ASSUME ActionInv, AckInv, Witness, UNCHANGED compressed, NEW c \in Call, NEW q,
           Becomes(c, q),
           Stores(q) => /\ q.ar # NoResult
                        /\ c \in stored \/ (call[c].end # "ok" /\ ac' = q.ar),
           \A d \in q.acked \ q.excused : Delivers(q.ar, d)
    PROVE  AckInv'
<1> SUFFICES ASSUME NEW o \in Call
             PROVE  /\ Stores(call[o])' => o \in stored'
                    /\ \A d \in call'[o].acked \ call'[o].excused :
                          Delivers(call[o].ar, d)'
  BY DEF AckInv
<1>1. DOMAIN call = Call
  BY DEF ActionInv
<1>2. call'[o] = IF o = c THEN q ELSE call[o]
  BY <1>1 DEF Becomes
<1>3. o \in stored' <=> /\ call'[o].ar # NoResult
                        /\ \/ o \in stored
                           \/ call[o].end # "ok" /\ ac' = call'[o].ar
  BY DEF Witness
<1>4. Stores(call[o])' <=> Stores(call'[o])
  BY DEF Stores
<1>5. CASE o = c
  <2>2. ASSUME NEW d \in q.acked \ q.excused PROVE Delivers(call[o].ar, d)'
    <3>1. Delivers(q.ar, d) /\ call'[o].ar = q.ar
      BY <1>2, <1>5, <2>2
    <3> QED
      BY <3>1 DEF Delivers
  <2> QED
    BY <1>2, <1>3, <1>4, <1>5, <2>2
<1>6. CASE o # c
  <2>1. call'[o] = call[o]
    BY <1>2, <1>6
  <2>2. ASSUME NEW d \in call[o].acked \ call[o].excused
        PROVE  Delivers(call[o].ar, d)'
    <3>1. Delivers(call[o].ar, d)
      BY <2>2 DEF AckInv
    <3> QED
      BY <2>1, <3>1 DEF Delivers
  <2>3. Stores(call[o]) => o \in stored /\ call[o].ar # NoResult
    BY StoresResult DEF AckInv
  <2> QED
    BY <1>3, <1>4, <2>1, <2>2, <2>3
<1> QED
  BY <1>5, <1>6

\* Nothing is confirmed, and the call had stored its result if it has now.
LEMMA AckQuiet ==
    ASSUME ActionInv, AckInv, Witness, UNCHANGED compressed, NEW c \in Call, NEW q,
           Becomes(c, q), q.ar = call[c].ar, q.acked = call[c].acked,
           call[c].excused \subseteq q.excused, Stores(q) => Stores(call[c])
    PROVE  AckInv'
<1>1. Stores(q) => q.ar # NoResult /\ c \in stored
  BY StoresResult DEF AckInv
<1>2. \A d \in q.acked \ q.excused : Delivers(q.ar, d)
  BY DEF AckInv
<1> QED
  BY <1>1, <1>2, AckBecomes

\* The call starts or fails: it has confirmed nothing, and stored nothing.
LEMMA AckFresh ==
    ASSUME ActionInv, AckInv, Witness, UNCHANGED compressed, NEW c \in Call, NEW q,
           Becomes(c, q), q.acked = {}, ~Stores(q)
    PROVE  AckInv'
  BY AckBecomes

\* The type of a call.
LEMMA CallTyped ==
    ASSUME ActionInv, NEW c \in Call
    PROVE  call[c] \in CallType /\ PhaseInv(call[c])
  BY DEF ActionInv, CallInv

\* A call fails.
LEMMA AckFails ==
    ASSUME ActionInv, AckInv, Witness, UNCHANGED compressed, NEW c \in Call,
           Error(c) \/ Fail(c, "notfound")
    PROVE  AckInv'
<1>1. PICK end \in {"error", "notfound"} : Fail(c, end)
  BY DEF Error
<1> DEFINE n == NewCall(call[c].kind)
           q == [n EXCEPT !.pc = "returned", !.end = end]
<1>2. Becomes(c, q)
  BY <1>1 DEF Fail
<1>3. call[c].kind \in Get \cup Update
  BY CallTyped DEF CallType
<1>4. n \in CallType /\ n.acked = {}
  BY <1>3, NewCallFields
<1> HIDE DEF n
<1>5. q.acked = {} /\ q.pc = "returned" /\ q.end = end
  BY <1>4 DEF CallType
<1> HIDE DEF q
<1>6. ~Stores(q)
  BY <1>5 DEF Stores
<1> QED
  BY <1>2, <1>5, <1>6, AckFresh

\* A blob is found, or excused.
LEMMA AckFound ==
    ASSUME ActionInv, AckInv, Witness, UNCHANGED compressed, NEW c \in Call, NEW b,
           (\E sized \in SUBSET {b} : Found(c, b, sized)) \/
           Becomes(c, [call[c] EXCEPT !.todo = @ \ {b}, !.excused = @ \cup {b}])
    PROVE  AckInv'
<1> DEFINE p == call[c]
<1>1. p \in CallType
  BY CallTyped
<1>2. ASSUME NEW sized \in SUBSET {b}, Found(c, b, sized) PROVE AckInv'
  <2> DEFINE todo == p.todo \ {b}
             size == p.sized \cup sized
             q == [p EXCEPT !.todo = todo, !.sized = size]
  <2>1. Becomes(c, q)
    BY <1>2 DEF Found
  <2> HIDE DEF p, todo, size
  <2>2. /\ q.kind = p.kind /\ q.pc = p.pc /\ q.end = p.end /\ q.ar = p.ar
        /\ q.acked = p.acked /\ q.excused = p.excused
    BY <1>1 DEF CallType
  <2> HIDE DEF q
  <2>3. Stores(q) => Stores(p)
    BY <2>2 DEF Stores
  <2> QED
    BY <2>1, <2>2, <2>3, AckQuiet DEF p
<1>3. ASSUME Becomes(c, [p EXCEPT !.todo = @ \ {b}, !.excused = @ \cup {b}])
      PROVE  AckInv'
  <2> DEFINE todo == p.todo \ {b}
             excused == p.excused \cup {b}
             q == [p EXCEPT !.todo = todo, !.excused = excused]
  <2>1. Becomes(c, q) /\ p.excused \subseteq excused
    BY <1>3
  <2> HIDE DEF p, todo, excused
  <2>2. /\ q.kind = p.kind /\ q.pc = p.pc /\ q.end = p.end /\ q.ar = p.ar
        /\ q.acked = p.acked /\ q.excused = excused
    BY <1>1 DEF CallType
  <2> HIDE DEF q
  <2>3. Stores(q) => Stores(p)
    BY <2>2 DEF Stores
  <2> QED
    BY <2>1, <2>2, <2>3, AckQuiet DEF p
<1> QED
  BY <1>2, <1>3

\* GetActionResult and GET of an action result confirm nothing.
LEMMA AckGet ==
    ASSUME ActionInv, AckInv, Witness, UNCHANGED compressed, NEW c \in Call,
           \/ StartGet(c) \/ TreesRead(c) \/ Validated(c)
           \/ \E b \in call[c].todo : ReadTree(c, b) \/ Validate(c, b)
    PROVE  AckInv'
<1> DEFINE p == call[c]
<1>1. p \in CallType /\ PhaseInv(p)
  BY CallTyped
<1>2. CASE StartGet(c)
  <2>1. CASE Error(c) \/ Fail(c, "notfound")
    BY <2>1, AckFails
  <2>2. ASSUME NEW want,
               Becomes(c, [p EXCEPT
                 !.ar = ac, !.slots = Slots(ac), !.want = want,
                 !.pc = IF p.kind = "nodepsGet" THEN "returned" ELSE "trees",
                 !.end = IF p.kind = "nodepsGet" THEN "ok" ELSE "none",
                 !.todo = ac.dirs, !.leaves = Pending(ac) \cup ac.dirs])
        PROVE  AckInv'
    <3> DEFINE slots == Slots(ac)
               todo == ac.dirs
               leaves == Pending(ac) \cup ac.dirs
               pc == IF p.kind = "nodepsGet" THEN "returned" ELSE "trees"
               end == IF p.kind = "nodepsGet" THEN "ok" ELSE "none"
               q == [p EXCEPT !.ar = ac, !.slots = slots, !.want = want, !.pc = pc,
                              !.end = end, !.todo = todo, !.leaves = leaves]
    <3>1. Becomes(c, q)
      BY <2>2
    <3>2. p.kind \in Get /\ p.pc = "start" /\ p.acked = {}
      <4>1. CallInv(p, seen[c]) /\ p.pc = "start" /\ p.kind \in Get
        BY <1>2 DEF StartGet, ActionInv
      <4> QED
        BY <4>1, Unstarted
    <3> HIDE DEF p, slots, todo, leaves, pc, end
    <3>3. q.kind = p.kind /\ q.acked = p.acked
      BY <1>1 DEF CallType
    <3> HIDE DEF q
    <3>4. ~Stores(q)
      BY <3>2, <3>3 DEF Stores, Get
    <3> QED
      BY <3>1, <3>2, <3>3, <3>4, AckFresh
  <2> QED
    BY <1>2, <2>1, <2>2 DEF StartGet
<1>3. CASE TreesRead(c)
  <2> DEFINE todo == Pending(p.ar)
             q == [p EXCEPT !.pc = "validate", !.todo = todo]
  <2>1. Becomes(c, q) /\ p.pc = "trees"
    BY <1>3 DEF TreesRead
  <2> HIDE DEF p, todo
  <2>2. /\ q.kind = p.kind /\ q.ar = p.ar
        /\ q.acked = p.acked /\ q.excused = p.excused
    BY <1>1 DEF CallType
  <2> HIDE DEF q
  <2>3. ~Stores(q)
    BY <1>1, <2>1, <2>2 DEF Stores, PhaseInv
  <2> QED
    BY <2>1, <2>2, <2>3, AckQuiet DEF p
<1>4. CASE Validated(c)
  <2> DEFINE emitted == emitFromHit(c)
             pc == IF p.kind # "grpcGet" THEN "returned" ELSE "inline"
             end == IF p.kind # "grpcGet" THEN "ok" ELSE "none"
             rest == [i \in DOMAIN Slots(p.ar) |-> i]
             q == [p EXCEPT !.emitted = emitted, !.pc = pc, !.end = end, !.rest = rest]
  <2>1. Becomes(c, q) /\ p.pc = "validate"
    BY <1>4, Zenon DEF Validated
  <2> HIDE DEF p, emitted, pc, end, rest
  <2>2. /\ q.kind = p.kind /\ q.ar = p.ar
        /\ q.acked = p.acked /\ q.excused = p.excused
    BY <1>1 DEF CallType
  <2> HIDE DEF q
  <2>3. ~Stores(q)
    BY <1>1, <2>1, <2>2 DEF Stores, PhaseInv
  <2> QED
    BY <2>1, <2>2, <2>3, AckQuiet DEF p
<1>5. ASSUME NEW b \in call[c].todo, ReadTree(c, b) \/ Validate(c, b) PROVE AckInv'
  <2>1. CASE ReadTree(c, b)
    BY <2>1, AckFails, AckFound DEF ReadTree
  <2>2. CASE Validate(c, b)
    <3>1. {} \in SUBSET {b} /\ {b} \in SUBSET {b}
      OBVIOUS
    <3> QED
      BY <2>2, <3>1, AckFails, AckFound DEF Validate
  <2> QED
    BY <1>5, <2>1, <2>2
<1> QED
  BY <1>2, <1>3, <1>4, <1>5

\* Nor does maybeInline; and a call that succeeds has stored its result before.
LEMMA AckInline ==
    ASSUME ActionInv, AckInv, Witness, UNCHANGED compressed, NEW c \in Call,
           \/ StripContents(c) \/ KeepSlot(c) \/ InlineBlob(c)
           \/ Inlined(c) \/ UpdateDone(c)
    PROVE  AckInv'
<1> DEFINE p == call[c]
<1>1. p \in CallType /\ PhaseInv(p)
  BY CallTyped
<1>2. ASSUME NEW s, NEW n, p.pc = "inline", SlotDone(c, s, n) PROVE AckInv'
  <2> DEFINE rest == Tail(p.rest)
             soFar == p.soFar + n
             slots == [p.slots EXCEPT ![Head(p.rest)] = s]
             q == [p EXCEPT !.rest = rest, !.soFar = soFar, !.slots = slots]
  <2>1. Becomes(c, q)
    BY <1>2, Zenon DEF SlotDone
  <2> HIDE DEF p, rest, soFar, slots
  <2>2. /\ q.kind = p.kind /\ q.ar = p.ar
        /\ q.acked = p.acked /\ q.excused = p.excused
    BY <1>1 DEF CallType
  <2> HIDE DEF q
  <2>3. ~Stores(q)
    BY <1>1, <1>2, <2>2 DEF Stores, PhaseInv
  <2> QED
    BY <2>1, <2>2, <2>3, AckQuiet DEF p
<1>3. CASE Inlined(c) \/ UpdateDone(c)
  <2> DEFINE none == {}
             q == [p EXCEPT !.pc = "returned", !.end = "ok", !.sized = none, !.soFar = 0]
  <2>1. Becomes(c, q) /\ p.pc \in {"inline", "putCAS"}
    BY <1>3 DEF Inlined, UpdateDone, Succeed
  <2> HIDE DEF p, none
  <2>2. /\ q.kind = p.kind /\ q.ar = p.ar
        /\ q.acked = p.acked /\ q.excused = p.excused
    BY <1>1 DEF CallType
  <2> HIDE DEF q
  <2>3. Stores(q) => Stores(p)
    BY <1>1, <2>1, <2>2 DEF Stores, PhaseInv
  <2> QED
    BY <2>1, <2>2, <2>3, AckQuiet DEF p
<1>4. CASE StripContents(c)
  BY <1>2, <1>4, AckFails DEF StripContents
<1>5. CASE KeepSlot(c)
  BY <1>2, <1>5 DEF KeepSlot
<1>6. CASE InlineBlob(c)
  BY <1>2, <1>6, AckFails DEF InlineBlob
<1> QED
  BY <1>3, <1>4, <1>5, <1>6

\* The calls that send a result or blobs start.
LEMMA AckStart ==
    ASSUME ActionInv, AckInv, Witness, UNCHANGED compressed, NEW c \in Call,
           NEW ar \in Result,
           StartUpdate(c, ar) \/ StartHttpPut(c, ar) \/ StartBatch(c, ar)
    PROVE  AckInv'
<1> DEFINE p == call[c]
<1>1. p \in CallType /\ p.acked = {} /\ p.end = "none"
  <2>1. CallInv(p, seen[c]) /\ p.pc = "start"
    BY DEF ActionInv, StartUpdate, StartHttpPut, StartBatch
  <2> QED
    BY <2>1, Unstarted
<1>2. CASE Error(c)
  BY <1>2, AckFails
<1>3. CASE StartStore(c, ar)
  <2> DEFINE h == Captured(ar)
             q == [p EXCEPT !.pc = "putAC", !.ar = ar, !.holds = h]
  <2>1. Becomes(c, q)
    BY <1>3 DEF StartStore
  <2> HIDE DEF p, h
  <2>2. q.acked = p.acked /\ q.pc = "putAC" /\ q.end = p.end
    BY <1>1 DEF CallType
  <2> HIDE DEF q
  <2>3. ~Stores(q)
    BY <1>1, <2>2 DEF Stores
  <2> QED
    BY <1>1, <2>1, <2>2, <2>3, AckFresh
<1>4. CASE StartBatch(c, ar)
  <2> DEFINE rest == [i \in DOMAIN ar.files |-> i + 2]
             q == [p EXCEPT !.pc = "putCAS", !.ar = ar, !.rest = rest]
  <2>1. Becomes(c, q) /\ p.kind = "batch"
    BY <1>4 DEF StartBatch
  <2> HIDE DEF p, rest
  <2>2. q.acked = p.acked /\ q.kind = p.kind
    BY <1>1 DEF CallType
  <2> HIDE DEF q
  <2>3. ~Stores(q)
    BY <2>1, <2>2 DEF Stores
  <2> QED
    BY <1>1, <2>1, <2>2, <2>3, AckFresh
<1> QED
  BY <1>2, <1>3, <1>4 DEF StartUpdate, StartHttpPut

\* Put returns.
LEMMA AckPutDone ==
    ASSUME ActionInv, AckInv, Witness, UNCHANGED compressed, NEW c \in Call,
           NEW emitted, PutDone(c, emitted), call[c].end = "none",
           call[c].pc \in {"putAC", "emit"}, call[c].pc = "putAC" => ac' = call[c].ar
    PROVE  AckInv'
<1> DEFINE p == call[c]
           pc == IF p.kind = "httpPut" THEN "returned" ELSE "putCAS"
           end == IF p.kind = "httpPut" THEN "ok" ELSE "none"
           rest == IF p.kind = "httpPut" THEN <<>> ELSE StoreOrder(p.ar)
           no == FALSE
           q == [p EXCEPT !.pc = pc, !.end = end, !.rest = rest,
                          !.emitted = emitted, !.holds = no]
<1>1. Becomes(c, q)
  BY Zenon DEF PutDone
<1>2. p \in CallType /\ PhaseInv(p)
  BY CallTyped
<1>3. p.ar \in Result /\ NoResult \notin Result
  BY AtWork, ActionAssumption
<1>4. /\ p.pc \in {"putAC", "emit"} /\ (p.pc = "putAC" => ac' = p.ar) /\ p.end = "none"
      /\ Stores(p) => c \in stored
      /\ \A d \in p.acked \ p.excused : Delivers(p.ar, d)
  BY DEF AckInv
<1> HIDE DEF p, pc, end, rest, no
<1>5. /\ q.kind = p.kind /\ q.ar = p.ar
      /\ q.acked = p.acked /\ q.excused = p.excused
  BY <1>2 DEF CallType
<1> HIDE DEF q
<1>6. c \in stored \/ (p.end # "ok" /\ ac' = q.ar)
  BY <1>2, <1>4, <1>5 DEF Stores, PhaseInv
<1> QED
  BY <1>1, <1>3, <1>4, <1>5, <1>6, AckBecomes DEF p

\* Put of an action result: what it commits is the stored result.
LEMMA AckPut ==
    ASSUME ActionInv, AckInv, Witness, UNCHANGED compressed, NEW c \in Call,
           \/ PutAC(c) \/ PutACFails(c) \/ EmitFromWrite(c)
           \/ \E b \in call[c].todo : LookupLeaf(c, b)
    PROVE  AckInv'
<1> DEFINE p == call[c]
<1>1. p \in CallType /\ PhaseInv(p) /\ p.end = "none" /\ p.pc \in {"putAC", "emit"}
  BY CallTyped, AtWork DEF PutAC, PutACFails, EmitFromWrite, LookupLeaf
<1>2. CASE PutACFails(c)
  BY <1>2, AckFails DEF PutACFails
<1>3. CASE EmitFromWrite(c)
  BY <1>1, <1>3, AckPutDone DEF EmitFromWrite
<1>4. ASSUME NEW b \in call[c].todo, LookupLeaf(c, b) PROVE AckInv'
  <2>1. {} \in SUBSET {b} /\ p.pc = "emit"
    BY <1>4 DEF LookupLeaf
  <2> QED
    BY <1>1, <1>4, <2>1, AckFound, AckPutDone DEF LookupLeaf
<1>5. CASE PutAC(c)
  <2>1. ac' = p.ar /\ p.pc = "putAC"
    BY <1>5 DEF PutAC
  <2>2. CASE PutDone(c, FALSE)
    BY <1>1, <2>1, <2>2, AckPutDone
  <2>3. CASE Becomes(c, [p EXCEPT !.pc = "emit", !.todo = Pending(p.ar),
                                  !.leaves = Pending(p.ar)])
    <3> DEFINE todo == Pending(p.ar)
               q == [p EXCEPT !.pc = "emit", !.todo = todo, !.leaves = todo]
    <3>1. Becomes(c, q)
      BY <2>3
    <3>2. p.ar \in Result /\ NoResult \notin Result
      BY <2>1, AtWork, ActionAssumption
    <3>3. \A d \in p.acked \ p.excused : Delivers(p.ar, d)
      BY DEF AckInv
    <3> HIDE DEF p, todo
    <3>4. /\ q.ar = p.ar /\ q.acked = p.acked /\ q.excused = p.excused
      BY <1>1 DEF CallType
    <3> HIDE DEF q
    <3> QED
      BY <1>1, <2>1, <3>1, <3>2, <3>3, <3>4, AckBecomes DEF p
  <2> QED
    BY <1>5, <2>2, <2>3 DEF PutAC
<1> QED
  BY <1>2, <1>3, <1>4, <1>5

\* Contents that Put takes are those of the blob, as far as it looks.
LEMMA PutDelivers ==
    ASSUME NEW s \in Slot, NEW n, CasPut(s, n)
    PROVE  compressed /\ DigestOf(s) # EmptyBlob => s.raw = DigestOf(s)
  BY DEF CasPut

\* Contents are confirmed.
LEMMA AckConfirm ==
    ASSUME ActionInv, AckInv, Witness, UNCHANGED compressed, NEW c \in Call,
           PutContents(c) \/ BatchNext(c)
    PROVE  AckInv'
<1> DEFINE p == call[c]
           i == Head(p.rest)
           s == Slots(p.ar)[i]
<1>1. /\ p \in CallType /\ PhaseInv(p) /\ p.ar \in Result /\ p.end = "none"
      /\ p.pc = "putCAS" /\ p.rest # <<>>
  BY CallTyped, AtWork DEF PutContents, BatchNext
<1>2. s \in Slot
  BY <1>1, NextRequest
<1>3. i \in DOMAIN Slots(p.ar)
  <2>1. /\ p.rest \in Seq(Nat)
        /\ \A j \in 1 .. Len(p.rest) : p.rest[j] \in DOMAIN Slots(p.ar)
    BY <1>1 DEF ActionInv, CallInv, CallType, StoreInv
  <2> DEFINE r == p.rest
  <2>2. r \in Seq(Nat) /\ r # <<>>
    BY <1>1, <2>1
  <2> HIDE DEF r
  <2>3. Head(r) = r[1] /\ 1 \in 1 .. Len(r)
    BY <2>2, TailElements
  <2> QED
    BY <2>1, <2>3 DEF r
<1>4. ASSUME NEW acked, NEW excused, Confirm(c, acked, excused),
             \A d \in acked \ excused : Delivers(p.ar, d)
      PROVE  AckInv'
  <2> DEFINE rest == Tail(p.rest)
             ack == p.acked \cup acked
             exc == p.excused \cup excused
             q == [p EXCEPT !.rest = rest, !.acked = ack, !.excused = exc]
  <2>1. Becomes(c, q)
    BY <1>4 DEF Confirm
  <2>2. \A d \in ack \ exc : Delivers(p.ar, d)
    <3>1. \A d \in p.acked \ p.excused : Delivers(p.ar, d)
      BY DEF AckInv
    <3> QED
      BY <1>4, <3>1
  <2>3. Stores(p) => c \in stored
    BY DEF AckInv
  <2> HIDE DEF p, rest, ack, exc
  <2>4. /\ q.kind = p.kind /\ q.pc = p.pc /\ q.end = p.end /\ q.ar = p.ar
        /\ q.acked = ack /\ q.excused = exc
    BY <1>1 DEF CallType
  <2> HIDE DEF q
  <2>5. Stores(q) => c \in stored
    BY <2>3, <2>4 DEF Stores
  <2>6. q.ar # NoResult
    BY <1>1, <2>4, ActionAssumption
  <2> QED
    BY <2>1, <2>2, <2>4, <2>5, <2>6, AckBecomes
<1>5. ASSUME NEW n, CasPut(s, n) PROVE Delivers(p.ar, DigestOf(s))
  <2>1. compressed /\ DigestOf(s) # EmptyBlob => s.raw = DigestOf(s)
    BY <1>2, <1>5, PutDelivers
  <2> QED
    BY <1>3, <2>1 DEF Delivers
<1>6. CASE PutContents(c)
  <2>1. CASE Error(c)
    BY <2>1, AckFails
  <2>2. CASE Confirm(c, {}, {})
    BY <1>4, <2>2
  <2>3. CASE CasPut(s, Length(DigestOf(s))) /\ Confirm(c, {DigestOf(s)}, {})
    BY <1>4, <1>5, <2>3
  <2> QED
    BY <1>6, <2>1, <2>2, <2>3 DEF PutContents
<1>7. CASE BatchNext(c)
  <2>1. CASE Error(c)
    BY <2>1, AckFails
  <2>2. CASE Confirm(c, {}, {}) \/ Confirm(c, {s.digest}, {s.digest})
    BY <1>4, <2>2
  <2>3. CASE s.digest # NoBlob /\ CasPut(s, Length(s.raw)) /\ Confirm(c, {s.digest}, {})
    <3>1. DigestOf(s) = s.digest
      BY <2>3 DEF DigestOf
    <3> QED
      BY <1>4, <1>5, <2>3, <3>1
  <2> QED
    BY <1>7, <2>1, <2>2, <2>3 DEF BatchNext
<1> QED
  BY <1>6, <1>7

\* It holds initially.
LEMMA InitAckInv == Init => AckInv
<1> SUFFICES ASSUME Init, NEW c \in Call
             PROVE  ~Stores(call[c]) /\ call[c].acked = {}
  BY DEF AckInv
<1>1. PICK kind \in Kind : call = [o \in Call |-> NewCall(kind[o])]
  BY DEF Init
<1> DEFINE k == kind[c]
<1>2. k \in Get \cup Update
  BY ActionAssumption
<1>3. call[c] = NewCall(k)
  BY <1>1
<1> HIDE DEF k
<1>4. NewCall(k).acked = {} /\ NewCall(k).pc = "start" /\ NewCall(k).end = "none"
  BY <1>2, NewCallFields
<1> QED
  BY <1>3, <1>4 DEF Stores

\* Every step preserves it.
LEMMA NextAckInv == ActionInv /\ AckInv /\ [Next]_vars => AckInv'
<1> SUFFICES ASSUME ActionInv, AckInv, [Next]_vars PROVE AckInv'
  OBVIOUS
<1>1. CASE UNCHANGED vars
  BY <1>1 DEF vars, AckInv, Stores, Delivers
<1>2. ASSUME Witness, UNCHANGED compressed, NEW c \in Call, Step(c) PROVE AckInv'
  BY <1>2, AckGet, AckInline, AckStart, AckPut, AckConfirm DEF Step
<1>3. ASSUME Witness, UNCHANGED compressed, UNCHANGED call PROVE AckInv'
  <2> SUFFICES ASSUME NEW c \in Call
               PROVE  /\ Stores(call[c]) => c \in stored'
                      /\ \A d \in call[c].acked \ call[c].excused :
                            Delivers(call[c].ar, d)'
    BY <1>3 DEF AckInv, Stores
  <2>1. Stores(call[c]) => c \in stored /\ call[c].ar # NoResult
    BY StoresResult DEF AckInv
  <2>2. ASSUME NEW d \in call[c].acked \ call[c].excused PROVE Delivers(call[c].ar, d)'
    <3>1. Delivers(call[c].ar, d)
      BY <2>2 DEF AckInv
    <3> QED
      BY <1>3, <3>1 DEF Delivers
  <2> QED
    BY <1>3, <2>1, <2>2 DEF Witness
<1> QED
  BY <1>1, <1>2, <1>3 DEF Next, BlobComesOrGoes, ResultGoes

-----------------------------------------------------------------------------

\* The invariants say what the properties of ActionCache ask for.
LEMMA ActionInvProperties ==
    ActionInv /\ AckInv => /\ HitIsComplete /\ InlineBounded /\ ClosureIsComplete
                           /\ BudgetAccounted /\ AckedIsStored
<1> SUFFICES ASSUME ActionInv, AckInv
             PROVE  /\ HitIsComplete /\ InlineBounded /\ ClosureIsComplete
                    /\ BudgetAccounted /\ AckedIsStored
  OBVIOUS
<1>1. HitIsComplete
  BY DEF ActionInv, CallInv, SeenInv, HitIsComplete, Get
<1>2. InlineBounded
  BY DEF ActionInv, CallInv, InlineInv, InlineBounded
<1>3. ClosureIsComplete
  BY DEF ActionInv, CallInv, ClosureInv, ClosureIsComplete
<1>4. AckedIsStored
  BY DEF ActionInv, CallInv, StoreInv, AckInv, Stores, AckedIsStored, ContentBlob, Update
<1>5. BudgetAccounted
  BY DEF ActionInv
<1> QED
  BY <1>1, <1>2, <1>3, <1>4, <1>5

\* The inductive invariants hold in every state.
LEMMA ActionInvariance == Spec => [](ActionInv /\ AckInv)
  BY InitActionInv, NextActionInv, InitAckInv, NextAckInv, PTL DEF Spec

\* GetActionResult and GET of an action result give no pointer to a blob that was
\* not there during the call.
THEOREM HitsAreComplete == Spec => []HitIsComplete
  BY ActionInvariance, ActionInvProperties, PTL

\* What GetActionResult inlines was asked for and stays below maxInlineSize.
THEOREM InliningIsBounded == Spec => []InlineBounded
  BY ActionInvariance, ActionInvProperties, PTL

\* A closure that is emitted, on a hit or on a write, has every blob that its result
\* names, except for output files whose contents are in the result, and each blob of
\* it was there during the call.
THEOREM ClosuresAreComplete == Spec => []ClosureIsComplete
  BY ActionInvariance, ActionInvProperties, PTL

\* The capture budget is given back on every way out of Put, and never exceeded.
THEOREM BudgetIsAccounted == Spec => []BudgetAccounted
  BY ActionInvariance, ActionInvProperties, PTL

\* UpdateActionResult, PUT of an action result and BatchUpdateBlobs confirm only what
\* they have stored, and a cache that compresses only the contents of the blob; except
\* for a batch request with an unknown compressor.
THEOREM AcknowledgedIsStored == Spec => []AckedIsStored
  BY ActionInvariance, ActionInvProperties, PTL
=============================================================================
