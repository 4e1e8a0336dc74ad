----------------------------- MODULE BlobStore ------------------------------
(***************************************************************************)
(* What the disk cache promises to the servers in front of it, without     *)
(* files, reservations or an eviction order: a store that may forget       *)
(* anything at any moment, but that never makes anything up.               *)
(*                                                                         *)
(*   - A Put that succeeds has stored its blob, unless it was forgotten    *)
(*     at once, and never leaves an older blob in its place; only genuine  *)
(*     blobs (those whose contents match their hash) are ever stored.      *)
(*   - A Get hits only what the store had at some moment of the call, or   *)
(*     what it has just brought into the store.                            *)
(*   - A Get misses only if the store was without the blob at some moment  *)
(*     of the call, or if it met the blob and could not read it.           *)
(*                                                                         *)
(* Module DiskCache implements this specification.                         *)
(***************************************************************************)
EXTENDS Integers

CONSTANTS
    Client,   \* the callers, one call each at a time
    Genuine   \* the blobs [key, size, ...] that may be stored

VARIABLES
    store,    \* what is stored: a function from keys to blobs
    call,     \* the call of each client
    had,      \* the clients known to have met their blob during their Get
    excused   \* the clients whose blob was not there at some moment of their Get,
              \* or could not be read

storeVars == <<store, call, had, excused>>

NoCall == [op |-> "none"]

Running(c) == call[c].op # "none" /\ call[c].result = "running"

\* Whether s has what a Get of key k asks for; a size of -1 is unknown.
Fits(s, g) == g.key \in DOMAIN s /\ g.size \in {-1, s[g.key].size}

-----------------------------------------------------------------------------

Init ==
    /\ store = [k \in {} |-> 0]
    /\ call = [c \in Client |-> NoCall]
    /\ had = {} /\ excused = {}

\* Blobs may be forgotten, none is added or changed but the one of key k.
Keeps(k) ==
    \A j \in DOMAIN store' \ {k} : j \in DOMAIN store /\ store'[j] = store[j]

Forgets == Keeps("none")

\* What becomes known of the running Gets in this step.  Only a Get that has met its
\* blob can find that it cannot be read.
Watched ==
    LET gets    == {c \in Client : call'[c].op = "Get"}
        without == {c \in gets : ~Fits(store, call'[c]) \/ ~Fits(store', call'[c])}
    IN  /\ had' \subseteq had \cup {c \in gets : Fits(store, call'[c]) \/ Fits(store', call'[c])}
        /\ without \cup (gets \cap excused) \subseteq excused'
        /\ excused' \subseteq gets \cap (without \cup excused \cup had)

\* A call may fail, and a Get may miss, as soon as it begins.
Begin(c) ==
    /\ call[c] = NoCall
    /\ \/ call'[c].op \in {"Put", "Get"} /\ call'[c].result \in {"running", "failed"}
       \/ call'[c].op = "Get" /\ call'[c].result = "miss" /\ c \in excused'
    /\ Forgets

\* A call that ends at once, or one whose answer has been given.
End(c) == call'[c] = NoCall /\ Forgets

Answers(c, result) ==
    /\ Running(c)
    /\ call'[c] = [call[c] EXCEPT !.result = result]

\* Blob b replaces what was stored for its key.  It may be forgotten in the same
\* step: an eviction for want of space can reach the new blob itself.
Stores(b) ==
    /\ b \in Genuine
    /\ b.key \in DOMAIN store' => store'[b.key] = b
    /\ Keeps(b.key)

PutSucceeds(c) ==
    call[c].op = "Put" /\ Answers(c, "ok") /\ Stores(call[c].blob)

GetHits(c) ==
    /\ call[c].op = "Get" /\ Answers(c, "hit")
    /\ \/ /\ c \in had \/ Fits(store, call[c])
          /\ Forgets
       \/ \E b \in Genuine :
            /\ b.key = call[c].key /\ call[c].size \in {-1, b.size}
            /\ Stores(b)

GetMisses(c) ==
    /\ call[c].op = "Get" /\ Answers(c, "miss")
    /\ c \in excused'
    /\ Forgets

Fails(c) == Answers(c, "failed") /\ Forgets

\* A step of call c, an answer at once included.
CallStep(c) ==
    /\ \A d \in Client \ {c} : call'[d] = call[d]
    /\ \/ Begin(c) \/ End(c)
       \/ PutSucceeds(c) \/ GetHits(c) \/ GetMisses(c) \/ Fails(c)

Forget == call' = call /\ Forgets

Next == ((\E c \in Client : CallStep(c)) \/ Forget) /\ Watched

Spec == Init /\ [][Next]_storeVars
=============================================================================
