----------------------------- MODULE Migration ------------------------------
(***************************************************************************)
(* migrateDirectory of cache/disk/load.go: at startup the files of an old  *)
(* cache directory (ac, cas or raw) are renamed into the new structure by  *)
(* a pool of goroutines, which the main goroutine feeds through an         *)
(* unbuffered channel and which report a failure through another one.      *)
(*                                                                         *)
(* An entry of the old directory is a file of the v0 structure, or a       *)
(* subdirectory of the v1 structure with files of its own, or something    *)
(* else that is left alone.                                                *)
(***************************************************************************)
EXTENDS Naturals, FiniteSets

CONSTANTS
    Entry,      \* the entries of the old directory
    SubDir,     \* those that are subdirectories
    Files,      \* the blobs of each entry: itself, those of a subdirectory, none
    MigrateWorker

AllFiles == UNION {Files[e] : e \in Entry}

ASSUME MigrationAssumption ==
    /\ SubDir \subseteq Entry
    /\ Entry \cap {"idle", "error", "ended"} = {}
    /\ DOMAIN Files = Entry
    /\ \A e \in Entry \ SubDir : Files[e] \in {{}, {e}}
    /\ \A e, f \in Entry : e # f => Files[e] \cap Files[f] = {}

VARIABLES
    oldDir,   \* whether the old directory exists
    place,    \* where each file is: in the old structure, in the new, nowhere
    unread,   \* history: the subdirectories whose migration failed
    listing,  \* the entries that are still to be sent to a worker
    itemChan, \* whether the channel is open
    mworker,  \* what each worker does: the entry it has, or a state
    migErr,   \* whether the main goroutine has received an error
    migrating \* the main goroutine: "no", in the loop, in wg.Wait, or how it ended

migVars == <<oldDir, place, unread, listing, itemChan, mworker, migErr, migrating>>

InitMigration ==
    /\ oldDir = TRUE
    /\ place = [f \in AllFiles |-> "old"]
    /\ unread = {} /\ listing = {}
    /\ itemChan = "open" /\ migErr = FALSE
    /\ mworker = [w \in MigrateWorker |-> "idle"]
    /\ migrating = "no"

\* The entries that a directory listing shows: those not migrated before.
Listed == {e \in Entry : Files[e] = {} \/ \E f \in Files[e] : place[f] = "old"}

\* Stat and ReadDir, and the start of the workers.  Without the directory there is
\* nothing to do; it may be there without blobs, and it may not be readable.
ListDirectory ==
    /\ migrating = "no"
    /\ \/ ~oldDir /\ migrating' = "done" /\ UNCHANGED listing
       \/ oldDir /\ migrating' = "loop" /\ listing' = Listed
       \/ oldDir /\ migrating' = "failed" /\ UNCHANGED listing
    /\ UNCHANGED <<oldDir, place, unread, itemChan, mworker, migErr>>

\* The select in the loop: an idle worker takes the next entry.
SendItem(w, e) ==
    /\ migrating = "loop" /\ e \in listing
    /\ itemChan = "open" /\ mworker[w] = "idle"
    /\ listing' = listing \ {e}
    /\ mworker' = [mworker EXCEPT ![w] = e]
    /\ UNCHANGED <<oldDir, place, unread, itemChan, migErr, migrating>>

\* A file of the entry is renamed.
MoveFile(w, f) ==
    /\ mworker[w] \in Entry /\ f \in Files[mworker[w]]
    /\ place[f] = "old"
    /\ place' = [place EXCEPT ![f] = "new"]
    /\ UNCHANGED <<oldDir, unread, listing, itemChan, mworker, migErr, migrating>>

\* The entry is done: everything is renamed, or there was nothing to rename.
EntryDone(w) ==
    /\ mworker[w] \in Entry
    /\ \A f \in Files[mworker[w]] : place[f] # "old"
    /\ mworker' = [mworker EXCEPT ![w] = "idle"]
    /\ UNCHANGED <<oldDir, place, unread, listing, itemChan, migErr, migrating>>

\* A rename fails, or a subdirectory has a file with an unexpected name: for a
\* subdirectory this is a warning, for a file the worker sends the error.
EntryFails(w) ==
    /\ mworker[w] \in Entry
    /\ \E f \in Files[mworker[w]] : place[f] = "old"
    /\ IF mworker[w] \in SubDir
       THEN /\ unread' = unread \cup {mworker[w]}
            /\ mworker' = [mworker EXCEPT ![w] = "idle"]
       ELSE /\ mworker' = [mworker EXCEPT ![w] = "error"]
            /\ UNCHANGED unread
    /\ UNCHANGED <<oldDir, place, listing, itemChan, migErr, migrating>>

\* The select in the loop: a worker's error comes in place of the send of entry e,
\* and the channel is closed; closing it twice is a panic.
RecvError(w, e) ==
    /\ migrating = "loop" /\ e \in listing
    /\ mworker[w] = "error"
    /\ mworker' = [mworker EXCEPT ![w] = "ended"]
    /\ listing' = listing \ {e}
    /\ migErr' = TRUE
    /\ itemChan' = "closed"
    /\ migrating' = IF itemChan = "closed" THEN "panic" ELSE "loop"
    /\ UNCHANGED <<oldDir, place, unread>>

\* The loop goes on after an error: the next send is one to a closed channel.
SendToClosed ==
    /\ migrating = "loop" /\ listing # {}
    /\ itemChan = "closed"
    /\ migrating' = "panic"
    /\ UNCHANGED <<oldDir, place, unread, listing, itemChan, mworker, migErr>>

\* The end of the loop: close the channel, and wait for the workers.
LoopDone ==
    /\ migrating = "loop" /\ listing = {}
    /\ itemChan' = "closed"
    /\ migrating' = IF itemChan = "closed" THEN "panic" ELSE "wait"
    /\ UNCHANGED <<oldDir, place, unread, listing, mworker, migErr>>

WorkerDone(w) ==
    /\ mworker[w] = "idle" /\ itemChan = "closed"
    /\ mworker' = [mworker EXCEPT ![w] = "ended"]
    /\ UNCHANGED <<oldDir, place, unread, listing, itemChan, migErr, migrating>>

RemoveAll_TooEarly ==
    /\ migrating = "wait"
    /\ place' = [f \in AllFiles |-> IF place[f] = "old" THEN "nowhere" ELSE place[f]]
    /\ migrating' = "done" /\ oldDir' = FALSE
    /\ UNCHANGED <<unread, listing, itemChan, mworker, migErr>>

\* All workers have ended: os.RemoveAll of the old directory, with what is left in
\* it.  It may fail half way.  An error received in the loop would be returned here,
\* but see LoopDone.
RemoveAll ==
    LET left == {f \in AllFiles : place[f] = "old"} IN
    /\ migrating = "wait" /\ \A w \in MigrateWorker : mworker[w] = "ended"
    /\ \E gone \in IF migErr THEN {{}} ELSE SUBSET left :
          /\ place' = [f \in AllFiles |-> IF f \in gone THEN "nowhere" ELSE place[f]]
          /\ \/ migrating' = "failed" /\ UNCHANGED oldDir
             \/ gone = left /\ ~migErr /\ migrating' = "done" /\ oldDir' = FALSE
    /\ UNCHANGED <<unread, listing, itemChan, mworker, migErr>>

MigrationStep ==
    \/ ListDirectory \/ SendToClosed \/ LoopDone \/ RemoveAll
    \/ \E w \in MigrateWorker :
          \/ EntryDone(w) \/ EntryFails(w) \/ WorkerDone(w)
          \/ \E e \in Entry : SendItem(w, e) \/ RecvError(w, e)
          \/ \E f \in AllFiles : MoveFile(w, f)

\* A worker cannot get rid of its error once the loop is over.
Stuck == migrating = "wait" /\ \E w \in MigrateWorker : mworker[w] = "error"

\* What a restart keeps: the directory and the files.
RestartMigration ==
    /\ listing' = {} /\ itemChan' = "open" /\ migErr' = FALSE
    /\ mworker' = [w \in MigrateWorker |-> "idle"]
    /\ migrating' = "no"
    /\ UNCHANGED <<oldDir, place, unread>>
=============================================================================
