--------------------------- MODULE Server_proofs ----------------------------
(***************************************************************************)
(* What a start, a stop and a restart keep, for any old cache directory,   *)
(* any number of workers, requests and restarts: the migration loses no    *)
(* file, and an orderly stop cuts off no gRPC call.  And what one of these *)
(* calls, ByteStream.Write, answers, for all sizes, offsets and numbers of *)
(* messages.                                                               *)
(***************************************************************************)
EXTENDS Server, ByteStreamWrite, TLAPS

\* The types of what the proofs below update.
Types ==
    /\ place \in [AllFiles -> {"old", "new", "nowhere"}]
    /\ mworker \in [MigrateWorker -> Entry \cup {"idle", "error", "ended"}]

\* A file that is still in the old structure while the migration runs will be
\* seen by somebody: its entry is to be sent, or a worker has it, or it is known
\* to have failed.
OldIsKnown ==
    migrating \in {"loop", "wait"} =>
        \A e \in Entry : \A f \in Files[e] :
            place[f] = "old" =>
                \/ e \in listing \cup unread
                \/ \E w \in MigrateWorker : mworker[w] \in {e, "error"}
                \/ migErr

LostIsUnread ==
    \A e \in Entry : \A f \in Files[e] : place[f] = "nowhere" => e \in unread

\* An error that is received closes the channel, so that the loop ends in a panic
\* and wg.Wait is not reached.
ErrorPanics == migErr => itemChan = "closed" /\ migrating \notin {"no", "wait"}

WaitIsLast == migrating = "wait" => listing = {}

GoneIsEmpty == ~oldDir => \A f \in AllFiles : place[f] # "old"

DoneIsDone == migrating = "done" => \A f \in AllFiles : place[f] # "old"

LoadedIsDone == main \in {"load", "serve"} => migrating = "done"

MigInv ==
    /\ Types /\ OldIsKnown /\ LostIsUnread
    /\ ErrorPanics /\ WaitIsLast /\ GoneIsEmpty
    /\ DoneIsDone /\ LoadedIsDone

USE DEF AllFiles

\* The migration starts with all files in their old place.
LEMMA MigInit == Init => MigInv
BY DEF Init, InitMigration, InitProcess, MigInv, Types, OldIsKnown, LostIsUnread,
       ErrorPanics, WaitIsLast, GoneIsEmpty, DoneIsDone, LoadedIsDone

\* A step of migrateDirectory keeps the invariant but for what main makes of it.
LEMMA MigrationStepKeeps ==
    ASSUME MigInv, MigrationStep, main = "migrate"
    PROVE  /\ Types' /\ OldIsKnown' /\ LostIsUnread'
           /\ ErrorPanics' /\ WaitIsLast' /\ GoneIsEmpty' /\ DoneIsDone'
<1> USE MigrationAssumption DEF MigInv
<1>1. CASE ListDirectory
  BY <1>1 DEF ListDirectory, Listed, Types, OldIsKnown, LostIsUnread,
              ErrorPanics, WaitIsLast, GoneIsEmpty, DoneIsDone
<1>2. CASE SendToClosed
  BY <1>2 DEF SendToClosed, Types, OldIsKnown, LostIsUnread,
              ErrorPanics, WaitIsLast, GoneIsEmpty, DoneIsDone
<1>3. CASE LoopDone
  BY <1>3 DEF LoopDone, Types, OldIsKnown, LostIsUnread,
              ErrorPanics, WaitIsLast, GoneIsEmpty, DoneIsDone
<1>4. CASE RemoveAll
  <2> DEFINE left == {f \in AllFiles : place[f] = "old"}
  <2>1. ~migErr /\ listing = {}
    BY <1>4 DEF RemoveAll, ErrorPanics, WaitIsLast
  <2>2. PICK gone \in SUBSET left :
          /\ place' = [f \in AllFiles |-> IF f \in gone THEN "nowhere" ELSE place[f]]
          /\ \/ migrating' = "failed" /\ oldDir' = oldDir
             \/ gone = left /\ migrating' = "done" /\ oldDir' = FALSE
    BY <1>4, <2>1 DEF RemoveAll
  <2>3. \A e \in Entry : \A f \in Files[e] : place[f] = "old" => e \in unread
    BY <1>4, <2>1 DEF RemoveAll, OldIsKnown
  <2>4. LostIsUnread'
    BY <1>4, <2>2, <2>3 DEF LostIsUnread, RemoveAll
  <2>5. GoneIsEmpty' /\ DoneIsDone'
    BY <2>2 DEF GoneIsEmpty, DoneIsDone, Types
  <2>6. Types' /\ OldIsKnown' /\ ErrorPanics' /\ WaitIsLast'
    BY <1>4, <2>1, <2>2 DEF RemoveAll, Types, OldIsKnown, ErrorPanics, WaitIsLast
  <2> QED BY <2>4, <2>5, <2>6
<1>5. ASSUME NEW w \in MigrateWorker, EntryDone(w)
      PROVE  /\ Types' /\ OldIsKnown' /\ LostIsUnread'
             /\ ErrorPanics' /\ WaitIsLast' /\ GoneIsEmpty' /\ DoneIsDone'
  BY <1>5 DEF EntryDone, Types, OldIsKnown, LostIsUnread,
              ErrorPanics, WaitIsLast, GoneIsEmpty, DoneIsDone
<1>6. ASSUME NEW w \in MigrateWorker, EntryFails(w)
      PROVE  /\ Types' /\ OldIsKnown' /\ LostIsUnread'
             /\ ErrorPanics' /\ WaitIsLast' /\ GoneIsEmpty' /\ DoneIsDone'
  BY <1>6 DEF EntryFails, Types, OldIsKnown, LostIsUnread,
              ErrorPanics, WaitIsLast, GoneIsEmpty, DoneIsDone
<1>7. ASSUME NEW w \in MigrateWorker, WorkerDone(w)
      PROVE  /\ Types' /\ OldIsKnown' /\ LostIsUnread'
             /\ ErrorPanics' /\ WaitIsLast' /\ GoneIsEmpty' /\ DoneIsDone'
  BY <1>7 DEF WorkerDone, Types, OldIsKnown, LostIsUnread,
              ErrorPanics, WaitIsLast, GoneIsEmpty, DoneIsDone
<1>8. ASSUME NEW w \in MigrateWorker, NEW e \in Entry, SendItem(w, e)
      PROVE  /\ Types' /\ OldIsKnown' /\ LostIsUnread'
             /\ ErrorPanics' /\ WaitIsLast' /\ GoneIsEmpty' /\ DoneIsDone'
  BY <1>8 DEF SendItem, Types, OldIsKnown, LostIsUnread,
              ErrorPanics, WaitIsLast, GoneIsEmpty, DoneIsDone
<1>9. ASSUME NEW w \in MigrateWorker, NEW e \in Entry, RecvError(w, e)
      PROVE  /\ Types' /\ OldIsKnown' /\ LostIsUnread'
             /\ ErrorPanics' /\ WaitIsLast' /\ GoneIsEmpty' /\ DoneIsDone'
  BY <1>9 DEF RecvError, Types, OldIsKnown, LostIsUnread,
              ErrorPanics, WaitIsLast, GoneIsEmpty, DoneIsDone
<1>10. ASSUME NEW w \in MigrateWorker, NEW f \in AllFiles, MoveFile(w, f)
       PROVE  /\ Types' /\ OldIsKnown' /\ LostIsUnread'
              /\ ErrorPanics' /\ WaitIsLast' /\ GoneIsEmpty' /\ DoneIsDone'
  BY <1>10 DEF MoveFile, Types, OldIsKnown, LostIsUnread,
               ErrorPanics, WaitIsLast, GoneIsEmpty, DoneIsDone
<1> QED
  BY <1>1, <1>2, <1>3, <1>4, <1>5, <1>6, <1>7, <1>8, <1>9, <1>10 DEF MigrationStep

\* Every step of the process keeps the invariant: a restart forgets how far the
\* migration was, but not what it has moved.
LEMMA MigNext == MigInv /\ [Next]_vars => MigInv'
<1> SUFFICES ASSUME MigInv, [Next]_vars PROVE MigInv'
  OBVIOUS
<1> DEFINE MigUnchanged == UNCHANGED migVars /\ (main' = main \/ main' \in {"fatal", "exited"})
<1>1. ASSUME MigUnchanged PROVE MigInv'
  BY <1>1 DEF MigInv, migVars, Types, OldIsKnown, LostIsUnread,
              ErrorPanics, WaitIsLast, GoneIsEmpty, DoneIsDone, LoadedIsDone
<1>2. CASE Migrate
  <2>1. /\ Types' /\ OldIsKnown' /\ LostIsUnread'
        /\ ErrorPanics' /\ WaitIsLast' /\ GoneIsEmpty' /\ DoneIsDone'
    BY <1>2, MigrationStepKeeps DEF Migrate
  <2>2. LoadedIsDone'
    BY <1>2 DEF Migrate, LoadedIsDone
  <2> QED BY <2>1, <2>2 DEF MigInv
<1>3. CASE Load
  BY <1>3 DEF Load, MigInv, migVars, Types, OldIsKnown, LostIsUnread,
              ErrorPanics, WaitIsLast, GoneIsEmpty, DoneIsDone, LoadedIsDone
<1>4. CASE Exit
  BY <1>1, <1>4 DEF Exit, migVars
<1>5. CASE Signal \/ TimePasses \/ TimerExpires \/ BeginShutdown
  BY <1>1, <1>5 DEF Signal, TimePasses, TimerExpires, BeginShutdown
<1>6. ASSUME NEW s \in Srv, ServerStep(s) PROVE MigInv'
  BY <1>1, <1>6 DEF ServerStep, CreateServer, AcquireServer, Serve, ServeReturns, StopServer
<1>7. ASSUME NEW r \in Request, StartRequest(r) \/ EndRequest(r) \/ CallHangs(r) PROVE MigInv'
  BY <1>1, <1>7 DEF StartRequest, EndRequest, CallHangs, procVars
<1>8. CASE Restart
  BY <1>8 DEF Restart, RestartMigration, MigInv, Types, OldIsKnown, LostIsUnread,
              ErrorPanics, WaitIsLast, GoneIsEmpty, DoneIsDone, LoadedIsDone
<1>9. CASE UNCHANGED vars
  BY <1>1, <1>9 DEF vars, procVars
<1> QED
  BY <1>2, <1>3, <1>4, <1>5, <1>6, <1>7, <1>8, <1>9 DEF Next

\* load.go migrateDirectory, main.go run: a file disappears only with a
\* subdirectory whose migration failed, and the servers start only when nothing
\* is left in the old structure, for every directory and any number of restarts.
THEOREM NoFileIsLost == Spec => []MigrationKeepsFiles
<1>1. MigInv => MigrationKeepsFiles
  BY DEF MigInv, MigrationKeepsFiles, LostIsUnread, GoneIsEmpty, DoneIsDone, LoadedIsDone
<1> QED
  BY <1>1, MigInit, MigNext, PTL DEF Spec

-----------------------------------------------------------------------------

\* gRPC calls run only while their server serves, and the process ends only
\* when the server has returned.
CallInv ==
    /\ srv \in [Srv -> {"nil", "created", "acquired", "serving", "returned"}]
    /\ req \in [Request -> {"new", "active", "hung", "done"}]
    /\ srv["grpc"] # "serving" => Active("grpc") = {}
    /\ main \in {"migrate", "load"} => srv["grpc"] = "nil"
    /\ main = "exited" => srv["grpc"] = "returned"

\* main.go run: a stop by signal or idle timer, at any moment of the start, does
\* not end the process while a gRPC call is running, for any number of calls.
THEOREM NoCallIsCutOff == Spec => []GrpcCallsFinish
<1> USE ServerAssumption DEF Srv, Hung
<1>1. Init => CallInv
  BY DEF Init, InitProcess, CallInv, Active
<1>2. ASSUME CallInv, [Next]_vars PROVE CallInv'
  <2> USE <1>2 DEF CallInv
  <2>1. CASE Migrate
    BY <2>1 DEF Migrate, Active
  <2>2. CASE Load
    BY <2>2 DEF Load, Active
  <2>3. CASE Exit
    BY <2>3 DEF Exit, Active
  <2>4. CASE Signal \/ TimePasses \/ TimerExpires \/ BeginShutdown
    BY <2>4 DEF Signal, TimePasses, TimerExpires, BeginShutdown, Active
  <2>5. ASSUME NEW s \in Srv, ServerStep(s) PROVE CallInv'
    <3>1. CASE CreateServer(s) \/ AcquireServer(s)
      BY <3>1 DEF CreateServer, AcquireServer, Active
    <3>2. CASE Serve(s)
      BY <3>2 DEF Serve, Active
    <3>3. CASE ServeReturns(s) \/ StopServer(s)
      BY <3>3 DEF ServeReturns, StopServer, Active
    <3> QED BY <2>5, <3>1, <3>2, <3>3 DEF ServerStep
  <2>6. ASSUME NEW r \in Request, StartRequest(r) PROVE CallInv'
    BY <2>6 DEF StartRequest, Active
  <2>7. ASSUME NEW r \in Request, EndRequest(r) \/ CallHangs(r) PROVE CallInv'
    BY <2>7 DEF EndRequest, CallHangs, Active, procVars
  <2>8. CASE Restart
    BY <2>8 DEF Restart, Active
  <2>9. CASE UNCHANGED vars
    BY <2>9 DEF vars, procVars, Active
  <2> QED
    BY <2>1, <2>2, <2>3, <2>4, <2>5, <2>6, <2>7, <2>8, <2>9 DEF Next
<1>3. CallInv => GrpcCallsFinish
  BY DEF CallInv, GrpcCallsFinish
<1> QED
  BY <1>1, <1>2, <1>3, PTL DEF Spec

-----------------------------------------------------------------------------
(***************************************************************************)
(* ByteStream.Write (ByteStreamWrite).                                     *)
(***************************************************************************)

\* What holds between the receiver, the pipe and the putter.
PipeInv ==
    /\ recvResult # "none" => rcv = "ended"
    /\ msgs = 0 => put = "none" /\ putResult = "none" /\ origin = "none"
    /\ rcv = "write" \/ (rcv = "recv" /\ msgs # 0) => put # "none"
    /\ put = "none" => copied = 0 /\ putResult \in {"none", "exists"}
    /\ put # "none" => copied = committed
    /\ put \in {"copy", "drain"} => putResult = "none" /\ origin = "none"
    /\ recvResult = "eof" /\ res.cmp = "identity" => committed = res.size
    /\ putResult = "exists" =>
          /\ put = "none" /\ origin = "found"
          /\ rcv = "ended" /\ recvResult = "none"
          /\ committed = IF res.cmp = "identity" THEN res.size ELSE -1
    /\ origin = "found" => putResult = "exists"
    /\ putResult = "nil" <=> origin = "wrote"
    /\ origin = "wrote" => put = "ended" /\ pipe = "closed"

\* What holds between the handler and the others.
HandlerInv ==
    /\ handler = "select" => pipe = "open" /\ result = "none"
    /\ handler = "wait" => pipe = "closed" /\ result = "none"
    /\ pipe = "closed" => recvResult = "eof"
    /\ result = "ok" => origin # "none"
    /\ result # "internal"

\* The inductive invariant.
WriteInv == TypeOK /\ PipeInv /\ HandlerInv

-----------------------------------------------------------------------------

\* The state in which Write starts its goroutines satisfies the invariant.
LEMMA WriteInitInv == WriteInit => WriteInv
  BY WriteAssumption DEF WriteInit, WriteInv, TypeOK, PipeInv, HandlerInv, Message

\* Every step keeps the invariant.
LEMMA WriteNextInv == WriteInv /\ [WriteNext]_writeVars => WriteInv'
<1> SUFFICES ASSUME WriteInv, [WriteNext]_writeVars PROVE WriteInv'
  OBVIOUS
<1> USE DEF WriteInv, TypeOK, PipeInv, HandlerInv
<1>0. \A r \in Resource : r \in [cmp : {"identity", "zstd"}, size : Nat]
  BY WriteAssumption DEF Resource
<1>1. CASE RecvEnd
  <2>1. PICK v \in {"eof", "error"} :
             EndReceive(v) /\ (v = "eof" => Verdict(committed) = "eof")
    BY <1>1 DEF RecvEnd, Verdict
  <2>2. v = "eof" /\ res.cmp = "identity" => committed = res.size
    BY <2>1 DEF Verdict
  <2> QED
    BY <1>1, <2>1, <2>2 DEF RecvEnd, EndReceive
<1>2. CASE RefuseName
  BY <1>2 DEF RefuseName, EndReceive
<1>3. ASSUME NEW r \in Resource, SkipExisting(r) PROVE WriteInv'
  BY <1>0, <1>3 DEF SkipExisting
<1>4. ASSUME NEW r \in Resource, NEW offset \in Offset, RefuseOffset(r, offset) PROVE WriteInv'
  <2>1. offset \in Int
    BY WriteAssumption
  <2> QED
    BY <1>0, <1>4, <2>1 DEF RefuseOffset, EndReceive
<1>5. ASSUME NEW r \in Resource, NEW offset \in Offset, NEW m \in Message,
             StartPut(r, offset, m)
      PROVE  WriteInv'
  <2>1. /\ put = "none" /\ copied = 0 /\ putResult = "none" /\ origin = "none"
        /\ recvResult = "none" /\ offset = 0
    BY <1>5 DEF StartPut
  <2>2. TypeOK'
    BY <1>0, <1>5, <2>1 DEF StartPut
  <2>3. PipeInv'
    BY <1>5, <2>1 DEF StartPut
  <2>4. HandlerInv'
    BY <1>5, <2>1 DEF StartPut
  <2> QED
    BY <2>2, <2>3, <2>4
<1>6. ASSUME NEW m \in Message, NextMessage(m) PROVE WriteInv'
  BY <1>6 DEF NextMessage
<1>7. CASE RefuseChangedName
  BY <1>7 DEF RefuseChangedName, EndReceive
<1>8. CASE PipeWrite
  <2>1. msg.n \in Nat
    BY DEF Message
  <2>2. /\ recvResult = "none" /\ putResult = "none" /\ origin = "none"
        /\ copied' = committed' /\ committed' \in Nat /\ copied' \in Nat
    BY <1>8, <2>1 DEF PipeWrite
  <2>3. /\ \/ rcv' = "ended" /\ recvResult' \in {"eof", "error"}
           \/ rcv' = "recv" /\ recvResult' = "none"
        /\ recvResult' = "eof" /\ res.cmp = "identity" => committed' = res.size
    BY <1>8, <2>2 DEF PipeWrite, AfterWrite, EndReceive, Verdict
  <2>4. TypeOK'
    BY <1>8, <2>2, <2>3 DEF PipeWrite
  <2>5. PipeInv'
    BY <1>8, <2>2, <2>3 DEF PipeWrite
  <2>6. HandlerInv'
    BY <1>8, <2>2, <2>3 DEF PipeWrite
  <2> QED
    BY <2>4, <2>5, <2>6
<1>9. CASE PutFails
  BY <1>9 DEF PutFails, receiver
<1>10. CASE DecodeFails
  BY <1>10 DEF DecodeFails, receiver
<1>11. CASE PutEnds
  BY <1>11 DEF PutEnds, receiver
<1>12. CASE SelectRecv
  BY <1>12 DEF SelectRecv, Return, receiver
<1>13. CASE SelectPut
  BY <1>13 DEF SelectPut, SendAndClose, Return, receiver
<1>14. CASE AwaitPut
  BY <1>14 DEF AwaitPut, SendAndClose, Return, receiver
<1>15. CASE OthersStoreOrEvict
  BY <1>15 DEF OthersStoreOrEvict, receiver
<1>16. CASE UNCHANGED writeVars
  BY <1>16 DEF writeVars, receiver
<1> QED
  BY <1>1, <1>2, <1>3, <1>4, <1>5, <1>6, <1>7, <1>8, <1>9, <1>10, <1>11, <1>12,
     <1>13, <1>14, <1>15, <1>16 DEF WriteNext, Recv, Handler

\* The invariant holds in every state of the call.
LEMMA AlwaysInv == WriteSpec => []WriteInv
  BY WriteInitInv, WriteNextInv, PTL DEF WriteSpec

-----------------------------------------------------------------------------

\* Success is reported only for a blob that the cache had, and with its size.
THEOREM AnswersAreTrue == WriteSpec => []OkMeansStored
<1>1. WriteInv => OkMeansStored
  BY DEF WriteInv, TypeOK, PipeInv, HandlerInv, OkMeansStored
<1> QED
  BY <1>1, AlwaysInv, PTL

\* Put commits only what the receiver has found complete.
THEOREM NothingPartialIsStored == WriteSpec => []OnlyWholeIsStored
<1>1. WriteInv => OnlyWholeIsStored
  BY DEF WriteInv, PipeInv, HandlerInv, OnlyWholeIsStored
<1> QED
  BY <1>1, AlwaysInv, PTL

\* The branch that "should not happen" does not.
THEOREM EarlyReturnIsDead == WriteSpec => []NoEarlyReturn
<1>1. WriteInv => NoEarlyReturn
  BY DEF WriteInv, HandlerInv, NoEarlyReturn
<1> QED
  BY <1>1, AlwaysInv, PTL
=============================================================================
