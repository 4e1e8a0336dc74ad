------------------------------- MODULE Server -------------------------------
(***************************************************************************)
(* The life of the process: run of main.go.  The cache directory is        *)
(* migrated and loaded, the HTTP and the gRPC server are started, and a    *)
(* goroutine stops them on a signal or when the idle timer                 *)
(* (utils/idle/idle.go) expires.  The two sides of a start and a stop meet *)
(* in one semaphore per server.                                            *)
(*                                                                         *)
(* The servers of net/http and grpc are external: http.Server.Shutdown     *)
(* makes Serve return at once and then waits for the requests;             *)
(* grpc.Server.GracefulStop makes Serve return when the calls have ended,  *)
(* and Serve fails after it.                                               *)
(***************************************************************************)
EXTENDS Migration

CONSTANTS
    Request,   \* the requests that clients send
    Proto,     \* the server that each is for
    Grpc,      \* whether the gRPC server is enabled
    IdleTimer, \* whether an idle timeout is set
    MaxStarts  \* bound: how often the process is started

Srv == {"http", "grpc"}

ASSUME ServerAssumption ==
    /\ Proto \in [Request -> Srv]
    /\ Grpc \in BOOLEAN /\ IdleTimer \in BOOLEAN
    /\ MaxStarts \in Nat \ {0}

VARIABLES
    main,   \* run: migrating, loading, serving, or how the process ended
    sem,    \* who has httpSem and grpcSem
    srv,    \* each server: nil, created, about to serve, serving, returned
    stop,   \* what the shutdown goroutine does with each server
    shut,   \* the goroutine that waits for a reason to stop
    reason, \* the reasons that have come: a signal, the idle timer
    timer,  \* the idle timer: off, running, expired
    recent, \* whether a request has started within the timeout
    req,    \* the requests
    starts

procVars == <<main, sem, srv, stop, shut, reason, timer, recent>>
vars == <<migVars, procVars, req, starts>>

InitProcess ==
    /\ main = "migrate"
    /\ sem = [s \in Srv |-> "free"]
    /\ srv = [s \in Srv |-> "nil"]
    /\ stop = [s \in Srv |-> "no"]
    /\ shut = "wait" /\ reason = {}
    /\ timer = "off" /\ recent = TRUE

Init ==
    /\ InitMigration
    /\ InitProcess
    /\ req = [r \in Request |-> "new"]
    /\ starts = 1

Running == main \notin {"exited", "fatal"}

-----------------------------------------------------------------------------
(***************************************************************************)
(* run.                                                                    *)
(***************************************************************************)

\* disk.New, first part.  A panic and an error both end the process.
Migrate ==
    /\ main = "migrate"
    /\ MigrationStep
    /\ main' = CASE migrating' = "done" -> "load"
                 [] migrating' \in {"panic", "failed"} -> "fatal"
                 [] OTHER -> "migrate"
    /\ UNCHANGED <<sem, srv, stop, shut, reason, timer, recent, req, starts>>

\* disk.New, second part: the existing files are loaded, or log.Fatal.  Then the
\* goroutines of the servers and the timer are started.
Load ==
    /\ main = "load"
    /\ \/ /\ main' = "serve"
          /\ srv' = [srv EXCEPT !["grpc"] = IF Grpc THEN @ ELSE "returned"]
          /\ timer' = IF IdleTimer THEN "running" ELSE "off"
       \/ main' = "fatal" /\ UNCHANGED <<srv, timer>>
    /\ UNCHANGED <<migVars, sem, stop, shut, reason, recent, req, starts>>

\* The *http.Server or *grpc.Server is made; HTTP listens before it goes on.
CreateServer(s) ==
    /\ main = "serve" /\ srv[s] = "nil"
    /\ \/ srv' = [srv EXCEPT ![s] = "created"] /\ UNCHANGED main
       \/ s = "http" /\ main' = "fatal" /\ UNCHANGED srv
    /\ UNCHANGED <<migVars, sem, stop, shut, reason, timer, recent, req, starts>>

\* TryAcquire: "bazel-remote is shutting down, not starting" the server.
AcquireServer(s) ==
    /\ main = "serve" /\ srv[s] = "created"
    /\ IF sem[s] = "free"
       THEN sem' = [sem EXCEPT ![s] = "server"] /\ srv' = [srv EXCEPT ![s] = "acquired"]
       ELSE srv' = [srv EXCEPT ![s] = "returned"] /\ UNCHANGED sem
    /\ UNCHANGED <<migVars, main, stop, shut, reason, timer, recent, req, starts>>

\* Serve, in a server that was perhaps stopped before; gRPC listens first.
Serve(s) ==
    /\ main = "serve" /\ srv[s] = "acquired"
    /\ \/ stop[s] # "stopping" /\ srv' = [srv EXCEPT ![s] = "serving"] /\ UNCHANGED main
       \/ /\ stop[s] = "stopping" /\ s = "http"
          /\ srv' = [srv EXCEPT ![s] = "returned"] /\ UNCHANGED main
       \/ s = "grpc" /\ main' = "fatal" /\ UNCHANGED srv
    /\ UNCHANGED <<migVars, sem, stop, shut, reason, timer, recent, req, starts>>

\* The requests whose handlers have not returned; some of them never will.
Hung == {r \in Request : req[r] = "hung"}
Active(s) == {r \in Request : Proto[r] = s /\ req[r] = "active"} \cup
             {r \in Hung : Proto[r] = s}

ServeReturns_AtOnce(s) ==
    /\ main = "serve" /\ srv[s] = "serving" /\ stop[s] = "stopping"
    /\ srv' = [srv EXCEPT ![s] = "returned"]
    /\ UNCHANGED <<migVars, main, sem, stop, shut, reason, timer, recent, req, starts>>

\* Serve returns after a stop.
ServeReturns(s) ==
    /\ main = "serve" /\ srv[s] = "serving" /\ stop[s] = "stopping"
    /\ s = "grpc" => Active(s) = {}
    /\ srv' = [srv EXCEPT ![s] = "returned"]
    /\ UNCHANGED <<migVars, main, sem, stop, shut, reason, timer, recent, req, starts>>

\* servers.Wait returns, and so does run: the process ends, with the requests.
Exit ==
    /\ main = "serve" /\ \A s \in Srv : srv[s] = "returned"
    /\ main' = "exited"
    /\ UNCHANGED <<migVars, sem, srv, stop, shut, reason, timer, recent, req, starts>>

-----------------------------------------------------------------------------
(***************************************************************************)
(* Shutdown, and the idle timer.                                           *)
(***************************************************************************)

Signal ==
    /\ Running /\ "signal" \notin reason
    /\ reason' = reason \cup {"signal"}
    /\ UNCHANGED <<migVars, main, sem, srv, stop, shut, timer, recent, req, starts>>

\* No request has started for the time of the timeout: requests that go on since
\* then do not count.
TimePasses ==
    /\ main = "serve" /\ timer = "running" /\ recent
    /\ recent' = FALSE
    /\ UNCHANGED <<migVars, main, sem, srv, stop, shut, reason, timer, req, starts>>

TimerExpires ==
    /\ main = "serve" /\ timer = "running" /\ ~recent
    /\ timer' = "expired"
    /\ reason' = reason \cup {"idle"}
    /\ UNCHANGED <<migVars, main, sem, srv, stop, shut, recent, req, starts>>

BeginShutdown ==
    /\ Running /\ shut = "wait" /\ reason # {}
    /\ shut' = "begun"
    /\ UNCHANGED <<migVars, main, sem, srv, stop, reason, timer, recent, req, starts>>

StopServer_OnlyServing(s) ==
    /\ Running /\ shut = "begun" /\ stop[s] = "no"
    /\ stop' = [stop EXCEPT ![s] = IF srv[s] = "serving" THEN "stopping" ELSE "done"]
    /\ UNCHANGED <<migVars, main, sem, srv, shut, reason, timer, recent, req, starts>>

\* The goroutine of one server: it keeps the server from starting, or stops it.
StopServer(s) ==
    /\ Running /\ shut = "begun" /\ stop[s] = "no"
    /\ IF sem[s] = "free"
       THEN sem' = [sem EXCEPT ![s] = "shutdown"] /\ stop' = [stop EXCEPT ![s] = "done"]
       ELSE /\ stop' = [stop EXCEPT ![s] = IF srv[s] = "nil" THEN "done" ELSE "stopping"]
            /\ UNCHANGED sem
    /\ UNCHANGED <<migVars, main, srv, shut, reason, timer, recent, req, starts>>

-----------------------------------------------------------------------------
(***************************************************************************)
(* Requests, and the end of the process.                                   *)
(***************************************************************************)

\* A handler starts; it resets the idle timer.
StartRequest(r) ==
    /\ main = "serve" /\ req[r] = "new"
    /\ srv[Proto[r]] = "serving" /\ stop[Proto[r]] # "stopping"
    /\ req' = [req EXCEPT ![r] = "active"]
    /\ recent' = TRUE
    /\ UNCHANGED <<migVars, main, sem, srv, stop, shut, reason, timer, starts>>

EndRequest(r) ==
    /\ main = "serve" /\ req[r] = "active"
    /\ req' = [req EXCEPT ![r] = "done"]
    /\ UNCHANGED <<migVars, procVars, starts>>

\* A Write whose stream ends before its first message waits for ever for a result
\* of a Put that was not started, also when its client has gone (EmptyStream in
\* ByteStreamWrite).
CallHangs(r) ==
    /\ main = "serve" /\ req[r] = "active" /\ Proto[r] = "grpc"
    /\ req' = [req EXCEPT ![r] = "hung"]
    /\ UNCHANGED <<migVars, procVars, starts>>

\* The process is killed, or has failed, and is started again.
Restart ==
    /\ main # "exited" /\ starts < MaxStarts
    /\ starts' = starts + 1
    /\ RestartMigration
    /\ main' = "migrate"
    /\ sem' = [s \in Srv |-> "free"] /\ srv' = [s \in Srv |-> "nil"]
    /\ stop' = [s \in Srv |-> "no"] /\ shut' = "wait" /\ reason' = {}
    /\ timer' = "off" /\ recent' = TRUE
    /\ req' = [r \in Request |-> IF req[r] = "new" THEN "new" ELSE "done"]

ServerStep(s) ==
    CreateServer(s) \/ AcquireServer(s) \/ Serve(s) \/ ServeReturns(s) \/ StopServer(s)

Next ==
    \/ Migrate \/ Load \/ Exit
    \/ Signal \/ TimePasses \/ TimerExpires \/ BeginShutdown
    \/ \E s \in Srv : ServerStep(s)
    \/ \E r \in Request : StartRequest(r) \/ EndRequest(r) \/ CallHangs(r)
    \/ Restart

Spec == Init /\ [][Next]_vars

\* Goroutines that can go on do so, the ticker ticks, and a request ends unless it
\* hangs: clients go on with their streams, or their connections are lost.
Fairness ==
    /\ WF_vars(Migrate) /\ WF_vars(Load) /\ WF_vars(Exit)
    /\ WF_vars(TimerExpires) /\ WF_vars(BeginShutdown)
    /\ \A s \in Srv : WF_vars(ServerStep(s))
    /\ \A r \in Request : WF_vars(EndRequest(r))

FairSpec == Spec /\ Fairness

-----------------------------------------------------------------------------
(***************************************************************************)
(* Properties.                                                             *)
(***************************************************************************)

\* The migration loses no file, whatever the workers' order and however often the
\* process is stopped in the middle: a file that is nowhere was in a subdirectory
\* whose migration failed ("Remove the empty directories." removes those too),
\* and once the servers run nothing is left behind in the old structure.
MigrationKeepsFiles ==
    /\ \A e \in Entry : \A f \in Files[e] : place[f] = "nowhere" => e \in unread
    /\ main = "serve" => \A f \in AllFiles : place[f] # "old"

\* A stop is graceful for gRPC: when the process ends in order, whatever made it
\* stop and at whatever moment of the start, no gRPC call is cut off.
GrpcCallsFinish == main = "exited" => Active("grpc") = {}

\* The process ends once there is a reason to: the semaphores let no server slip
\* through between its start and the stop, in either order.  The exceptions are a
\* migration that hangs because a worker's error came too late, and a Write that
\* hangs, for which GracefulStop waits.
ShutdownEnds ==
    reason # {} ~> ~Running \/ reason = {} \/ Stuck \/ Hung # {}
=============================================================================
