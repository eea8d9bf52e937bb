----------------------------- MODULE ServerRun -----------------------------
(***************************************************************************)
(* The life of the process: main loads the configuration, opens and        *)
(* migrates the store, builds the server and runs it; Run starts five      *)
(* goroutines and waits for them; a signal, or the first goroutine that    *)
(* fails, ends them all; main then closes the store.                       *)
(*                                                                         *)
(* Calls are counted by the way they end: a gRPC call ends by itself, a    *)
(* gRPC stream (Listen, Write) when its client leaves, a REST request in   *)
(* time or after the 30 seconds of its TimeoutHandler, a WebChannel        *)
(* session when it is cancelled.                                           *)
(***************************************************************************)
EXTENDS Naturals, FiniteSets

CONSTANTS Configs,    \* the configurations tried
          MaxPort,    \* 65535 in the program
          MaxCalls,   \* bound: calls of one kind at a time
          Sessions    \* WebChannel sessions

ASSUME ServerAssumption == MaxPort \in Nat \ {0} /\ MaxCalls \in Nat

VARIABLES cfg,       \* the configuration
          main,      \* where main is
          db,        \* the adapter: none, open, migrated, closed
          signal,    \* SIGINT or SIGTERM was received
          result,    \* what Run returned: none, ok, error
          g,         \* the goroutines of Run: none, ready, or where they are
          err,       \* one of them returned an error
          lis,       \* the listeners: none, open, closed
          stopped,   \* the servers that were told to stop
          calls,     \* number of calls in flight, by kind
          session,   \* none, open, vanished (its client), cancelled
          fault      \* history: something failed, or the signal came early

vars == <<cfg, main, db, signal, result, g, err, lis, stopped, calls, session, fault>>

Goroutines == {"dispatcher", "grpc", "rest", "sweeper", "shutdown"}

ServerInit ==
  /\ cfg \in Configs
  /\ main = "load" /\ db = "none" /\ signal = FALSE /\ result = "none"
  /\ g = [x \in Goroutines |-> "none"] /\ err = FALSE
  /\ lis = [x \in {"grpc", "rest"} |-> "none"] /\ stopped = {}
  /\ calls = [x \in {"unary", "stream", "rest", "late"} |-> 0]
  /\ session = [s \in Sessions |-> "none"]
  /\ fault = FALSE

-----------------------------------------------------------------------------
(***************************************************************************)
(* main                                                                    *)
(***************************************************************************)
Validate(c) ==
  /\ c.grpcPort \in 1 .. MaxPort /\ c.restPort \in 1 .. MaxPort
  /\ c.grpcPort # c.restPort
  /\ c.ttl > 0 /\ c.sweepInterval > 0

\* auth.New: secret says whether the key, project or certificates are given.
AuthNew(c) == c.auth \in {"none", ""} \/ (c.auth \in {"key", "google", "mtls"} /\ c.secret)

\* logger.Fatal exits at once: nothing deferred runs.
Fatal == main' = "fatal" /\ fault' = TRUE

Starting == <<signal, result, g, err, stopped, calls, session>>

LoadConfig ==
  /\ main = "load"
  /\ IF Validate(cfg) THEN main' = "open" /\ UNCHANGED fault ELSE Fatal
  /\ UNCHANGED <<cfg, db, lis, Starting>>

OpenStore ==
  /\ main = "open"
  /\ \/ /\ cfg.backend \in {"sqlite", "postgres"}
        /\ main' = "migrate" /\ db' = "open" /\ UNCHANGED fault
     \/ Fatal /\ UNCHANGED db
  /\ UNCHANGED <<cfg, lis, Starting>>

Migrate ==
  /\ main = "migrate"
  /\ \/ main' = "new" /\ db' = "migrated" /\ UNCHANGED fault
     \/ Fatal /\ UNCHANGED db
  /\ UNCHANGED <<cfg, lis, Starting>>

NewServer ==
  /\ main = "new"
  /\ IF AuthNew(cfg) THEN main' = "listen" /\ UNCHANGED fault ELSE Fatal
  /\ UNCHANGED <<cfg, db, lis, Starting>>

\* The gRPC port.
Listen ==
  /\ main = "listen" /\ lis["grpc"] = "none"
  /\ \/ lis' = [lis EXCEPT !["grpc"] = "open"] /\ UNCHANGED <<main, result, fault>>
     \/ main' = "returned" /\ result' = "error" /\ fault' = TRUE /\ UNCHANGED lis
  /\ UNCHANGED <<cfg, db, signal, g, err, stopped, calls, session>>

\* Mutant of ListenRest: the gRPC listener is forgotten when it fails.
ListenRestLeaks ==
  /\ main = "listen" /\ lis["grpc"] = "open"
  /\ \/ /\ lis' = [lis EXCEPT !["rest"] = "open"]
        /\ main' = "wait" /\ g' = [x \in Goroutines |-> "ready"] /\ UNCHANGED <<result, fault>>
     \/ main' = "returned" /\ result' = "error" /\ fault' = TRUE /\ UNCHANGED <<lis, g>>
  /\ UNCHANGED <<cfg, db, signal, err, stopped, calls, session>>

\* The REST port, and the goroutines.
ListenRest ==
  /\ main = "listen" /\ lis["grpc"] = "open"
  /\ \/ /\ lis' = [lis EXCEPT !["rest"] = "open"]
        /\ main' = "wait" /\ g' = [x \in Goroutines |-> "ready"] /\ UNCHANGED <<result, fault>>
     \/ /\ lis' = [lis EXCEPT !["grpc"] = "closed"]
        /\ main' = "returned" /\ result' = "error" /\ fault' = TRUE /\ UNCHANGED g
  /\ UNCHANGED <<cfg, db, signal, err, stopped, calls, session>>

\* eg.Wait.
Wait ==
  /\ main = "wait" /\ \A x \in Goroutines : g[x] = "done"
  /\ main' = "returned" /\ result' = IF err THEN "error" ELSE "ok"
  /\ UNCHANGED <<cfg, db, signal, g, err, lis, stopped, calls, session, fault>>

Exit ==
  /\ main = "returned"
  /\ main' = IF result = "error" THEN "fatal" ELSE "exited"
  /\ db' = IF result = "error" THEN db ELSE "closed"
  /\ UNCHANGED <<cfg, signal, result, g, err, lis, stopped, calls, session, fault>>

\* Early is before the gRPC server serves.
Signal ==
  /\ ~signal /\ main \notin {"exited", "fatal"}
  /\ signal' = TRUE
  /\ fault' = (fault \/ g["grpc"] \in {"none", "ready"})
  /\ UNCHANGED <<cfg, main, db, result, g, err, lis, stopped, calls, session>>

-----------------------------------------------------------------------------
(***************************************************************************)
(* The goroutines.  egCtx is done after a signal or an error.              *)
(***************************************************************************)
EgDone == signal \/ err

Become(x, state) == g' = [g EXCEPT ![x] = state]

Close(x) == lis' = [lis EXCEPT ![x] = "closed"]

Around == <<cfg, main, db, signal, result, calls>>

\* grpcServer.Serve: on a stopped server it fails and closes its listener.
ServeGrpc ==
  /\ g["grpc"] = "ready"
  /\ IF "grpc" \in stopped
       THEN Become("grpc", "done") /\ Close("grpc") /\ err' = TRUE
       ELSE Become("grpc", "serving") /\ UNCHANGED <<lis, err>>
  /\ UNCHANGED <<Around, stopped, session, fault>>

\* restSrv.Serve: on a server shut down it returns ErrServerClosed, no error.
ServeRest ==
  /\ g["rest"] = "ready"
  /\ IF "rest" \in stopped
       THEN Become("rest", "done") /\ Close("rest")
       ELSE Become("rest", "serving") /\ UNCHANGED lis
  /\ UNCHANGED <<Around, err, stopped, session, fault>>

\* Accept fails.
ServeFails(x) ==
  /\ x \in {"grpc", "rest"} /\ g[x] = "serving" /\ x \notin stopped
  /\ Become(x, "done") /\ Close(x)
  /\ err' = TRUE /\ fault' = TRUE
  /\ UNCHANGED <<Around, stopped, session>>

\* Serve returns nil once GracefulStop is over.
GrpcReturns ==
  /\ g["grpc"] = "serving" /\ "grpc" \in stopped /\ g["shutdown"] \notin {"sessions", "graceful"}
  /\ Become("grpc", "done")
  /\ UNCHANGED <<Around, err, lis, stopped, session, fault>>

\* Mutant of RestReturns: ErrServerClosed is returned as an error.
RestReturnsClosed ==
  /\ g["rest"] = "serving" /\ "rest" \in stopped
  /\ Become("rest", "done") /\ err' = TRUE
  /\ UNCHANGED <<Around, lis, stopped, session, fault>>

RestReturns ==
  /\ g["rest"] = "serving" /\ "rest" \in stopped
  /\ Become("rest", "done")
  /\ UNCHANGED <<Around, err, lis, stopped, session, fault>>

\* The dispatcher: the subscription's channel is closed when egCtx is done.
Dispatcher ==
  /\ g["dispatcher"] = "ready" \/ (g["dispatcher"] = "running" /\ EgDone)
  /\ Become("dispatcher", IF g["dispatcher"] = "ready" THEN "running" ELSE "done")
  /\ UNCHANGED <<Around, err, lis, stopped, session, fault>>

SweepTick ==
  /\ g["sweeper"] \in {"ready", "sweeping"}
  /\ Become("sweeper", "running")
  /\ UNCHANGED <<Around, err, lis, stopped, session, fault>>

Sweep ==
  /\ g["sweeper"] = "running"
  /\ Become("sweeper", "sweeping")
  /\ UNCHANGED <<Around, err, lis, stopped, session, fault>>

\* Mutant of SweeperReturns: the loop does not look at egCtx.
SweeperReturnsNever ==
  /\ g["sweeper"] = "running" /\ EgDone /\ FALSE
  /\ UNCHANGED vars

SweeperReturns ==
  /\ g["sweeper"] = "running" /\ EgDone
  /\ Become("sweeper", "done")
  /\ UNCHANGED <<Around, err, lis, stopped, session, fault>>

\* wcMgr.Shutdown cancels the sessions of this moment and does not wait.
ShutdownSessions ==
  /\ g["shutdown"] = "ready" /\ EgDone
  /\ Become("shutdown", "sessions")
  /\ session' = [s \in Sessions |-> IF session[s] = "none" THEN "none" ELSE "cancelled"]
  /\ UNCHANGED <<Around, err, lis, stopped, fault>>

\* GracefulStop closes the listeners it knows and refuses new calls.
GracefulStop ==
  /\ g["shutdown"] = "sessions"
  /\ Become("shutdown", "graceful")
  /\ stopped' = stopped \cup {"grpc"}
  /\ IF g["grpc"] = "serving" THEN Close("grpc") ELSE UNCHANGED lis
  /\ UNCHANGED <<Around, err, session, fault>>

\* It waits for the calls in flight, then restSrv.Shutdown begins.
ShutdownRest ==
  /\ g["shutdown"] = "graceful" /\ calls["unary"] = 0 /\ calls["stream"] = 0
  /\ Become("shutdown", "rest")
  /\ stopped' = stopped \cup {"rest"}
  /\ IF g["rest"] = "serving" THEN Close("rest") ELSE UNCHANGED lis
  /\ UNCHANGED <<Around, err, session, fault>>

\* A session whose client is there holds an HTTP request open.
Drained == calls["rest"] = 0 /\ \A s \in Sessions : session[s] \notin {"open", "cancelled"}

\* Mutant of ShutdownReturns: restSrv.Close, which waits for nobody.
ShutdownReturnsAtOnce ==
  /\ g["shutdown"] = "rest"
  /\ Become("shutdown", "done")
  /\ UNCHANGED <<Around, err, lis, stopped, session, fault>>

ShutdownReturns ==
  /\ g["shutdown"] = "rest" /\ Drained
  /\ Become("shutdown", "done")
  /\ UNCHANGED <<Around, err, lis, stopped, session, fault>>

\* Five seconds were not enough.
ShutdownTimesOut ==
  /\ g["shutdown"] = "rest" /\ ~Drained
  /\ Become("shutdown", "done") /\ err' = TRUE /\ fault' = TRUE
  /\ UNCHANGED <<Around, lis, stopped, session>>

-----------------------------------------------------------------------------
(***************************************************************************)
(* Clients.                                                                *)
(***************************************************************************)
Serving(x) == main = "wait" /\ g[x] = "serving" /\ x \notin stopped

Beside == <<cfg, main, db, signal, result, g, err, lis, stopped, fault>>

CallStarts(kind) ==
  /\ Serving(IF kind = "rest" THEN "rest" ELSE "grpc") /\ kind # "late"
  /\ calls[kind] < MaxCalls
  /\ calls' = [calls EXCEPT ![kind] = @ + 1]
  /\ UNCHANGED <<Beside, session>>

CallEnds(kind) ==
  /\ main = "wait" /\ calls[kind] > 0
  /\ calls' = [calls EXCEPT ![kind] = @ - 1]
  /\ UNCHANGED <<Beside, session>>

\* TimeoutHandler answers; the handler itself may go on for a while.
RestTimesOut ==
  /\ main = "wait" /\ calls["rest"] > 0 /\ calls["late"] < MaxCalls
  /\ calls' = [calls EXCEPT !["rest"] = @ - 1, !["late"] = @ + 1]
  /\ UNCHANGED <<Beside, session>>

SessionOpens(s) ==
  /\ Serving("rest") /\ session[s] = "none"
  /\ session' = [session EXCEPT ![s] = "open"]
  /\ UNCHANGED <<Beside, calls>>

\* The request ends with its client; the handler's context is not the request's.
ClientVanishes(s) ==
  /\ main = "wait" /\ session[s] = "open"
  /\ session' = [session EXCEPT ![s] = "vanished"]
  /\ UNCHANGED <<Beside, calls>>

SessionEnds(s) ==
  /\ main = "wait" /\ session[s] = "cancelled"
  /\ session' = [session EXCEPT ![s] = "none"]
  /\ UNCHANGED <<Beside, calls>>

-----------------------------------------------------------------------------
MainStep == LoadConfig \/ OpenStore \/ Migrate \/ NewServer \/ Listen \/ ListenRest \/ Wait \/ Exit

ServeStep == ServeGrpc \/ ServeRest \/ GrpcReturns \/ RestReturns

ShutdownStep ==
  ShutdownSessions \/ GracefulStop \/ ShutdownRest \/ ShutdownReturns \/ ShutdownTimesOut

Next ==
  \/ MainStep \/ Signal \/ ServeStep \/ ShutdownStep
  \/ \E x \in Goroutines : ServeFails(x)
  \/ Dispatcher \/ SweepTick \/ Sweep \/ SweeperReturns
  \/ \E kind \in DOMAIN calls : CallStarts(kind) \/ CallEnds(kind)
  \/ RestTimesOut
  \/ \E s \in Sessions : SessionOpens(s) \/ ClientVanishes(s) \/ SessionEnds(s)

Spec == ServerInit /\ [][Next]_vars

(***************************************************************************)
(* What can go on goes on: main, the goroutines, calls that end by         *)
(* themselves, sessions that are cancelled.  A stream may stay for ever.   *)
(* SF for the sweeper, whose select takes egCtx.Done at some turn.         *)
(***************************************************************************)
Fairness ==
  /\ WF_vars(MainStep)
  /\ WF_vars(ServeGrpc) /\ WF_vars(ServeRest) /\ WF_vars(GrpcReturns) /\ WF_vars(RestReturns)
  /\ WF_vars(ShutdownStep)
  /\ WF_vars(Dispatcher)
  /\ WF_vars(SweepTick) /\ SF_vars(SweeperReturns)
  /\ WF_vars(CallEnds("unary"))

LiveSpec == Spec /\ Fairness

-----------------------------------------------------------------------------
(***************************************************************************)
(* The store is closed under nobody: when main's deferred Close runs,      *)
(* every gRPC call and stream, every REST request and every WebChannel     *)
(* request is over, and the dispatcher and the sweeper have returned.      *)
(* Handlers that outlived their request are not covered.                   *)
(***************************************************************************)
DbUsersGone ==
  db = "closed" =>
    /\ \A kind \in {"unary", "stream", "rest"} : calls[kind] = 0
    /\ \A s \in Sessions : session[s] \notin {"open", "cancelled"}
    /\ g["dispatcher"] = "done" /\ g["sweeper"] = "done"

(***************************************************************************)
(* When Run returns, with or without an error, both ports are released,    *)
(* whether a server had begun to serve or was stopped before.              *)
(***************************************************************************)
NoListenerLeft ==
  main \in {"returned", "exited"} => \A x \in DOMAIN lis : lis[x] # "open"

(***************************************************************************)
(* A signal to a serving process ends it without an error, unless a        *)
(* listener fails or a request outlives the five seconds of Shutdown.  A   *)
(* signal that comes before the gRPC server serves is not covered.         *)
(***************************************************************************)
CleanShutdown == main = "fatal" \/ result = "error" => fault

(***************************************************************************)
(* After a signal or an error the process ends, unless a client keeps a    *)
(* gRPC stream open: GracefulStop waits for streams that nobody cancels.   *)
(***************************************************************************)
ShutsDown ==
  []<>(calls["stream"] > 0) \/ (EgDone ~> (main \in {"exited", "fatal"}))

=============================================================================
