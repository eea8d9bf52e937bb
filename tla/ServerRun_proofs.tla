------------------------- MODULE ServerRun_proofs -------------------------
(***************************************************************************)
(* Proofs about ServerRun, for every set of configurations, every number   *)
(* of calls and every set of sessions: nobody uses the store when main     *)
(* closes it, Run leaves no port bound, and a signal alone is no error.    *)
(***************************************************************************)
EXTENDS ServerRun, TLAPS

-----------------------------------------------------------------------------
Starts == {"load", "open", "migrate", "new", "listen"}

(***************************************************************************)
(* Types.  A goroutine is nowhere before Run has started it, and every one *)
(* has places of its own.                                                  *)
(***************************************************************************)
Places == {"none", "ready", "running", "sweeping", "serving", "sessions", "graceful", "rest", "done"}

ServerTypeOK ==
  /\ main \in Starts \cup {"wait", "returned", "exited", "fatal"}
  /\ db \in {"none", "open", "migrated", "closed"}
  /\ signal \in BOOLEAN /\ err \in BOOLEAN /\ fault \in BOOLEAN
  /\ result \in {"none", "ok", "error"}
  /\ g \in [Goroutines -> Places]
  /\ g["grpc"] \in {"none", "ready", "serving", "done"}
  /\ g["rest"] \in {"none", "ready", "serving", "done"}
  /\ g["shutdown"] \in {"none", "ready", "sessions", "graceful", "rest", "done"}
  /\ lis \in [{"grpc", "rest"} -> {"none", "open", "closed"}]
  /\ stopped \subseteq {"grpc", "rest"}
  /\ calls \in [{"unary", "stream", "rest", "late"} -> Nat]
  /\ session \in [Sessions -> {"none", "open", "vanished", "cancelled"}]

(***************************************************************************)
(* main and the goroutines: none of them runs before Run has both          *)
(* listeners, or after it has returned; Run returned "ok" only if all came *)
(* to their end and none failed; the store is closed only after that.      *)
(***************************************************************************)
MainInv ==
  /\ main \in Starts => result = "none" /\ lis["rest"] = "none"
  /\ main \in Starts \ {"listen"} => lis["grpc"] = "none"
  /\ main \in Starts => \A x \in Goroutines : g[x] = "none"
  /\ main = "wait" => result = "none"
  /\ main \in {"returned", "exited", "fatal"} =>
       \/ \A x \in Goroutines : g[x] = "none"
       \/ \A x \in Goroutines : g[x] = "done"
  /\ result = "ok" => ~err /\ \A x \in Goroutines : g[x] = "done"
  /\ main \in {"returned", "exited"} => result # "none"
  /\ main = "exited" => result = "ok"
  /\ db = "closed" => main = "exited"

(***************************************************************************)
(* The shutdown goroutine: which servers it has stopped, and what it has   *)
(* waited for.  A stopped server takes no new work, so that stays true.    *)
(***************************************************************************)
StopInv ==
  /\ "grpc" \in stopped <=> g["shutdown"] \in {"graceful", "rest", "done"}
  /\ "rest" \in stopped <=> g["shutdown"] \in {"rest", "done"}
  /\ "rest" \in stopped => calls["unary"] = 0 /\ calls["stream"] = 0
  /\ g["shutdown"] = "done" => err \/ Drained

(***************************************************************************)
(* A listener is open only as long as a goroutine is there to close it.    *)
(***************************************************************************)
ListenerInv ==
  \A x \in {"grpc", "rest"} :
    /\ g[x] = "done" => lis[x] # "open"
    /\ g[x] = "serving" /\ x \in stopped => lis[x] # "open"
    /\ main = "returned" => lis[x] # "open"
    /\ main = "exited" => lis[x] # "open"

(***************************************************************************)
(* An error has a cause, and so has a shutdown; one that begins before the *)
(* gRPC server serves is the cause of an error.                            *)
(***************************************************************************)
CauseInv ==
  /\ main = "fatal" => fault
  /\ result = "error" => fault
  /\ err => fault
  /\ g["shutdown"] \notin {"none", "ready"} => signal \/ err
  /\ signal /\ g["grpc"] \in {"none", "ready"} => fault

ServerInv == ServerTypeOK /\ MainInv /\ StopInv /\ ListenerInv /\ CauseInv

-----------------------------------------------------------------------------
\* The invariant holds when the process starts.
LEMMA ServerInvInit == ServerInit => ServerInv
<1> SUFFICES ASSUME ServerInit PROVE ServerInv
  OBVIOUS
<1> USE DEF ServerInit, Starts, Places, Goroutines
<1>1. ServerTypeOK
  BY DEF ServerTypeOK
<1>2. MainInv
  BY DEF MainInv
<1>3. StopInv
  BY DEF StopInv
<1>4. ListenerInv /\ CauseInv
  BY DEF ListenerInv, CauseInv
<1> QED BY <1>1, <1>2, <1>3, <1>4 DEF ServerInv

\* Every step of the process, of its goroutines and of its clients keeps it.
LEMMA ServerInvStep == ServerInv /\ [Next]_vars => ServerInv'
<1> SUFFICES ASSUME ServerInv, [Next]_vars PROVE ServerInv'
  OBVIOUS
<1> USE DEF ServerInv, ServerTypeOK, MainInv, StopInv, ListenerInv, CauseInv,
            Drained, Starts, Places, Goroutines
<1>1. ASSUME LoadConfig
      PROVE  ServerInv'
  <2>1. ServerTypeOK'
    BY <1>1 DEF LoadConfig, Fatal, Starting
  <2>2. MainInv'
    BY <1>1 DEF LoadConfig, Fatal, Starting
  <2>3. StopInv'
    BY <1>1 DEF LoadConfig, Fatal, Starting
  <2>4. ListenerInv'
    BY <1>1 DEF LoadConfig, Fatal, Starting
  <2>5. CauseInv'
    BY <1>1 DEF LoadConfig, Fatal, Starting
  <2> QED BY <2>1, <2>2, <2>3, <2>4, <2>5
<1>2. ASSUME OpenStore
      PROVE  ServerInv'
  <2>1. ServerTypeOK'
    BY <1>2 DEF OpenStore, Fatal, Starting
  <2>2. MainInv'
    BY <1>2 DEF OpenStore, Fatal, Starting
  <2>3. StopInv'
    BY <1>2 DEF OpenStore, Fatal, Starting
  <2>4. ListenerInv'
    BY <1>2 DEF OpenStore, Fatal, Starting
  <2>5. CauseInv'
    BY <1>2 DEF OpenStore, Fatal, Starting
  <2> QED BY <2>1, <2>2, <2>3, <2>4, <2>5
<1>3. ASSUME Migrate
      PROVE  ServerInv'
  <2>1. ServerTypeOK'
    BY <1>3 DEF Migrate, Fatal, Starting
  <2>2. MainInv'
    BY <1>3 DEF Migrate, Fatal, Starting
  <2>3. StopInv'
    BY <1>3 DEF Migrate, Fatal, Starting
  <2>4. ListenerInv'
    BY <1>3 DEF Migrate, Fatal, Starting
  <2>5. CauseInv'
    BY <1>3 DEF Migrate, Fatal, Starting
  <2> QED BY <2>1, <2>2, <2>3, <2>4, <2>5
<1>4. ASSUME NewServer
      PROVE  ServerInv'
  <2>1. ServerTypeOK'
    BY <1>4 DEF NewServer, Fatal, Starting
  <2>2. MainInv'
    BY <1>4 DEF NewServer, Fatal, Starting
  <2>3. StopInv'
    BY <1>4 DEF NewServer, Fatal, Starting
  <2>4. ListenerInv'
    BY <1>4 DEF NewServer, Fatal, Starting
  <2>5. CauseInv'
    BY <1>4 DEF NewServer, Fatal, Starting
  <2> QED BY <2>1, <2>2, <2>3, <2>4, <2>5
<1>5. ASSUME Listen
      PROVE  ServerInv'
  <2>1. ServerTypeOK'
    BY <1>5 DEF Listen
  <2>2. MainInv'
    BY <1>5 DEF Listen
  <2>3. StopInv'
    BY <1>5 DEF Listen
  <2>4. ListenerInv'
    BY <1>5 DEF Listen
  <2>5. CauseInv'
    BY <1>5 DEF Listen
  <2> QED BY <2>1, <2>2, <2>3, <2>4, <2>5
<1>6. ASSUME ListenRest
      PROVE  ServerInv'
  <2>1. ServerTypeOK'
    <3>1. lis' \in [{"grpc", "rest"} -> {"none", "open", "closed"}]
      BY <1>6 DEF ListenRest
    <3>2. g' = g \/ g' = [y \in Goroutines |-> "ready"]
      BY <1>6 DEF ListenRest
    <3>3. /\ g' \in [Goroutines -> Places]
          /\ g'["grpc"] \in {"none", "ready", "serving", "done"}
          /\ g'["rest"] \in {"none", "ready", "serving", "done"}
          /\ g'["shutdown"] \in {"none", "ready", "sessions", "graceful", "rest", "done"}
      BY <3>2
    <3> QED BY <1>6, <3>1, <3>3 DEF ListenRest
  <2>2. MainInv'
    BY <1>6 DEF ListenRest
  <2>3. StopInv'
    BY <1>6 DEF ListenRest
  <2>4. ListenerInv'
    BY <1>6 DEF ListenRest
  <2>5. CauseInv'
    BY <1>6 DEF ListenRest
  <2> QED BY <2>1, <2>2, <2>3, <2>4, <2>5
<1>7. ASSUME Wait
      PROVE  ServerInv'
  <2>1. ServerTypeOK'
    BY <1>7 DEF Wait
  <2>2. MainInv'
    BY <1>7 DEF Wait
  <2>3. StopInv'
    BY <1>7 DEF Wait
  <2>4. ListenerInv'
    BY <1>7 DEF Wait
  <2>5. CauseInv'
    BY <1>7 DEF Wait
  <2> QED BY <2>1, <2>2, <2>3, <2>4, <2>5
<1>8. ASSUME Exit
      PROVE  ServerInv'
  <2>1. ServerTypeOK'
    BY <1>8 DEF Exit
  <2>2. MainInv'
    BY <1>8 DEF Exit
  <2>3. StopInv'
    BY <1>8 DEF Exit
  <2>4. ListenerInv'
    BY <1>8 DEF Exit
  <2>5. CauseInv'
    BY <1>8 DEF Exit
  <2> QED BY <2>1, <2>2, <2>3, <2>4, <2>5
<1>9. ASSUME Signal
      PROVE  ServerInv'
  <2>1. ServerTypeOK'
    BY <1>9 DEF Signal
  <2>2. MainInv'
    BY <1>9 DEF Signal
  <2>3. StopInv'
    BY <1>9 DEF Signal
  <2>4. ListenerInv'
    BY <1>9 DEF Signal
  <2>5. CauseInv'
    BY <1>9 DEF Signal
  <2> QED BY <2>1, <2>2, <2>3, <2>4, <2>5
<1>10. ASSUME ServeGrpc
      PROVE  ServerInv'
  <2>1. ServerTypeOK'
    <3>1. g' \in [Goroutines -> Places] /\ g'["grpc"] \in {"serving", "done"}
      BY <1>10 DEF ServeGrpc, Become
    <3>2. g'["rest"] = g["rest"] /\ g'["shutdown"] = g["shutdown"]
      BY <1>10 DEF ServeGrpc, Become
    <3>3. lis' \in [{"grpc", "rest"} -> {"none", "open", "closed"}]
      BY <1>10 DEF ServeGrpc, Close
    <3> QED BY <1>10, <3>1, <3>2, <3>3 DEF ServeGrpc, Around
  <2>2. MainInv'
    BY <1>10 DEF ServeGrpc, Become, Close, Around
  <2>3. StopInv'
    BY <1>10 DEF ServeGrpc, Become, Close, Around
  <2>4. ListenerInv'
    BY <1>10 DEF ServeGrpc, Become, Close, Around
  <2>5. CauseInv'
    BY <1>10 DEF ServeGrpc, Become, Close, Around
  <2> QED BY <2>1, <2>2, <2>3, <2>4, <2>5
<1>11. ASSUME ServeRest
      PROVE  ServerInv'
  <2>1. ServerTypeOK'
    BY <1>11 DEF ServeRest, Become, Close, Around
  <2>2. MainInv'
    BY <1>11 DEF ServeRest, Become, Close, Around
  <2>3. StopInv'
    BY <1>11 DEF ServeRest, Become, Close, Around
  <2>4. ListenerInv'
    BY <1>11 DEF ServeRest, Become, Close, Around
  <2>5. CauseInv'
    BY <1>11 DEF ServeRest, Become, Close, Around
  <2> QED BY <2>1, <2>2, <2>3, <2>4, <2>5
<1>12. ASSUME GrpcReturns
      PROVE  ServerInv'
  <2>1. ServerTypeOK'
    BY <1>12 DEF GrpcReturns, Become, Around
  <2>2. MainInv'
    BY <1>12 DEF GrpcReturns, Become, Around
  <2>3. StopInv'
    BY <1>12 DEF GrpcReturns, Become, Around
  <2>4. ListenerInv'
    BY <1>12 DEF GrpcReturns, Become, Around
  <2>5. CauseInv'
    BY <1>12 DEF GrpcReturns, Become, Around
  <2> QED BY <2>1, <2>2, <2>3, <2>4, <2>5
<1>13. ASSUME RestReturns
      PROVE  ServerInv'
  <2>1. ServerTypeOK'
    BY <1>13 DEF RestReturns, Become, Around
  <2>2. MainInv'
    BY <1>13 DEF RestReturns, Become, Around
  <2>3. StopInv'
    BY <1>13 DEF RestReturns, Become, Around
  <2>4. ListenerInv'
    BY <1>13 DEF RestReturns, Become, Around
  <2>5. CauseInv'
    BY <1>13 DEF RestReturns, Become, Around
  <2> QED BY <2>1, <2>2, <2>3, <2>4, <2>5
<1>14. ASSUME ShutdownSessions
      PROVE  ServerInv'
  <2>1. ServerTypeOK'
    BY <1>14 DEF ShutdownSessions, EgDone, Become, Around
  <2>2. MainInv'
    BY <1>14 DEF ShutdownSessions, EgDone, Become, Around
  <2>3. StopInv'
    BY <1>14 DEF ShutdownSessions, EgDone, Become, Around
  <2>4. ListenerInv'
    BY <1>14 DEF ShutdownSessions, EgDone, Become, Around
  <2>5. CauseInv'
    BY <1>14 DEF ShutdownSessions, EgDone, Become, Around
  <2> QED BY <2>1, <2>2, <2>3, <2>4, <2>5
<1>15. ASSUME GracefulStop
      PROVE  ServerInv'
  <2>1. ServerTypeOK'
    BY <1>15 DEF GracefulStop, Become, Close, Around
  <2>2. MainInv'
    BY <1>15 DEF GracefulStop, Become, Close, Around
  <2>3. StopInv'
    BY <1>15 DEF GracefulStop, Become, Close, Around
  <2>4. ListenerInv'
    BY <1>15 DEF GracefulStop, Become, Close, Around
  <2>5. CauseInv'
    BY <1>15 DEF GracefulStop, Become, Close, Around
  <2> QED BY <2>1, <2>2, <2>3, <2>4, <2>5
<1>16. ASSUME ShutdownRest
      PROVE  ServerInv'
  <2>1. ServerTypeOK'
    BY <1>16 DEF ShutdownRest, Become, Close, Around
  <2>2. MainInv'
    BY <1>16 DEF ShutdownRest, Become, Close, Around
  <2>3. StopInv'
    BY <1>16 DEF ShutdownRest, Become, Close, Around
  <2>4. ListenerInv'
    BY <1>16 DEF ShutdownRest, Become, Close, Around
  <2>5. CauseInv'
    BY <1>16 DEF ShutdownRest, Become, Close, Around
  <2> QED BY <2>1, <2>2, <2>3, <2>4, <2>5
<1>17. ASSUME ShutdownReturns
      PROVE  ServerInv'
  <2>1. ServerTypeOK'
    BY <1>17 DEF ShutdownReturns, Become, Around
  <2>2. MainInv'
    BY <1>17 DEF ShutdownReturns, Become, Around
  <2>3. StopInv'
    BY <1>17 DEF ShutdownReturns, Become, Around
  <2>4. ListenerInv'
    BY <1>17 DEF ShutdownReturns, Become, Around
  <2>5. CauseInv'
    BY <1>17 DEF ShutdownReturns, Become, Around
  <2> QED BY <2>1, <2>2, <2>3, <2>4, <2>5
<1>18. ASSUME ShutdownTimesOut
      PROVE  ServerInv'
  <2>1. ServerTypeOK'
    BY <1>18 DEF ShutdownTimesOut, Become, Around
  <2>2. MainInv'
    BY <1>18 DEF ShutdownTimesOut, Become, Around
  <2>3. StopInv'
    BY <1>18 DEF ShutdownTimesOut, Become, Around
  <2>4. ListenerInv'
    BY <1>18 DEF ShutdownTimesOut, Become, Around
  <2>5. CauseInv'
    BY <1>18 DEF ShutdownTimesOut, Become, Around
  <2> QED BY <2>1, <2>2, <2>3, <2>4, <2>5
<1>19. ASSUME NEW x \in Goroutines, ServeFails(x)
      PROVE  ServerInv'
  <2>1. ServerTypeOK'
    BY <1>19 DEF ServeFails, Become, Close, Around
  <2>2. MainInv'
    BY <1>19 DEF ServeFails, Become, Close, Around
  <2>3. StopInv'
    BY <1>19 DEF ServeFails, Become, Close, Around
  <2>4. ListenerInv'
    BY <1>19 DEF ServeFails, Become, Close, Around
  <2>5. CauseInv'
    BY <1>19 DEF ServeFails, Become, Close, Around
  <2> QED BY <2>1, <2>2, <2>3, <2>4, <2>5
<1>20. ASSUME Dispatcher
      PROVE  ServerInv'
  <2>1. ServerTypeOK'
    BY <1>20 DEF Dispatcher, EgDone, Become, Around
  <2>2. MainInv'
    BY <1>20 DEF Dispatcher, EgDone, Become, Around
  <2>3. StopInv'
    BY <1>20 DEF Dispatcher, EgDone, Become, Around
  <2>4. ListenerInv'
    BY <1>20 DEF Dispatcher, EgDone, Become, Around
  <2>5. CauseInv'
    BY <1>20 DEF Dispatcher, EgDone, Become, Around
  <2> QED BY <2>1, <2>2, <2>3, <2>4, <2>5
<1>21. ASSUME SweepTick
      PROVE  ServerInv'
  <2>1. ServerTypeOK'
    BY <1>21 DEF SweepTick, Become, Around
  <2>2. MainInv'
    BY <1>21 DEF SweepTick, Become, Around
  <2>3. StopInv'
    BY <1>21 DEF SweepTick, Become, Around
  <2>4. ListenerInv'
    BY <1>21 DEF SweepTick, Become, Around
  <2>5. CauseInv'
    BY <1>21 DEF SweepTick, Become, Around
  <2> QED BY <2>1, <2>2, <2>3, <2>4, <2>5
<1>22. ASSUME Sweep
      PROVE  ServerInv'
  <2>1. ServerTypeOK'
    BY <1>22 DEF Sweep, Become, Around
  <2>2. MainInv'
    BY <1>22 DEF Sweep, Become, Around
  <2>3. StopInv'
    BY <1>22 DEF Sweep, Become, Around
  <2>4. ListenerInv'
    BY <1>22 DEF Sweep, Become, Around
  <2>5. CauseInv'
    BY <1>22 DEF Sweep, Become, Around
  <2> QED BY <2>1, <2>2, <2>3, <2>4, <2>5
<1>23. ASSUME SweeperReturns
      PROVE  ServerInv'
  <2>1. ServerTypeOK'
    BY <1>23 DEF SweeperReturns, EgDone, Become, Around
  <2>2. MainInv'
    BY <1>23 DEF SweeperReturns, EgDone, Become, Around
  <2>3. StopInv'
    BY <1>23 DEF SweeperReturns, EgDone, Become, Around
  <2>4. ListenerInv'
    BY <1>23 DEF SweeperReturns, EgDone, Become, Around
  <2>5. CauseInv'
    BY <1>23 DEF SweeperReturns, EgDone, Become, Around
  <2> QED BY <2>1, <2>2, <2>3, <2>4, <2>5
<1>24. ASSUME NEW kind \in DOMAIN calls, CallStarts(kind)
      PROVE  ServerInv'
  <2>1. ServerTypeOK'
    BY <1>24 DEF CallStarts, Serving, Beside
  <2>2. MainInv'
    BY <1>24 DEF CallStarts, Serving, Beside
  <2>3. StopInv'
    BY <1>24 DEF CallStarts, Serving, Beside
  <2>4. ListenerInv'
    BY <1>24 DEF CallStarts, Serving, Beside
  <2>5. CauseInv'
    BY <1>24 DEF CallStarts, Serving, Beside
  <2> QED BY <2>1, <2>2, <2>3, <2>4, <2>5
<1>25. ASSUME NEW kind \in DOMAIN calls, CallEnds(kind)
      PROVE  ServerInv'
  <2>1. ServerTypeOK'
    BY <1>25 DEF CallEnds, Beside
  <2>2. MainInv'
    BY <1>25 DEF CallEnds, Beside
  <2>3. StopInv'
    BY <1>25 DEF CallEnds, Beside
  <2>4. ListenerInv'
    BY <1>25 DEF CallEnds, Beside
  <2>5. CauseInv'
    BY <1>25 DEF CallEnds, Beside
  <2> QED BY <2>1, <2>2, <2>3, <2>4, <2>5
<1>26. ASSUME RestTimesOut
      PROVE  ServerInv'
  <2>1. ServerTypeOK'
    BY <1>26 DEF RestTimesOut, Beside
  <2>2. MainInv'
    BY <1>26 DEF RestTimesOut, Beside
  <2>3. StopInv'
    BY <1>26 DEF RestTimesOut, Beside
  <2>4. ListenerInv'
    BY <1>26 DEF RestTimesOut, Beside
  <2>5. CauseInv'
    BY <1>26 DEF RestTimesOut, Beside
  <2> QED BY <2>1, <2>2, <2>3, <2>4, <2>5
<1>27. ASSUME NEW s \in Sessions, SessionOpens(s)
      PROVE  ServerInv'
  <2>1. ServerTypeOK'
    BY <1>27 DEF SessionOpens, Serving, Beside
  <2>2. MainInv'
    BY <1>27 DEF SessionOpens, Serving, Beside
  <2>3. StopInv'
    BY <1>27 DEF SessionOpens, Serving, Beside
  <2>4. ListenerInv'
    BY <1>27 DEF SessionOpens, Serving, Beside
  <2>5. CauseInv'
    BY <1>27 DEF SessionOpens, Serving, Beside
  <2> QED BY <2>1, <2>2, <2>3, <2>4, <2>5
<1>28. ASSUME NEW s \in Sessions, ClientVanishes(s)
      PROVE  ServerInv'
  <2>1. ServerTypeOK'
    BY <1>28 DEF ClientVanishes, Beside
  <2>2. MainInv'
    BY <1>28 DEF ClientVanishes, Beside
  <2>3. StopInv'
    BY <1>28 DEF ClientVanishes, Beside
  <2>4. ListenerInv'
    BY <1>28 DEF ClientVanishes, Beside
  <2>5. CauseInv'
    BY <1>28 DEF ClientVanishes, Beside
  <2> QED BY <2>1, <2>2, <2>3, <2>4, <2>5
<1>29. ASSUME NEW s \in Sessions, SessionEnds(s)
      PROVE  ServerInv'
  <2>1. ServerTypeOK'
    BY <1>29 DEF SessionEnds, Beside
  <2>2. MainInv'
    BY <1>29 DEF SessionEnds, Beside
  <2>3. StopInv'
    BY <1>29 DEF SessionEnds, Beside
  <2>4. ListenerInv'
    BY <1>29 DEF SessionEnds, Beside
  <2>5. CauseInv'
    BY <1>29 DEF SessionEnds, Beside
  <2> QED BY <2>1, <2>2, <2>3, <2>4, <2>5
<1>30. CASE UNCHANGED vars
  BY <1>30 DEF vars
<1> QED
  BY <1>1, <1>2, <1>3, <1>4, <1>5, <1>6, <1>7, <1>8, <1>9, <1>10, <1>11,
     <1>12, <1>13, <1>14, <1>15, <1>16, <1>17, <1>18, <1>19, <1>20, <1>21,
     <1>22, <1>23, <1>24, <1>25, <1>26, <1>27, <1>28, <1>29, <1>30
       DEF Next, MainStep, ServeStep, ShutdownStep

\* The invariant holds for ever.
LEMMA ServerInvAlways == Spec => []ServerInv
BY ServerInvInit, ServerInvStep, PTL DEF Spec

(***************************************************************************)
(* main's deferred Close of the store (cmd/embyr/main.go) runs under       *)
(* nobody: see DbUsersGone.                                                *)
(***************************************************************************)
THEOREM StoreClosedUnderNobody == Spec => []DbUsersGone
<1>1. ServerInv => DbUsersGone
  BY DEF ServerInv, ServerTypeOK, MainInv, StopInv, DbUsersGone, Drained, Goroutines
<1> QED BY <1>1, ServerInvAlways, PTL

(***************************************************************************)
(* Run returns with both ports released, on every path: see                *)
(* NoListenerLeft.                                                         *)
(***************************************************************************)
THEOREM PortsReleased == Spec => []NoListenerLeft
<1>1. ServerInv => NoListenerLeft
  BY DEF ServerInv, ServerTypeOK, ListenerInv, NoListenerLeft
<1> QED BY <1>1, ServerInvAlways, PTL

(***************************************************************************)
(* The process fails only if something failed, or if the signal came       *)
(* before the gRPC server served: see CleanShutdown.                       *)
(***************************************************************************)
THEOREM FailuresHaveACause == Spec => []CleanShutdown
<1>1. ServerInv => CleanShutdown
  BY DEF ServerInv, CauseInv, CleanShutdown
<1> QED BY <1>1, ServerInvAlways, PTL

=============================================================================
