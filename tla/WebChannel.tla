----------------------------- MODULE WebChannel -----------------------------
(***************************************************************************)
(* A BrowserChannel session: the POST that opens it, the bridge between    *)
(* HTTP and the gRPC handler, the pump that numbers the handler's          *)
(* responses and appends them to the session's log, the GET back channels  *)
(* that replay the log, the forward POSTs with their retries, and          *)
(* Manager.Shutdown.  The Listen and the Write channel run the same code   *)
(* with different message types.                                           *)
(*                                                                         *)
(* Sessions share nothing but the manager's map, so one is modelled.       *)
(* Requests are names, responses the numbers 1, 2, ... in the order the    *)
(* handler sends them.                                                     *)
(***************************************************************************)
EXTENDS Naturals, Sequences, FiniteSets, Functions

CONSTANTS
  Opening,    \* the requests in the POST that opens the session
  Rids,       \* request ids of later forward POSTs: 1, 2, ...
  Bodies,     \* Bodies[r]: the requests POST r carries
  Garbled,    \* requests that do not decode
  Posts,      \* slots for forward POSTs in flight
  Conns,      \* slots for back-channel GETs
  RecvCap,    \* capacity of the bridge's recvCh (8 in the code)
  SendCap,    \* capacity of the bridge's sendCh (64 in the code)
  RidWindow,  \* request ids remembered (16 in the code)
  MaxMsgs,    \* bound: responses the handler sends
  MaxNoops    \* bound: keep-alives sent

Requests == UNION {Range(b) : b \in {Opening} \cup Range(Bodies)}

\* A request is named by its place: no name occurs twice.
DistinctNames ==
  /\ IsInjective(Opening)
  /\ \A r \in Rids : IsInjective(Bodies[r]) /\ Range(Bodies[r]) \cap Range(Opening) = {}
  /\ \A r, s \in Rids : r # s => Range(Bodies[r]) \cap Range(Bodies[s]) = {}

ASSUME WebChannelAssumption ==
  /\ Rids \subseteq Nat \ {0}
  /\ Bodies \in [Rids -> Seq(Requests)]
  /\ Opening \in Seq(Requests)
  /\ {RecvCap, SendCap, RidWindow} \subseteq Nat \ {0}
  /\ {MaxMsgs, MaxNoops} \subseteq Nat
  /\ DistinctNames

VARIABLES
  opener,      \* where the opening POST stands
  registered,  \* the session is in the manager's map
  wired,       \* its bridge and cancel function are set
  ctxDone,     \* the bridge's context is cancelled
  down,        \* Shutdown has run
  posts,       \* where every forward POST in flight stands
  seen,        \* the request ids remembered
  recvCh,      \* requests on their way to the handler
  handler,     \* where the gRPC handler stands
  spoken,      \* the handler has received a request
  sent,        \* responses the handler has sent
  sendCh,      \* responses on their way to the pump
  pump,        \* where the pump stands
  seq,         \* the next array id
  log,         \* the session's message log
  early,       \* history: responses numbered before the connect chunk
  conns,       \* where every back channel stands
  noops,       \* array ids keep-alives have used
  lastAid,     \* client: the last array id it accepted
  heard,       \* client: the responses it accepted
  acked,       \* client: request ids of POSTs answered with 200
  taken        \* history: taken[q] times request q was put in recvCh

openVars == <<opener, registered, wired>>
postVars == <<posts, seen>>
handlerVars == <<handler, spoken, sent>>
logVars == <<pump, seq, log, early>>
clientVars == <<lastAid, heard, acked>>
vars == <<opener, registered, wired, ctxDone, down, posts, seen, recvCh, taken,
          handler, spoken, sent, sendCh, pump, seq, log, early, conns, noops,
          lastAid, heard, acked>>

-----------------------------------------------------------------------------
(***************************************************************************)
(* The states of the parts.  The opening POST: none, created (registered), *)
(* pushing its requests (todo holds the places of those left), done (the   *)
(* client has the connect chunk) or aborted.  The pump: idle, claimed (it  *)
(* has numbered a response it has not appended yet) or exited.             *)
(*                                                                         *)
(* A back channel has taken the log up to index upto and written it up to  *)
(* index idx; it waits once idx >= upto.  The channel it waits on is       *)
(* closed by the Append that makes the log longer than upto.  live: the    *)
(* client still reads it.  last: it is draining before it returns.         *)
(***************************************************************************)
Chunk == [seq : Nat, msg : Nat]

NoPost == [at |-> "none"]
NoConn == [at |-> "closed"]

Pushing(todo) == [at |-> "pushing", todo |-> todo]

OpenerState ==
  {[at |-> a] : a \in {"none", "created", "done", "aborted"}}
    \cup [at : {"pushing"}, todo : SUBSET DOMAIN Opening]

PostState ==
  {NoPost} \cup
    UNION {[at : {"pushing"}, rid : {r}, todo : SUBSET DOMAIN Bodies[r]] : r \in Rids}

PumpState == {[at |-> a] : a \in {"none", "idle", "exited"}}
               \cup [at : {"claimed"}, chunk : Chunk]

ConnState == {NoConn} \cup [at : {"open"}, idx : Nat, upto : Nat,
                            live : BOOLEAN, last : BOOLEAN]

Serving(k) == conns[k].at = "open"
Waiting(k) == Serving(k) /\ conns[k].idx >= conns[k].upto

WcTypeOK ==
  /\ opener \in OpenerState
  /\ registered \in BOOLEAN /\ wired \in BOOLEAN /\ ctxDone \in BOOLEAN
  /\ down \in BOOLEAN
  /\ posts \in [Posts -> PostState]
  /\ seen \in Seq(Rids) /\ Len(seen) <= RidWindow
  /\ recvCh \in Seq(Requests) /\ Len(recvCh) <= RecvCap
  /\ handler \in {"none", "running", "removed", "exited"}
  /\ spoken \in BOOLEAN
  /\ sent \in 0 .. MaxMsgs
  /\ sendCh \in Seq(Nat) /\ Len(sendCh) <= SendCap
  /\ pump \in PumpState
  /\ seq \in Nat
  /\ log \in Seq(Chunk)
  /\ early \in Nat
  /\ conns \in [Conns -> ConnState]
  /\ noops \subseteq Nat
  /\ lastAid \in Nat /\ heard \subseteq Nat /\ acked \subseteq Rids
  /\ taken \in [Requests -> Nat]

WcInit ==
  /\ opener = NoPost
  /\ registered = FALSE /\ wired = FALSE /\ ctxDone = FALSE
  /\ down = FALSE
  /\ posts = [x \in Posts |-> NoPost]
  /\ seen = <<>>
  /\ recvCh = <<>>
  /\ handler = "none"
  /\ spoken = FALSE
  /\ sent = 0
  /\ sendCh = <<>>
  /\ pump = [at |-> "none"]
  /\ seq = 0
  /\ log = <<>>
  /\ early = 0
  /\ conns = [k \in Conns |-> NoConn]
  /\ noops = {}
  /\ lastAid = 0 /\ heard = {} /\ acked = {}
  /\ taken = [q \in Requests |-> 0]

-----------------------------------------------------------------------------
(***************************************************************************)
(* Opening the session.                                                    *)
(***************************************************************************)

\* parseForwardBody: the places of the requests of a body; what does not
\* decode is skipped without a word.
Parsed(body) == {i \in DOMAIN body : body[i] \notin Garbled}

\* Requests are pushed in the order of the body.
IsNext(i, todo) == i \in todo /\ \A j \in todo : i <= j

\* bridge.recvCh <- req
Push(q) ==
  /\ Len(recvCh) < RecvCap
  /\ recvCh' = Append(recvCh, q)
  /\ taken' = [taken EXCEPT ![q] = @ + 1]

\* NewSession: in the map before it has a bridge or a cancel function.
OpenCreate ==
  /\ opener = NoPost
  /\ opener' = [at |-> "created"]
  /\ registered' = TRUE
  /\ UNCHANGED <<wired, ctxDone, down, postVars, recvCh, taken, handlerVars,
                 sendCh, logVars, conns, noops, clientVars>>

\* The bridge is set; the handler and the pump start.
OpenWire ==
  /\ opener.at = "created"
  /\ opener' = Pushing(Parsed(Opening))
  /\ wired' = TRUE
  /\ handler' = "running"
  /\ pump' = [at |-> "idle"]
  /\ UNCHANGED <<registered, ctxDone, down, postVars, recvCh, taken, spoken,
                 sent, sendCh, seq, log, early, conns, noops, clientVars>>

\* One request of the opening POST goes to the handler.
OpenPush ==
  /\ opener.at = "pushing"
  /\ \E i \in opener.todo :
       /\ IsNext(i, opener.todo)
       /\ Push(Opening[i])
       /\ opener' = Pushing(opener.todo \ {i})
  /\ UNCHANGED <<registered, wired, ctxDone, down, postVars, handlerVars,
                 sendCh, logVars, conns, noops, clientVars>>

\* The client gives up while requests are being pushed.
OpenAbort ==
  /\ opener.at = "pushing"
  /\ opener.todo # {}
  /\ opener' = [at |-> "aborted"]
  /\ UNCHANGED <<registered, wired, ctxDone, down, postVars, recvCh, taken,
                 handlerVars, sendCh, logVars, conns, noops, clientVars>>

\* FormatConnectChunk: array ids 0 and 1, and the counter is set to 2.
OpenConnect ==
  /\ opener = Pushing({})
  /\ opener' = [at |-> "done"]
  /\ seq' = 2
  /\ lastAid' = 1
  /\ UNCHANGED <<registered, wired, ctxDone, down, postVars, recvCh, taken,
                 handlerVars, sendCh, pump, log, early, conns, noops, heard,
                 acked>>

-----------------------------------------------------------------------------
(***************************************************************************)
(* Forward POSTs of an open session.  The client sends them in order, each *)
(* once the one before it is answered, and may send one again.  Of the     *)
(* network it is assumed that no copy of a POST is so late that RidWindow  *)
(* newer ones have been sent.  A session that is gone is answered with     *)
(* 400, which changes nothing.                                             *)
(***************************************************************************)

\* The last n elements of a sequence.
LastOf(q, n) == IF Len(q) > n THEN SubSeq(q, Len(q) - n + 1, Len(q)) ELSE q

\* Mutant of Remember: the window is one too short.
RememberFewer(r) == LastOf(Append(seen, r), RidWindow - 1)

\* The id is recorded, in a window of the last RidWindow ones.
Remember(r) == LastOf(Append(seen, r), RidWindow)

\* SeenRID: a known id is answered at once, another is recorded first.
PostArrive(x, r) ==
  /\ opener.at = "done"
  /\ r > 1 => r - 1 \in acked
  /\ r + RidWindow - 1 \notin acked
  /\ registered /\ wired
  /\ \/ /\ r \in Range(seen)
        /\ acked' = acked \cup {r}
        /\ UNCHANGED <<posts, seen>>
     \/ /\ r \notin Range(seen)
        /\ posts[x] = NoPost
        /\ seen' = Remember(r)
        /\ posts' = [posts EXCEPT ![x] = [at |-> "pushing", rid |-> r,
                                          todo |-> Parsed(Bodies[r])]]
        /\ UNCHANGED acked
  /\ UNCHANGED <<openVars, ctxDone, down, recvCh, taken, handlerVars, sendCh,
                 logVars, conns, noops, lastAid, heard>>

PostPush(x) ==
  /\ posts[x].at = "pushing"
  /\ \E i \in posts[x].todo :
       /\ IsNext(i, posts[x].todo)
       /\ Push(Bodies[posts[x].rid][i])
       /\ posts' = [posts EXCEPT ![x].todo = @ \ {i}]
  /\ UNCHANGED <<openVars, ctxDone, down, seen, handlerVars, sendCh, logVars,
                 conns, noops, clientVars>>

\* The client gives up while requests are being pushed.
PostAbort(x) ==
  /\ posts[x].at = "pushing"
  /\ posts[x].todo # {}
  /\ posts' = [posts EXCEPT ![x] = NoPost]
  /\ UNCHANGED <<openVars, ctxDone, down, seen, recvCh, taken, handlerVars,
                 sendCh, logVars, conns, noops, clientVars>>

PostReply(x) ==
  /\ posts[x].at = "pushing"
  /\ posts[x].todo = {}
  /\ posts' = [posts EXCEPT ![x] = NoPost]
  /\ acked' = acked \cup {posts[x].rid}
  /\ UNCHANGED <<openVars, ctxDone, down, seen, recvCh, taken, handlerVars,
                 sendCh, logVars, conns, noops, lastAid, heard>>

-----------------------------------------------------------------------------
(***************************************************************************)
(* The handler, as the bridge sees it: it receives requests, sends         *)
(* responses once it has been asked for something, and returns, by itself  *)
(* or because the context is cancelled.                                    *)
(***************************************************************************)
HandlerRecv ==
  /\ handler = "running"
  /\ recvCh # <<>>
  /\ recvCh' = Tail(recvCh)
  /\ spoken' = TRUE
  /\ UNCHANGED <<openVars, ctxDone, down, postVars, taken, handler, sent,
                 sendCh, logVars, conns, noops, clientVars>>

\* Mutant of HandlerSend: a send that does not wait for room.
HandlerSendUnbounded ==
  /\ handler = "running"
  /\ spoken
  /\ sent < MaxMsgs
  /\ sent' = sent + 1
  /\ sendCh' = Append(sendCh, sent')
  /\ UNCHANGED <<openVars, ctxDone, down, postVars, recvCh, taken, handler,
                 spoken, logVars, conns, noops, clientVars>>

HandlerSend ==
  /\ handler = "running"
  /\ spoken
  /\ sent < MaxMsgs
  /\ Len(sendCh) < SendCap
  /\ sent' = sent + 1
  /\ sendCh' = Append(sendCh, sent')
  /\ UNCHANGED <<openVars, ctxDone, down, postVars, recvCh, taken, handler,
                 spoken, logVars, conns, noops, clientVars>>

\* Mutant of HandlerReturn: the session stays in the map.
HandlerReturnKeeps ==
  /\ handler = "running"
  /\ handler' = "removed"
  /\ UNCHANGED <<openVars, ctxDone, down, postVars, recvCh, taken, spoken,
                 sent, sendCh, logVars, conns, noops, clientVars>>

\* The handler returns: Remove runs before cancel.
HandlerReturn ==
  /\ handler = "running"
  /\ handler' = "removed"
  /\ registered' = FALSE
  /\ UNCHANGED <<opener, wired, ctxDone, down, postVars, recvCh, taken, spoken,
                 sent, sendCh, logVars, conns, noops, clientVars>>

HandlerCancel ==
  /\ handler = "removed"
  /\ handler' = "exited"
  /\ ctxDone' = TRUE
  /\ UNCHANGED <<openVars, down, postVars, recvCh, taken, spoken, sent, sendCh,
                 logVars, conns, noops, clientVars>>

-----------------------------------------------------------------------------
(***************************************************************************)
(* The pump.                                                               *)
(***************************************************************************)

\* A response is taken and given the next array id.
PumpClaim ==
  /\ pump.at = "idle"
  /\ sendCh # <<>>
  /\ sendCh' = Tail(sendCh)
  /\ pump' = [at |-> "claimed", chunk |-> [seq |-> seq, msg |-> Head(sendCh)]]
  /\ seq' = seq + 1
  /\ early' = IF opener.at = "done" THEN early ELSE early + 1
  /\ UNCHANGED <<openVars, ctxDone, down, postVars, recvCh, taken, handlerVars,
                 log, conns, noops, clientVars>>

\* A response that cannot be marshalled ends the session.
PumpFail ==
  /\ pump.at = "idle"
  /\ sendCh # <<>>
  /\ sendCh' = Tail(sendCh)
  /\ pump' = [at |-> "exited"]
  /\ ctxDone' = TRUE
  /\ UNCHANGED <<openVars, down, postVars, recvCh, taken, handlerVars, seq, log,
                 early, conns, noops, clientVars>>

\* MsgLog.Append
PumpAppend ==
  /\ pump.at = "claimed"
  /\ log' = Append(log, pump.chunk)
  /\ pump' = [at |-> "idle"]
  /\ UNCHANGED <<openVars, ctxDone, down, postVars, recvCh, taken, handlerVars,
                 sendCh, seq, early, conns, noops, clientVars>>

PumpExit ==
  /\ pump.at = "idle"
  /\ ctxDone
  /\ pump' = [at |-> "exited"]
  /\ UNCHANGED <<openVars, ctxDone, down, postVars, recvCh, taken, handlerVars,
                 sendCh, seq, log, early, conns, noops, clientVars>>

-----------------------------------------------------------------------------
(***************************************************************************)
(* Back channels.                                                          *)
(***************************************************************************)

\* Mutant of StartIndex: one entry too far.
StartIndexNext(aid) == IF aid >= 2 THEN aid ELSE 0

\* handleBack takes the data chunk with array id S to be log entry S - 2.
StartIndex(aid) == IF aid >= 2 THEN aid - 1 ELSE 0

BackOpen(k) ==
  /\ conns[k] = NoConn
  /\ opener.at = "done"
  /\ registered /\ wired
  /\ conns' = [conns EXCEPT ![k] =
       [at |-> "open", idx |-> StartIndex(lastAid), upto |-> Len(log),
        live |-> TRUE, last |-> FALSE]]
  /\ UNCHANGED <<openVars, ctxDone, down, postVars, recvCh, taken, handlerVars,
                 sendCh, logVars, noops, clientVars>>

\* External: the client ignores array ids it has passed.
Accepted(k, aid) == conns[k].live /\ aid > lastAid

BackWrite(k) ==
  /\ Serving(k)
  /\ conns[k].idx < conns[k].upto
  /\ conns' = [conns EXCEPT ![k].idx = @ + 1]
  /\ LET chunk == log[conns[k].idx + 1]
     IN IF Accepted(k, chunk.seq)
          THEN /\ lastAid' = chunk.seq
               /\ heard' = heard \cup {chunk.msg}
          ELSE UNCHANGED <<lastAid, heard>>
  /\ UNCHANGED <<openVars, ctxDone, down, postVars, recvCh, taken, handlerVars,
                 sendCh, logVars, noops, acked>>

\* Mutant of BackWake: an Append between reading the log and waiting for it
\* is not noticed until the next one.
BackWakeLate(k) ==
  /\ Waiting(k)
  /\ ~conns[k].last
  /\ Len(log) > conns[k].upto + 1
  /\ conns' = [conns EXCEPT ![k].upto = Len(log)]
  /\ UNCHANGED <<openVars, ctxDone, down, postVars, recvCh, taken, handlerVars,
                 sendCh, logVars, noops, clientVars>>

\* An Append has closed the channel: the log is read again.
BackWake(k) ==
  /\ Waiting(k)
  /\ ~conns[k].last
  /\ Len(log) > conns[k].upto
  /\ conns' = [conns EXCEPT ![k].upto = Len(log)]
  /\ UNCHANGED <<openVars, ctxDone, down, postVars, recvCh, taken, handlerVars,
                 sendCh, logVars, noops, clientVars>>

\* Mutant of BackNoop: the keep-alive does not advance the counter.
BackNoopLocal(k) ==
  /\ Waiting(k)
  /\ ~conns[k].last
  /\ Cardinality(noops) < MaxNoops
  /\ noops' = noops \cup {seq}
  /\ lastAid' = IF Accepted(k, seq) THEN seq ELSE lastAid
  /\ UNCHANGED <<openVars, ctxDone, down, postVars, recvCh, taken, handlerVars,
                 sendCh, logVars, conns, heard, acked>>

\* A keep-alive, numbered from the counter of the data chunks.
BackNoop(k) ==
  /\ Waiting(k)
  /\ ~conns[k].last
  /\ Cardinality(noops) < MaxNoops
  /\ noops' = noops \cup {seq}
  /\ seq' = seq + 1
  /\ lastAid' = IF Accepted(k, seq) THEN seq ELSE lastAid
  /\ UNCHANGED <<openVars, ctxDone, down, postVars, recvCh, taken, handlerVars,
                 sendCh, pump, log, early, conns, heard, acked>>

\* The session is over: drain what is in the log.
BackDrain(k) ==
  /\ Waiting(k)
  /\ ~conns[k].last
  /\ ctxDone
  /\ conns' = [conns EXCEPT ![k].upto = Len(log), ![k].last = TRUE]
  /\ UNCHANGED <<openVars, ctxDone, down, postVars, recvCh, taken, handlerVars,
                 sendCh, logVars, noops, clientVars>>

\* The GET returns: drained, or its client is gone.
BackReturn(k) ==
  /\ Waiting(k)
  /\ conns[k].last \/ ~conns[k].live
  /\ conns' = [conns EXCEPT ![k] = NoConn]
  /\ UNCHANGED <<openVars, ctxDone, down, postVars, recvCh, taken, handlerVars,
                 sendCh, logVars, noops, clientVars>>

\* The client leaves; what is written from now on is lost.
BackLost(k) ==
  /\ Serving(k)
  /\ conns[k].live
  /\ conns' = [conns EXCEPT ![k].live = FALSE]
  /\ UNCHANGED <<openVars, ctxDone, down, postVars, recvCh, taken, handlerVars,
                 sendCh, logVars, noops, clientVars>>

\* Manager.Shutdown: a session without a cancel function is passed over.
Shutdown ==
  /\ ~down
  /\ down' = TRUE
  /\ ctxDone' = (ctxDone \/ (registered /\ wired))
  /\ UNCHANGED <<openVars, postVars, recvCh, taken, handlerVars, sendCh,
                 logVars, conns, noops, clientVars>>

-----------------------------------------------------------------------------
OpenStep == OpenCreate \/ OpenWire \/ OpenPush \/ OpenAbort \/ OpenConnect

PostStep(x) ==
  \/ \E r \in Rids : PostArrive(x, r)
  \/ PostPush(x) \/ PostAbort(x) \/ PostReply(x)

HandlerStep == HandlerRecv \/ HandlerSend \/ HandlerReturn \/ HandlerCancel

PumpStep == PumpClaim \/ PumpFail \/ PumpAppend \/ PumpExit

BackStep(k) ==
  \/ BackOpen(k) \/ BackWrite(k) \/ BackWake(k) \/ BackNoop(k)
  \/ BackDrain(k) \/ BackReturn(k) \/ BackLost(k)

WcNext ==
  \/ OpenStep
  \/ \E x \in Posts : PostStep(x)
  \/ HandlerStep
  \/ PumpStep
  \/ \E k \in Conns : BackStep(k)
  \/ Shutdown

WcSpec == WcInit /\ [][WcNext]_vars

(***************************************************************************)
(* Fairness: the server's goroutines run, and the handlers return once     *)
(* their context is cancelled (Send and Recv of the bridge then fail).     *)
(* Nothing is assumed of the client.                                       *)
(***************************************************************************)
WcLiveSpec ==
  /\ WcSpec
  /\ WF_vars(ctxDone /\ HandlerReturn)
  /\ WF_vars(HandlerCancel)
  /\ WF_vars(PumpStep)
  /\ \A k \in Conns : /\ WF_vars(BackWrite(k))
                      /\ WF_vars(BackWake(k))
                      /\ SF_vars(BackDrain(k))
                      /\ SF_vars(BackReturn(k))

-----------------------------------------------------------------------------
(***************************************************************************)
(* session.go:236, "no two chunks in a session ever share a seq", of all   *)
(* that is numbered once the connect chunk has ids 0 and 1: data chunks,   *)
(* by the pump, and keep-alives, by every back channel.  The opening POST  *)
(* sets the counter to 2 whatever it was (session.go:193), so the handler  *)
(* may have answered before: those responses keep ids that the connect     *)
(* chunk and later chunks have too (README, section 3).                    *)
(***************************************************************************)
LateSeqs == {log[i].seq : i \in early + 1 .. Len(log)}

UniqueSeqs ==
  /\ \A i, j \in early + 1 .. Len(log) : i # j => log[i].seq # log[j].seq
  /\ LateSeqs \cap noops = {}
  /\ (LateSeqs \cup noops) \cap {0, 1} = {}

(***************************************************************************)
(* A client that loses back channels, opens new ones with the last array   *)
(* id it has, or reads two at once never passes over a response: all it    *)
(* has acknowledged, and all that lies behind a back channel it reads, it  *)
(* has heard, as long as no keep-alive was numbered and no response before *)
(* the connect chunk (README, section 3).                                  *)
(***************************************************************************)
NoMessageSkipped ==
  noops = {} /\ early = 0 =>
    \A i \in DOMAIN log :
      \/ log[i].seq <= lastAid
      \/ \E k \in Conns : Serving(k) /\ conns[k].live /\ i <= conns[k].idx
      => log[i].msg \in heard

(***************************************************************************)
(* A forward POST that is sent again, even while the first one is still    *)
(* being served, does not hand its requests to the handler again.          *)
(***************************************************************************)
RequestOnce == \A q \in Requests : taken[q] <= 1

(***************************************************************************)
(* No wake-up is lost: every response in the log is written to every back  *)
(* channel that stays open, whenever it is appended.                       *)
(***************************************************************************)
ChunksReachBackChannels ==
  \A k \in Conns, i \in 1 .. MaxMsgs :
    Serving(k) /\ Len(log) >= i ~> ~Serving(k) \/ conns[k].idx >= i

(***************************************************************************)
(* Once the context is cancelled, everything that hangs on the session     *)
(* ends: the handler, the pump and the back channels return and the        *)
(* session leaves the map.                                                 *)
(***************************************************************************)
Ended ==
  /\ ~registered
  /\ handler = "exited"
  /\ pump.at = "exited"
  /\ \A k \in Conns : ~Serving(k)

SessionTornDown == ctxDone ~> []Ended

=============================================================================
