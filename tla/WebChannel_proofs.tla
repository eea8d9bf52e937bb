------------------------- MODULE WebChannel_proofs -------------------------
(***************************************************************************)
(* Proofs about WebChannel, for every number of POSTs, back channels,      *)
(* requests and responses, and every capacity: types, the request-id       *)
(* window, the numbering of chunks and the replay of the log.              *)
(***************************************************************************)
EXTENDS WebChannel, TLAPS

-----------------------------------------------------------------------------
(***************************************************************************)
(* The states of the parts, field by field.                                *)
(***************************************************************************)

\* The bounds and capacities are numbers, and bodies hold requests.
LEMMA Constants ==
  /\ Rids \subseteq Nat \ {0}
  /\ RecvCap \in Nat \ {0} /\ SendCap \in Nat \ {0} /\ RidWindow \in Nat \ {0}
  /\ MaxMsgs \in Nat /\ MaxNoops \in Nat
  /\ \A i \in DOMAIN Opening : Opening[i] \in Requests
  /\ \A r \in Rids : \A i \in DOMAIN Bodies[r] : Bodies[r][i] \in Requests
BY WebChannelAssumption

\* An opening POST that pushes has places of its body left.
LEMMA OpenerFields ==
  ASSUME NEW s \in OpenerState, s.at = "pushing"
  PROVE  s.todo \subseteq DOMAIN Opening /\ s = Pushing(s.todo)
BY DEF OpenerState, Pushing

\* What the opening POST may become.
LEMMA OpenerShapes ==
  /\ \A a \in {"none", "created", "done", "aborted"} : [at |-> a] \in OpenerState
  /\ \A todo \in SUBSET DOMAIN Opening : Pushing(todo) \in OpenerState
BY DEF OpenerState, Pushing

\* A forward POST that pushes has places of its body left.
LEMMA PostFields ==
  ASSUME NEW s \in PostState, s.at = "pushing"
  PROVE  /\ s.rid \in Rids /\ s.todo \subseteq DOMAIN Bodies[s.rid]
         /\ s = [at |-> "pushing", rid |-> s.rid, todo |-> s.todo]
BY DEF PostState, NoPost

\* What a forward POST may become.
LEMMA PostShapes ==
  /\ NoPost \in PostState
  /\ \A r \in Rids : \A todo \in SUBSET DOMAIN Bodies[r] :
       [at |-> "pushing", rid |-> r, todo |-> todo] \in PostState
BY DEF PostState, NoPost

\* A pump that has claimed an array id holds a chunk.
LEMMA PumpFields ==
  ASSUME NEW s \in PumpState, s.at = "claimed"
  PROVE  s.chunk \in Chunk
BY DEF PumpState

\* What the pump may become.
LEMMA PumpShapes ==
  /\ \A a \in {"none", "idle", "exited"} : [at |-> a] \in PumpState
  /\ \A c \in Chunk : [at |-> "claimed", chunk |-> c] \in PumpState
BY DEF PumpState

\* The fields of an open back channel.
LEMMA ConnFields ==
  ASSUME NEW s \in ConnState, s.at = "open"
  PROVE  /\ s.idx \in Nat /\ s.upto \in Nat /\ s.live \in BOOLEAN /\ s.last \in BOOLEAN
         /\ s = [at |-> "open", idx |-> s.idx, upto |-> s.upto, live |-> s.live,
                 last |-> s.last]
BY DEF ConnState, NoConn

\* What a back channel may become.
LEMMA ConnShapes ==
  /\ NoConn \in ConnState
  /\ \A i \in Nat, u \in Nat, b \in BOOLEAN, l \in BOOLEAN :
       [at |-> "open", idx |-> i, upto |-> u, live |-> b, last |-> l] \in ConnState
BY DEF ConnState, NoConn

\* The window of request ids keeps its type and its length.
LEMMA RememberType ==
  ASSUME seen \in Seq(Rids), NEW r \in Rids
  PROVE  Remember(r) \in Seq(Rids) /\ Len(Remember(r)) <= RidWindow
<1> DEFINE q == Append(seen, r)
<1>1. q \in Seq(Rids) /\ Len(q) \in Nat
  OBVIOUS
<1>2. CASE Len(q) > RidWindow
  <2>1. Remember(r) = SubSeq(q, Len(q) - RidWindow + 1, Len(q))
    BY <1>2 DEF Remember, LastOf
  <2>2. Len(q) - RidWindow + 1 \in 1 .. Len(q)
    BY <1>1, <1>2, Constants
  <2> HIDE DEF q
  <2>3. Len(SubSeq(q, Len(q) - RidWindow + 1, Len(q))) = RidWindow
    BY <1>1, <2>2, Constants
  <2>4. SubSeq(q, Len(q) - RidWindow + 1, Len(q)) \in Seq(Rids)
    BY <1>1, <2>2
  <2> QED BY <2>1, <2>3, <2>4, Constants
<1>3. CASE ~(Len(q) > RidWindow)
  BY <1>1, <1>3, Constants DEF Remember, LastOf
<1> QED BY <1>2, <1>3

\* A forward POST after one of its requests was pushed.
LEMMA PostLess ==
  ASSUME NEW s \in PostState, s.at = "pushing", NEW i
  PROVE  /\ [s EXCEPT !.todo = @ \ {i}] \in PostState
         /\ [s EXCEPT !.todo = @ \ {i}] =
              [at |-> "pushing", rid |-> s.rid, todo |-> s.todo \ {i}]
<1> DEFINE rid == s.rid
           todo == s.todo
<1>1. rid \in Rids /\ todo \subseteq DOMAIN Bodies[rid]
  BY PostFields
<1>2. s = [at |-> "pushing", rid |-> rid, todo |-> todo]
  BY PostFields
<1> HIDE DEF rid, todo
<1>3. [[at |-> "pushing", rid |-> rid, todo |-> todo] EXCEPT !.todo = @ \ {i}] =
        [at |-> "pushing", rid |-> rid, todo |-> todo \ {i}]
  BY SMT
<1>4. [at |-> "pushing", rid |-> rid, todo |-> todo \ {i}] \in PostState
  BY <1>1, PostShapes
<1> QED BY <1>2, <1>3, <1>4 DEF rid, todo

\* A back channel whose client has left.
LEMMA ConnLost ==
  ASSUME NEW s \in ConnState, s.at = "open"
  PROVE  /\ [s EXCEPT !.live = FALSE] \in ConnState
         /\ [s EXCEPT !.live = FALSE].at = "open" /\ [s EXCEPT !.live = FALSE].idx = s.idx
         /\ [s EXCEPT !.live = FALSE].upto = s.upto
         /\ ~[s EXCEPT !.live = FALSE].live
<1>1. [s EXCEPT !.live = FALSE] \in ConnState
  BY Zenon DEF ConnState, NoConn
<1>2. s \in [at : {"open"}, idx : Nat, upto : Nat, live : BOOLEAN, last : BOOLEAN]
  BY DEF ConnState, NoConn
<1> QED BY <1>1, <1>2

\* A back channel that drains the log.
LEMMA ConnDrained ==
  ASSUME NEW s \in ConnState, s.at = "open", NEW n \in Nat
  PROVE  /\ [s EXCEPT !.upto = n, !.last = TRUE] \in ConnState
         /\ [s EXCEPT !.upto = n, !.last = TRUE].at = "open"
         /\ [s EXCEPT !.upto = n, !.last = TRUE].idx = s.idx
         /\ [s EXCEPT !.upto = n, !.last = TRUE].upto = n
         /\ [s EXCEPT !.upto = n, !.last = TRUE].live = s.live
<1>1. [s EXCEPT !.upto = n, !.last = TRUE] \in ConnState
  BY Zenon DEF ConnState, NoConn
<1>2. s \in [at : {"open"}, idx : Nat, upto : Nat, live : BOOLEAN, last : BOOLEAN]
  BY DEF ConnState, NoConn
<1> QED BY <1>1, <1>2

-----------------------------------------------------------------------------
(***************************************************************************)
(* Types.  A back channel has read no further than the log goes: without   *)
(* it, the chunk BackWrite writes need not be one.                         *)
(***************************************************************************)
WithinLog == \A k \in Conns : Serving(k) => conns[k].upto <= Len(log)

TypeInv == WcTypeOK /\ WithinLog

\* The invariant holds before the session is opened.
LEMMA TypeInvInit == WcInit => TypeInv
<1> SUFFICES ASSUME WcInit PROVE TypeInv
  OBVIOUS
<1>1. /\ opener \in OpenerState /\ pump \in PumpState
      /\ posts \in [Posts -> PostState] /\ conns \in [Conns -> ConnState]
  BY OpenerShapes, PumpShapes, PostShapes, ConnShapes DEF WcInit, NoPost
<1>2. WithinLog
  BY DEF WcInit, WithinLog, Serving, NoConn
<1>3. /\ seen \in Seq(Rids) /\ Len(seen) <= RidWindow
      /\ recvCh \in Seq(Requests) /\ Len(recvCh) <= RecvCap
      /\ sendCh \in Seq(Nat) /\ Len(sendCh) <= SendCap /\ log \in Seq(Chunk)
  BY Constants DEF WcInit
<1>4. sent \in 0 .. MaxMsgs /\ taken \in [Requests -> Nat]
  BY Constants DEF WcInit
<1>5. /\ registered \in BOOLEAN /\ wired \in BOOLEAN /\ ctxDone \in BOOLEAN
      /\ down \in BOOLEAN /\ spoken \in BOOLEAN /\ seq \in Nat /\ noops \subseteq Nat
      /\ early \in Nat /\ lastAid \in Nat /\ heard \subseteq Nat /\ acked \subseteq Rids
      /\ handler \in {"none", "running", "removed", "exited"}
  BY DEF WcInit
<1> QED BY <1>1, <1>2, <1>3, <1>4, <1>5 DEF TypeInv, WcTypeOK

\* Replacing a back channel by one that has read no further than the log.
LEMMA ConnSet ==
  ASSUME TypeInv, NEW k \in Conns, NEW c \in ConnState, c.at = "open" => c.upto <= Len(log),
         conns' = [conns EXCEPT ![k] = c], log' = log
  PROVE  conns' \in [Conns -> ConnState] /\ WithinLog'
<1>1. conns' \in [Conns -> ConnState]
  BY DEF TypeInv, WcTypeOK
<1>2. ASSUME NEW j \in Conns, Serving(j)'
      PROVE  conns'[j].upto <= Len(log')
  <2>1. CASE j = k
    BY <1>2, <2>1 DEF TypeInv, WcTypeOK, Serving
  <2>2. CASE j # k
    BY <1>2, <2>2 DEF TypeInv, WcTypeOK, WithinLog, Serving
  <2> QED BY <2>1, <2>2
<1> QED BY <1>1, <1>2 DEF WithinLog

\* Putting a request in the bridge keeps the types of both.
LEMMA PushType ==
  ASSUME WcTypeOK, NEW q \in Requests, Push(q)
  PROVE  /\ recvCh' \in Seq(Requests) /\ Len(recvCh') <= RecvCap
         /\ taken' \in [Requests -> Nat]
BY Constants DEF WcTypeOK, Push

\* Every step keeps the types.
LEMMA TypeInvStep == TypeInv /\ [WcNext]_vars => TypeInv'
<1> SUFFICES ASSUME TypeInv, [WcNext]_vars PROVE TypeInv'
  OBVIOUS
<1> USE DEF TypeInv, WithinLog, Serving
<1>1. CASE OpenCreate
  <2>1. opener' \in OpenerState
    BY <1>1, OpenerShapes DEF OpenCreate
  <2> QED BY <1>1, <2>1 DEF OpenCreate, WcTypeOK, postVars, handlerVars, logVars, clientVars
<1>2. CASE OpenWire
  <2>1. opener' \in OpenerState
    BY <1>2, OpenerShapes DEF OpenWire, Parsed
  <2>2. pump' \in PumpState
    BY <1>2, PumpShapes DEF OpenWire
  <2> QED BY <1>2, <2>1, <2>2 DEF OpenWire, WcTypeOK, postVars, clientVars
<1>3. CASE OpenPush
  <2>1. PICK i \in opener.todo : Push(Opening[i]) /\ opener' = Pushing(opener.todo \ {i})
    BY <1>3 DEF OpenPush
  <2>2. opener.todo \subseteq DOMAIN Opening
    BY <1>3, OpenerFields DEF OpenPush, WcTypeOK
  <2>3. opener' \in OpenerState
    BY <2>1, <2>2, OpenerShapes
  <2>4. Opening[i] \in Requests
    BY <2>2, Constants
  <2>5. /\ recvCh' \in Seq(Requests) /\ Len(recvCh') <= RecvCap
        /\ taken' \in [Requests -> Nat]
    BY <2>1, <2>4, PushType
  <2> QED BY <1>3, <2>3, <2>5
          DEF OpenPush, WcTypeOK, postVars, handlerVars, logVars, clientVars
<1>4. CASE OpenAbort
  <2>1. opener' \in OpenerState
    BY <1>4, OpenerShapes DEF OpenAbort
  <2> QED BY <1>4, <2>1 DEF OpenAbort, WcTypeOK, postVars, handlerVars, logVars, clientVars
<1>5. CASE OpenConnect
  <2>1. opener' \in OpenerState
    BY <1>5, OpenerShapes DEF OpenConnect
  <2> QED BY <1>5, <2>1 DEF OpenConnect, WcTypeOK, postVars, handlerVars
<1>6. ASSUME NEW x \in Posts, NEW r \in Rids, PostArrive(x, r)
      PROVE  TypeInv'
  <2> USE DEF openVars, handlerVars, logVars
  <2>1. CASE r \in Range(seen)
    BY <1>6, <2>1 DEF PostArrive, WcTypeOK
  <2>2. CASE r \notin Range(seen)
    <3>1. seen' \in Seq(Rids) /\ Len(seen') <= RidWindow
      BY <1>6, <2>2, RememberType DEF PostArrive, WcTypeOK
    <3>2. Parsed(Bodies[r]) \subseteq DOMAIN Bodies[r]
      BY DEF Parsed
    <3>3. [at |-> "pushing", rid |-> r, todo |-> Parsed(Bodies[r])] \in PostState
      BY <3>2, PostShapes
    <3>4. posts' \in [Posts -> PostState]
      BY <1>6, <2>2, <3>3 DEF PostArrive, WcTypeOK
    <3> QED BY <1>6, <2>2, <3>1, <3>4 DEF PostArrive, WcTypeOK
  <2> QED BY <2>1, <2>2
<1>7. ASSUME NEW x \in Posts, PostPush(x)
      PROVE  TypeInv'
  <2>1. PICK i \in posts[x].todo : /\ Push(Bodies[posts[x].rid][i])
                                   /\ posts' = [posts EXCEPT ![x].todo = @ \ {i}]
    BY <1>7 DEF PostPush
  <2>2. posts[x] \in PostState /\ posts[x].at = "pushing"
    BY <1>7 DEF PostPush, WcTypeOK
  <2>3. /\ posts[x].rid \in Rids /\ posts[x].todo \subseteq DOMAIN Bodies[posts[x].rid]
        /\ posts[x] = [at |-> "pushing", rid |-> posts[x].rid, todo |-> posts[x].todo]
    BY <2>2, PostFields
  <2>4. [posts[x] EXCEPT !.todo = @ \ {i}] \in PostState
    BY <2>2, PostLess
  <2>5. posts' \in [Posts -> PostState]
    BY <2>1, <2>4 DEF WcTypeOK
  <2>6. Bodies[posts[x].rid][i] \in Requests
    BY <2>3, Constants
  <2>7. /\ recvCh' \in Seq(Requests) /\ Len(recvCh') <= RecvCap
        /\ taken' \in [Requests -> Nat]
    BY <2>1, <2>6, PushType
  <2> QED BY <1>7, <2>5, <2>7
          DEF PostPush, WcTypeOK, openVars, handlerVars, logVars, clientVars
<1>8. ASSUME NEW x \in Posts, PostAbort(x)
      PROVE  TypeInv'
  <2>1. posts' \in [Posts -> PostState]
    BY <1>8, PostShapes DEF PostAbort, WcTypeOK
  <2> QED BY <1>8, <2>1 DEF PostAbort, WcTypeOK, openVars, handlerVars, logVars, clientVars
<1>9. ASSUME NEW x \in Posts, PostReply(x)
      PROVE  TypeInv'
  <2>1. posts' \in [Posts -> PostState]
    BY <1>9, PostShapes DEF PostReply, WcTypeOK
  <2>2. acked' \subseteq Rids
    BY <1>9, PostFields DEF PostReply, WcTypeOK
  <2> QED BY <1>9, <2>1, <2>2 DEF PostReply, WcTypeOK, openVars, handlerVars, logVars
<1>10. CASE HandlerRecv
  <2>1. recvCh' \in Seq(Requests) /\ Len(recvCh') <= RecvCap
    BY <1>10, Constants DEF HandlerRecv, WcTypeOK
  <2> QED BY <1>10, <2>1 DEF HandlerRecv, WcTypeOK, openVars, postVars, logVars, clientVars
<1>11. CASE HandlerSend
  <2>1. sent' \in 0 .. MaxMsgs /\ sendCh' \in Seq(Nat) /\ Len(sendCh') <= SendCap
    BY <1>11, Constants DEF HandlerSend, WcTypeOK
  <2> QED BY <1>11, <2>1 DEF HandlerSend, WcTypeOK, openVars, postVars, logVars, clientVars
<1>12. CASE HandlerReturn
  BY <1>12 DEF HandlerReturn, WcTypeOK, postVars, logVars, clientVars
<1>13. CASE HandlerCancel
  BY <1>13 DEF HandlerCancel, WcTypeOK, openVars, postVars, logVars, clientVars
<1>14. CASE PumpClaim
  <2>1. sendCh' \in Seq(Nat) /\ Len(sendCh') <= SendCap /\ Head(sendCh) \in Nat
    BY <1>14, Constants DEF PumpClaim, WcTypeOK
  <2>2. pump' \in PumpState
    BY <1>14, <2>1, PumpShapes DEF PumpClaim, WcTypeOK, Chunk
  <2> QED BY <1>14, <2>1, <2>2
          DEF PumpClaim, WcTypeOK, openVars, postVars, handlerVars, clientVars
<1>15. CASE PumpFail
  <2>1. sendCh' \in Seq(Nat) /\ Len(sendCh') <= SendCap
    BY <1>15, Constants DEF PumpFail, WcTypeOK
  <2>2. pump' \in PumpState
    BY <1>15, PumpShapes DEF PumpFail
  <2> QED BY <1>15, <2>1, <2>2
          DEF PumpFail, WcTypeOK, openVars, postVars, handlerVars, clientVars
<1>16. CASE PumpAppend
  <2>1. log' \in Seq(Chunk) /\ Len(log') = Len(log) + 1
    BY <1>16, PumpFields DEF PumpAppend, WcTypeOK
  <2>2. pump' \in PumpState
    BY <1>16, PumpShapes DEF PumpAppend
  <2>3. WithinLog'
    <3> SUFFICES ASSUME NEW k \in Conns, Serving(k)' PROVE conns'[k].upto <= Len(log')
      OBVIOUS
    <3>1. conns' = conns
      BY <1>16 DEF PumpAppend
    <3>2. conns[k].upto \in Nat /\ conns[k].upto <= Len(log)
      BY <3>1, ConnFields DEF WcTypeOK
    <3> QED BY <2>1, <3>1, <3>2 DEF WcTypeOK
  <2>4. WcTypeOK'
    BY <1>16, <2>1, <2>2
       DEF PumpAppend, WcTypeOK, openVars, postVars, handlerVars, clientVars
  <2> QED BY <2>3, <2>4
<1>17. CASE PumpExit
  <2>1. pump' \in PumpState
    BY <1>17, PumpShapes DEF PumpExit
  <2> QED BY <1>17, <2>1 DEF PumpExit, WcTypeOK, openVars, postVars, handlerVars, clientVars
<1>18. ASSUME NEW k \in Conns, BackStep(k)
       PROVE  TypeInv'
  <2> USE DEF openVars, postVars, handlerVars, logVars, clientVars
  <2>1. conns[k] \in ConnState /\ Len(log) \in Nat
    BY DEF WcTypeOK
  <2>2. CASE BackOpen(k)
    <3> DEFINE c == [at |-> "open", idx |-> StartIndex(lastAid), upto |-> Len(log),
                     live |-> TRUE, last |-> FALSE]
    <3>1. StartIndex(lastAid) \in Nat
      BY DEF StartIndex, WcTypeOK
    <3>2. c \in ConnState /\ c.upto <= Len(log)
      BY <2>1, <3>1 DEF ConnState
    <3>3. conns' = [conns EXCEPT ![k] = c] /\ log' = log
      BY <2>2 DEF BackOpen
    <3> HIDE DEF c
    <3>4. conns' \in [Conns -> ConnState] /\ WithinLog'
      BY <3>2, <3>3, ConnSet
    <3> QED BY <2>2, <3>4 DEF BackOpen, WcTypeOK
  <2>3. CASE BackWrite(k)
    <3>1. conns[k].at = "open" /\ conns[k].idx < conns[k].upto
      BY <2>3 DEF BackWrite
    <3>2. PICK i \in Nat, u \in Nat, b \in BOOLEAN, l \in BOOLEAN :
            conns[k] = [at |-> "open", idx |-> i, upto |-> u, live |-> b, last |-> l]
      BY <2>1, <3>1, ConnFields
    <3> DEFINE c == [at |-> "open", idx |-> i + 1, upto |-> u, live |-> b, last |-> l]
    <3>3. conns' = [conns EXCEPT ![k] = c] /\ log' = log
      <4>1. conns' = [conns EXCEPT ![k] = [conns[k] EXCEPT !.idx = @ + 1]]
        BY <2>3 DEF BackWrite
      <4>2. [conns[k] EXCEPT !.idx = @ + 1] = c
        BY <3>2
      <4> QED BY <2>3, <4>1, <4>2 DEF BackWrite
    <3>4. conns' \in [Conns -> ConnState] /\ WithinLog'
      <4>1. c \in ConnState /\ c.upto <= Len(log)
        BY <2>1, <3>1, <3>2 DEF ConnState
      <4> HIDE DEF c
      <4> QED BY <3>3, <4>1, ConnSet
    <3>5. i + 1 \in DOMAIN log
      BY <2>1, <3>1, <3>2 DEF WcTypeOK
    <3>6. log[conns[k].idx + 1] \in Chunk
      BY <3>2, <3>5 DEF WcTypeOK
    <3>7. lastAid' \in Nat /\ heard' \subseteq Nat
      BY <2>3, <3>6 DEF BackWrite, WcTypeOK, Chunk
    <3> QED BY <2>3, <3>4, <3>7 DEF BackWrite, WcTypeOK
  <2>4. CASE BackWake(k)
    <3>1. conns[k].at = "open"
      BY <2>4 DEF BackWake, Waiting
    <3>2. PICK i \in Nat, u \in Nat, b \in BOOLEAN, l \in BOOLEAN :
            conns[k] = [at |-> "open", idx |-> i, upto |-> u, live |-> b, last |-> l]
      BY <2>1, <3>1, ConnFields
    <3> DEFINE c == [at |-> "open", idx |-> i, upto |-> Len(log), live |-> b, last |-> l]
    <3>3. conns' = [conns EXCEPT ![k] = c] /\ log' = log
      <4>1. conns' = [conns EXCEPT ![k] = [conns[k] EXCEPT !.upto = Len(log)]]
        BY <2>4 DEF BackWake
      <4>2. [conns[k] EXCEPT !.upto = Len(log)] = c
        BY <3>2
      <4> QED BY <2>4, <4>1, <4>2 DEF BackWake
    <3>4. conns' \in [Conns -> ConnState] /\ WithinLog'
      <4>1. c \in ConnState /\ c.upto <= Len(log)
        BY <2>1, <3>1, <3>2 DEF ConnState
      <4> HIDE DEF c
      <4> QED BY <3>3, <4>1, ConnSet
    <3> QED BY <2>4, <3>4 DEF BackWake, WcTypeOK
  <2>5. CASE BackNoop(k)
    BY <2>5 DEF BackNoop, WcTypeOK
  <2>6. CASE BackDrain(k)
    <3>1. conns[k].at = "open"
      BY <2>6 DEF BackDrain, Waiting
    <3> DEFINE c == [conns[k] EXCEPT !.upto = Len(log), !.last = TRUE]
    <3>2. conns' = [conns EXCEPT ![k] = c] /\ log' = log
      BY <2>6 DEF BackDrain
    <3>3. c \in ConnState /\ c.upto <= Len(log)
      <4>1. c \in ConnState /\ c.upto = Len(log)
        BY <2>1, <3>1, ConnDrained, Zenon
      <4> HIDE DEF c
      <4> QED BY <2>1, <4>1
    <3> HIDE DEF c
    <3>4. conns' \in [Conns -> ConnState] /\ WithinLog'
      BY <3>2, <3>3, ConnSet
    <3> QED BY <2>6, <3>4 DEF BackDrain, WcTypeOK
  <2>7. CASE BackReturn(k)
    <3>1. conns' \in [Conns -> ConnState] /\ WithinLog'
      BY <2>7, ConnShapes DEF BackReturn, WcTypeOK, NoConn
    <3> QED BY <2>7, <3>1 DEF BackReturn, WcTypeOK
  <2>8. CASE BackLost(k)
    <3>1. conns[k].at = "open"
      BY <2>8 DEF BackLost
    <3> DEFINE c == [conns[k] EXCEPT !.live = FALSE]
    <3>2. conns' = [conns EXCEPT ![k] = c] /\ log' = log
      BY <2>8 DEF BackLost
    <3>3. c \in ConnState /\ c.upto <= Len(log)
      BY <2>1, <3>1, ConnLost
    <3> HIDE DEF c
    <3>4. conns' \in [Conns -> ConnState] /\ WithinLog'
      BY <3>2, <3>3, ConnSet
    <3> QED BY <2>8, <3>4 DEF BackLost, WcTypeOK
  <2> QED BY <1>18, <2>2, <2>3, <2>4, <2>5, <2>6, <2>7, <2>8 DEF BackStep
<1>19. CASE Shutdown
  BY <1>19 DEF Shutdown, WcTypeOK, openVars, postVars, handlerVars, logVars, clientVars
<1>20. CASE UNCHANGED vars
  BY <1>20 DEF vars, WcTypeOK
<1> QED
  BY <1>1, <1>2, <1>3, <1>4, <1>5, <1>6, <1>7, <1>8, <1>9, <1>10, <1>11, <1>12, <1>13,
     <1>14, <1>15, <1>16, <1>17, <1>18, <1>19, <1>20
     DEF WcNext, OpenStep, PostStep, HandlerStep, PumpStep

(***************************************************************************)
(* Type correctness: the bridge's two channels and the window of request   *)
(* ids never exceed their capacity, and a back channel writes only chunks  *)
(* of the log.                                                             *)
(***************************************************************************)
THEOREM WcTypeCorrect == WcSpec => []WcTypeOK
<1>1. TypeInv => WcTypeOK
  BY DEF TypeInv
<1> QED BY <1>1, TypeInvInit, TypeInvStep, PTL DEF WcSpec

-----------------------------------------------------------------------------
(***************************************************************************)
(* Requests.  The client numbers its POSTs 1, 2, ... and sends one once    *)
(* the one before it is answered, so the ids accepted so far are           *)
(* 1 .. Newest, the window holds the last of them, and all of them are     *)
(* answered but perhaps the newest.  Then an id that is in no window but   *)
(* was accepted is so old that no copy of it can still arrive.             *)
(***************************************************************************)
Newest == IF seen = <<>> THEN 0 ELSE seen[Len(seen)]

WindowInv ==
  /\ Len(seen) <= Newest
  /\ Len(seen) < RidWindow => Len(seen) = Newest
  /\ \A i \in DOMAIN seen : seen[i] = Newest - Len(seen) + i
  /\ acked = 1 .. Newest \/ acked = 1 .. (Newest - 1)

\* Every POST in flight has an accepted id of its own.
PostsInv ==
  /\ \A x \in Posts : posts[x].at = "pushing" => posts[x].rid <= Newest
  /\ \A x, y \in Posts :
       posts[x].at = "pushing" /\ posts[y].at = "pushing" /\ x # y =>
         posts[x].rid # posts[y].rid

\* What is not accepted, or left in a POST, was not handed over yet.
TakenInv ==
  /\ \A q \in Requests : taken[q] <= 1
  /\ \A r \in Rids : r > Newest => \A i \in DOMAIN Bodies[r] : taken[Bodies[r][i]] = 0
  /\ \A x \in Posts : posts[x].at = "pushing" =>
       \A i \in posts[x].todo : taken[Bodies[posts[x].rid][i]] = 0
  /\ opener.at \in {"none", "created"} => \A i \in DOMAIN Opening : taken[Opening[i]] = 0
  /\ opener.at = "pushing" => \A i \in opener.todo : taken[Opening[i]] = 0

OnceInv == WindowInv /\ PostsInv /\ TakenInv

\* Different places hold different requests.
LEMMA Names ==
  /\ \A i, j \in DOMAIN Opening : Opening[i] = Opening[j] => i = j
  /\ \A r \in Rids : \A i \in DOMAIN Bodies[r], j \in DOMAIN Opening : Bodies[r][i] # Opening[j]
  /\ \A r, s \in Rids : \A i \in DOMAIN Bodies[r], j \in DOMAIN Bodies[s] :
       Bodies[r][i] = Bodies[s][j] => r = s /\ i = j
<1>1. DistinctNames
  BY WebChannelAssumption
<1>2. \A i, j \in DOMAIN Opening : Opening[i] = Opening[j] => i = j
  BY <1>1 DEF DistinctNames, IsInjective
<1>3. \A r \in Rids : \A i \in DOMAIN Bodies[r], j \in DOMAIN Opening : Bodies[r][i] # Opening[j]
  BY <1>1 DEF DistinctNames, Range
<1>4. \A r, s \in Rids : \A i \in DOMAIN Bodies[r], j \in DOMAIN Bodies[s] :
        Bodies[r][i] = Bodies[s][j] => r = s /\ i = j
  <2> SUFFICES ASSUME NEW r \in Rids, NEW s \in Rids,
                      NEW i \in DOMAIN Bodies[r], NEW j \in DOMAIN Bodies[s],
                      Bodies[r][i] = Bodies[s][j]
               PROVE  r = s /\ i = j
    OBVIOUS
  <2>1. r = s
    BY <1>1 DEF DistinctNames, Range
  <2> QED BY <1>1, <2>1 DEF DistinctNames, IsInjective
<1> QED BY <1>2, <1>3, <1>4

\* The newest id is a number.
LEMMA NewestType == ASSUME WcTypeOK PROVE Newest \in Nat /\ Len(seen) \in Nat
<1>0. seen \in Seq(Rids)
  BY DEF WcTypeOK
<1>1. CASE seen = <<>>
  BY <1>1 DEF Newest
<1>2. CASE seen # <<>>
  <2>1. Len(seen) \in DOMAIN seen
    BY <1>0, <1>2
  <2>2. seen[Len(seen)] \in Rids
    BY <1>0, <2>1
  <2>3. Newest = seen[Len(seen)]
    BY <1>2 DEF Newest
  <2>4. seen[Len(seen)] \in Nat
    BY <2>2, WebChannelAssumption
  <2>5. Len(seen) \in Nat
    BY <1>0
  <2> QED BY <2>3, <2>4, <2>5
<1> QED BY <1>1, <1>2

\* SeenRID lets an id through only if it is the next one.
LEMMA AcceptedNext ==
  ASSUME WcTypeOK, WindowInv, NEW r \in Rids, r > 1 => r - 1 \in acked,
         r + RidWindow - 1 \notin acked, r \notin Range(seen)
  PROVE  r = Newest + 1 /\ acked = 1 .. Newest
<1>1. Newest \in Nat /\ Len(seen) \in Nat /\ r \in Nat \ {0} /\ RidWindow \in Nat \ {0}
  BY NewestType, Constants
<1>2. r <= Newest + 1
  BY <1>1 DEF WindowInv
<1>3. ASSUME r <= Newest PROVE FALSE
  <2>1. CASE r > Newest - Len(seen)
    <3> DEFINE i == r - Newest + Len(seen)
    <3>1. i \in 1 .. Len(seen)
      BY <1>1, <1>3, <2>1
    <3>2. DOMAIN seen = 1 .. Len(seen)
      BY DEF WcTypeOK
    <3>3. seen[i] = Newest - Len(seen) + i
      BY <3>1, <3>2 DEF WindowInv
    <3>4. seen[i] = r
      BY <1>1, <3>3
    <3> QED BY <3>1, <3>2, <3>4 DEF Range
  <2>2. CASE r <= Newest - Len(seen)
    <3>1. Len(seen) = RidWindow
      BY <1>1, <2>2 DEF WindowInv, WcTypeOK
    <3>2. r + RidWindow - 1 \in 1 .. (Newest - 1)
      BY <1>1, <2>2, <3>1
    <3>3. r + RidWindow - 1 \in 1 .. Newest
      BY <1>1, <3>2
    <3> QED BY <3>2, <3>3 DEF WindowInv
  <2> QED BY <1>1, <2>1, <2>2
<1>4. r = Newest + 1
  BY <1>1, <1>2, <1>3
<1>5. acked = 1 .. Newest
  <2>1. CASE Newest = 0
    BY <2>1 DEF WindowInv
  <2>2. CASE Newest # 0
    <3>1. Newest \in acked
      BY <1>1, <1>4, <2>2
    <3> QED BY <1>1, <3>1 DEF WindowInv
  <2> QED BY <2>1, <2>2
<1> QED BY <1>4, <1>5

\* The window after the next id was recorded.
LEMMA WindowMoves ==
  ASSUME WcTypeOK, WindowInv, NEW r \in Rids, r = Newest + 1, seen' = Remember(r)
  PROVE  /\ Newest' = r /\ Len(seen)' <= r
         /\ Len(seen)' < RidWindow => Len(seen)' = r
         /\ \A i \in DOMAIN seen' : seen'[i] = r - Len(seen)' + i
<1> DEFINE q == Append(seen, r)
           n == Len(seen)
<1>1. Newest \in Nat /\ n \in Nat /\ RidWindow \in Nat \ {0} /\ n <= RidWindow
  BY NewestType, Constants DEF WcTypeOK
<1>2. /\ q \in Seq(Rids) /\ Len(q) = n + 1 /\ q[n + 1] = r
      /\ \A i \in 1 .. n : q[i] = seen[i]
  BY DEF WcTypeOK
<1>3. \A i \in 1 .. n + 1 : q[i] = r - (n + 1) + i
  <2> SUFFICES ASSUME NEW i \in 1 .. n + 1 PROVE q[i] = r - (n + 1) + i
    OBVIOUS
  <2>1. CASE i = n + 1
    BY <1>1, <1>2, <2>1
  <2>2. CASE i # n + 1
    <3>0. seen \in Seq(Rids)
      BY DEF WcTypeOK
    <3>1. i \in 1 .. n /\ i \in DOMAIN seen
      BY <1>1, <2>2, <3>0
    <3>2. seen[i] = Newest - n + i
      BY <3>1 DEF WindowInv
    <3> QED BY <1>1, <1>2, <3>1, <3>2
  <2> QED BY <2>1, <2>2
<1>4. n < RidWindow => n = Newest
  BY DEF WindowInv
<1>5. n <= Newest
  BY DEF WindowInv
<1>6. CASE n + 1 <= RidWindow
  <2>1. seen' = q
    BY <1>1, <1>2, <1>6 DEF Remember, LastOf
  <2>2. n = Newest
    BY <1>1, <1>4, <1>6
  <2> HIDE DEF q
  <2>3. Len(seen)' = n + 1 /\ DOMAIN seen' = 1 .. n + 1 /\ seen' # <<>>
    BY <1>1, <1>2, <2>1
  <2>4. Newest' = r
    BY <1>2, <2>1, <2>3 DEF Newest
  <2> QED BY <1>1, <1>3, <2>1, <2>2, <2>3, <2>4
<1>7. CASE ~(n + 1 <= RidWindow)
  <2>1. n = RidWindow
    BY <1>1, <1>7
  <2>2. seen' = SubSeq(q, 2, n + 1)
    <3>1. Len(q) > RidWindow /\ Len(q) - RidWindow + 1 = 2
      BY <1>1, <1>2, <2>1
    <3> QED BY <1>2, <3>1 DEF Remember, LastOf
  <2> HIDE DEF q
  <2>3. Len(seen)' = n /\ DOMAIN seen' = 1 .. n
    BY <1>1, <1>2, <2>2
  <2>4. \A i \in 1 .. n : seen'[i] = q[i + 1]
    BY <1>1, <1>2, <2>2
  <2>5. seen'[n] = r /\ seen' # <<>>
    BY <1>1, <1>2, <2>1, <2>3, <2>4
  <2>6. Newest' = r
    BY <2>3, <2>5 DEF Newest
  <2>7. \A i \in 1 .. n : seen'[i] = r - n + i
    BY <1>1, <1>3, <2>4
  <2>8. n <= r /\ ~(n < RidWindow)
    BY <1>1, <1>5, <2>1
  <2> HIDE DEF n
  <2> QED BY <2>3, <2>6, <2>7, <2>8
<1> QED BY <1>6, <1>7

\* No id is accepted and nothing is handed over before the session is opened.
LEMMA OnceInvInit == WcInit => OnceInv
<1> SUFFICES ASSUME WcInit PROVE OnceInv
  OBVIOUS
<1>1. Newest = 0 /\ Len(seen) = 0 /\ DOMAIN seen = {} /\ acked = 1 .. 0
  BY DEF WcInit, Newest
<1>2. WindowInv
  BY <1>1, Constants DEF WindowInv
<1>3. PostsInv
  BY DEF WcInit, PostsInv, NoPost
<1>4. TakenInv
  BY Constants DEF WcInit, TakenInv, NoPost
<1> QED BY <1>2, <1>3, <1>4 DEF OnceInv

\* A request nobody has handed over yet is handed over once.
LEMMA PushOnce ==
  ASSUME WcTypeOK, \A p \in Requests : taken[p] <= 1,
         NEW q \in Requests, taken[q] = 0, Push(q)
  PROVE  /\ \A p \in Requests : taken'[p] <= 1
         /\ \A p \in Requests : p # q => taken'[p] = taken[p]
BY DEF WcTypeOK, Push

\* Every step keeps the order of ids and hands nothing over twice.
LEMMA OnceInvStep == TypeInv /\ OnceInv /\ [WcNext]_vars => OnceInv'
<1> SUFFICES ASSUME TypeInv, OnceInv, [WcNext]_vars PROVE OnceInv'
  OBVIOUS
<1>0. WcTypeOK /\ WindowInv /\ PostsInv /\ TakenInv
  BY DEF TypeInv, OnceInv
<1>1. CASE UNCHANGED <<opener, posts, seen, acked, taken>>
  BY <1>1 DEF OnceInv, WindowInv, PostsInv, TakenInv, Newest
<1>2. CASE OpenCreate
  <2>1. UNCHANGED <<posts, seen, acked, taken>> /\ opener.at = "none" /\ opener'.at = "created"
    BY <1>2 DEF OpenCreate, postVars, clientVars, NoPost
  <2> QED BY <2>1 DEF OnceInv, WindowInv, PostsInv, TakenInv, Newest
<1>3. CASE OpenWire
  <2>1. /\ UNCHANGED <<posts, seen, acked, taken>> /\ opener.at = "created"
        /\ opener'.at = "pushing" /\ opener'.todo \subseteq DOMAIN Opening
    BY <1>3 DEF OpenWire, postVars, clientVars, Pushing, Parsed
  <2> QED BY <2>1 DEF OnceInv, WindowInv, PostsInv, TakenInv, Newest
<1>4. CASE OpenPush
  <2>1. PICK i \in opener.todo : Push(Opening[i]) /\ opener' = Pushing(opener.todo \ {i})
    BY <1>4 DEF OpenPush
  <2>2. opener.at = "pushing" /\ opener.todo \subseteq DOMAIN Opening
    BY <1>0, <1>4, OpenerFields DEF OpenPush, WcTypeOK
  <2>3. Opening[i] \in Requests /\ taken[Opening[i]] = 0
    BY <1>0, <2>2, Constants DEF TakenInv
  <2>4. /\ \A p \in Requests : taken'[p] <= 1
        /\ \A p \in Requests : p # Opening[i] => taken'[p] = taken[p]
    BY <1>0, <2>1, <2>3, PushOnce DEF TakenInv
  <2>5. UNCHANGED <<posts, seen, acked>> /\ opener'.at = "pushing"
    BY <1>4, <2>1 DEF OpenPush, postVars, clientVars, Pushing
  <2>6. \A j \in opener'.todo : taken'[Opening[j]] = 0
    <3>1. \A j \in opener'.todo : j \in opener.todo /\ j # i
      BY <2>1 DEF Pushing
    <3>2. \A j \in opener'.todo : Opening[j] # Opening[i] /\ Opening[j] \in Requests
      BY <2>2, <3>1, Names, Constants
    <3> QED BY <1>0, <2>2, <2>4, <3>1, <3>2 DEF TakenInv
  <2>7. \A r \in Rids : \A j \in DOMAIN Bodies[r] : taken'[Bodies[r][j]] = taken[Bodies[r][j]]
    <3>1. \A r \in Rids : \A j \in DOMAIN Bodies[r] :
            Bodies[r][j] # Opening[i] /\ Bodies[r][j] \in Requests
      BY <2>2, Names, Constants
    <3> QED BY <2>4, <3>1
  <2>8. \A x \in Posts : posts[x].at = "pushing" =>
          posts[x].rid \in Rids /\ posts[x].todo \subseteq DOMAIN Bodies[posts[x].rid]
    BY <1>0, PostFields DEF WcTypeOK
  <2>9. TakenInv'
    BY <1>0, <2>4, <2>5, <2>6, <2>7, <2>8 DEF TakenInv, Newest
  <2> QED BY <1>0, <2>5, <2>9 DEF OnceInv, WindowInv, PostsInv, Newest
<1>5. CASE OpenAbort \/ OpenConnect
  <2>1. UNCHANGED <<posts, seen, acked, taken>> /\ opener'.at \in {"aborted", "done"}
    BY <1>5 DEF OpenAbort, OpenConnect, postVars, clientVars
  <2> QED BY <2>1 DEF OnceInv, WindowInv, PostsInv, TakenInv, Newest
<1>6. ASSUME NEW x \in Posts, NEW r \in Rids, PostArrive(x, r)
      PROVE  OnceInv'
  <2>1. UNCHANGED <<opener, taken>>
    BY <1>6 DEF PostArrive, openVars
  <2>2. CASE r \in Range(seen)
    <3>1. UNCHANGED <<posts, seen>> /\ acked' = acked \cup {r}
      BY <1>6, <2>2 DEF PostArrive
    <3>2. r \in 1 .. Newest
      <4>1. PICK i \in DOMAIN seen : seen[i] = r
        BY <2>2 DEF Range
      <4>2. i \in 1 .. Len(seen)
        BY <1>0 DEF WcTypeOK
      <4>3. r = Newest - Len(seen) + i
        BY <1>0, <4>1 DEF WindowInv
      <4> QED BY <1>0, <4>2, <4>3, NewestType DEF WindowInv
    <3>3. acked' = 1 .. Newest \/ acked' = 1 .. (Newest - 1)
      BY <1>0, <3>1, <3>2, NewestType DEF WindowInv
    <3> QED BY <1>0, <2>1, <3>1, <3>3 DEF OnceInv, WindowInv, PostsInv, TakenInv, Newest
  <2>3. CASE r \notin Range(seen)
    <3> DEFINE p == [at |-> "pushing", rid |-> r, todo |-> Parsed(Bodies[r])]
    <3>1. /\ seen' = Remember(r) /\ acked' = acked
          /\ posts' = [posts EXCEPT ![x] = p]
      BY <1>6, <2>3 DEF PostArrive
    <3>2. r = Newest + 1 /\ acked = 1 .. Newest
      BY <1>0, <1>6, <2>3, AcceptedNext DEF PostArrive
    <3>3. /\ Newest' = r /\ Len(seen)' <= r
          /\ Len(seen)' < RidWindow => Len(seen)' = r
          /\ \A i \in DOMAIN seen' : seen'[i] = r - Len(seen)' + i
      BY <1>0, <3>1, <3>2, WindowMoves
    <3>4. Newest \in Nat /\ r \in Nat
      BY <1>0, NewestType, Constants
    <3>5. acked' = 1 .. (Newest' - 1)
      BY <3>1, <3>2, <3>3, <3>4
    <3>6. WindowInv'
      BY <3>3, <3>5 DEF WindowInv
    <3>7. p.rid = r /\ p.at = "pushing" /\ p.todo \subseteq DOMAIN Bodies[r]
      BY DEF Parsed
    <3> HIDE DEF p
    <3>8. posts'[x] = p /\ \A y \in Posts : y # x => posts'[y] = posts[y]
      BY <1>0, <3>1 DEF WcTypeOK
    <3>9. \A y \in Posts : posts[y].at = "pushing" => posts[y].rid \in Nat /\ posts[y].rid <= Newest
      BY <1>0, PostFields, Constants DEF PostsInv, WcTypeOK
    <3>10. PostsInv'
      <4>1. ASSUME NEW y \in Posts, posts'[y].at = "pushing"
            PROVE  posts'[y].rid <= r /\ (y # x => posts'[y].rid < r)
        BY <3>2, <3>4, <3>7, <3>8, <3>9, <4>1
      <4>2. ASSUME NEW y \in Posts, NEW z \in Posts, y # z,
                   posts'[y].at = "pushing", posts'[z].at = "pushing"
            PROVE  posts'[y].rid # posts'[z].rid
        <5>1. CASE y = x \/ z = x
          BY <3>4, <3>7, <3>8, <4>1, <4>2, <5>1
        <5>2. CASE y # x /\ z # x
          BY <1>0, <3>8, <4>2, <5>2 DEF PostsInv
        <5> QED BY <5>1, <5>2
      <4> QED BY <3>3, <4>1, <4>2 DEF PostsInv
    <3>11. TakenInv'
      <4>1. \A i \in DOMAIN Bodies[r] : taken[Bodies[r][i]] = 0
        BY <1>0, <3>2, <3>4 DEF TakenInv
      <4>2. ASSUME NEW y \in Posts, posts'[y].at = "pushing"
            PROVE  \A i \in posts'[y].todo : taken[Bodies[posts'[y].rid][i]] = 0
        BY <1>0, <3>7, <3>8, <4>1, <4>2 DEF TakenInv
      <4>3. \A s \in Rids : s > r => s > Newest
        <5>1. ASSUME NEW s \in Rids, s > r PROVE s > Newest
          <6>1. s \in Nat
            BY Constants
          <6> QED BY <3>2, <3>4, <5>1, <6>1
        <5> QED BY <5>1
      <4> QED BY <1>0, <2>1, <3>3, <4>2, <4>3 DEF TakenInv
    <3> QED BY <3>6, <3>10, <3>11 DEF OnceInv
  <2> QED BY <2>2, <2>3
<1>7. ASSUME NEW x \in Posts, PostPush(x)
      PROVE  OnceInv'
  <2> DEFINE r == posts[x].rid
  <2>1. PICK i \in posts[x].todo : /\ Push(Bodies[r][i])
                                   /\ posts' = [posts EXCEPT ![x].todo = @ \ {i}]
    BY <1>7 DEF PostPush
  <2>2. posts[x] \in PostState /\ posts[x].at = "pushing"
    BY <1>0, <1>7 DEF PostPush, WcTypeOK
  <2>3. r \in Rids /\ posts[x].todo \subseteq DOMAIN Bodies[r]
    BY <2>2, PostFields
  <2>4. Bodies[r][i] \in Requests /\ taken[Bodies[r][i]] = 0
    BY <1>0, <2>2, <2>3, Constants DEF TakenInv
  <2>5. /\ \A p \in Requests : taken'[p] <= 1
        /\ \A p \in Requests : p # Bodies[r][i] => taken'[p] = taken[p]
    BY <1>0, <2>1, <2>4, PushOnce DEF TakenInv
  <2>6. UNCHANGED <<opener, seen, acked>>
    BY <1>7 DEF PostPush, openVars, clientVars
  <2>7. posts'[x] = [at |-> "pushing", rid |-> r, todo |-> posts[x].todo \ {i}]
    <3>1. posts'[x] = [posts[x] EXCEPT !.todo = @ \ {i}]
      BY <1>0, <2>1 DEF WcTypeOK
    <3> QED BY <2>2, <3>1, PostLess
  <2>8. \A y \in Posts : y # x => posts'[y] = posts[y]
    BY <1>0, <2>1 DEF WcTypeOK
  <2>9. PostsInv'
    <3>1. \A y \in Posts : posts'[y].at = posts[y].at /\ posts'[y].rid = posts[y].rid
      BY <2>2, <2>7, <2>8
    <3> QED BY <1>0, <2>6, <3>1 DEF PostsInv, Newest
  <2>10. \A s \in Rids : \A j \in DOMAIN Bodies[s] :
           s # r \/ j # i => taken'[Bodies[s][j]] = taken[Bodies[s][j]]
    <3>1. \A s \in Rids : \A j \in DOMAIN Bodies[s] :
            Bodies[s][j] \in Requests /\ (s # r \/ j # i => Bodies[s][j] # Bodies[r][i])
      BY <2>3, Names, Constants
    <3> QED BY <2>5, <3>1
  <2>11. \A j \in DOMAIN Opening : taken'[Opening[j]] = taken[Opening[j]]
    <3>1. \A j \in DOMAIN Opening : Opening[j] \in Requests /\ Opening[j] # Bodies[r][i]
      BY <2>3, Names, Constants
    <3> QED BY <2>5, <3>1
  <2>12. TakenInv'
    <3>1. ASSUME NEW y \in Posts, posts'[y].at = "pushing", NEW j \in posts'[y].todo
          PROVE  taken'[Bodies[posts'[y].rid][j]] = 0
      <4>1. CASE y = x
        <5>1. posts'[y].rid = r /\ j \in posts[x].todo /\ j # i
          BY <2>7, <3>1, <4>1
        <5>2. taken[Bodies[r][j]] = 0
          BY <1>0, <2>2, <5>1 DEF TakenInv
        <5> QED BY <2>3, <2>10, <5>1, <5>2
      <4>2. CASE y # x
        <5>1. posts'[y] = posts[y] /\ posts[y].at = "pushing" /\ posts[y] \in PostState
          BY <1>0, <2>8, <3>1, <4>2 DEF WcTypeOK
        <5>2. posts[y].rid \in Rids /\ posts[y].todo \subseteq DOMAIN Bodies[posts[y].rid]
          BY <5>1, PostFields
        <5>3. posts[y].rid # r
          BY <1>0, <2>2, <4>2, <5>1 DEF PostsInv
        <5>4. taken[Bodies[posts[y].rid][j]] = 0
          BY <1>0, <3>1, <5>1 DEF TakenInv
        <5> QED BY <2>10, <3>1, <5>1, <5>2, <5>3, <5>4
      <4> QED BY <4>1, <4>2
    <3>2. r \in Nat /\ r <= Newest /\ Newest \in Nat
      BY <1>0, <2>2, <2>3, NewestType, Constants DEF PostsInv
    <3>3. ASSUME NEW s \in Rids, s > Newest, NEW j \in DOMAIN Bodies[s]
          PROVE  taken'[Bodies[s][j]] = 0
      <4>1. s # r
        BY <3>2, <3>3
      <4> QED BY <1>0, <2>10, <3>3, <4>1 DEF TakenInv
    <3>4. opener.at = "pushing" => opener.todo \subseteq DOMAIN Opening
      BY <1>0, OpenerFields DEF WcTypeOK
    <3>5. Newest' = Newest
      BY <2>6 DEF Newest
    <3> QED BY <1>0, <2>5, <2>6, <2>11, <3>1, <3>3, <3>4, <3>5 DEF TakenInv
  <2> QED BY <1>0, <2>6, <2>9, <2>12 DEF OnceInv, WindowInv, Newest
<1>8. ASSUME NEW x \in Posts, PostAbort(x) \/ PostReply(x)
      PROVE  OnceInv'
  <2>1. UNCHANGED <<opener, seen, taken>> /\ posts' = [posts EXCEPT ![x] = NoPost]
    BY <1>8 DEF PostAbort, PostReply, openVars
  <2>2. posts'[x].at # "pushing" /\ \A y \in Posts : y # x => posts'[y] = posts[y]
    BY <1>0, <2>1 DEF WcTypeOK, NoPost
  <2>3. PostsInv' /\ TakenInv'
    BY <1>0, <2>1, <2>2 DEF PostsInv, TakenInv, Newest
  <2>4. acked' = 1 .. Newest \/ acked' = 1 .. (Newest - 1)
    <3>1. CASE PostAbort(x)
      BY <1>0, <3>1 DEF PostAbort, clientVars, WindowInv
    <3>2. CASE PostReply(x)
      <4>1. posts[x] \in PostState /\ posts[x].at = "pushing" /\ acked' = acked \cup {posts[x].rid}
        BY <1>0, <3>2 DEF PostReply, WcTypeOK
      <4>2. posts[x].rid \in 1 .. Newest
        BY <1>0, <4>1, PostFields, Constants, NewestType DEF PostsInv
      <4> QED BY <1>0, <4>1, <4>2, NewestType DEF WindowInv
    <3> QED BY <1>8, <3>1, <3>2
  <2> QED BY <1>0, <2>1, <2>3, <2>4 DEF OnceInv, WindowInv, Newest
<1>9. CASE HandlerStep \/ PumpStep \/ Shutdown
  <2>1. UNCHANGED <<opener, posts, seen, acked, taken>>
    BY <1>9 DEF HandlerStep, HandlerRecv, HandlerSend, HandlerReturn, HandlerCancel,
                PumpStep, PumpClaim, PumpFail, PumpAppend, PumpExit, Shutdown,
                openVars, postVars, clientVars
  <2> QED BY <1>1, <2>1
<1>10. ASSUME NEW k \in Conns, BackStep(k)
       PROVE  OnceInv'
  <2>1. UNCHANGED <<opener, posts, seen, acked, taken>>
    BY <1>10 DEF BackStep, BackOpen, BackWrite, BackWake, BackNoop, BackDrain, BackReturn,
                 BackLost, openVars, postVars, clientVars
  <2> QED BY <1>1, <2>1
<1>11. CASE UNCHANGED vars
  BY <1>1, <1>11 DEF vars
<1> QED
  BY <1>2, <1>3, <1>4, <1>5, <1>6, <1>7, <1>8, <1>9, <1>10, <1>11
     DEF WcNext, OpenStep, PostStep

(***************************************************************************)
(* A forward POST that is sent again hands nothing over again: see         *)
(* RequestOnce.  The window of any length is enough, because the client    *)
(* numbers its POSTs and waits for the answer to each.                     *)
(***************************************************************************)
THEOREM RequestsHandedOverOnce == WcSpec => []RequestOnce
<1>1. OnceInv => RequestOnce
  BY DEF OnceInv, TakenInv, RequestOnce
<1> QED BY <1>1, TypeInvInit, TypeInvStep, OnceInvInit, OnceInvStep, PTL DEF WcSpec


-----------------------------------------------------------------------------
(***************************************************************************)
(* Array ids.  FormatConnectChunk sets the counter to 2 whatever it was,   *)
(* so the responses numbered before it (the first early of the log) keep   *)
(* ids that are given again.  Everything is numbered before it until the   *)
(* opening POST is done, and nothing after.                                *)
(***************************************************************************)
NumberInv ==
  /\ opener.at # "done" =>
       /\ noops = {} /\ \A k \in Conns : ~Serving(k)
       /\ pump.at = "claimed" => early = Len(log) + 1
       /\ pump.at # "claimed" => early = Len(log)
       /\ pump.at # "none" => opener.at \notin {"none", "created"}
  /\ opener.at = "done" => seq >= 2
  /\ \A i \in DOMAIN log : early < i =>
       log[i].seq >= 2 /\ log[i].seq < seq /\ log[i].seq \notin noops
  /\ \A i, j \in DOMAIN log : early < i /\ i < j => log[i].seq < log[j].seq
  /\ \A n \in noops : n >= 2 /\ n < seq
  /\ pump.at = "claimed" /\ early <= Len(log) =>
       /\ pump.chunk.seq >= 2 /\ pump.chunk.seq < seq /\ pump.chunk.seq \notin noops
       /\ \A i \in DOMAIN log : early < i => log[i].seq < pump.chunk.seq

\* As long as no keep-alive and no early response took an id, the chunk of log
\* entry i has id i + 1, and what a back channel or the client has passed was
\* heard.
ReplayInv ==
  noops = {} /\ early = 0 =>
    /\ \A i \in DOMAIN log : log[i].seq = i + 1
    /\ opener.at = "done" /\ pump.at # "claimed" => seq = Len(log) + 2
    /\ pump.at = "claimed" => pump.chunk.seq = Len(log) + 2 /\ seq = Len(log) + 3
    /\ lastAid <= Len(log) + 1
    /\ \A k \in Conns : Serving(k) => conns[k].idx <= Len(log)
    /\ \A i \in DOMAIN log : i < lastAid => log[i].msg \in heard
    /\ \A k \in Conns : Serving(k) /\ conns[k].live =>
         \A i \in DOMAIN log : i <= conns[k].idx => log[i].msg \in heard

\* Nothing is numbered before the session is opened.
LEMMA NumberInvInit == WcInit => NumberInv /\ ReplayInv
BY DEF WcInit, NumberInv, ReplayInv, Serving, NoConn, NoPost

\* Every chunk of the log has a number.
LEMMA LogSeqs ==
  ASSUME WcTypeOK
  PROVE  \A i \in DOMAIN log : i \in Nat /\ log[i].seq \in Nat
<1>1. log \in Seq(Chunk)
  BY DEF WcTypeOK
<1>2. \A i \in DOMAIN log : i \in Nat /\ log[i] \in Chunk
  BY <1>1
<1> QED BY <1>2 DEF Chunk

\* Every step keeps the numbering.
LEMMA NumberInvStep == TypeInv /\ NumberInv /\ [WcNext]_vars => NumberInv'
<1> SUFFICES ASSUME TypeInv, NumberInv, [WcNext]_vars PROVE NumberInv'
  OBVIOUS
<1> USE DEF Serving
<1>0. /\ WcTypeOK /\ seq \in Nat /\ early \in Nat
      /\ Len(log) \in Nat /\ DOMAIN log = 1 .. Len(log)
  BY DEF TypeInv, WcTypeOK
<1>1. CASE UNCHANGED <<opener, seq, log, early, noops, pump, conns>>
  BY <1>1 DEF NumberInv
<1>2. CASE OpenCreate \/ OpenPush \/ OpenAbort
  <2>1. /\ UNCHANGED <<seq, log, early, noops, pump, conns>> /\ opener.at # "done"
        /\ opener'.at # "done" /\ (opener.at = "none" \/ opener'.at \in {"pushing", "aborted"})
    BY <1>2 DEF OpenCreate, OpenPush, OpenAbort, logVars, NoPost, Pushing
  <2> QED BY <2>1 DEF NumberInv
<1>3. CASE OpenWire
  <2>1. /\ UNCHANGED <<seq, log, early, noops, conns>> /\ opener.at # "done"
        /\ opener.at = "created" /\ opener'.at = "pushing" /\ pump'.at = "idle"
    BY <1>3 DEF OpenWire, Pushing
  <2>2. pump.at = "none" /\ "none" # "claimed"
    BY <2>1 DEF NumberInv
  <2> QED BY <2>1, <2>2 DEF NumberInv
<1>4. CASE OpenConnect
  <2>1. /\ UNCHANGED <<log, early, noops, pump, conns>> /\ opener.at # "done"
        /\ opener'.at = "done" /\ seq' = 2
    BY <1>4 DEF OpenConnect, Pushing
  <2>2. noops = {} /\ Len(log) <= early /\ (pump.at = "claimed" => ~(early <= Len(log)))
    BY <1>0, <2>1 DEF NumberInv
  <2>3. \A i \in DOMAIN log : ~(early < i)
    BY <1>0, <2>2
  <2>4. opener'.at = "done" /\ seq' >= 2 /\ noops' = {} /\ log' = log /\ early' = early
    BY <2>1, <2>2
  <2>5. ~(pump'.at = "claimed" /\ early' <= Len(log'))
    BY <2>1, <2>2
  <2> QED BY <2>3, <2>4, <2>5 DEF NumberInv
<1>5. CASE PumpClaim
  <2>1. /\ UNCHANGED <<opener, log, noops, conns>> /\ seq' = seq + 1
        /\ pump.at = "idle" /\ pump'.at = "claimed" /\ pump'.chunk.seq = seq
        /\ early' = IF opener.at = "done" THEN early ELSE early + 1
    BY <1>5 DEF PumpClaim, openVars
  <2>2. CASE opener.at # "done"
    <3>1. early' = Len(log) + 1 /\ noops = {}
      BY <2>1, <2>2 DEF NumberInv
    <3>2. ~(early' <= Len(log)) /\ \A i \in DOMAIN log : ~(early' < i)
      BY <1>0, <3>1
    <3> QED BY <1>0, <2>1, <2>2, <3>1, <3>2 DEF NumberInv
  <2>3. CASE opener.at = "done"
    <3>1. seq >= 2 /\ early' = early
      BY <2>1, <2>3 DEF NumberInv
    <3>2. \A i \in DOMAIN log : log[i].seq \in Nat
      BY <1>0, LogSeqs
    <3>3. \A n \in noops : n \in Nat
      BY <1>0 DEF WcTypeOK
    <3> QED BY <1>0, <2>1, <2>3, <3>1, <3>2, <3>3 DEF NumberInv
  <2> QED BY <2>2, <2>3
<1>6. CASE PumpFail \/ PumpExit
  <2>1. /\ UNCHANGED <<opener, seq, log, early, noops, conns>>
        /\ pump.at = "idle" /\ pump'.at # "claimed"
    BY <1>6 DEF PumpFail, PumpExit, openVars
  <2> QED BY <2>1 DEF NumberInv
<1>7. CASE PumpAppend
  <2>1. /\ UNCHANGED <<opener, seq, early, noops, conns>> /\ pump.at = "claimed"
        /\ pump'.at = "idle" /\ log' = Append(log, pump.chunk)
    BY <1>7 DEF PumpAppend, openVars
  <2>2. log \in Seq(Chunk) /\ pump.chunk \in Chunk
    BY <1>0, <2>1, PumpFields DEF WcTypeOK
  <2>3. /\ DOMAIN log' = 1 .. Len(log) + 1 /\ Len(log') = Len(log) + 1
        /\ log'[Len(log) + 1] = pump.chunk
        /\ \A i \in DOMAIN log : log'[i] = log[i]
    BY <2>1, <2>2
  <2>4. \A i \in DOMAIN log' : i \in DOMAIN log \/ i = Len(log) + 1
    BY <1>0, <2>3
  <2>5. early < Len(log) + 1 => early <= Len(log)
    BY <1>0
  <2>6. \A i \in DOMAIN log' : early < i =>
          log'[i].seq >= 2 /\ log'[i].seq < seq /\ log'[i].seq \notin noops
    BY <2>1, <2>3, <2>4, <2>5 DEF NumberInv
  <2>7. ASSUME NEW i \in DOMAIN log', NEW j \in DOMAIN log', early < i, i < j
        PROVE  log'[i].seq < log'[j].seq
    <3>1. i \in DOMAIN log /\ early <= Len(log)
      BY <1>0, <2>3, <2>7
    <3>2. CASE j \in DOMAIN log
      BY <2>3, <2>7, <3>1, <3>2 DEF NumberInv
    <3>3. CASE j = Len(log) + 1
      BY <2>1, <2>3, <2>7, <3>1, <3>3 DEF NumberInv
    <3> QED BY <2>4, <3>2, <3>3
  <2>8. opener.at # "done" => early = Len(log')
    BY <2>1, <2>3 DEF NumberInv
  <2> QED BY <2>1, <2>6, <2>7, <2>8 DEF NumberInv
<1>8. ASSUME NEW k \in Conns, BackNoop(k)
      PROVE  NumberInv'
  <2>1. /\ UNCHANGED <<opener, log, early, pump, conns>> /\ seq' = seq + 1
        /\ noops' = noops \cup {seq} /\ Serving(k)
    BY <1>8 DEF BackNoop, Waiting, openVars
  <2>2. opener.at = "done" /\ seq >= 2
    BY <2>1 DEF NumberInv
  <2>3. \A i \in DOMAIN log : log[i].seq \in Nat
    BY <1>0, LogSeqs
  <2>4. pump.at = "claimed" => pump.chunk.seq \in Nat
    BY <1>0, PumpFields DEF WcTypeOK, Chunk
  <2>5. \A n \in noops : n \in Nat
    BY <1>0 DEF WcTypeOK
  <2> QED BY <1>0, <2>1, <2>2, <2>3, <2>4, <2>5 DEF NumberInv
<1>9. ASSUME NEW k \in Conns,
             \/ BackOpen(k) \/ BackWrite(k) \/ BackWake(k)
             \/ BackDrain(k) \/ BackReturn(k) \/ BackLost(k)
      PROVE  NumberInv'
  <2>1. UNCHANGED <<opener, seq, log, early, noops, pump>> /\ (opener.at = "done" \/ Serving(k))
    BY <1>9 DEF BackOpen, BackWrite, BackWake, BackDrain, BackReturn, BackLost, Waiting,
                openVars, logVars
  <2>2. opener.at = "done"
    BY <2>1 DEF NumberInv
  <2> QED BY <2>1, <2>2 DEF NumberInv
<1>10. ASSUME NEW x \in Posts, PostStep(x)
       PROVE  NumberInv'
  <2>1. UNCHANGED <<opener, seq, log, early, noops, pump, conns>>
    BY <1>10 DEF PostStep, PostArrive, PostPush, PostAbort, PostReply, openVars, logVars
  <2> QED BY <1>1, <2>1
<1>11. CASE HandlerStep \/ Shutdown
  <2>1. UNCHANGED <<opener, seq, log, early, noops, pump, conns>>
    BY <1>11 DEF HandlerStep, HandlerRecv, HandlerSend, HandlerReturn, HandlerCancel,
                 Shutdown, openVars, logVars
  <2> QED BY <1>1, <2>1
<1>12. CASE UNCHANGED vars
  BY <1>1, <1>12 DEF vars
<1> QED
  BY <1>2, <1>3, <1>4, <1>5, <1>6, <1>7, <1>8, <1>9, <1>10, <1>11, <1>12
     DEF WcNext, OpenStep, PumpStep, BackStep

\* Every step keeps log and client in step, up to the first keep-alive,
\* if no response was early.
LEMMA ReplayInvStep ==
  TypeInv /\ NumberInv /\ NumberInv' /\ ReplayInv /\ [WcNext]_vars => ReplayInv'
<1> SUFFICES ASSUME TypeInv, NumberInv, NumberInv', ReplayInv, [WcNext]_vars,
                    noops' = {}, early' = 0
             PROVE  ReplayInv'
  BY DEF ReplayInv
<1> USE DEF Serving
<1>0. /\ WcTypeOK /\ Len(log) \in Nat /\ DOMAIN log = 1 .. Len(log) /\ seq \in Nat
      /\ lastAid \in Nat /\ early \in Nat
  BY DEF TypeInv, WcTypeOK
<1>1. CASE UNCHANGED <<opener, seq, log, early, noops, pump, conns, lastAid, heard>>
  BY <1>1 DEF ReplayInv
<1>2. CASE OpenCreate \/ OpenPush \/ OpenAbort
  <2>1. UNCHANGED <<seq, log, early, noops, pump, conns, lastAid, heard>> /\ opener'.at # "done"
    BY <1>2 DEF OpenCreate, OpenPush, OpenAbort, logVars, clientVars, Pushing
  <2> QED BY <2>1 DEF ReplayInv
<1>3. CASE OpenWire
  <2>1. /\ UNCHANGED <<seq, log, early, noops, conns, lastAid, heard>> /\ opener'.at # "done"
        /\ pump'.at # "claimed"
    BY <1>3 DEF OpenWire, clientVars, Pushing
  <2> QED BY <2>1 DEF ReplayInv
<1>4. CASE OpenConnect
  <2>1. /\ UNCHANGED <<log, early, noops, pump, conns, heard>> /\ opener.at # "done"
        /\ seq' = 2 /\ lastAid' = 1
    BY <1>4 DEF OpenConnect, Pushing
  <2>2. /\ \A k \in Conns : ~Serving(k)
        /\ pump.at = "claimed" => early = Len(log) + 1
        /\ pump.at # "claimed" => early = Len(log)
    BY <2>1 DEF NumberInv
  <2>3. Len(log) = 0 /\ pump.at # "claimed"
    BY <1>0, <2>1, <2>2
  <2> QED BY <1>0, <2>1, <2>2, <2>3 DEF ReplayInv
<1>5. CASE PumpClaim
  <2>1. /\ UNCHANGED <<opener, log, noops, conns, lastAid, heard>> /\ seq' = seq + 1
        /\ pump.at = "idle" /\ pump'.at = "claimed" /\ pump'.chunk.seq = seq
        /\ early' = IF opener.at = "done" THEN early ELSE early + 1
    BY <1>5 DEF PumpClaim, openVars, clientVars
  <2>2. opener.at = "done" /\ early = 0
    BY <1>0, <2>1
  <2> QED BY <1>0, <2>1, <2>2 DEF ReplayInv
<1>6. CASE PumpFail \/ PumpExit
  <2>1. /\ UNCHANGED <<opener, seq, log, early, noops, conns, lastAid, heard>>
        /\ pump.at = "idle" /\ pump'.at # "claimed"
    BY <1>6 DEF PumpFail, PumpExit, openVars, clientVars
  <2> QED BY <2>1 DEF ReplayInv
<1>7. CASE PumpAppend
  <2>1. /\ UNCHANGED <<opener, seq, early, noops, conns, lastAid, heard>> /\ pump.at = "claimed"
        /\ pump'.at = "idle" /\ log' = Append(log, pump.chunk)
    BY <1>7 DEF PumpAppend, openVars, clientVars
  <2>2. log \in Seq(Chunk) /\ pump.chunk \in Chunk
    BY <1>0, <2>1, PumpFields DEF WcTypeOK
  <2>3. /\ Len(log') = Len(log) + 1 /\ DOMAIN log' = 1 .. Len(log) + 1
        /\ log'[Len(log) + 1] = pump.chunk
        /\ \A i \in DOMAIN log : log'[i] = log[i]
    BY <2>1, <2>2
  <2>4. \A i \in DOMAIN log' : i \in DOMAIN log \/ i = Len(log) + 1
    BY <1>0, <2>3
  <2>5. \A k \in Conns : Serving(k) => conns[k].idx \in Nat
    BY <1>0, ConnFields DEF WcTypeOK
  <2>6. pump.chunk.seq = Len(log) + 2 /\ seq = Len(log) + 3 /\ lastAid <= Len(log) + 1
    BY <2>1 DEF ReplayInv
  <2>7. \A i \in DOMAIN log' : log'[i].seq = i + 1
    BY <1>0, <2>1, <2>3, <2>4, <2>6 DEF ReplayInv
  <2>8. \A k \in Conns : Serving(k) => conns[k].idx <= Len(log)
    BY <2>1 DEF ReplayInv
  <2>9. \A i \in DOMAIN log' : i < lastAid => log'[i].msg \in heard
    BY <1>0, <2>1, <2>3, <2>4, <2>6 DEF ReplayInv
  <2>10. \A k \in Conns : Serving(k) /\ conns[k].live =>
           \A i \in DOMAIN log' : i <= conns[k].idx => log'[i].msg \in heard
    <3> SUFFICES ASSUME NEW k \in Conns, Serving(k), conns[k].live,
                        NEW i \in DOMAIN log', i <= conns[k].idx
                 PROVE  log'[i].msg \in heard
      OBVIOUS
    <3>1. i \in DOMAIN log
      BY <1>0, <2>4, <2>5, <2>8
    <3> QED BY <2>1, <2>3, <3>1 DEF ReplayInv
  <2>11. /\ seq' = Len(log') + 2 /\ lastAid' <= Len(log') + 1
         /\ \A k \in Conns : Serving(k)' => conns'[k].idx <= Len(log')
    BY <1>0, <2>1, <2>3, <2>5, <2>6, <2>8
  <2> QED BY <2>1, <2>7, <2>9, <2>10, <2>11 DEF ReplayInv
<1>8. ASSUME NEW k \in Conns, BackNoop(k)
      PROVE  ReplayInv'
  BY <1>8 DEF BackNoop
<1>9. ASSUME NEW k \in Conns, BackOpen(k)
      PROVE  ReplayInv'
  <2> DEFINE c == [at |-> "open", idx |-> StartIndex(lastAid), upto |-> Len(log),
                   live |-> TRUE, last |-> FALSE]
  <2>1. /\ UNCHANGED <<opener, seq, log, early, noops, pump, lastAid, heard>>
        /\ conns' = [conns EXCEPT ![k] = c]
    BY <1>9 DEF BackOpen, openVars, logVars, clientVars
  <2>2. c.idx \in Nat /\ c.idx <= Len(log) /\ (c.idx = 0 \/ c.idx < lastAid)
    BY <1>0, <2>1 DEF StartIndex, ReplayInv
  <2> HIDE DEF c
  <2>3. conns'[k] = c /\ \A j \in Conns : j # k => conns'[j] = conns[j]
    BY <1>0, <2>1 DEF WcTypeOK
  <2>4. \A i \in DOMAIN log : i <= c.idx => log[i].msg \in heard
    BY <1>0, <2>1, <2>2 DEF ReplayInv
  <2> QED BY <2>1, <2>2, <2>3, <2>4 DEF ReplayInv
<1>10. ASSUME NEW k \in Conns, BackWrite(k)
       PROVE  ReplayInv'
  <2> DEFINE n == conns[k].idx
  <2>1. /\ UNCHANGED <<opener, seq, log, early, noops, pump>> /\ Serving(k) /\ n < conns[k].upto
        /\ conns' = [conns EXCEPT ![k] = [conns[k] EXCEPT !.idx = n + 1]]
    BY <1>10 DEF BackWrite, openVars, logVars
  <2>2. conns[k] \in ConnState /\ conns[k].at = "open"
    BY <1>0, <2>1 DEF WcTypeOK
  <2>3. n \in Nat /\ conns[k].upto \in Nat /\ conns[k].upto <= Len(log)
    BY <2>1, <2>2, ConnFields DEF TypeInv, WithinLog
  <2>4. n + 1 \in DOMAIN log
    BY <1>0, <2>1, <2>3
  <2>5. /\ conns'[k].at = "open" /\ conns'[k].idx = n + 1 /\ conns'[k].live = conns[k].live
        /\ \A j \in Conns : j # k => conns'[j] = conns[j]
    <3>1. conns'[k] = [conns[k] EXCEPT !.idx = n + 1]
      BY <1>0, <2>1 DEF WcTypeOK
    <3>2. conns[k] \in [at : {"open"}, idx : Nat, upto : Nat, live : BOOLEAN, last : BOOLEAN]
      BY <2>2 DEF ConnState, NoConn
    <3>3. conns'[k].at = "open" /\ conns'[k].idx = n + 1 /\ conns'[k].live = conns[k].live
      BY <3>1, <3>2
    <3>4. \A j \in Conns : j # k => conns'[j] = conns[j]
      BY <1>0, <2>1 DEF WcTypeOK
    <3> QED BY <3>3, <3>4
  <2>6. log[n + 1].seq = n + 2 /\ log[n + 1] \in Chunk
    BY <1>0, <2>1, <2>3, <2>4 DEF ReplayInv, WcTypeOK
  <2> HIDE DEF n
  <2>7. /\ lastAid' >= lastAid /\ lastAid' <= Len(log) + 1 /\ lastAid' \in Nat
        /\ heard \subseteq heard'
        /\ \/ lastAid' = lastAid
           \/ conns[k].live /\ lastAid' = n + 2 /\ log[n + 1].msg \in heard'
        /\ conns[k].live => lastAid' >= n + 2 
    <3>1. CASE Accepted(k, log[n + 1].seq)
      <4>1. lastAid' = n + 2 /\ heard' = heard \cup {log[n + 1].msg}
        BY <1>10, <2>6, <3>1 DEF BackWrite, n
      <4>2. conns[k].live /\ n + 2 > lastAid
        BY <2>6, <3>1 DEF Accepted
      <4>3. n + 2 <= Len(log) + 1
        BY <1>0, <2>3, <2>4
      <4> QED BY <1>0, <2>3, <4>1, <4>2, <4>3
    <3>2. CASE ~Accepted(k, log[n + 1].seq)
      <4>1. lastAid' = lastAid /\ heard' = heard
        BY <1>10, <3>2 DEF BackWrite, n
      <4>2. conns[k].live => ~(n + 2 > lastAid)
        BY <2>6, <3>2 DEF Accepted
      <4>3. lastAid <= Len(log) + 1
        BY <2>1 DEF ReplayInv
      <4> QED BY <1>0, <2>3, <4>1, <4>2, <4>3
    <3> QED BY <3>1, <3>2
  <2>8. ASSUME NEW i \in DOMAIN log, i < lastAid'
        PROVE  log[i].msg \in heard'
    <3>1. CASE i < lastAid
      BY <2>1, <2>7, <3>1 DEF ReplayInv
    <3>2. CASE ~(i < lastAid)
      <4>1. conns[k].live /\ lastAid' = n + 2 /\ log[n + 1].msg \in heard'
        BY <1>0, <2>7, <2>8, <3>2
      <4>2. i <= n \/ i = n + 1
        BY <1>0, <2>3, <2>8, <4>1
      <4>3. i <= n => log[i].msg \in heard
        BY <2>1, <4>1 DEF ReplayInv, n
      <4> QED BY <2>7, <4>1, <4>2, <4>3
    <3> QED BY <3>1, <3>2
  <2>9. conns[k].live => \A i \in DOMAIN log : i <= n + 1 => log[i].msg \in heard'
    BY <1>0, <2>3, <2>7, <2>8
  <2>10. \A j \in Conns : Serving(j)' => conns'[j].idx <= Len(log)
    BY <1>0, <2>1, <2>3, <2>4, <2>5 DEF ReplayInv
  <2>11. ASSUME NEW j \in Conns, Serving(j)', conns'[j].live,
                NEW i \in DOMAIN log, i <= conns'[j].idx
         PROVE  log[i].msg \in heard'
    <3>1. CASE j = k
      BY <2>5, <2>9, <2>11, <3>1
    <3>2. CASE j # k
      BY <2>1, <2>5, <2>7, <2>11, <3>2 DEF ReplayInv
    <3> QED BY <3>1, <3>2
  <2> QED BY <2>1, <2>7, <2>8, <2>10, <2>11 DEF ReplayInv
<1>11. ASSUME NEW k \in Conns, BackWake(k) \/ BackDrain(k) \/ BackReturn(k) \/ BackLost(k)
       PROVE  ReplayInv'
  <2>1. UNCHANGED <<opener, seq, log, early, noops, pump, lastAid, heard>>
    BY <1>11 DEF BackWake, BackDrain, BackReturn, BackLost, openVars, logVars, clientVars
  <2>2. \A j \in Conns : j # k => conns'[j] = conns[j]
    BY <1>0, <1>11 DEF BackWake, BackDrain, BackReturn, BackLost, WcTypeOK
  <2>3. conns[k] \in ConnState /\ conns[k].at = "open" /\ Len(log) \in Nat
    BY <1>0, <1>11 DEF BackWake, BackDrain, BackReturn, BackLost, Waiting, WcTypeOK
  <2>4. Serving(k)' => conns'[k].idx = conns[k].idx /\ (conns'[k].live => conns[k].live)
    <3>1. CASE BackWake(k)
      <4>1. conns'[k] = [conns[k] EXCEPT !.upto = Len(log)]
        BY <1>0, <3>1 DEF BackWake, WcTypeOK
      <4>2. conns[k] \in [at : {"open"}, idx : Nat, upto : Nat, live : BOOLEAN, last : BOOLEAN]
        BY <2>3 DEF ConnState, NoConn
      <4> QED BY <4>1, <4>2
    <3>2. CASE BackDrain(k)
      <4>1. conns'[k] = [conns[k] EXCEPT !.upto = Len(log), !.last = TRUE]
        BY <1>0, <3>2 DEF BackDrain, WcTypeOK
      <4>2. conns[k] \in [at : {"open"}, idx : Nat, upto : Nat, live : BOOLEAN, last : BOOLEAN]
        BY <2>3 DEF ConnState, NoConn
      <4> QED BY <4>1, <4>2
    <3>3. CASE BackReturn(k)
      BY <1>0, <3>3 DEF BackReturn, WcTypeOK, NoConn
    <3>4. CASE BackLost(k)
      <4>1. conns'[k] = [conns[k] EXCEPT !.live = FALSE]
        BY <1>0, <3>4 DEF BackLost, WcTypeOK
      <4> QED BY <2>3, <4>1, ConnLost
    <3> QED BY <1>11, <3>1, <3>2, <3>3, <3>4
  <2> QED BY <2>1, <2>2, <2>3, <2>4 DEF ReplayInv
<1>12. ASSUME NEW x \in Posts, PostStep(x)
       PROVE  ReplayInv'
  <2>1. UNCHANGED <<opener, seq, log, early, noops, pump, conns, lastAid, heard>>
    BY <1>12 DEF PostStep, PostArrive, PostPush, PostAbort, PostReply, openVars, logVars,
                 clientVars
  <2> QED BY <1>1, <2>1
<1>13. CASE HandlerStep \/ Shutdown
  <2>1. UNCHANGED <<opener, seq, log, early, noops, pump, conns, lastAid, heard>>
    BY <1>13 DEF HandlerStep, HandlerRecv, HandlerSend, HandlerReturn, HandlerCancel,
                 Shutdown, openVars, logVars, clientVars
  <2> QED BY <1>1, <2>1
<1>14. CASE UNCHANGED vars
  BY <1>1, <1>14 DEF vars
<1> QED
  BY <1>2, <1>3, <1>4, <1>5, <1>6, <1>7, <1>8, <1>9, <1>10, <1>11, <1>12, <1>13, <1>14
     DEF WcNext, OpenStep, PumpStep, BackStep

-----------------------------------------------------------------------------
\* The numbering holds for ever.
LEMMA Numbered == WcSpec => [](TypeInv /\ NumberInv /\ ReplayInv)
<1>1. WcInit => TypeInv /\ NumberInv /\ ReplayInv
  BY TypeInvInit, NumberInvInit
<1>2. TypeInv /\ NumberInv /\ ReplayInv /\ [WcNext]_vars => (TypeInv /\ NumberInv /\ ReplayInv)'
  BY TypeInvStep, NumberInvStep, ReplayInvStep
<1> QED BY <1>1, <1>2, PTL DEF WcSpec

(***************************************************************************)
(* session.go:236 of all that is numbered once the connect chunk has its   *)
(* ids, however early the handler answers the opening POST: see            *)
(* UniqueSeqs.                                                             *)
(***************************************************************************)
THEOREM ArrayIdsUnique == WcSpec => []UniqueSeqs
<1>1. ASSUME TypeInv, NumberInv PROVE UniqueSeqs
  <2>1. /\ Len(log) \in Nat /\ DOMAIN log = 1 .. Len(log) /\ early \in Nat
        /\ \A i \in DOMAIN log : log[i].seq \in Nat
    BY <1>1, LogSeqs DEF TypeInv, WcTypeOK
  <2>2. \A i \in early + 1 .. Len(log) : i \in DOMAIN log /\ i \in Nat /\ early < i
    BY <2>1
  <2>3. \A i, j \in early + 1 .. Len(log) : i < j => log[i].seq < log[j].seq
    BY <1>1, <2>2 DEF NumberInv
  <2>4. ASSUME NEW i \in early + 1 .. Len(log), NEW j \in early + 1 .. Len(log), i # j
        PROVE  log[i].seq # log[j].seq
    <3>1. i < j \/ j < i
      BY <2>2, <2>4
    <3>2. log[i].seq \in Nat /\ log[j].seq \in Nat
      BY <2>1, <2>2
    <3> QED BY <2>3, <3>1, <3>2
  <2>5. \A i \in early + 1 .. Len(log) : log[i].seq \notin noops /\ log[i].seq >= 2
    BY <1>1, <2>2 DEF NumberInv
  <2>6. LateSeqs \cap noops = {} /\ (LateSeqs \cup noops) \cap {0, 1} = {}
    BY <1>1, <2>5 DEF NumberInv, LateSeqs
  <2> QED BY <2>4, <2>6 DEF UniqueSeqs
<1> QED BY <1>1, Numbered, PTL

(***************************************************************************)
(* No response is passed over before the first keep-alive, in every        *)
(* session whose connect chunk came before the first response, with any    *)
(* number of back channels lost and opened again: see NoMessageSkipped.    *)
(***************************************************************************)
THEOREM ResponsesNotSkipped == WcSpec => []NoMessageSkipped
<1>1. ASSUME TypeInv, ReplayInv PROVE NoMessageSkipped
  <2>1. \A i \in DOMAIN log : i \in Nat /\ log[i].seq \in Nat
    BY <1>1, LogSeqs DEF TypeInv
  <2>2. lastAid \in Nat
    BY <1>1 DEF TypeInv, WcTypeOK
  <2> QED BY <1>1, <2>1, <2>2 DEF ReplayInv, NoMessageSkipped
<1> QED BY <1>1, Numbered, PTL

=============================================================================
