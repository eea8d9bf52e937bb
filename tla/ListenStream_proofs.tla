------------------------ MODULE ListenStream_proofs ------------------------
(***************************************************************************)
(* Theorems about ListenStream, for every set of streams and targets and   *)
(* every capacity of the channels.                                         *)
(***************************************************************************)
EXTENDS ListenStream, SqliteStore_proofs, FiniteSetTheorems, TLAPS

\* Every step of the composed system is a step of the store, or leaves it be.
LEMMA StoreStep == ListenNext => [Next]_vars
<1> SUFFICES ASSUME ListenNext PROVE [Next]_vars
  OBVIOUS
<1>1. CASE StoreNext /\ UNCHANGED listenVars
  BY <1>1 DEF Next
<1>2. CASE DispatchStep
  BY <1>2 DEF DispatchStep, DispatchBegin, DispatchOffer, DispatchRaise, Next
<1>3. ASSUME NEW s \in Streams, HandlerStep(s) PROVE UNCHANGED vars
  BY <1>3 DEF HandlerStep, SnapshotStep, ReceiveChange, CheckOverflow, FanOut
<1>4. ASSUME NEW s \in Streams, StreamStep(s) PROVE UNCHANGED vars
  BY <1>4 DEF StreamStep, OpenStream, HandlerReturns, Cancel, AddTarget,
              RemoveTarget
<1> QED
  BY <1>1, <1>2, <1>3, <1>4 DEF ListenNext

(***************************************************************************)
(* Listen streams add reads and nothing else: the composed system behaves, *)
(* as far as the store is concerned, as the store alone does.              *)
(***************************************************************************)
THEOREM ListenImplementsStore == ListenSpec => Spec
<1>1. ListenInit => Init
  BY DEF ListenInit
<1>2. [ListenNext]_allVars => [Next]_vars
  BY StoreStep DEF allVars
<1> QED
  BY <1>1, <1>2, PTL DEF ListenSpec, Spec

-----------------------------------------------------------------------------
(***************************************************************************)
(* Types.                                                                  *)
(***************************************************************************)

\* The listening side of the type invariant.
HandlerTypes ==
  /\ disp \in DispatcherState
  /\ ch \in [Streams -> Seq(Events)]
  /\ \A s \in Streams : Len(ch[s]) <= SubCap
  /\ overflowed \in [Streams -> BOOLEAN]
  /\ strm \in [Streams -> StreamState]
  /\ targets \in [Streams -> SUBSET Targets]
  /\ view \in [Streams -> [Targets -> [Paths -> Nat]]]

\* What Visible returns is a stamp.
LEMMA VisibleType ==
  ASSUME TypeOK, NEW g \in Targets, NEW p \in Paths
  PROVE  Visible(g, p) \in Nat
BY DEF TypeOK, Table, Row, Visible

\* The fields a handler's state has, by its label.
LEMMA StreamFields ==
  ASSUME NEW st \in StreamState
  PROVE  /\ st.at = "check" => st.event \in Events
         /\ st.at = "fanout" => st.event \in Events /\ st.todo \in SUBSET Targets
         /\ st.at = "snapshot" => /\ st.target \in Targets
                                  /\ st.offset \in Nat
                                  /\ st.todo \in SUBSET Targets
BY DEF StreamState, Closed, Select, Leaving

\* The states a handler can be put in.
LEMMA StreamShapes ==
  /\ Closed \in StreamState /\ Select \in StreamState /\ Leaving \in StreamState
  /\ \A e \in Events : [at |-> "check", event |-> e] \in StreamState
  /\ \A e \in Events, todo \in SUBSET Targets :
       [at |-> "fanout", event |-> e, todo |-> todo] \in StreamState
  /\ \A g \in Targets, n \in Nat, todo \in SUBSET Targets :
       [at |-> "snapshot", target |-> g, offset |-> n, todo |-> todo]
          \in StreamState
BY DEF StreamState

\* After a snapshot the handler is in a proper state.
LEMMA AfterSnapshotType ==
  ASSUME NEW todo \in SUBSET Targets, NEW next \in AfterSnapshot(todo)
  PROVE  next \in StreamState
BY StreamShapes DEF AfterSnapshot

\* After a snapshot the handler goes on.
LEMMA AfterSnapshotOpen ==
  ASSUME NEW todo, NEW next \in AfterSnapshot(todo)
  PROVE  next # Closed
BY DEF AfterSnapshot, Closed, Select

\* The dispatcher moves between proper states.
LEMMA StillOfferingType ==
  ASSUME NEW e \in Events, NEW todo \in SUBSET Streams
  PROVE  StillOffering(e, todo) \in DispatcherState
BY DEF StillOffering, DispatcherState, Resting

\* When the server starts, no stream is open and the dispatcher rests.
LEMMA ListenInitType == ListenInit => HandlerTypes
<1> SUFFICES ASSUME ListenInit PROVE HandlerTypes
  OBVIOUS
<1>1. disp \in DispatcherState
  BY DEF ListenInit, DispatcherState
<1>2. ch \in [Streams -> Seq(Events)] /\ \A s \in Streams : Len(ch[s]) <= SubCap
  <2>1. <<>> \in Seq(Events) /\ Len(<<>>) = 0 /\ 0 <= SubCap
    BY ListenAssumption
  <2> QED
    BY <2>1 DEF ListenInit
<1>3. strm \in [Streams -> StreamState]
  BY StreamShapes DEF ListenInit
<1>4. view \in [Streams -> [Targets -> [Paths -> Nat]]]
  BY DEF ListenInit, NoDocs
<1> QED
  BY <1>1, <1>2, <1>3, <1>4 DEF ListenInit, HandlerTypes

\* Registry.Dispatch keeps the types: a channel never holds more than SubCap.
LEMMA DispatchType ==
  TypeOK /\ HandlerTypes /\ DispatchStep => HandlerTypes'
<1> SUFFICES ASSUME TypeOK, HandlerTypes, DispatchStep PROVE HandlerTypes'
  OBVIOUS
<1> USE DEF HandlerTypes
<1>1. disp.at # "resting" => disp.event \in Events /\ disp.todo \in SUBSET Streams
  BY DEF DispatcherState, Resting
<1>2. CASE DispatchBegin
  <2>1. Head(hub) \in Events
    BY <1>2 DEF DispatchBegin, TakeChange, TypeOK
  <2>2. disp' \in DispatcherState
    BY <1>2, <2>1, StillOfferingType DEF DispatchBegin
  <2> QED
    BY <1>2, <2>2 DEF DispatchBegin, handlerVars
<1>3. ASSUME NEW s \in Streams, DispatchOffer(s) PROVE HandlerTypes'
  <2>1. disp.event \in Events /\ disp.todo \in SUBSET Streams
    BY <1>1, <1>3 DEF DispatchOffer
  <2>2. CASE Len(ch[s]) < SubCap /\ ch' = [ch EXCEPT ![s] = Append(@, disp.event)]
             /\ disp' = StillOffering(disp.event, disp.todo \ {s})
    <3>1. disp' \in DispatcherState
      BY <2>1, <2>2, StillOfferingType
    <3>2. /\ Append(ch[s], disp.event) \in Seq(Events)
          /\ Len(Append(ch[s], disp.event)) <= SubCap
      BY <2>1, <2>2, ListenAssumption
    <3>3. /\ ch' \in [Streams -> Seq(Events)]
          /\ \A u \in Streams : Len(ch'[u]) <= SubCap
      BY <2>2, <3>2
    <3> QED
      BY <1>3, <3>1, <3>3 DEF DispatchOffer, handlerVars
  <2>3. CASE /\ disp' = [at |-> "raising", event |-> disp.event,
                         todo |-> disp.todo \ {s}, stream |-> s]
             /\ UNCHANGED ch
    BY <1>3, <2>1, <2>3 DEF DispatchOffer, handlerVars, DispatcherState
  <2> QED
    BY <1>3, <2>2, <2>3 DEF DispatchOffer
<1>4. CASE DispatchRaise
  <2>1. disp' \in DispatcherState
    BY <1>1, <1>4, StillOfferingType DEF DispatchRaise
  <2> QED
    BY <1>4, <2>1 DEF DispatchRaise, handlerVars
<1> QED
  BY <1>2, <1>3, <1>4 DEF DispatchStep

\* Overwriting what a client holds in one target keeps the views well-typed.
LEMMA ViewType ==
  ASSUME HandlerTypes, NEW s \in Streams, NEW g \in Targets,
         NEW docs \in [Paths -> Nat]
  PROVE  [view EXCEPT ![s][g] = docs] \in [Streams -> [Targets -> [Paths -> Nat]]]
BY DEF HandlerTypes

\* Opening, leaving and re-targeting a Listen stream keep the types.
LEMMA StreamType ==
  ASSUME HandlerTypes, NEW s \in Streams, StreamStep(s)
  PROVE  HandlerTypes'
<1> USE DEF HandlerTypes
<1>0. NoDocs \in [Targets -> [Paths -> Nat]]
  BY DEF NoDocs
<1>1. CASE OpenStream(s)
  BY <1>1, StreamShapes DEF OpenStream
<1>2. CASE HandlerReturns(s)
  BY <1>0, <1>2, StreamShapes DEF HandlerReturns
<1>3. CASE Cancel(s)
  <2>1. <<>> \in Seq(Events) /\ Len(<<>>) <= SubCap
    BY ListenAssumption
  <2>2. /\ ch' \in [Streams -> Seq(Events)]
        /\ \A u \in Streams : Len(ch'[u]) <= SubCap
    BY <1>3, <2>1 DEF Cancel
  <2> QED
    BY <1>3, <2>2, StreamShapes DEF Cancel
<1>4. ASSUME NEW g \in Targets, AddTarget(s, g) PROVE HandlerTypes'
  <2>1. view' \in [Streams -> [Targets -> [Paths -> Nat]]]
    BY <1>0, <1>4, ViewType DEF AddTarget
  <2>2. strm' \in [Streams -> StreamState]
    BY <1>4, StreamShapes DEF AddTarget
  <2> QED
    BY <1>4, <2>1, <2>2 DEF AddTarget
<1>5. ASSUME NEW g \in Targets, RemoveTarget(s, g) PROVE HandlerTypes'
  <2>1. view' \in [Streams -> [Targets -> [Paths -> Nat]]]
    BY <1>0, <1>5, ViewType DEF RemoveTarget
  <2> QED
    BY <1>5, <2>1 DEF RemoveTarget
<1> QED
  BY <1>1, <1>2, <1>3, <1>4, <1>5 DEF StreamStep

\* Snapshots, overflow checks and fan-out of the Listen handler keep the types.
LEMMA HandlerType ==
  ASSUME TypeOK, HandlerTypes, NEW s \in Streams, HandlerStep(s)
  PROVE  HandlerTypes'
<1> USE DEF HandlerTypes
<1>0. NoDocs \in [Targets -> [Paths -> Nat]]
  BY DEF NoDocs
<1>a. strm[s] \in StreamState
  OBVIOUS
<1>1. CASE SnapshotStep(s)
  <2> DEFINE g == strm[s].target
             from == strm[s].offset
             rows == Listed(g)
             to == from + (IF g \in QueryTargets THEN PageSize ELSE 1)
             read == {p \in rows : from < Rank(rows, p) /\ Rank(rows, p) <= to}
             docs == [p \in Paths |-> IF p \in read /\ Visible(g, p) > 0
                                      THEN Visible(g, p) ELSE view[s][g][p]]
  <2>1. g \in Targets /\ from \in Nat /\ strm[s].todo \in SUBSET Targets
    BY <1>a, <1>1, StreamFields DEF SnapshotStep
  <2>2. to \in Nat
    BY <2>1, ListenAssumption
  <2>3. docs \in [Paths -> Nat]
    <3>1. \A p \in Paths : Visible(g, p) \in Nat /\ view[s][g][p] \in Nat
      BY <2>1, VisibleType
    <3> QED
      BY <3>1
  <2>4. view' = [view EXCEPT ![s][g] = docs]
    BY <1>1, <2>1 DEF SnapshotStep
  <2>5. view' \in [Streams -> [Targets -> [Paths -> Nat]]]
    <3> HIDE DEF docs, g
    <3> QED
      BY <2>1, <2>3, <2>4, ViewType
  <2>6. strm' \in [Streams -> StreamState]
    <3>1. CASE strm' = [strm EXCEPT ![s].offset = to]
      <4>1. strm[s] \in [at : {"snapshot"}, target : Targets, offset : Nat,
                         todo : SUBSET Targets]
        BY <1>a, <1>1 DEF SnapshotStep, StreamState, Closed, Select, Leaving
      <4>2. [strm[s] EXCEPT !.offset = to] \in StreamState
        <5> HIDE DEF to
        <5> QED
          BY <4>1, <2>2 DEF StreamState
      <4> QED
        BY <3>1, <4>2
    <3>2. ASSUME NEW next \in AfterSnapshot(strm[s].todo),
                 strm' = [strm EXCEPT ![s] = next]
          PROVE  strm' \in [Streams -> StreamState]
      BY <2>1, <3>2, AfterSnapshotType
    <3> QED
      BY <1>1, <3>1, <3>2 DEF SnapshotStep
  <2> QED
    BY <1>1, <2>5, <2>6 DEF SnapshotStep
<1>2. CASE ReceiveChange(s)
  <2>1. /\ Head(ch[s]) \in Events
        /\ Tail(ch[s]) \in Seq(Events)
        /\ Len(Tail(ch[s])) <= SubCap
    BY <1>2, ListenAssumption DEF ReceiveChange
  <2>2. /\ ch' \in [Streams -> Seq(Events)]
        /\ \A u \in Streams : Len(ch'[u]) <= SubCap
    BY <1>2, <2>1 DEF ReceiveChange
  <2> QED
    BY <1>2, <2>1, <2>2, StreamShapes DEF ReceiveChange
<1>3. CASE CheckOverflow(s)
  <2>1. strm[s].event \in Events
    BY <1>a, <1>3, StreamFields DEF CheckOverflow
  <2>2. view' \in [Streams -> [Targets -> [Paths -> Nat]]]
    BY <1>0, <1>3 DEF CheckOverflow
  <2>3. strm' \in [Streams -> StreamState]
    <3>1. CASE overflowed[s]
      BY <1>3, <3>1, AfterSnapshotType DEF CheckOverflow
    <3>2. CASE ~overflowed[s]
      <4> DEFINE covers == {g \in targets[s] :
                              strm[s].event.path \in TargetPaths[g]}
                 next == IF covers = {} THEN Select
                         ELSE [at |-> "fanout", event |-> strm[s].event,
                               todo |-> covers]
      <4>1. covers \in SUBSET Targets
        OBVIOUS
      <4>2. next \in StreamState
        <5> HIDE DEF covers
        <5> QED
          BY <2>1, <4>1, StreamShapes
      <4>3. strm' = [strm EXCEPT ![s] = next]
        BY <1>3, <3>2 DEF CheckOverflow
      <4> HIDE DEF next
      <4> QED
        BY <4>2, <4>3
    <3> QED
      BY <3>1, <3>2
  <2> QED
    BY <1>3, <2>2, <2>3 DEF CheckOverflow
<1>4. ASSUME NEW g \in Targets, FanOut(s, g) PROVE HandlerTypes'
  <2> DEFINE e == strm[s].event
  <2>1. e \in Events /\ strm[s].todo \in SUBSET Targets
    BY <1>a, <1>4, StreamFields DEF FanOut
  <2>2. e.path \in Paths
    BY <2>1 DEF Events
  <2>3. Visible(g, e.path) \in Nat
    BY <2>2, VisibleType
  <2>4. view' \in [Streams -> [Targets -> [Paths -> Nat]]]
    <3>1. PICK n \in Nat : view' = [view EXCEPT ![s][g][e.path] = n]
      <4>1. CASE e.kind = "delete"
        BY <1>4, <4>1 DEF FanOut
      <4>2. CASE e.kind = "upsert"
        <5> DEFINE m == IF Visible(g, e.path) > 0 THEN Visible(g, e.path)
                        ELSE view[s][g][e.path]
        <5>1. m \in Nat
          BY <2>2, <2>3
        <5>2. view' = [view EXCEPT ![s][g][e.path] = m]
          BY <1>4, <4>2 DEF FanOut
        <5> HIDE DEF m
        <5> QED
          BY <5>1, <5>2
      <4> QED
        BY <1>4, <4>1, <4>2 DEF FanOut
    <3> QED
      BY <2>2, <3>1
  <2>5. strm' \in [Streams -> StreamState]
    BY <1>4, <2>1, StreamShapes DEF FanOut
  <2> QED
    BY <1>4, <2>4, <2>5 DEF FanOut
<1> QED
  BY <1>1, <1>2, <1>3, <1>4 DEF HandlerStep

\* One step of the composed system keeps the types of the listening side.
LEMMA ListenTypeStep ==
  TypeOK /\ HandlerTypes /\ [ListenNext]_allVars => HandlerTypes'
<1> SUFFICES ASSUME TypeOK, HandlerTypes, [ListenNext]_allVars
             PROVE  HandlerTypes'
  OBVIOUS
<1>1. CASE UNCHANGED listenVars
  BY <1>1 DEF listenVars, HandlerTypes
<1>2. CASE DispatchStep
  BY <1>2, DispatchType
<1>3. ASSUME NEW s \in Streams, HandlerStep(s) \/ StreamStep(s)
      PROVE  HandlerTypes'
  BY <1>3, HandlerType, StreamType
<1> QED
  BY <1>1, <1>2, <1>3 DEF ListenNext, allVars

(***************************************************************************)
(* Type correctness of the composed system.                                *)
(***************************************************************************)
THEOREM ListenTypeCorrect == ListenSpec => []ListenTypeOK
<1>1. TypeOK /\ HandlerTypes => ListenTypeOK
  BY DEF HandlerTypes, ListenTypeOK
<1> QED
  BY <1>1, ListenInitType, ListenTypeStep, ListenImplementsStore, TypeCorrect,
     PTL DEF ListenSpec

-----------------------------------------------------------------------------
(***************************************************************************)
(* No send on a closed channel.                                            *)
(***************************************************************************)

\* Handlers, dispatcher and cancellations preserve it: whoever unsubscribes
\* waits for the dispatcher to leave the registry.
LEMMA NoSendStep ==
  HandlerTypes /\ NoSendOnClosed /\ [ListenNext]_allVars => NoSendOnClosed'
<1> SUFFICES ASSUME HandlerTypes, NoSendOnClosed, [ListenNext]_allVars
             PROVE  NoSendOnClosed'
  OBVIOUS
<1>0. disp.at # "resting" =>
        /\ disp.todo \in SUBSET Streams
        /\ disp.at = "raising" => disp.stream \in Streams
  BY DEF HandlerTypes, DispatcherState, Resting
<1>1. CASE UNCHANGED listenVars
  BY <1>1 DEF listenVars, NoSendOnClosed, Subscribed
<1>2. CASE DispatchStep
  <2>1. UNCHANGED strm
    BY <1>2 DEF DispatchStep, DispatchBegin, DispatchOffer, DispatchRaise,
                handlerVars
  <2>2. CASE DispatchBegin
    BY <2>1, <2>2 DEF DispatchBegin, StillOffering, Resting, NoSendOnClosed,
                      Subscribed
  <2>3. ASSUME NEW s \in Streams, DispatchOffer(s) PROVE NoSendOnClosed'
    BY <2>1, <2>3 DEF DispatchOffer, StillOffering, Resting, NoSendOnClosed,
                      Subscribed
  <2>4. CASE DispatchRaise
    BY <2>1, <2>4 DEF DispatchRaise, StillOffering, Resting, NoSendOnClosed,
                      Subscribed
  <2> QED
    BY <1>2, <2>2, <2>3, <2>4 DEF DispatchStep
<1>3. ASSUME NEW s \in Streams, HandlerStep(s) \/ StreamStep(s), ~Cancel(s)
      PROVE  NoSendOnClosed'
  <2>1. UNCHANGED disp
    BY <1>3 DEF HandlerStep, SnapshotStep, ReceiveChange, CheckOverflow, FanOut,
                StreamStep, OpenStream, HandlerReturns, AddTarget, RemoveTarget
  <2>2. ASSUME NEW u \in Streams, Subscribed(u) PROVE Subscribed(u)'
    <3>0. Closed.at = "closed" /\ Select.at = "select" /\ Leaving.at = "leaving"
      BY DEF Closed, Select, Leaving
    <3>1. ASSUME NEW st, st # Closed, strm' = [strm EXCEPT ![s] = st]
          PROVE  Subscribed(u)'
      BY <2>2, <3>1 DEF Subscribed, HandlerTypes
    <3>2. CASE StreamStep(s)
      <4>1. Select # Closed /\ Leaving # Closed
        BY <3>0
      <4>2. \A g : [at |-> "snapshot", target |-> g, offset |-> 0, todo |-> {}]
                     # Closed
        BY <3>0
      <4>3. CASE OpenStream(s)
        BY <3>1, <4>1, <4>3 DEF OpenStream
      <4>4. CASE HandlerReturns(s)
        BY <3>1, <4>1, <4>4 DEF HandlerReturns
      <4>5. ASSUME NEW g \in Targets, AddTarget(s, g) PROVE Subscribed(u)'
        BY <3>1, <4>2, <4>5 DEF AddTarget
      <4>6. ASSUME NEW g \in Targets, RemoveTarget(s, g) PROVE Subscribed(u)'
        BY <2>2, <4>6 DEF RemoveTarget, Subscribed
      <4> QED
        BY <1>3, <3>2, <4>3, <4>4, <4>5, <4>6 DEF StreamStep
    <3>3. CASE SnapshotStep(s)
      <4>1. strm[s] \in [at : {"snapshot"}, target : Targets, offset : Nat,
                         todo : SUBSET Targets]
        BY <3>3 DEF SnapshotStep, HandlerTypes, StreamState, Closed, Select,
                    Leaving
      <4>2. \A n : [strm[s] EXCEPT !.offset = n] # Closed
        BY <4>1 DEF Closed
      <4>3. ASSUME NEW n, strm' = [strm EXCEPT ![s].offset = n]
            PROVE  Subscribed(u)'
        BY <4>2, <4>3, <3>1
      <4>4. ASSUME NEW next \in AfterSnapshot(strm[s].todo),
                   strm' = [strm EXCEPT ![s] = next]
            PROVE  Subscribed(u)'
        BY <4>4, <3>1, AfterSnapshotOpen
      <4> QED
        BY <3>3, <4>3, <4>4 DEF SnapshotStep
    <3>4. CASE ReceiveChange(s)
      <4>1. \A e : [at |-> "check", event |-> e] # Closed
        BY <3>0
      <4> QED
        BY <3>1, <3>4, <4>1 DEF ReceiveChange
    <3>5. CASE CheckOverflow(s)
      <4>1. \A e, todo : (IF todo = {} THEN Select
                          ELSE [at |-> "fanout", event |-> e, todo |-> todo])
                            # Closed
        BY <3>0
      <4>2. CASE overflowed[s]
        BY <3>1, <3>5, <4>2, AfterSnapshotOpen DEF CheckOverflow
      <4>3. CASE ~overflowed[s]
        BY <3>1, <3>5, <4>1, <4>3 DEF CheckOverflow
      <4> QED
        BY <4>2, <4>3
    <3>6. ASSUME NEW g \in Targets, FanOut(s, g) PROVE Subscribed(u)'
      <4>1. \A e, todo : (IF todo = {} THEN Select
                          ELSE [at |-> "fanout", event |-> e, todo |-> todo])
                            # Closed
        BY <3>0
      <4> QED
        BY <3>1, <3>6, <4>1 DEF FanOut
    <3> QED
      BY <1>3, <3>2, <3>3, <3>4, <3>5, <3>6 DEF HandlerStep
  <2> QED
    BY <1>0, <2>1, <2>2 DEF NoSendOnClosed
<1>4. ASSUME NEW s \in Streams, Cancel(s) PROVE NoSendOnClosed'
  BY <1>4 DEF Cancel, Locked, Resting, NoSendOnClosed
<1> QED
  BY <1>1, <1>2, <1>3, <1>4 DEF ListenNext, allVars

(***************************************************************************)
(* The dispatcher never sends on a closed channel.                         *)
(***************************************************************************)
THEOREM NeverSendsOnClosed == ListenSpec => []NoSendOnClosed
<1>1. ListenInit => NoSendOnClosed
  BY DEF ListenInit, Resting, NoSendOnClosed
<1>2. ListenTypeOK => HandlerTypes
  BY DEF HandlerTypes, ListenTypeOK
<1> QED
  BY <1>1, <1>2, ListenTypeCorrect, NoSendStep, PTL DEF ListenSpec

(***************************************************************************)
(* What is proved of commits holds with any number of Listen streams       *)
(* reading and waiting beside them.                                        *)
(***************************************************************************)
THEOREM CommitsBesideListeners ==
  ListenSpec => [](NoLeakedConnection /\ CommitValidated /\ RetrySafe)
BY ListenImplementsStore, ConnectionNeverLeaks, CommitsAreValidated,
   RetriesAreSafe, PTL

-----------------------------------------------------------------------------
(***************************************************************************)
(* Pages.                                                                  *)
(***************************************************************************)

\* PathOrder goes through all the paths, so there are finitely many.
LEMMA PathsFinite == IsFiniteSet(Paths)
<1>1. IsFiniteSet(1 .. Len(PathOrder))
  BY FS_Interval, ListenAssumption
<1>2. PathOrder \in Surjection(1 .. Len(PathOrder), Paths)
  BY ListenAssumption DEF Surjection
<1> QED
  BY <1>1, <1>2, FS_Surjection

\* The rank of a path among the rows of a snapshot counts from one, does not
\* exceed their number, and only grows when rows are added before it.
LEMMA RankBounds ==
  ASSUME NEW rows \in SUBSET Paths, NEW p \in rows
  PROVE  /\ Rank(rows, p) \in Nat
         /\ Rank(rows, p) >= 1
         /\ Rank(rows, p) <= Cardinality(rows)
         /\ Cardinality(rows) \in Nat
<1> DEFINE before == {q \in rows : Position(q) <= Position(p)}
<1>1. IsFiniteSet(rows)
  BY PathsFinite, FS_Subset
<1>2. /\ IsFiniteSet(before)
      /\ Cardinality(before) <= Cardinality(rows)
  BY <1>1, FS_Subset
<1>3. Position(p) <= Position(p)
  <2>1. p \in Paths
    OBVIOUS
  <2>2. \E i \in DOMAIN PathOrder : PathOrder[i] = p
    BY <2>1, ListenAssumption
  <2>3. Position(p) \in DOMAIN PathOrder
    BY <2>2 DEF Position
  <2>4. DOMAIN PathOrder \subseteq Nat
    BY ListenAssumption
  <2> QED
    BY <2>3, <2>4
<1>4. {p} \in SUBSET before
  BY <1>3
<1>5. Cardinality({p}) <= Cardinality(before) /\ Cardinality({p}) = 1
  BY <1>2, <1>4, FS_Subset, FS_Singleton
<1>6. Cardinality(before) \in Nat /\ Cardinality(rows) \in Nat
  BY <1>1, <1>2, FS_CardinalityType
<1>7. Rank(rows, p) = Cardinality(before)
  BY DEF Rank
<1> HIDE DEF before
<1> QED
  BY <1>2, <1>5, <1>6, <1>7

LEMMA RankGrows ==
  ASSUME NEW rows \in SUBSET Paths, NEW more \in SUBSET Paths,
         rows \subseteq more, NEW p \in rows
  PROVE  Rank(rows, p) <= Rank(more, p)
<1> DEFINE before == {q \in more : Position(q) <= Position(p)}
           fewer == {q \in rows : Position(q) <= Position(p)}
<1>1. IsFiniteSet(before)
  BY PathsFinite, FS_Subset
<1>2. fewer \in SUBSET before
  OBVIOUS
<1>3. Cardinality(fewer) <= Cardinality(before)
  <2> HIDE DEF fewer, before
  <2> QED
    BY <1>1, <1>2, FS_Subset
<1> QED
  BY <1>3 DEF Rank

\* What a snapshot lists, and what it shows of a path, when all data match.
LEMMA ListedRows ==
  ASSUME AlwaysMatches, TypeOK, Stamped(db), NEW g \in Targets
  PROVE  /\ Listed(g) = RowsOf(db, g)
         /\ Listed(g) \in SUBSET Paths
         /\ \A p \in Paths :
              Visible(g, p) = IF p \in TargetPaths[g] /\ Exists(db, p)
                              THEN db[p].stamp ELSE 0
         /\ \A p \in Paths :
              Visible(g, p) > 0 <=> p \in TargetPaths[g] /\ Exists(db, p)
<1>0. TargetPaths[g] \in SUBSET Paths
  BY ListenAssumption
<1>1. \A p \in Paths : Visible(g, p) = IF p \in TargetPaths[g] /\ Exists(db, p)
                                       THEN db[p].stamp ELSE 0
  BY DEF AlwaysMatches, Visible, Matches
<1>2. \A p \in Paths :
        Visible(g, p) > 0 <=> p \in TargetPaths[g] /\ Exists(db, p)
  <2> SUFFICES ASSUME NEW p \in Paths
               PROVE  Visible(g, p) > 0 <=> p \in TargetPaths[g] /\ Exists(db, p)
    OBVIOUS
  <2>1. CASE p \in TargetPaths[g] /\ Exists(db, p)
    <3>1. Visible(g, p) = db[p].stamp /\ db[p].stamp > 0
      BY <1>1, <2>1 DEF Stamped
    <3> QED
      BY <2>1, <3>1
  <2>2. CASE ~(p \in TargetPaths[g] /\ Exists(db, p))
    <3>1. Visible(g, p) = 0
      BY <1>1, <2>2
    <3>2. ~(Visible(g, p) > 0)
      BY <3>1
    <3> QED
      BY <2>2, <3>2
  <2> QED
    BY <2>1, <2>2
<1>3. Listed(g) = RowsOf(db, g)
  BY <1>0, <1>2 DEF Listed, Found, RowsOf
<1>4. Listed(g) \in SUBSET Paths
  BY <1>0 DEF Listed, Found
<1> QED
  BY <1>1, <1>2, <1>3, <1>4

-----------------------------------------------------------------------------
(***************************************************************************)
(* Events on their way, on the store's side.                               *)
(***************************************************************************)

\* A queue of events is taken from at its head and added to at its end.
LEMMA OnWayTail ==
  ASSUME NEW es \in Seq(Events), es # <<>>, NEW E, OnWay(es, E), Head(es) \notin E
  PROVE  OnWay(Tail(es), E) /\ Tail(es) # <<>>
<1>1. PICK i \in DOMAIN es : es[i] \in E
  BY DEF OnWay
<1>2. i \in 2 .. Len(es)
  BY <1>1
<1>3. i - 1 \in DOMAIN Tail(es) /\ Tail(es)[i - 1] = es[i]
  BY <1>2
<1> QED
  BY <1>1, <1>3 DEF OnWay

LEMMA OnWayAppend ==
  ASSUME NEW es \in Seq(Events), NEW e \in Events, NEW E,
         OnWay(es, E) \/ e \in E
  PROVE  OnWay(Append(es, e), E)
<1>1. CASE OnWay(es, E)
  <2>1. PICK i \in DOMAIN es : es[i] \in E
    BY <1>1 DEF OnWay
  <2>2. i \in DOMAIN Append(es, e) /\ Append(es, e)[i] = es[i]
    BY <2>1
  <2> QED
    BY <2>1, <2>2 DEF OnWay
<1>2. CASE e \in E
  <2>1. Len(es) + 1 \in DOMAIN Append(es, e) /\ Append(es, e)[Len(es) + 1] = e
    OBVIOUS
  <2> QED
    BY <1>2, <2>1 DEF OnWay
<1> QED
  BY <1>1, <1>2

LEMMA OnWayMore ==
  ASSUME NEW es, NEW E, NEW F, E \subseteq F, OnWay(es, E)
  PROVE  OnWay(es, F)
BY DEF OnWay

LEMMA NothingOnWay ==
  ASSUME NEW E
  PROVE  ~OnWay(<<>>, E)
BY DEF OnWay

\* What a step of the store does to the tables and to the events of them.
AnnouncedKept == \A E : Announced(E) => Announced(E)'
OutgoingKept == \A E : Outgoing(E) => Outgoing(E)'

Quiet == UNCHANGED <<db, work>> /\ OutgoingKept
Undone == UNCHANGED db /\ work' = db
WroteThrough(w, n) ==
  /\ work = db
  /\ db' = Apply(db, w, n)
  /\ work' = db'
  /\ Announced({EventOf(w)})'
WroteOpen(w, n) ==
  /\ UNCHANGED db
  /\ work' = Apply(work, w, n)
  /\ OutgoingKept
  /\ Outgoing({EventOf(w)})'
Committed ==
  /\ db' = work
  /\ UNCHANGED work
  /\ \A E : Outgoing(E) => Announced(E)'

Effect ==
  /\ AnnouncedKept
  /\ \/ Quiet
     \/ Undone
     \/ \E w \in Writes, n \in Nat \ {0} : WroteThrough(w, n) \/ WroteOpen(w, n)
     \/ Committed

\* A call that has nothing to announce takes no event with it.
LEMMA GotoKeeps ==
  ASSUME TypeOK, NEW c \in Calls, NEW state, Goto(c, state), UNCHANGED hub,
         ~At(c, "notify")
  PROVE  /\ AnnouncedKept
         /\ conn # c /\ UNCHANGED conn => OutgoingKept
         /\ conn = None => OutgoingKept
<1>1. \A d \in Calls : d # c => calls'[d] = calls[d]
  BY DEF Goto, TypeOK
<1>2. AnnouncedKept
  <2> SUFFICES ASSUME NEW E, Announced(E) PROVE Announced(E)'
    BY DEF AnnouncedKept
  <2>1. CASE OnWay(hub, E)
    BY <2>1 DEF Announced, OnWay
  <2>2. ASSUME NEW d \in Calls, At(d, "notify"), OnWay(calls[d].out, E)
        PROVE  Announced(E)'
    <3>1. calls'[d] = calls[d]
      BY <1>1, <2>2
    <3>2. At(d, "notify")' /\ OnWay(calls'[d].out, E)
      BY <2>2, <3>1 DEF At
    <3> QED
      BY <3>2 DEF Announced, OnWay
  <2> QED
    BY <2>1, <2>2 DEF Announced
<1>3. ASSUME conn # c, UNCHANGED conn PROVE OutgoingKept
  <2> SUFFICES ASSUME NEW E, Outgoing(E) PROVE Outgoing(E)'
    BY DEF OutgoingKept
  <2>1. CASE Announced(E)
    BY <1>2, <2>1 DEF AnnouncedKept, Outgoing
  <2>2. CASE conn # None /\ At(conn, "applying") /\ OnWay(calls[conn].out, E)
    <3>1. calls'[conn'] = calls[conn]
      BY <1>1, <1>3, <2>2 DEF TypeOK
    <3> QED
      BY <1>3, <2>2, <3>1 DEF Outgoing, At, OnWay
  <2> QED
    BY <2>1, <2>2 DEF Outgoing
<1>4. ASSUME conn = None PROVE OutgoingKept
  BY <1>2, <1>4 DEF AnnouncedKept, OutgoingKept, Outgoing
<1> QED
  BY <1>2, <1>3, <1>4

\* Sending into a channel with room only moves an event along.
LEMMA PushKeeps ==
  ASSUME TypeOK, HubHasRoom, NEW c \in Calls, NEW e \in Events, NEW state,
         Goto(c, state), hub' = Pushed(e), ~At(c, "notify")
  PROVE  /\ AnnouncedKept
         /\ Announced({e})'
<1>1. hub' = Append(hub, e) /\ hub \in Seq(Events)
  BY DEF Pushed, HubHasRoom, TypeOK
<1>2. \A E : OnWay(hub, E) \/ e \in E => OnWay(hub', E)
  BY <1>1, OnWayAppend
<1>3. \A d \in Calls : d # c => calls'[d] = calls[d]
  BY DEF Goto, TypeOK
<1>4. AnnouncedKept
  <2> SUFFICES ASSUME NEW E, Announced(E) PROVE Announced(E)'
    BY DEF AnnouncedKept
  <2>1. CASE OnWay(hub, E)
    BY <1>2, <2>1 DEF Announced, OnWay
  <2>2. ASSUME NEW d \in Calls, At(d, "notify"), OnWay(calls[d].out, E)
        PROVE  Announced(E)'
    <3>1. calls'[d] = calls[d]
      BY <1>3, <2>2
    <3>2. At(d, "notify")' /\ OnWay(calls'[d].out, E)
      BY <2>2, <3>1 DEF At
    <3> QED
      BY <3>2 DEF Announced, OnWay
  <2> QED
    BY <2>1, <2>2 DEF Announced
<1>5. OnWay(hub', {e})
  BY <1>2
<1> QED
  BY <1>4, <1>5 DEF Announced, OnWay

\* notifySubscribers takes the next event from the call to the channel.
LEMMA NotifyKeeps ==
  ASSUME TypeOK, HubHasRoom, NEW c \in Calls, Notify(c)
  PROVE  AnnouncedKept
<1> DEFINE out == calls[c].out
<1>1. out \in Seq(Events) /\ out # <<>>
  BY CallFields DEF Notify
<1>2. Head(out) \in Events
  BY <1>1
<1>3. hub' = Append(hub, Head(out)) /\ hub \in Seq(Events)
  BY DEF Notify, Pushed, HubHasRoom, TypeOK
<1>4. \A E : OnWay(hub, E) \/ Head(out) \in E => OnWay(hub', E)
  BY <1>2, <1>3, OnWayAppend
<1>5. \A d \in Calls : d # c => calls'[d] = calls[d]
  BY DEF Notify, Goto, TypeOK
<1>6. calls'[c] = Announcing(Tail(out))
  BY DEF Notify, Goto, TypeOK
<1> HIDE DEF out
<1> SUFFICES ASSUME NEW E, Announced(E) PROVE Announced(E)'
  BY DEF AnnouncedKept
<1>7. CASE OnWay(hub, E) \/ Head(out) \in E
  BY <1>4, <1>7 DEF Announced, OnWay
<1>8. ASSUME NEW d \in Calls, At(d, "notify"), OnWay(calls[d].out, E),
             Head(out) \notin E
      PROVE  Announced(E)'
  <2>1. CASE d # c
    <3>1. calls'[d] = calls[d]
      BY <1>5, <2>1
    <3>2. At(d, "notify")' /\ OnWay(calls'[d].out, E)
      BY <1>8, <3>1 DEF At
    <3> QED
      BY <3>2 DEF Announced, OnWay
  <2>2. CASE d = c
    <3>1. OnWay(out, E)
      BY <1>8, <2>2 DEF out
    <3>2. OnWay(Tail(out), E) /\ Tail(out) # <<>>
      BY <1>1, <1>8, <3>1, OnWayTail
    <3>3. calls'[c] = [at |-> "notify", out |-> Tail(out)]
      BY <1>6, <3>2 DEF Announcing
    <3>4. At(c, "notify")' /\ calls'[c].out = Tail(out)
      BY <3>3 DEF At
    <3> QED
      BY <3>2, <3>4 DEF Announced, OnWay
  <2> QED
    BY <2>1, <2>2
<1> QED
  BY <1>7, <1>8 DEF Announced

\* Every step of a handler or of the sweeper has one of these effects: an event
\* is announced with the write or waits in the open SQL transaction, and is
\* lost only with it.
LEMMA StoreEffect ==
  TypeOK /\ NoLeakedConnection /\ HubHasRoom /\ StoreNext => Effect
<1> SUFFICES ASSUME TypeOK, NoLeakedConnection, HubHasRoom, StoreNext
             PROVE  Effect
  OBVIOUS
<1> HIDE DEF AnnouncedKept, OutgoingKept
<1>1. ASSUME NEW c \in Calls, NEW state, Goto(c, state), ~At(c, "notify"),
             UNCHANGED <<db, work, hub>>, conn = None \/ (conn # c /\ UNCHANGED conn)
      PROVE  Effect
  BY <1>1, GotoKeeps DEF Effect, Quiet
<1>2. ASSUME NEW c \in Calls, calls[c].at \in {"batch", "applying"}
      PROVE  conn = c /\ conn # None /\ ~At(c, "notify")
  BY <1>2, ConstantsAssumption DEF NoLeakedConnection, At
<1>3. ASSUME NEW c \in Calls, ~(calls[c].at \in {"batch", "applying"})
      PROVE  conn # c
  BY <1>3 DEF NoLeakedConnection
<1>4. ASSUME NEW c \in Calls, Goto(c, Idle), ~At(c, "notify"), UNCHANGED hub,
             ReleaseUndone
      PROVE  Effect
  BY <1>4, GotoKeeps DEF ReleaseUndone, Effect, Undone
<1>5. ASSUME NEW c \in Calls, PlainWrite(c) PROVE Effect
  <2> PICK w \in Writes : w = calls[c].w
    BY <1>5, CallFields DEF PlainWrite
  <2>0. ~At(c, "notify") /\ conn = None /\ UNCHANGED hub
    BY <1>5 DEF PlainWrite, At
  <2>1. CASE Goto(c, Idle) /\ UNCHANGED <<db, work, stamps>>
    BY <1>1, <2>0, <2>1
  <2>2. CASE /\ ~(IsDelete(w) /\ ~Exists(db, w.path))
             /\ stamps' = NextStamp(w)
             /\ db' = Apply(db, w, stamps')
             /\ work' = db'
             /\ Goto(c, Announcing(<<EventOf(w)>>))
    <3>1. Announcing(<<EventOf(w)>>) = [at |-> "notify", out |-> <<EventOf(w)>>]
      BY DEF Announcing
    <3>2. calls'[c] = [at |-> "notify", out |-> <<EventOf(w)>>]
      BY <2>2, <3>1 DEF Goto, TypeOK
    <3>3. OnWay(<<EventOf(w)>>, {EventOf(w)})
      BY DEF OnWay
    <3>4. At(c, "notify")' /\ OnWay(calls'[c].out, {EventOf(w)})
      BY <3>2, <3>3 DEF At
    <3>5. Announced({EventOf(w)})'
      BY <3>4 DEF Announced, OnWay
    <3>6. AnnouncedKept
      BY <2>0, <2>2, GotoKeeps
    <3>7. \E n \in Nat \ {0} : db' = Apply(db, w, n)
      <4>1. CASE IsDelete(w)
        <5>1. db' = Apply(db, w, 1)
          BY <2>2, <4>1 DEF Apply
        <5> QED
          BY <5>1
      <4>2. CASE ~IsDelete(w)
        BY <2>2, <4>2 DEF NextStamp, TypeOK
      <4> QED
        BY <4>1, <4>2
    <3>8. work = db
      BY <2>0 DEF NoLeakedConnection
    <3>9. \E n \in Nat \ {0} : WroteThrough(w, n)
      BY <2>2, <3>5, <3>7, <3>8 DEF WroteThrough
    <3> QED
      BY <2>0, <3>6, <3>9 DEF Effect
  <2> QED
    BY <1>5, <2>1, <2>2 DEF PlainWrite
<1>6. ASSUME NEW c \in Calls, Notify(c) PROVE Effect
  <2>1. AnnouncedKept
    BY <1>6, NotifyKeeps
  <2>2. conn # c
    BY <1>6, <1>3 DEF Notify, At
  <2>3. OutgoingKept
    <3> SUFFICES ASSUME NEW E, Outgoing(E), ~Announced(E) PROVE Outgoing(E)'
      BY <2>1 DEF AnnouncedKept, OutgoingKept, Outgoing
    <3>1. conn # None /\ At(conn, "applying") /\ OnWay(calls[conn].out, E)
      BY DEF Outgoing
    <3>2. calls'[conn'] = calls[conn] /\ conn' = conn
      BY <1>6, <2>2, <3>1 DEF Notify, Goto, TypeOK, dbVars
    <3> QED
      BY <3>1, <3>2 DEF Outgoing, At, OnWay
  <2> QED
    BY <1>6, <2>1, <2>3 DEF Notify, dbVars, Effect, Quiet
<1>7. ASSUME NEW c \in Calls, BatchWrite(c) PROVE Effect
  <2> PICK w \in Writes : w = Head(calls[c].todo)
    BY <1>7, CallFields DEF BatchWrite
  <2>0. ~At(c, "notify") /\ conn = c /\ conn # None
    BY <1>7, <1>2 DEF BatchWrite, At
  <2>1. EventOf(w) \in Events
    BY <2>0, EventType
  <2>2. ~At(conn, "applying")
    BY <1>7, <2>0 DEF BatchWrite, At
  <2>3. ASSUME AnnouncedKept PROVE OutgoingKept
    BY <2>2, <2>3 DEF AnnouncedKept, OutgoingKept, Outgoing
  <2>4. CASE UNCHANGED <<work, hub, stamps>>
    <3>1. AnnouncedKept
      BY <1>7, <2>0, <2>4, GotoKeeps DEF BatchWrite
    <3> QED
      BY <1>7, <2>3, <2>4, <3>1 DEF BatchWrite, Effect, Quiet
  <2>5. CASE /\ stamps' = NextStamp(w)
             /\ work' = Apply(work, w, stamps')
             /\ hub' = Pushed(EventOf(w))
    <3>1. AnnouncedKept /\ Announced({EventOf(w)})'
      BY <1>7, <2>0, <2>1, <2>5, PushKeeps DEF BatchWrite
    <3>2. \E n \in Nat \ {0} : work' = Apply(work, w, n)
      <4>1. CASE IsDelete(w)
        <5>1. work' = Apply(work, w, 1)
          BY <2>5, <4>1 DEF Apply
        <5> QED
          BY <5>1
      <4>2. CASE ~IsDelete(w)
        BY <2>5, <4>2 DEF NextStamp, TypeOK
      <4> QED
        BY <4>1, <4>2
    <3>3. Outgoing({EventOf(w)})' /\ OutgoingKept
      BY <2>3, <3>1 DEF Outgoing
    <3>4. \E n \in Nat \ {0} : WroteOpen(w, n)
      BY <1>7, <3>2, <3>3 DEF WroteOpen, BatchWrite
    <3> QED
      BY <2>0, <3>1, <3>4 DEF Effect
  <2> QED
    BY <1>7, <2>4, <2>5 DEF BatchWrite
<1>8. ASSUME NEW c \in Calls, BatchFail(c) PROVE Effect
  BY <1>4, <1>8 DEF BatchFail, At
<1>9. ASSUME NEW c \in Calls, BatchCommit(c) PROVE Effect
  <2>1. ~At(c, "notify") /\ conn = c /\ ~At(conn, "applying")
    BY <1>9, <1>2 DEF BatchCommit, At
  <2>2. AnnouncedKept
    BY <1>9, <2>1, GotoKeeps DEF BatchCommit
  <2>3. \A E : Outgoing(E) => Announced(E)'
    BY <2>1, <2>2 DEF AnnouncedKept, Outgoing
  <2> QED
    BY <1>9, <2>2, <2>3 DEF BatchCommit, Effect, Committed
<1>10. ASSUME NEW c \in Calls, TxRecord(c) \/ CommitBegin(c) PROVE Effect
  <2>1. CASE TxRecord(c)
    BY <1>1, <2>1 DEF TxRecord, At, dbVars
  <2>2. CASE CommitBegin(c)
    BY <1>1, <2>2 DEF CommitBegin, At
  <2> QED
    BY <1>10, <2>1, <2>2
<1>11. ASSUME NEW c \in Calls, CommitWrite(c) PROVE Effect
  <2> PICK w \in Writes : w = Head(calls[c].todo)
    BY <1>11, CallFields DEF CommitWrite
  <2> DEFINE next == [calls[c] EXCEPT !.todo = Tail(@),
                                      !.out = Append(@, EventOf(w))]
  <2> PICK state : state = next
    OBVIOUS
  <2>0. ~At(c, "notify") /\ conn = c /\ conn # None
    BY <1>11, <1>2 DEF CommitWrite, At
  <2>1. EventOf(w) \in Events /\ calls[c].out \in Seq(Events)
    BY <1>11, <2>0, EventType, CallFields DEF CommitWrite
  <2>2. calls[c] \in [at : {"applying"}, tx : TxIds, reads : Table,
                      todo : Seq(Writes), out : Seq(Events)]
    BY <1>11 DEF CommitWrite, At, TypeOK, CallState, Idle
  <2>3. state.at = "applying" /\ state.out = Append(calls[c].out, EventOf(w))
    BY <2>2
  <2>4. Goto(c, state) /\ UNCHANGED <<db, hub, conn>> /\ stamps' = NextStamp(w)
        /\ work' = Apply(work, w, stamps')
    BY <1>11 DEF CommitWrite
  <2> HIDE DEF next
  <2>5. calls'[c] = state
    BY <2>4 DEF Goto, TypeOK
  <2>6. AnnouncedKept
    BY <2>0, <2>4, GotoKeeps
  <2>7. \A E : OnWay(calls[c].out, E) \/ EventOf(w) \in E => OnWay(state.out, E)
    BY <2>1, <2>3, OnWayAppend
  <2>8. \A E : OnWay(state.out, E) => Outgoing(E)'
    <3>1. At(conn, "applying")' /\ conn' # None /\ calls'[conn'].out = state.out
      BY <2>0, <2>3, <2>4, <2>5 DEF At
    <3> QED
      BY <3>1 DEF Outgoing, OnWay
  <2>9. OutgoingKept
    <3> SUFFICES ASSUME NEW E, Outgoing(E), ~Announced(E) PROVE Outgoing(E)'
      BY <2>6 DEF AnnouncedKept, OutgoingKept, Outgoing
    <3> QED
      BY <2>0, <2>7, <2>8 DEF Outgoing
  <2>10. Outgoing({EventOf(w)})'
    <3>1. OnWay(state.out, {EventOf(w)})
      BY <2>7
    <3> QED
      BY <3>1, <2>8 DEF Outgoing, Announced, OnWay
  <2>11. \E n \in Nat \ {0} : work' = Apply(work, w, n)
    <3>1. CASE IsDelete(w)
      <4>1. work' = Apply(work, w, 1)
        BY <2>4, <3>1 DEF Apply
      <4> QED
        BY <4>1
    <3>2. CASE ~IsDelete(w)
      BY <2>4, <3>2 DEF NextStamp, TypeOK
    <3> QED
      BY <3>1, <3>2
  <2>12. \E n \in Nat \ {0} : WroteOpen(w, n)
    BY <2>4, <2>9, <2>10, <2>11 DEF WroteOpen
  <2> QED
    BY <2>0, <2>6, <2>12 DEF Effect
<1>12. ASSUME NEW c \in Calls, CommitFinish(c) PROVE Effect
  <2>1. ~At(c, "notify") /\ conn = c
    BY <1>12, <1>2 DEF CommitFinish, At
  <2>2. AnnouncedKept
    BY <1>12, <2>1, GotoKeeps DEF CommitFinish
  <2>3. ASSUME NEW E, OnWay(calls[c].out, E) PROVE Announced(E)'
    <3>1. calls[c].out # <<>>
      BY <2>3, NothingOnWay
    <3>2. calls'[c] = [at |-> "notify", out |-> calls[c].out]
      BY <1>12, <3>1 DEF CommitFinish, Goto, Announcing, TypeOK
    <3>3. At(c, "notify")' /\ calls'[c].out = calls[c].out
      BY <3>2 DEF At
    <3> QED
      BY <2>3, <3>3 DEF Announced, OnWay
  <2>4. \A E : Outgoing(E) => Announced(E)'
    BY <2>1, <2>2, <2>3 DEF AnnouncedKept, Outgoing
  <2> QED
    BY <1>12, <2>2, <2>4 DEF CommitFinish, Effect, Committed
<1>13. ASSUME NEW c \in Calls, ClientStep(c) PROVE Effect
  <2>1. ASSUME NEW w \in RpcWrites, RpcWrite(c, w) \/ RpcMaskedWrite(c, w)
        PROVE  Effect
    <3>1. At(c, "idle") /\ ~At(c, "notify") /\ conn # c
      BY <2>1, <1>3 DEF RpcWrite, RpcMaskedWrite, At
    <3> QED
      BY <1>1, <2>1, <3>1 DEF RpcWrite, RpcMaskedWrite, dbVars
  <2>2. ASSUME NEW ws \in Batches, BatchBegin(c, ws) PROVE Effect
    BY <1>1, <2>2 DEF BatchBegin, At
  <2>3. ASSUME NEW t \in TxIds, NEW p \in Paths, TxRead(c, t, p) PROVE Effect
    <3>1. CASE UNCHANGED calls
      <4>1. UNCHANGED <<db, work, hub, conn, calls>>
        BY <2>3, <3>1 DEF TxRead, dbVars
      <4> QED
        BY <4>1 DEF Effect, Quiet, AnnouncedKept, OutgoingKept, Outgoing,
                    Announced, OnWay, At
    <3>2. CASE Goto(c, [at |-> "record", tx |-> t, path |-> p, row |-> db[p]])
      BY <1>1, <2>3, <3>2 DEF TxRead, At, dbVars
    <3> QED
      BY <2>3, <3>1, <3>2 DEF TxRead
  <2>4. ASSUME NEW t \in TxIds, NEW ops \in TxOps, CommitLoad(c, t, ops)
        PROVE  Effect
    BY <1>1, <2>4 DEF CommitLoad, At, dbVars
  <2>5. CASE CancelCall(c)
    <3>1. CASE conn = c
      BY <1>4, <2>5, <3>1 DEF CancelCall, At
    <3>2. CASE conn # c
      BY <1>1, <2>5, <3>2 DEF CancelCall, dbVars, At
    <3> QED
      BY <3>1, <3>2
  <2> QED
    BY <1>13, <2>1, <2>2, <2>3, <2>4, <2>5 DEF ClientStep
<1>14. CASE (\E t \in TxIds : TxStep(t)) \/ SweepExpiredTransactions
  <2>1. UNCHANGED <<db, work, hub, conn, calls>>
    BY <1>14 DEF TxStep, BeginTransaction, RollbackTransaction, Expire,
                 SweepExpiredTransactions, dbVars
  <2> QED
    BY <2>1 DEF Effect, Quiet, AnnouncedKept, OutgoingKept, Outgoing, Announced,
                OnWay, At
<1> QED
  BY <1>5, <1>6, <1>7, <1>8, <1>9, <1>10, <1>11, <1>12, <1>13, <1>14
     DEF StoreNext, CallStep

-----------------------------------------------------------------------------
(***************************************************************************)
(* Events on their way, on the side of the registry and the handlers.      *)
(***************************************************************************)

\* Announcements are the store's; what comes to a stream is its own and the
\* dispatcher's.
LEMMA AnnouncedSame ==
  ASSUME NEW E, Announced(E), UNCHANGED <<calls, hub>>
  PROVE  Announced(E)'
BY DEF Announced, OnWay, At

LEMMA ComingSame ==
  ASSUME NEW s \in Streams, NEW g, NEW E, Coming(s, g, E), UNCHANGED disp,
         ch'[s] = ch[s], overflowed'[s] = overflowed[s], strm'[s] = strm[s]
  PROVE  Coming(s, g, E)'
BY DEF Coming, OnWay

\* The dispatcher takes every change to every stream that is subscribed, or
\* raises the stream's flag.
LEMMA DispatchCarries ==
  ASSUME TypeOK, HandlerTypes, NEW s \in Streams, Subscribed(s), NEW g,
         NEW E \in SUBSET Events, DispatchStep, Announced(E) \/ Coming(s, g, E)
  PROVE  Announced(E)' \/ Coming(s, g, E)'
<1>0. disp.at = "resting" => disp = Resting
  BY DEF HandlerTypes, DispatcherState
<1>1. CASE DispatchBegin
  <2>1. /\ hub \in Seq(Events) /\ hub # <<>> /\ hub' = Tail(hub)
        /\ UNCHANGED <<calls, ch, overflowed, strm>>
        /\ disp' = StillOffering(Head(hub), {u \in Streams : Subscribed(u)})
    BY <1>1 DEF DispatchBegin, TakeChange, handlerVars, TypeOK
  <2>2. disp' = [at |-> "offering", event |-> Head(hub),
                 todo |-> {u \in Streams : Subscribed(u)}]
    BY <2>1 DEF StillOffering
  <2>3. disp'.at # "resting" /\ disp'.event = Head(hub) /\ s \in disp'.todo
    BY <2>2
  <2>4. CASE OnWay(hub, E)
    <3>1. CASE Head(hub) \in E
      BY <2>3, <3>1 DEF Coming
    <3>2. CASE Head(hub) \notin E
      <4>1. OnWay(hub', E)
        BY <2>1, <2>4, <3>2, OnWayTail
      <4> QED
        BY <4>1 DEF Announced, OnWay
    <3> QED
      BY <3>1, <3>2
  <2>5. ASSUME NEW c \in Calls, At(c, "notify") /\ OnWay(calls[c].out, E)
        PROVE  Announced(E)'
    BY <2>1, <2>5 DEF Announced, OnWay, At
  <2>6. CASE Coming(s, g, E)
    <3>1. disp.at = "resting"
      BY <1>1 DEF DispatchBegin, Resting
    <3>2. \/ OnWay(ch[s], E)
          \/ overflowed[s]
          \/ strm[s].at = "check" /\ strm[s].event \in E
          \/ strm[s].at = "fanout" /\ strm[s].event \in E /\ g \in strm[s].todo
      BY <2>6, <3>1 DEF Coming
    <3> QED
      BY <2>1, <3>2 DEF Coming, OnWay
  <2> QED
    BY <2>4, <2>5, <2>6 DEF Announced
<1>2. ASSUME NEW u \in Streams, DispatchOffer(u)
      PROVE  Announced(E)' \/ Coming(s, g, E)'
  <2>1. /\ disp.at = "offering" /\ u \in disp.todo /\ disp.event \in Events
        /\ ch \in [Streams -> Seq(Events)]
        /\ UNCHANGED <<calls, hub, overflowed, strm>>
    BY <1>2 DEF DispatchOffer, vars, handlerVars, HandlerTypes, DispatcherState,
                Resting
  <2>2. CASE Announced(E)
    BY <2>1, <2>2, AnnouncedSame
  <2>3. CASE \/ overflowed[s]
             \/ strm[s].at = "check" /\ strm[s].event \in E
             \/ strm[s].at = "fanout" /\ strm[s].event \in E /\ g \in strm[s].todo
    BY <2>1, <2>3 DEF Coming
  <2>4. CASE /\ ch' = [ch EXCEPT ![u] = Append(@, disp.event)]
             /\ disp' = StillOffering(disp.event, disp.todo \ {u})
    <3>1. PICK e \in Events : e = disp.event
      BY <2>1
    <3>2. \A F : OnWay(ch[u], F) \/ e \in F => OnWay(Append(ch[u], e), F)
      BY <2>1, OnWayAppend
    <3>3. OnWay(ch[s], E) => OnWay(ch'[s], E)
      BY <2>1, <2>4, <3>1, <3>2
    <3>4. CASE e \in E /\ s \in disp.todo
      <4>1. CASE u = s
        <5>1. OnWay(ch'[s], E)
          BY <2>1, <2>4, <3>1, <3>2, <3>4, <4>1
        <5> QED
          BY <5>1 DEF Coming, OnWay
      <4>2. CASE u # s
        <5>1. disp' = [at |-> "offering", event |-> e, todo |-> disp.todo \ {u}]
          BY <2>4, <3>1, <3>4, <4>2 DEF StillOffering
        <5>2. disp'.at # "resting" /\ disp'.event = e /\ s \in disp'.todo
          BY <3>4, <4>2, <5>1
        <5> QED
          BY <3>4, <5>2 DEF Coming
      <4> QED
        BY <4>1, <4>2
    <3>5. CASE OnWay(ch[s], E)
      BY <3>3, <3>5 DEF Coming, OnWay
    <3> QED
      BY <2>1, <2>2, <2>3, <3>1, <3>4, <3>5 DEF Coming
  <2>5. CASE /\ disp' = [at |-> "raising", event |-> disp.event,
                         todo |-> disp.todo \ {u}, stream |-> u]
             /\ UNCHANGED ch
    <3>1. /\ disp'.at = "raising" /\ disp'.event = disp.event
          /\ disp'.todo = disp.todo \ {u} /\ disp'.stream = u
      BY <2>5
    <3>2. CASE disp.event \in E /\ s \in disp.todo
      BY <3>1, <3>2 DEF Coming
    <3>3. CASE OnWay(ch[s], E)
      BY <2>5, <3>3 DEF Coming, OnWay
    <3> QED
      BY <2>1, <2>2, <2>3, <3>2, <3>3 DEF Coming
  <2> QED
    BY <1>2, <2>4, <2>5 DEF DispatchOffer
<1>3. CASE DispatchRaise
  <2>1. /\ disp.at = "raising" /\ disp.stream \in Streams
        /\ overflowed \in [Streams -> BOOLEAN]
        /\ overflowed' = [overflowed EXCEPT ![disp.stream] = TRUE]
        /\ disp' = StillOffering(disp.event, disp.todo)
        /\ UNCHANGED <<calls, hub, ch, strm>>
    BY <1>3 DEF DispatchRaise, vars, handlerVars, HandlerTypes, DispatcherState,
                Resting
  <2>2. CASE Announced(E)
    BY <2>1, <2>2, AnnouncedSame
  <2>3. CASE disp.event \in E /\ s \in disp.todo
    <3>1. disp' = [at |-> "offering", event |-> disp.event, todo |-> disp.todo]
      BY <2>1, <2>3 DEF StillOffering
    <3>2. disp'.at # "resting" /\ disp'.event = disp.event /\ s \in disp'.todo
      BY <2>3, <3>1
    <3> QED
      BY <2>3, <3>2 DEF Coming
  <2>4. CASE disp.stream = s \/ overflowed[s]
    BY <2>1, <2>4 DEF Coming
  <2>5. CASE \/ OnWay(ch[s], E)
             \/ strm[s].at = "check" /\ strm[s].event \in E
             \/ strm[s].at = "fanout" /\ strm[s].event \in E /\ g \in strm[s].todo
    BY <2>1, <2>5 DEF Coming, OnWay
  <2> QED
    BY <2>2, <2>3, <2>4, <2>5 DEF Coming
<1> QED
  BY <1>1, <1>2, <1>3 DEF DispatchStep

\* A step of one stream is its own business.
LEMMA StreamsApart ==
  ASSUME HandlerTypes, NEW s \in Streams, NEW u \in Streams,
         HandlerStep(u) \/ StreamStep(u)
  PROVE  /\ UNCHANGED <<vars, disp>>
         /\ u # s => /\ ch'[s] = ch[s] /\ overflowed'[s] = overflowed[s]
                     /\ strm'[s] = strm[s] /\ targets'[s] = targets[s]
                     /\ view'[s] = view[s]
<1> USE DEF HandlerTypes
<1>1. CASE SnapshotStep(u)
  BY <1>1 DEF SnapshotStep
<1>2. CASE ReceiveChange(u) \/ CheckOverflow(u)
  BY <1>2 DEF ReceiveChange, CheckOverflow
<1>3. ASSUME NEW h \in Targets, FanOut(u, h) \/ AddTarget(u, h) \/ RemoveTarget(u, h)
      PROVE  /\ UNCHANGED <<vars, disp>>
             /\ u # s => /\ ch'[s] = ch[s] /\ overflowed'[s] = overflowed[s]
                         /\ strm'[s] = strm[s] /\ targets'[s] = targets[s]
                         /\ view'[s] = view[s]
  BY <1>3 DEF FanOut, AddTarget, RemoveTarget
<1>4. CASE OpenStream(u) \/ HandlerReturns(u) \/ Cancel(u)
  BY <1>4 DEF OpenStream, HandlerReturns, Cancel
<1> QED
  BY <1>1, <1>2, <1>3, <1>4 DEF HandlerStep, StreamStep

\* A handler keeps what comes to one of its targets until it delivers it or
\* starts all over; if it returns, the targets go with it.
LEMMA HandlerCarries ==
  ASSUME HandlerTypes, NEW s \in Streams, Open(s), NEW g \in targets[s],
         NEW E \in SUBSET Events, \A e \in E : e.path \in TargetPaths[g],
         HandlerStep(s) \/ StreamStep(s), Coming(s, g, E)
  PROVE  \/ Coming(s, g, E)'
         \/ targets'[s] = {}
         \/ CheckOverflow(s) /\ overflowed[s]
         \/ FanOut(s, g) /\ strm[s].event \in E
<1> DEFINE Goal == \/ Coming(s, g, E)'
                   \/ targets'[s] = {}
                   \/ CheckOverflow(s) /\ overflowed[s]
                   \/ FanOut(s, g) /\ strm[s].event \in E
<1> SUFFICES Goal
  OBVIOUS
<1>0. UNCHANGED disp
  BY StreamsApart
<1>a. /\ Select.at = "select" /\ Closed.at = "closed" /\ Leaving.at = "leaving"
  BY DEF Select, Closed, Leaving
<1>b. /\ strm \in [Streams -> StreamState] /\ ch \in [Streams -> Seq(Events)]
      /\ targets \in [Streams -> SUBSET Targets]
      /\ overflowed \in [Streams -> BOOLEAN]
  BY DEF HandlerTypes
<1>1. ASSUME UNCHANGED <<ch, overflowed>>,
             strm[s].at \notin {"check", "fanout"}
      PROVE  Goal
  BY <1>0, <1>1 DEF Coming, OnWay
<1>2. CASE SnapshotStep(s)
  BY <1>1, <1>2 DEF SnapshotStep
<1>3. CASE ReceiveChange(s)
  <2>1. /\ strm[s].at = "select" /\ ch[s] # <<>> /\ ch'[s] = Tail(ch[s])
        /\ strm'[s] = [at |-> "check", event |-> Head(ch[s])]
        /\ UNCHANGED overflowed
    BY <1>a, <1>b, <1>3 DEF ReceiveChange
  <2>2. CASE OnWay(ch[s], E)
    <3>1. CASE Head(ch[s]) \in E
      BY <2>1, <3>1 DEF Coming
    <3>2. CASE Head(ch[s]) \notin E
      <4>1. OnWay(ch'[s], E)
        BY <1>b, <2>1, <2>2, <3>2, OnWayTail
      <4> QED
        BY <4>1 DEF Coming, OnWay
    <3> QED
      BY <3>1, <3>2
  <2>3. CASE ~OnWay(ch[s], E)
    BY <1>0, <2>1, <2>3 DEF Coming
  <2> QED
    BY <2>2, <2>3
<1>4. CASE CheckOverflow(s)
  <2>1. SUFFICES ASSUME ~overflowed[s] PROVE Goal
    BY <1>4
  <2> DEFINE covers == {h \in targets[s] : strm[s].event.path \in TargetPaths[h]}
  <2>2. /\ strm[s].at = "check" /\ UNCHANGED ch
        /\ strm'[s] = IF covers = {} THEN Select
                      ELSE [at |-> "fanout", event |-> strm[s].event,
                            todo |-> covers]
    BY <1>b, <1>4, <2>1 DEF CheckOverflow
  <2>3. CASE strm[s].event \in E
    <3>1. g \in covers
      BY <2>3
    <3>2. strm'[s] = [at |-> "fanout", event |-> strm[s].event, todo |-> covers]
      BY <2>2, <3>1
    <3>3. /\ strm'[s].at = "fanout" /\ strm'[s].event = strm[s].event
          /\ strm'[s].todo = covers
      BY <3>2
    <3> QED
      BY <2>3, <3>1, <3>3 DEF Coming
  <2>4. CASE strm[s].event \notin E
    BY <1>0, <2>1, <2>2, <2>4 DEF Coming, OnWay
  <2> QED
    BY <2>3, <2>4
<1>5. ASSUME NEW h \in Targets, FanOut(s, h) PROVE Goal
  <2>1. SUFFICES ASSUME ~(h = g /\ strm[s].event \in E) PROVE Goal
    BY <1>5
  <2> DEFINE left == strm[s].todo \ {h}
  <2>2. /\ strm[s].at = "fanout" /\ UNCHANGED <<ch, overflowed>>
        /\ strm'[s] = IF left = {} THEN Select
                      ELSE [at |-> "fanout", event |-> strm[s].event,
                            todo |-> left]
    BY <1>b, <1>5 DEF FanOut
  <2>3. CASE strm[s].event \in E /\ g \in strm[s].todo
    <3>1. g \in left
      BY <2>1, <2>3
    <3>2. strm'[s] = [at |-> "fanout", event |-> strm[s].event, todo |-> left]
      BY <2>2, <3>1
    <3>3. /\ strm'[s].at = "fanout" /\ strm'[s].event = strm[s].event
          /\ strm'[s].todo = left
      BY <3>2
    <3> QED
      BY <2>3, <3>1, <3>3 DEF Coming
  <2>4. CASE ~(strm[s].event \in E /\ g \in strm[s].todo)
    BY <1>0, <2>2, <2>4 DEF Coming, OnWay
  <2> QED
    BY <2>3, <2>4
<1>6. CASE OpenStream(s) \/ Cancel(s)
  BY <1>6 DEF OpenStream, Cancel, Open
<1>7. CASE HandlerReturns(s)
  BY <1>b, <1>7 DEF HandlerReturns
<1>8. ASSUME NEW h \in Targets, AddTarget(s, h) \/ RemoveTarget(s, h) PROVE Goal
  BY <1>a, <1>1, <1>8 DEF AddTarget, RemoveTarget
<1> HIDE DEF Goal
<1> QED
  BY <1>2, <1>3, <1>4, <1>5, <1>6, <1>7, <1>8 DEF HandlerStep, StreamStep

\* A client goes when its handler returns, and comes with no target.
LEMMA OwnedStep ==
  HandlerTypes /\ ViewsOwned /\ [ListenNext]_allVars => ViewsOwned'
<1> SUFFICES ASSUME HandlerTypes, ViewsOwned, [ListenNext]_allVars,
                    NEW s \in Streams, ~Open(s)'
             PROVE  targets'[s] = {}
  BY DEF ViewsOwned
<1>a. /\ strm \in [Streams -> StreamState]
      /\ targets \in [Streams -> SUBSET Targets]
  BY DEF HandlerTypes
<1>b. /\ Select.at = "select" /\ Closed.at = "closed" /\ Leaving.at = "leaving"
  BY DEF Select, Closed, Leaving
<1>1. ASSUME strm'[s] = strm[s], targets'[s] = targets[s] PROVE targets'[s] = {}
  BY <1>1 DEF ViewsOwned, Open
<1>2. CASE UNCHANGED <<strm, targets>>
  BY <1>1, <1>2
<1>3. ASSUME NEW u \in Streams, HandlerStep(u) \/ StreamStep(u), u # s
      PROVE  targets'[s] = {}
  BY <1>1, <1>3, StreamsApart
<1>4. ASSUME HandlerStep(s) \/ StreamStep(s) PROVE targets'[s] = {}
  <2>1. CASE HandlerStep(s)
    <3>0. strm'[s].at \notin {"closed", "leaving"} => Open(s)'
      BY <1>b DEF Open
    <3>1. \A e, todo : (IF todo = {} THEN Select
                        ELSE [at |-> "fanout", event |-> e, todo |-> todo]).at
                          \notin {"closed", "leaving"}
      BY <1>b
    <3>2. \A todo : \A next \in AfterSnapshot(todo) :
            next.at \notin {"closed", "leaving"}
      BY <1>b DEF AfterSnapshot
    <3>3. CASE SnapshotStep(s)
      <4>1. strm[s] \in [at : {"snapshot"}, target : Targets, offset : Nat,
                         todo : SUBSET Targets]
        BY <1>a, <3>3 DEF SnapshotStep, StreamState, Closed, Select, Leaving
      <4>2. \A n : [strm[s] EXCEPT !.offset = n].at = "snapshot"
        BY <4>1
      <4>3. ASSUME NEW n, strm' = [strm EXCEPT ![s].offset = n] PROVE Open(s)'
        BY <1>a, <3>0, <4>2, <4>3
      <4>4. ASSUME NEW next \in AfterSnapshot(strm[s].todo),
                   strm' = [strm EXCEPT ![s] = next]
            PROVE  Open(s)'
        BY <1>a, <3>0, <3>2, <4>4
      <4> QED
        BY <3>3, <4>3, <4>4 DEF SnapshotStep
    <3>4. CASE ReceiveChange(s)
      BY <1>a, <3>0, <3>4 DEF ReceiveChange
    <3>5. CASE CheckOverflow(s)
      <4>1. CASE overflowed[s]
        BY <1>a, <3>0, <3>2, <3>5, <4>1 DEF CheckOverflow
      <4>2. CASE ~overflowed[s]
        <5>1. strm'[s].at \notin {"closed", "leaving"}
          <6> DEFINE covers == {g \in targets[s] : strm[s].event.path \in TargetPaths[g]}
                     next == IF covers = {} THEN Select
                             ELSE [at |-> "fanout", event |-> strm[s].event, todo |-> covers]
          <6>1. strm' = [strm EXCEPT ![s] = next]
            BY <3>5, <4>2 DEF CheckOverflow
          <6>2. next.at \notin {"closed", "leaving"}
            BY <3>1
          <6> HIDE DEF next
          <6> QED
            BY <1>a, <6>1, <6>2
        <5> QED
          BY <3>0, <5>1
      <4> QED
        BY <4>1, <4>2
    <3>6. ASSUME NEW g \in Targets, FanOut(s, g) PROVE Open(s)'
      BY <1>a, <3>0, <3>1, <3>6 DEF FanOut
    <3> QED
      BY <2>1, <3>3, <3>4, <3>5, <3>6 DEF HandlerStep
  <2>2. CASE OpenStream(s)
    BY <1>a, <1>b, <2>2 DEF OpenStream, Open
  <2>3. CASE HandlerReturns(s)
    BY <1>a, <2>3 DEF HandlerReturns
  <2>4. CASE Cancel(s)
    BY <2>4 DEF Cancel, ViewsOwned, Open
  <2>5. ASSUME NEW g \in Targets, AddTarget(s, g) \/ RemoveTarget(s, g)
        PROVE  Open(s)'
    BY <1>a, <1>b, <2>5 DEF AddTarget, RemoveTarget, Open
  <2> QED
    BY <1>4, <2>1, <2>2, <2>3, <2>4, <2>5 DEF StreamStep
<1>5. CASE DispatchStep
  BY <1>2, <1>5 DEF DispatchStep, DispatchBegin, DispatchOffer, DispatchRaise,
                    handlerVars
<1>6. CASE UNCHANGED listenVars
  BY <1>2, <1>6 DEF listenVars
<1> QED
  BY <1>3, <1>4, <1>5, <1>6 DEF ListenNext, allVars

-----------------------------------------------------------------------------
(***************************************************************************)
(* Removals arrive.                                                        *)
(***************************************************************************)

\* A write takes a row away only if it is a delete of it, and names the data
\* of the rows it leaves.
LEMMA ApplyExists ==
  ASSUME NEW tbl \in Table, NEW w \in Writes, NEW n \in Nat \ {0}, NEW p \in Paths
  PROVE  /\ Exists(tbl, p) => \/ Exists(Apply(tbl, w, n), p)
                              \/ EventOf(w) = Deletion(p)
         /\ Stamped(tbl) => Stamped(Apply(tbl, w, n))
         /\ w.path # p => Apply(tbl, w, n)[p] = tbl[p]
         /\ w.path = p /\ ~IsDelete(w) => /\ Exists(Apply(tbl, w, n), p)
                                          /\ Apply(tbl, w, n)[p].stamp = n
<1>0. w.path \in Paths
  BY DEF Writes
<1>1. \A q \in Paths : tbl[q].version \in Nat
  BY DEF Table, Row
<1>2. \A q \in Paths : Apply(tbl, w, n)[q] =
        IF q # w.path THEN tbl[q]
        ELSE IF IsDelete(w) THEN Drop(tbl[q]) ELSE Put(tbl[q], n)
  BY <1>0 DEF Apply, Table
<1>3. \A q \in Paths : /\ Drop(tbl[q]).version = 0
                       /\ Put(tbl[q], n).version = tbl[q].version + 1
                       /\ Put(tbl[q], n).stamp = n
  BY <1>1 DEF Drop, Put
<1>4. IsDelete(w) => EventOf(w) = Deletion(w.path)
  BY DEF EventOf, Deletion
<1>5. Stamped(tbl) => Stamped(Apply(tbl, w, n))
  <2> SUFFICES ASSUME Stamped(tbl), NEW q \in Paths, Exists(Apply(tbl, w, n), q)
               PROVE  Apply(tbl, w, n)[q].stamp > 0
    BY DEF Stamped
  <2>1. CASE q # w.path
    <3>1. Apply(tbl, w, n)[q] = tbl[q]
      BY <1>2, <2>1
    <3> QED
      BY <3>1 DEF Stamped, Exists
  <2>2. CASE q = w.path
    <3>1. CASE IsDelete(w)
      <4>1. Apply(tbl, w, n)[q].version = 0
        BY <1>2, <1>3, <2>2, <3>1
      <4> QED
        BY <4>1 DEF Exists
    <3>2. CASE ~IsDelete(w)
      <4>1. Apply(tbl, w, n)[q].stamp = n
        BY <1>2, <1>3, <2>2, <3>2
      <4> QED
        BY <4>1
    <3> QED
      BY <3>1, <3>2
  <2> QED
    BY <2>1, <2>2
<1>6. ASSUME w.path = p, ~IsDelete(w)
      PROVE  Exists(Apply(tbl, w, n), p) /\ Apply(tbl, w, n)[p].stamp = n
  <2>1. Apply(tbl, w, n)[p] = Put(tbl[p], n)
    BY <1>2, <1>6
  <2>2. tbl[p].version + 1 > 0
    BY <1>1
  <2> QED
    BY <1>3, <2>1, <2>2 DEF Exists
<1>7. ASSUME w.path # p PROVE Apply(tbl, w, n)[p] = tbl[p]
  BY <1>2, <1>7
<1> QED
  BY <1>4, <1>5, <1>6, <1>7 DEF Exists

\* No row is ever left without data.
LEMMA StampedStep ==
  ASSUME TypeOK, Stamped(db), Stamped(work), Effect
  PROVE  Stamped(db)' /\ Stamped(work)'
<1>0. db \in Table /\ work \in Table
  BY DEF TypeOK
<1>1. ASSUME NEW tbl, Stamped(tbl), db' = tbl PROVE Stamped(db)'
  BY <1>1 DEF Stamped, Exists
<1>2. ASSUME NEW tbl, Stamped(tbl), work' = tbl PROVE Stamped(work)'
  BY <1>2 DEF Stamped, Exists
<1>3. CASE Quiet \/ Undone \/ Committed
  BY <1>1, <1>2, <1>3 DEF Quiet, Undone, Committed
<1>4. ASSUME NEW w \in Writes, NEW n \in Nat \ {0},
             WroteThrough(w, n) \/ WroteOpen(w, n)
      PROVE  Stamped(db)' /\ Stamped(work)'
  <2>1. \A p \in Paths : /\ Stamped(Apply(db, w, n))
                         /\ Stamped(Apply(work, w, n))
    BY <1>0, ApplyExists
  <2>2. CASE Paths = {}
    BY <2>2 DEF Stamped
  <2>3. CASE Paths # {}
    BY <1>1, <1>2, <1>4, <2>1, <2>3 DEF WroteThrough, WroteOpen
  <2> QED
    BY <2>2, <2>3
<1> QED
  BY <1>3, <1>4 DEF Effect

\* A client comes to hold a document only by a read of it while no SQL
\* transaction is open, and loses it when its deletion is delivered.
LEMMA ViewGains ==
  ASSUME HandlerTypes, NEW s \in Streams, NEW g \in targets'[s], NEW p \in Paths,
         HandlerStep(s) \/ StreamStep(s), view'[s][g][p] > 0
  PROVE  \/ /\ g \in targets[s]
            /\ view[s][g][p] > 0
            /\ ~(CheckOverflow(s) /\ overflowed[s])
            /\ ~(FanOut(s, g) /\ strm[s].event = Deletion(p))
         \/ Visible(g, p) > 0 /\ conn = None
<1> DEFINE Goal == \/ /\ g \in targets[s]
                      /\ view[s][g][p] > 0
                      /\ ~(CheckOverflow(s) /\ overflowed[s])
                      /\ ~(FanOut(s, g) /\ strm[s].event = Deletion(p))
                   \/ Visible(g, p) > 0 /\ conn = None
<1> SUFFICES Goal
  OBVIOUS
<1>a. /\ strm \in [Streams -> StreamState]
      /\ targets \in [Streams -> SUBSET Targets]
      /\ view \in [Streams -> [Targets -> [Paths -> Nat]]]
  BY DEF HandlerTypes
<1>b. NoDocs \in [Targets -> [Paths -> Nat]] /\ \A h \in Targets : NoDocs[h][p] = 0
  BY DEF NoDocs
<1>c. ~(0 > 0)
  OBVIOUS
<1>d. Select.at = "select"
  BY DEF Select
<1>e. g \in Targets
  BY DEF StreamStep, HandlerStep, OpenStream,
     HandlerReturns, Cancel, AddTarget, RemoveTarget, SnapshotStep,
     ReceiveChange, CheckOverflow, FanOut, HandlerTypes
<1>1. ASSUME targets'[s] = targets[s], view'[s][g][p] = view[s][g][p],
             strm[s].at \notin {"check", "fanout"}
      PROVE  Goal
  BY <1>1 DEF CheckOverflow, FanOut
<1>2. CASE SnapshotStep(s)
  <2> DEFINE h == strm[s].target
             from == strm[s].offset
             rows == Listed(h)
             to == from + (IF h \in QueryTargets THEN PageSize ELSE 1)
             read == {q \in rows : from < Rank(rows, q) /\ Rank(rows, q) <= to}
             docs == [q \in Paths |-> IF q \in read /\ Visible(h, q) > 0
                                      THEN Visible(h, q) ELSE view[s][h][q]]
  <2>1. h \in Targets
    BY <1>a, <1>2, StreamFields DEF SnapshotStep
  <2>2. view' = [view EXCEPT ![s][h] = docs]
    BY <1>2, <2>1 DEF SnapshotStep
  <2>3. docs[p] = view[s][h][p] \/ docs[p] = Visible(h, p)
    OBVIOUS
  <2>4. /\ targets' = targets /\ conn = None /\ strm[s].at = "snapshot"
    BY <1>2 DEF SnapshotStep
  <2> HIDE DEF docs, h
  <2>5. view'[s][g][p] = IF g = h THEN docs[p] ELSE view[s][g][p]
    BY <1>a, <1>e, <2>1, <2>2
  <2> QED
    BY <1>1, <2>3, <2>4, <2>5
<1>3. CASE ReceiveChange(s)
  BY <1>1, <1>3, <1>d DEF ReceiveChange
<1>4. CASE CheckOverflow(s)
  <2>1. CASE overflowed[s]
    <3>1. view'[s] = NoDocs
      BY <1>a, <1>4, <2>1 DEF CheckOverflow
    <3> QED
      BY <1>b, <1>c, <1>e, <3>1
  <2>2. CASE ~overflowed[s]
    BY <1>4, <2>2 DEF CheckOverflow, FanOut
  <2> QED
    BY <2>1, <2>2
<1>5. ASSUME NEW h \in Targets, FanOut(s, h) PROVE Goal
  <2> DEFINE e == strm[s].event
  <2>0. /\ strm[s].at = "fanout" /\ targets' = targets
        /\ e \in Events /\ e.path \in Paths
    BY <1>a, <1>5, StreamFields DEF FanOut, Events
  <2>1. ~CheckOverflow(s)
    BY <2>0 DEF CheckOverflow
  <2>2. ~(FanOut(s, g) /\ e = Deletion(p))
    <3> SUFFICES ASSUME FanOut(s, g), e = Deletion(p) PROVE FALSE
      OBVIOUS
    <3>1. e.kind = "delete" /\ e.path = p
      BY DEF Deletion
    <3>2. view' = [view EXCEPT ![s][g][p] = 0]
      BY <3>1 DEF FanOut
    <3>3. view'[s][g][p] = 0
      BY <1>a, <1>e, <3>2
    <3> QED
      BY <1>c, <3>3
  <2>3. CASE e.kind = "delete"
    <3>1. view' = [view EXCEPT ![s][h][e.path] = 0]
      BY <1>5, <2>3 DEF FanOut
    <3>2. view'[s][g][p] = 0 \/ view'[s][g][p] = view[s][g][p]
      BY <1>a, <1>e, <2>0, <3>1
    <3> QED
      BY <1>c, <2>0, <2>1, <2>2, <3>2
  <2>4. CASE e.kind = "upsert"
    <3> DEFINE m == IF Visible(h, e.path) > 0 THEN Visible(h, e.path)
                    ELSE view[s][h][e.path]
    <3>1. view' = [view EXCEPT ![s][h][e.path] = m] /\ conn = None
      BY <1>5, <2>4 DEF FanOut
    <3>2. m = view[s][h][e.path] \/ (m = Visible(h, e.path) /\ m > 0)
      OBVIOUS
    <3> HIDE DEF m
    <3>3. \/ view'[s][g][p] = view[s][g][p]
          \/ g = h /\ p = e.path /\ view'[s][g][p] = m
      BY <1>a, <1>e, <2>0, <3>1
    <3> QED
      BY <2>0, <2>1, <2>2, <3>1, <3>2, <3>3
  <2> QED
    BY <1>5, <2>3, <2>4 DEF FanOut
<1>6. CASE OpenStream(s) \/ Cancel(s)
  BY <1>1, <1>6 DEF OpenStream, Cancel, Closed, Leaving
<1>7. CASE HandlerReturns(s)
  BY <1>a, <1>7 DEF HandlerReturns
<1>8. ASSUME NEW h \in Targets, AddTarget(s, h) PROVE Goal
  <2>1. /\ view' = [view EXCEPT ![s][h] = NoDocs[h]] /\ strm[s].at = "select"
        /\ targets'[s] = targets[s] \cup {h}
    BY <1>a, <1>d, <1>8 DEF AddTarget
  <2>2. view'[s][g][p] = IF g = h THEN 0 ELSE view[s][g][p]
    BY <1>a, <1>b, <1>e, <2>1
  <2>3. g # h
    BY <1>c, <2>2
  <2> QED
    BY <2>1, <2>2, <2>3 DEF CheckOverflow, FanOut
<1>9. ASSUME NEW h \in Targets, RemoveTarget(s, h) PROVE Goal
  <2>1. /\ view' = [view EXCEPT ![s][h] = NoDocs[h]] /\ strm[s].at = "select"
        /\ targets'[s] = targets[s] \ {h}
    BY <1>a, <1>d, <1>9 DEF RemoveTarget
  <2>2. view'[s][g][p] = IF g = h THEN 0 ELSE view[s][g][p]
    BY <1>a, <1>b, <1>e, <2>1
  <2> QED
    BY <2>1, <2>2 DEF CheckOverflow, FanOut
<1> HIDE DEF Goal
<1> QED
  BY <1>2, <1>3, <1>4, <1>5, <1>6, <1>7, <1>8, <1>9 DEF HandlerStep, StreamStep

\* Only the store moves what the open SQL transaction has in hand.
LEMMA OutgoingSame ==
  ASSUME NEW E, Outgoing(E), UNCHANGED <<calls, conn>>
  PROVE  Announced(E) \/ Outgoing(E)'
BY DEF Outgoing, Announced, OnWay, At

\* No step of a write, of the dispatcher or of a handler loses a removal.
LEMMA RemovalsStep ==
  ASSUME AlwaysMatches, TypeOK, NoLeakedConnection, HandlerTypes, HubHasRoom,
         RemovalsInv, [ListenNext]_allVars
  PROVE  RemovalsInv'
<1> DEFINE Step(u) == HandlerStep(u) \/ StreamStep(u)
<1>a. /\ ViewsOwned /\ Stamped(db) /\ Stamped(work)
      /\ \A s \in Streams : \A g \in targets[s], p \in Paths : Removed(s, g, p)
  BY DEF RemovalsInv
<1>b. db \in Table /\ work \in Table /\ targets \in [Streams -> SUBSET Targets]
  BY DEF TypeOK, HandlerTypes
<1>c. ASSUME NEW s \in Streams, NEW g \in targets[s]
      PROVE  /\ Open(s) /\ Subscribed(s)
             /\ \A p \in TargetPaths[g] : \A e \in {Deletion(p)} :
                  e.path \in TargetPaths[g]
             /\ \A p \in Paths : {Deletion(p)} \in SUBSET Events
  BY <1>a, <1>c DEF ViewsOwned, Open, Subscribed, Deletion, Events
<1>1. ViewsOwned'
  BY <1>a, OwnedStep
<1>2. CASE StoreNext /\ UNCHANGED listenVars
  <2>1. Effect
    BY <1>2, StoreEffect
  <2>2. Stamped(db)' /\ Stamped(work)'
    BY <1>a, <2>1, StampedStep
  <2>3. ASSUME NEW s \in Streams, NEW g \in targets'[s], NEW p \in Paths
        PROVE  Removed(s, g, p)'
    <3> DEFINE E == {Deletion(p)}
    <3>1. /\ g \in targets[s] /\ view' = view
          /\ Coming(s, g, E) => Coming(s, g, E)'
      BY <1>2, ComingSame DEF listenVars
    <3> SUFFICES ASSUME view'[s][g][p] > 0
                 PROVE  /\ p \in TargetPaths[g]
                        /\ \/ Exists(db', p) \/ Announced(E)' \/ Coming(s, g, E)'
                        /\ \/ Exists(work', p) \/ Outgoing(E)' \/ Coming(s, g, E)'
      BY DEF Removed, Exists
    <3>2. /\ p \in TargetPaths[g]
          /\ Exists(db, p) \/ Announced(E) \/ Coming(s, g, E)
          /\ Exists(work, p) \/ Outgoing(E) \/ Coming(s, g, E)
      BY <1>a, <3>1 DEF Removed
    <3>3. Announced(E) => Announced(E)'
      BY <2>1 DEF Effect, AnnouncedKept
    <3>4. Announced(E)' => Outgoing(E)'
      BY DEF Outgoing
    <3> HIDE DEF E
    <3>5. CASE Quiet
      BY <3>1, <3>2, <3>3, <3>5 DEF Quiet, OutgoingKept
    <3>6. CASE Undone
      BY <3>1, <3>2, <3>3, <3>4, <3>6 DEF Undone
    <3>7. CASE Committed
      BY <3>1, <3>2, <3>3, <3>4, <3>7 DEF Committed
    <3>8. ASSUME NEW w \in Writes, NEW n \in Nat \ {0}, WroteThrough(w, n)
          PROVE  /\ Exists(db', p) \/ Announced(E)' \/ Coming(s, g, E)'
                 /\ Exists(work', p) \/ Outgoing(E)' \/ Coming(s, g, E)'
      <4>1. Exists(db, p) => Exists(db', p) \/ EventOf(w) = Deletion(p)
        BY <1>b, <3>8, ApplyExists DEF WroteThrough
      <4>2. EventOf(w) = Deletion(p) => Announced(E)'
        BY <3>8 DEF WroteThrough, E
      <4>3. work' = db'
        BY <3>8 DEF WroteThrough
      <4> QED
        BY <3>1, <3>2, <3>3, <3>4, <4>1, <4>2, <4>3
    <3>9. ASSUME NEW w \in Writes, NEW n \in Nat \ {0}, WroteOpen(w, n)
          PROVE  /\ Exists(db', p) \/ Announced(E)' \/ Coming(s, g, E)'
                 /\ Exists(work', p) \/ Outgoing(E)' \/ Coming(s, g, E)'
      <4>1. Exists(work, p) => Exists(work', p) \/ EventOf(w) = Deletion(p)
        BY <1>b, <3>9, ApplyExists DEF WroteOpen
      <4>2. EventOf(w) = Deletion(p) => Outgoing(E)'
        BY <3>9 DEF WroteOpen, E
      <4>3. db' = db /\ (Outgoing(E) => Outgoing(E)')
        BY <3>9 DEF WroteOpen, OutgoingKept
      <4> QED
        BY <3>1, <3>2, <3>3, <4>1, <4>2, <4>3
    <3> QED
      BY <2>1, <3>2, <3>5, <3>6, <3>7, <3>8, <3>9 DEF Effect
  <2> QED
    BY <1>1, <2>2, <2>3 DEF RemovalsInv
<1>3. CASE DispatchStep
  <2>1. UNCHANGED <<db, work, conn, calls, targets, view>>
    BY <1>3 DEF DispatchStep, DispatchBegin, TakeChange, DispatchOffer,
                DispatchRaise, vars, dbVars, handlerVars
  <2>2. ASSUME NEW s \in Streams, NEW g \in targets'[s], NEW p \in Paths
        PROVE  Removed(s, g, p)'
    <3> DEFINE E == {Deletion(p)}
    <3>1. g \in targets[s]
      BY <2>1
    <3>2. Announced(E) \/ Coming(s, g, E) => Announced(E)' \/ Coming(s, g, E)'
      BY <1>3, <1>c, <3>1, DispatchCarries
    <3>3. Outgoing(E) => Announced(E) \/ Outgoing(E)'
      BY <2>1, OutgoingSame
    <3>4. Announced(E)' => Outgoing(E)'
      BY DEF Outgoing
    <3>5. Removed(s, g, p)
      BY <1>a, <3>1
    <3> QED
      BY <2>1, <3>2, <3>3, <3>4, <3>5 DEF Removed, Exists
  <2> QED
    BY <1>1, <1>a, <2>1, <2>2 DEF RemovalsInv, Stamped, Exists
<1>4. ASSUME NEW u \in Streams, Step(u) PROVE RemovalsInv'
  <2>1. UNCHANGED <<db, work, conn, calls, hub, disp>>
    BY <1>4, StreamsApart DEF vars
  <2>2. ASSUME NEW s \in Streams, NEW g \in targets'[s], NEW p \in Paths,
               view'[s][g][p] > 0
        PROVE  Removed(s, g, p)'
    <3> DEFINE E == {Deletion(p)}
    <3>1. ASSUME g \in targets[s], view[s][g][p] > 0,
                 Coming(s, g, E) => Coming(s, g, E)'
          PROVE  Removed(s, g, p)'
      <4>1. Removed(s, g, p)
        BY <1>a, <3>1
      <4>2. Announced(E) => Announced(E)'
        BY <2>1, AnnouncedSame
      <4>3. Outgoing(E) => Announced(E) \/ Outgoing(E)'
        BY <2>1, OutgoingSame
      <4>4. Announced(E)' => Outgoing(E)'
        BY DEF Outgoing
      <4> QED
        BY <2>1, <3>1, <4>1, <4>2, <4>3, <4>4 DEF Removed, Exists
    <3>2. CASE u # s
      <4>1. g \in targets[s] /\ view[s][g][p] > 0
        BY <1>4, <2>2, <3>2, StreamsApart
      <4>2. Coming(s, g, E) => Coming(s, g, E)'
        BY <1>4, <2>1, <3>2, StreamsApart, ComingSame
      <4> QED
        BY <3>1, <4>1, <4>2
    <3>3. CASE u = s
      <4>1. CASE Visible(g, p) > 0 /\ conn = None
        <5>1. g \in Targets
          BY <1>4, HandlerType, StreamType DEF HandlerTypes
        <5>2. p \in TargetPaths[g] /\ Exists(db, p)
          BY <1>a, <4>1, <5>1, ListedRows
        <5>3. work = db
          BY <4>1 DEF NoLeakedConnection
        <5> QED
          BY <2>1, <5>2, <5>3 DEF Removed, Exists
      <4>2. CASE /\ g \in targets[s]
                 /\ view[s][g][p] > 0
                 /\ ~(CheckOverflow(s) /\ overflowed[s])
                 /\ ~(FanOut(s, g) /\ strm[s].event = Deletion(p))
        <5>1. p \in TargetPaths[g]
          BY <1>a, <4>2 DEF Removed
        <5>2. targets'[s] # {}
          OBVIOUS
        <5>3. Open(s) /\ E \in SUBSET Events
              /\ \A e \in E : e.path \in TargetPaths[g]
          BY <1>c, <4>2, <5>1
        <5>4. HandlerStep(s) \/ StreamStep(s)
          BY <1>4, <3>3
        <5>5. Coming(s, g, E) => Coming(s, g, E)'
          <6>1. SUFFICES ASSUME Coming(s, g, E) PROVE Coming(s, g, E)'
            OBVIOUS
          <6>2. \/ Coming(s, g, E)'
                \/ targets'[s] = {}
                \/ CheckOverflow(s) /\ overflowed[s]
                \/ FanOut(s, g) /\ strm[s].event \in E
            BY <4>2, <5>3, <5>4, <6>1, HandlerCarries
          <6> QED
            BY <4>2, <5>2, <6>2
        <5> QED
          BY <3>1, <4>2, <5>5
      <4> QED
        BY <1>4, <2>2, <3>3, <4>1, <4>2, ViewGains
    <3> QED
      BY <3>2, <3>3
  <2>3. ASSUME NEW s \in Streams, NEW g \in targets'[s], NEW p \in Paths
        PROVE  Removed(s, g, p)'
    BY <2>2, <2>3 DEF Removed
  <2>4. Stamped(db)' /\ Stamped(work)'
    BY <1>a, <2>1 DEF Stamped, Exists
  <2> QED
    BY <1>1, <2>3, <2>4 DEF RemovalsInv
<1>5. CASE UNCHANGED allVars
  BY <1>5 DEF allVars, vars, listenVars, RemovalsInv, ViewsOwned, Open, Stamped,
              Removed, Exists, Announced, Outgoing, Coming, OnWay, At
<1> QED
  BY <1>2, <1>3, <1>4, <1>5 DEF ListenNext

\* While the documents of a target match its filter and the adapter's channel
\* has room, a pending removal is what the invariant says.
LEMMA RemovalsPend ==
  ASSUME AlwaysMatches, TypeOK, HandlerTypes, RemovalsInv
  PROVE  RemovalsArrive
<1> SUFFICES ASSUME NEW s \in Streams, NEW g \in targets[s], NEW p \in Paths,
                    Visible(g, p) = 0, view[s][g][p] > 0
             PROVE  Pending(s, g, p)
  BY DEF RemovalsArrive
<1>1. g \in Targets /\ Stamped(db) /\ Removed(s, g, p)
  BY DEF HandlerTypes, RemovalsInv
<1>2. ~(Visible(g, p) > 0)
  OBVIOUS
<1>3. ~Exists(db, p)
  BY <1>1, <1>2, ListedRows DEF Removed
<1>4. Announced({Deletion(p)}) \/ Coming(s, g, {Deletion(p)})
  BY <1>1, <1>3 DEF Removed
<1>5. Deletion(p).path = p
  BY DEF Deletion
<1> QED
  BY <1>4, <1>5 DEF Announced, Coming, OnWay, Pending, InFlight

(***************************************************************************)
(* A document that is deleted is taken away from every client that holds   *)
(* it, in whatever order the deletion meets other writes, refetches,       *)
(* snapshots and overflows of the registry.                                *)
(***************************************************************************)
THEOREM RemovalsAlwaysArrive ==
  AlwaysMatches /\ ListenSpec /\ []HubHasRoom => []RemovalsArrive
<1> SUFFICES ASSUME AlwaysMatches
             PROVE  ListenSpec /\ []HubHasRoom => []RemovalsArrive
  BY DEF AlwaysMatches
<1>1. ListenInit => RemovalsInv
  BY DEF ListenInit, Init, NoRow, RemovalsInv, ViewsOwned, Stamped, Exists
<1>2. ASSUME TypeOK, NoLeakedConnection, HandlerTypes, HubHasRoom, RemovalsInv,
             [ListenNext]_allVars
      PROVE  RemovalsInv'
  BY <1>2, RemovalsStep
<1>3. TypeOK /\ HandlerTypes /\ RemovalsInv => RemovalsArrive
  BY RemovalsPend
<1>4. ListenTypeOK => TypeOK /\ HandlerTypes
  BY DEF HandlerTypes, ListenTypeOK
<1> QED
  BY <1>1, <1>2, <1>3, <1>4, ListenTypeCorrect, ListenImplementsStore,
     ConnectionNeverLeaks, PTL DEF ListenSpec

-----------------------------------------------------------------------------
(***************************************************************************)
(* Writes arrive.  Where nothing is ever deleted, no deletion is announced *)
(* either.                                                                 *)
(***************************************************************************)

\* What is left of a list without deletes has none.
LEMMA NoDeletesRest ==
  ASSUME NEW ws \in Seq(Writes), NoDeletes(ws), ws # <<>>
  PROVE  /\ NoDeletes(Tail(ws))
         /\ Head(ws) \in Writes
         /\ ~IsDelete(Head(ws))
         /\ EventOf(Head(ws)) \in UpsertEvents
<1>1. \A i \in DOMAIN Tail(ws) : i + 1 \in DOMAIN ws /\ Tail(ws)[i] = ws[i + 1]
  OBVIOUS
<1>2. NoDeletes(Tail(ws))
  BY <1>1 DEF NoDeletes
<1>3. 1 \in DOMAIN ws /\ ws[1] = Head(ws) /\ Head(ws) \in Writes
  OBVIOUS
<1>4. ~IsDelete(Head(ws))
  BY <1>3 DEF NoDeletes
<1>5. EventOf(Head(ws)) \in Events
  BY <1>3, EventType
<1>6. EventOf(Head(ws)).kind = "upsert"
  BY <1>4 DEF EventOf
<1> QED
  BY <1>2, <1>3, <1>4, <1>5, <1>6 DEF UpsertEvents

\* The states that calls are left in.
LEMMA DeletelessStates ==
  /\ Deleteless(Idle)
  /\ \A out \in Seq(UpsertEvents) : Deleteless(Announcing(out))
  /\ \A w : ~IsDelete(w) => Deleteless([at |-> "write", w |-> w])
  /\ \A ws : NoDeletes(ws) => Deleteless([at |-> "batch", todo |-> ws])
  /\ \A t, rs, ws : NoDeletes(ws) =>
       Deleteless([at |-> "commit", tx |-> t, reads |-> rs, ops |-> ws])
  /\ \A t, rs, ws, out : NoDeletes(ws) /\ out \in Seq(UpsertEvents) =>
       Deleteless([at |-> "applying", tx |-> t, reads |-> rs, todo |-> ws,
                   out |-> out])
  /\ \A t, p, r :
       Deleteless([at |-> "record", tx |-> t, path |-> p, row |-> r])
BY DEF Deleteless, Idle, Announcing

LEMMA DeletelessGoto ==
  ASSUME TypeOK, NoDeletesAsked, NEW c \in Calls, NEW state, Deleteless(state),
         Goto(c, state)
  PROVE  NoDeletesAsked'
<1> SUFFICES ASSUME NEW d \in Calls PROVE Deleteless(calls'[d])
  BY DEF NoDeletesAsked, Deleteless
<1>1. calls'[d] = IF d = c THEN state ELSE calls[d]
  BY DEF Goto, TypeOK
<1> QED
  BY <1>1 DEF NoDeletesAsked

\* Calls only ever have the deletes they were asked for.
LEMMA AskedStep ==
  ASSUME OnlyUpserts, TypeOK, NoDeletesAsked, hub \in Seq(UpsertEvents), StoreNext
  PROVE  NoDeletesAsked' /\ hub' \in Seq(UpsertEvents)
<1> DEFINE Goal == NoDeletesAsked' /\ hub' \in Seq(UpsertEvents)
<1> SUFFICES Goal
  OBVIOUS
<1>a. ASSUME NEW c \in Calls, NEW state, Deleteless(state), Goto(c, state),
             UNCHANGED hub
      PROVE  Goal
  BY <1>a, DeletelessGoto
<1>b. ASSUME NEW e \in UpsertEvents PROVE Pushed(e) \in Seq(UpsertEvents)
  BY <1>b DEF Pushed
<1>c. \A c \in Calls : Deleteless(calls[c])
  BY DEF NoDeletesAsked
<1>1. ASSUME NEW c \in Calls, PlainWrite(c) PROVE Goal
  <2>1. CASE Goto(c, Idle)
    BY <1>a, <1>1, <2>1, DeletelessStates DEF PlainWrite
  <2>2. CASE Goto(c, Announcing(<<EventOf(calls[c].w)>>))
    <3>1. calls[c].w \in Writes /\ ~IsDelete(calls[c].w)
      BY <1>1, <1>c, CallFields DEF PlainWrite, At, Deleteless
    <3>2. EventOf(calls[c].w) \in UpsertEvents
      BY <3>1, EventType DEF UpsertEvents, EventOf
    <3>3. <<EventOf(calls[c].w)>> \in Seq(UpsertEvents)
      BY <3>2
    <3>4. Deleteless(Announcing(<<EventOf(calls[c].w)>>))
      BY <3>3, DeletelessStates
    <3> QED
      BY <1>a, <1>1, <2>2, <3>4 DEF PlainWrite
  <2> QED
    BY <1>1, <2>1, <2>2 DEF PlainWrite
<1>2. ASSUME NEW c \in Calls, Notify(c) PROVE Goal
  <2>1. calls[c].out \in Seq(UpsertEvents) /\ calls[c].out # <<>>
    BY <1>2, <1>c, CallFields DEF Notify, At, Deleteless
  <2>2. Head(calls[c].out) \in UpsertEvents /\ Tail(calls[c].out) \in Seq(UpsertEvents)
    BY <2>1
  <2>3. NoDeletesAsked'
    BY <1>2, <2>2, DeletelessGoto, DeletelessStates DEF Notify
  <2>4. hub' \in Seq(UpsertEvents)
    BY <1>2, <1>b, <2>2 DEF Notify
  <2> QED
    BY <2>3, <2>4
<1>3. ASSUME NEW c \in Calls, BatchWrite(c) PROVE Goal
  <2>1. /\ calls[c].todo \in Seq(Writes) /\ calls[c].todo # <<>>
        /\ NoDeletes(calls[c].todo)
    BY <1>3, <1>c, CallFields DEF BatchWrite, At, Deleteless
  <2>2. /\ NoDeletes(Tail(calls[c].todo))
        /\ EventOf(Head(calls[c].todo)) \in UpsertEvents
    BY <2>1, NoDeletesRest
  <2>3. NoDeletesAsked'
    BY <1>3, <2>2, DeletelessGoto, DeletelessStates DEF BatchWrite
  <2>4. hub' \in Seq(UpsertEvents)
    BY <1>3, <1>b, <2>2 DEF BatchWrite
  <2> QED
    BY <2>3, <2>4
<1>4. ASSUME NEW c \in Calls, BatchFail(c) \/ BatchCommit(c) \/ TxRecord(c)
      PROVE  Goal
  BY <1>4, <1>a, DeletelessStates DEF BatchFail, BatchCommit, TxRecord
<1>5. ASSUME NEW c \in Calls, CommitBegin(c) PROVE Goal
  <2>1. NoDeletes(calls[c].ops)
    BY <1>5, <1>c DEF CommitBegin, At, Deleteless
  <2>2. <<>> \in Seq(UpsertEvents)
    OBVIOUS
  <2>3. Deleteless([at |-> "applying", tx |-> calls[c].tx,
                    reads |-> calls[c].reads, todo |-> calls[c].ops,
                    out |-> <<>>])
    BY <2>1, <2>2, DeletelessStates
  <2> QED
    BY <1>5, <1>a, <2>3, DeletelessStates DEF CommitBegin
<1>6. ASSUME NEW c \in Calls, CommitWrite(c) PROVE Goal
  <2> DEFINE w == Head(calls[c].todo)
  <2>1. /\ calls[c].todo \in Seq(Writes) /\ calls[c].todo # <<>>
        /\ NoDeletes(calls[c].todo) /\ calls[c].out \in Seq(UpsertEvents)
    BY <1>6, <1>c, CallFields DEF CommitWrite, At, Deleteless
  <2>2. NoDeletes(Tail(calls[c].todo)) /\ EventOf(w) \in UpsertEvents
    BY <2>1, NoDeletesRest
  <2>3. Append(calls[c].out, EventOf(w)) \in Seq(UpsertEvents)
    BY <2>1, <2>2
  <2>4. calls[c] \in [at : {"applying"}, tx : TxIds, reads : Table,
                      todo : Seq(Writes), out : Seq(Events)]
    BY <1>6 DEF CommitWrite, At, TypeOK, CallState, Idle
  <2> DEFINE next == [calls[c] EXCEPT !.todo = Tail(@),
                                      !.out = Append(@, EventOf(w))]
  <2>5. /\ next.at = "applying" /\ next.todo = Tail(calls[c].todo)
        /\ next.out = Append(calls[c].out, EventOf(w))
    BY <2>4
  <2>6. Goto(c, next) /\ UNCHANGED hub
    BY <1>6 DEF CommitWrite
  <2> HIDE DEF next
  <2>7. Deleteless(next)
    BY <2>2, <2>3, <2>5 DEF Deleteless
  <2> QED
    BY <1>a, <2>6, <2>7
<1>7. ASSUME NEW c \in Calls, CommitFinish(c) PROVE Goal
  <2>1. calls[c].out \in Seq(UpsertEvents)
    BY <1>7, <1>c DEF CommitFinish, At, Deleteless
  <2> QED
    BY <1>7, <1>a, <2>1, DeletelessStates DEF CommitFinish
<1>8. ASSUME NEW c \in Calls, ClientStep(c) PROVE Goal
  <2>1. ASSUME NEW w \in RpcWrites, RpcWrite(c, w) PROVE Goal
    <3>1. ~IsDelete(w)
      BY DEF OnlyUpserts
    <3> QED
      BY <1>a, <2>1, <3>1, DeletelessStates DEF RpcWrite
  <2>2. ASSUME NEW w \in RpcWrites, RpcMaskedWrite(c, w) PROVE Goal
    <3>1. ~IsDelete(w) /\ w \in Writes
      BY ConstantsAssumption DEF OnlyUpserts
    <3>2. ~IsDelete([w EXCEPT !.kind = "update"])
      BY <2>2, <3>1 DEF IsDelete, Writes, PlainKinds, RpcMaskedWrite
    <3>3. ASSUME NEW v, ~IsDelete(v), Goto(c, [at |-> "write", w |-> v])
          PROVE  Goal
      BY <1>a, <2>2, <3>3, DeletelessStates DEF RpcMaskedWrite
    <3> QED
      BY <2>2, <3>1, <3>2, <3>3 DEF RpcMaskedWrite
  <2>3. ASSUME NEW ws \in Batches, BatchBegin(c, ws) PROVE Goal
    <3>1. NoDeletes(ws)
      BY DEF OnlyUpserts
    <3> QED
      BY <1>a, <2>3, <3>1, DeletelessStates DEF BatchBegin
  <2>4. ASSUME NEW t \in TxIds, NEW p \in Paths, TxRead(c, t, p) PROVE Goal
    <3>1. CASE UNCHANGED calls
      BY <2>4, <3>1 DEF TxRead, NoDeletesAsked, Deleteless
    <3>2. CASE Goto(c, [at |-> "record", tx |-> t, path |-> p, row |-> db[p]])
      BY <1>a, <2>4, <3>2, DeletelessStates DEF TxRead
    <3> QED
      BY <2>4, <3>1, <3>2 DEF TxRead
  <2>5. ASSUME NEW t \in TxIds, NEW ops \in TxOps, CommitLoad(c, t, ops) PROVE Goal
    <3>1. NoDeletes(ops)
      BY DEF OnlyUpserts
    <3> QED
      BY <1>a, <2>5, <3>1, DeletelessStates DEF CommitLoad
  <2>6. CASE CancelCall(c)
    BY <1>a, <2>6, DeletelessStates DEF CancelCall
  <2> QED
    BY <1>8, <2>1, <2>2, <2>3, <2>4, <2>5, <2>6 DEF ClientStep
<1>9. CASE (\E t \in TxIds : TxStep(t)) \/ SweepExpiredTransactions
  <2>1. UNCHANGED <<calls, hub>>
    BY <1>9 DEF TxStep, BeginTransaction, RollbackTransaction, Expire,
                SweepExpiredTransactions
  <2> QED
    BY <2>1 DEF NoDeletesAsked, Deleteless
<1> HIDE DEF Goal
<1> QED
  BY <1>1, <1>2, <1>3, <1>4, <1>5, <1>6, <1>7, <1>8, <1>9 DEF StoreNext, CallStep

\* What a step announces is then no deletion.
LEMMA OutgoingUpsert ==
  ASSUME TypeOK', NoDeletesAsked', hub' \in Seq(UpsertEvents), NEW e,
         Outgoing({e})'
  PROVE  e.kind = "upsert"
<1>1. \A es \in Seq(UpsertEvents) : OnWay(es, {e}) => e \in UpsertEvents
  BY DEF OnWay
<1>2. ASSUME NEW c \in Calls, calls'[c].at \in {"applying", "notify"},
             OnWay(calls'[c].out, {e})
      PROVE  e \in UpsertEvents
  <2>1. calls'[c].out \in Seq(UpsertEvents)
    BY <1>2 DEF NoDeletesAsked, Deleteless
  <2> QED
    BY <1>1, <1>2, <2>1
<1>3. CASE OnWay(hub', {e})
  BY <1>1, <1>3 DEF UpsertEvents
<1>4. ASSUME NEW c \in Calls, calls'[c].at \in {"applying", "notify"},
             OnWay(calls'[c].out, {e})
      PROVE  e.kind = "upsert"
  BY <1>2, <1>4 DEF UpsertEvents
<1>5. conn' # None => conn' \in Calls
  BY DEF TypeOK
<1> QED
  BY <1>3, <1>4, <1>5 DEF Outgoing, Announced, At, OnWay

\* The registry and the handlers pass events on and make none.
LEMMA ComingUpserts ==
  ASSUME OnlyUpserts, TypeOK, HandlerTypes, NoDeletesAsked, NoDeletesComing,
         [ListenNext]_allVars
  PROVE  NoDeletesAsked' /\ NoDeletesComing'
<1> DEFINE Goal == NoDeletesAsked' /\ NoDeletesComing'
<1> SUFFICES Goal
  OBVIOUS
<1>a. /\ hub \in Seq(UpsertEvents)
      /\ disp.at # "resting" => disp.event \in UpsertEvents
      /\ \A s \in Streams :
           /\ ch[s] \in Seq(UpsertEvents)
           /\ strm[s].at \in {"check", "fanout"} => strm[s].event \in UpsertEvents
  BY DEF NoDeletesComing
<1>b. /\ strm \in [Streams -> StreamState] /\ ch \in [Streams -> Seq(Events)]
      /\ disp \in DispatcherState
  BY DEF HandlerTypes
<1>c. ASSUME UNCHANGED calls PROVE NoDeletesAsked'
  BY <1>c DEF NoDeletesAsked, Deleteless
<1>d. Select.at = "select" /\ Closed.at = "closed" /\ Leaving.at = "leaving"
  BY DEF Select, Closed, Leaving
<1>1. CASE StoreNext /\ UNCHANGED listenVars
  <2>1. NoDeletesAsked' /\ hub' \in Seq(UpsertEvents)
    BY <1>a, <1>1, AskedStep
  <2> QED
    BY <1>a, <1>1, <2>1 DEF listenVars, NoDeletesComing
<1>2. CASE DispatchStep
  <2>1. UNCHANGED <<calls, strm>>
    BY <1>2 DEF DispatchStep, DispatchBegin, TakeChange, DispatchOffer,
                DispatchRaise, vars, handlerVars
  <2>2. ASSUME NEW e \in UpsertEvents, NEW todo, disp' = StillOffering(e, todo)
        PROVE  disp'.at # "resting" => disp'.event \in UpsertEvents
    BY <2>2 DEF StillOffering, Resting
  <2>3. CASE DispatchBegin
    <3>1. /\ hub # <<>> /\ hub' = Tail(hub) /\ UNCHANGED ch
          /\ disp' = StillOffering(Head(hub), {s \in Streams : Subscribed(s)})
      BY <2>3 DEF DispatchBegin, TakeChange
    <3>2. Head(hub) \in UpsertEvents /\ hub' \in Seq(UpsertEvents)
      BY <1>a, <3>1
    <3> QED
      BY <1>a, <1>c, <2>1, <2>2, <3>1, <3>2 DEF NoDeletesComing
  <2>4. ASSUME NEW s \in Streams, DispatchOffer(s) PROVE Goal
    <3>1. disp.event \in UpsertEvents /\ UNCHANGED hub
      BY <1>a, <2>4 DEF DispatchOffer, vars
    <3>2. CASE /\ ch' = [ch EXCEPT ![s] = Append(@, disp.event)]
               /\ disp' = StillOffering(disp.event, disp.todo \ {s})
      <4>1. Append(ch[s], disp.event) \in Seq(UpsertEvents)
        BY <1>a, <3>1
      <4>2. \A u \in Streams : ch'[u] \in Seq(UpsertEvents)
        BY <1>a, <1>b, <3>2, <4>1
      <4>3. disp'.at # "resting" => disp'.event \in UpsertEvents
        BY <2>2, <3>1, <3>2
      <4> QED
        BY <1>a, <1>c, <2>1, <3>1, <4>2, <4>3 DEF NoDeletesComing
    <3>3. CASE /\ disp' = [at |-> "raising", event |-> disp.event,
                           todo |-> disp.todo \ {s}, stream |-> s]
               /\ UNCHANGED ch
      BY <1>a, <1>c, <2>1, <3>1, <3>3 DEF NoDeletesComing
    <3> QED
      BY <2>4, <3>2, <3>3 DEF DispatchOffer
  <2>5. CASE DispatchRaise
    <3>1. /\ disp.event \in UpsertEvents /\ UNCHANGED <<hub, ch>>
          /\ disp' = StillOffering(disp.event, disp.todo)
      BY <1>a, <2>5 DEF DispatchRaise, vars
    <3> QED
      BY <1>a, <1>c, <2>1, <2>2, <3>1 DEF NoDeletesComing
  <2> HIDE DEF Goal
  <2> QED
    BY <1>2, <2>3, <2>4, <2>5 DEF DispatchStep
<1>3. ASSUME NEW u \in Streams, HandlerStep(u) \/ StreamStep(u) PROVE Goal
  <2>1. UNCHANGED <<calls, hub, disp>>
    BY <1>3, StreamsApart DEF vars
  <2>2. ASSUME ch'[u] \in Seq(UpsertEvents),
               strm'[u].at \in {"check", "fanout"} => strm'[u].event \in UpsertEvents
        PROVE  Goal
    <3>1. \A s \in Streams : s # u => ch'[s] = ch[s] /\ strm'[s] = strm[s]
      BY <1>3, StreamsApart
    <3>2. \A s \in Streams :
            /\ ch'[s] \in Seq(UpsertEvents)
            /\ strm'[s].at \in {"check", "fanout"} => strm'[s].event \in UpsertEvents
      BY <1>a, <2>2, <3>1
    <3> QED
      BY <1>a, <1>c, <2>1, <3>2 DEF NoDeletesComing
  <2>3. \A todo : \A next \in AfterSnapshot(todo) :
          next.at \notin {"check", "fanout"}
    BY <1>d DEF AfterSnapshot
  <2>4. ASSUME NEW todo, strm[u].event \in UpsertEvents,
               strm' = [strm EXCEPT ![u] =
                          IF todo = {} THEN Select
                          ELSE [at |-> "fanout", event |-> strm[u].event,
                                todo |-> todo]]
        PROVE  strm'[u].at \in {"check", "fanout"} =>
                 strm'[u].event \in UpsertEvents
    BY <1>b, <1>d, <2>4
  <2>5. CASE SnapshotStep(u)
    <3>1. strm[u] \in [at : {"snapshot"}, target : Targets, offset : Nat,
                       todo : SUBSET Targets]
      BY <1>b, <2>5 DEF SnapshotStep, StreamState, Closed, Select, Leaving
    <3>2. \A n : [strm[u] EXCEPT !.offset = n].at = "snapshot"
      BY <3>1
    <3>3. ASSUME NEW n, strm' = [strm EXCEPT ![u].offset = n]
          PROVE  strm'[u].at = "snapshot"
      BY <1>b, <3>2, <3>3
    <3>4. strm'[u].at \notin {"check", "fanout"}
      BY <1>b, <2>3, <2>5, <3>3 DEF SnapshotStep
    <3> QED
      BY <1>a, <2>2, <2>5, <3>4 DEF SnapshotStep
  <2>6. CASE ReceiveChange(u)
    <3>1. Head(ch[u]) \in UpsertEvents /\ Tail(ch[u]) \in Seq(UpsertEvents)
      BY <1>a, <2>6 DEF ReceiveChange
    <3> QED
      BY <1>b, <2>2, <2>6, <3>1 DEF ReceiveChange
  <2>7. CASE CheckOverflow(u)
    <3>0. strm[u].event \in UpsertEvents /\ UNCHANGED ch
      BY <1>a, <2>7 DEF CheckOverflow
    <3>1. CASE overflowed[u]
      <4>1. strm'[u].at \notin {"check", "fanout"}
        BY <1>b, <2>3, <2>7, <3>1 DEF CheckOverflow
      <4> QED
        BY <1>a, <2>2, <3>0, <4>1
    <3>2. CASE ~overflowed[u]
      <4>1. strm'[u].at \in {"check", "fanout"} => strm'[u].event \in UpsertEvents
        BY <2>4, <2>7, <3>0, <3>2 DEF CheckOverflow
      <4> QED
        BY <1>a, <2>2, <3>0, <4>1
    <3> QED
      BY <3>1, <3>2
  <2>8. ASSUME NEW h \in Targets, FanOut(u, h) PROVE Goal
    <3>1. strm[u].event \in UpsertEvents /\ UNCHANGED ch
      BY <1>a, <2>8 DEF FanOut
    <3>2. strm'[u].at \in {"check", "fanout"} => strm'[u].event \in UpsertEvents
      BY <2>4, <2>8, <3>1 DEF FanOut
    <3> QED
      BY <1>a, <2>2, <3>1, <3>2
  <2>9. CASE StreamStep(u)
    <3>1. strm'[u].at \notin {"check", "fanout"}
      BY <1>b, <1>d, <2>9 DEF StreamStep, OpenStream, HandlerReturns, Cancel,
                              AddTarget, RemoveTarget
    <3>2. ch'[u] = ch[u] \/ ch'[u] = <<>>
      BY <1>b, <2>9 DEF StreamStep, OpenStream, HandlerReturns, Cancel,
                        AddTarget, RemoveTarget
    <3>3. <<>> \in Seq(UpsertEvents)
      OBVIOUS
    <3> QED
      BY <1>a, <2>2, <3>1, <3>2, <3>3
  <2> HIDE DEF Goal
  <2> QED
    BY <1>3, <2>5, <2>6, <2>7, <2>8, <2>9 DEF HandlerStep
<1>4. CASE UNCHANGED allVars
  BY <1>4, <1>a, <1>c DEF allVars, vars, listenVars, NoDeletesComing
<1> HIDE DEF Goal
<1> QED
  BY <1>1, <1>2, <1>3, <1>4 DEF ListenNext

\* A path that exists in tbl has a rank among the rows a snapshot would list.
LEMMA RowsRank ==
  ASSUME NEW tbl, NEW g \in Targets, NEW p \in TargetPaths[g], Exists(tbl, p)
  PROVE  /\ RowsOf(tbl, g) \in SUBSET Paths
         /\ p \in RowsOf(tbl, g)
         /\ Rank(RowsOf(tbl, g), p) \in Nat
         /\ 0 < Rank(RowsOf(tbl, g), p)
         /\ Rank(RowsOf(tbl, g), p) <= Cardinality(RowsOf(tbl, g))
         /\ Cardinality(RowsOf(tbl, g)) \in Nat
<1>1. RowsOf(tbl, g) \in SUBSET Paths /\ p \in RowsOf(tbl, g)
  BY ListenAssumption DEF RowsOf
<1>2. \A n \in Nat : n >= 1 => 0 < n
  OBVIOUS
<1> QED
  BY <1>1, <1>2, RankBounds

\* A new snapshot of the targets in todo will come to every row of theirs.
LEMMA SnapshotCovers ==
  ASSUME NEW s \in Streams, NEW todo, NEW g \in todo,
         NEW next \in AfterSnapshot(todo), strm'[s] = next, NEW p, NEW rows,
         0 < Rank(rows, p)
  PROVE  ToSnapshot(s, g, p, rows)'
<1>1. PICK h \in todo : next = [at |-> "snapshot", target |-> h, offset |-> 0,
                                todo |-> todo \ {h}]
  BY DEF AfterSnapshot
<1>2. /\ strm'[s].at = "snapshot" /\ strm'[s].target = h /\ strm'[s].offset = 0
      /\ strm'[s].todo = todo \ {h}
  BY <1>1
<1> QED
  BY <1>2 DEF ToSnapshot

\* A step of the handler of s that leaves the client without the data of tbl,
\* the committed table or the one of the open SQL transaction, found it
\* without, delivered nothing of p, and was not to snapshot p; or it is going
\* to.
LEMMA ViewLacks ==
  ASSUME AlwaysMatches, TypeOK, HandlerTypes, Stamped(db), NoDeletesComing,
         NEW s \in Streams, NEW g \in Targets, g \in targets'[s],
         NEW p \in TargetPaths[g], HandlerStep(s) \/ StreamStep(s),
         NEW tbl, conn = None => tbl = db, Exists(tbl, p),
         view'[s][g][p] # tbl[p].stamp, NEW rows, rows = RowsOf(tbl, g)
  PROVE  \/ ToSnapshot(s, g, p, rows)'
         \/ /\ g \in targets[s]
            /\ view[s][g][p] # tbl[p].stamp
            /\ ~ToSnapshot(s, g, p, rows)
            /\ ~(CheckOverflow(s) /\ overflowed[s])
            /\ ~(FanOut(s, g) /\ strm[s].event \in ChangesOf(p))
<1> DEFINE Goal == \/ ToSnapshot(s, g, p, rows)'
                   \/ /\ g \in targets[s]
                      /\ view[s][g][p] # tbl[p].stamp
                      /\ ~ToSnapshot(s, g, p, rows)
                      /\ ~(CheckOverflow(s) /\ overflowed[s])
                      /\ ~(FanOut(s, g) /\ strm[s].event \in ChangesOf(p))
<1> SUFFICES Goal
  OBVIOUS
<1>a. /\ strm \in [Streams -> StreamState]
      /\ targets \in [Streams -> SUBSET Targets]
      /\ view \in [Streams -> [Targets -> [Paths -> Nat]]]
  BY DEF HandlerTypes
<1>b. Select.at = "select" /\ Closed.at = "closed" /\ Leaving.at = "leaving"
  BY DEF Select, Closed, Leaving
<1>c. p \in Paths
  BY ListenAssumption
<1>d. /\ rows \in SUBSET Paths /\ p \in rows /\ Rank(rows, p) \in Nat
      /\ 0 < Rank(rows, p) /\ Rank(rows, p) <= Cardinality(rows)
      /\ Cardinality(rows) \in Nat
  BY RowsRank
<1>e. ASSUME conn = None
      PROVE  /\ tbl = db /\ Visible(g, p) = tbl[p].stamp /\ Visible(g, p) > 0
             /\ Listed(g) = rows
  BY <1>c, <1>e, ListedRows
<1>1. ASSUME g \in targets[s], view'[s][g][p] = view[s][g][p],
             strm[s].at \notin {"check", "fanout", "snapshot"}
      PROVE  Goal
  BY <1>1 DEF CheckOverflow, FanOut, ToSnapshot
<1>2. CASE SnapshotStep(s)
  <2> DEFINE h == strm[s].target
             from == strm[s].offset
             list == Listed(h)
             to == from + (IF h \in QueryTargets THEN PageSize ELSE 1)
             read == {q \in list : from < Rank(list, q) /\ Rank(list, q) <= to}
             docs == [q \in Paths |-> IF q \in read /\ Visible(h, q) > 0
                                      THEN Visible(h, q) ELSE view[s][h][q]]
  <2>1. /\ strm[s] \in [at : {"snapshot"}, target : Targets, offset : Nat,
                        todo : SUBSET Targets]
        /\ h \in Targets /\ from \in Nat
    BY <1>a, <1>2 DEF SnapshotStep, StreamState, Closed, Select, Leaving
  <2>2. view' = [view EXCEPT ![s][h] = docs]
    BY <1>2, <2>1 DEF SnapshotStep
  <2>3. /\ targets' = targets /\ conn = None /\ strm[s].at = "snapshot"
        /\ ~CheckOverflow(s) /\ ~FanOut(s, g)
    BY <1>2 DEF SnapshotStep, CheckOverflow, FanOut
  <2>4. to \in Nat
    BY <2>1, ListenAssumption
  <2>5. \/ Cardinality(list) > to /\ strm' = [strm EXCEPT ![s].offset = to]
        \/ /\ Cardinality(list) <= to
           /\ \E next \in AfterSnapshot(strm[s].todo) :
                strm' = [strm EXCEPT ![s] = next]
    BY <1>2 DEF SnapshotStep
  <2>6. ASSUME strm' = [strm EXCEPT ![s].offset = to]
        PROVE  /\ strm'[s].at = "snapshot" /\ strm'[s].target = h
               /\ strm'[s].offset = to /\ strm'[s].todo = strm[s].todo
    <3> HIDE DEF to
    <3>1. strm'[s] = [strm[s] EXCEPT !.offset = to]
      BY <1>a, <2>6
    <3> QED
      BY <2>1, <3>1
  <2>7. g = h => docs[p] = IF from < Rank(rows, p) /\ Rank(rows, p) <= to
                           THEN tbl[p].stamp ELSE view[s][g][p]
    BY <1>c, <1>d, <1>e, <2>3
  <2>8. g = h => list = rows
    BY <1>e, <2>3
  <2>9. view'[s][g][p] = IF g = h THEN docs[p] ELSE view[s][g][p]
    <3> HIDE DEF docs, h
    <3> QED
      BY <1>a, <1>c, <2>1, <2>2
  <2> HIDE DEF docs, to, list, from, h
  <2>10. CASE g \in strm[s].todo
    <3>1. ASSUME strm' = [strm EXCEPT ![s].offset = to] PROVE Goal
      BY <2>6, <2>10, <3>1 DEF ToSnapshot
    <3>2. ASSUME NEW next \in AfterSnapshot(strm[s].todo),
                 strm' = [strm EXCEPT ![s] = next]
          PROVE  Goal
      <4>1. strm'[s] = next
        BY <1>a, <3>2
      <4>2. PICK todo : todo = strm[s].todo
        OBVIOUS
      <4> QED
        BY <1>d, <2>10, <4>1, <4>2, SnapshotCovers
    <3> QED
      BY <2>5, <3>1, <3>2
  <2>11. CASE g \notin strm[s].todo /\ g # h
    <3>1. ~ToSnapshot(s, g, p, rows)
      BY <2>11 DEF ToSnapshot, h
    <3> QED
      BY <2>3, <2>9, <2>11, <3>1
  <2>12. CASE g \notin strm[s].todo /\ g = h
    <3>1. CASE Rank(rows, p) > to
      <4>1. Cardinality(list) > to
        BY <1>d, <2>4, <2>8, <2>12, <3>1
      <4>2. strm' = [strm EXCEPT ![s].offset = to]
        BY <1>d, <2>4, <2>5, <2>8, <2>12, <4>1
      <4>3. strm'[s].offset < Rank(rows, p)
        BY <1>d, <2>4, <2>6, <3>1, <4>2
      <4> QED
        BY <2>6, <2>12, <4>2, <4>3 DEF ToSnapshot
    <3>2. CASE ~(from < Rank(rows, p))
      <4>1. view[s][g][p] # tbl[p].stamp
        BY <2>7, <2>9, <2>12, <3>2
      <4>2. ~ToSnapshot(s, g, p, rows)
        BY <2>12, <3>2 DEF ToSnapshot, from
      <4> QED
        BY <2>3, <4>1, <4>2
    <3>3. CASE from < Rank(rows, p) /\ ~(Rank(rows, p) > to)
      <4>1. Rank(rows, p) <= to
        BY <1>d, <2>4, <3>3
      <4> QED
        BY <2>7, <2>9, <2>12, <3>3, <4>1
    <3> QED
      BY <3>1, <3>2, <3>3
  <2> QED
    BY <2>10, <2>11, <2>12
<1>3. CASE ReceiveChange(s)
  BY <1>1, <1>3, <1>b DEF ReceiveChange
<1>4. CASE CheckOverflow(s)
  <2>0. strm[s].at = "check" /\ targets' = targets
    BY <1>4 DEF CheckOverflow
  <2>1. CASE overflowed[s]
    <3>1. PICK next \in AfterSnapshot(targets[s]) : strm' = [strm EXCEPT ![s] = next]
      BY <1>4, <2>1 DEF CheckOverflow
    <3>2. strm'[s] = next
      BY <1>a, <3>1
    <3>3. PICK todo : todo = targets[s]
      OBVIOUS
    <3> QED
      BY <1>d, <2>0, <3>1, <3>2, <3>3, SnapshotCovers
  <2>2. CASE ~overflowed[s]
    <3>1. view' = view
      BY <1>4, <2>2 DEF CheckOverflow
    <3> QED
      BY <2>0, <2>2, <3>1 DEF FanOut, ToSnapshot
  <2> QED
    BY <2>1, <2>2
<1>5. ASSUME NEW h \in Targets, FanOut(s, h) PROVE Goal
  <2> DEFINE e == strm[s].event
  <2>0. /\ strm[s].at = "fanout" /\ targets' = targets
        /\ e \in UpsertEvents /\ e.kind = "upsert" /\ e.path \in Paths
    BY <1>5 DEF FanOut, NoDeletesComing, UpsertEvents, Events
  <2>1. ~CheckOverflow(s) /\ ~ToSnapshot(s, g, p, rows)
    BY <2>0 DEF CheckOverflow, ToSnapshot
  <2>2. ASSUME NEW k \in Targets, FanOut(s, k)
        PROVE  /\ conn = None
               /\ view' = [view EXCEPT ![s][k][e.path] =
                             IF Visible(k, e.path) > 0 THEN Visible(k, e.path)
                             ELSE @]
    BY <2>0, <2>2 DEF FanOut
  <2>3. ~(FanOut(s, g) /\ e.path = p)
    <3> SUFFICES ASSUME FanOut(s, g), e.path = p PROVE FALSE
      OBVIOUS
    <3>1. /\ conn = None
          /\ view' = [view EXCEPT ![s][g][p] =
                        IF Visible(g, p) > 0 THEN Visible(g, p) ELSE @]
      BY <2>2
    <3>2. view' = [view EXCEPT ![s][g][p] = tbl[p].stamp]
      BY <1>e, <3>1
    <3> QED
      BY <1>a, <1>c, <3>2
  <2>4. view'[s][g][p] = view[s][g][p]
    <3>1. ~(g = h /\ e.path = p)
      BY <1>5, <2>3
    <3>2. PICK n : view' = [view EXCEPT ![s][h][e.path] = n]
      BY <1>5, <2>2
    <3> QED
      BY <1>a, <1>c, <2>0, <3>1, <3>2
  <2> QED
    BY <2>0, <2>1, <2>3, <2>4 DEF ChangesOf
<1>6. CASE OpenStream(s) \/ Cancel(s)
  BY <1>1, <1>6, <1>b DEF OpenStream, Cancel
<1>7. CASE HandlerReturns(s)
  BY <1>a, <1>7 DEF HandlerReturns
<1>8. ASSUME NEW h \in Targets, AddTarget(s, h) PROVE Goal
  <2>1. /\ view' = [view EXCEPT ![s][h] = NoDocs[h]] /\ strm[s].at = "select"
        /\ targets'[s] = targets[s] \cup {h}
        /\ strm'[s] = [at |-> "snapshot", target |-> h, offset |-> 0, todo |-> {}]
    BY <1>a, <1>b, <1>8 DEF AddTarget
  <2>2. CASE g = h
    <3>1. strm'[s].at = "snapshot" /\ strm'[s].target = g /\ strm'[s].offset = 0
      BY <2>1, <2>2
    <3> QED
      BY <1>d, <3>1 DEF ToSnapshot
  <2>3. CASE g # h
    <3>1. view'[s][g][p] = view[s][g][p] /\ g \in targets[s]
      BY <1>a, <1>c, <2>1, <2>3
    <3> QED
      BY <1>1, <2>1, <3>1
  <2> QED
    BY <2>2, <2>3
<1>9. ASSUME NEW h \in Targets, RemoveTarget(s, h) PROVE Goal
  <2>1. /\ view' = [view EXCEPT ![s][h] = NoDocs[h]] /\ strm[s].at = "select"
        /\ targets'[s] = targets[s] \ {h}
    BY <1>a, <1>b, <1>9 DEF RemoveTarget
  <2>2. view'[s][g][p] = view[s][g][p] /\ g \in targets[s]
    BY <1>a, <1>c, <2>1
  <2> QED
    BY <1>1, <2>1, <2>2
<1> HIDE DEF Goal
<1> QED
  BY <1>2, <1>3, <1>4, <1>5, <1>6, <1>7, <1>8, <1>9 DEF HandlerStep, StreamStep

\* An event announced for p is announced among the changes of p.
LEMMA OutgoingMore ==
  ASSUME NEW E, NEW F, E \subseteq F
  PROVE  /\ Announced(E)' => Announced(F)'
         /\ Outgoing(E)' => Outgoing(F)'
BY DEF Outgoing, Announced, OnWay

\* A write that is no delete moves no row out of the pages to come.
LEMMA WrittenRows ==
  ASSUME NEW tbl \in Table, NEW w \in Writes, NEW n \in Nat \ {0}, ~IsDelete(w),
         NEW s \in Streams, HandlerTypes, NEW g \in Targets,
         NEW p \in TargetPaths[g], Exists(tbl, p),
         ToSnapshot(s, g, p, RowsOf(tbl, g))
  PROVE  ToSnapshot(s, g, p, RowsOf(Apply(tbl, w, n), g))
<1> DEFINE rows == RowsOf(tbl, g)
           more == RowsOf(Apply(tbl, w, n), g)
<1>0. EventOf(w).kind = "upsert"
  BY DEF EventOf
<1>1. \A q \in Paths : Exists(tbl, q) => Exists(Apply(tbl, w, n), q)
  <2> SUFFICES ASSUME NEW q \in Paths, Exists(tbl, q)
               PROVE  Exists(Apply(tbl, w, n), q)
    OBVIOUS
  <2>1. Deletion(q).kind = "delete"
    BY DEF Deletion
  <2>2. Exists(Apply(tbl, w, n), q) \/ EventOf(w) = Deletion(q)
    BY ApplyExists
  <2> QED
    BY <1>0, <2>1, <2>2
<1>2. p \in Paths /\ TargetPaths[g] \in SUBSET Paths
  BY ListenAssumption
<1>3. rows \subseteq more
  BY <1>1, <1>2 DEF RowsOf
<1>4. /\ rows \in SUBSET Paths /\ p \in rows /\ Rank(rows, p) \in Nat
  BY RowsRank
<1>5. more \in SUBSET Paths /\ p \in more /\ Rank(more, p) \in Nat
  BY <1>1, <1>2, RowsRank
<1> HIDE DEF rows, more
<1>6. Rank(rows, p) <= Rank(more, p)
  BY <1>3, <1>4, <1>5, RankGrows
<1>7. strm[s].at = "snapshot" => strm[s].offset \in Nat
  BY StreamFields DEF HandlerTypes
<1>8. ToSnapshot(s, g, p, rows)
  BY DEF rows
<1>9. ToSnapshot(s, g, p, more)
  <2>1. CASE g \in strm[s].todo
    BY <1>8, <2>1 DEF ToSnapshot
  <2>2. CASE g \notin strm[s].todo
    <3>1. /\ strm[s].at = "snapshot" /\ g = strm[s].target
          /\ strm[s].offset < Rank(rows, p)
      BY <1>8, <2>2 DEF ToSnapshot
    <3>2. strm[s].offset < Rank(more, p)
      BY <1>4, <1>5, <1>6, <1>7, <3>1
    <3> QED
      BY <3>1, <3>2 DEF ToSnapshot
  <2> QED
    BY <2>1, <2>2
<1> QED
  BY <1>9 DEF more

\* What Brought says of one of the two tables.
BroughtFrom(s, g, p, tbl, arriving) ==
  Exists(tbl, p) /\ view[s][g][p] # tbl[p].stamp =>
    arriving \/ Coming(s, g, ChangesOf(p)) \/ ToSnapshot(s, g, p, RowsOf(tbl, g))

\* A committed write, a rollback or a commit leaves an announcement for every
\* document that it changes.
LEMMA BroughtByStore ==
  ASSUME TypeOK, HandlerTypes, Effect, UNCHANGED listenVars,
         TypeOK', NoDeletesAsked', hub' \in Seq(UpsertEvents),
         NEW s \in Streams, NEW g \in Targets, NEW p \in TargetPaths[g],
         Brought(s, g, p)
  PROVE  Brought(s, g, p)'
<1> DEFINE E == ChangesOf(p)
<1>a. db \in Table /\ work \in Table /\ p \in Paths
  BY ListenAssumption DEF TypeOK
<1>b. /\ Coming(s, g, E) => Coming(s, g, E)'
      /\ view' = view /\ strm' = strm
  BY ComingSame DEF listenVars
<1>c. /\ Announced(E) => Announced(E)'
      /\ Announced(E)' => Outgoing(E)'
  BY DEF Effect, AnnouncedKept, Outgoing
<1>d. /\ BroughtFrom(s, g, p, db, Announced(E))
      /\ BroughtFrom(s, g, p, work, Outgoing(E))
  BY DEF Brought, BroughtFrom
<1>e. ASSUME NEW tbl, \/ Announced(E)' \/ Coming(s, g, E)'
                      \/ ToSnapshot(s, g, p, RowsOf(tbl, g))
                      \/ ~Exists(tbl, p) \/ view[s][g][p] = tbl[p].stamp
      PROVE  /\ db' = tbl => BroughtFrom(s, g, p, db, Announced(E))'
             /\ work' = tbl => BroughtFrom(s, g, p, work, Outgoing(E))'
  BY <1>b, <1>c, <1>e DEF BroughtFrom, ToSnapshot, RowsOf, Exists, Rank
<1>f. ASSUME NEW tbl, \/ Outgoing(E)' \/ Coming(s, g, E)'
                      \/ ToSnapshot(s, g, p, RowsOf(tbl, g))
                      \/ ~Exists(tbl, p) \/ view[s][g][p] = tbl[p].stamp
      PROVE  work' = tbl => BroughtFrom(s, g, p, work, Outgoing(E))'
  BY <1>b, <1>f DEF BroughtFrom, ToSnapshot, RowsOf, Exists, Rank
<1>g. SUFFICES /\ BroughtFrom(s, g, p, db, Announced(E))'
               /\ BroughtFrom(s, g, p, work, Outgoing(E))'
  BY DEF Brought, BroughtFrom
<1>h. ASSUME NEW w \in Writes, w.path = p
      PROVE  EventOf(w) \in ChangesOf(p) /\ {EventOf(w)} \subseteq ChangesOf(p)
  BY <1>h, EventType DEF ChangesOf, EventOf
<1> HIDE DEF E
<1>1. CASE Quiet
  BY <1>1, <1>b, <1>c, <1>d, <1>e, <1>f DEF Quiet, OutgoingKept, BroughtFrom, E
<1>2. CASE Undone
  BY <1>2, <1>b, <1>c, <1>d, <1>e DEF Undone, BroughtFrom, E
<1>3. CASE Committed
  BY <1>3, <1>b, <1>c, <1>d, <1>e DEF Committed, BroughtFrom, E
<1>4. ASSUME NEW w \in Writes, NEW n \in Nat \ {0}, WroteThrough(w, n)
      PROVE  /\ BroughtFrom(s, g, p, db, Announced(E))'
             /\ BroughtFrom(s, g, p, work, Outgoing(E))'
  <2>1. Announced({EventOf(w)})' /\ db' = Apply(db, w, n) /\ work' = db'
    BY <1>4 DEF WroteThrough
  <2>2. Outgoing({EventOf(w)})'
    BY <2>1 DEF Outgoing
  <2>3. ~IsDelete(w)
    <3>1. EventOf(w).kind = "upsert"
      BY <2>2, OutgoingUpsert
    <3> QED
      BY <3>1 DEF EventOf
  <2>4. CASE w.path = p
    <3>1. Announced(E)'
      BY <1>h, <2>1, <2>4, OutgoingMore DEF E
    <3> QED
      BY <1>c, <3>1 DEF BroughtFrom
  <2>5. CASE w.path # p
    <3>1. Apply(db, w, n)[p] = db[p]
      BY <1>a, <2>5, ApplyExists
    <3>2. Exists(db, p) /\ ToSnapshot(s, g, p, RowsOf(db, g)) =>
            ToSnapshot(s, g, p, RowsOf(Apply(db, w, n), g))
      BY <1>a, <2>3, WrittenRows
    <3>3. \/ Announced(E)' \/ Coming(s, g, E)'
          \/ ToSnapshot(s, g, p, RowsOf(Apply(db, w, n), g))
          \/ ~Exists(Apply(db, w, n), p)
          \/ view[s][g][p] = Apply(db, w, n)[p].stamp
      BY <1>b, <1>c, <1>d, <3>1, <3>2 DEF BroughtFrom, Exists, E
    <3> QED
      BY <1>e, <2>1, <3>3
  <2> QED
    BY <2>4, <2>5
<1>5. ASSUME NEW w \in Writes, NEW n \in Nat \ {0}, WroteOpen(w, n)
      PROVE  /\ BroughtFrom(s, g, p, db, Announced(E))'
             /\ BroughtFrom(s, g, p, work, Outgoing(E))'
  <2>1. /\ Outgoing({EventOf(w)})' /\ db' = db /\ work' = Apply(work, w, n)
        /\ Outgoing(E) => Outgoing(E)'
    BY <1>5 DEF WroteOpen, OutgoingKept
  <2>2. BroughtFrom(s, g, p, db, Announced(E))'
    BY <1>b, <1>c, <1>d, <1>e, <2>1 DEF BroughtFrom, E
  <2>3. ~IsDelete(w)
    <3>1. EventOf(w).kind = "upsert"
      BY <2>1, OutgoingUpsert
    <3> QED
      BY <3>1 DEF EventOf
  <2>4. CASE w.path = p
    <3>1. Outgoing(E)'
      BY <1>h, <2>1, <2>4, OutgoingMore DEF E
    <3> QED
      BY <2>2, <3>1 DEF BroughtFrom
  <2>5. CASE w.path # p
    <3>1. Apply(work, w, n)[p] = work[p]
      BY <1>a, <2>5, ApplyExists
    <3>2. Exists(work, p) /\ ToSnapshot(s, g, p, RowsOf(work, g)) =>
            ToSnapshot(s, g, p, RowsOf(Apply(work, w, n), g))
      BY <1>a, <2>3, WrittenRows
    <3>3. \/ Outgoing(E)' \/ Coming(s, g, E)'
          \/ ToSnapshot(s, g, p, RowsOf(Apply(work, w, n), g))
          \/ ~Exists(Apply(work, w, n), p)
          \/ view[s][g][p] = Apply(work, w, n)[p].stamp
      BY <1>b, <1>d, <2>1, <3>1, <3>2 DEF BroughtFrom, Exists, E
    <3> QED
      BY <1>f, <2>1, <2>2, <3>3
  <2> QED
    BY <2>4, <2>5
<1> QED
  BY <1>1, <1>2, <1>3, <1>4, <1>5 DEF Effect

\* No step of the dispatcher or of a handler loses a write.
LEMMA BroughtByListeners ==
  ASSUME AlwaysMatches, TypeOK, NoLeakedConnection, HandlerTypes, ViewsOwned,
         Stamped(db), NoDeletesComing,
         DispatchStep \/ \E u \in Streams : HandlerStep(u) \/ StreamStep(u),
         NEW s \in Streams, NEW g \in Targets, g \in targets'[s],
         NEW p \in TargetPaths[g], g \in targets[s] => Brought(s, g, p)
  PROVE  Brought(s, g, p)'
<1> DEFINE E == ChangesOf(p)
<1>0. UNCHANGED <<db, work, conn, calls>>
  <2>1. CASE DispatchStep
    BY <2>1 DEF DispatchStep, DispatchBegin, TakeChange, DispatchOffer,
                DispatchRaise, vars, dbVars
  <2>2. ASSUME NEW u \in Streams, HandlerStep(u) \/ StreamStep(u)
        PROVE  UNCHANGED <<db, work, conn, calls>>
    BY <2>2, StreamsApart DEF vars
  <2> QED
    BY <2>1, <2>2
<1>a. /\ p \in Paths /\ E \in SUBSET Events
      /\ \A e \in E : e.path \in TargetPaths[g]
  BY ListenAssumption DEF ChangesOf
<1>b. g \in targets[s] => Open(s) /\ Subscribed(s)
  BY DEF ViewsOwned, Open, Subscribed
<1>c. /\ Announced(E)' => Outgoing(E)'
      /\ Outgoing(E) => Announced(E) \/ Outgoing(E)'
  BY <1>0, OutgoingSame DEF Outgoing
<1>d. g \in targets[s] => /\ BroughtFrom(s, g, p, db, Announced(E))
                          /\ BroughtFrom(s, g, p, work, Outgoing(E))
  BY DEF Brought, BroughtFrom
<1>e. ASSUME NEW tbl, \/ Announced(E)' \/ Coming(s, g, E)'
                      \/ ToSnapshot(s, g, p, RowsOf(tbl, g))'
                      \/ ~Exists(tbl, p) \/ view'[s][g][p] = tbl[p].stamp
      PROVE  tbl = db => BroughtFrom(s, g, p, db, Announced(E))'
  BY <1>0, <1>e DEF BroughtFrom, ToSnapshot, RowsOf, Exists, Rank
<1>f. ASSUME NEW tbl, \/ Outgoing(E)' \/ Coming(s, g, E)'
                      \/ ToSnapshot(s, g, p, RowsOf(tbl, g))'
                      \/ ~Exists(tbl, p) \/ view'[s][g][p] = tbl[p].stamp
      PROVE  tbl = work => BroughtFrom(s, g, p, work, Outgoing(E))'
  BY <1>0, <1>f DEF BroughtFrom, ToSnapshot, RowsOf, Exists, Rank
<1>g. SUFFICES /\ BroughtFrom(s, g, p, db, Announced(E))'
               /\ BroughtFrom(s, g, p, work, Outgoing(E))'
  BY DEF Brought, BroughtFrom
<1> HIDE DEF E
<1>1. ASSUME g \in targets[s], view'[s] = view[s], strm'[s] = strm[s],
             Announced(E) \/ Coming(s, g, E) => Announced(E)' \/ Coming(s, g, E)'
      PROVE  /\ BroughtFrom(s, g, p, db, Announced(E))'
             /\ BroughtFrom(s, g, p, work, Outgoing(E))'
  <2>1. \A rows : ToSnapshot(s, g, p, rows) => ToSnapshot(s, g, p, rows)'
    BY <1>1 DEF ToSnapshot
  <2>2. PICK tbl : tbl = db
    OBVIOUS
  <2>3. PICK tbw : tbw = work
    OBVIOUS
  <2>4. \/ Announced(E)' \/ Coming(s, g, E)'
        \/ ToSnapshot(s, g, p, RowsOf(tbl, g))'
        \/ ~Exists(tbl, p) \/ view'[s][g][p] = tbl[p].stamp
    BY <1>1, <1>d, <2>1, <2>2 DEF BroughtFrom, E
  <2>5. \/ Outgoing(E)' \/ Coming(s, g, E)'
        \/ ToSnapshot(s, g, p, RowsOf(tbw, g))'
        \/ ~Exists(tbw, p) \/ view'[s][g][p] = tbw[p].stamp
    BY <1>1, <1>c, <1>d, <2>1, <2>3 DEF BroughtFrom, E
  <2> QED
    BY <1>e, <1>f, <2>2, <2>3, <2>4, <2>5
<1>2. CASE DispatchStep
  <2>1. UNCHANGED <<targets, view, strm>>
    BY <1>2 DEF DispatchStep, DispatchBegin, DispatchOffer, DispatchRaise,
                handlerVars
  <2>2. Announced(E) \/ Coming(s, g, E) => Announced(E)' \/ Coming(s, g, E)'
    BY <1>2, <1>a, <1>b, <2>1, DispatchCarries
  <2> QED
    BY <1>1, <2>1, <2>2
<1>3. ASSUME NEW u \in Streams, HandlerStep(u) \/ StreamStep(u), u # s
      PROVE  /\ BroughtFrom(s, g, p, db, Announced(E))'
             /\ BroughtFrom(s, g, p, work, Outgoing(E))'
  <2>1. /\ UNCHANGED <<vars, disp>>
        /\ ch'[s] = ch[s] /\ overflowed'[s] = overflowed[s]
        /\ strm'[s] = strm[s] /\ targets'[s] = targets[s] /\ view'[s] = view[s]
    BY <1>3, StreamsApart
  <2>2. Coming(s, g, E) => Coming(s, g, E)'
    BY <2>1, ComingSame
  <2>3. Announced(E) => Announced(E)'
    BY <2>1, AnnouncedSame DEF vars
  <2> QED
    BY <1>1, <2>1, <2>2, <2>3
<1>4. ASSUME HandlerStep(s) \/ StreamStep(s)
      PROVE  /\ BroughtFrom(s, g, p, db, Announced(E))'
             /\ BroughtFrom(s, g, p, work, Outgoing(E))'
  <2>0. Announced(E) => Announced(E)'
    BY <1>4, AnnouncedSame, StreamsApart DEF vars
  <2>1. ASSUME NEW tbl, conn = None => tbl = db, Exists(tbl, p),
               view'[s][g][p] # tbl[p].stamp
        PROVE  \/ ToSnapshot(s, g, p, RowsOf(tbl, g))'
               \/ /\ g \in targets[s]
                  /\ view[s][g][p] # tbl[p].stamp
                  /\ ~ToSnapshot(s, g, p, RowsOf(tbl, g))
                  /\ Coming(s, g, E) => Coming(s, g, E)'
    <3>0. PICK rows : rows = RowsOf(tbl, g)
      OBVIOUS
    <3>1. \/ ToSnapshot(s, g, p, rows)'
          \/ /\ g \in targets[s]
             /\ view[s][g][p] # tbl[p].stamp
             /\ ~ToSnapshot(s, g, p, rows)
             /\ ~(CheckOverflow(s) /\ overflowed[s])
             /\ ~(FanOut(s, g) /\ strm[s].event \in E)
      BY <1>4, <2>1, <3>0, ViewLacks DEF E
    <3>2. CASE ToSnapshot(s, g, p, rows)'
      BY <3>0, <3>2 DEF ToSnapshot, RowsOf, Exists, Rank
    <3>3. CASE /\ g \in targets[s]
               /\ view[s][g][p] # tbl[p].stamp
               /\ ~ToSnapshot(s, g, p, rows)
               /\ ~(CheckOverflow(s) /\ overflowed[s])
               /\ ~(FanOut(s, g) /\ strm[s].event \in E)
      <4>1. Coming(s, g, E) => Coming(s, g, E)'
        <5> SUFFICES ASSUME Coming(s, g, E) PROVE Coming(s, g, E)'
          OBVIOUS
        <5>1. \/ Coming(s, g, E)'
              \/ targets'[s] = {}
              \/ CheckOverflow(s) /\ overflowed[s]
              \/ FanOut(s, g) /\ strm[s].event \in E
          BY <1>4, <1>a, <1>b, <3>3, HandlerCarries
        <5> QED
          BY <3>3, <5>1
      <4> QED
        BY <3>0, <3>3, <4>1
    <3> QED
      BY <3>1, <3>2, <3>3
  <2>2. PICK tbl : tbl = db
    OBVIOUS
  <2>3. PICK tbw : tbw = work
    OBVIOUS
  <2>4. conn = None => tbl = db /\ tbw = db
    BY <2>2, <2>3 DEF NoLeakedConnection
  <2>5. \/ Announced(E)' \/ Coming(s, g, E)'
        \/ ToSnapshot(s, g, p, RowsOf(tbl, g))'
        \/ ~Exists(tbl, p) \/ view'[s][g][p] = tbl[p].stamp
    BY <1>d, <2>0, <2>1, <2>2, <2>4 DEF BroughtFrom, E
  <2>6. \/ Outgoing(E)' \/ Coming(s, g, E)'
        \/ ToSnapshot(s, g, p, RowsOf(tbw, g))'
        \/ ~Exists(tbw, p) \/ view'[s][g][p] = tbw[p].stamp
    BY <1>c, <1>d, <2>0, <2>1, <2>3, <2>4 DEF BroughtFrom, E
  <2> QED
    BY <1>e, <1>f, <2>2, <2>3, <2>5, <2>6
<1> QED
  BY <1>2, <1>3, <1>4

\* The invariant is preserved by every step that finds room in the channel.
LEMMA WritesStep ==
  ASSUME OnlyUpserts, AlwaysMatches, TypeOK, NoLeakedConnection, HandlerTypes,
         HubHasRoom, WritesInv, [ListenNext]_allVars
  PROVE  WritesInv'
<1>a. /\ ViewsOwned /\ Stamped(db) /\ Stamped(work)
      /\ NoDeletesAsked /\ NoDeletesComing
      /\ \A s \in Streams : \A g \in targets[s], p \in Paths :
           p \in TargetPaths[g] => Brought(s, g, p)
  BY DEF WritesInv
<1>b. TypeOK' /\ HandlerTypes'
  <2>1. [Next]_vars
    BY StoreStep DEF allVars
  <2> QED
    BY <2>1, TypeStep, ListenTypeStep
<1>c. \A s \in Streams : targets[s] \subseteq Targets /\ targets'[s] \subseteq Targets
  BY <1>b DEF HandlerTypes
<1>1. ViewsOwned' /\ NoDeletesAsked' /\ NoDeletesComing'
  BY <1>a, OwnedStep, ComingUpserts
<1>2. CASE StoreNext /\ UNCHANGED listenVars
  <2>1. Effect
    BY <1>2, StoreEffect
  <2>2. Stamped(db)' /\ Stamped(work)'
    BY <1>a, <2>1, StampedStep
  <2>3. hub' \in Seq(UpsertEvents)
    BY <1>1 DEF NoDeletesComing
  <2>4. ASSUME NEW s \in Streams, NEW g \in targets'[s], NEW p \in Paths,
               p \in TargetPaths[g]
        PROVE  Brought(s, g, p)'
    <3>1. g \in targets[s] /\ g \in Targets
      BY <1>2, <1>c DEF listenVars
    <3>2. Brought(s, g, p)
      BY <1>a, <2>4, <3>1
    <3> QED
      BY <1>1, <1>2, <1>b, <2>1, <2>3, <2>4, <3>1, <3>2, BroughtByStore
  <2> QED
    BY <1>1, <2>2, <2>4 DEF WritesInv
<1>3. CASE DispatchStep \/ \E u \in Streams : HandlerStep(u) \/ StreamStep(u)
  <2>1. UNCHANGED <<db, work>>
    <3>1. CASE DispatchStep
      BY <3>1 DEF DispatchStep, DispatchBegin, TakeChange, DispatchOffer,
                  DispatchRaise, vars, dbVars
    <3>2. ASSUME NEW u \in Streams, HandlerStep(u) \/ StreamStep(u)
          PROVE  UNCHANGED <<db, work>>
      BY <3>2, StreamsApart DEF vars
    <3> QED
      BY <1>3, <3>1, <3>2
  <2>2. Stamped(db)' /\ Stamped(work)'
    BY <1>a, <2>1 DEF Stamped, Exists
  <2>3. ASSUME NEW s \in Streams, NEW g \in targets'[s], NEW p \in Paths,
               p \in TargetPaths[g]
        PROVE  Brought(s, g, p)'
    <3>1. g \in Targets
      BY <1>c
    <3>2. g \in targets[s] => Brought(s, g, p)
      BY <1>a, <2>3
    <3> QED
      BY <1>3, <1>a, <2>3, <3>1, <3>2, BroughtByListeners
  <2> QED
    BY <1>1, <2>2, <2>3 DEF WritesInv
<1>4. CASE UNCHANGED allVars
  <2>1. ASSUME NEW s \in Streams, NEW g, NEW p, Brought(s, g, p)
        PROVE  Brought(s, g, p)'
    BY <1>4, <2>1 DEF allVars, vars, listenVars, Brought, Exists, Announced,
                      Outgoing, Coming, ToSnapshot, RowsOf, Rank, OnWay, At
  <2> QED
    BY <1>1, <1>4, <1>a, <2>1 DEF WritesInv, allVars, vars, listenVars, Stamped,
                                  Exists
<1> QED
  BY <1>2, <1>3, <1>4 DEF ListenNext

\* What the invariant says is on its way is pending.
LEMMA WritesPend ==
  ASSUME AlwaysMatches, TypeOK, HandlerTypes, WritesInv
  PROVE  WritesArrive
<1> SUFFICES ASSUME NEW s \in Streams, NEW g \in targets[s], NEW p \in Paths,
                    Visible(g, p) > 0, view[s][g][p] # Visible(g, p)
             PROVE  Pending(s, g, p)
  BY DEF WritesArrive
<1>1. g \in Targets /\ Stamped(db)
  BY DEF HandlerTypes, WritesInv
<1>2. p \in TargetPaths[g] /\ Exists(db, p) /\ Visible(g, p) = db[p].stamp
  BY <1>1, ListedRows
<1>3. Brought(s, g, p)
  BY <1>2 DEF WritesInv
<1>4. \/ Announced(ChangesOf(p)) \/ Coming(s, g, ChangesOf(p))
      \/ ToSnapshot(s, g, p, RowsOf(db, g))
  BY <1>2, <1>3 DEF Brought
<1>5. \A e \in ChangesOf(p) : e.path = p
  BY DEF ChangesOf
<1> QED
  BY <1>4, <1>5 DEF Announced, Coming, ToSnapshot, OnWay, Pending, InFlight

(***************************************************************************)
(* Every committed write reaches every client with a target for it, in     *)
(* whatever order it meets other writes, rollbacks, refetches, pages of    *)
(* snapshots and overflows of the registry.                                *)
(***************************************************************************)
THEOREM WritesAlwaysArrive ==
  OnlyUpserts /\ AlwaysMatches /\ ListenSpec /\ []HubHasRoom => []WritesArrive
<1> SUFFICES ASSUME OnlyUpserts, AlwaysMatches
             PROVE  ListenSpec /\ []HubHasRoom => []WritesArrive
  BY DEF OnlyUpserts, AlwaysMatches
<1>1. ListenInit => WritesInv
  <2> SUFFICES ASSUME ListenInit PROVE WritesInv
    OBVIOUS
  <2>1. \A c \in Calls : Deleteless(calls[c])
    BY DeletelessStates DEF ListenInit, Init
  <2>2. NoDeletesComing
    <3>1. <<>> \in Seq(UpsertEvents)
      OBVIOUS
    <3> QED
      BY <3>1 DEF ListenInit, Init, NoDeletesComing, Resting, Closed
  <2> QED
    BY <2>1, <2>2 DEF ListenInit, Init, NoRow, WritesInv, ViewsOwned, Stamped,
                      Exists, NoDeletesAsked
<1>2. ASSUME TypeOK, NoLeakedConnection, HandlerTypes, HubHasRoom, WritesInv,
             [ListenNext]_allVars
      PROVE  WritesInv'
  BY <1>2, WritesStep
<1>3. TypeOK /\ HandlerTypes /\ WritesInv => WritesArrive
  BY WritesPend
<1>4. ListenTypeOK => TypeOK /\ HandlerTypes
  BY DEF HandlerTypes, ListenTypeOK
<1> QED
  BY <1>1, <1>2, <1>3, <1>4, ListenTypeCorrect, ListenImplementsStore,
     ConnectionNeverLeaks, PTL DEF ListenSpec

=============================================================================
