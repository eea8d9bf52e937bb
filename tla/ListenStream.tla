---------------------------- MODULE ListenStream ----------------------------
(***************************************************************************)
(* Real-time delivery: the adapter's subscriber channel, the dispatcher    *)
(* goroutine of Server.Run, the registry that fans events out to one       *)
(* bounded channel per Listen stream, the Listen handler, and what its     *)
(* client has been told.  Composed with SqliteStore, whose writes emit the *)
(* events and whose single connection every read of the handler waits for. *)
(*                                                                         *)
(* A target covers a set of paths: a documents target lists them, a query  *)
(* target is a collection with a filter.  Whether a document matches the   *)
(* filter is a matter of its data, that is, of its stamp.  A documents     *)
(* target lists at least one path: without any, the code takes it for a    *)
(* query, which it does not have (listen.go:82, 109-111).                  *)
(***************************************************************************)
EXTENDS SqliteStore, FiniteSets

CONSTANTS
  Streams,       \* slots for Listen streams
  Targets,       \* target ids clients may use
  TargetPaths,   \* TargetPaths[g]: the paths target g covers
  QueryTargets,  \* targets that are queries; the others list documents
  Unmatched,     \* stamps whose data no query filter matches
  PathOrder,     \* the paths in ORDER BY path order
  PageSize,      \* page size of a snapshot query (300 in the code)
  SubCap         \* capacity of a registry channel (64 in the code)

ASSUME ListenAssumption ==
  /\ TargetPaths \in [Targets -> SUBSET Paths]
  /\ QueryTargets \subseteq Targets
  /\ \A g \in Targets \ QueryTargets : TargetPaths[g] # {}
  /\ Unmatched \subseteq Nat
  /\ PathOrder \in Seq(Paths)
  /\ \A p \in Paths : \E i \in DOMAIN PathOrder : PathOrder[i] = p
  /\ PageSize \in Nat \ {0}
  /\ SubCap \in Nat \ {0}

VARIABLES
  disp,        \* where the dispatcher goroutine stands
  ch,          \* ch[s]: the registry channel of stream s
  overflowed,  \* overflowed[s]: the registry dropped a change for s
  strm,        \* strm[s]: where the Listen handler of s stands
  targets,     \* targets[s]: the targets map of that handler
  view         \* view[s][g][p]: stamp of p as the client last saw it in
               \* target g, 0 when it holds no such document

handlerVars == <<strm, targets, view>>
listenVars == <<disp, ch, overflowed, strm, targets, view>>
allVars == <<vars, listenVars>>

-----------------------------------------------------------------------------
(***************************************************************************)
(* The states of the dispatcher.                                           *)
(*   resting   waiting for a change                                        *)
(*   offering  in Registry.Dispatch, with the streams in todo left         *)
(*   raising   found the channel of stream full, about to raise its flag   *)
(* Dispatch holds the registry's read lock: subscribing and cancelling,    *)
(* which take the write lock, wait until the dispatcher rests.             *)
(***************************************************************************)
Resting == [at |-> "resting"]

DispatcherState ==
  {Resting}
    \cup [at : {"offering"}, event : Events, todo : SUBSET Streams]
    \cup [at : {"raising"}, event : Events, todo : SUBSET Streams,
          stream : Streams]

Locked == disp # Resting

(***************************************************************************)
(* The states of a Listen handler.                                         *)
(*   select    waiting for a request or a change                           *)
(*   check     has received a change, about to look at the overflow flag   *)
(*   fanout    delivering a change to the targets in todo                  *)
(*   snapshot  in deliverSnapshot for target, at an offset; the targets in *)
(*             todo are to be re-snapshot after it                         *)
(*   leaving   has returned; its deferred Cancel is still to run           *)
(***************************************************************************)
Closed == [at |-> "closed"]
Select == [at |-> "select"]
Leaving == [at |-> "leaving"]

StreamState ==
  {Closed, Select, Leaving}
    \cup [at : {"check"}, event : Events]
    \cup [at : {"fanout"}, event : Events, todo : SUBSET Targets]
    \cup [at : {"snapshot"}, target : Targets, offset : Nat,
          todo : SUBSET Targets]

\* The stream's subscription is in the registry and its channel is open.
Subscribed(s) == strm[s] # Closed

\* The client is still there.
Open(s) == strm[s] # Closed /\ strm[s] # Leaving

NoDocs == [g \in Targets |-> [p \in Paths |-> 0]]

ListenTypeOK ==
  /\ TypeOK
  /\ disp \in DispatcherState
  /\ ch \in [Streams -> Seq(Events)]
  /\ \A s \in Streams : Len(ch[s]) <= SubCap
  /\ overflowed \in [Streams -> BOOLEAN]
  /\ strm \in [Streams -> StreamState]
  /\ targets \in [Streams -> SUBSET Targets]
  /\ view \in [Streams -> [Targets -> [Paths -> Nat]]]

ListenInit ==
  /\ Init
  /\ disp = Resting
  /\ ch = [s \in Streams |-> <<>>]
  /\ overflowed = [s \in Streams |-> FALSE]
  /\ strm = [s \in Streams |-> Closed]
  /\ targets = [s \in Streams |-> {}]
  /\ view = [s \in Streams |-> NoDocs]

-----------------------------------------------------------------------------
(***************************************************************************)
(* The registry.                                                           *)
(***************************************************************************)

\* What is left of a Dispatch of event e.
StillOffering(e, todo) ==
  IF todo = {} THEN Resting
  ELSE [at |-> "offering", event |-> e, todo |-> todo]

\* The dispatcher receives a change and enters Dispatch.
DispatchBegin ==
  /\ disp = Resting
  /\ TakeChange
  /\ disp' = StillOffering(Head(hub), {s \in Streams : Subscribed(s)})
  /\ UNCHANGED <<ch, overflowed, handlerVars>>

\* Mutant of DispatchOffer: the channel takes one change too many.
DispatchOfferOneMore(s) ==
  /\ disp.at = "offering"
  /\ s \in disp.todo
  /\ \/ /\ Len(ch[s]) <= SubCap
        /\ ch' = [ch EXCEPT ![s] = Append(@, disp.event)]
        /\ disp' = StillOffering(disp.event, disp.todo \ {s})
     \/ /\ Len(ch[s]) > SubCap
        /\ disp' = [at |-> "raising", event |-> disp.event,
                    todo |-> disp.todo \ {s}, stream |-> s]
        /\ UNCHANGED ch
  /\ UNCHANGED <<vars, overflowed, handlerVars>>

\* One non-blocking send: a full channel drops the change.
DispatchOffer(s) ==
  /\ disp.at = "offering"
  /\ s \in disp.todo
  /\ \/ /\ Len(ch[s]) < SubCap
        /\ ch' = [ch EXCEPT ![s] = Append(@, disp.event)]
        /\ disp' = StillOffering(disp.event, disp.todo \ {s})
     \/ /\ Len(ch[s]) >= SubCap
        /\ disp' = [at |-> "raising", event |-> disp.event,
                    todo |-> disp.todo \ {s}, stream |-> s]
        /\ UNCHANGED ch
  /\ UNCHANGED <<vars, overflowed, handlerVars>>

\* The flag is stored after the failed send, in a step of its own.
DispatchRaise ==
  /\ disp.at = "raising"
  /\ overflowed' = [overflowed EXCEPT ![disp.stream] = TRUE]
  /\ disp' = StillOffering(disp.event, disp.todo)
  /\ UNCHANGED <<vars, ch, handlerVars>>

\* Listen is called: SubscribeWithSignal.
OpenStream(s) ==
  /\ strm[s] = Closed
  /\ ~Locked
  /\ strm' = [strm EXCEPT ![s] = Select]
  /\ UNCHANGED <<vars, disp, ch, overflowed, targets, view>>

\* The client goes away, or a Send or a read fails: the handler returns, and
\* the client will start from nothing.
HandlerReturns(s) ==
  /\ Open(s)
  /\ strm' = [strm EXCEPT ![s] = Leaving]
  /\ targets' = [targets EXCEPT ![s] = {}]
  /\ view' = [view EXCEPT ![s] = NoDocs]
  /\ UNCHANGED <<vars, disp, ch, overflowed>>

\* Mutant of Cancel: the channel is closed without the registry's lock.
CancelUnlocked(s) ==
  /\ strm[s] = Leaving
  /\ strm' = [strm EXCEPT ![s] = Closed]
  /\ ch' = [ch EXCEPT ![s] = <<>>]
  /\ overflowed' = [overflowed EXCEPT ![s] = FALSE]
  /\ UNCHANGED <<vars, disp, targets, view>>

\* The deferred Cancel leaves the registry under its lock, then closes the
\* channel; nobody can reach the channel between the two.
Cancel(s) ==
  /\ strm[s] = Leaving
  /\ ~Locked
  /\ strm' = [strm EXCEPT ![s] = Closed]
  /\ ch' = [ch EXCEPT ![s] = <<>>]
  /\ overflowed' = [overflowed EXCEPT ![s] = FALSE]
  /\ UNCHANGED <<vars, disp, targets, view>>

-----------------------------------------------------------------------------
(***************************************************************************)
(* The handler.                                                            *)
(***************************************************************************)

\* MatchesFilter; documents targets always forward.
Matches(g, p) == g \in QueryTargets => db[p].stamp \notin Unmatched

\* What a client with target g should be holding for p.
Visible(g, p) ==
  IF p \in TargetPaths[g] /\ Exists(db, p) /\ Matches(g, p)
  THEN db[p].stamp ELSE 0

\* After deliverSnapshot: the next target to re-snapshot, or the loop.
AfterSnapshot(todo) ==
  IF todo = {} THEN {Select}
  ELSE {[at |-> "snapshot", target |-> g, offset |-> 0, todo |-> todo \ {g}]
          : g \in todo}

\* An AddTarget request: REMOVE if the id is in use, ADD, then the snapshot.
AddTarget(s, g) ==
  /\ strm[s] = Select
  /\ targets' = [targets EXCEPT ![s] = @ \cup {g}]
  /\ view' = [view EXCEPT ![s][g] = NoDocs[g]]
  /\ strm' = [strm EXCEPT ![s] = [at |-> "snapshot", target |-> g,
                                  offset |-> 0, todo |-> {}]]
  /\ UNCHANGED <<vars, disp, ch, overflowed>>

\* A RemoveTarget request.
RemoveTarget(s, g) ==
  /\ strm[s] = Select
  /\ targets' = [targets EXCEPT ![s] = @ \ {g}]
  /\ view' = [view EXCEPT ![s][g] = NoDocs[g]]
  /\ UNCHANGED <<vars, disp, ch, overflowed, strm>>

\* Where p comes in ORDER BY path, and among the paths of a set.
Position(p) == CHOOSE i \in DOMAIN PathOrder : PathOrder[i] = p
Rank(set, p) == Cardinality({q \in set : Position(q) <= Position(p)})

\* The paths a snapshot has to go through, in that order.
Found(g) == {p \in Paths : Visible(g, p) > 0}
Listed(g) == IF g \in QueryTargets THEN Found(g) ELSE TargetPaths[g]

(***************************************************************************)
(* One statement of deliverSnapshot.  A documents target reads its paths   *)
(* one by one, skipping the missing ones; a query target reads a page of   *)
(* the rows that match now, from an OFFSET counted in rows that matched    *)
(* when the earlier pages were read.                                       *)
(***************************************************************************)
SnapshotStep(s) ==
  /\ strm[s].at = "snapshot"
  /\ conn = None
  /\ LET g == strm[s].target
         from == strm[s].offset
         rows == Listed(g)
         to == from + (IF g \in QueryTargets THEN PageSize ELSE 1)
         read == {p \in rows : from < Rank(rows, p) /\ Rank(rows, p) <= to}
     IN /\ view' = [view EXCEPT ![s][g] =
                      [p \in Paths |-> IF p \in read /\ Visible(g, p) > 0
                                       THEN Visible(g, p) ELSE @[p]]]
        /\ \/ /\ Cardinality(rows) > to
              /\ strm' = [strm EXCEPT ![s].offset = to]
           \/ /\ Cardinality(rows) <= to
              /\ \E next \in AfterSnapshot(strm[s].todo) :
                   strm' = [strm EXCEPT ![s] = next]
  /\ UNCHANGED <<vars, disp, ch, overflowed, targets>>

\* The loop receives a change.
ReceiveChange(s) ==
  /\ strm[s] = Select
  /\ ch[s] # <<>>
  /\ strm' = [strm EXCEPT ![s] = [at |-> "check", event |-> Head(ch[s])]]
  /\ ch' = [ch EXCEPT ![s] = Tail(@)]
  /\ UNCHANGED <<vars, disp, overflowed, targets, view>>

\* Mutant of CheckOverflow: the flag is cleared and nothing else is done.
CheckOverflowIgnored(s) ==
  /\ strm[s].at = "check"
  /\ LET covers == {g \in targets[s] : strm[s].event.path \in TargetPaths[g]}
     IN strm' = [strm EXCEPT ![s] =
                   IF covers = {} THEN Select
                   ELSE [at |-> "fanout", event |-> strm[s].event,
                         todo |-> covers]]
  /\ overflowed' = [overflowed EXCEPT ![s] = FALSE]
  /\ UNCHANGED <<vars, disp, ch, targets, view>>

\* Mutant of CheckOverflow: the targets are snapshot again without a RESET.
CheckOverflowNoReset(s) ==
  /\ strm[s].at = "check"
  /\ LET covers == {g \in targets[s] : strm[s].event.path \in TargetPaths[g]}
     IN IF overflowed[s]
          THEN \E next \in AfterSnapshot(targets[s]) :
                 strm' = [strm EXCEPT ![s] = next]
          ELSE strm' = [strm EXCEPT ![s] =
                 IF covers = {} THEN Select
                 ELSE [at |-> "fanout", event |-> strm[s].event,
                       todo |-> covers]]
  /\ overflowed' = [overflowed EXCEPT ![s] = FALSE]
  /\ UNCHANGED <<vars, disp, ch, targets, view>>

(***************************************************************************)
(* Overflowed() swaps the flag.  If it was set, RESET makes the client     *)
(* forget every target, all are snapshot again, and the change in hand is  *)
(* dropped; otherwise it goes to every target that covers its path.        *)
(***************************************************************************)
CheckOverflow(s) ==
  /\ strm[s].at = "check"
  /\ LET covers == {g \in targets[s] : strm[s].event.path \in TargetPaths[g]}
     IN IF overflowed[s]
          THEN /\ view' = [view EXCEPT ![s] = NoDocs]
               /\ \E next \in AfterSnapshot(targets[s]) :
                    strm' = [strm EXCEPT ![s] = next]
          ELSE /\ strm' = [strm EXCEPT ![s] =
                    IF covers = {} THEN Select
                    ELSE [at |-> "fanout", event |-> strm[s].event,
                          todo |-> covers]]
               /\ UNCHANGED view
  /\ overflowed' = [overflowed EXCEPT ![s] = FALSE]
  /\ UNCHANGED <<vars, disp, ch, targets>>

(***************************************************************************)
(* One target of the fan-out.  A delete is forwarded as it came; an upsert *)
(* is read again, and skipped if the document is gone or does not match.   *)
(***************************************************************************)
FanOut(s, g) ==
  /\ strm[s].at = "fanout"
  /\ g \in strm[s].todo
  /\ LET e == strm[s].event
         left == strm[s].todo \ {g}
     IN /\ \/ /\ e.kind = "delete"
              /\ view' = [view EXCEPT ![s][g][e.path] = 0]
           \/ /\ e.kind = "upsert"
              /\ conn = None
              /\ view' = [view EXCEPT ![s][g][e.path] =
                            IF Visible(g, e.path) > 0 THEN Visible(g, e.path)
                            ELSE @]
        /\ strm' = [strm EXCEPT ![s] =
                      IF left = {} THEN Select
                      ELSE [at |-> "fanout", event |-> e, todo |-> left]]
  /\ UNCHANGED <<vars, disp, ch, overflowed, targets>>

HandlerStep(s) ==
  \/ SnapshotStep(s)
  \/ ReceiveChange(s)
  \/ CheckOverflow(s)
  \/ \E g \in Targets : FanOut(s, g)

DispatchStep ==
  \/ DispatchBegin
  \/ \E s \in Streams : DispatchOffer(s)
  \/ DispatchRaise

StreamStep(s) ==
  \/ OpenStream(s)
  \/ HandlerReturns(s)
  \/ Cancel(s)
  \/ \E g \in Targets : AddTarget(s, g) \/ RemoveTarget(s, g)

ListenNext ==
  \/ StoreNext /\ UNCHANGED listenVars
  \/ DispatchStep
  \/ \E s \in Streams : HandlerStep(s) \/ StreamStep(s)

ListenSpec == ListenInit /\ [][ListenNext]_allVars

(***************************************************************************)
(* Fairness.  The goroutines of the server run, the connection goes round, *)
(* and Go's select picks at random among the ready cases, so a change that *)
(* waits is received however many requests the client sends.  Nothing is   *)
(* assumed of clients.                                                     *)
(***************************************************************************)
ListenLiveSpec ==
  /\ ListenSpec
  /\ \A c \in Calls : SF_allVars(CallStep(c) /\ UNCHANGED listenVars)
  /\ WF_allVars(DispatchStep)
  /\ \A s \in Streams : /\ SF_allVars(SnapshotStep(s))
                        /\ SF_allVars(ReceiveChange(s))
                        /\ WF_allVars(CheckOverflow(s))
                        /\ SF_allVars(\E g \in Targets : FanOut(s, g))
                        /\ WF_allVars(Cancel(s))

-----------------------------------------------------------------------------
(***************************************************************************)
(* A change is never sent to a closed channel, which would panic the       *)
(* server: a stream the dispatcher still has to serve is subscribed, while *)
(* handlers return, cancel and subscribe at any time.                      *)
(***************************************************************************)
NoSendOnClosed ==
  /\ disp.at \in {"offering", "raising"} =>
       \A s \in disp.todo : Subscribed(s)
  /\ disp.at = "raising" => Subscribed(disp.stream)

InFlight(events, p) == \E i \in DOMAIN events : events[i].path = p

\* Something on its way will make stream s look at path p in target g.
Pending(s, g, p) ==
  \/ \E c \in Calls : At(c, "notify") /\ InFlight(calls[c].out, p)
  \/ InFlight(hub, p)
  \/ disp.at # "resting" /\ disp.event.path = p /\ s \in disp.todo
  \/ disp.at = "raising" /\ disp.stream = s
  \/ InFlight(ch[s], p)
  \/ overflowed[s]
  \/ strm[s].at = "check" /\ strm[s].event.path = p
  \/ strm[s].at = "fanout" /\ strm[s].event.path = p /\ g \in strm[s].todo
  \/ strm[s].at = "snapshot" /\ g \in strm[s].todo \cup {strm[s].target}

(***************************************************************************)
(* Nothing stays with a client that its target does not cover any more: if *)
(* a client holds a document that is deleted, or no longer matches, then   *)
(* something on its way will remove it.  Refetches, snapshots and writes   *)
(* interleave, and the registry may drop changes.  (It takes an adapter    *)
(* channel that is never full, since that one drops without a trace, and   *)
(* data that always matches.)                                              *)
(***************************************************************************)
RemovalsArrive ==
  \A s \in Streams : Open(s) =>
    \A g \in targets[s], p \in Paths :
      Visible(g, p) = 0 /\ view[s][g][p] > 0 => Pending(s, g, p)

(***************************************************************************)
(* Every committed write reaches the client (contract.md:385): a document  *)
(* that a target should show is shown in its latest version, or something  *)
(* on its way will bring it.                                               *)
(***************************************************************************)
WritesArrive ==
  \A s \in Streams : Open(s) =>
    \A g \in targets[s], p \in Paths :
      Visible(g, p) > 0 /\ view[s][g][p] # Visible(g, p) => Pending(s, g, p)

UpToDate(s) ==
  \A g \in targets[s], p \in Paths : view[s][g][p] = Visible(g, p)

\* The flag is up and no change waits that would make the handler look at it.
Stranded(s) == overflowed[s] /\ ch[s] = <<>>

(***************************************************************************)
(* Again and again, a stream that stays open shows in every target what    *)
(* the documents table holds: drops, RESETs, snapshots of several pages    *)
(* and refetches in any order end with the client up to date.  There is    *)
(* one way to stay behind.  The flag of a dropped change is raised after   *)
(* the failed send (registry.go:86-89) and looked at only when a change is *)
(* received (listen.go:218-222): if the handler empties the channel in     *)
(* between, the loss is noticed with the next change, if there is one.     *)
(***************************************************************************)
ViewsCatchUp ==
  \A s \in Streams : []<>(~Open(s) \/ UpToDate(s)) \/ <>[]Stranded(s)

-----------------------------------------------------------------------------
(***************************************************************************)
(* The conditions under which RemovalsArrive and WritesArrive hold for     *)
(* every instance.  The adapter's channel, which drops without a trace,    *)
(* never fills; every document matches every filter; and, for              *)
(* WritesArrive, nothing is deleted: a deletion may be announced after the *)
(* document has been created again, and takes a row out of the pages that  *)
(* a snapshot has yet to read.                                             *)
(***************************************************************************)
HubHasRoom == Len(hub) < HubCap

AlwaysMatches == Unmatched = {}

NoDeletes(ws) == \A i \in DOMAIN ws : ~IsDelete(ws[i])

OnlyUpserts ==
  /\ \A w \in RpcWrites : ~IsDelete(w)
  /\ \A ws \in Batches \cup TxOps : NoDeletes(ws)

(***************************************************************************)
(* The inductive invariants behind them.  An event of set E is announced   *)
(* when it waits in a call past its commit or in the adapter's channel,    *)
(* outgoing when the open SQL transaction may still announce it, and       *)
(* coming when the registry or the handler of s has it for target g, or    *)
(* has lost it and raised the flag.                                        *)
(***************************************************************************)
OnWay(events, E) == \E i \in DOMAIN events : events[i] \in E

Announced(E) ==
  \/ \E c \in Calls : At(c, "notify") /\ OnWay(calls[c].out, E)
  \/ OnWay(hub, E)

Outgoing(E) ==
  \/ Announced(E)
  \/ conn # None /\ At(conn, "applying") /\ OnWay(calls[conn].out, E)

Coming(s, g, E) ==
  \/ disp.at # "resting" /\ disp.event \in E /\ s \in disp.todo
  \/ disp.at = "raising" /\ disp.stream = s
  \/ OnWay(ch[s], E)
  \/ overflowed[s]
  \/ strm[s].at = "check" /\ strm[s].event \in E
  \/ strm[s].at = "fanout" /\ strm[s].event \in E /\ g \in strm[s].todo

Deletion(p) == [kind |-> "delete", path |-> p]
ChangesOf(p) == {e \in Events : e.path = p}

\* A stream that has no client has no targets, and no row is without data.
ViewsOwned == \A s \in Streams : ~Open(s) => targets[s] = {}
Stamped(tbl) == \A p \in Paths : Exists(tbl, p) => tbl[p].stamp > 0

\* A client holds only what its target covers, and if that is deleted, in the
\* committed table or in the open SQL transaction, the deletion reaches it.
Removed(s, g, p) ==
  view[s][g][p] > 0 =>
    /\ p \in TargetPaths[g]
    /\ Exists(db, p) \/ Announced({Deletion(p)}) \/ Coming(s, g, {Deletion(p)})
    /\ Exists(work, p) \/ Outgoing({Deletion(p)}) \/ Coming(s, g, {Deletion(p)})

RemovalsInv ==
  /\ ViewsOwned
  /\ Stamped(db) /\ Stamped(work)
  /\ \A s \in Streams : \A g \in targets[s], p \in Paths : Removed(s, g, p)

\* The rows a snapshot of g lists when the table is tbl and everything matches,
\* and whether the snapshot that s is in will still come to p.
RowsOf(tbl, g) ==
  IF g \in QueryTargets THEN {p \in TargetPaths[g] : Exists(tbl, p)}
  ELSE TargetPaths[g]

ToSnapshot(s, g, p, rows) ==
  /\ strm[s].at = "snapshot"
  /\ \/ g \in strm[s].todo
     \/ g = strm[s].target /\ strm[s].offset < Rank(rows, p)

\* No deletion is requested, under way or announced.
UpsertEvents == {e \in Events : e.kind = "upsert"}

Deleteless(state) ==
  /\ state.at = "write" => ~IsDelete(state.w)
  /\ state.at = "commit" => NoDeletes(state.ops)
  /\ state.at \in {"applying", "batch"} => NoDeletes(state.todo)
  /\ state.at \in {"applying", "notify"} => state.out \in Seq(UpsertEvents)

NoDeletesAsked == \A c \in Calls : Deleteless(calls[c])

NoDeletesComing ==
  /\ hub \in Seq(UpsertEvents)
  /\ disp.at # "resting" => disp.event \in UpsertEvents
  /\ \A s \in Streams :
       /\ ch[s] \in Seq(UpsertEvents)
       /\ strm[s].at \in {"check", "fanout"} => strm[s].event \in UpsertEvents

\* A client holds the data a target should show, committed or not yet, or a
\* change or a snapshot will bring it.
Brought(s, g, p) ==
  /\ Exists(db, p) /\ view[s][g][p] # db[p].stamp =>
       \/ Announced(ChangesOf(p)) \/ Coming(s, g, ChangesOf(p))
       \/ ToSnapshot(s, g, p, RowsOf(db, g))
  /\ Exists(work, p) /\ view[s][g][p] # work[p].stamp =>
       \/ Outgoing(ChangesOf(p)) \/ Coming(s, g, ChangesOf(p))
       \/ ToSnapshot(s, g, p, RowsOf(work, g))

WritesInv ==
  /\ ViewsOwned
  /\ Stamped(db) /\ Stamped(work)
  /\ NoDeletesAsked /\ NoDeletesComing
  /\ \A s \in Streams : \A g \in targets[s], p \in Paths :
       p \in TargetPaths[g] => Brought(s, g, p)

=============================================================================
