------------------------------- MODULE PgFeed -------------------------------
(***************************************************************************)
(* The change feed of the PostgreSQL adapter.  A trigger sends one         *)
(* notification per changed row; PostgreSQL delivers them in commit order, *)
(* when the SQL transaction commits, to the connections that LISTEN at     *)
(* that moment.  Subscribe owns one such connection and forwards every     *)
(* notification into a channel with a send that waits while it is full.    *)
(* A lost connection loses what it had not delivered, and everything       *)
(* committed until Subscribe has connected and said LISTEN again.          *)
(*                                                                         *)
(* The delay between two connection attempts is left out, and so are the   *)
(* attempts that fail.                                                     *)
(***************************************************************************)
EXTENDS DocTable, Sequences, SequencesExt

CONSTANTS
  Subscribes,  \* FALSE: nobody subscribes, so there is no feed
  FeedCap,     \* capacity of the channel (64 in the code)
  MaxLosses    \* bound: how often the connection is lost

ASSUME FeedAssumption ==
  Subscribes \in BOOLEAN /\ FeedCap \in Nat \ {0} /\ MaxLosses \in Nat

VARIABLES
  feed,     \* "down", "connected", "listening", or "closed" for good
  losses,   \* connections lost so far
  notes,    \* notifications queued on the LISTEN connection
  pend,     \* the change Subscribe is sending: a sequence of length 0 or 1
  chan,     \* the channel
  seen,     \* history: the kind of the last change of p taken, per path
  missed    \* history: paths whose latest change Subscribe will never send

feedVars == <<feed, losses, notes, pend, chan, seen, missed>>

FeedTypeOK ==
  /\ feed \in {"down", "connected", "listening", "closed"}
  /\ losses \in 0 .. MaxLosses
  /\ notes \in Seq(Events)
  /\ pend \in {<<>>} \cup {<<e>> : e \in Events}
  /\ chan \in Seq(Events) /\ Len(chan) <= FeedCap
  /\ seen \in [Paths -> {"upsert", "delete"}]
  /\ missed \subseteq Paths

FeedInit ==
  /\ feed = IF Subscribes THEN "down" ELSE "closed"
  /\ losses = 0
  /\ notes = <<>>
  /\ pend = <<>>
  /\ chan = <<>>
  /\ seen = [p \in Paths |-> "delete"]
  /\ missed = {}

PathsOf(events) == {events[i].path : i \in DOMAIN events}

\* notify_doc_change for every row a committing SQL transaction changed.
Announce(events) ==
  /\ IF feed = "listening"
       THEN notes' = notes \o events /\ missed' = missed \ PathsOf(events)
       ELSE UNCHANGED notes /\ missed' = missed \cup PathsOf(events)
  /\ UNCHANGED <<feed, losses, pend, chan, seen>>

-----------------------------------------------------------------------------
\* a.connect succeeds.
FeedConnect ==
  /\ feed = "down"
  /\ feed' = "connected"
  /\ UNCHANGED <<losses, notes, pend, chan, seen, missed>>

\* Mutant of FeedListen: LISTEN is said once, before the reconnect loop.
FeedListenOnce ==
  /\ feed = "connected"
  /\ losses = 0
  /\ feed' = "listening"
  /\ UNCHANGED <<losses, notes, pend, chan, seen, missed>>

\* LISTEN doc_changes, on every new connection.
FeedListen ==
  /\ feed = "connected"
  /\ feed' = "listening"
  /\ UNCHANGED <<losses, notes, pend, chan, seen, missed>>

\* WaitForNotification returns one.
FeedWait ==
  /\ feed = "listening"
  /\ pend = <<>>
  /\ notes # <<>>
  /\ pend' = <<Head(notes)>>
  /\ notes' = Tail(notes)
  /\ UNCHANGED <<feed, losses, chan, seen, missed>>

\* Mutant of FeedSend: the channel has no bound.
FeedSendUnbounded ==
  /\ pend # <<>>
  /\ feed # "closed"
  /\ chan' = chan \o pend
  /\ pend' = <<>>
  /\ UNCHANGED <<feed, losses, notes, seen, missed>>

\* Mutant of FeedSend: a full channel drops the change.
FeedSendOrDrop ==
  /\ pend # <<>>
  /\ chan' = IF Len(chan) < FeedCap THEN chan \o pend ELSE chan
  /\ pend' = <<>>
  /\ UNCHANGED <<feed, losses, notes, seen, missed>>

\* ch <- c waits while the channel is full.
FeedSend ==
  /\ pend # <<>>
  /\ feed # "closed"
  /\ Len(chan) < FeedCap
  /\ chan' = chan \o pend
  /\ pend' = <<>>
  /\ UNCHANGED <<feed, losses, notes, seen, missed>>

(***************************************************************************)
(* The connection breaks, or LISTEN fails.  The goroutine notices at its   *)
(* next use of the connection and keeps the change it is sending.          *)
(***************************************************************************)
FeedLose ==
  /\ feed \in {"connected", "listening"}
  /\ losses < MaxLosses
  /\ losses' = losses + 1
  /\ feed' = "down"
  /\ notes' = <<>>
  /\ missed' = missed \cup PathsOf(notes)
  /\ UNCHANGED <<pend, chan, seen>>

\* The subscriber (the server's dispatcher) receives from the channel.
FeedTake ==
  /\ chan # <<>>
  /\ chan' = Tail(chan)
  /\ seen' = [seen EXCEPT ![Head(chan).path] = Head(chan).kind]
  /\ UNCHANGED <<feed, losses, notes, pend, missed>>

\* The context is cancelled: the goroutine gives up its change and leaves.
FeedClose ==
  /\ feed # "closed"
  /\ feed' = "closed"
  /\ notes' = <<>>
  /\ pend' = <<>>
  /\ missed' = missed \cup PathsOf(notes) \cup PathsOf(pend)
  /\ UNCHANGED <<losses, chan, seen>>

\* Subscribe's goroutine on its own, with a database that can be reached.
FeedStep == FeedConnect \/ FeedListen \/ FeedWait \/ FeedSend

FeedNext == FeedStep \/ FeedLose \/ FeedTake \/ FeedClose

\* Everything between the trigger and the subscriber, oldest first.
InFlight == chan \o pend \o notes

=============================================================================
