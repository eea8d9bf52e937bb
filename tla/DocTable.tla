------------------------------ MODULE DocTable ------------------------------
(***************************************************************************)
(* The documents table both storage adapters keep, and what one write does *)
(* to it.  A row is abstracted to                                          *)
(*                                                                         *)
(*   version  the OCC counter of the row; 0 when there is no row.  An      *)
(*            INSERT stores 1 and every later write version + 1, so both   *)
(*            are "version + 1" here.                                      *)
(*   stamp    the identity of the write whose data and updated_at the row  *)
(*            holds (0 when there is no row)                               *)
(*   epoch    how many times the row has been deleted.  The code has no    *)
(*            such column: it is history, and lets a property tell a row   *)
(*            from its re-creation.                                        *)
(***************************************************************************)
EXTENDS Naturals

CONSTANT Paths

Row == [version : Nat, epoch : Nat, stamp : Nat]

NoRow == [version |-> 0, epoch |-> 0, stamp |-> 0]

Table == [Paths -> Row]

Exists(tbl, p) == tbl[p].version > 0

(***************************************************************************)
(* The writes of a request, after the handlers have turned preconditions   *)
(* into write modes: exists=true is "update", exists=false is "insert", an *)
(* update_time precondition is "updateIf" (at is the stamp the client      *)
(* expects), and a delete that must find its document is "deleteExisting". *)
(***************************************************************************)
PlainKinds == {"upsert", "update", "insert", "delete", "deleteExisting"}

Writes == [kind : PlainKinds, path : Paths]
            \cup [kind : {"updateIf"}, path : Paths, at : Nat]

IsDelete(w) == w.kind \in {"delete", "deleteExisting"}

\* NotFound, AlreadyExists or FailedPrecondition: the write changes nothing.
WriteFails(tbl, w) ==
  \/ w.kind \in {"update", "deleteExisting"} /\ ~Exists(tbl, w.path)
  \/ w.kind = "insert" /\ Exists(tbl, w.path)
  \/ w.kind = "updateIf" /\ (~Exists(tbl, w.path) \/ tbl[w.path].stamp # w.at)

\* Mutant of Put: an UPDATE that leaves the version alone.
PutSameVersion(r, s) ==
  [version |-> IF r.version = 0 THEN 1 ELSE r.version, epoch |-> r.epoch,
   stamp |-> s]

\* INSERT ... version 1, or UPDATE ... version + 1.
Put(r, s) == [version |-> r.version + 1, epoch |-> r.epoch, stamp |-> s]

\* DELETE: nothing happens to an absent row.
Drop(r) == IF r.version = 0 THEN r
           ELSE [version |-> 0, epoch |-> r.epoch + 1, stamp |-> 0]

\* The table after write w, whose data and update time are named by stamp s.
Apply(tbl, w, s) ==
  [tbl EXCEPT ![w.path] = IF IsDelete(w) THEN Drop(@) ELSE Put(@, s)]

(***************************************************************************)
(* store.DocChange: the event announcing a write.  Only the kind and the   *)
(* path matter to its consumers.                                           *)
(***************************************************************************)
Events == [kind : {"upsert", "delete"}, path : Paths]

EventOf(w) == [kind |-> IF IsDelete(w) THEN "delete" ELSE "upsert",
               path |-> w.path]

(***************************************************************************)
(* Row r2 is a later state of row r1: either the row was deleted in        *)
(* between, or its version did not decrease and an unchanged version means *)
(* an unchanged row.                                                       *)
(***************************************************************************)
Descends(r1, r2) ==
  \/ r1.epoch < r2.epoch
  \/ /\ r1.epoch = r2.epoch
     /\ r1.version <= r2.version
     /\ r1.version = r2.version => r1.stamp = r2.stamp

\* The same, with at least one write or delete in between.
Before(r1, r2) ==
  \/ r1.epoch < r2.epoch
  \/ r1.epoch = r2.epoch /\ r1.version < r2.version

=============================================================================
