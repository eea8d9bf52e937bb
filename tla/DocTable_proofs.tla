-------------------------- MODULE DocTable_proofs --------------------------
(***************************************************************************)
(* Facts about rows and writes that the proofs about both adapters use:    *)
(* descent is a preorder, and every write leaves rows that descend from    *)
(* the ones it found.                                                      *)
(***************************************************************************)
EXTENDS DocTable, TLAPS

\* A row descends from itself.
LEMMA DescendsRefl ==
  ASSUME NEW r \in Row
  PROVE  Descends(r, r)
BY DEF Descends, Row

\* Descent is transitive.
LEMMA DescendsTrans ==
  ASSUME NEW a \in Row, NEW b \in Row, NEW d \in Row,
         Descends(a, b), Descends(b, d)
  PROVE  Descends(a, d)
BY DEF Descends, Row

\* A strictly older row stays strictly older.
LEMMA BeforeDescends ==
  ASSUME NEW a \in Row, NEW b \in Row, NEW d \in Row,
         Before(a, b), Descends(b, d)
  PROVE  Before(a, d)
BY DEF Descends, Before, Row

\* A row that changed is strictly newer than every ancestor of the old one.
LEMMA DescendsChanged ==
  ASSUME NEW a \in Row, NEW b \in Row, NEW d \in Row,
         Descends(a, b), Descends(b, d), b # d
  PROVE  Before(a, d)
<1>1. Before(b, d)
  <2>1. b = [version |-> b.version, epoch |-> b.epoch, stamp |-> b.stamp]
    BY DEF Row
  <2>2. d = [version |-> d.version, epoch |-> d.epoch, stamp |-> d.stamp]
    BY DEF Row
  <2>3. b.epoch # d.epoch \/ b.version # d.version \/ b.stamp # d.stamp
    BY <2>1, <2>2
  <2> QED BY <2>3 DEF Descends, Before, Row
<1> QED BY <1>1 DEF Descends, Before, Row

\* A write leaves a table whose rows descend from the ones it found.
LEMMA ApplyDescends ==
  ASSUME NEW tbl \in Table, NEW w \in Writes, NEW s \in Nat
  PROVE  /\ Apply(tbl, w, s) \in Table
         /\ \A p \in Paths : Descends(tbl[p], Apply(tbl, w, s)[p])
<1> DEFINE r2 == IF IsDelete(w) THEN Drop(tbl[w.path]) ELSE Put(tbl[w.path], s)
<1>1. w.path \in Paths
  BY DEF Writes
<1>2. tbl[w.path] \in Row
  BY <1>1 DEF Table
<1>3. r2 \in Row /\ Descends(tbl[w.path], r2)
  BY <1>2 DEF Row, Drop, Put, Descends
<1>4. Apply(tbl, w, s) = [tbl EXCEPT ![w.path] = r2]
  BY DEF Apply
<1> HIDE DEF r2
<1>5. Apply(tbl, w, s) \in Table
  BY <1>1, <1>3, <1>4 DEF Table
<1>6. ASSUME NEW p \in Paths
      PROVE  Descends(tbl[p], Apply(tbl, w, s)[p])
  <2>1. CASE p = w.path
    BY <1>1, <1>3, <1>4, <2>1 DEF Table
  <2>2. CASE p # w.path
    <3>1. Apply(tbl, w, s)[p] = tbl[p]
      BY <1>4, <2>2 DEF Table
    <3>2. tbl[p] \in Row
      BY DEF Table
    <3> QED BY <3>1, <3>2, DescendsRefl
  <2> QED BY <2>1, <2>2
<1> QED BY <1>5, <1>6

\* The absent document is a row.
LEMMA NoRowType == NoRow \in Row
BY DEF NoRow, Row

\* What a write announces is an event.
LEMMA EventType ==
  ASSUME NEW w \in Writes
  PROVE  EventOf(w) \in Events
BY DEF EventOf, Events, Writes

=============================================================================
