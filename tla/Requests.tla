------------------------------ MODULE Requests ------------------------------
(***************************************************************************)
(* One request and the handler that serves it: a structured query or a     *)
(* listing, read page by page while other clients write; an aggregation;   *)
(* the writes of UpdateDocument, Commit and BatchWrite; a REST URL; a      *)
(* sweep.  The data that the store's modules abstract to a stamp is        *)
(* computed here, by the operators of QueryEval, FieldWrites and Gateway.  *)
(***************************************************************************)
EXTENDS FieldWrites, Gateway

CONSTANTS Inputs,     \* the requests, each with the documents it meets
          PageSize,   \* 300 in the program
          MaxWrites,  \* bound: writes of other clients beside a query
          MaxOut,     \* bound: documents sent before the model stops a query
          FieldPaths  \* the field paths that the properties about writes look at

ASSUME RequestsAssumption ==
  PageSize \in Nat \ {0} /\ MaxWrites \in Nat /\ MaxOut \in Nat

\* A sequence, whatever its elements.
IsList(s) == s \in Seq(Range(s))

\* The writes a client can put into a request.
WellFormed(w, documents) ==
  /\ w.path \in DOMAIN documents
  /\ w.mask \in Seq(Seq(STRING) \ {<<>>})
  /\ IsList(w.transforms)
  /\ \A i \in DOMAIN w.transforms :
       /\ w.transforms[i].path \in Seq(STRING) \ {<<>>}
       /\ w.transforms[i].type \in {"time", "server", "increment", "append", "remove",
                                    "maximum", "minimum", "unset"}

\* What a field of a document, a list or a cursor may hold.
IsScalar(x) == x.kind \in {"null", "bool", "int", "double", "string", "time"} /\ x.is \in Int

IsValue(x) ==
  \/ IsScalar(x) \/ x.kind \in {"absent", "map"}
  \/ x.kind = "array" /\ \A i \in DOMAIN x.is : IsScalar(x.is[i]) \/ x.is[i].kind = "map"

\* An operand that the operator is meant for; a list is of one kind, or of numbers.
IsOperand(f) ==
  IF f.op \in {"in", "not-in", "array-contains-any"}
    THEN /\ f.value.kind = "array" /\ IsList(f.value.is)
         /\ \A i, j \in DOMAIN f.value.is :
              /\ IsScalar(f.value.is[i]) \/ f.value.is[i].kind = "json"
              /\ \/ f.value.is[i].kind = f.value.is[j].kind
                 \/ IsNumber(f.value.is[i]) /\ IsNumber(f.value.is[j])
    ELSE IsScalar(f.value) \/ f.value.kind = "json"

\* A structured query, and the values it meets.
Readable(sq, documents) ==
  LET q == QueryFromStructuredQuery(sq, PageSize)
      Read(p, path) == lookupNestedField(documents[p].fields, path)
  IN /\ sq.from \in Nat /\ IsList(sq.where)
     /\ sq.where # <<>> /\ sq.where[1].type = "composite" => IsList(sq.where[1].filters)
     /\ ~IsRefused(q) =>
          /\ sq.limit \in Int
          /\ IsList(q.orderBy) /\ IsList(q.start) /\ IsList(q.end)
          /\ \A c \in Range(q.start \o q.end) :
               /\ c.before \in BOOLEAN /\ c.isEnd \in BOOLEAN
               /\ IsList(c.values) /\ \A i \in DOMAIN c.values : IsValue(c.values[i])
          /\ \A i \in DOMAIN q.filters :
               /\ q.filters[i].op \in protoFilterOp /\ IsOperand(q.filters[i])
               /\ \A p \in DOMAIN documents : IsValue(Read(p, q.filters[i].field))
          /\ \A i \in DOMAIN q.orderBy : \A p \in DOMAIN documents :
               IsValue(Read(p, q.orderBy[i].field))

ASSUME InputsAssumption ==
  /\ FieldPaths \subseteq Seq(STRING)
  /\ \A r \in Inputs :
       /\ r.type \in {"commit", "txCommit", "batchWrite", "update"} =>
            /\ IsList(r.writes) /\ r.now \in Nat \ {0}
            /\ \A i \in DOMAIN r.writes : WellFormed(r.writes[i], r.docs)
            /\ r.type = "update" => r.writes # <<>>
       /\ r.type = "rest" =>
            r.url \in [method : STRING, segs : Seq(STRING \ {EmptySegment}), verb : STRING]
       /\ r.type = "sweep" => r.expires \in Nat /\ r.now \in Nat
       /\ r.type \in {"list", "collections"} =>
            /\ IsFiniteSet(DOMAIN r.docs) /\ DOMAIN r.docs \subseteq Int
            /\ r.type = "collections" => \A p \in DOMAIN r.docs : r.collection[p] \in Int
       /\ r.type \in {"query", "aggregate"} =>
            /\ IsFiniteSet(DOMAIN r.docs) /\ DOMAIN r.docs \subseteq Int
            /\ Readable(IF r.type = "query" THEN r.sq ELSE r.saq.query, r.docs)
            /\ r.type = "aggregate" =>
                 IsList(r.saq.aliases) /\ DOMAIN r.saq.aliases = DOMAIN r.saq.ops

VARIABLES req,      \* the request being served
          pc,       \* where its handler is: new, page, writing, done, or the code of its failure
          query,    \* the structured query of a query, once decoded
          docs,     \* the documents table, by path; paths are numbers
          token,    \* the page token, decoded; 0 before the first page
          out,      \* what was sent: paths of a query, or the response
          writes,   \* number of foreign writes so far
          created, deleted   \* history: paths others created and deleted meanwhile

vars == <<req, pc, query, docs, token, out, writes, created, deleted>>

RequestsInit ==
  /\ req \in Inputs
  /\ docs = req.docs
  /\ pc = "new" /\ query = <<>> /\ token = 0 /\ out = <<>>
  /\ writes = 0 /\ created = {} /\ deleted = {}

-----------------------------------------------------------------------------
(***************************************************************************)
(* RunQuery                                                                *)
(***************************************************************************)
\* A token is 0, for none, or an offset that EncodePageToken was given.
DecodePageToken(tok) == tok

Row(p) == [i \in DOMAIN query.orderBy |-> lookupNestedField(docs[p].fields, query.orderBy[i].field)]

Clause(fields, f) ==
  IF req.adapter = "sqlite" THEN sqliteFilterClause(fields, f) ELSE pgFilterClause(fields, f)

Between(p) ==
  query.orderBy # <<>> =>
    \A i \in DOMAIN (query.start \o query.end) :
      IF req.adapter = "sqlite"
        THEN sqliteCursorClause((query.start \o query.end)[i], query.orderBy, Row(p))
        ELSE pgCursorClause((query.start \o query.end)[i], query.orderBy, Row(p))

Selected ==
  {p \in DOMAIN docs : /\ Found(docs, p)
                       /\ \A i \in DOMAIN query.filters : Clause(docs[p].fields, query.filters[i])
                       /\ Between(p)}

\* p before r in the ORDER BY: the first order that tells them apart.
Precedes(p, r) ==
  LET Before(i) == IF req.adapter = "sqlite"
                     THEN sqliteBefore(Row(p)[i], Row(r)[i], query.orderBy[i].desc)
                     ELSE pgBefore(Row(p)[i], Row(r)[i], query.orderBy[i].desc)
      After(i) == IF req.adapter = "sqlite"
                    THEN sqliteBefore(Row(r)[i], Row(p)[i], query.orderBy[i].desc)
                    ELSE pgBefore(Row(r)[i], Row(p)[i], query.orderBy[i].desc)
  IN \E i \in DOMAIN query.orderBy : Before(i) /\ \A j \in 1 .. i - 1 : ~After(j) /\ ~Before(j)

\* A set of numbers in ascending order.
Ascending(set) ==
  [i \in 1 .. Cardinality(set) |-> CHOOSE p \in set : Cardinality({r \in set : r < p}) = i - 1]

\* Every order the database may return: by path when the query asks for none;
\* rows that tie come in any order.
Sorted(set) ==
  LET ranked == {<<Cardinality({r \in set : Precedes(r, p)}), p>> : p \in set}
      orders == {s \in [1 .. Cardinality(set) -> ranked] :
                   \A i, j \in DOMAIN s : i < j => s[i] # s[j] /\ s[i][1] <= s[j][1]}
  IN IF query.orderBy = <<>> THEN {Ascending(set)}
     ELSE {[i \in DOMAIN s |-> s[i][2]] : s \in orders}

HasCursor == query.start # <<>> \/ query.end # <<>>

\* At most n rows after the first offset ones: LIMIT and OFFSET.
Slice(s, offset, n) == SubSeq(s, offset + 1, IF offset + n < Len(s) THEN offset + n ELSE Len(s))

\* Mutant of NextToken: the row fetched ahead counts as sent.
NextTokenSkips(offset, size, rows) == IF Len(rows) > size THEN offset + size + 1 ELSE 0

\* rows holds one row more than a page when there is a next page.
NextToken(offset, size, rows) == IF Len(rows) > size THEN offset + size ELSE 0

\* The arguments of the statement fit its placeholders; SQLite's have no number.
Bindable ==
  req.adapter = "postgres" =>
    Accepted(pgQueryPlaceholders(TRUE,
      [i \in DOMAIN query.filters |-> FilterArgs(query.filters[i])] \o
      [i \in DOMAIN (query.start \o query.end) |->
         CursorArgs((query.start \o query.end)[i], query.orderBy)]))

Decode ==
  /\ pc = "new" /\ req.type = "query"
  /\ query' = QueryFromStructuredQuery(req.sq, PageSize)
  /\ pc' = IF IsRefused(query') THEN query'.refused ELSE "page"
  /\ UNCHANGED <<req, docs, token, out, writes, created, deleted>>

\* One statement: a page, one row ahead.  A cursor ignores the token.
QueryDocuments ==
  /\ pc = "page" /\ req.type = "query"
  /\ Len(out) <= MaxOut
  /\ LET offset == IF HasCursor THEN 0 ELSE DecodePageToken(token)
     IN IF ~Bindable THEN pc' = "Unknown" /\ UNCHANGED <<out, token>>
        ELSE \E s \in Sorted(Selected) :
          LET rows == Slice(s, offset, query.pageSize + 1)
          IN /\ out' = out \o Slice(rows, 0, query.pageSize)
             /\ token' = NextToken(offset, query.pageSize, rows)
             /\ pc' = IF token' = 0 \/ query.limit > 0 THEN "done" ELSE "page"
  /\ UNCHANGED <<req, query, docs, writes, created, deleted>>

\* Another client creates or deletes a document between two pages.
OtherCreates(p) ==
  /\ pc = "page" /\ req.busy /\ writes < MaxWrites /\ Len(out) <= MaxOut
  /\ ~Found(docs, p)
  /\ docs' = Store(docs, p, [fields |-> NoFields, at |-> 1])
  /\ writes' = writes + 1
  /\ created' = created \cup {p}
  /\ UNCHANGED <<req, pc, query, token, out, deleted>>

OtherDeletes(p) ==
  /\ pc = "page" /\ req.busy /\ writes < MaxWrites /\ Len(out) <= MaxOut
  /\ Found(docs, p)
  /\ docs' = Store(docs, p, NoDoc)
  /\ writes' = writes + 1
  /\ deleted' = deleted \cup {p}
  /\ UNCHANGED <<req, pc, query, token, out, created>>

-----------------------------------------------------------------------------
(***************************************************************************)
(* The listings: the client sends the token of the last page back.         *)
(***************************************************************************)
ListKeys ==
  IF req.type = "list" THEN {p \in DOMAIN docs : Found(docs, p)}
  ELSE {req.collection[p] : p \in {r \in DOMAIN docs : Found(docs, r)}}

\* The type is what tells ListDocuments from ListCollectionIds.
ListPage(type) ==
  /\ pc \in {"new", "page"} /\ req.type = type
  /\ Len(out) <= MaxOut
  /\ LET offset == DecodePageToken(token)
         rows == Slice(Ascending(ListKeys), offset, PageSize + 1)
     IN /\ out' = out \o Slice(rows, 0, PageSize)
        /\ token' = NextToken(offset, PageSize, rows)
        /\ pc' = IF token' = 0 THEN "done" ELSE "page"
  /\ UNCHANGED <<req, query, docs, writes, created, deleted>>

ListDocuments == ListPage("list")

ListCollectionIds == ListPage("collections")

-----------------------------------------------------------------------------
(***************************************************************************)
(* BatchWrite takes a step per write; the other handlers take one each.    *)
(***************************************************************************)
Reply(status, response, table) ==
  /\ pc' = IF status = "OK" THEN "done" ELSE status
  /\ out' = response
  /\ docs' = table
  /\ UNCHANGED <<req, query, token, writes, created, deleted>>

\* The aggregated field of the rows that the filters keep, missing ones
\* included; limit, order and cursors play no part.
Column(filters, field) ==
  LET rows == {p \in DOMAIN docs :
                 Found(docs, p) /\ \A i \in DOMAIN filters : Clause(docs[p].fields, filters[i])}
  IN [i \in 1 .. Cardinality(rows) |->
        lookupNestedField(docs[Ascending(rows)[i]].fields, field)]

\* One value per alias; of two with the same alias the later one stays.
Aggregates(q) ==
  LET column == Column(q.base.filters, req.field)
      Value(op) == IF req.adapter = "sqlite" THEN sqliteAggregate(op, column)
                   ELSE pgAggregate(op, column)
      Named(a) == {i \in DOMAIN q.aliases : q.aliases[i] = a}
      Latest(a) == CHOOSE i \in Named(a) : \A j \in Named(a) : j <= i
  IN [a \in Range(q.aliases) |-> Value(q.ops[Latest(a)])]

RunAggregationQuery ==
  /\ pc = "new" /\ req.type = "aggregate"
  /\ \E q \in {AggregationQueryFromProto(req.saq)} :
     LET sizes == [i \in DOMAIN q.base.filters |-> FilterArgs(q.base.filters[i])]
     IN IF IsRefused(q) THEN Reply(q.refused, <<>>, docs)
        ELSE IF req.adapter = "postgres" /\ ~Accepted(pgAggregationPlaceholders(TRUE, sizes))
          THEN Reply("Unknown", <<>>, docs)
        ELSE Reply("OK", Aggregates(q), docs)

\* The RPC without a transaction, and the Write stream.
Commit ==
  /\ pc = "new" /\ req.type = "commit"
  /\ \E done \in {applyWriteBatch(docs, req.writes, req.now)} :
       Reply(done.status, done.results, done.docs)

CommitInTransaction ==
  /\ pc = "new" /\ req.type = "txCommit"
  /\ IF TxStatus(req.writes) # "OK" THEN Reply(TxStatus(req.writes), <<>>, docs)
     ELSE Reply("OK",
                TxResults(req.writes, req.now),
                TxApply(docs, req.writes, req.now))

\* One SQL transaction per write.
BatchWriteRpc ==
  /\ pc \in {"new", "writing"} /\ req.type = "batchWrite"
  /\ LET sent == IF pc = "new" THEN [results |-> <<>>, statuses |-> <<>>] ELSE out
         n == Len(sent.statuses)
     IN IF n = Len(req.writes) THEN Reply("OK", sent, docs)
        ELSE \E one \in {applyWriteBatch(docs, <<req.writes[n + 1]>>, req.now)} :
               /\ out' = BatchWrite(sent, one) /\ docs' = one.docs /\ pc' = "writing"
               /\ UNCHANGED <<req, query, token, writes, created, deleted>>

UpdateDocumentRpc ==
  /\ pc = "new" /\ req.type = "update"
  /\ LET done == UpdateDocument(docs, req.writes[1], req.now)
     IN Reply(done.status, <<>>, done.docs)

\* A REST call: the intercepts come first, then the gateway's routes.
Rest ==
  /\ pc = "new" /\ req.type = "rest"
  /\ LET route == IF Intercepted(req.url)
                    THEN [rpc |-> req.url.verb, args |-> [parent |-> InterceptParent(req.url)]]
                    ELSE ServeMux(req.url)
     IN Reply(IF route.rpc \in Unimplemented THEN "Unimplemented"
              ELSE IF route = NotFoundRoute THEN "NotFound" ELSE "OK",
              route, docs)

\* DELETE FROM transactions WHERE expires_at < now, on texts; out says whether.
Sweep ==
  /\ pc = "new" /\ req.type = "sweep"
  /\ Reply("OK", <<TextCmp(RFC3339Nano(req.expires), RFC3339Nano(req.now)) < 0>>, docs)

QueryStep == Decode \/ QueryDocuments

Next ==
  \/ QueryStep
  \/ \E p \in DOMAIN docs : OtherCreates(p) \/ OtherDeletes(p)
  \/ ListDocuments \/ ListCollectionIds
  \/ RunAggregationQuery \/ Commit \/ CommitInTransaction \/ BatchWriteRpc
  \/ UpdateDocumentRpc \/ Rest \/ Sweep

Spec == RequestsInit /\ [][Next]_vars

\* A handler that can go on goes on; other clients need not.
LiveSpec == Spec /\ WF_vars(QueryStep)

-----------------------------------------------------------------------------
(***************************************************************************)
(* What a query should return, stated with the in-memory comparison that   *)
(* Listen uses: rows that match, in the order of the order-by fields.      *)
(***************************************************************************)

\* Two times whose texts sort like the times: in different seconds, or with
\* fractions of the same number of digits.
TimesComparable(s, t) == Seconds(s) # Seconds(t) \/ (s % 10 # 0 /\ t % 10 # 0)

\* A filter on which SQL and memory are meant to agree, for a field with value d.
\* What it leaves out is listed in the README.
Comparable(d, f) ==
  LET Same(x, y) == /\ x.kind = y.kind
                    /\ x.kind = "time" => TimesComparable(x.is, y.is)
      Numbers2(x, y) == req.adapter = "postgres" /\ IsNumber(x) /\ IsNumber(y)
      list == IF f.value.kind = "array" THEN f.value.is ELSE <<f.value>>
      Listable(x) == x.kind \in {"string", "bool"} \/ (x.kind = "int" /\ req.adapter = "postgres")
  IN CASE f.op \in {"==", "<", ">"} ->
            /\ f.value.kind \notin {"null", "json", "array"}
            /\ f.value.kind = "bool" => f.op = "=="
            /\ Same(d, f.value) \/ Numbers2(d, f.value)
                 \/ (d.kind # f.value.kind /\ ~(IsNumber(d) /\ IsNumber(f.value)))
       [] f.op \in {"!=", "<=", ">="} ->
            /\ f.value.kind \notin {"null", "json", "array"}
            /\ f.value.kind = "bool" => f.op = "!="
            /\ Same(d, f.value) \/ Numbers2(d, f.value) \/ d.kind = "absent"
       [] f.op = "in" -> \A i \in DOMAIN list : Listable(list[i])
       [] f.op = "not-in" ->
            /\ list # <<>>
            /\ \A i \in DOMAIN list : Listable(list[i]) /\ (d.kind \in {list[i].kind, "absent"})
       [] OTHER ->
            /\ \A i \in DOMAIN list : Listable(list[i])
            /\ d.kind = "array" => \A i \in DOMAIN d.is : d.is[i].kind # "double"

Rank(d) == IF IsNumber(d) THEN 1 ELSE 2

RefCmp(a, b) == IF Rank(a) # Rank(b) THEN Sign(Rank(a) - Rank(b)) ELSE filterValuesCmp(a, b)

\* Two values whose order both databases and the reference mean to agree on.
Sortable(a, b) ==
  \/ {a.kind, b.kind} \subseteq {"int", "double", "string"}
  \/ a.kind = "time" /\ b.kind = "time" /\ TimesComparable(a.is, b.is)

\* The first n positions of two rows, most significant first.
RowCmp(row, other, n) ==
  LET Cmp(i) == IF query.orderBy[i].desc THEN RefCmp(other[i], row[i])
                ELSE RefCmp(row[i], other[i])
      apart == {i \in 1 .. n : Cmp(i) # 0}
  IN IF apart = {} THEN 0 ELSE Cmp(CHOOSE i \in apart : \A j \in apart : i <= j)

CursorSize(c) == IF Len(c.values) > Len(query.orderBy) THEN Len(query.orderBy) ELSE Len(c.values)

InCursor(c, row) ==
  LET s == RowCmp(row, c.values, CursorSize(c))
  IN CursorSize(c) = 0 \/ (CASE ~c.isEnd /\ c.before -> s >= 0 [] ~c.isEnd /\ ~c.before -> s > 0
                             [] c.isEnd /\ c.before -> s < 0 [] OTHER -> s <= 0)

Cursors == Range(query.start \o query.end)

\* The documents a query asks for.
Reference ==
  {p \in DOMAIN docs : /\ Found(docs, p) /\ MatchesFilter(docs[p].fields, query.filters)
                       /\ \A c \in Cursors : InCursor(c, Row(p))}

InOrder(p, r) ==
  IF query.orderBy = <<>> THEN p < r ELSE RowCmp(Row(p), Row(r), Len(query.orderBy)) < 0

\* Queries the property speaks of: values that compare, orders that do not
\* tie, cursors of the kinds they meet.
WellKinded ==
  LET present == {p \in DOMAIN docs : Found(docs, p)}
      wanted == Reference
  IN /\ \A p \in present : \A i \in DOMAIN query.filters :
          Comparable(lookupNestedField(docs[p].fields, query.filters[i].field), query.filters[i])
     /\ \A p, r \in wanted : \A i \in DOMAIN query.orderBy : Sortable(Row(p)[i], Row(r)[i])
     /\ \A p, r \in wanted : p = r \/ InOrder(p, r) \/ InOrder(r, p)
     /\ \A c \in Cursors : \A p \in present : \A i \in 1 .. CursorSize(c) :
          Row(p)[i].kind = c.values[i].kind /\ Sortable(Row(p)[i], c.values[i])

\* An inclusive cursor over several fields keeps more rows than it should.
Exact == \A c \in Cursors : CursorSize(c) <= 1 \/ c.before = c.isEnd

(***************************************************************************)
(* RunQuery sends what the query asks for: every matching document, in     *)
(* order, once, up to the limit.  Both databases agree with the matching   *)
(* that Listen does in memory, through filters, orders, cursors and pages. *)
(***************************************************************************)
QueryRight ==
  (req.type = "query" /\ pc = "done" /\ writes = 0 /\ WellKinded) =>
    /\ \A i, j \in DOMAIN out : i < j => InOrder(out[i], out[j])
    /\ \A p \in Reference \ Range(out) :
         query.limit > 0 /\ Len(out) = query.limit /\ \A r \in Range(out) : InOrder(r, p)
    /\ Exact => Range(out) \subseteq Reference
    /\ query.limit > 0 => Len(out) <= query.limit

(***************************************************************************)
(* Pages while others write: a reader of RunQuery, ListDocuments or        *)
(* ListCollectionIds misses nothing that was there all along unless        *)
(* something was deleted meanwhile, and sees nothing twice unless          *)
(* something was created meanwhile.                                        *)
(***************************************************************************)
PagesComplete ==
  (req.type \in {"query", "list", "collections"} /\ pc = "done") =>
    LET old == {p \in DOMAIN docs : Found(req.docs, p)}
        wanted == CASE req.type = "list" -> old
                    [] req.type = "collections" -> {req.collection[p] : p \in old}
                    [] OTHER -> {}
        rows == IF req.type # "query" THEN wanted
                ELSE IF WellKinded /\ query.limit = 0
                  THEN {p \in Reference : Found(req.docs, p)} ELSE {}
    IN /\ deleted = {} => rows \subseteq Range(out)
       /\ created = {} /\ (req.type = "query" => WellKinded) =>
            \A i, j \in DOMAIN out : out[i] = out[j] => i = j

(***************************************************************************)
(* A query whose order has no cursor, or that has a limit, ends, whatever  *)
(* number of pages it takes; and it ends well: the database accepts the    *)
(* placeholders of its statement.                                          *)
(***************************************************************************)
QueryEnds ==
  (req.type = "query" /\ pc = "page" /\ (query.limit > 0 \/ ~HasCursor)) ~> (pc = "done")

(***************************************************************************)
(* An aggregation that answers gives, for every alias used once, the       *)
(* count, sum or average over the documents that match its filters in      *)
(* memory; documents without a number weigh neither in sums nor averages.  *)
(***************************************************************************)
AggregatesRight ==
  (req.type = "aggregate" /\ pc = "done") =>
    LET q == AggregationQueryFromProto(req.saq)
        At(p) == lookupNestedField(docs[p].fields, req.field)
        rows == {p \in DOMAIN docs : Found(docs, p) /\ MatchesFilter(docs[p].fields, q.base.filters)}
        numbers == {p \in rows : IsNumber(At(p))}
        total == MapThenSumSet(LAMBDA p : Number(At(p)), numbers)
        Right(i) ==
          LET value == out[q.aliases[i]]
          IN CASE q.ops[i] = "count" -> value = Val("int", Cardinality(rows))
               [] q.ops[i] = "sum" /\ numbers # {} -> value = Val("int", Truncate(total))
               [] q.ops[i] = "avg" /\ numbers # {} ->
                    value.kind = "quotient" /\ value.is = <<total, Cardinality(numbers)>>
               [] OTHER -> value.kind = "null" \/ value.is = 0
    IN (\A p \in DOMAIN docs : \A i \in DOMAIN q.base.filters :
          Found(docs, p) => Comparable(lookupNestedField(docs[p].fields, q.base.filters[i].field),
                                       q.base.filters[i]))
       => \A i \in DOMAIN q.aliases :
            (\A j \in DOMAIN q.aliases : q.aliases[j] = q.aliases[i] => j = i) => Right(i)

-----------------------------------------------------------------------------
(***************************************************************************)
(* Writes.                                                                 *)
(***************************************************************************)
Related(fp, other) == IsPrefix(fp, other) \/ IsPrefix(other, fp)

Unrelated(paths) == \A i, j \in DOMAIN paths : i # j => ~Related(paths[i], paths[j])

\* A finished request of one update of a document that existed; OldAt and NewAt
\* are a field before and after.
OneUpdate(types) ==
  /\ pc = "done" /\ req.type \in types
  /\ Len(req.writes) = 1 /\ req.writes[1].op = "update"
  /\ Found(req.docs, req.writes[1].path)

OldAt(fp) == lookupNestedField(req.docs[req.writes[1].path].fields, fp)

NewAt(fp) == lookupNestedField(docs[req.writes[1].path].fields, fp)

(***************************************************************************)
(* A field mask, in UpdateDocument and in Commit, sets or removes exactly  *)
(* the fields it names: at its paths the document reads as the request     *)
(* says, nested ones included, and elsewhere as before.                    *)
(***************************************************************************)
MaskExact ==
  OneUpdate({"commit", "update"}) =>
    LET w == req.writes[1]
    IN (w.mask # <<>> /\ w.transforms = <<>> /\ Unrelated(w.mask)) =>
         /\ \A i \in DOMAIN w.mask : NewAt(w.mask[i]) = lookupNestedField(w.fields, w.mask[i])
         /\ \A fp \in FieldPaths :
              (\A i \in DOMAIN w.mask : ~Related(fp, w.mask[i])) => NewAt(fp) = OldAt(fp)

(***************************************************************************)
(* A write that only transforms fields leaves the other fields of the      *)
(* document alone.                                                         *)
(***************************************************************************)
TransformsKept ==
  OneUpdate({"commit"}) =>
    LET w == req.writes[1]
    IN (w.mask = <<>> /\ w.fields = NoFields /\ w.transforms # <<>>) =>
         \A fp \in FieldPaths :
           (\A i \in DOMAIN w.transforms : ~Related(fp, w.transforms[i].path)) =>
             NewAt(fp) = OldAt(fp)

(***************************************************************************)
(* Transforms are reported in their order, and the value reported for one  *)
(* is the one stored, when transforms do not meet on a field, no mask cuts *)
(* them off and there was something to remove from.  A transform that the  *)
(* switch ignores has no entry, so those after it are reported in the      *)
(* place of another: contract.md:184, "one entry per transform, in input   *)
(* order", holds of the others (README, section 3).                        *)
(***************************************************************************)
ReportedIsStored ==
  OneUpdate({"commit"}) =>
    LET w == req.writes[1]
        paths == [i \in DOMAIN w.transforms |-> w.transforms[i].path]
        Place(i) == Cardinality({j \in 1 .. i : ~Ignored(w.transforms[j])})
    IN /\ Len(out[1].values) = Place(Len(w.transforms))
       /\ (Unrelated(paths) /\ Unrelated(w.mask)) =>
            \A i \in DOMAIN paths :
              (/\ Stores(w.transforms[i], req.docs[w.path].fields)
               /\ w.mask = <<>> \/ \E j \in DOMAIN w.mask : IsPrefix(w.mask[j], paths[i]))
              => NewAt(paths[i]) = out[1].values[Place(i)]

(***************************************************************************)
(* Commit, in a transaction or not, and BatchWrite report one result per   *)
(* write, in its place; a document changes only through a write that is    *)
(* reported done, at the time reported; a call that fails changes nothing. *)
(***************************************************************************)
ResultPerWrite ==
  LET results == IF req.type = "batchWrite" THEN out.results ELSE out
      Ok(i) == req.type = "batchWrite" => out.statuses[i] = "OK"
      isWrite == req.type \in {"commit", "txCommit", "batchWrite", "update"}
  IN /\ (isWrite /\ req.type # "update" /\ pc = "done") =>
          /\ Len(results) = Len(req.writes)
          /\ req.type = "batchWrite" =>
               /\ Len(out.statuses) = Len(req.writes)
               /\ \A i \in DOMAIN results : Ok(i) <=> results[i].at # 0
          /\ \A p \in DOMAIN docs : docs[p] # req.docs[p] =>
               \E i \in DOMAIN results :
                 /\ req.writes[i].path = p /\ Ok(i)
                 /\ docs[p].at \in {results[i].at, 0}
     /\ isWrite /\ pc \notin {"done", "writing"} => docs = req.docs

-----------------------------------------------------------------------------
(***************************************************************************)
(* REST names: a document POSTed to a collection is listed by a GET of the *)
(* same URL, at every depth; PATCH and DELETE of a document's URL name     *)
(* that document; and the parent cut out of an intercepted URL is the one  *)
(* that the gateway's own route for that query binds, although the mux     *)
(* would have taken the URL, below the root, for a document's creation.    *)
(***************************************************************************)
RestNames ==
  (req.type = "rest" /\ pc # "new") =>
    LET url == req.url
        own == RunQuery_0(url) \o RunQuery_1(url)
                 \o RunAggregationQuery_0(url) \o RunAggregationQuery_1(url)
        listed == ServeMux([url EXCEPT !.method = "GET"])
        even == Len(url.segs) % 2 = 0
    IN /\ (url.method = "POST" /\ url.verb = NoVerb /\ ~even) =>
            /\ out.rpc = "CreateDocument" /\ listed.rpc = "ListDocuments"
            /\ ParsePath(CreatedPath(out.args, "id")) = listed.args
       /\ (url.method \in {"PATCH", "DELETE"} /\ url.verb = NoVerb /\ even /\ url.segs # <<>>) =>
            out.rpc \in {"UpdateDocument", "DeleteDocument"} /\ out.args.name = Documents \o url.segs
       /\ (Intercepted(url) /\ url.verb # "batchGet" /\ even) =>
            own # <<>> /\ out.args.parent = own[1].args.parent

(***************************************************************************)
(* The sweep compares times as texts; it is off by less than a second.     *)
(***************************************************************************)
SweepRight ==
  (req.type = "sweep" /\ pc = "done") =>
    /\ out[1] => Seconds(req.expires) <= Seconds(req.now)
    /\ Seconds(req.expires) < Seconds(req.now) => out[1]

=============================================================================
