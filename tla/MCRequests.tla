----------------------------- MODULE MCRequests -----------------------------
(***************************************************************************)
(* The requests that the model checker tries, one per initial state.       *)
(***************************************************************************)
EXTENDS Requests

MCFieldPaths == {<<"k">>, <<"l">>, <<"m">>, <<"l", "a">>, <<"l", "b">>, <<"l", "c">>}

Num(n) == Val("int", n)
Str(n) == Val("string", n)
Arr(s) == Val("array", s)
Map(f) == Val("map", f)

Adapters == {"sqlite", "postgres"}

K(val) == IF val = Absent THEN NoFields ELSE [x \in {"k"} |-> val]
KL(v, w) == [x \in {"k", "l"} |-> IF x = "k" THEN v ELSE w]
Doc(fields) == [fields |-> fields, at |-> 1]

Asc(f) == [field |-> <<f>>, direction |-> "ASCENDING"]
Desc(f) == [field |-> <<f>>, direction |-> "DESCENDING"]

SQ(where, orders, limit, start, end) ==
  [from |-> 1, where |-> where, orderBy |-> orders, limit |-> limit,
   startAt |-> start, endAt |-> end]

Query(docs0, sq, adapter, busy) ==
  [type |-> "query", docs |-> docs0, sq |-> sq, adapter |-> adapter, busy |-> busy]

-----------------------------------------------------------------------------
\* One document and one filter, on every pair of values.
Scalars ==
  {Val("null", 0), Val("bool", 0), Val("bool", 1), Num(1), Num(2), Val("double", 2),
   Val("double", 3), Str(1), Str(2)} \cup {Val("time", t) : t \in {101, 111, 150, 203, 300}}

Arrays == {Arr(<<>>), Arr(<<Str(1)>>), Arr(<<Num(1), Str(2)>>), Arr(<<Map(K(Num(1)))>>)}

Filter(op, val) == [type |-> "field", field |-> <<"k">>, op |-> op, value |-> val]

Filters ==
  {Filter(op, val) : op \in {"==", "!=", "<", "<=", ">", ">="}, val \in Scalars}
  \cup {Filter(op, Arr(s)) : op \in {"in", "not-in", "array-contains-any"},
                             s \in {<<>>, <<Str(1)>>, <<Str(2), Str(1)>>, <<Num(1), Num(3)>>}}
  \cup {Filter("array-contains", val) : val \in {Str(1), Num(1), Map(K(Num(1)))}}
  \cup {[type |-> "unary", field |-> <<"k">>, op |-> op, value |-> Absent] :
          op \in {"IS_NULL", "IS_NOT_NULL", "IS_NAN"}}

FilterCases ==
  {Query(<<Doc(K(val))>>, SQ(<<f>>, <<>>, 0, <<>>, <<>>), a, FALSE) :
     val \in Scalars \cup Arrays \cup {Absent}, f \in Filters, a \in Adapters}

\* Requests that the codec refuses, and a conjunction that it takes.
And(op, filters) == [type |-> "composite", op |-> op, filters |-> filters]

CodecCases ==
  {Query(<<Doc(K(Num(1))), Doc(K(Num(2)))>>, sq, a, FALSE) : a \in Adapters, sq \in
     {[SQ(<<>>, <<>>, 0, <<>>, <<>>) EXCEPT !.from = n] : n \in {0, 2}}
     \cup {SQ(<<And(op, <<Filter("==", Num(1)), f>>)>>, <<>>, 0, <<>>, <<>>) :
             op \in {"AND", "OR"}, f \in {Filter("<", Num(2)), And("AND", <<>>)}}}

\* Three documents, one order.
OrderCases ==
  {Query([p \in 1 .. 3 |-> Doc(K(vals[p]))], SQ(<<>>, <<o>>, limit, <<>>, <<>>), a, FALSE) :
     vals \in [1 .. 3 -> {Num(1), Num(2), Val("double", 3), Str(1), Str(2)}],
     o \in {Asc("k"), Desc("k")}, limit \in {0, 2}, a \in Adapters}

\* The four combinations of two fields, cursors over one or both.
Cursor(vals, before) == [values |-> vals, before |-> before]

CursorCases ==
  {Query([p \in 1 .. 4 |-> Doc(KL(Num((p + 1) \div 2), Num(1 + (p % 2))))],
         SQ(<<>>, <<o[1], o[2]>>, limit,
            IF end THEN <<>> ELSE <<Cursor(vals, before)>>,
            IF end THEN <<Cursor(vals, before)>> ELSE <<>>), a, FALSE) :
     o \in {Asc("k"), Desc("k")} \X {Asc("l"), Desc("l")},
     vals \in {<<Num(1), Num(2)>>, <<Num(2), Num(1)>>, <<Num(1), Num(1)>>, <<Num(2)>>, <<>>},
     before \in BOOLEAN, end \in BOOLEAN, limit \in {0, 2, 4}, a \in Adapters}

\* Readers of several pages beside a writer; found are the documents there first.
Founds == {1 .. 5, {1, 2, 4}, {2, 3, 5}}

Pages(found) == [p \in 1 .. 5 |-> IF p \in found THEN Doc(K(Num(p % 2))) ELSE NoDoc]

PageCases ==
  {Query(Pages(found), SQ(where, <<>>, 0, <<>>, <<>>), a, busy) :
     found \in Founds, where \in {<<>>, <<Filter("==", Num(1))>>}, a \in Adapters, busy \in BOOLEAN}
  \cup {[type |-> type, docs |-> Pages(found), collection |-> <<1, 1, 2, 3, 3>>, busy |-> TRUE] :
          type \in {"list", "collections"}, found \in Founds}

-----------------------------------------------------------------------------
SAQ(where, ops, aliases) ==
  [query |-> SQ(where, <<>>, 0, <<>>, <<>>), ops |-> ops, aliases |-> aliases]

SAQs ==
  {SAQ(where, <<"count", "sum", "avg">>, <<"", "s", "">>) :
     where \in {<<>>, <<Filter(">", Num(1))>>, <<Filter("==", Str(1))>>}}
  \cup {SAQ(<<>>, <<"sum", "count", "avg">>, <<"x", "x", "y">>),
        SAQ(<<Filter("==", Num(1))>>, <<"count", "count">>, <<"", "n">>),
        SAQ(<<>>, <<"count", "max">>, <<"", "">>), SAQ(<<>>, <<>>, <<>>),
        SAQ(<<Filter("near", Num(1))>>, <<"count">>, <<"">>)}

AggregateCases ==
  {[type |-> "aggregate", docs |-> [p \in 1 .. 3 |-> Doc(K(vals[p]))], saq |-> saq,
    field |-> <<"k">>, adapter |-> a] :
     vals \in [1 .. 3 -> {Num(1), Num(-4), Val("double", 3), Str(1), Absent}],
     saq \in SAQs, a \in Adapters}

-----------------------------------------------------------------------------
Two(a, b) == Map([x \in {"a", "b"} |-> IF x = "a" THEN a ELSE b])

None == [type |-> "none", at |-> 0]
Pre(type, at) == [type |-> type, at |-> at]

Write(op, path, fields, mask, transforms, pre) ==
  [op |-> op, path |-> path, fields |-> fields, mask |-> mask,
   transforms |-> transforms, pre |-> pre]

Given == {NoFields, K(Num(2)), KL(Num(2), Two(Num(5), Num(6))), KL(Str(1), Str(2)),
          [x \in {"l"} |-> Map([y \in {"a"} |-> Str(2)])]}

Masks == {<<>>, <<<<"k">>>>, <<<<"l", "a">>>>, <<<<"l">>>>, <<<<"m">>>>,
          <<<<"k">>, <<"l", "b">>>>, <<<<"l", "a">>, <<"l", "b">>>>, <<<<"l">>, <<"l", "a">>>>}

Trans(path, type, arg) == [path |-> path, type |-> type, arg |-> arg]

Transforms ==
  {<<>>, <<Trans(<<"k">>, "increment", Num(1))>>, <<Trans(<<"k">>, "increment", Str(1))>>,
   <<Trans(<<"l", "a">>, "increment", Val("double", 3))>>,
   <<Trans(<<"l", "c">>, "append", <<Str(1), Num(1), Str(1)>>)>>,
   <<Trans(<<"m">>, "remove", <<Num(1)>>)>>, <<Trans(<<"k">>, "remove", <<Num(1)>>)>>,
   <<Trans(<<"l", "c">>, "time", <<>>), Trans(<<"k">>, "increment", Num(1))>>,
   <<Trans(<<"k">>, "increment", Num(1)), Trans(<<"k">>, "increment", Num(2))>>,
   <<Trans(<<"k">>, "maximum", Num(9)), Trans(<<"l", "a">>, "increment", Num(1))>>,
   <<Trans(<<"m">>, "server", <<>>), Trans(<<"k">>, "minimum", Num(0)),
     Trans(<<"l", "c">>, "append", <<Num(1)>>)>>}

\* Tables of two documents, the second one missing.
Tables == {<<Doc(fields), NoDoc>> :
             fields \in {KL(Num(7), Two(Num(1), Arr(<<Num(1), Num(1), Str(1)>>))),
                         KL(Str(1), Num(1)), NoFields}}

Request(type, docs0, ws) == [type |-> type, docs |-> docs0, writes |-> ws, now |-> 5]

UpdateCases ==
  {Request("commit", table, <<Write("update", path, fields, mask, ts, None)>>) :
     table \in Tables, path \in {1, 2}, fields \in Given, mask \in Masks, ts \in Transforms}
  \cup {Request("update", table, <<Write("update", path, fields, mask, <<>>, pre)>>) :
          table \in Tables, path \in {1, 2}, fields \in Given, mask \in Masks,
          pre \in {None, Pre("exists", 0), Pre("absent", 0), Pre("time", 9)}}

Simple ==
  {Write(op, path, K(Num(2)), <<>>, <<>>, pre) :
     op \in {"update", "delete"}, path \in {1, 2},
     pre \in {None, Pre("exists", 0), Pre("absent", 0), Pre("time", 1), Pre("time", 9)}}
  \cup {Write(op, 1, NoFields, <<>>, <<>>, None) : op \in {"verify", "transform"}}

BatchCases ==
  {Request(type, <<Doc(K(Num(1))), NoDoc>>, ws) :
     type \in {"commit", "txCommit", "batchWrite"}, ws \in UNION {[1 .. n -> Simple] : n \in {0, 2}}}
  \cup {Request("txCommit", <<Doc(K(Num(1))), NoDoc>>, <<v, w, x>>) :
          v \in {Write("verify", 1, NoFields, <<>>, <<>>, None)}, w \in Simple, x \in Simple}

-----------------------------------------------------------------------------
Segments == <<"c1", "d1", "c2", "d2", "c3">>

Verbs == {"", "batchGet", "beginTransaction", "commit", "rollback", "runQuery",
          "executePipeline", "runAggregationQuery", "partitionQuery", "listCollectionIds",
          "batchWrite", "unknown"}

RestCases ==
  {[type |-> "rest", docs |-> <<>>,
    url |-> [method |-> method, segs |-> SubSeq(Segments, 1, n), verb |-> verb]] :
     method \in {"GET", "POST", "PATCH", "DELETE"}, n \in 0 .. 5, verb \in Verbs}

Times == {100, 105, 110, 150, 199, 200, 203, 250, 300}

SweepCases ==
  {[type |-> "sweep", docs |-> <<>>, expires |-> t, now |-> u] : t \in Times, u \in Times}

MCInputs ==
  UNION {FilterCases, CodecCases, OrderCases, CursorCases, PageCases, AggregateCases,
         UpdateCases, BatchCases, RestCases, SweepCases}

=============================================================================
