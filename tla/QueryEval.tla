----------------------------- MODULE QueryEval -----------------------------
(***************************************************************************)
(* How a structured query is decoded and evaluated, as operators.          *)
(*                                                                         *)
(* A filter is evaluated in three places: by SQLite, by PostgreSQL (for    *)
(* RunQuery and for the first result set of a Listen target) and in memory *)
(* by MatchesFilter (for the later changes of a Listen target).            *)
(*                                                                         *)
(* A Value is [kind, is]:                                                  *)
(*   null (0), bool (0 or 1), int (the integer), double (in halves, so 1.5 *)
(*   is 3), string (its rank in string order), time (in hundredths of a    *)
(*   second), array (a sequence of scalars and maps), map (a function from *)
(*   field names to Values).                                               *)
(* NaN and infinities are left out, and so are field filters whose operand *)
(* is an array or a map where a scalar is meant, and lists of mixed kinds  *)
(* other than numbers.                                                     *)
(***************************************************************************)
EXTENDS Integers, Sequences, FiniteSets, SequencesExt

Val(k, n) == [kind |-> k, is |-> n]

Absent == [kind |-> "absent", is |-> 0]

-----------------------------------------------------------------------------
(***************************************************************************)
(* Decoding.  A request that is refused decodes to its gRPC code.          *)
(***************************************************************************)
Refused(code) == [refused |-> code]

IsRefused(x) == "refused" \in DOMAIN x

\* Maps become opaque JSON, inside arrays too.
FilterValueFromProto(val) ==
  LET Opaque(x) == IF x.kind = "map" THEN Val("json", x.is) ELSE x
  IN IF val.kind = "array"
       THEN Val("array", [i \in DOMAIN val.is |-> Opaque(val.is[i])])
       ELSE Opaque(val)

protoFilterOp == {"==", "!=", "<", "<=", ">", ">=", "in", "not-in",
                  "array-contains", "array-contains-any"}

Inequalities == {"<", "<=", ">", ">="}

\* A unary filter is a comparison with null; NaN tests are refused.
protoFieldFilter(f) ==
  CASE f.type = "unary" /\ f.op = "IS_NULL" ->
         [field |-> f.field, op |-> "==", value |-> Val("null", 0)]
    [] f.type = "unary" /\ f.op = "IS_NOT_NULL" ->
         [field |-> f.field, op |-> "!=", value |-> Val("null", 0)]
    [] f.type = "field" /\ f.op \in protoFilterOp ->
         [field |-> f.field, op |-> f.op, value |-> FilterValueFromProto(f.value)]
    [] f.type = "composite" -> Refused("InvalidArgument")
    [] OTHER -> Refused("Unimplemented")

\* No filter, one filter, or a flat AND of filters.
protoCompositeFilter(where) ==
  LET subs == IF where = <<>> THEN <<>>
              ELSE IF where[1].type = "composite" THEN where[1].filters ELSE where
      decoded == [i \in DOMAIN subs |-> protoFieldFilter(subs[i])]
      bad == {i \in DOMAIN decoded : IsRefused(decoded[i])}
  IN IF where # <<>> /\ where[1].type = "composite" /\ where[1].op # "AND"
       THEN Refused("Unimplemented")
     ELSE IF bad # {} THEN decoded[CHOOSE i \in bad : \A j \in bad : i <= j]
     ELSE [filters |-> decoded]

\* An unspecified direction is ascending.
protoOrderBys(orders) ==
  [i \in DOMAIN orders |->
     [field |-> orders[i].field, desc |-> orders[i].direction = "DESCENDING"]]

protoCursor(c, isEnd) ==
  [values |-> [i \in DOMAIN c.values |-> FilterValueFromProto(c.values[i])],
   before |-> c.before, isEnd |-> isEnd]

\* Limit 0 stands for "no limit"; the page size is never 0.
QueryFromStructuredQuery(sq, limit) ==
  LET filter == protoCompositeFilter(sq.where)
  IN CASE sq.from = 0 -> Refused("InvalidArgument")
       [] sq.from > 1 -> Refused("Unimplemented")
       [] sq.from = 1 /\ IsRefused(filter) -> filter
       [] OTHER ->
            [filters  |-> filter.filters,
             orderBy  |-> protoOrderBys(sq.orderBy),
             limit    |-> IF sq.limit > 0 THEN sq.limit ELSE 0,
             pageSize |-> IF sq.limit > 0 THEN sq.limit
                          ELSE IF limit > 0 THEN limit ELSE 300,
             start    |-> [i \in DOMAIN sq.startAt |-> protoCursor(sq.startAt[i], FALSE)],
             end      |-> [i \in DOMAIN sq.endAt |-> protoCursor(sq.endAt[i], TRUE)]]

-----------------------------------------------------------------------------
(***************************************************************************)
(* In memory.                                                              *)
(***************************************************************************)

\* The value under a name; an entry that is nil counts as missing.
Entry(val, name) ==
  IF val.kind = "map" /\ name \in DOMAIN val.is /\ val.is[name].kind # "absent"
    THEN val.is[name] ELSE Absent

\* Field paths are sequences of names.  ValuesAlong(fields, path)[i] is the
\* value after i of them.
ValuesAlong(fields, path) ==
  LET vals[i \in 0 .. Len(path)] ==
        IF i = 0 THEN Val("map", fields) ELSE Entry(vals[i - 1], path[i])
  IN vals

lookupNestedField(fields, path) == ValuesAlong(fields, path)[Len(path)]

IsNumber(val) == val.kind \in {"int", "double"}

\* The number in halves.
Number(val) == IF val.kind = "int" THEN 2 * val.is ELSE val.is

filterValuesEqual(a, b) ==
  \/ IsNumber(a) /\ IsNumber(b) /\ Number(a) = Number(b)
  \/ a.kind = b.kind /\ a.kind \notin {"array", "int", "double"} /\ a.is = b.is

Sign(n) == IF n < 0 THEN -1 ELSE IF n > 0 THEN 1 ELSE 0

\* Values that cannot be compared count as equal.
filterValuesCmp(a, b) ==
  CASE IsNumber(a) /\ IsNumber(b) -> Sign(Number(a) - Number(b))
    [] a.kind = b.kind /\ a.kind \in {"string", "time"} -> Sign(a.is - b.is)
    [] OTHER -> 0

SignOk(op, s) ==
  CASE op = "==" -> s = 0 [] op = "!=" -> s # 0
    [] op = "<" -> s < 0 [] op = "<=" -> s <= 0
    [] op = ">" -> s > 0 [] op = ">=" -> s >= 0

\* A document without the field matches nothing.
matchFieldFilter(fields, f) ==
  LET d == FilterValueFromProto(lookupNestedField(fields, f.field))
      Among(x, list) == \E i \in DOMAIN list : filterValuesEqual(x, list[i])
  IN /\ d.kind # "absent"
     /\ CASE f.op = "==" -> filterValuesEqual(d, f.value)
          [] f.op = "!=" -> ~filterValuesEqual(d, f.value)
          [] f.op \in Inequalities -> SignOk(f.op, filterValuesCmp(d, f.value))
          [] f.op = "in" -> Among(d, f.value.is)
          [] f.op = "not-in" -> ~Among(d, f.value.is)
          [] f.op = "array-contains" -> d.kind = "array" /\ Among(f.value, d.is)
          [] f.op = "array-contains-any" ->
               d.kind = "array" /\ \E i \in DOMAIN d.is : Among(d.is[i], f.value.is)

\* All filters of the query; an empty list matches everything.
MatchesFilter(fields, filters) ==
  \A i \in DOMAIN filters : matchFieldFilter(fields, filters[i])

-----------------------------------------------------------------------------
(***************************************************************************)
(* Timestamps as text.  protojson writes no fraction or a whole group of   *)
(* digits (here two), RFC3339Nano drops trailing zeros.  The seconds have  *)
(* fixed width and count as one character.                                 *)
(***************************************************************************)
Seconds(t) == t \div 100

Dot == 46
Digit(n) == 48 + n
Zulu == 90

protojsonTime(t) ==
  IF t % 100 = 0 THEN <<Seconds(t), Zulu>>
  ELSE <<Seconds(t), Dot, Digit((t % 100) \div 10), Digit(t % 10), Zulu>>

\* Mutant of RFC3339Nano: the fraction is written without its point.
RFC3339NanoNoPoint(t) ==
  IF t % 10 = 0 THEN <<Seconds(t) + (t % 100) \div 10, Zulu>>
  ELSE <<Seconds(t) + (t % 100) \div 10, Digit(t % 10), Zulu>>

RFC3339Nano(t) ==
  CASE t % 100 = 0 -> <<Seconds(t), Zulu>>
    [] t % 100 # 0 /\ t % 10 = 0 -> <<Seconds(t), Dot, Digit((t % 100) \div 10), Zulu>>
    [] OTHER -> protojsonTime(t)

\* -1, 0 or 1: two texts in byte order.
TextCmp(s, t) ==
  LET differ == {i \in 1 .. Len(s) : i <= Len(t) /\ s[i] # t[i]}
      first == CHOOSE i \in differ : \A j \in differ : i <= j
  IN IF differ = {} THEN Sign(Len(s) - Len(t)) ELSE Sign(s[first] - t[first])

-----------------------------------------------------------------------------
(***************************************************************************)
(* SQL.  An expression is NULL, a number or a text; a comparison with NULL *)
(* is NULL, and only TRUE keeps the row.  In SQLite a number is less than  *)
(* any text; PostgreSQL's types agree by construction of the clause.       *)
(***************************************************************************)
SqlNull == [type |-> "null"]
SqlNum(n) == [type |-> "num", is |-> n]
SqlText(s) == [type |-> "text", is |-> s]

SqlCmp(x, y) ==
  CASE x.type = "num" /\ y.type = "num" -> Sign(x.is - y.is)
    [] x.type = "text" /\ y.type = "text" -> TextCmp(x.is, y.is)
    [] x.type = "num" /\ y.type = "text" -> -1
    [] OTHER -> 1

\* TRUE, FALSE or SqlNull, as a set of the truth values that keep the row.
SqlTrue(op, x, y) == x # SqlNull /\ y # SqlNull /\ SignOk(op, SqlCmp(x, y))

\* The text of an integer, which no string of the model equals.
Decimal(n) == <<1000 + n>>

\* One typed member of a stored Value: "integerValue" holds a text.
Member(d, kind) ==
  CASE d.kind # kind -> SqlNull
    [] d.kind = kind /\ kind = "int" -> SqlText(Decimal(d.is))
    [] d.kind = kind /\ kind = "string" -> SqlText(<<d.is>>)
    [] d.kind = kind /\ kind = "time" -> SqlText(protojsonTime(d.is))
    [] OTHER -> SqlNum(d.is)

\* The member of the operand's kind; integers are cast to numbers.
sqliteScalarExpr(d, kind) ==
  IF kind = "int" /\ d.kind = "int" THEN SqlNum(Number(d)) ELSE Member(d, kind)

\* The argument bound for an operand.
sqliteArg(val) ==
  CASE val.kind = "string" -> SqlText(<<val.is>>)
    [] val.kind = "time" -> SqlText(RFC3339Nano(val.is))
    [] val.kind \in {"int", "double"} -> SqlNum(Number(val))
    [] OTHER -> SqlNum(val.is)

\* The comparison with null, the same in both adapters: anything but "=="
\* asks for a field that is there and not null.
NullClause(d, op) ==
  IF op = "==" THEN d.kind = "absent" \/ d.kind = "null" ELSE d.kind # "absent" /\ d.kind # "null"

\* Elements of an array are compared as stored: an integer is text there,
\* and a map is compared whole.  Times have no member to compare.
sqliteFilterClause(fields, f) ==
  LET d == lookupNestedField(fields, f.field)
      elems == IF d.kind = "array" THEN d.is ELSE <<>>
      Has(val) == \E i \in DOMAIN elems :
                    \/ val.kind = "json" /\ elems[i].kind = "map" /\ elems[i].is = val.is
                    \/ /\ val.kind \in {"string", "int", "double", "bool"}
                       /\ SqlTrue("==", Member(elems[i], val.kind), sqliteArg(val))
      first == IF f.value.kind = "array" /\ f.value.is # <<>>
                 THEN f.value.is[1].kind ELSE "null"
  IN CASE f.op \in Inequalities \cup {"==", "!="} /\ f.value.kind = "null" ->
            NullClause(d, f.op)
       [] f.op \in Inequalities \cup {"==", "!="} /\ f.value.kind # "null" ->
            SqlTrue(f.op, sqliteScalarExpr(d, f.value.kind), sqliteArg(f.value))
       [] f.op = "in" ->
            \E i \in DOMAIN f.value.is :
              SqlTrue("==", Member(d, first), sqliteArg(f.value.is[i]))
       [] f.op = "not-in" ->
            \/ f.value.is = <<>>
            \/ /\ Member(d, first) # SqlNull
               /\ \A i \in DOMAIN f.value.is :
                    SqlTrue("!=", Member(d, first), sqliteArg(f.value.is[i]))
       [] f.op = "array-contains" -> Has(f.value)
       [] f.op = "array-contains-any" -> \E i \in DOMAIN f.value.is : Has(f.value.is[i])

\* pgNumericExpr over both kinds of number; everything else as text.
pgExpr(d, kind) ==
  IF kind \in {"int", "double"}
    THEN IF IsNumber(d) THEN SqlNum(Number(d)) ELSE SqlNull
    ELSE Member(d, kind)

pgArg(val) == IF IsNumber(val) THEN SqlNum(Number(val)) ELSE sqliteArg(val)

\* Elements are compared as texts: a number bound there is up to the driver
\* and taken as the text of the same number.
pgFilterClause(fields, f) ==
  LET d == lookupNestedField(fields, f.field)
      elems == IF d.kind = "array" THEN d.is ELSE <<>>
      Has(val) == /\ val.kind \in {"string", "int", "double", "bool"}
                  /\ \E i \in DOMAIN elems : elems[i].kind = val.kind /\ elems[i].is = val.is
      first == IF f.value.kind = "array" /\ f.value.is # <<>>
                 THEN f.value.is[1].kind ELSE "null"
  IN CASE f.op \in Inequalities \cup {"==", "!="} /\ f.value.kind = "null" ->
            NullClause(d, f.op)
       [] f.op \in Inequalities \cup {"==", "!="} /\ f.value.kind # "null" ->
            SqlTrue(f.op, pgExpr(d, f.value.kind), pgArg(f.value))
       [] f.op = "in" ->
            \E i \in DOMAIN f.value.is :
              SqlTrue("==", pgExpr(d, first), pgArg(f.value.is[i]))
       [] f.op = "not-in" ->
            \/ f.value.is = <<>>
            \/ /\ pgExpr(d, first) # SqlNull
               /\ \A i \in DOMAIN f.value.is :
                    SqlTrue("!=", pgExpr(d, first), pgArg(f.value.is[i]))
       [] f.op = "array-contains" -> Has(f.value)
       [] f.op = "array-contains-any" -> \E i \in DOMAIN f.value.is : Has(f.value.is[i])

-----------------------------------------------------------------------------
(***************************************************************************)
(* Cursors.  A row is the sequence of its order-by Values; Expr and Arg    *)
(* are the adapter's expression and argument for a cursor value.           *)
(***************************************************************************)

\* Mutant of sqliteCursorOp: a descending order does not flip the operator.
sqliteCursorOpAscending(isEnd, before, isDesc) ==
  IF ~isEnd THEN (IF before THEN ">=" ELSE ">") ELSE (IF before THEN "<" ELSE "<=")

sqliteCursorOp(isEnd, before, isDesc) ==
  CASE ~isEnd /\ before -> IF isDesc THEN "<=" ELSE ">="
    [] ~isEnd /\ ~before -> IF isDesc THEN "<" ELSE ">"
    [] isEnd /\ before -> IF isDesc THEN ">" ELSE "<"
    [] isEnd /\ ~before -> IF isDesc THEN ">=" ELSE "<="

\* As many fields as there are both values and orders; none keeps every row.
CursorClause(Expr(_, _), Arg(_), cursor, orders, row) ==
  LET n == IF Len(cursor.values) > Len(orders) THEN Len(orders) ELSE Len(cursor.values)
      Op(i) == sqliteCursorOp(cursor.isEnd, cursor.before, orders[i].desc)
      Holds(op, i) == SqlTrue(op, Expr(row[i], cursor.values[i].kind), Arg(cursor.values[i]))
  IN n = 0 \/ \E i \in 1 .. n : (\A j \in 1 .. i - 1 : Holds("==", j)) /\ Holds(Op(i), i)

sqliteCursorClause(cursor, orders, row) ==
  CursorClause(sqliteScalarExpr, sqliteArg, cursor, orders, row)

pgCursorClause(cursor, orders, row) == CursorClause(pgExpr, pgArg, cursor, orders, row)

-----------------------------------------------------------------------------
(***************************************************************************)
(* ORDER BY: a value's sort key, and whether one value comes before        *)
(* another.  NULL is the smallest key in SQLite; PostgreSQL puts it last,  *)
(* or first in a descending order.                                         *)
(***************************************************************************)
SortText(d) ==
  CASE d.kind = "string" -> SqlText(<<d.is>>)
    [] d.kind = "time" -> SqlText(protojsonTime(d.is))
    [] OTHER -> SqlNull

sqliteOrderExpr(d) == IF IsNumber(d) THEN SqlNum(Number(d)) ELSE SortText(d)

sqliteBefore(a, b, desc) ==
  LET x == sqliteOrderExpr(IF desc THEN b ELSE a)
      y == sqliteOrderExpr(IF desc THEN a ELSE b)
  IN x # y /\ (x = SqlNull \/ (y # SqlNull /\ SqlCmp(x, y) < 0))

\* Two expressions: numbers, then texts.
pgOrderExpr(d) ==
  <<IF IsNumber(d) THEN SqlNum(Number(d)) ELSE SqlNull, SortText(d)>>

pgBefore(a, b, desc) ==
  LET x == pgOrderExpr(IF desc THEN b ELSE a)
      y == pgOrderExpr(IF desc THEN a ELSE b)
      Less(i) == x[i] # y[i] /\ (y[i] = SqlNull \/ (x[i] # SqlNull /\ SqlCmp(x[i], y[i]) < 0))
  IN Less(1) \/ (x[1] = y[1] /\ Less(2))

-----------------------------------------------------------------------------
(***************************************************************************)
(* Numbered placeholders of the PostgreSQL statements.  sizes[i] is how    *)
(* many arguments the i-th clause binds; every placeholder is the counter  *)
(* after one increment.  The result is the sequence of numbers written,    *)
(* which the server accepts when it runs from 1 to the number of arguments.*)
(***************************************************************************)
FilterArgs(f) ==
  CASE f.op = "array-contains" -> 1
    [] f.op \in Inequalities \cup {"==", "!="} -> IF f.value.kind = "null" THEN 0 ELSE 1
    [] OTHER -> Len(f.value.is)

\* The i-th part of a cursor clause binds i values.
CursorArgs(cursor, orders) ==
  LET n == IF Len(cursor.values) > Len(orders) THEN Len(orders) ELSE Len(cursor.values)
  IN (n * (n + 1)) \div 2

Numbers(first, sizes) ==
  LET total == FoldLeft(LAMBDA a, b : a + b, 0, sizes)
  IN [i \in 1 .. total |-> first + i - 1]

\* Mutant of pgQueryPlaceholders: the counter starts at 1.
pgQueryPlaceholdersFromOne(hasCollection, sizes) ==
  Numbers(2, <<1>> \o (IF hasCollection THEN <<1>> ELSE <<>>) \o sizes \o <<2>>)

\* QueryDocuments: parent, collection, filters and cursors, limit and offset.
pgQueryPlaceholders(hasCollection, sizes) ==
  Numbers(1, <<1>> \o (IF hasCollection THEN <<1>> ELSE <<>>) \o sizes \o <<2>>)

\* RunAggregationQuery counts once after each number it writes itself, and
\* pgFilterClause counts once more before the first of its own.
pgAggregationPlaceholders(hasCollection, sizes) ==
  LET own == IF hasCollection THEN 2 ELSE 1
  IN Numbers(1, <<own>>) \o Numbers(own + 2, sizes)

Accepted(numbers) == \A i \in DOMAIN numbers : numbers[i] = i

-----------------------------------------------------------------------------
(***************************************************************************)
(* Aggregation over the matching documents: vals is the sequence of the    *)
(* aggregated field's Values.                                              *)
(***************************************************************************)
Numeric(vals) == SelectSeq(vals, IsNumber)

Total(vals) == FoldLeft(LAMBDA sum, val : sum + Number(val), 0, Numeric(vals))

\* Towards zero, as int64(f) does.
Truncate(halves) == IF halves < 0 THEN -((-halves) \div 2) ELSE halves \div 2

\* Mutant of sqliteAggregate: the average counts documents without a number.
sqliteAggregateAllRows(op, vals) ==
  CASE op = "count" -> Val("int", Len(vals))
    [] op = "sum" -> Val("int", Truncate(Total(vals)))
    [] op = "avg" /\ Numeric(vals) = <<>> -> Val("null", 0)
    [] OTHER -> [kind |-> "quotient", is |-> <<Total(vals), Len(vals)>>]

\* The sum of nothing is 0; sums are cut to an integer.
sqliteAggregate(op, vals) ==
  CASE op = "count" -> Val("int", Len(vals))
    [] op = "sum" -> Val("int", Truncate(Total(vals)))
    [] op = "avg" /\ Numeric(vals) = <<>> -> Val("null", 0)
    [] OTHER -> [kind |-> "quotient", is |-> <<Total(vals), Len(Numeric(vals))>>]

pgAggregate(op, vals) ==
  IF op = "sum" /\ Numeric(vals) = <<>> THEN Val("null", 0) ELSE sqliteAggregate(op, vals)

\* An empty alias becomes field_<i>, counted from 0.
Aliases(aliases) ==
  [i \in DOMAIN aliases |-> IF aliases[i] = "" THEN <<"field_", i - 1>> ELSE <<aliases[i]>>]

AggregationQueryFromProto(saq) ==
  LET base == QueryFromStructuredQuery(saq.query, 0)
  IN CASE IsRefused(base) -> base
       [] ~IsRefused(base) /\ saq.ops = <<>> -> Refused("InvalidArgument")
       [] ~IsRefused(base) /\ \E i \in DOMAIN saq.ops : saq.ops[i] \notin {"count", "sum", "avg"} ->
            Refused("Unimplemented")
       [] OTHER -> [base |-> base, ops |-> saq.ops, aliases |-> Aliases(saq.aliases)]

=============================================================================
