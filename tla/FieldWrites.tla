---------------------------- MODULE FieldWrites ----------------------------
(***************************************************************************)
(* What a write does to the fields of a document: field masks, field       *)
(* transforms, preconditions, and the results reported for them.           *)
(*                                                                         *)
(* A document is [fields, at]: fields is a function from names to Values   *)
(* (module QueryEval), at is its update time; NoDoc is no document.  A     *)
(* field path is a sequence of names, split at its dots.  Paths of a table *)
(* are the elements of its domain.                                         *)
(***************************************************************************)
EXTENDS QueryEval

CONSTANT IntWidth     \* bits of an integer: 64 in the program

ASSUME IntWidthAssumption == IntWidth \in Nat \ {0}

NoFields == [x \in {} |-> Absent]

NoDoc == [fields |-> NoFields, at |-> 0]

\* Two's complement addition of int64.
Wrap(n) == ((n + 2 ^ (IntWidth - 1)) % 2 ^ IntWidth) - 2 ^ (IntWidth - 1)

Field(fields, name) == IF name \in DOMAIN fields THEN fields[name] ELSE Absent

\* fields with name set to val, or without it when val is Absent.
With(fields, name, val) ==
  [x \in (DOMAIN fields \cup {name}) \ (IF val.kind = "absent" THEN {name} ELSE {}) |->
     IF x = name THEN val ELSE fields[x]]

getNestedFields(val) == IF val.kind = "map" THEN val.is ELSE NoFields

nestedGetValue(fields, fp) == lookupNestedField(fields, fp)

\* What replaces the value n names above the end of fp: maps are created, and
\* replace what is not a map, on the way back up.
Replaced(fields, fp, val) ==
  LET new[n \in 0 .. Len(fp)] ==
        IF n = 0 THEN val
        ELSE Val("map", With(getNestedFields(ValuesAlong(fields, fp)[Len(fp) - n]),
                             fp[Len(fp) - n + 1], new[n - 1]))
  IN new

nestedSetValue(fields, fp, val) == Replaced(fields, fp, val)[Len(fp)].is

\* Fields after the first n paths; those in which get their value, or none
\* when it is Absent.
SetInTurn(fields, paths, vals, which) ==
  LET after[n \in 0 .. Len(paths)] ==
        IF n = 0 THEN fields
        ELSE IF n \in which THEN nestedSetValue(after[n - 1], paths[n], vals[n])
        ELSE after[n - 1]
  IN after

SetAll(fields, paths, vals, which) == SetInTurn(fields, paths, vals, which)[Len(paths)]

\* Mutant of applyMask: a nested path replaces its whole top-level field.
applyMaskTop(current, incoming, maskPaths) ==
  SetAll(current, [i \in DOMAIN maskPaths |-> <<maskPaths[i][1]>>],
         [i \in DOMAIN maskPaths |-> Field(incoming, maskPaths[i][1])], DOMAIN maskPaths)

\* The incoming value, or none, at the end of every path.
applyMask(current, incoming, maskPaths) ==
  SetAll(current, maskPaths,
         [i \in DOMAIN maskPaths |-> nestedGetValue(incoming, maskPaths[i])], DOMAIN maskPaths)

-----------------------------------------------------------------------------
(***************************************************************************)
(* Transforms: [path, type, arg].  Every one starts from the document's    *)
(* current fields, not from what an earlier one left.  The type server is  *)
(* a server value other than the request time.                             *)
(***************************************************************************)
\* The switch has no case for these: they do nothing and report nothing.
Ignored(t) == t.type \in {"maximum", "minimum", "unset"}

Elements(val) == IF val.kind = "array" THEN val.is ELSE <<>>

InSeq(x, s) == \E i \in DOMAIN s : s[i] = x

\* Elements of arg that curr lacks are appended, repeated ones repeatedly.
AppendMissing(curr, arg) ==
  Val("array", Elements(curr) \o SelectSeq(arg, LAMBDA x : ~InSeq(x, Elements(curr))))

RemoveAll(curr, arg) ==
  Val("array", SelectSeq(Elements(curr), LAMBDA x : ~InSeq(x, arg)))

\* An integer is only added to an integer, a double to any number.
Increment(curr, arg) ==
  IF arg.kind = "int"
    THEN Val("int", Wrap((IF curr.kind = "int" THEN curr.is ELSE 0) + arg.is))
    ELSE Val("double", (IF IsNumber(curr) THEN Number(curr) ELSE 0) + arg.is)

TransformFails(t) == t.type = "increment" /\ ~IsNumber(t.arg)

\* The reported value; none, for an unknown server value.
TransformResult(t, currFields, now) ==
  LET curr == nestedGetValue(currFields, t.path)
  IN CASE t.type = "time" -> Val("time", now)
       [] t.type = "increment" -> Increment(curr, t.arg)
       [] t.type = "append" -> AppendMissing(curr, t.arg)
       [] t.type = "remove" -> RemoveAll(curr, t.arg)
       [] OTHER -> Absent

\* Whether the value is stored: removing from a field that is not there does
\* not create it.
Stores(t, currFields) ==
  /\ ~Ignored(t)
  /\ t.type # "server"
  /\ t.type = "remove" => nestedGetValue(currFields, t.path).kind # "absent"

\* What the first n transforms report.
ResultsInTurn(transforms, currFields, now) ==
  LET after[n \in 0 .. Len(transforms)] ==
        IF n = 0 THEN <<>>
        ELSE IF Ignored(transforms[n]) THEN after[n - 1]
        ELSE Append(after[n - 1], TransformResult(transforms[n], currFields, now))
  IN after

TransformResults(transforms, currFields, now) ==
  ResultsInTurn(transforms, currFields, now)[Len(transforms)]

\* The value each transform computes, reported or not.
TransformValues(transforms, currFields, now) ==
  [i \in DOMAIN transforms |-> TransformResult(transforms[i], currFields, now)]

\* Mutant of applyFieldTransforms: the transformed field replaces its parent.
applyFieldTransformsFlat(fields, transforms, currFields, now) ==
  SetAll(fields, [i \in DOMAIN transforms |-> <<transforms[i].path[1]>>],
         TransformValues(transforms, currFields, now), DOMAIN transforms)

applyFieldTransforms(fields, transforms, currFields, now) ==
  SetAll(fields, [i \in DOMAIN transforms |-> transforms[i].path],
         TransformValues(transforms, currFields, now),
         {i \in DOMAIN transforms : Stores(transforms[i], currFields)})

-----------------------------------------------------------------------------
(***************************************************************************)
(* Writes: [op, path, fields, mask, transforms, pre]; op is update, delete *)
(* or verify (a precondition without an operation), or transform, which    *)
(* the server does not know.  pre is none, exists, absent or a time.       *)
(***************************************************************************)
Found(docs, p) == docs[p].at # 0

\* Mutant of BaseFields: a transform-only write starts from nothing.
BaseFieldsEmpty(w, curr) == w.fields

\* A write with transforms only is a delta on the current document.
BaseFields(w, curr) ==
  IF w.mask = <<>> /\ w.fields = NoFields /\ curr # NoDoc THEN curr.fields ELSE w.fields

\* The fields an update stores, and the transform results it reports.
Updated(w, curr, now) ==
  LET fields == IF w.transforms = <<>> THEN w.fields
                ELSE applyFieldTransforms(BaseFields(w, curr), w.transforms, curr.fields, now)
  IN [fields  |-> IF w.mask = <<>> THEN fields ELSE applyMask(curr.fields, fields, w.mask),
      results |-> TransformResults(w.transforms, curr.fields, now)]

\* The code a write fails with, or "OK": the update time is compared first,
\* the store's own checks come last.
StoreStatus(docs, w) ==
  CASE w.pre.type \in {"exists", "time"} /\ ~Found(docs, w.path) -> "NotFound"
    [] w.pre.type = "absent" /\ Found(docs, w.path) -> "AlreadyExists"
    [] OTHER -> "OK"

UpdateStatus(docs, w) ==
  IF w.pre.type = "time" /\ (~Found(docs, w.path) \/ docs[w.path].at # w.pre.at)
    THEN "FailedPrecondition"
  ELSE IF \E i \in DOMAIN w.transforms : TransformFails(w.transforms[i])
    THEN "InvalidArgument"
  ELSE StoreStatus(docs, w)

WriteStatus(docs, w) ==
  CASE w.op = "update" -> UpdateStatus(docs, w)
    [] w.op = "delete" -> IF w.pre.type = "absent" THEN "OK" ELSE StoreStatus(docs, w)
    [] w.op = "verify" -> "OK"
    [] OTHER -> "Unimplemented"

Store(docs, p, doc) == [x \in DOMAIN docs |-> IF x = p THEN doc ELSE docs[x]]

\* One write applied: the table, and the WriteResult [at, values].
ApplyWrite(docs, w, now) ==
  CASE w.op = "update" ->
         LET up == Updated(w, docs[w.path], now)
         IN [docs   |-> Store(docs, w.path, [fields |-> up.fields, at |-> now]),
             result |-> [at |-> now, values |-> up.results]]
    [] w.op = "delete" ->
         [docs |-> Store(docs, w.path, NoDoc), result |-> [at |-> now, values |-> <<>>]]
    [] OTHER -> [docs |-> docs, result |-> [at |-> now, values |-> <<>>]]

\* acc is [status, docs, results] so far; a write that fails takes the table
\* back to docs.
AfterWrite(acc, docs, w, now) ==
  LET done == ApplyWrite(acc.docs, w, now)
  IN IF acc.status # "OK" THEN acc
     ELSE IF WriteStatus(acc.docs, w) # "OK"
       THEN [status |-> WriteStatus(acc.docs, w), docs |-> docs, results |-> <<>>]
     ELSE [status |-> "OK", docs |-> done.docs, results |-> Append(acc.results, done.result)]

\* All or nothing: what the first n writes come to.
BatchInTurn(docs, writes, now) ==
  LET after[n \in 0 .. Len(writes)] ==
        IF n = 0 THEN [status |-> "OK", docs |-> docs, results |-> <<>>]
        ELSE AfterWrite(after[n - 1], docs, writes[n], now)
  IN after

applyWriteBatch(docs, writes, now) == BatchInTurn(docs, writes, now)[Len(writes)]

\* Mutant of BatchWrite: a failed write leaves no result behind.
BatchWriteSkipsFailed(sent, one) ==
  [results  |-> sent.results \o one.results,
   statuses |-> Append(sent.statuses, one.status)]

\* What one write of a BatchWrite, a batch of its own, adds to the response:
\* a result, empty if it failed, and a status.
BatchWrite(sent, one) ==
  [results  |-> Append(sent.results,
                  IF one.status = "OK" THEN one.results[1] ELSE [at |-> 0, values |-> <<>>]),
   statuses |-> Append(sent.statuses, one.status)]

\* The unary call: a missing document takes all fields given, and an update
\* time only asks for a document.
UpdateDocument(docs, w, now) ==
  LET fields == IF w.mask # <<>> /\ Found(docs, w.path)
                  THEN applyMask(docs[w.path].fields, w.fields, w.mask) ELSE w.fields
  IN [status |-> StoreStatus(docs, w),
      docs   |-> IF StoreStatus(docs, w) # "OK" THEN docs
                 ELSE Store(docs, w.path, [fields |-> fields, at |-> now])]

-----------------------------------------------------------------------------
(***************************************************************************)
(* Commit in a transaction: the writes become operations; a verify has     *)
(* none but still a result.                                                *)
(***************************************************************************)
TxStatus(writes) ==
  IF \E i \in DOMAIN writes : writes[i].op = "transform" THEN "Unimplemented" ELSE "OK"

\* The table after the first n writes; masks, transforms and preconditions
\* play no part.
TxInTurn(docs, writes, now) ==
  LET after[n \in 0 .. Len(writes)] ==
        IF n = 0 THEN docs
        ELSE IF writes[n].op = "verify" THEN after[n - 1]
        ELSE Store(after[n - 1], writes[n].path,
                   IF writes[n].op = "delete" THEN NoDoc
                   ELSE [fields |-> writes[n].fields, at |-> now])
  IN after

TxApply(docs, writes, now) == TxInTurn(docs, writes, now)[Len(writes)]

TxResults(writes, commitTime) ==
  [i \in DOMAIN writes |-> [at |-> commitTime, values |-> <<>>]]

=============================================================================
