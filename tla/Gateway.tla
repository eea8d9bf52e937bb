------------------------------ MODULE Gateway ------------------------------
(***************************************************************************)
(* How a REST request finds its RPC and how its URL becomes the resource   *)
(* names of the request message.                                           *)
(*                                                                         *)
(* A URL is [method, segs, verb]: segs are the segments that follow        *)
(* /v1/projects/*/databases/*/documents, verb what follows the last colon, *)
(* or "".  A resource name is the sequence of its segments below the       *)
(* database, so it starts with "documents"; "" is an empty segment, which  *)
(* a name ending in "/" has at its end.                                    *)
(***************************************************************************)
EXTENDS Integers, Sequences, SequencesExt

Documents == <<"documents">>

EmptySegment == ""

NoVerb == ""

\* What "**" contributes to a name: nothing is still joined with a "/".
Deep(segs) == IF segs = <<>> THEN <<EmptySegment>> ELSE segs

NotBound == <<>>

\* The patterns, by the variables they bind; NotBound where they do not match.
\* {name=projects/*/databases/*/documents/*/**}
NamePattern(segs) ==
  IF segs = <<>> THEN NotBound
  ELSE [name |-> Documents \o <<segs[1]>> \o Deep(Tail(segs))]

\* {parent=projects/*/databases/*/documents/*/**}/{collection_id}
NestedPattern(segs) ==
  IF Len(segs) < 2 THEN NotBound
  ELSE [parent |-> Documents \o <<segs[1]>> \o Deep(SubSeq(segs, 2, Len(segs) - 1)),
        collection_id |-> Last(segs)]

\* {parent=projects/*/databases/*/documents}/{collection_id}
TopPattern(segs) ==
  IF Len(segs) # 1 THEN NotBound ELSE [parent |-> Documents, collection_id |-> segs[1]]

\* {parent=projects/*/databases/*/documents/**}/{collection_id}
CreatePattern(segs) ==
  IF segs = <<>> THEN NotBound
  ELSE [parent |-> Documents \o Deep(Front(segs)), collection_id |-> Last(segs)]

\* {parent=projects/*/databases/*/documents} and the same with /*/**
RootPattern(segs) == IF segs # <<>> THEN NotBound ELSE [parent |-> Documents]

BelowPattern(segs) ==
  IF segs = <<>> THEN NotBound
  ELSE [parent |-> Documents \o <<segs[1]>> \o Deep(Tail(segs))]

\* {database=projects/*/databases/*}/documents
DatabasePattern(segs) == IF segs # <<>> THEN NotBound ELSE [database |-> "database"]

-----------------------------------------------------------------------------
(***************************************************************************)
(* The routes: the RPC and the variables bound, or NotBound.  A pattern    *)
(* with a verb takes only the URLs that end in it; one without takes the   *)
(* last component as it is spelled, a ":verb" included, unless that is the *)
(* "documents" of the pattern itself.                                      *)
(***************************************************************************)
Spelled(url) ==
  IF url.verb = NoVerb \/ url.segs = <<>> THEN url.segs
  ELSE Front(url.segs) \o <<<<Last(url.segs), url.verb>>>>

Route(url, rpc, method, verb, bound) ==
  IF url.method = method /\ verb \in {NoVerb, url.verb} /\ bound # NotBound
    THEN <<[rpc |-> rpc, args |-> bound]>> ELSE <<>>

GetDocument_0(url) == Route(url, "GetDocument", "GET", NoVerb, NamePattern(Spelled(url)))

ListDocuments_0(url) == Route(url, "ListDocuments", "GET", NoVerb, NestedPattern(Spelled(url)))

ListDocuments_1(url) == Route(url, "ListDocuments", "GET", NoVerb, TopPattern(Spelled(url)))

UpdateDocument_0(url) == Route(url, "UpdateDocument", "PATCH", NoVerb, NamePattern(Spelled(url)))

DeleteDocument_0(url) == Route(url, "DeleteDocument", "DELETE", NoVerb, NamePattern(Spelled(url)))

BatchGetDocuments_0(url) ==
  Route(url, "BatchGetDocuments", "POST", "batchGet", DatabasePattern(url.segs))

BeginTransaction_0(url) ==
  Route(url, "BeginTransaction", "POST", "beginTransaction", DatabasePattern(url.segs))

Commit_0(url) == Route(url, "Commit", "POST", "commit", DatabasePattern(url.segs))

Rollback_0(url) == Route(url, "Rollback", "POST", "rollback", DatabasePattern(url.segs))

RunQuery_0(url) == Route(url, "RunQuery", "POST", "runQuery", RootPattern(url.segs))

RunQuery_1(url) == Route(url, "RunQuery", "POST", "runQuery", BelowPattern(url.segs))

ExecutePipeline_0(url) ==
  Route(url, "ExecutePipeline", "POST", "executePipeline", DatabasePattern(url.segs))

RunAggregationQuery_0(url) ==
  Route(url, "RunAggregationQuery", "POST", "runAggregationQuery", RootPattern(url.segs))

RunAggregationQuery_1(url) ==
  Route(url, "RunAggregationQuery", "POST", "runAggregationQuery", BelowPattern(url.segs))

PartitionQuery_0(url) ==
  Route(url, "PartitionQuery", "POST", "partitionQuery", RootPattern(url.segs))

PartitionQuery_1(url) ==
  Route(url, "PartitionQuery", "POST", "partitionQuery", BelowPattern(url.segs))

ListCollectionIds_0(url) ==
  Route(url, "ListCollectionIds", "POST", "listCollectionIds", RootPattern(url.segs))

ListCollectionIds_1(url) ==
  Route(url, "ListCollectionIds", "POST", "listCollectionIds", BelowPattern(url.segs))

BatchWrite_0(url) == Route(url, "BatchWrite", "POST", "batchWrite", DatabasePattern(url.segs))

CreateDocument_0(url) == Route(url, "CreateDocument", "POST", NoVerb, CreatePattern(Spelled(url)))

\* In the order of registration.
GetHandlers(url) == GetDocument_0(url) \o ListDocuments_0(url) \o ListDocuments_1(url)

PostHandlers(url) ==
  BatchGetDocuments_0(url) \o BeginTransaction_0(url) \o Commit_0(url) \o Rollback_0(url)
    \o RunQuery_0(url) \o RunQuery_1(url) \o ExecutePipeline_0(url)
    \o RunAggregationQuery_0(url) \o RunAggregationQuery_1(url)
    \o PartitionQuery_0(url) \o PartitionQuery_1(url)
    \o ListCollectionIds_0(url) \o ListCollectionIds_1(url)
    \o BatchWrite_0(url) \o CreateDocument_0(url)

\* The mux tries the route registered last first.  A URL that only patterns of
\* other methods take is refused too.
NotFoundRoute == [rpc |-> "NotFound", args |-> NotBound]

ServeMux(url) ==
  LET routes == GetHandlers(url) \o UpdateDocument_0(url) \o DeleteDocument_0(url)
                  \o PostHandlers(url)
  IN IF routes = <<>> THEN NotFoundRoute ELSE Last(routes)

\* Served before the mux, with the parent cut out of the URL.
Intercepted(url) == url.method = "POST" /\ url.verb \in {"runQuery", "batchGet", "runAggregationQuery"}

InterceptParent(url) == Documents \o url.segs

\* RPCs the server leaves to UnimplementedFirestoreServer.
Unimplemented == {"PartitionQuery", "ExecutePipeline"}

-----------------------------------------------------------------------------
(***************************************************************************)
(* Resource names in the handlers.                                         *)
(***************************************************************************)

\* Mutant of TrimParent: the parent is used as it was bound.
TrimParentNot(parent) == parent

\* strings.TrimRight(parent, "/").
TrimParent(parent) == IF Last(parent) = EmptySegment THEN Front(parent) ELSE parent

BuildPath(parent, collection, docID) == parent \o <<collection, docID>>

CreatedPath(args, docID) == BuildPath(TrimParent(args.parent), args.collection_id, docID)

\* The names below the database start with "documents"; below it, pairs.
ParsePath(path) ==
  IF Len(path) < 3 \/ Len(path) % 2 # 1 THEN [collection_id |-> EmptySegment, parent |-> <<>>]
  ELSE [collection_id |-> path[Len(path) - 1], parent |-> SubSeq(path, 1, Len(path) - 2)]

=============================================================================
