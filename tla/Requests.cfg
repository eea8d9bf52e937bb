\* Requests, one per initial state: filters on every pair of values, orders,
\* cursors, pages beside a writer, aggregations, writes, URLs, sweeps.
SPECIFICATION LiveSpec
CONSTANTS
  Inputs <- MCInputs
  FieldPaths <- MCFieldPaths
  PageSize = 2
  MaxWrites = 2
  MaxOut = 8
  IntWidth = 4
INVARIANTS
  QueryRight
  PagesComplete
  AggregatesRight
  MaskExact
  TransformsKept
  
  ResultPerWrite
  RestNames
  SweepRight
PROPERTY QueryEnds
CHECK_DEADLOCK FALSE
