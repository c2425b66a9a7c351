--------------------------- MODULE MCInsertExport ---------------------------
(***************************************************************************)
(* Instances of InsertExport for TLC.  The lengths are such that a cap of  *)
(* 1024 bytes, the least one, is met exactly, missed by one byte and       *)
(* exceeded by a single row.                                               *)
(***************************************************************************)
EXTENDS InsertExport

\* Infinity, the default of maxRowsPerStatement.
NoRowCap == MaxRows + 1

\* Behind a prefix of 24 bytes two tuples of 499 and their comma and semicolon
\* make 1024 bytes; a tuple of 500 instead is one byte too long, and 1100 bytes
\* are a row no statement has room for.
SomeTuples == { 499, 500, 1100 }

PlainExport ==
  [ insertable |-> TRUE, extendedInsert |-> TRUE, maxRows |-> NoRowCap, maxBytes |-> 1024,
    packet |-> 0, signal |-> TRUE, callbackThrows |-> FALSE ]

\* The least byte cap, requested as such or below it, or from a small packet; a
\* large one that the packet lowers to three tuples; one row per statement by
\* either option, two, and any number; a table whose columns are all generated.
SomeExports ==
  { PlainExport,
    [PlainExport EXCEPT !.maxBytes = 1000000, !.packet = 1700, !.callbackThrows = TRUE],
    [PlainExport EXCEPT !.maxBytes = 0, !.extendedInsert = FALSE],
    [PlainExport EXCEPT !.maxBytes = 2048, !.maxRows = 2],
    [PlainExport EXCEPT !.maxRows = 0, !.packet = 500],
    [PlainExport EXCEPT !.insertable = FALSE] }
=============================================================================
