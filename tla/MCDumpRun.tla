------------------------------ MODULE MCDumpRun ------------------------------
(***************************************************************************)
(* Instances of DumpRun for TLC.                                           *)
(***************************************************************************)
EXTENDS DumpRun

Object == [data |-> FALSE, rows |-> 0, transactional |-> FALSE]
InnoDB(n) == [data |-> TRUE, rows |-> n, transactional |-> TRUE]
MyISAM(n) == [data |-> TRUE, rows |-> n, transactional |-> FALSE]

\* Two statements for one table and one for another; two snapshot tables
\* around one that has no snapshot.
TwoTables   == { << Object, InnoDB(2), InnoDB(1) >> }
ThreeTables == { << InnoDB(1), MyISAM(1), InnoDB(1) >> }

\* Sessions for which the values restored are the values found.
PlainSessions ==
  { c \in Caller : c.plainNames /\ c.repeatableRead }
AnyIsolation == { c \in Caller : c.plainNames }

DefaultOptions ==
  [ consistency |-> "single-transaction", timeZone |-> TRUE, signal |-> TRUE,
    callbackThrows |-> FALSE, frames |-> TRUE ]

LeaseOptions ==
  { DefaultOptions,
    [DefaultOptions EXCEPT !.consistency = "lock-all-tables", !.timeZone = FALSE],
    [DefaultOptions EXCEPT !.consistency = "none", !.frames = FALSE] }
SnapshotOptions ==
  { [DefaultOptions EXCEPT !.callbackThrows = TRUE],
    [DefaultOptions EXCEPT !.callbackThrows = TRUE, !.consistency = "lock-all-tables",
                           !.timeZone = FALSE] }
=============================================================================
