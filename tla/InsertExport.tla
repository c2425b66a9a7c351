---------------------------- MODULE InsertExport ----------------------------
(***************************************************************************)
(* exportTableDataAsInserts: the rows of one table, taken from a stream    *)
(* that keeps RowSource's promise, gathered into INSERT statements under   *)
(* a byte cap and a row cap, and written to the output of StreamWriter.    *)
(*                                                                         *)
(* A row is the number of bytes its rendered tuple has.  The environment   *)
(* ends or fails the stream, fires the signal, stalls or breaks the        *)
(* output, and makes the progress callback throw.                          *)
(***************************************************************************)
EXTENDS StreamWriter

CONSTANTS
  Options,       \* the option records a caller may pass
  TupleLengths,  \* bytes a tuple may have
  PrefixLength,  \* bytes of INSERT INTO ... VALUES
  MaxRows        \* bound: rows of the table

ASSUME ExportOptionsAssumption ==
  Options \subseteq
    [ insertable : BOOLEAN,       \* the table has a column that is not generated
      extendedInsert : BOOLEAN,
      maxRows : Int,              \* maxRowsPerStatement
      maxBytes : Int,             \* maxStatementBytes
      packet : Nat,               \* maxAllowedPacket, 0 when it is not known
      signal : BOOLEAN,           \* the caller passed an AbortSignal
      callbackThrows : BOOLEAN ]  \* its progress callback may throw
ASSUME LengthsAssumption ==
  TupleLengths \subseteq Nat \ {0} /\ PrefixLength \in Nat \ {0} /\ MaxRows \in Nat

VARIABLES
  opts,
  pc,
  tuples,            \* the tuples taken from the stream so far
  statementLength,   \* bytes of the open statement, 0 when there is none
  statementRows, rowsExported, statementsWritten,
  afterFlush,        \* what the flush that is awaited was for
  outcome, aborted

statement == << statementLength, statementRows >>
counts    == << rowsExported, statementsWritten >>
vars == << sink, writer, opts, pc, tuples, statement, counts, afterFlush, outcome, aborted >>

Larger(a, b)  == IF a < b THEN b ELSE a
Smaller(a, b) == IF a < b THEN a ELSE b

\* resolveMaxStatementBytes
maxStatementBytes ==
  LET bounded == Larger(1024, opts.maxBytes)
  IN  IF opts.packet = 0 THEN bounded
                         ELSE Larger(1024, Smaller(bounded, (9 * opts.packet) \div 10))

maxRowsPerStatement == Larger(1, opts.maxRows)

Init ==
  /\ WriterInit
  /\ opts \in Options
  /\ pc = "start"
  /\ tuples = << >>
  /\ statementLength = 0 /\ statementRows = 0
  /\ rowsExported = 0 /\ statementsWritten = 0
  /\ afterFlush = "row"
  /\ outcome = "none" /\ aborted = FALSE

Settle(o) == pc' = "done" /\ outcome' = o

\* The catch block, left through the progress callback.
Cancelled == Settle("cancelled") \/ (opts.callbackThrows /\ Settle("rejected"))

-----------------------------------------------------------------------------
Start ==
  /\ pc = "start"
  /\ \/ ~opts.insertable /\ Settle("completed")
     \/ opts.insertable /\ opts.callbackThrows /\ Settle("rejected")
     \/ opts.insertable /\ pc' = "source" /\ UNCHANGED outcome
  /\ UNCHANGED << sink, writer, opts, tuples, statement, counts, afterFlush, aborted >>

\* The row in hand goes into the open statement, or opens one.
AddTuple(length, count, tuple) ==
  /\ statementLength' = IF length = 0 THEN PrefixLength + tuple ELSE length + 1 + tuple
  /\ statementRows' = count + 1
  /\ rowsExported' = rowsExported + 1
  /\ pc' = "source"

FitsWithoutComma(tuple) == statementLength + tuple <= maxStatementBytes
Fits(tuple) == statementLength + tuple + 2 <= maxStatementBytes

\* The open statement is closed before a row that has no room in it.
IsDue(tuple) ==
  statementLength # 0 /\ ( \/ ~opts.extendedInsert
                           \/ statementRows >= maxRowsPerStatement
                           \/ ~Fits(tuple) )

\* What a flush was for follows it: the row in hand, or the end.
GoOn(why, tuple) ==
  IF why = "row"
    THEN AddTuple(0, 0, tuple) /\ UNCHANGED outcome
    ELSE /\ statementLength' = 0 /\ statementRows' = 0 /\ UNCHANGED rowsExported
         /\ \/ Settle("completed")
            \/ opts.callbackThrows /\ Settle("rejected")

\* flushStatement has written.
Flushed(why, tuple) == GoOn(why, tuple) /\ statementsWritten' = statementsWritten + 1

Stays == UNCHANGED << statement, counts >>

\* The statement as it is handed to the output, with its terminator.
Chunk == [ first |-> rowsExported - statementRows + 1, last |-> rowsExported,
           bytes |-> statementLength + 2 ]

\* writer.write(statement): refused after an error or an abort, done at once
\* while the output takes more, and awaiting its 'drain' otherwise.
Flush(why, tuple) ==
  /\ afterFlush' = why
  /\ \/ writeError /\ Settle("rejected") /\ Stays /\ UNCHANGED << sink, writer >>
     \/ ~writeError /\ aborted /\ Cancelled /\ Stays /\ UNCHANGED << sink, writer >>
     \/ /\ ~writeError /\ ~aborted
        /\ Hand(Chunk)
        /\ IF CanWriteMore(Chunk)
             THEN Flushed(why, tuple)
             ELSE pc' = "drain" /\ Stays /\ UNCHANGED outcome

-----------------------------------------------------------------------------
TakeRow(tuple) ==
  /\ pc = "source" /\ Len(tuples) < MaxRows
  /\ \/ /\ aborted /\ Cancelled
        /\ Stays
        /\ UNCHANGED << sink, writer, tuples, afterFlush >>
     \/ /\ ~aborted /\ tuples' = Append(tuples, tuple)
        /\ IF IsDue(tuple)
             THEN Flush("row", tuple)
             ELSE /\ AddTuple(statementLength, statementRows, tuple)
                  /\ UNCHANGED << sink, writer, statementsWritten, afterFlush, outcome >>
  /\ UNCHANGED << opts, aborted >>

ExportEnds == Settle("completed") \/ (opts.callbackThrows /\ Settle("rejected"))

\* After the loop the open statement is flushed, if it holds rows.
RowsOverUnflushed == ExportEnds /\ Stays /\ UNCHANGED << sink, writer, afterFlush >>
RowsOver ==
  IF statementRows = 0
    THEN ExportEnds /\ Stays /\ UNCHANGED << sink, writer, afterFlush >>
    ELSE Flush("end", 0)

SourceEnds ==
  /\ pc = "source" /\ RowsOver
  /\ UNCHANGED << opts, tuples, aborted >>

SourceThrowsFlushing ==
  /\ pc = "source" /\ aborted /\ Cancelled
  /\ statementRows # 0 /\ Hand(Chunk)
  /\ UNCHANGED << opts, tuples, statement, counts, afterFlush, aborted >>

\* The loop is left by a throw: the query failed, the stream noticed the
\* signal, or a progress report threw.  What the open statement holds is
\* dropped.
SourceThrows ==
  /\ pc = "source"
  /\ \/ Settle("rejected")
     \/ aborted /\ Cancelled
  /\ UNCHANGED << sink, writer, opts, tuples, statement, counts, afterFlush, aborted >>

\* The continuation of write() after 'drain'.
AfterDrain ==
  /\ pc = "drained"
  /\ \/ writeError /\ Settle("rejected") /\ Stays
     \/ ~writeError /\ aborted /\ Cancelled /\ Stays
     \/ ~writeError /\ ~aborted /\ Flushed(afterFlush, tuples[Len(tuples)])
  /\ UNCHANGED << sink, writer, opts, tuples, afterFlush, aborted >>

-----------------------------------------------------------------------------
\* onDrain: the listener is there since the tick that called write().
OnDrainLost == UNCHANGED pc
OnDrain == pc' = IF pc = "drain" /\ Drains THEN "drained" ELSE pc

SinkCompletes ==
  /\ Completes
  /\ OnDrain
  /\ UNCHANGED << opts, tuples, statement, counts, afterFlush, outcome, aborted >>

\* onError rejects the write that waits.
SinkBreaks ==
  /\ Breaks
  /\ IF pc = "drain" THEN Settle("rejected") ELSE UNCHANGED << pc, outcome >>
  /\ UNCHANGED << opts, tuples, statement, counts, afterFlush, aborted >>

\* onAbort rejects the write that waits.
OnAbortUnheard == UNCHANGED << pc, outcome >>
OnAbort == IF pc = "drain" THEN Cancelled ELSE UNCHANGED << pc, outcome >>

Abort ==
  /\ opts.signal /\ ~aborted
  /\ aborted' = TRUE
  /\ OnAbort
  /\ UNCHANGED << sink, writer, opts, tuples, statement, counts, afterFlush >>

Export ==
  \/ Start
  \/ \E tuple \in TupleLengths : TakeRow(tuple)
  \/ SourceEnds
  \/ SourceThrows
  \/ AfterDrain

Sink == SinkCompletes \/ SinkBreaks

Next == Export \/ Sink \/ Abort

Spec == Init /\ [][Next]_vars

\* Node runs what is ready and the stream settles each next(); nobody promises
\* that the output is read.
FairSpec == Spec /\ WF_vars(Export)

-----------------------------------------------------------------------------
TypeOK ==
  /\ WriterTypeOK
  /\ opts \in Options
  /\ pc \in { "start", "source", "drain", "drained", "done" }
  /\ tuples \in Seq(TupleLengths) /\ Len(tuples) <= MaxRows
  /\ statementLength \in Nat
  /\ statementRows \in 0..MaxRows
  /\ rowsExported \in 0..Len(tuples)
  /\ statementsWritten \in 0..Len(written)
  /\ afterFlush \in { "row", "end" }
  /\ outcome \in { "none", "completed", "cancelled", "rejected" }
  /\ aborted \in BOOLEAN

\* A statement respects the row cap, and the byte cap that max_allowed_packet
\* lowers unless it is one row that is longer by itself.  The byte cap counts
\* the statement with its semicolon and without the line end behind it.
StatementsFit ==
  \A i \in DOMAIN written :
    \/ written[i].first = written[i].last
    \/ /\ written[i].bytes - 1 <= maxStatementBytes
       /\ opts.extendedInsert
       /\ written[i].last - written[i].first < maxRowsPerStatement

\* The statements hold the rows one after the other, none twice and none left
\* out; a completed export has written them all and counted every statement.
EveryRowOnce ==
  /\ \A i \in DOMAIN written :
       /\ written[i].first = IF i = 1 THEN 1 ELSE written[i - 1].last + 1
       /\ written[i].first <= written[i].last
  /\ outcome = "completed" =>
       /\ Len(tuples) = IF written = << >> THEN 0 ELSE written[Len(written)].last
       /\ rowsExported = Len(tuples) /\ statementsWritten = Len(written)

\* A statement is closed only because the next row has no room in it or there
\* is no next row: no cancelled or failed export leaves the shorter statement
\* it had gathered, which would read like a complete one.
NothingHalfWritten ==
  \A i \in DOMAIN written :
    \/ written[i].last < Len(tuples)
    \/ afterFlush = "end"

\* A cancelled export settles even if nobody reads the output any more.
CancelSettles == aborted ~> pc = "done"

\* Otherwise it settles as long as the output is being read.
Settles == WF_vars(Sink) => <>(pc = "done")
=============================================================================
