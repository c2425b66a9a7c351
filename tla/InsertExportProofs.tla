------------------------- MODULE InsertExportProofs -------------------------
(***************************************************************************)
(* What holds of an export for every table, every length a tuple may have  *)
(* and every cap.                                                          *)
(***************************************************************************)
EXTENDS InsertExport, SequenceTheorems, TLAPS

ChunkSet == [ first : Nat, last : Nat, bytes : Nat ]

\* The open statement respects the caps it is going to be judged by.
OpenInv ==
  /\ statementLength = 0 <=> statementRows = 0
  /\ statementRows > 1 => /\ opts.extendedInsert
                          /\ statementRows <= maxRowsPerStatement
                          /\ statementLength + 1 <= maxStatementBytes

\* So does every statement written, and each begins where the last one ended.
FitsCaps(chunk) ==
  \/ chunk.first = chunk.last
  \/ /\ chunk.bytes - 1 <= maxStatementBytes
     /\ opts.extendedInsert
     /\ chunk.last - chunk.first < maxRowsPerStatement

LastWritten == IF Len(written) = 0 THEN 0 ELSE written[Len(written)].last

WrittenInv ==
  /\ written \in Seq(ChunkSet)
  /\ \A i \in 1..Len(written) :
       /\ FitsCaps(written[i])
       /\ written[i].first = IF i = 1 THEN 1 ELSE written[i - 1].last + 1
       /\ written[i].first <= written[i].last
       /\ written[i].last <= LastWritten

\* Where each row taken from the stream is at each await.
AtStart  == Len(written) = 0 /\ Len(tuples) = 0 /\ statementRows = 0 /\ statementsWritten = 0
AtSource == /\ rowsExported = Len(tuples)
            /\ LastWritten + statementRows = rowsExported
            /\ statementsWritten = Len(written)
AtFlush  == /\ Len(written) # 0 /\ LastWritten = rowsExported /\ statementRows # 0
            /\ statementsWritten + 1 = Len(written)
            /\ Len(tuples) = rowsExported + (IF afterFlush = "row" THEN 1 ELSE 0)
AtEnd    == /\ LastWritten = Len(tuples) /\ rowsExported = Len(tuples)
            /\ statementsWritten = Len(written)

RowsInv ==
  /\ pc = "start" => AtStart
  /\ pc = "source" => AtSource
  /\ pc \in { "drain", "drained" } => AtFlush
  /\ outcome = "completed" => AtEnd /\ pc = "done"

\* A statement that was not followed by another row was flushed for the end.
DueInv == Len(written) # 0 => LastWritten < Len(tuples) \/ afterFlush = "end"
OrderInv == afterFlush = "end" => pc \in { "drain", "drained", "done" }

\* The bytes the output still buffers.
OffsetsInv ==
  /\ \A i, j \in 1..Len(offsets) : i <= j => offsets[i] <= offsets[j]
  /\ bytes = IF Len(offsets) = 0 THEN 0 ELSE offsets[Len(offsets)]
BufferInv ==
  /\ pc \in { "start", "source" } => buffered < SinkHighWaterMark
  /\ pc = "drained" => completed = Len(written)
  /\ Len(written) # 0 => buffered - written[Len(written)].bytes < SinkHighWaterMark

IInv == /\ TypeOK /\ OpenInv /\ WrittenInv /\ RowsInv /\ DueInv /\ OrderInv
        /\ OffsetsInv /\ BufferInv

-----------------------------------------------------------------------------
\* The caps are numbers, whatever was asked for.
LEMMA Caps ==
  ASSUME opts \in Options
  PROVE  /\ maxStatementBytes \in Nat /\ maxStatementBytes >= 1024
         /\ maxRowsPerStatement \in Nat /\ maxRowsPerStatement >= 1
<1>1. opts.maxRows \in Int /\ opts.maxBytes \in Int /\ opts.packet \in Nat
  BY ExportOptionsAssumption
<1>2. (9 * opts.packet) \div 10 \in Int
  BY <1>1
<1>. QED BY <1>1, <1>2 DEF maxStatementBytes, maxRowsPerStatement, Larger, Smaller

\* What is flushed at an await is read from these.
LEMMA Numbers ==
  ASSUME TypeOK
  PROVE  /\ Len(written) \in Nat => Len(offsets) \in Nat
         /\ statementLength \in Nat /\ statementRows \in Nat /\ rowsExported \in Nat
         /\ statementsWritten \in Nat /\ bytes \in Nat /\ flushedBytes \in Nat
         /\ buffered \in Nat /\ Len(tuples) \in Nat /\ MaxRows \in Nat
         /\ SinkHighWaterMark \in Nat /\ SinkHighWaterMark >= 1 /\ PrefixLength \in Nat
         /\ PrefixLength >= 1
<1>1. Len(tuples) \in Nat
  BY DEF TypeOK
<1>2. MaxRows \in Nat /\ SinkHighWaterMark \in Nat /\ SinkHighWaterMark >= 1
      /\ PrefixLength \in Nat /\ PrefixLength >= 1
  BY LengthsAssumption, SinkAssumption
<1>3. Len(offsets) \in Nat
  BY DEF TypeOK, WriterTypeOK
<1>4. bytes \in Nat /\ flushedBytes \in 0..bytes
  BY DEF TypeOK, WriterTypeOK
<1>5. buffered \in Nat
  BY <1>4 DEF buffered
<1>6. statementsWritten \in Nat /\ statementLength \in Nat /\ statementRows \in Nat
  BY DEF TypeOK
<1>7. rowsExported \in Nat
  BY <1>1 DEF TypeOK
<1>. QED BY <1>1, <1>2, <1>3, <1>4, <1>5, <1>6, <1>7

\* Handing the open statement to the output extends the rows written to the
\* last row exported and keeps what holds of the statements and the offsets.
LEMMA Handed ==
  ASSUME IInv, UNCHANGED opts, Hand(Chunk), statementRows # 0,
         LastWritten + statementRows = rowsExported
  PROVE  /\ Len(written) \in Nat /\ Len(written') = Len(written) + 1
         /\ WriterTypeOK' /\ WrittenInv' /\ OffsetsInv'
         /\ LastWritten' = rowsExported
         /\ buffered' = buffered + Chunk.bytes
         /\ written'[Len(written')] = Chunk
<1>n. /\ Len(written) \in Nat /\ Len(offsets) = Len(written)
      /\ offsets \in Seq(Nat) /\ written \in Seq(ChunkSet)
      /\ completed \in 0..Len(written) /\ bytes \in Nat /\ flushedBytes \in 0..bytes
  BY DEF IInv, TypeOK, WriterTypeOK, WrittenInv
<1>m. /\ statementLength \in Nat /\ statementRows \in Nat /\ rowsExported \in Nat
  BY Numbers DEF IInv
<1>l. LastWritten \in Nat
  <2>1. CASE Len(written) = 0
    BY <2>1 DEF LastWritten
  <2>2. CASE Len(written) # 0
    <3>1. written[Len(written)] \in ChunkSet
      BY <1>n, <2>2, ElementOfSeq
    <3>. QED BY <2>2, <3>1 DEF LastWritten, ChunkSet
  <2>. QED BY <2>1, <2>2
<1>c. /\ Chunk \in ChunkSet /\ Chunk.bytes = statementLength + 2
      /\ Chunk.first = LastWritten + 1 /\ Chunk.last = rowsExported
      /\ Chunk.first <= Chunk.last /\ Chunk.last - Chunk.first + 1 = statementRows
  BY <1>m, <1>l DEF Chunk, ChunkSet
<1>1. /\ written' \in Seq(ChunkSet) /\ Len(written') = Len(written) + 1
      /\ written'[Len(written) + 1] = Chunk
      /\ \A i \in 1..Len(written) : written'[i] = written[i]
  BY <1>n, <1>c, AppendProperties DEF Hand
<1>2. /\ offsets' \in Seq(Nat) /\ Len(offsets') = Len(offsets) + 1
      /\ offsets'[Len(offsets) + 1] = bytes + Chunk.bytes
      /\ \A i \in 1..Len(offsets) : offsets'[i] = offsets[i]
  <2>1. bytes + Chunk.bytes \in Nat
    BY <1>n, <1>c, <1>m
  <2>. QED BY <1>n, <2>1, AppendProperties DEF Hand
<1>3. bytes' = bytes + Chunk.bytes /\ completed' = completed /\ writeError' = writeError
  BY DEF Hand
<1>4. flushedBytes' = flushedBytes
  BY <1>n, <1>2, <1>3 DEF flushedBytes
<1>5. buffered' = buffered + Chunk.bytes
  BY <1>n, <1>3, <1>4, <1>c, <1>m DEF buffered
<1>6. WriterTypeOK'
  <2>1. needDrain' \in BOOLEAN
    BY DEF Hand
  <2>2. writeError' \in BOOLEAN
    BY <1>3 DEF IInv, TypeOK, WriterTypeOK
  <2>3. bytes' \in Nat /\ flushedBytes' \in 0..bytes' /\ completed' \in 0..Len(written')
    BY <1>n, <1>1, <1>3, <1>4, <1>c, <1>m
  <2>. QED BY <1>n, <1>1, <1>2, <2>1, <2>2, <2>3 DEF WriterTypeOK
<1>7. OffsetsInv'
  <2>1. bytes' = IF Len(offsets') = 0 THEN 0 ELSE offsets'[Len(offsets')]
    BY <1>n, <1>2, <1>3
  <2>2. \A i \in 1..Len(offsets) : offsets[i] <= bytes
    BY <1>n DEF IInv, OffsetsInv
  <2>3. ASSUME NEW i \in 1..Len(offsets'), NEW j \in 1..Len(offsets'), i <= j
        PROVE  offsets'[i] <= offsets'[j]
    <3>1. CASE j \in 1..Len(offsets)
      <4>1. i \in 1..Len(offsets)
        BY <1>n, <2>3, <3>1
      <4>2. offsets[i] <= offsets[j]
        BY <2>3, <3>1, <4>1 DEF IInv, OffsetsInv
      <4>. QED BY <1>2, <3>1, <4>1, <4>2
    <3>2. CASE j = Len(offsets) + 1 /\ i \in 1..Len(offsets)
      <4>1. offsets[i] \in Nat /\ offsets[i] <= bytes
        BY <1>n, <2>2, <3>2
      <4>. QED BY <1>2, <1>n, <1>c, <1>m, <3>2, <4>1
    <3>3. CASE i = j
      <4>1. offsets'[i] \in Nat
        BY <1>2, <2>3, ElementOfSeq
      <4>. QED BY <3>3, <4>1
    <3>4. /\ j \in 1..Len(offsets) \/ j = Len(offsets) + 1
          /\ i \in 1..Len(offsets) \/ i = Len(offsets) + 1
          /\ Len(offsets) \in Nat
      BY <1>n, <1>2
    <3>. QED BY <2>3, <3>1, <3>2, <3>3, <3>4
  <2>. QED BY <2>1, <2>3 DEF OffsetsInv
<1>8. LastWritten' = rowsExported
  BY <1>n, <1>1, <1>c DEF LastWritten
<1>9. WrittenInv'
  <2>1. FitsCaps(Chunk)
    <3>1. maxRowsPerStatement \in Nat /\ maxStatementBytes \in Nat
      BY Caps DEF IInv, TypeOK
    <3>2. CASE statementRows = 1
      BY <1>c, <1>l, <1>m, <3>2 DEF FitsCaps
    <3>3. CASE statementRows > 1
      BY <1>c, <1>l, <1>m, <3>1, <3>3 DEF FitsCaps, IInv, OpenInv
    <3>. QED BY <1>m, <3>2, <3>3
  <2>2. \A c : FitsCaps(c)' <=> FitsCaps(c)
    BY DEF FitsCaps, maxStatementBytes, maxRowsPerStatement
  <2>3. ASSUME NEW i \in 1..Len(written')
        PROVE  /\ FitsCaps(written'[i])
               /\ written'[i].first = IF i = 1 THEN 1 ELSE written'[i - 1].last + 1
               /\ written'[i].first <= written'[i].last
               /\ written'[i].last <= rowsExported
    <3>1. CASE i \in 1..Len(written)
      <4>1. written'[i] = written[i] /\ (i # 1 => written'[i - 1] = written[i - 1])
        BY <1>n, <1>1, <3>1
      <4>2. written[i] \in ChunkSet /\ written[i].last <= LastWritten
        BY <1>n, <3>1, ElementOfSeq DEF IInv, WrittenInv
      <4>3. written[i].last <= rowsExported
        BY <1>m, <1>l, <4>2 DEF ChunkSet
      <4>. QED BY <3>1, <4>1, <4>3 DEF IInv, WrittenInv
    <3>2. CASE i = Len(written) + 1
      <4>1. written'[i] = Chunk
        BY <1>1, <3>2
      <4>2. i # 1 => written'[i - 1] = written[i - 1] /\ written[i - 1].last = LastWritten
        BY <1>n, <1>1, <3>2 DEF LastWritten
      <4>3. i = 1 => LastWritten = 0
        BY <1>n, <3>2 DEF LastWritten
      <4>4. Chunk.last <= rowsExported
        BY <1>c, <1>m
      <4>. QED BY <1>c, <2>1, <4>1, <4>2, <4>3, <4>4
    <3>. QED BY <1>n, <1>1, <3>1, <3>2
  <2>. QED BY <1>1, <1>8, <2>2, <2>3 DEF WrittenInv, FitsCaps, maxStatementBytes, maxRowsPerStatement
<1>. QED BY <1>n, <1>1, <1>5, <1>6, <1>7, <1>8, <1>9

-----------------------------------------------------------------------------
\* While nothing is handed to the output, what it was handed stands.
LEMMA Kept ==
  ASSUME IInv, UNCHANGED << sink, bytes, opts >>, writeError' \in BOOLEAN
  PROVE  /\ WriterTypeOK' /\ WrittenInv' /\ OffsetsInv'
         /\ LastWritten' = LastWritten /\ buffered' = buffered
         /\ written' = written /\ completed' = completed
         /\ maxStatementBytes' = maxStatementBytes
         /\ maxRowsPerStatement' = maxRowsPerStatement
<1>. USE DEF sink
<1>1. flushedBytes' = flushedBytes
  BY DEF flushedBytes
<1>2. WriterTypeOK'
  BY <1>1 DEF IInv, TypeOK, WriterTypeOK
<1>3. maxStatementBytes' = maxStatementBytes /\ maxRowsPerStatement' = maxRowsPerStatement
  BY DEF maxStatementBytes, maxRowsPerStatement
<1>4. WrittenInv'
  BY <1>3 DEF IInv, WrittenInv, FitsCaps, LastWritten
<1>5. OffsetsInv'
  BY DEF IInv, OffsetsInv
<1>6. LastWritten' = LastWritten /\ buffered' = buffered
  BY <1>1 DEF LastWritten, buffered
<1>. QED BY <1>2, <1>3, <1>4, <1>5, <1>6

\* TypeOK from its parts.
LEMMA TypeParts ==
  ASSUME WriterTypeOK', opts' \in Options,
         pc' \in { "start", "source", "drain", "drained", "done" },
         tuples' \in Seq(TupleLengths), Len(tuples') <= MaxRows,
         statementLength' \in Nat, statementRows' \in 0..MaxRows,
         rowsExported' \in 0..Len(tuples'), statementsWritten' \in 0..Len(written'),
         afterFlush' \in { "row", "end" },
         outcome' \in { "none", "completed", "cancelled", "rejected" },
         aborted' \in BOOLEAN
  PROVE  TypeOK'
<1>. QED BY DEF TypeOK

\* The call settles without a completed export: nothing more is claimed of
\* the rows, and what was written stands.
LEMMA Settled ==
  ASSUME IInv, UNCHANGED << sink, bytes, opts >>, writeError' \in BOOLEAN, Stays,
         NEW o \in { "cancelled", "rejected" }, Settle(o),
         tuples' \in Seq(TupleLengths), Len(tuples') \in Len(tuples)..MaxRows,
         aborted' \in BOOLEAN, afterFlush' \in { "row", "end" },
         afterFlush = "end" => afterFlush' = "end"
  PROVE  IInv'
<1>k. /\ WriterTypeOK' /\ WrittenInv' /\ OffsetsInv'
      /\ LastWritten' = LastWritten /\ buffered' = buffered
      /\ written' = written /\ completed' = completed /\ opts' = opts
      /\ maxStatementBytes' = maxStatementBytes
      /\ maxRowsPerStatement' = maxRowsPerStatement
  BY Kept
<1>s. pc' = "done" /\ outcome' = o
  BY DEF Settle
<1>u. /\ statementLength' = statementLength /\ statementRows' = statementRows
      /\ rowsExported' = rowsExported /\ statementsWritten' = statementsWritten
  BY DEF Stays, statement, counts
<1>n. Len(tuples) \in Nat /\ rowsExported \in Nat /\ MaxRows \in Nat
  BY Numbers DEF IInv
<1>1. TypeOK'
  <2>1. opts' \in Options /\ pc' \in { "start", "source", "drain", "drained", "done" }
    BY <1>k, <1>s DEF IInv, TypeOK
  <2>2. outcome' \in { "none", "completed", "cancelled", "rejected" }
    BY <1>s
  <2>3. /\ statementLength' \in Nat /\ statementRows' \in 0..MaxRows
        /\ statementsWritten' \in 0..Len(written')
    BY <1>u, <1>k DEF IInv, TypeOK
  <2>4. rowsExported' \in 0..Len(tuples') /\ Len(tuples') <= MaxRows
    BY <1>u, <1>n DEF IInv, TypeOK
  <2>. QED BY <1>k, <2>1, <2>2, <2>3, <2>4, TypeParts
<1>2. OpenInv'
  BY <1>u, <1>k DEF IInv, OpenInv
<1>3. RowsInv' /\ OrderInv'
  BY <1>s DEF RowsInv, OrderInv
<1>4. DueInv'
  <2>. SUFFICES ASSUME Len(written) # 0, afterFlush' # "end" PROVE LastWritten < Len(tuples')
    BY <1>k DEF DueInv
  <2>1. LastWritten < Len(tuples)
    BY DEF IInv, DueInv
  <2>2. Len(written) \in Nat
    BY <1>k DEF IInv, WrittenInv
  <2>3. written[Len(written)] \in ChunkSet
    BY <2>2, ElementOfSeq DEF IInv, WrittenInv
  <2>4. LastWritten \in Nat
    BY <2>3 DEF LastWritten, ChunkSet
  <2>. QED BY <1>n, <2>1, <2>4
<1>5. BufferInv'
  BY <1>k, <1>s DEF IInv, BufferInv
<1>. QED BY <1>k, <1>1, <1>2, <1>3, <1>4, <1>5 DEF IInv

LEMMA CancelledIsSettled ==
  ASSUME Cancelled
  PROVE  \E o \in { "cancelled", "rejected" } : Settle(o)
<1>. QED BY DEF Cancelled

-----------------------------------------------------------------------------
\* A flush that has succeeded, at once or after 'drain'.
LEMMA FlushSucceeds ==
  ASSUME IInv, UNCHANGED opts, WriterTypeOK', WrittenInv', OffsetsInv',
         outcome # "completed", aborted' \in BOOLEAN,
         Len(written') # 0, LastWritten' = rowsExported, statementsWritten + 1 = Len(written'),
         NEW why \in { "row", "end" }, NEW tuple, why = "row" => tuple \in Nat,
         afterFlush' = why, Flushed(why, tuple),
         tuples' \in Seq(TupleLengths), Len(tuples') <= MaxRows,
         Len(tuples') = rowsExported + (IF why = "row" THEN 1 ELSE 0),
         buffered' < SinkHighWaterMark,
         buffered' - written'[Len(written')].bytes < SinkHighWaterMark
  PROVE  IInv'
<1>n. /\ Len(tuples') \in Nat /\ rowsExported \in Nat /\ MaxRows \in Nat
      /\ statementsWritten \in Nat /\ PrefixLength \in Nat /\ PrefixLength >= 1
      /\ Len(written') \in Nat
  BY Numbers DEF IInv, WrittenInv
<1>o. opts' \in Options /\ outcome \in { "none", "cancelled", "rejected" }
  BY DEF IInv, TypeOK
<1>w. statementsWritten' = Len(written')
  BY <1>n DEF Flushed
<1>1. CASE why = "row"
  <2>a. /\ statementLength' = PrefixLength + tuple /\ statementRows' = 1
        /\ rowsExported' = rowsExported + 1 /\ pc' = "source" /\ outcome' = outcome
    BY <1>1 DEF Flushed, GoOn, AddTuple
  <2>1. TypeOK'
    <3>1. rowsExported' \in 0..Len(tuples') /\ statementRows' \in 0..MaxRows
      BY <1>1, <1>n, <2>a
    <3>2. statementsWritten' \in 0..Len(written') /\ statementLength' \in Nat
      BY <1>1, <1>n, <1>w, <2>a
    <3>. QED BY <1>o, <2>a, <3>1, <3>2, TypeParts
  <2>2. OpenInv'
    BY <1>1, <1>n, <2>a DEF OpenInv
  <2>3. RowsInv'
    <3>1. AtSource'
      BY <1>1, <1>n, <1>w, <2>a DEF AtSource
    <3>. QED BY <2>a, <3>1 DEF RowsInv
  <2>4. DueInv' /\ OrderInv'
    BY <1>1, <1>n, <2>a DEF DueInv, OrderInv
  <2>5. BufferInv'
    BY <2>a DEF BufferInv
  <2>. QED BY <2>1, <2>2, <2>3, <2>4, <2>5 DEF IInv
<1>2. CASE why = "end"
  <2>a. /\ statementLength' = 0 /\ statementRows' = 0 /\ rowsExported' = rowsExported
        /\ pc' = "done" /\ outcome' \in { "completed", "rejected" }
    BY <1>2 DEF Flushed, GoOn, Settle
  <2>1. TypeOK'
    <3>1. rowsExported' \in 0..Len(tuples') /\ statementRows' \in 0..MaxRows
      BY <1>2, <1>n, <2>a
    <3>2. statementsWritten' \in 0..Len(written') /\ statementLength' \in Nat
      BY <1>n, <1>w, <2>a
    <3>. QED BY <1>o, <2>a, <3>1, <3>2, TypeParts
  <2>2. OpenInv' /\ DueInv' /\ OrderInv'
    BY <1>2, <2>a DEF OpenInv, DueInv, OrderInv
  <2>3. RowsInv'
    <3>1. AtEnd'
      BY <1>2, <1>n, <1>w, <2>a DEF AtEnd
    <3>. QED BY <2>a, <3>1 DEF RowsInv
  <2>4. BufferInv'
    BY <2>a DEF BufferInv
  <2>. QED BY <2>1, <2>2, <2>3, <2>4 DEF IInv
<1>. QED BY <1>1, <1>2

\* flushStatement, from the call to what follows its first await.
LEMMA FlushStep ==
  ASSUME IInv, pc = "source", statementRows # 0, UNCHANGED << opts, aborted >>,
         NEW why \in { "row", "end" }, NEW tuple, why = "row" => tuple \in Nat,
         Flush(why, tuple),
         tuples' \in Seq(TupleLengths), Len(tuples') <= MaxRows,
         Len(tuples') = Len(tuples) + (IF why = "row" THEN 1 ELSE 0)
  PROVE  IInv'
<1>n. /\ Len(tuples) \in Nat /\ rowsExported \in Nat /\ statementRows \in Nat
      /\ MaxRows \in Nat /\ buffered \in Nat /\ statementLength \in Nat
      /\ statementsWritten \in Nat
  BY Numbers DEF IInv
<1>s. /\ rowsExported = Len(tuples) /\ LastWritten + statementRows = rowsExported
      /\ statementsWritten = Len(written) /\ outcome # "completed" /\ afterFlush # "end"
      /\ buffered < SinkHighWaterMark
  BY DEF IInv, RowsInv, AtSource, OrderInv, BufferInv
<1>a. aborted' \in BOOLEAN /\ afterFlush' = why
  BY DEF IInv, TypeOK, Flush
<1>1. CASE (Settle("rejected") \/ Cancelled) /\ Stays /\ UNCHANGED << sink, writer >>
  <2>1. /\ UNCHANGED << sink, writer >> /\ Stays
        /\ \E o \in { "cancelled", "rejected" } : Settle(o)
    BY <1>1, CancelledIsSettled
  <2>2. UNCHANGED << sink, bytes, opts >> /\ writeError' \in BOOLEAN
    BY <2>1 DEF writer, IInv, TypeOK, WriterTypeOK
  <2>3. Len(tuples') \in Len(tuples)..MaxRows
    BY <1>n
  <2>. QED BY <1>s, <1>a, <2>1, <2>2, <2>3, Settled
<1>2. CASE Hand(Chunk) /\ ~CanWriteMore(Chunk) /\ pc' = "drain" /\ Stays /\ UNCHANGED outcome
  <2>h. /\ Len(written) \in Nat /\ Len(written') = Len(written) + 1
        /\ WriterTypeOK' /\ WrittenInv' /\ OffsetsInv'
        /\ LastWritten' = rowsExported /\ buffered' = buffered + Chunk.bytes
        /\ written'[Len(written')] = Chunk
    BY <1>2, <1>s, Handed
  <2>u. /\ statementLength' = statementLength /\ statementRows' = statementRows
        /\ rowsExported' = rowsExported /\ statementsWritten' = statementsWritten
        /\ pc' = "drain" /\ outcome' = outcome /\ opts' = opts
    BY <1>2 DEF Stays, statement, counts
  <2>1. TypeOK'
    <3>1. opts' \in Options /\ statementRows' \in 0..MaxRows /\ statementLength' \in Nat
          /\ outcome' \in { "none", "completed", "cancelled", "rejected" }
      BY <2>u DEF IInv, TypeOK
    <3>2. rowsExported' \in 0..Len(tuples') /\ statementsWritten' \in 0..Len(written')
      BY <1>n, <1>s, <2>h, <2>u
    <3>. QED BY <1>a, <2>h, <2>u, <3>1, <3>2, TypeParts
  <2>2. OpenInv'
    BY <2>u DEF IInv, OpenInv, maxStatementBytes, maxRowsPerStatement
  <2>3. RowsInv'
    <3>1. AtFlush'
      BY <1>n, <1>s, <1>a, <2>h, <2>u DEF AtFlush
    <3>. QED BY <1>s, <2>u, <3>1 DEF RowsInv
  <2>4. DueInv' /\ OrderInv'
    BY <1>n, <1>s, <1>a, <2>h, <2>u DEF DueInv, OrderInv
  <2>5. BufferInv'
    <3>1. Chunk.bytes \in Nat
      BY <1>n DEF Chunk
    <3>. QED BY <1>n, <1>s, <2>h, <2>u, <3>1 DEF BufferInv
  <2>. QED BY <2>h, <2>1, <2>2, <2>3, <2>4, <2>5 DEF IInv
<1>3. CASE Hand(Chunk) /\ CanWriteMore(Chunk) /\ Flushed(why, tuple)
  <2>h. /\ Len(written) \in Nat /\ Len(written') = Len(written) + 1
        /\ WriterTypeOK' /\ WrittenInv' /\ OffsetsInv'
        /\ LastWritten' = rowsExported /\ buffered' = buffered + Chunk.bytes
        /\ written'[Len(written')] = Chunk
    BY <1>3, <1>s, Handed
  <2>1. Chunk.bytes \in Nat
    BY <1>n DEF Chunk
  <2>2. /\ buffered' < SinkHighWaterMark
        /\ buffered' - written'[Len(written')].bytes < SinkHighWaterMark
    BY <1>3, <1>n, <1>s, <2>h, <2>1 DEF CanWriteMore
  <2>3. Len(written') # 0 /\ statementsWritten + 1 = Len(written')
    BY <1>s, <2>h
  <2>4. Len(tuples') = rowsExported + (IF why = "row" THEN 1 ELSE 0)
    BY <1>s
  <2>. QED BY <1>3, <1>s, <1>a, <2>h, <2>2, <2>3, <2>4, FlushSucceeds
<1>. QED BY <1>1, <1>2, <1>3 DEF Flush

-----------------------------------------------------------------------------
\* A row that has room, or opens a statement.
LEMMA AddStep ==
  ASSUME IInv, pc = "source", NEW tuple \in TupleLengths, Len(tuples) < MaxRows,
         ~IsDue(tuple), AddTuple(statementLength, statementRows, tuple),
         tuples' = Append(tuples, tuple),
         UNCHANGED << sink, writer, opts, statementsWritten, afterFlush, outcome, aborted >>
  PROVE  IInv'
<1>k. /\ WriterTypeOK' /\ WrittenInv' /\ OffsetsInv'
      /\ LastWritten' = LastWritten /\ buffered' = buffered
      /\ written' = written /\ completed' = completed
      /\ maxStatementBytes' = maxStatementBytes
      /\ maxRowsPerStatement' = maxRowsPerStatement
  <2>1. UNCHANGED << sink, bytes, opts >> /\ writeError' \in BOOLEAN
    BY DEF writer, IInv, TypeOK, WriterTypeOK
  <2>. QED BY <2>1, Kept
<1>n. /\ Len(tuples) \in Nat /\ rowsExported \in Nat /\ statementRows \in Nat
      /\ MaxRows \in Nat /\ statementLength \in Nat /\ tuple \in Nat /\ tuple >= 1
      /\ PrefixLength \in Nat /\ PrefixLength >= 1
  BY Numbers, LengthsAssumption DEF IInv
<1>m. maxStatementBytes \in Nat /\ maxRowsPerStatement \in Nat /\ maxRowsPerStatement >= 1
  BY Caps DEF IInv, TypeOK
<1>l. LastWritten \in Nat
  <2>1. Len(written) \in Nat /\ (Len(written) # 0 => written[Len(written)] \in ChunkSet)
    BY ElementOfSeq DEF IInv, WrittenInv
  <2>. QED BY <2>1 DEF LastWritten, ChunkSet
<1>t. tuples' \in Seq(TupleLengths) /\ Len(tuples') = Len(tuples) + 1
  BY AppendProperties DEF IInv, TypeOK
<1>s. /\ rowsExported = Len(tuples) /\ LastWritten + statementRows = rowsExported
      /\ statementsWritten = Len(written) /\ outcome # "completed" /\ afterFlush # "end"
  BY DEF IInv, RowsInv, AtSource, OrderInv
<1>u. /\ statementRows' = statementRows + 1 /\ rowsExported' = rowsExported + 1
      /\ pc' = "source" /\ outcome' = outcome /\ opts' = opts /\ aborted' = aborted
      /\ statementsWritten' = statementsWritten /\ afterFlush' = afterFlush
      /\ statementLength' = IF statementLength = 0 THEN PrefixLength + tuple
                                                  ELSE statementLength + 1 + tuple
  BY DEF AddTuple
<1>1. TypeOK'
  <2>1. /\ opts' \in Options /\ aborted' \in BOOLEAN /\ afterFlush' \in { "row", "end" }
        /\ outcome' \in { "none", "completed", "cancelled", "rejected" }
        /\ statementsWritten' \in 0..Len(written')
    BY <1>u, <1>k DEF IInv, TypeOK
  <2>2. /\ statementLength' \in Nat /\ statementRows' \in 0..MaxRows
        /\ rowsExported' \in 0..Len(tuples') /\ Len(tuples') <= MaxRows
    BY <1>n, <1>l, <1>t, <1>s, <1>u
  <2>. QED BY <1>k, <1>t, <1>u, <2>1, <2>2, TypeParts
<1>2. OpenInv'
  <2>1. statementLength' # 0 /\ statementRows' # 0
    BY <1>n, <1>u
  <2>2. CASE statementLength = 0
    <3>1. statementRows' = 1
      BY <1>u, <2>2, <1>n DEF IInv, OpenInv
    <3>. QED BY <2>1, <3>1 DEF OpenInv
  <2>3. CASE statementLength # 0
    <3>1. /\ opts.extendedInsert /\ statementRows < maxRowsPerStatement
          /\ statementLength + tuple + 2 <= maxStatementBytes
      BY <2>3, <1>n, <1>m DEF IsDue, Fits
    <3>2. statementRows' <= maxRowsPerStatement /\ statementLength' + 1 <= maxStatementBytes
      BY <1>n, <1>m, <1>u, <2>3, <3>1
    <3>. QED BY <1>k, <1>u, <2>1, <3>1, <3>2 DEF OpenInv
  <2>. QED BY <2>2, <2>3
<1>3. RowsInv'
  <2>1. AtSource'
    BY <1>k, <1>n, <1>l, <1>t, <1>s, <1>u DEF AtSource
  <2>. QED BY <1>s, <1>u, <2>1 DEF RowsInv
<1>4. DueInv' /\ OrderInv'
  BY <1>k, <1>n, <1>l, <1>t, <1>s, <1>u DEF DueInv, OrderInv
<1>5. BufferInv'
  BY <1>k, <1>u DEF IInv, BufferInv
<1>. QED BY <1>k, <1>1, <1>2, <1>3, <1>4, <1>5 DEF IInv

\* Leaving everything but pc, outcome and the signal alone.
LEMMA StandsStill ==
  ASSUME IInv, UNCHANGED << sink, bytes, opts, tuples, statement, counts, afterFlush >>,
         writeError' \in BOOLEAN, aborted' \in BOOLEAN
  PROVE  /\ WriterTypeOK' /\ WrittenInv' /\ OffsetsInv' /\ OpenInv'
         /\ LastWritten' = LastWritten /\ buffered' = buffered
         /\ written' = written /\ completed' = completed
         /\ (pc' = pc /\ outcome' = outcome => IInv')
<1>k. /\ WriterTypeOK' /\ WrittenInv' /\ OffsetsInv'
      /\ LastWritten' = LastWritten /\ buffered' = buffered
      /\ written' = written /\ completed' = completed
      /\ maxStatementBytes' = maxStatementBytes
      /\ maxRowsPerStatement' = maxRowsPerStatement
  BY Kept
<1>1. OpenInv'
  BY <1>k DEF IInv, OpenInv, statement
<1>2. ASSUME pc' = pc, outcome' = outcome PROVE IInv'
  <2>1. TypeOK'
    <3>1. /\ opts' \in Options /\ tuples' \in Seq(TupleLengths) /\ Len(tuples') <= MaxRows
          /\ afterFlush' \in { "row", "end" }
      BY DEF IInv, TypeOK
    <3>2. /\ pc' \in { "start", "source", "drain", "drained", "done" }
          /\ outcome' \in { "none", "completed", "cancelled", "rejected" }
      BY <1>2 DEF IInv, TypeOK
    <3>3. /\ statementLength' \in Nat /\ statementRows' \in 0..MaxRows
          /\ rowsExported' \in 0..Len(tuples') /\ statementsWritten' \in 0..Len(written')
      BY <1>k DEF IInv, TypeOK, statement, counts
    <3>. QED BY <1>k, <3>1, <3>2, <3>3, TypeParts
  <2>2. RowsInv' /\ DueInv' /\ OrderInv'
    BY <1>2, <1>k DEF IInv, RowsInv, AtStart, AtSource, AtFlush, AtEnd, DueInv, OrderInv,
                      statement, counts
  <2>3. BufferInv'
    BY <1>2, <1>k DEF IInv, BufferInv
  <2>. QED BY <1>k, <1>1, <2>1, <2>2, <2>3 DEF IInv
<1>. QED BY <1>k, <1>1, <1>2

-----------------------------------------------------------------------------
LEMMA InitIInv == Init => IInv
<1>. SUFFICES ASSUME Init PROVE IInv
  OBVIOUS
<1>1. written \in Seq(ChunkSet) /\ offsets \in Seq(Nat) /\ tuples \in Seq(TupleLengths)
  BY EmptySeq DEF Init, WriterInit
<1>2. Len(written) = 0 /\ Len(offsets) = 0 /\ Len(tuples) = 0
  BY EmptySeq DEF Init, WriterInit
<1>n. MaxRows \in Nat /\ SinkHighWaterMark \in Nat /\ SinkHighWaterMark >= 1
  BY LengthsAssumption, SinkAssumption
<1>i. /\ opts \in Options /\ pc = "start" /\ statementLength = 0 /\ statementRows = 0
      /\ rowsExported = 0 /\ statementsWritten = 0 /\ afterFlush = "row"
      /\ outcome = "none" /\ aborted = FALSE /\ completed = 0 /\ needDrain = FALSE
      /\ bytes = 0 /\ writeError = FALSE
  BY DEF Init, WriterInit
<1>3. flushedBytes = 0 /\ buffered = 0
  BY <1>i DEF flushedBytes, buffered
<1>4. TypeOK
  <2>1. WriterTypeOK
    <3>1. completed \in 0..Len(written) /\ bytes \in Nat /\ flushedBytes \in 0..bytes
      BY <1>2, <1>i, <1>3
    <3>2. needDrain \in BOOLEAN /\ writeError \in BOOLEAN
      BY <1>i
    <3>. QED BY <1>1, <1>2, <3>1, <3>2 DEF WriterTypeOK
  <2>2. /\ statementLength \in Nat /\ statementRows \in 0..MaxRows
        /\ rowsExported \in 0..Len(tuples) /\ statementsWritten \in 0..Len(written)
        /\ Len(tuples) <= MaxRows
    BY <1>2, <1>n, <1>i
  <2>3. /\ pc \in { "start", "source", "drain", "drained", "done" }
        /\ afterFlush \in { "row", "end" } /\ aborted \in BOOLEAN
        /\ outcome \in { "none", "completed", "cancelled", "rejected" }
    BY <1>i
  <2>. QED BY <1>1, <1>i, <2>1, <2>2, <2>3 DEF TypeOK
<1>5. OpenInv /\ DueInv /\ OrderInv /\ RowsInv
  BY <1>2, <1>i DEF OpenInv, DueInv, OrderInv, RowsInv, AtStart
<1>6. WrittenInv /\ OffsetsInv
  BY <1>1, <1>2, <1>i DEF WrittenInv, OffsetsInv
<1>7. BufferInv
  BY <1>2, <1>n, <1>i, <1>3 DEF BufferInv
<1>. QED BY <1>4, <1>5, <1>6, <1>7 DEF IInv

LEMMA StartStep == ASSUME IInv, Start PROVE IInv'
<1>u. /\ UNCHANGED << sink, bytes, opts, tuples, statement, counts, afterFlush >>
      /\ writeError' = writeError /\ aborted' = aborted /\ pc = "start"
  BY DEF Start, writer
<1>b. writeError' \in BOOLEAN /\ aborted' \in BOOLEAN
  BY <1>u DEF IInv, TypeOK, WriterTypeOK
<1>k. /\ WriterTypeOK' /\ WrittenInv' /\ OffsetsInv' /\ OpenInv'
      /\ LastWritten' = LastWritten /\ buffered' = buffered
      /\ written' = written /\ completed' = completed
  BY <1>u, <1>b, StandsStill
<1>s. /\ AtStart /\ rowsExported = 0 /\ LastWritten = 0 /\ buffered < SinkHighWaterMark
      /\ afterFlush # "end"
  <2>1. AtStart /\ buffered < SinkHighWaterMark /\ afterFlush # "end"
    BY <1>u DEF IInv, RowsInv, BufferInv, OrderInv
  <2>2. rowsExported \in 0..Len(tuples)
    BY DEF IInv, TypeOK
  <2>. QED BY <2>1, <2>2 DEF AtStart, LastWritten
<1>p. \/ pc' = "done" /\ outcome' \in { "completed", "rejected" }
      \/ pc' = "source" /\ outcome' = outcome /\ outcome # "completed"
  BY <1>u DEF Start, Settle, IInv, RowsInv
<1>1. TypeOK'
  <2>1. /\ opts' \in Options /\ tuples' \in Seq(TupleLengths) /\ Len(tuples') <= MaxRows
        /\ afterFlush' \in { "row", "end" }
    BY <1>u DEF IInv, TypeOK
  <2>2. /\ pc' \in { "start", "source", "drain", "drained", "done" }
        /\ outcome' \in { "none", "completed", "cancelled", "rejected" }
    BY <1>p DEF IInv, TypeOK
  <2>3. /\ statementLength' \in Nat /\ statementRows' \in 0..MaxRows
        /\ rowsExported' \in 0..Len(tuples') /\ statementsWritten' \in 0..Len(written')
    BY <1>u, <1>k DEF IInv, TypeOK, statement, counts
  <2>. QED BY <1>k, <1>b, <2>1, <2>2, <2>3, TypeParts
<1>2. RowsInv'
  <2>1. AtSource' /\ AtEnd'
    BY <1>u, <1>k, <1>s DEF AtStart, AtSource, AtEnd, statement, counts
  <2>. QED BY <1>p, <2>1 DEF RowsInv
<1>3. DueInv' /\ OrderInv'
  BY <1>u, <1>k, <1>s DEF AtStart, DueInv, OrderInv
<1>4. BufferInv'
  BY <1>k, <1>s, <1>p DEF IInv, BufferInv
<1>. QED BY <1>k, <1>1, <1>2, <1>3, <1>4 DEF IInv

LEMMA TakeRowStep ==
  ASSUME IInv, NEW tuple \in TupleLengths, TakeRow(tuple)
  PROVE  IInv'
<1>u. /\ pc = "source" /\ opts' = opts /\ aborted' = aborted /\ Len(tuples) < MaxRows
      /\ aborted' \in BOOLEAN
  BY DEF TakeRow, IInv, TypeOK
<1>n. Len(tuples) \in Nat /\ MaxRows \in Nat /\ tuple \in Nat
  BY Numbers, LengthsAssumption DEF IInv
<1>t. Append(tuples, tuple) \in Seq(TupleLengths) /\ Len(Append(tuples, tuple)) = Len(tuples) + 1
  BY AppendProperties DEF IInv, TypeOK
<1>1. CASE aborted /\ Cancelled /\ Stays /\ UNCHANGED << sink, writer, tuples, afterFlush >>
  <2>1. /\ UNCHANGED << sink, bytes, opts >> /\ writeError' \in BOOLEAN /\ tuples' = tuples
        /\ afterFlush' = afterFlush
    BY <1>1, <1>u DEF writer, IInv, TypeOK, WriterTypeOK
  <2>2. /\ tuples' \in Seq(TupleLengths) /\ Len(tuples') \in Len(tuples)..MaxRows
        /\ afterFlush' \in { "row", "end" }
    BY <2>1, <1>n, <1>u DEF IInv, TypeOK
  <2>3. Stays /\ \E o \in { "cancelled", "rejected" } : Settle(o)
    BY <1>1, CancelledIsSettled
  <2>. QED BY <1>u, <2>1, <2>2, <2>3, Settled
<1>2. CASE tuples' = Append(tuples, tuple) /\ IsDue(tuple) /\ Flush("row", tuple)
  <2>1. statementRows # 0
    BY <1>2 DEF IsDue, IInv, OpenInv
  <2>2. /\ tuples' \in Seq(TupleLengths) /\ Len(tuples') <= MaxRows
        /\ Len(tuples') = Len(tuples) + 1
    BY <1>2, <1>t, <1>n, <1>u
  <2>. QED BY <1>2, <1>u, <1>n, <2>1, <2>2, FlushStep
<1>3. CASE /\ tuples' = Append(tuples, tuple) /\ ~IsDue(tuple)
           /\ AddTuple(statementLength, statementRows, tuple)
           /\ UNCHANGED << sink, writer, statementsWritten, afterFlush, outcome >>
  BY <1>3, <1>u, AddStep
<1>. QED BY <1>1, <1>2, <1>3 DEF TakeRow

LEMMA SourceEndsStep == ASSUME IInv, SourceEnds PROVE IInv'
<1>u. /\ pc = "source" /\ opts' = opts /\ aborted' = aborted /\ tuples' = tuples
      /\ aborted' \in BOOLEAN
  BY DEF SourceEnds, IInv, TypeOK
<1>n. Len(tuples) \in Nat /\ MaxRows \in Nat /\ Len(tuples) <= MaxRows
  BY Numbers DEF IInv, TypeOK
<1>1. CASE statementRows = 0 /\ ExportEnds /\ Stays /\ UNCHANGED << sink, writer, afterFlush >>
  <2>u. /\ UNCHANGED << sink, bytes, opts, tuples, statement, counts, afterFlush >>
        /\ writeError' \in BOOLEAN
    BY <1>1, <1>u DEF Stays, writer, IInv, TypeOK, WriterTypeOK
  <2>k. /\ WriterTypeOK' /\ WrittenInv' /\ OffsetsInv' /\ OpenInv'
        /\ LastWritten' = LastWritten /\ buffered' = buffered
        /\ written' = written /\ completed' = completed
    BY <1>u, <2>u, StandsStill
  <2>p. pc' = "done" /\ outcome' \in { "completed", "rejected" }
    BY <1>1 DEF ExportEnds, Settle
  <2>l. LastWritten \in Nat
    <3>1. Len(written) \in Nat /\ (Len(written) # 0 => written[Len(written)] \in ChunkSet)
      BY ElementOfSeq DEF IInv, WrittenInv
    <3>. QED BY <3>1 DEF LastWritten, ChunkSet
  <2>1. TypeOK'
    <3>1. /\ opts' \in Options /\ tuples' \in Seq(TupleLengths) /\ Len(tuples') <= MaxRows
          /\ afterFlush' \in { "row", "end" }
      BY <2>u DEF IInv, TypeOK
    <3>3. /\ statementLength' \in Nat /\ statementRows' \in 0..MaxRows
          /\ rowsExported' \in 0..Len(tuples') /\ statementsWritten' \in 0..Len(written')
      BY <2>u, <2>k DEF IInv, TypeOK, statement, counts
    <3>. QED BY <1>u, <2>k, <2>p, <3>1, <3>3, TypeParts
  <2>2. RowsInv'
    <3>1. AtEnd
      BY <1>u, <1>1, <2>l DEF IInv, RowsInv, AtSource, AtEnd
    <3>2. AtEnd'
      BY <3>1, <2>u, <2>k DEF AtEnd, counts
    <3>. QED BY <2>p, <3>2 DEF RowsInv
  <2>3. DueInv' /\ OrderInv'
    BY <2>p, <2>u, <2>k DEF IInv, DueInv, OrderInv
  <2>4. BufferInv'
    BY <2>p, <2>k DEF IInv, BufferInv
  <2>. QED BY <2>k, <2>1, <2>2, <2>3, <2>4 DEF IInv
<1>2. CASE statementRows # 0 /\ Flush("end", 0)
  <2>1. tuples' \in Seq(TupleLengths) /\ Len(tuples') <= MaxRows /\ Len(tuples') = Len(tuples) + 0
    BY <1>u, <1>n DEF IInv, TypeOK
  <2>. QED BY <1>2, <1>u, <2>1, FlushStep
<1>. QED BY <1>1, <1>2 DEF SourceEnds, RowsOver

\* The call settles at an await and leaves the table, the signal and the
\* output as they are.
LEMMA SettledHere ==
  ASSUME IInv, UNCHANGED << sink, bytes, opts, tuples, afterFlush >>,
         writeError' \in BOOLEAN, aborted' \in BOOLEAN, Stays,
         Settle("rejected") \/ Cancelled
  PROVE  IInv'
<1>1. \E o \in { "cancelled", "rejected" } : Settle(o)
  BY CancelledIsSettled
<1>2. Len(tuples) \in Nat /\ MaxRows \in Nat
  BY Numbers DEF IInv
<1>3. /\ tuples' \in Seq(TupleLengths) /\ Len(tuples') \in Len(tuples)..MaxRows
      /\ afterFlush' \in { "row", "end" }
  BY <1>2 DEF IInv, TypeOK
<1>. QED BY <1>1, <1>3, Settled

LEMMA SourceThrowsStep == ASSUME IInv, SourceThrows PROVE IInv'
<1>1. /\ UNCHANGED << sink, bytes, opts, tuples, afterFlush >> /\ Stays
      /\ writeError' \in BOOLEAN /\ aborted' \in BOOLEAN
      /\ Settle("rejected") \/ Cancelled
  BY DEF SourceThrows, Stays, writer, IInv, TypeOK, WriterTypeOK
<1>. QED BY <1>1, SettledHere

LEMMA AfterDrainStep == ASSUME IInv, AfterDrain PROVE IInv'
<1>u. /\ UNCHANGED << sink, bytes, opts, tuples, afterFlush >>
      /\ writeError' = writeError /\ writeError' \in BOOLEAN /\ aborted' \in BOOLEAN
      /\ pc = "drained"
  BY DEF AfterDrain, writer, IInv, TypeOK, WriterTypeOK
<1>1. CASE (Settle("rejected") \/ Cancelled) /\ Stays
  BY <1>u, <1>1, SettledHere
<1>2. CASE Flushed(afterFlush, tuples[Len(tuples)])
  <2>k. /\ WriterTypeOK' /\ WrittenInv' /\ OffsetsInv'
        /\ LastWritten' = LastWritten /\ buffered' = buffered /\ written' = written
    BY <1>u, Kept
  <2>f. /\ AtFlush /\ completed = Len(written) /\ outcome # "completed"
        /\ buffered - written[Len(written)].bytes < SinkHighWaterMark
    BY <1>u DEF IInv, RowsInv, BufferInv, AtFlush
  <2>n. /\ Len(written) \in Nat /\ Len(offsets) = Len(written) /\ bytes \in Nat
        /\ SinkHighWaterMark \in Nat /\ SinkHighWaterMark >= 1
        /\ Len(tuples) \in Nat /\ rowsExported \in Nat
        /\ afterFlush \in { "row", "end" } /\ tuples \in Seq(TupleLengths)
        /\ Len(tuples) <= MaxRows
    BY Numbers DEF IInv, TypeOK, WriterTypeOK, WrittenInv
  <2>b. buffered = 0
    BY <2>f, <2>n DEF AtFlush, IInv, OffsetsInv, buffered, flushedBytes
  <2>1. afterFlush = "row" => tuples[Len(tuples)] \in Nat
    <3>. SUFFICES ASSUME afterFlush = "row" PROVE tuples[Len(tuples)] \in Nat
      OBVIOUS
    <3>1. Len(tuples) # 0
      BY <2>f, <2>n DEF AtFlush
    <3>2. Len(tuples) \in 1..Len(tuples)
      BY <2>n, <3>1
    <3>3. tuples[Len(tuples)] \in TupleLengths
      BY <2>n, <3>2, ElementOfSeq
    <3>. QED BY <3>3, LengthsAssumption
  <2>2. /\ Len(written') # 0 /\ LastWritten' = rowsExported
        /\ statementsWritten + 1 = Len(written')
    BY <2>k, <2>f DEF AtFlush
  <2>3. /\ tuples' \in Seq(TupleLengths) /\ Len(tuples') <= MaxRows
        /\ Len(tuples') = rowsExported + (IF afterFlush = "row" THEN 1 ELSE 0)
        /\ afterFlush' = afterFlush /\ opts' = opts
    BY <1>u, <2>n, <2>f DEF AtFlush
  <2>4. /\ buffered' < SinkHighWaterMark
        /\ buffered' - written'[Len(written')].bytes < SinkHighWaterMark
    BY <2>k, <2>b, <2>n, <2>f
  <2>. QED BY <1>2, <1>u, <2>k, <2>f, <2>n, <2>1, <2>2, <2>3, <2>4, FlushSucceeds
<1>. QED BY <1>1, <1>2 DEF AfterDrain

\* What is left once more has been passed on.
LEMMA LessIsLeft ==
  ASSUME NEW x \in Nat, NEW y \in Nat, NEW z \in Nat, z <= x, y <= z
  PROVE  x - z <= x - y /\ x - z \in Nat
<1>. QED OBVIOUS

LEMMA SinkCompletesStep == ASSUME IInv, SinkCompletes PROVE IInv'
<1>u. /\ completed' = completed + 1 /\ completed < Len(written)
      /\ written' = written /\ offsets' = offsets /\ bytes' = bytes
      /\ writeError' = writeError /\ opts' = opts /\ tuples' = tuples
      /\ statementLength' = statementLength /\ statementRows' = statementRows
      /\ rowsExported' = rowsExported /\ statementsWritten' = statementsWritten
      /\ afterFlush' = afterFlush /\ outcome' = outcome /\ aborted' = aborted
  BY DEF SinkCompletes, Completes, writer, statement, counts
<1>n. /\ Len(written) \in Nat /\ Len(offsets) = Len(written) /\ offsets \in Seq(Nat)
      /\ completed \in 0..Len(written) /\ bytes \in Nat /\ flushedBytes \in Nat
      /\ written \in Seq(ChunkSet)
  BY Numbers DEF IInv, TypeOK, WriterTypeOK, WrittenInv
<1>f. /\ flushedBytes' \in Nat /\ flushedBytes' <= bytes /\ flushedBytes <= flushedBytes'
  <2>1. flushedBytes' = offsets[completed + 1]
    BY <1>u, <1>n DEF flushedBytes
  <2>2. completed + 1 \in 1..Len(offsets) /\ Len(offsets) \in 1..Len(offsets)
    BY <1>u, <1>n
  <2>3. offsets[completed + 1] \in Nat
    BY <1>n, <2>2, ElementOfSeq
  <2>4. offsets[completed + 1] <= offsets[Len(offsets)] /\ bytes = offsets[Len(offsets)]
    BY <2>2 DEF IInv, OffsetsInv
  <2>5. flushedBytes <= offsets[completed + 1]
    <3>1. CASE completed = 0
      BY <3>1, <2>3 DEF flushedBytes
    <3>2. CASE completed # 0
      <4>1. completed \in 1..Len(offsets) /\ completed <= completed + 1
        BY <3>2, <1>n
      <4>. QED BY <3>2, <4>1, <2>2 DEF IInv, OffsetsInv, flushedBytes
    <3>. QED BY <3>1, <3>2
  <2>. QED BY <2>1, <2>3, <2>4, <2>5
<1>b. buffered' <= buffered /\ buffered' \in Nat /\ buffered \in Nat
  <2>1. buffered \in Nat
    BY Numbers DEF IInv
  <2>2. buffered = bytes - flushedBytes /\ buffered' = bytes - flushedBytes'
    BY <1>u DEF buffered
  <2>3. bytes \in Nat /\ flushedBytes \in Nat
    BY <1>n
  <2>5. bytes - flushedBytes' <= bytes - flushedBytes /\ bytes - flushedBytes' \in Nat
    BY <1>f, <2>3, LessIsLeft
  <2>. QED BY <2>1, <2>2, <2>5
<1>p. pc' = pc \/ (pc = "drain" /\ pc' = "drained" /\ completed' = Len(written'))
  BY <1>u DEF SinkCompletes, OnDrain, Drains
<1>w. /\ maxStatementBytes' = maxStatementBytes /\ maxRowsPerStatement' = maxRowsPerStatement
      /\ LastWritten' = LastWritten
  BY <1>u DEF maxStatementBytes, maxRowsPerStatement, LastWritten
<1>1. WriterTypeOK'
  <2>1. completed' \in 0..Len(written') /\ flushedBytes' \in 0..bytes'
    BY <1>u, <1>n, <1>f
  <2>2. needDrain' \in BOOLEAN
    BY DEF SinkCompletes, Completes, IInv, TypeOK, WriterTypeOK
  <2>. QED BY <1>u, <1>n, <2>1, <2>2 DEF IInv, TypeOK, WriterTypeOK
<1>2. TypeOK'
  <2>1. /\ opts' \in Options /\ tuples' \in Seq(TupleLengths) /\ Len(tuples') <= MaxRows
        /\ afterFlush' \in { "row", "end" } /\ aborted' \in BOOLEAN
        /\ outcome' \in { "none", "completed", "cancelled", "rejected" }
        /\ pc' \in { "start", "source", "drain", "drained", "done" }
    BY <1>u, <1>p DEF IInv, TypeOK
  <2>2. /\ statementLength' \in Nat /\ statementRows' \in 0..MaxRows
        /\ rowsExported' \in 0..Len(tuples') /\ statementsWritten' \in 0..Len(written')
    BY <1>u DEF IInv, TypeOK
  <2>. QED BY <1>1, <2>1, <2>2, TypeParts
<1>3. OpenInv' /\ DueInv' /\ OrderInv'
  BY <1>u, <1>w, <1>p DEF IInv, OpenInv, DueInv, OrderInv
<1>4. WrittenInv' /\ OffsetsInv'
  BY <1>u, <1>w DEF IInv, WrittenInv, FitsCaps, OffsetsInv
<1>5. RowsInv'
  BY <1>u, <1>w, <1>p DEF IInv, RowsInv, AtStart, AtSource, AtFlush, AtEnd
<1>6. BufferInv'
  <2>1. pc' \in { "start", "source" } => buffered' < SinkHighWaterMark
    BY <1>p, <1>b, SinkAssumption DEF IInv, BufferInv
  <2>2. pc' = "drained" => completed' = Len(written')
    BY <1>p, <1>u, <1>n DEF IInv, BufferInv
  <2>3. Len(written') # 0 => buffered' - written'[Len(written')].bytes < SinkHighWaterMark
    <3>. SUFFICES ASSUME Len(written) # 0
                  PROVE  buffered' - written[Len(written)].bytes < SinkHighWaterMark
      BY <1>u
    <3>1. Len(written) \in 1..Len(written)
      BY <1>n
    <3>2. written[Len(written)] \in ChunkSet
      BY <1>n, <3>1, ElementOfSeq
    <3>3. written[Len(written)].bytes \in Nat
      BY <3>2 DEF ChunkSet
    <3>. QED BY <1>b, <3>3, SinkAssumption DEF IInv, BufferInv
  <2>. QED BY <2>1, <2>2, <2>3 DEF BufferInv
<1>. QED BY <1>2, <1>3, <1>4, <1>5, <1>6 DEF IInv

LEMMA SinkBreaksStep == ASSUME IInv, SinkBreaks PROVE IInv'
<1>u. /\ UNCHANGED << sink, bytes, opts, tuples, statement, counts, afterFlush >>
      /\ writeError' \in BOOLEAN /\ aborted' \in BOOLEAN
  BY DEF SinkBreaks, Breaks, IInv, TypeOK
<1>1. CASE Settle("rejected")
  BY <1>u, <1>1, SettledHere DEF Stays
<1>2. CASE pc' = pc /\ outcome' = outcome
  BY <1>u, <1>2, StandsStill
<1>. QED BY <1>1, <1>2 DEF SinkBreaks

LEMMA AbortStep == ASSUME IInv, Abort PROVE IInv'
<1>u. /\ UNCHANGED << sink, bytes, opts, tuples, statement, counts, afterFlush >>
      /\ writeError' \in BOOLEAN /\ aborted' \in BOOLEAN
  BY DEF Abort, writer, IInv, TypeOK, WriterTypeOK
<1>1. CASE Cancelled
  BY <1>u, <1>1, SettledHere DEF Stays
<1>2. CASE pc' = pc /\ outcome' = outcome
  BY <1>u, <1>2, StandsStill
<1>. QED BY <1>1, <1>2 DEF Abort, OnAbort

LEMMA StutterKeeps == ASSUME IInv, UNCHANGED vars PROVE IInv'
<1>1. /\ UNCHANGED << sink, bytes, opts, tuples, statement, counts, afterFlush >>
      /\ writeError' \in BOOLEAN /\ aborted' \in BOOLEAN
      /\ pc' = pc /\ outcome' = outcome
  BY DEF vars, writer, IInv, TypeOK, WriterTypeOK
<1>. QED BY <1>1, StandsStill

LEMMA NextIInv == IInv /\ [Next]_vars => IInv'
<1>. SUFFICES ASSUME IInv, [Next]_vars PROVE IInv'
  OBVIOUS
<1>1. CASE Start
  BY <1>1, StartStep
<1>2. CASE \E tuple \in TupleLengths : TakeRow(tuple)
  BY <1>2, TakeRowStep
<1>3. CASE SourceEnds
  BY <1>3, SourceEndsStep
<1>4. CASE SourceThrows
  BY <1>4, SourceThrowsStep
<1>5. CASE AfterDrain
  BY <1>5, AfterDrainStep
<1>6. CASE SinkCompletes
  BY <1>6, SinkCompletesStep
<1>7. CASE SinkBreaks
  BY <1>7, SinkBreaksStep
<1>8. CASE Abort
  BY <1>8, AbortStep
<1>9. CASE UNCHANGED vars
  BY <1>9, StutterKeeps
<1>. QED BY <1>1, <1>2, <1>3, <1>4, <1>5, <1>6, <1>7, <1>8, <1>9 DEF Next, Export, Sink

LEMMA Inductive == Spec => []IInv
<1>. QED BY InitIInv, NextIInv, PTL DEF Spec

-----------------------------------------------------------------------------
\* The state of an export and of the output it writes to has its type, and the
\* bytes counted are never fewer than the bytes the output has passed on.
THEOREM ExportTypeCorrect == Spec => []TypeOK
<1>1. IInv => TypeOK
  BY DEF IInv
<1>. QED BY <1>1, Inductive, PTL

\* Every statement written respects the byte cap and the row cap, unless it is
\* one row that is too long by itself.
THEOREM StatementsRespectCaps == Spec => []StatementsFit
<1>1. IInv => StatementsFit
  <2>. SUFFICES ASSUME IInv, NEW i \in DOMAIN written PROVE FitsCaps(written[i])
    BY DEF StatementsFit, FitsCaps
  <2>1. DOMAIN written = 1..Len(written)
    BY DEF IInv, WrittenInv
  <2>. QED BY <2>1 DEF IInv, WrittenInv
<1>. QED BY <1>1, Inductive, PTL

\* The statements hold consecutive ranges of rows, and a completed export has
\* written every row once and counted every statement.
THEOREM RowsAreExportedOnce == Spec => []EveryRowOnce
<1>1. IInv => EveryRowOnce
  <2>. SUFFICES ASSUME IInv PROVE EveryRowOnce
    OBVIOUS
  <2>1. DOMAIN written = 1..Len(written) /\ written \in Seq(ChunkSet)
    BY DEF IInv, WrittenInv
  <2>2. Len(written) = 0 <=> written = << >>
    BY <2>1, EmptySeq
  <2>3. outcome = "completed" => AtEnd
    BY DEF IInv, RowsInv
  <2>. QED BY <2>1, <2>2, <2>3 DEF EveryRowOnce, IInv, WrittenInv, AtEnd, LastWritten
<1>. QED BY <1>1, Inductive, PTL

\* An export that is cancelled or fails never leaves the rows it had gathered
\* behind as a statement that reads like a complete one.
THEOREM NoPartialStatement == Spec => []NothingHalfWritten
<1>1. IInv => NothingHalfWritten
  <2>. SUFFICES ASSUME IInv, NEW i \in DOMAIN written, afterFlush # "end"
                PROVE  written[i].last < Len(tuples)
    BY DEF NothingHalfWritten
  <2>. DEFINE n == Len(written)
  <2>1. DOMAIN written = 1..n /\ written \in Seq(ChunkSet) /\ n \in Nat
    BY DEF IInv, WrittenInv
  <2>2. LastWritten < Len(tuples) /\ LastWritten = written[n].last /\ n # 0
    BY <2>1 DEF IInv, DueInv, LastWritten
  <2>3. written[i].last <= LastWritten
    BY <2>1 DEF IInv, WrittenInv
  <2>4. written[i] \in ChunkSet /\ written[n] \in ChunkSet
    BY <2>1, <2>2, ElementOfSeq
  <2>5. Len(tuples) \in Nat
    BY Numbers DEF IInv
  <2>. QED BY <2>2, <2>3, <2>4, <2>5 DEF ChunkSet
<1>. QED BY <1>1, Inductive, PTL

\* A statement is handed over only while less than the highWaterMark of the
\* output is buffered.
THEOREM OutputIsBounded == Spec => []BufferBounded
<1>1. IInv => BufferBounded
  <2>. SUFFICES ASSUME IInv, written # << >>
                PROVE  buffered - written[Len(written)].bytes < SinkHighWaterMark
    BY DEF BufferBounded
  <2>1. Len(written) # 0
    BY EmptySeq DEF IInv, WrittenInv
  <2>. QED BY <2>1 DEF IInv, BufferInv
<1>. QED BY <1>1, Inductive, PTL
=============================================================================
