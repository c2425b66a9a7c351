---------------------------- MODULE StreamWriter ----------------------------
(***************************************************************************)
(* The output of a dump: a Node Writable the caller owns, and the          *)
(* StreamDumpWriter that hands it one chunk at a time and waits for        *)
(* 'drain' when write() returned false.  A chunk is a record with the      *)
(* number of its bytes; the modules that use this one say what else.       *)
(***************************************************************************)
EXTENDS Integers, Sequences

CONSTANT SinkHighWaterMark   \* the Writable's highWaterMark, in bytes

ASSUME SinkAssumption == SinkHighWaterMark \in Nat \ {0}

VARIABLES
  \* The Writable.
  written,      \* the chunks write() was given
  offsets,      \* how many bytes there are up to the end of each of them
  completed,    \* how many of them it has passed on
  needDrain,
  \* The writer.
  bytes,        \* bytesWritten
  writeError    \* a completion callback reported an error

sink   == << written, offsets, completed, needDrain >>
writer == << bytes, writeError >>

WriterInit ==
  /\ written = << >> /\ offsets = << >> /\ completed = 0 /\ needDrain = FALSE
  /\ bytes = 0 /\ writeError = FALSE

flushedBytes == IF completed = 0 THEN 0 ELSE offsets[completed]
buffered == bytes - flushedBytes

HandUncounted(chunk) ==
  /\ written' = Append(written, chunk)
  /\ offsets' = Append(offsets, bytes + chunk.bytes)
  /\ needDrain' = (needDrain \/ buffered + chunk.bytes >= SinkHighWaterMark)
  /\ UNCHANGED << completed, bytes, writeError >>

\* stream.write(chunk): the bytes are counted when they are handed over, and
\* canWriteMore is what write() returns.
Hand(chunk) ==
  /\ written' = Append(written, chunk)
  /\ offsets' = Append(offsets, bytes + chunk.bytes)
  /\ bytes' = bytes + chunk.bytes
  /\ needDrain' = (needDrain \/ buffered + chunk.bytes >= SinkHighWaterMark)
  /\ UNCHANGED << completed, writeError >>

AlwaysWriteMore(chunk) == TRUE
CanWriteMore(chunk) == buffered + chunk.bytes < SinkHighWaterMark

\* The Writable passes its first buffered chunk on.  The one that empties the
\* buffer makes it emit 'drain'.
Completes ==
  /\ ~writeError /\ completed < Len(written)
  /\ completed' = completed + 1
  /\ needDrain' = (needDrain /\ completed' < Len(written))
  /\ UNCHANGED << written, offsets, writer >>

Drains == needDrain /\ completed' = Len(written)

\* The Writable fails: the callback of the chunk at hand reports the error,
\* then 'error' is emitted.
Breaks ==
  /\ ~writeError /\ completed < Len(written)
  /\ writeError' = TRUE
  /\ UNCHANGED << sink, bytes >>

WriterTypeOK ==
  /\ offsets \in Seq(Nat) /\ Len(offsets) = Len(written)
  /\ completed \in 0..Len(written)
  /\ bytes \in Nat /\ flushedBytes \in 0..bytes
  /\ needDrain \in BOOLEAN /\ writeError \in BOOLEAN

-----------------------------------------------------------------------------
\* Memory stays bounded: a chunk is handed over only while less than the
\* stream's highWaterMark is buffered.
BufferBounded ==
  written # << >> => buffered - written[Len(written)].bytes < SinkHighWaterMark
=============================================================================
