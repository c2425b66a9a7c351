------------------------------- MODULE DumpRun -------------------------------
(***************************************************************************)
(* One call of dumpMysql: it acquires a connection, pins the session and   *)
(* opens the snapshot, reads the catalog, renders the archive's entries,   *)
(* streams every table's rows into INSERT statements, and on every way out *)
(* ends the snapshot, puts the session back and releases the connection.   *)
(*                                                                         *)
(* An action is one await together with the synchronous code that runs on  *)
(* its answer; introspection, whose many queries fail alike, is one        *)
(* action.  Beside the call run the caller's AbortSignal, the socket, the  *)
(* output stream, rows arriving ahead of the exporter, and other sessions  *)
(* that write to the database.  The adapter is the mysql2 one.             *)
(***************************************************************************)
EXTENDS DumpSession

CONSTANTS
  Options,        \* the option records a caller may pass
  Callers,        \* the sessions a caller may lend
  Archives,       \* the entry sequences a plan may hold
  RowsPerStatement,
  MaxVersion,     \* bound: versions other sessions' commits give the data
  MaxRefusals     \* bound: errors the server may answer in one dump

ASSUME OptionsAssumption ==
  Options \subseteq
    [ consistency : Consistency, timeZone : BOOLEAN,
      signal : BOOLEAN,           \* the caller passed an AbortSignal
      callbackThrows : BOOLEAN,   \* its progress callback may throw
      frames : BOOLEAN ]          \* the render options leave any header, table frame or footer

ASSUME CallersAssumption == Callers \subseteq Caller

\* An entry is an object (one piece of text) or a table's data.
ASSUME ArchivesAssumption ==
  \A a \in Archives : /\ Len(a) \in Nat /\ DOMAIN a = 1..Len(a)
                      /\ \A i \in 1..Len(a) : a[i] \in [ data : BOOLEAN, rows : Nat,
                                                         transactional : BOOLEAN ]

ASSUME BoundsAssumption ==
  RowsPerStatement \in Nat \ {0} /\ MaxVersion \in Nat \ {0} /\ MaxRefusals \in Nat

VARIABLES
  opts, caller, entries,
  pc,              \* the await the call is at
  at,              \* index of the next statement of begin, or of the cleanup
  srv, conn,       \* the session; "open", "lost", or "destroyed" by the adapter
  saved,           \* what begin read, to restore it from
  entry,           \* index of the entry being rendered
  stream,          \* "none", "open", "ended" or "failed": what the adapter knows
  arrived, consumed,   \* rows the adapter received, rows the exporter took
  statementRows,   \* rows in the statement being built
  written,         \* rows written, by entry
  seen,            \* the version of the data each entry's rows were read at
  version,         \* the version of the data now
  swallowed,       \* what of the cleanup the server refused: "end", or what was to be restored
  outputBroken, aborted, outcome, acquired, releases, refusals

call   == << opts, caller, entries >>
export == << stream, arrived, consumed, statementRows >>
result == << written, seen >>
world  == << version, outputBroken, refusals >>
lease  == << acquired, releases, swallowed >>
vars == << call, pc, at, srv, conn, saved, entry, export, result, world, lease, aborted, outcome >>

PcSet == { "snapshot", "acquire", "begin", "introspect", "packet", "header", "entry", "object",
           "open", "select", "rows", "flush", "lastFlush", "close", "footer",
           "end", "restore", "release", "done" }
Reading == { "select", "rows", "flush" }
Outcome == { "none", "completed", "cancelled", "rejected" }

Init ==
  /\ opts \in Options /\ caller \in Callers /\ entries \in Archives
  /\ pc = "acquire" /\ at = 1
  /\ srv = FreshSession(caller) /\ conn = "open"
  /\ saved = [v \in SessionVariable |-> "unread"]
  /\ entry = 1
  /\ stream = "none" /\ arrived = 0 /\ consumed = 0 /\ statementRows = 0
  /\ written = [i \in DOMAIN entries |-> 0]
  /\ seen = [i \in DOMAIN entries |-> 0]
  /\ version = 1 /\ outputBroken = FALSE /\ refusals = 0
  /\ acquired = FALSE /\ releases = 0 /\ swallowed = {}
  /\ aborted = FALSE /\ outcome = "none"

-----------------------------------------------------------------------------
\* An operation on a destroyed connection is answered by assertUsable alone:
\* the driver would never call back.
NeverFailsFast == FALSE
FailsFast == conn = "destroyed"
Answered == conn # "destroyed" \/ FailsFast

CallSucceeds == conn = "open" /\ ~aborted /\ UNCHANGED << conn, aborted, refusals >>

Refuse == conn = "open" /\ refusals < MaxRefusals /\ refusals' = refusals + 1

CallFails ==
  /\ ~aborted /\ Answered
  /\ (conn # "open" /\ UNCHANGED refusals) \/ Refuse
  /\ UNCHANGED << srv, conn, aborted >>

\* cancel(): the socket goes, and the server ends what the session held.
Cancel == conn' = "destroyed" /\ srv' = End(srv)

\* The signal has fired, or fires while the statement is in flight.
CallAborted ==
  /\ opts.signal
  /\ \/ aborted /\ UNCHANGED << srv, conn >>
     \/ ~aborted /\ conn = "open" /\ Cancel
  /\ aborted' = TRUE
  /\ UNCHANGED refusals

\* The dump's own result or error, once the session exists.
Finish(o) == pc' = "end" /\ outcome' = o

\* The callback is told of 'finalizing' before a result is returned.
Return(o) == Finish(o) \/ (opts.callbackThrows /\ Finish("rejected"))

\* A chunk the output accepts, one written or refused under the signal, and
\* one refused because the output broke.
WriteSucceeds == ~outputBroken /\ ~aborted /\ UNCHANGED aborted
WriteAborted  == ~outputBroken /\ opts.signal /\ aborted' = TRUE
WriteFails    == outputBroken /\ UNCHANGED aborted

-----------------------------------------------------------------------------
Acquire ==
  /\ pc = "acquire"
  /\ \/ acquired' = TRUE /\ pc' = "snapshot" /\ UNCHANGED outcome
     \/ pc' = "done" /\ outcome' = "rejected" /\ UNCHANGED acquired
  /\ UNCHANGED << call, at, srv, conn, saved, entry, export, result, world, releases, swallowed,
                  aborted >>

\* progress('starting-snapshot') runs outside every try.
StartSnapshot ==
  /\ pc = "snapshot"
  /\ \/ pc' = "begin" /\ UNCHANGED outcome
     \/ opts.callbackThrows /\ pc' = "done" /\ outcome' = "rejected"
  /\ UNCHANGED << call, at, srv, conn, saved, entry, export, result, world, lease, aborted >>

\* The statement of begin sent next is the first, from at on, that is sent.
IsNextStatement(i) ==
  /\ i >= at /\ IsSent(BeginOrder[i], opts, caller)
  /\ \A j \in at..(i - 1) : ~IsSent(BeginOrder[j], opts, caller)

\* A failed read ends the dump before anything was changed; a failed change
\* is followed by the rollback.
BeginFailsUnreleased(i) ==
  /\ outcome' = "rejected"
  /\ IF BeginOrder[i] \in DOMAIN ReadsVariable THEN pc' = "done" /\ UNCHANGED at
                                               ELSE pc' = "restore" /\ at' = 1
BeginFails(i) ==
  /\ outcome' = "rejected"
  /\ IF BeginOrder[i] \in DOMAIN ReadsVariable THEN pc' = "release" /\ UNCHANGED at
                                               ELSE pc' = "restore" /\ at' = 1

BeginSession ==
  /\ pc = "begin"
  /\ \E i \in DOMAIN BeginOrder :
       /\ IsNextStatement(i)
       /\ \/ /\ CallSucceeds
             /\ srv' = Begin(srv, BeginOrder[i], version)
             /\ saved' = Kept(saved, BeginOrder[i], srv)
             /\ at' = i + 1
             /\ UNCHANGED << pc, outcome >>
          \/ (CallFails \/ CallAborted) /\ BeginFails(i) /\ UNCHANGED saved
  /\ UNCHANGED << call, entry, export, result, version, outputBroken, lease >>

Begun ==
  /\ pc = "begin" /\ \A i \in DOMAIN BeginOrder : ~IsNextStatement(i)
  /\ pc' = "introspect" /\ at' = 1
  /\ UNCHANGED << call, srv, conn, saved, entry, export, result, world, lease, aborted, outcome >>

\* introspectMysql and the plan: a query fails, the plan is invalid, the
\* callback throws, or there is an archive to render.
Introspect ==
  /\ pc = "introspect"
  /\ \/ /\ CallSucceeds /\ UNCHANGED srv
        /\ \/ pc' = "packet" /\ UNCHANGED outcome
           \/ Finish("rejected")
     \/ (CallFails \/ CallAborted) /\ Finish("rejected")
  /\ UNCHANGED << call, at, saved, entry, export, result, version, outputBroken, lease >>

\* readMaxAllowedPacket: only a cancellation is passed on.
ReadMaxAllowedPacket ==
  /\ pc = "packet"
  /\ \/ CallSucceeds /\ pc' = "header" /\ UNCHANGED << srv, outcome >>
     \/ CallFails /\ pc' = "header" /\ UNCHANGED outcome
     \/ CallAborted /\ Finish("rejected")
  /\ UNCHANGED << call, at, saved, entry, export, result, version, outputBroken, lease >>

-----------------------------------------------------------------------------
\* emit() of one piece of text, which leads to the await named to.
Emit(to) ==
  \/ WriteSucceeds /\ pc' = to /\ UNCHANGED outcome
  \/ WriteAborted /\ Return("cancelled")
  \/ WriteFails /\ Finish("rejected")

\* emit() of nothing neither writes nor looks at the signal.
EmitFrame(to) ==
  \/ opts.frames /\ Emit(to)
  \/ ~opts.frames /\ pc' = to /\ UNCHANGED << aborted, outcome >>

Header ==
  /\ pc = "header"
  /\ EmitFrame("entry")
  /\ UNCHANGED << call, at, srv, conn, saved, entry, export, result, world, lease >>

NextEntry ==
  /\ pc = "entry"
  /\ \/ entry \in DOMAIN entries /\ aborted /\ Return("cancelled")
     \/ entry \in DOMAIN entries /\ ~aborted /\ opts.callbackThrows /\ Finish("rejected")
     \/ /\ entry \in DOMAIN entries /\ ~aborted
        /\ pc' = IF entries[entry].data THEN "open" ELSE "object"
        /\ UNCHANGED outcome
     \/ entry \notin DOMAIN entries /\ pc' = "footer" /\ UNCHANGED outcome
  /\ UNCHANGED << call, at, srv, conn, saved, entry, export, result, world, lease, aborted >>

RenderObject ==
  /\ pc = "object"
  /\ Emit("entry")
  /\ entry' = entry + 1
  /\ UNCHANGED << call, at, srv, conn, saved, export, result, world, lease >>

OpenTable ==
  /\ pc = "open"
  /\ Emit("select")
  /\ UNCHANGED << call, at, srv, conn, saved, entry, export, result, world, lease >>

\* The exporter's catch: a cancellation becomes its result, unless the
\* progress callback throws.
ExportCancelled ==
  \/ pc' = "close" /\ UNCHANGED outcome
  \/ opts.callbackThrows /\ Finish("rejected")

\* exportTableDataAsInserts begins to stream the table.  A cancelled export is
\* not an error: the renderer closes the table's frame next.
SelectRows ==
  /\ pc = "select"
  /\ \/ opts.callbackThrows /\ Finish("rejected") /\ UNCHANGED << export, seen, refusals >>
     \/ aborted /\ ExportCancelled /\ UNCHANGED << export, seen, refusals >>
     \/ /\ CallSucceeds
        /\ stream' = "open" /\ arrived' = 0 /\ consumed' = 0 /\ statementRows' = 0
        /\ seen' = [seen EXCEPT ![entry] = Sees(srv, entries[entry].transactional, version)]
        /\ pc' = "rows"
        /\ UNCHANGED outcome
     \/ /\ CallFails
        /\ stream' = "failed" /\ arrived' = 0 /\ consumed' = 0 /\ statementRows' = 0
        /\ pc' = "rows"
        /\ UNCHANGED << seen, outcome >>
  /\ UNCHANGED << call, at, srv, conn, saved, entry, written, version, outputBroken, lease, aborted >>

\* Rows arrive while the exporter builds tuples or waits for the output.
RowArrives ==
  /\ stream = "open" /\ conn = "open" /\ arrived < entries[entry].rows
  /\ arrived' = arrived + 1
  /\ UNCHANGED << call, pc, at, srv, conn, saved, entry, stream, consumed, statementRows, result,
                  world, lease, aborted, outcome >>

ResultEnds ==
  /\ stream = "open"
  /\ \/ /\ conn = "open" /\ arrived = entries[entry].rows
        /\ stream' = "ended"
        /\ UNCHANGED refusals
     \/ /\ \/ conn = "lost" /\ UNCHANGED refusals
           \/ conn = "open" /\ refusals < MaxRefusals /\ refusals' = refusals + 1
        /\ stream' = "failed"
  /\ UNCHANGED << call, pc, at, srv, conn, saved, entry, arrived, consumed, statementRows, result,
                  version, outputBroken, lease, aborted, outcome >>

\* The generator's finally: a result set still open is cancelled.
LeaveStreamUncancelled == UNCHANGED << stream, srv, conn >>
LeaveStream ==
  /\ stream' = "none"
  /\ IF stream = "open" THEN Cancel ELSE UNCHANGED << srv, conn >>

AddRowToFlushed(rowsBefore) == statementRows' = statementRows + 1 /\ consumed' = consumed + 1
AddRow(rowsBefore) == statementRows' = rowsBefore + 1 /\ consumed' = consumed + 1

TakeRow ==
  /\ pc = "rows" /\ consumed < arrived
  /\ \/ aborted /\ LeaveStream /\ ExportCancelled /\ UNCHANGED << consumed, statementRows >>
     \/ /\ ~aborted /\ statementRows < RowsPerStatement
        /\ AddRow(statementRows)
        /\ \/ UNCHANGED << pc, stream, srv, conn, outcome >>
           \/ opts.callbackThrows /\ LeaveStream /\ Finish("rejected")
     \/ /\ ~aborted /\ statementRows >= RowsPerStatement
        /\ pc' = "flush"
        /\ UNCHANGED << consumed, statementRows, stream, srv, conn, outcome >>
  /\ UNCHANGED << call, at, saved, entry, arrived, result, world, lease, aborted >>

WriteStatement == written' = [written EXCEPT ![entry] = @ + statementRows]

\* flushStatement inside the loop, a row of the next statement in hand.
FlushFull ==
  /\ pc = "flush"
  /\ \/ /\ WriteSucceeds /\ WriteStatement
        /\ AddRow(0)
        /\ \/ pc' = "rows" /\ UNCHANGED << stream, srv, conn, outcome >>
           \/ opts.callbackThrows /\ LeaveStream /\ Finish("rejected")
     \/ /\ WriteAborted
        /\ IF aborted THEN UNCHANGED written ELSE WriteStatement
        /\ LeaveStream /\ ExportCancelled
        /\ UNCHANGED << consumed, statementRows >>
     \/ /\ WriteFails /\ LeaveStream /\ Finish("rejected")
        /\ UNCHANGED << written, consumed, statementRows >>
  /\ UNCHANGED << call, at, saved, entry, arrived, seen, world, lease >>

\* Every row that arrived is taken; an abort comes before the result's end.
RowsOverUnflushed == pc' = "close"
RowsOver == pc' = IF statementRows > 0 THEN "lastFlush" ELSE "close"
StreamOver ==
  /\ pc = "rows" /\ consumed = arrived
  /\ \/ aborted /\ ExportCancelled
     \/ ~aborted /\ stream = "failed" /\ Finish("rejected")
     \/ ~aborted /\ stream = "ended" /\ RowsOver /\ UNCHANGED outcome
  /\ LeaveStream
  /\ UNCHANGED << call, at, saved, entry, arrived, consumed, statementRows, result, world, lease,
                  aborted >>

\* The last flush; progress('finished') runs inside the exporter's try.
FlushLast ==
  /\ pc = "lastFlush"
  /\ \/ /\ WriteSucceeds /\ WriteStatement
        /\ \/ pc' = "close" /\ UNCHANGED outcome
           \/ opts.callbackThrows /\ Finish("rejected")
     \/ /\ WriteAborted
        /\ IF aborted THEN UNCHANGED written ELSE WriteStatement
        /\ ExportCancelled
     \/ WriteFails /\ Finish("rejected") /\ UNCHANGED written
  /\ UNCHANGED << call, at, srv, conn, saved, entry, export, seen, world, lease >>

CloseTable ==
  /\ pc = "close"
  /\ EmitFrame("entry")
  /\ entry' = entry + 1
  /\ UNCHANGED << call, at, srv, conn, saved, export, result, world, lease >>

Footer ==
  /\ pc = "footer"
  /\ \/ opts.frames /\ WriteSucceeds /\ Return("completed")
     \/ opts.frames /\ WriteAborted /\ Return("cancelled")
     \/ opts.frames /\ WriteFails /\ Finish("rejected")
     \/ ~opts.frames /\ Return("completed") /\ UNCHANGED aborted
  /\ UNCHANGED << call, at, srv, conn, saved, entry, export, result, world, lease >>

-----------------------------------------------------------------------------
\* A statement of finish() that makes s of the session; what fails is swallowed.
Attempt(what, s) ==
  /\ Answered
  /\ \/ srv' = (IF conn = "open" THEN s ELSE srv) /\ UNCHANGED << swallowed, refusals >>
     \/ Refuse /\ swallowed' = swallowed \cup {what} /\ UNCHANGED srv
NotSent == UNCHANGED << srv, swallowed, refusals >>

\* COMMIT or UNLOCK TABLES, then the session's variables, without the signal.
EndWith(s) ==
  /\ pc = "end"
  /\ IF opts.consistency = "none" THEN NotSent ELSE Attempt("end", s)
  /\ pc' = "restore" /\ at' = 1
  /\ UNCHANGED << call, conn, saved, entry, export, result, version, outputBroken, acquired,
                  releases, aborted, outcome >>

EndSessionUnderSignal == EndWith(IF aborted THEN srv ELSE End(srv))
EndSession == EndWith(End(srv))

IsNextRestore(i) ==
  /\ i >= at /\ IsRestored(RestoreOrder[i], opts, caller)
  /\ \A j \in at..(i - 1) : ~IsRestored(RestoreOrder[j], opts, caller)

RestoreVariable ==
  /\ pc = "restore"
  /\ \E i \in DOMAIN RestoreOrder :
       /\ IsNextRestore(i)
       /\ Attempt(RestoreOrder[i], Restore(srv, RestoreOrder[i], saved))
       /\ at' = i + 1
  /\ UNCHANGED << call, pc, conn, saved, entry, export, result, version, outputBroken, acquired,
                  releases, aborted, outcome >>

Restored ==
  /\ pc = "restore" /\ \A i \in DOMAIN RestoreOrder : ~IsNextRestore(i)
  /\ pc' = "release"
  /\ UNCHANGED << call, at, srv, conn, saved, entry, export, result, world, lease, aborted, outcome >>

Release ==
  /\ pc = "release"
  /\ releases' = releases + 1
  /\ pc' = "done"
  /\ UNCHANGED << call, at, srv, conn, saved, entry, export, result, world, acquired, swallowed,
                  aborted, outcome >>

-----------------------------------------------------------------------------
\* The caller fires its signal; a query in flight is CallAborted instead.
Abort ==
  /\ opts.signal /\ ~aborted /\ pc # "done"
  /\ aborted' = TRUE
  /\ UNCHANGED << call, pc, at, srv, conn, saved, entry, export, result, world, lease, outcome >>

LoseConnection ==
  /\ conn = "open" /\ pc # "done"
  /\ conn' = "lost" /\ srv' = End(srv)
  /\ UNCHANGED << call, pc, at, saved, entry, export, result, world, lease, aborted, outcome >>

OutputBreaks ==
  /\ ~outputBroken /\ pc # "done"
  /\ outputBroken' = TRUE
  /\ UNCHANGED << call, pc, at, srv, conn, saved, entry, export, result, version, refusals, lease,
                  aborted, outcome >>

\* Another session commits a write, which FLUSH TABLES WITH READ LOCK blocks.
OtherSessionWrites ==
  /\ ~srv.readLock /\ version < MaxVersion /\ pc # "done"
  /\ version' = version + 1
  /\ UNCHANGED << call, pc, at, srv, conn, saved, entry, export, result, outputBroken, refusals,
                  lease, aborted, outcome >>

\* The call is over, or waits for an answer that never comes.
Terminated == (Answered => pc = "done") /\ UNCHANGED vars

Step ==
  \/ Acquire \/ StartSnapshot \/ BeginSession \/ Begun \/ Introspect \/ ReadMaxAllowedPacket
  \/ Header \/ NextEntry \/ RenderObject \/ OpenTable \/ SelectRows \/ RowArrives \/ ResultEnds
  \/ TakeRow \/ FlushFull \/ StreamOver \/ FlushLast \/ CloseTable \/ Footer
  \/ EndSession \/ RestoreVariable \/ Restored \/ Release

Next == Step \/ Abort \/ LoseConnection \/ OutputBreaks \/ OtherSessionWrites \/ Terminated

Spec == Init /\ [][Next]_vars

\* Every call the adapter sends is answered, rows keep arriving, and the
\* reader of the output drains it.
FairSpec == Spec /\ WF_vars(Step)

-----------------------------------------------------------------------------
TypeOK ==
  /\ opts \in Options /\ caller \in Callers /\ entries \in Archives
  /\ pc \in PcSet /\ at \in 1..10
  /\ srv \in Session(0..MaxVersion) /\ conn \in { "open", "lost", "destroyed" }
  /\ saved \in [SessionVariable -> Setting \cup {"unread"}]
  /\ entry \in 1..(Len(entries) + 1)
  /\ stream \in { "none", "open", "ended", "failed" }
  /\ arrived \in Nat /\ consumed \in 0..arrived /\ statementRows \in 0..RowsPerStatement
  /\ written \in [DOMAIN entries -> Nat] /\ seen \in [DOMAIN entries -> 0..MaxVersion]
  /\ version \in 1..MaxVersion /\ outputBroken \in BOOLEAN /\ refusals \in 0..MaxRefusals
  /\ acquired \in BOOLEAN /\ releases \in 0..1
  /\ swallowed \subseteq {"end"} \cup SessionVariable
  /\ aborted \in BOOLEAN /\ outcome \in Outcome

HandedBack == releases > 0 /\ conn = "open"

\* A variable is as it was found, or the server refused the statement, of its own
\* name or SET NAMES for the three, that was to put it back.
RestoredBy(v) == IF v \in CharsetTrio THEN "character_set_client" ELSE v
PutBack(v) == srv.vars[v] = Found(caller)[v] \/ RestoredBy(v) \in swallowed

\* "Cancellation ... restores every session variable it changed": and so does
\* every other way out, the failing halves of begin included, but for what the
\* server itself refuses to restore; one refusal does not end the cleanup.
VariablesHandedBack == HandedBack => \A v \in SessionVariable : PutBack(v)

\* The connection goes back with no result set unread, on which the next
\* borrower's query would wait, and, unless COMMIT or UNLOCK TABLES was
\* refused, with no snapshot or lock held.
IdleHandedBack ==
  HandedBack => stream = "none" /\ (srv.inTx \/ srv.readLock => "end" \in swallowed)

\* What the consistency mode covers: all tables, or those with snapshots.
Covered(i) ==
  \/ opts.consistency = "lock-all-tables"
  \/ opts.consistency = "single-transaction" /\ entries[i].transactional

\* All the rows of all covered tables are read as of one instant, whoever
\* writes during the dump.
OneInstant ==
  \A i, j \in DOMAIN entries :
    Covered(i) /\ Covered(j) /\ seen[i] # 0 /\ seen[j] # 0 => seen[i] = seen[j]

\* No row is read, on a connection still up, but under the pinned session.
ReadsPinned ==
  pc \in Reading /\ conn = "open" =>
    /\ \A v \in CharsetTrio : srv.vars[v] = "dump"
    /\ opts.timeZone => srv.vars["time_zone"] = "dump"
    /\ caller.conflictingMode => srv.vars["sql_mode"] = "dump"

\* A dump that does not report itself cancelled holds every row: "`cancelled`
\* is `true` when the `AbortSignal` fired; the dump is truncated".
CompletedIsComplete ==
  outcome = "completed" =>
    \A i \in DOMAIN entries : entries[i].data => written[i] = entries[i].rows

\* A connection checked out is given back, exactly once, when the call ends.
AcquiredIsReleased == pc = "done" /\ acquired => releases = 1

\* Every call settles, whatever is cancelled, lost or broken meanwhile.
Settles == <>(pc = "done")

\* A dump implements the lease.
Phase == IF releases > 0 THEN "returned" ELSE IF acquired THEN "operation" ELSE "owner"

\* What the server itself refuses to put back is not the dump's to answer for.
AsFound ==
  conn = "open" => /\ \A v \in SessionVariable : PutBack(v)
                   /\ srv.inTx \/ srv.readLock => "end" \in swallowed
                   /\ stream = "none"

Lease == INSTANCE SessionLease WITH phase <- Phase, asFound <- AsFound

ImplementsLease == Lease!Spec

-----------------------------------------------------------------------------
(* The inductive strengthening of the invariants above, by part. *)

Rendering == { "introspect", "packet", "header", "entry", "object", "open", "select", "rows",
               "flush", "lastFlush", "close", "footer" }
Ending == { "end", "restore", "release", "done" }

ControlInv ==
  /\ pc \in { "object", "open", "select", "rows", "flush", "lastFlush", "close" } =>
       entry \in DOMAIN entries
  /\ pc = "flush" => consumed < arrived
  /\ stream # "none" => pc \in { "rows", "flush" }
  /\ pc # "done" => releases = 0
  /\ pc = "acquire" => ~acquired
  /\ pc \in { "acquire", "snapshot" } => at = 1
  /\ pc = "restore" => at <= 4
  /\ pc \notin Ending => swallowed = {}

\* A snapshot or a lock exists only where finish() will still end it, or could not.
HoldInv ==
  /\ srv.inTx => /\ opts.consistency = "single-transaction" /\ conn = "open"
                 /\ \/ (pc = "begin" /\ at >= 9) \/ pc \in Rendering \cup {"end"}
                    \/ "end" \in swallowed
  /\ srv.readLock => /\ opts.consistency = "lock-all-tables" /\ conn = "open"
                     /\ \/ (pc = "begin" /\ at = 10) \/ pc \in Rendering \cup {"end"}
                        \/ "end" \in swallowed

\* The session keeps the data at one instant: the version every read sees.
SnapshotOpen == srv.vars["transaction_isolation"] = "dump" /\ srv.inTx
Instant == IF opts.consistency = "single-transaction" THEN srv.snapshot ELSE version

InstantInv ==
  /\ pc \in { "acquire", "snapshot", "begin" } => \A i \in DOMAIN entries : seen[i] = 0
  /\ pc = "begin" /\ conn = "open" =>
       /\ opts.consistency = "single-transaction" /\ at > 7 =>
            srv.vars["transaction_isolation"] = "dump"
       /\ opts.consistency = "single-transaction" /\ at > 8 => srv.inTx
       /\ opts.consistency = "lock-all-tables" /\ at > 9 => srv.readLock
  /\ pc \in Rendering /\ conn = "open" =>
       /\ opts.consistency = "single-transaction" => SnapshotOpen
       /\ opts.consistency = "lock-all-tables" => srv.readLock
       /\ \A i \in DOMAIN entries : Covered(i) /\ seen[i] # 0 => seen[i] = Instant
  /\ OneInstant

\* What begin has pinned stays pinned while the dump renders.
PinnedInv ==
  /\ pc = "begin" /\ conn = "open" =>
       /\ caller.conflictingMode /\ at > 4 => srv.vars["sql_mode"] = "dump"
       /\ opts.timeZone /\ at > 5 => srv.vars["time_zone"] = "dump"
       /\ at > 6 => \A v \in CharsetTrio : srv.vars[v] = "dump"
  /\ pc \in Rendering /\ conn = "open" =>
       /\ caller.conflictingMode => srv.vars["sql_mode"] = "dump"
       /\ opts.timeZone => srv.vars["time_zone"] = "dump"
       /\ \A v \in CharsetTrio : srv.vars[v] = "dump"

\* What the cleanup restores was read before it was changed.
SavedInv ==
  /\ /\ conn = "open"
     /\ pc \in { "acquire", "snapshot" } \/ (pc = "begin" /\ at <= 4)
     => srv.vars = Found(caller)
  /\ pc = "begin" =>
       /\ at > 1 => saved["sql_mode"] = "caller"
       /\ at > 2 /\ opts.timeZone => saved["time_zone"] = "caller"
       /\ at > 3 => saved["character_set_client"] = "caller"
  /\ pc \in Rendering \cup { "end", "restore" } =>
       /\ saved["sql_mode"] = "caller"
       /\ opts.timeZone => saved["time_zone"] = "caller"
       /\ saved["character_set_client"] = "caller"

\* What the cleanup does not restore was not changed.
VariablesInv ==
  /\ srv.vars["transaction_isolation"] = Found(caller)["transaction_isolation"]
  /\ ~caller.conflictingMode => srv.vars["sql_mode"] = "caller"
  /\ ~opts.timeZone => srv.vars["time_zone"] = "caller"
  /\ pc \in { "release", "done" } /\ conn = "open" => \A v \in SessionVariable : PutBack(v)
  /\ pc = "restore" /\ conn = "open" =>
       /\ at > 1 => PutBack("sql_mode")
       /\ at > 2 => PutBack("time_zone")
       /\ at > 3 => \A v \in CharsetTrio : PutBack(v)

\* Until the signal fires, every row behind the writer is written: the entries
\* before this one in full, and of this one what is not in the open statement.
\* Once it has fired, anything may be missing, and a write has to notice.
Unread == PcSet \ (Ending \cup { "rows", "flush", "lastFlush", "close", "footer" })
Complete(i) == entries[i].data => written[i] = entries[i].rows

CompleteInv ==
  /\ CompletedIsComplete
  /\ pc \notin Ending => outcome # "completed"
  /\ ~aborted =>
       /\ \A i \in DOMAIN entries :
            /\ i < entry => Complete(i)
            /\ i > entry \/ (i = entry /\ pc \in Unread) => written[i] = 0
       /\ pc = "object" => ~entries[entry].data
       /\ pc \in { "rows", "flush" } =>
            /\ written[entry] + statementRows = consumed
            /\ stream = "ended" => arrived = entries[entry].rows
       /\ pc = "lastFlush" => written[entry] + statementRows = entries[entry].rows
       /\ pc = "close" => written[entry] = entries[entry].rows
       /\ pc = "footer" => entry \notin DOMAIN entries

\* Every dump ends with a footer, whose write notices the signal.
AllFramed == \A o \in Options : o.frames

\* Whatever follows the checkout knows of the connection.
CheckoutInv == pc \notin { "acquire", "done" } => acquired

\* The callers whose progress callback never throws.
QuietCallbacks == \A o \in Options : ~o.callbackThrows

\* The sessions SET NAMES and the isolation level leave as they were.
PlainCallers == \A c \in Callers : c.plainNames /\ c.repeatableRead
=============================================================================
