----------------------------- MODULE RestoreRun -----------------------------
(***************************************************************************)
(* One call of restoreSqlDump: it acquires a connection, executes a script *)
(* statement by statement, and on every way out - the end of the script,   *)
(* a failing statement, a cancellation, a thrown error - rolls back, puts  *)
(* the session back and releases the connection.                           *)
(*                                                                         *)
(* An action is one await of the code together with the synchronous code   *)
(* that runs on its answer.  The environment refuses statements, loses the *)
(* connection, fires the caller's AbortSignal, and makes the progress      *)
(* callback or the release throw where the options let it.  The adapter is *)
(* the mysql2 one, or like it: a signal that fires while a statement is in *)
(* flight destroys the connection, the statement may or may not have run,  *)
(* and whatever is sent afterwards the driver never answers.               *)
(***************************************************************************)
EXTENDS RestoreSessionState

CONSTANTS
  Scripts,      \* the statement sequences a source may hold
  Options,      \* the option records a caller may pass
  Leftovers,    \* what user variables may hold when the session is acquired
  MaxRefusals   \* bound: refusals the server may answer in one run

ASSUME ScriptsAssumption ==
  \A s \in Scripts : /\ Len(s) \in Nat /\ DOMAIN s = 1..Len(s)
                     /\ \A i \in 1..Len(s) : IsStatement(s[i])

ASSUME OptionsAssumption ==
  Options \subseteq
    [ database : BOOLEAN, stopOnError : BOOLEAN, restoreSessionState : BOOLEAN,
      singleTransaction : BOOLEAN, definerPolicy : {"preserve", "strip", "best-effort"},
      errnoDescribed : BOOLEAN,   \* its adapter's errors keep MySQL's error number
      signal : BOOLEAN,           \* the caller passed an AbortSignal
      callbackThrows : BOOLEAN,   \* its progress callback may throw
      releaseThrows : BOOLEAN ]   \* its connection source's release() may throw

ASSUME LeftoversAssumption == Leftovers \subseteq Value
ASSUME MaxRefusalsAssumption == MaxRefusals \in Nat

VARIABLES
  opts, script,
  pc,                \* the await the call is at
  next,              \* index of the statement the source delivers next
  srv,               \* the session, see MysqlSession
  transactionOpen, changed, statementsExecuted, statementsFailed,
  guard,             \* index in GuardOrder the cleanup is at
  aborted,           \* the signal has fired
  destroyed,         \* the adapter has destroyed the socket
  outcome,           \* how the call is going to end
  releases,          \* calls of acquired.release() so far
  swallowed,         \* what of the cleanup the server refused to do
  refusals

counters == << statementsExecuted, statementsFailed >>
cancellation == << aborted, destroyed >>
vars == << opts, script, pc, next, srv, transactionOpen, changed, guard, counters, cancellation,
           outcome, releases, swallowed, refusals >>

Outcome == { "none", "completed", "stopped", "cancelled", "threw" }
PcSet == { "acquire", "use", "begin", "fetch", "execute", "retry", "commit",
           "rollback", "unlock", "guards", "release", "done" }
Cleanup == { "rollback", "unlock", "guards", "release" }
Transaction == "TRANSACTION"   \* what ROLLBACK deals with, beside the codes

st == script[next]

Init ==
  /\ opts \in Options
  /\ script \in Scripts
  /\ pc = "acquire"
  /\ next = 1
  /\ srv \in {FreshSession(left) : left \in Leftovers}
  /\ transactionOpen = FALSE
  /\ changed = {}
  /\ guard = 1
  /\ statementsExecuted = 0
  /\ statementsFailed = 0
  /\ aborted = FALSE /\ destroyed = FALSE
  /\ outcome = "none"
  /\ releases = 0 /\ swallowed = {}
  /\ refusals = 0

-----------------------------------------------------------------------------
\* finalize() is entered with the outcome the call will have.
Finalize(o) == pc' = "rollback" /\ outcome' = o

\* The next statement is asked for.
AdvanceByTwo == pc' = "fetch" /\ next' = next + 2 /\ UNCHANGED outcome
Advance == pc' = "fetch" /\ next' = next + 1 /\ UNCHANGED outcome

CountExecutedButRetries ==
  statementsExecuted' = statementsExecuted + (IF pc = "retry" THEN 0 ELSE 1)
CountExecuted == statementsExecuted' = statementsExecuted + 1

\* The catch block once no retry succeeded: count, report, stop or go on.
StatementFailedGoesOn == statementsFailed' = statementsFailed + 1 /\ Advance
StatementFailedUncounted ==
  UNCHANGED statementsFailed /\ IF opts.stopOnError THEN Finalize("stopped") /\ UNCHANGED next
                                                    ELSE Advance
StatementFailed ==
  /\ statementsFailed' = statementsFailed + 1
  /\ \/ opts.callbackThrows /\ Finalize("threw") /\ UNCHANGED next
     \/ opts.stopOnError /\ Finalize("stopped") /\ UNCHANGED next
     \/ ~opts.stopOnError /\ Advance

Refuse == refusals < MaxRefusals /\ refusals' = refusals + 1

\* A call whose signal has fired, or fires while it is in flight; s is the
\* session in case the server had executed it.
CallAborted(s) ==
  /\ opts.signal
  /\ aborted' = TRUE
  /\ IF aborted THEN UNCHANGED << srv, destroyed >>
                ELSE srv.up /\ srv' \in {Disconnect(srv), Disconnect(s)} /\ destroyed' = TRUE
  /\ Finalize("cancelled")

\* What only finalize() touches, and what nothing does.
Frame == UNCHANGED << opts, script, guard, releases, swallowed >>

-----------------------------------------------------------------------------
Acquire ==
  /\ pc = "acquire"
  /\ \/ pc' = "use" /\ UNCHANGED outcome
     \/ pc' = "done" /\ outcome' = "threw"
  /\ UNCHANGED << next, srv, transactionOpen, changed, counters, cancellation, refusals >>
  /\ Frame

UseDatabase ==
  /\ pc = "use"
  /\ \/ /\ opts.database => srv.up /\ ~aborted
        /\ pc' = "begin"
        /\ UNCHANGED << srv, cancellation, outcome, refusals >>
     \/ /\ opts.database /\ ~aborted
        /\ IF srv.up THEN Refuse ELSE UNCHANGED refusals
        /\ Finalize("threw")
        /\ UNCHANGED << srv, cancellation >>
     \/ opts.database /\ CallAborted(srv) /\ UNCHANGED refusals
  /\ UNCHANGED << next, transactionOpen, changed, counters >>
  /\ Frame

StartTransaction ==
  /\ pc = "begin"
  /\ \/ /\ ~opts.singleTransaction
        /\ pc' = "fetch"
        /\ UNCHANGED << srv, transactionOpen, cancellation, outcome >>
     \/ /\ opts.singleTransaction /\ srv.up /\ ~aborted
        /\ srv' = BeginTx(srv)
        /\ transactionOpen' = TRUE
        /\ pc' = "fetch"
        /\ UNCHANGED << cancellation, outcome >>
     \/ /\ opts.singleTransaction /\ ~srv.up /\ ~aborted
        /\ Finalize("threw")
        /\ UNCHANGED << srv, transactionOpen, cancellation >>
     \/ opts.singleTransaction /\ CallAborted(BeginTx(srv)) /\ UNCHANGED transactionOpen
  /\ UNCHANGED << next, changed, counters, refusals >>
  /\ Frame

\* The parser yields a statement, throws (the source or the text is bad, or
\* the progress callback threw), notices the signal, or reaches the end.  A
\* signal that fires after the last chunk is not noticed here.
Fetch ==
  /\ pc = "fetch"
  /\ \/ next \in DOMAIN script /\ ~aborted /\ pc' = "execute" /\ UNCHANGED outcome
     \/ next \notin DOMAIN script /\ pc' = "commit" /\ UNCHANGED outcome
     \/ aborted /\ Finalize("cancelled")
     \/ ~aborted /\ Finalize("threw")
  /\ UNCHANGED << next, srv, transactionOpen, changed, counters, cancellation, refusals >>
  /\ Frame

\* The server executed the statement and the restore learns of it.  The
\* progress callback is called inside the try: what it throws is handled as
\* if the statement had failed.
ExecuteSucceeds ==
  /\ pc = "execute" /\ srv.up /\ ~aborted
  /\ Assignable(srv, st)
  /\ srv' = Apply(srv, st, next)
  /\ CountExecuted
  /\ changed' = Observe(changed, st)
  /\ \/ Advance /\ UNCHANGED statementsFailed
     \/ opts.callbackThrows /\ StatementFailed
  /\ UNCHANGED << transactionOpen, cancellation, refusals >>
  /\ Frame

\* An error that is not about the definer: the server's answer, or a lost
\* connection, on which the statement may have run.
ExecuteFails ==
  /\ pc = "execute" /\ ~aborted
  /\ \/ srv.up /\ ~Assignable(srv, st) /\ UNCHANGED << srv, refusals >>
     \/ srv.up /\ Refusable(st) /\ Refuse /\ UNCHANGED srv
     \/ ~srv.up /\ UNCHANGED << srv, refusals >>
     \/ /\ srv.up /\ Assignable(srv, st)
        /\ srv' = Disconnect(Apply(srv, st, next))
        /\ UNCHANGED refusals
  /\ StatementFailed
  /\ UNCHANGED << transactionOpen, changed, statementsExecuted, cancellation >>
  /\ Frame

\* One of MySQL's definer errors, 1227, 1449 or 1470; only 'best-effort' retries,
\* and only if the adapter can tell the number: the error mysql2.ts wraps has lost it.
ExecuteFailsOnDefiner ==
  /\ pc = "execute" /\ srv.up /\ ~aborted
  /\ st.definer /\ opts.definerPolicy # "strip"
  /\ Refuse
  /\ IF opts.definerPolicy = "best-effort" /\ opts.errnoDescribed
     THEN pc' = "retry" /\ UNCHANGED << next, outcome, statementsFailed >>
     ELSE StatementFailed
  /\ UNCHANGED << srv, transactionOpen, changed, statementsExecuted, cancellation >>
  /\ Frame

ExecuteAborted ==
  /\ pc = "execute"
  /\ CallAborted(Apply(srv, st, next))
  /\ UNCHANGED << next, transactionOpen, changed, counters, refusals >>
  /\ Frame

\* maybeRetryWithoutDefiner.  Outside the try: a throwing callback ends the call.
Retry ==
  /\ pc = "retry"
  /\ \/ /\ srv.up /\ ~aborted
        /\ srv' = Apply(srv, st, next)
        /\ CountExecuted
        /\ changed' = Observe(changed, st)
        /\ \/ Advance
           \/ opts.callbackThrows /\ Finalize("threw") /\ UNCHANGED next
        /\ UNCHANGED << statementsFailed, cancellation, refusals >>
     \/ /\ ~aborted
        /\ \/ srv.up /\ Refuse /\ UNCHANGED srv
           \/ ~srv.up /\ UNCHANGED << srv, refusals >>
           \/ srv.up /\ srv' = Disconnect(Apply(srv, st, next)) /\ UNCHANGED refusals
        /\ StatementFailed
        /\ UNCHANGED << changed, statementsExecuted, cancellation >>
     \/ CallAborted(Apply(srv, st, next)) /\ UNCHANGED << next, changed, counters, refusals >>
  /\ UNCHANGED transactionOpen
  /\ Frame

Commit ==
  /\ pc = "commit"
  /\ \/ /\ transactionOpen => srv.up /\ ~aborted
        /\ srv' = IF transactionOpen THEN CommitTx(srv) ELSE srv
        /\ transactionOpen' = FALSE
        /\ Finalize("completed") \/ (opts.callbackThrows /\ Finalize("threw"))
        /\ UNCHANGED cancellation
     \/ /\ transactionOpen /\ ~aborted
        /\ \/ ~srv.up /\ UNCHANGED srv
           \/ srv.up /\ srv' = Disconnect(CommitTx(srv))
        /\ Finalize("threw")
        /\ UNCHANGED << transactionOpen, cancellation >>
     \/ transactionOpen /\ CallAborted(CommitTx(srv)) /\ UNCHANGED transactionOpen
  /\ UNCHANGED << next, changed, counters, refusals >>
  /\ Frame

-----------------------------------------------------------------------------
\* finalize().  Its statements carry no signal, and their errors are swallowed one
\* by one.  On a destroyed connection they are answered by assertUsable alone.
NeverFailsFast == FALSE
FailsFast == destroyed
Answered == ~destroyed \/ FailsFast

\* A statement of the cleanup that makes s of the session, unless it is refused.
Attempt(what, s) ==
  /\ Answered
  /\ \/ srv' = (IF srv.up THEN s ELSE srv) /\ UNCHANGED << swallowed, refusals >>
     \/ srv.up /\ Refuse /\ swallowed' = swallowed \cup {what} /\ UNCHANGED srv
NotSent == UNCHANGED << srv, swallowed, refusals >>

CleanupFrame == UNCHANGED << opts, script, next, counters, cancellation >>

AfterRollback == IF opts.restoreSessionState THEN "unlock" ELSE "release"

RollbackWith(s, afterwards) ==
  /\ pc = "rollback"
  /\ IF transactionOpen THEN Attempt(Transaction, s) ELSE NotSent
  /\ transactionOpen' = FALSE
  /\ pc' = afterwards
  /\ UNCHANGED << changed, guard, outcome, releases >>
  /\ CleanupFrame

RollbackUnderSignal == RollbackWith(IF aborted THEN srv ELSE RollbackTx(srv), AfterRollback)
RollbackCommits == RollbackWith(CommitTx(srv), AfterRollback)
RollbackSkipsCleanup ==
  RollbackWith(RollbackTx(srv), IF aborted THEN "release" ELSE AfterRollback)
Rollback == RollbackWith(RollbackTx(srv), AfterRollback)

CleanupUnlock ==
  /\ pc = "unlock"
  /\ IF TableLocks \in changed THEN Attempt(TableLocks, UnlockTables(srv)) ELSE NotSent
  /\ pc' = "guards"
  /\ UNCHANGED << transactionOpen, changed, guard, outcome, releases >>
  /\ CleanupFrame

\* The next guard, in order, that the script changed and did not put back.
IsNextGuard(i) ==
  /\ i >= guard /\ GuardOrder[i] \in changed
  /\ \A j \in guard..(i - 1) : GuardOrder[j] \notin changed

GuardsAreOverIfRefused(i) == guard' = IF refusals' # refusals THEN Len(GuardOrder) + 1 ELSE i + 1
GuardIsBehind(i) == guard' = i + 1

CleanupGuard ==
  /\ pc = "guards"
  /\ \E i \in DOMAIN GuardOrder :
       /\ IsNextGuard(i)
       /\ Attempt(GuardOrder[i], RestoreVariable(srv, GuardOrder[i]))
       /\ GuardIsBehind(i)
  /\ UNCHANGED << pc, transactionOpen, changed, outcome, releases >>
  /\ CleanupFrame

CleanupDoneKeeping(codes) ==
  /\ pc = "guards" /\ \A i \in DOMAIN GuardOrder : ~IsNextGuard(i)
  /\ changed' = codes
  /\ guard' = 1
  /\ pc' = "release"
  /\ UNCHANGED << transactionOpen, outcome, releases >>
  /\ NotSent /\ CleanupFrame

CleanupDoneKeepsAll == CleanupDoneKeeping(changed)
CleanupDone == CleanupDoneKeeping({})

\* A release that throws inside the try is caught, and finalize() runs again.
Release ==
  /\ pc = "release"
  /\ releases' = releases + 1
  /\ \/ pc' = "done" /\ UNCHANGED outcome
     \/ /\ opts.releaseThrows
        /\ outcome' = "threw"
        /\ pc' = IF outcome \in {"completed", "stopped"} THEN "rollback" ELSE "done"
  /\ UNCHANGED << transactionOpen, changed, guard >>
  /\ NotSent /\ CleanupFrame

-----------------------------------------------------------------------------
\* The caller fires its signal between two awaits.
Abort ==
  /\ opts.signal /\ ~aborted /\ pc # "done"
  /\ aborted' = TRUE
  /\ UNCHANGED << destroyed, pc, next, srv, transactionOpen, changed, counters, outcome, refusals >>
  /\ Frame

\* The connection is lost between two awaits.
LoseConnection ==
  /\ srv.up /\ pc # "done"
  /\ srv' = Disconnect(srv)
  /\ UNCHANGED << pc, next, transactionOpen, changed, counters, cancellation, outcome, refusals >>
  /\ Frame

\* The call is over, or waits for an answer that never comes.
Terminated == (Answered => pc = "done") /\ UNCHANGED vars

Step ==
  \/ Acquire \/ UseDatabase \/ StartTransaction \/ Fetch
  \/ ExecuteSucceeds \/ ExecuteFails \/ ExecuteFailsOnDefiner \/ ExecuteAborted \/ Retry
  \/ Commit
  \/ Rollback \/ CleanupUnlock \/ CleanupGuard \/ CleanupDone \/ Release

Next == Step \/ Abort \/ LoseConnection \/ Terminated

Spec == Init /\ [][Next]_vars

\* Every call sent to a connection that is not destroyed is answered, and the source
\* delivers or ends.
FairSpec == Spec /\ WF_vars(Step)
-----------------------------------------------------------------------------
TypeOK ==
  /\ opts \in Options /\ script \in Scripts
  /\ pc \in PcSet /\ outcome \in Outcome
  /\ next \in 1..(Len(script) + 1)
  /\ srv \in Session(DOMAIN script)
  /\ transactionOpen \in BOOLEAN /\ aborted \in BOOLEAN
  /\ changed \subseteq Codes /\ guard \in 1..(Len(GuardOrder) + 1)
  /\ statementsExecuted \in Nat /\ statementsFailed \in Nat
  /\ destroyed \in BOOLEAN /\ swallowed \subseteq Codes \cup {Transaction}
  /\ releases \in 0..2 /\ refusals \in 0..MaxRefusals

HandedBack == releases > 0 /\ srv.up

\* A variable is as it was found, or the server refused to have it put back.
PutBack(v) == srv.env[Sys(v)] = "caller" \/ v \in swallowed

\* Whichever way the call ends, the connection is released with every session
\* variable as it was found, but for those whose own cleanup statement the server
\* refused.  Violated by a way out that skips the cleanup, a refusal that ends it,
\* a SET the patterns do not recognise, a cleanup statement that assigns more
\* than the script changed, or a saved value that was overwritten.
VariablesHandedBack == HandedBack /\ opts.restoreSessionState => \A v \in Variable : PutBack(v)

\* ... and, unless UNLOCK TABLES was refused, without a table lock, which would
\* block every other session.
LocksHandedBack ==
  HandedBack /\ opts.restoreSessionState => (srv.locked => TableLocks \in swallowed)

\* ... and, whatever the options, without an open transaction, unless ROLLBACK
\* itself was refused.
TransactionHandedBack == HandedBack => (srv.inTx => Transaction \in swallowed)

\* The counters agree with the server: what is counted as executed ran, and
\* on a connection still up what ran is counted, retries included.
ExecutedMatchesServer ==
  /\ statementsExecuted <= Cardinality(srv.applied)
  /\ srv.up => statementsExecuted = Cardinality(srv.applied)

\* A restore that ran to the end of its script accounts for every statement,
\* as executed or as failed and never as both.
EveryStatementCountedOnce ==
  outcome = "completed" => statementsExecuted + statementsFailed = Len(script)

NoDdl(s) == \A i \in DOMAIN s : s[i].kind # "ddl"
DataStatements(s) == {i \in DOMAIN s : s[i].kind = "dml"}

\* singleTransaction on a script without DDL, "rolled back if anything fails":
\* what is durable is nothing, or all the script's data and then nothing has
\* failed - at every instant, so also if this process dies.
AllOrNothing ==
  opts.singleTransaction /\ NoDdl(script) =>
    \/ srv.durable = {}
    \/ srv.durable = DataStatements(script) /\ statementsFailed = 0

\* After a failure under stopOnError no further statement of the script runs.
NothingRunsAfterFailure ==
  [][statementsFailed > 0 /\ opts.stopOnError => srv'.applied = srv.applied]_vars

\* Once released, the connection belongs to its owner again: if release()
\* threw and finalize() runs a second time, it has no statement left to send.
SilentAfterRelease ==
  releases > 0 => ~transactionOpen /\ (opts.restoreSessionState => changed = {})

\* Every call settles: no statement of the cleanup is sent where no answer can
\* come, as none does once a cancellation has destroyed the socket.
Settles == <>(pc = "done")

\* A restore implements the lease (of restoreSessionState, the default).
Phase ==
  IF releases > 0 THEN "returned"
  ELSE IF pc \in {"acquire", "done"} THEN "owner" ELSE "operation"

\* What the server itself refuses to put back is not the restore's to answer for.
AsFound ==
  srv.up => /\ \A v \in Variable : PutBack(v)
            /\ srv.locked => TableLocks \in swallowed
            /\ srv.inTx => Transaction \in swallowed

Lease == INSTANCE SessionLease WITH phase <- Phase, asFound <- AsFound

ImplementsLease == Lease!Spec

-----------------------------------------------------------------------------
(* The inductive strengthening of the invariants above, by part. *)

ControlInv ==
  /\ pc \in {"execute", "retry"} => next \in DOMAIN script
  /\ pc \notin Cleanup \cup {"done"} => releases = 0 /\ swallowed = {}
  /\ pc # "done" /\ releases > 0 => releases = 1 /\ outcome = "threw"
  /\ statementsFailed > 0 /\ opts.stopOnError => pc \in Cleanup \cup {"done"}

\* What finalize() has dealt with stays dealt with.
CleanupInv ==
  /\ pc \in {"unlock", "guards", "release"} \/ releases > 0 => ~transactionOpen
  /\ pc = "release" \/ releases > 0 => (opts.restoreSessionState => changed = {})
  /\ pc \in {"unlock", "guards"} => opts.restoreSessionState

\* The code's view of the session: no transaction or lock it does not know of.
TransactionInv ==
  /\ srv.inTx => srv.up /\ (transactionOpen \/ Transaction \in swallowed)
  /\ srv.locked => srv.up

LockInv ==
  srv.locked => \/ TableLocks \in swallowed
                \/ TableLocks \in changed /\ (opts.restoreSessionState => pc # "guards")

\* No LOCK TABLES of a script stands behind a comment.
PlainLocks ==
  \A s \in Scripts : \A i \in DOMAIN s : s[i].kind = "lock" => ~s[i].commented

\* The script is still being executed: nothing of finalize() has happened.
Running == { "acquire", "use", "begin", "fetch", "execute", "retry", "commit" }

AppliedInv ==
  /\ pc \in Running => srv.applied \subseteq 1..(next - 1)
  /\ ExecutedMatchesServer

\* No restore goes on after its progress callback threw on a statement that
\* succeeded, which counts the statement as executed and as failed.
CountsOnce == \A o \in Options : o.callbackThrows => o.stopOnError

CountInv ==
  /\ pc \in Running => /\ statementsExecuted + statementsFailed = next - 1
                       /\ outcome # "completed"
  /\ pc = "commit" => next = Len(script) + 1
  /\ EveryStatementCountedOnce

\* A transaction is given up at the first error, and only DDL ends it early.
Transactional ==
  /\ \A o \in Options : o.singleTransaction => o.stopOnError
  /\ \A s \in Scripts : NoDdl(s) => \A i \in DOMAIN s : s[i].kind # "lock"

\* While it runs, everything the server executed waits for the COMMIT.
AtomicInv ==
  opts.singleTransaction /\ NoDdl(script) =>
    /\ ~srv.locked
    /\ pc \in {"acquire", "use", "begin"} => next = 1
    /\ pc = "commit" => next = Len(script) + 1
    /\ pc \in {"fetch", "execute", "retry", "commit"} =>
         transactionOpen /\ (srv.up => srv.inTx)
    /\ pc \in Running => /\ srv.durable = {}
                         /\ srv.up => srv.pending = {i \in DataStatements(script) : i < next}
    /\ AllOrNothing

-----------------------------------------------------------------------------
(* Scripts whose changes to session variables the restore can undo. *)

Sets(s, i, p) == s[i].kind = "set" /\ p \in DOMAIN s[i].assign

\* A line of the header: it saves variables of the session and assigns the
\* dump's values, and the server has no reason to refuse it.
IsHeaderLine(stmt) ==
  /\ stmt.kind = "set" /\ ~stmt.definer
  /\ \A p \in DOMAIN stmt.assign :
       stmt.assign[p] = IF p[1] = "@@" THEN Lit("dump") ELSE Sys(p[2])

\* Statement h saves v, once; statement f, if the script gets there, puts it
\* back; v is assigned only between them, by statements the patterns of v
\* recognise or after they have recognised h.
GuardedBetween(s, v, h, f) ==
  /\ h \in DOMAIN s => IsHeaderLine(s[h]) /\ Old(v) \in DOMAIN s[h].assign
  /\ f \in DOMAIN s => s[f].kind = "set" /\ PutsBack(s[f], v)
  /\ \A i \in DOMAIN s :
       /\ Sets(s, i, Old(v)) => i = h
       /\ Sets(s, i, Sys(v)) => /\ h <= i /\ i <= f
                                /\ i < f => /\ ~PutsBack(s[i], v)
                                            /\ Changes(s[i], v) \/ Changes(s[h], v)

\* A variable the script leaves alone has its save and its end behind the script.
Guarded(s, v) ==
  \E h \in 1..(Len(s) + 1) : \E f \in (h + 1)..(Len(s) + 2) : GuardedBetween(s, v, h, f)

AllGuarded == \A s \in Scripts : \A v \in Variable : Guarded(s, v)

\* The saved value is good for as long as the restore relies on it.
VariableInv(v) ==
  srv.up => /\ v \in changed => srv.env[Old(v)] = "caller"
            /\ v \notin changed => PutBack(v)
            /\ pc = "guards" /\ (\A i \in DOMAIN GuardOrder : i >= guard => GuardOrder[i] # v)
                 => PutBack(v)

PositionInv(v, h, f) ==
  pc \in Running =>
    /\ next <= h => v \notin changed
    /\ srv.up /\ h < next => srv.env[Old(v)] = "caller"
    /\ srv.up /\ h < next /\ next <= f /\ Changes(script[h], v) => v \in changed

GuardsInv ==
  /\ pc = "retry" => st.definer
  /\ pc # "guards" => guard = 1
  /\ \A v \in Variable :
       /\ VariableInv(v)
       /\ \A h \in 1..(Len(script) + 1) : \A f \in (h + 1)..(Len(script) + 2) :
            GuardedBetween(script, v, h, f) => PositionInv(v, h, f)

\* The connection as it was acquired, until anything is sent on it.
OwnerInv ==
  releases = 0 /\ pc \in {"acquire", "done"} =>
    VariablesAsFound(srv) /\ ~srv.locked /\ ~srv.inTx

\* Every caller lets the restore put the session back.
AllRestore == \A o \in Options : o.restoreSessionState
=============================================================================
