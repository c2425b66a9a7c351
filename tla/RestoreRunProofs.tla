-------------------------- MODULE RestoreRunProofs --------------------------
(***************************************************************************)
(* What holds of RestoreRun for every script, every options, every bound,  *)
(* and of the dumps DumpScript renders, whatever they hold.                *)
(***************************************************************************)
EXTENDS RestoreRun, DumpScript, FiniteSetTheorems, SequenceTheorems, WellFoundedInduction, TLAPS

\* Every operator on sessions yields a session.
LEMMA SessionOperators ==
  ASSUME NEW D, NEW s \in Session(D)
  PROVE  /\ CommitTx(s) \in Session(D)
         /\ RollbackTx(s) \in Session(D)
         /\ BeginTx(s) \in Session(D)
         /\ UnlockTables(s) \in Session(D)
         /\ Disconnect(s) \in Session(D)
         /\ \A v \in Variable : RestoreVariable(s, v) \in Session(D)
<1>1. CommitTx(s) \in Session(D) /\ RollbackTx(s) \in Session(D)
  BY DEF Session, CommitTx, RollbackTx
<1>2. BeginTx(s) \in Session(D) /\ UnlockTables(s) \in Session(D) /\ Disconnect(s) \in Session(D)
  BY <1>1 DEF Session, BeginTx, UnlockTables, Disconnect
<1>3. ASSUME NEW v \in Variable PROVE RestoreVariable(s, v) \in Session(D)
  <2>1. Old(v) \in Place /\ s.env[Old(v)] \in Value
    BY DEF Old, Place, Scope, Session
  <2>2. CleanupValue(s.env, v) \in Value
    BY <2>1 DEF CleanupValue, Value
  <2>3. s.env \in [Place -> Value]
    BY DEF Session
  <2>4. [s.env EXCEPT ![Sys(v)] = CleanupValue(s.env, v)] \in [Place -> Value]
    BY <2>2, <2>3
  <2>. QED BY <2>4 DEF RestoreVariable, Session
<1>. QED BY <1>1, <1>2, <1>3

\* A SET assigns values.
LEMMA AssignType ==
  ASSUME NEW D, NEW s \in Session(D), NEW stmt, IsStatement(stmt)
  PROVE  Assign(s, stmt.assign) \in Session(D)
<1>1. ASSUME NEW p \in DOMAIN stmt.assign PROVE Read(s.env, stmt.assign[p]) \in Value
  <2>1. stmt.assign[p] \in Source
    BY DEF IsStatement
  <2>2. CASE stmt.assign[p] \in Place
    <3>1. stmt.assign[p][1] # "="
      BY <2>2 DEF Place, Scope
    <3>. QED BY <2>2, <3>1 DEF Read, Session
  <2>3. CASE stmt.assign[p] \in {"="} \X Value
    BY <2>3 DEF Read
  <2>. QED BY <2>1, <2>2, <2>3 DEF Source
<1>2. [p \in Place |-> IF p \in DOMAIN stmt.assign THEN Read(s.env, stmt.assign[p])
                                                   ELSE s.env[p]] \in [Place -> Value]
  BY <1>1 DEF Session
<1>. QED BY <1>2 DEF Assign, Session

LEMMA ApplyType ==
  ASSUME NEW D, NEW s \in Session(D), NEW stmt, IsStatement(stmt), NEW i \in D
  PROVE  Apply(s, stmt, i) \in Session(D)
<1>1. Effect(s, stmt, i) \in Session(D)
  <2>c. CommitTx(s) \in Session(D)
    BY SessionOperators
  <2>1. CASE stmt.kind = "set"
    BY <2>1, AssignType DEF Effect
  <2>2. CASE stmt.kind = "lock"
    BY <2>2, <2>c DEF Effect, Session
  <2>3. CASE stmt.kind = "unlock"
    BY <2>3, SessionOperators DEF Effect
  <2>4. CASE stmt.kind = "ddl"
    BY <2>4, <2>c DEF Effect, Session
  <2>5. CASE stmt.kind \in {"dml", "use"}
    BY <2>5 DEF Effect, Session
  <2>. QED BY <2>1, <2>2, <2>3, <2>4, <2>5 DEF IsStatement, Kind
<1>. QED BY <1>1 DEF Apply, Session

\* What the operators do to the transaction, the lock and the connection.
LEMMA SessionFields ==
  ASSUME NEW D, NEW s \in Session(D)
  PROVE  /\ CommitTx(s).up = s.up /\ ~CommitTx(s).inTx /\ CommitTx(s).locked = s.locked
         /\ RollbackTx(s).up = s.up /\ ~RollbackTx(s).inTx /\ RollbackTx(s).locked = s.locked
         /\ BeginTx(s).up = s.up /\ ~BeginTx(s).locked
         /\ UnlockTables(s).up = s.up /\ ~UnlockTables(s).locked
         /\ UnlockTables(s).inTx => s.inTx
         /\ ~Disconnect(s).up /\ ~Disconnect(s).inTx /\ ~Disconnect(s).locked
         /\ CommitTx(s).applied = s.applied /\ RollbackTx(s).applied = s.applied
         /\ UnlockTables(s).applied = s.applied /\ Disconnect(s).applied = s.applied
         /\ \A v : /\ RestoreVariable(s, v).up = s.up
                  /\ RestoreVariable(s, v).inTx = s.inTx
                  /\ RestoreVariable(s, v).locked = s.locked
                  /\ RestoreVariable(s, v).applied = s.applied
BY DEF Session, CommitTx, RollbackTx, BeginTx, UnlockTables, Disconnect, RestoreVariable

\* A statement of a script opens no transaction and cuts no connection; LOCK
\* TABLES takes the lock, UNLOCK TABLES gives it back, no other touches it.
LEMMA ApplyFields ==
  ASSUME NEW D, NEW s \in Session(D), NEW stmt, IsStatement(stmt), NEW i
  PROVE  /\ Apply(s, stmt, i).up = s.up
         /\ Apply(s, stmt, i).inTx => s.inTx
         /\ Apply(s, stmt, i).locked => s.locked \/ stmt.kind = "lock"
         /\ stmt.kind = "unlock" => ~Apply(s, stmt, i).locked
<1>c. CommitTx(s) \in Session(D)
  BY SessionOperators
<1>1. CASE stmt.kind = "set"
  BY <1>1 DEF Apply, Effect, Assign, Session
<1>2. CASE stmt.kind = "lock"
  BY <1>2, <1>c, SessionFields DEF Apply, Effect, Session
<1>3. CASE stmt.kind = "unlock"
  <2>1. UnlockTables(s) \in Session(D)
    BY SessionOperators
  <2>. QED BY <1>3, <2>1, SessionFields DEF Apply, Effect, Session
<1>4. CASE stmt.kind = "ddl"
  BY <1>4, <1>c, SessionFields DEF Apply, Effect, Session
<1>5. CASE stmt.kind \in {"dml", "use"}
  BY <1>5 DEF Apply, Effect, Session
<1>. QED BY <1>1, <1>2, <1>3, <1>4, <1>5 DEF IsStatement, Kind

\* What observe() adds to and takes from the set of codes.
LEMMA ObserveType ==
  ASSUME NEW codes \in SUBSET Codes, NEW stmt, IsStatement(stmt)
  PROVE  Observe(codes, stmt) \in SUBSET Codes
BY DEF Observe, ObserveLocks, ObserveVariables, Codes

LEMMA ObserveTableLocks ==
  ASSUME NEW codes, NEW stmt, IsStatement(stmt),
         stmt.kind = "lock" => ~stmt.commented
  PROVE  /\ stmt.kind = "lock" => TableLocks \in Observe(codes, stmt)
         /\ stmt.kind # "unlock" /\ TableLocks \in codes => TableLocks \in Observe(codes, stmt)
<1>1. TableLocks \notin Variable
  BY DEF TableLocks, Variable
<1>2. TableLocks \in codes => TableLocks \in ObserveVariables(codes, stmt)
  BY <1>1 DEF ObserveVariables
<1>. QED BY <1>2 DEF Observe, ObserveLocks


\* The part of the inductive invariant that needs no hypothesis on the scripts.
Inv == TypeOK /\ ControlInv /\ CleanupInv /\ TransactionInv

LEMMA InvInit == Init => Inv
<1> SUFFICES ASSUME Init PROVE Inv
  OBVIOUS
<1>1. PICK left \in Leftovers : srv = FreshSession(left)
  BY DEF Init
<1>2. left \in Value
  BY LeftoversAssumption
<1>3. srv \in Session(DOMAIN script)
  <2>1. [p \in Place |-> IF p[1] = "@@" THEN "caller" ELSE left] \in [Place -> Value]
    BY <1>2 DEF Value
  <2>. QED BY <1>1, <2>1 DEF FreshSession, Session
<1>4. Len(script) \in Nat
  BY ScriptsAssumption DEF Init
<1>g. Len(GuardOrder) = 8
  BY DEF GuardOrder
<1>5. TypeOK
  <2>1. next \in 1..(Len(script) + 1) /\ guard \in 1..(Len(GuardOrder) + 1)
    BY <1>4, <1>g DEF Init
  <2>2. refusals \in 0..MaxRefusals /\ releases \in 0..2 /\ changed \subseteq Codes
    BY MaxRefusalsAssumption DEF Init
  <2>3. pc \in PcSet /\ outcome \in Outcome
    BY DEF Init, PcSet, Outcome
  <2>. QED BY <1>3, <2>1, <2>2, <2>3 DEF Init, TypeOK
<1>6. ControlInv /\ CleanupInv
  BY DEF Init, ControlInv, CleanupInv
<1>7. TransactionInv
  BY <1>1 DEF FreshSession, TransactionInv
<1>. QED BY <1>5, <1>6, <1>7 DEF Inv

\* Facts about the statement the restore is at.
LEMMA AtStatement ==
  ASSUME Inv, pc \in {"execute", "retry"}
  PROVE  /\ Len(script) \in Nat /\ DOMAIN script = 1..Len(script)
         /\ next \in DOMAIN script /\ IsStatement(st)
         /\ next + 1 \in 1..(Len(script) + 1)
         /\ Apply(srv, st, next) \in Session(DOMAIN script)
         /\ Apply(srv, st, next).up = srv.up
         /\ Apply(srv, st, next).inTx => srv.inTx
         /\ Observe(changed, st) \in SUBSET Codes
<1>1. script \in Scripts /\ srv \in Session(DOMAIN script) /\ changed \in SUBSET Codes
  BY DEF Inv, TypeOK
<1>2. next \in DOMAIN script
  BY DEF Inv, ControlInv
<1>3. Len(script) \in Nat /\ DOMAIN script = 1..Len(script)
  BY <1>1, ScriptsAssumption
<1>4. IsStatement(st)
  BY <1>1, <1>2, <1>3, ScriptsAssumption DEF st
<1>5. Apply(srv, st, next) \in Session(DOMAIN script)
  BY <1>1, <1>2, <1>4, ApplyType
<1>6. Apply(srv, st, next).up = srv.up /\ (Apply(srv, st, next).inTx => srv.inTx)
  BY <1>1, <1>2, <1>4, ApplyFields
<1>7. Observe(changed, st) \in SUBSET Codes
  BY <1>1, <1>4, ObserveType
<1>. QED BY <1>2, <1>3, <1>4, <1>5, <1>6, <1>7

\* Every step preserves the inductive invariant.
LEMMA RestoreGuardType ==
  ASSUME NEW D, srv \in Session(D), NEW i \in DOMAIN GuardOrder
  PROVE  RestoreVariable(srv, GuardOrder[i]) \in Session(D)
<1>1. GuardOrder[i] \in Variable
  BY DEF GuardOrder, Variable
<1>. QED BY <1>1, SessionOperators

\* A statement of the cleanup takes effect, finds no server, or is refused.
LEMMA AttemptOutcome ==
  ASSUME NEW what, NEW s, Attempt(what, s), TypeOK
  PROVE  /\ \/ srv.up /\ srv' = s /\ swallowed' = swallowed
            \/ ~srv.up /\ srv' = srv /\ swallowed' = swallowed
            \/ srv.up /\ srv' = srv /\ swallowed' = swallowed \cup {what}
         /\ refusals' \in 0..MaxRefusals
BY MaxRefusalsAssumption DEF Attempt, Refuse, TypeOK

\* What finalize() leaves alone, and what each of its steps may change.
CleanupStep == Rollback \/ CleanupUnlock \/ CleanupGuard \/ CleanupDone \/ Release

LEMMA CleanupOutcome ==
  ASSUME Inv, CleanupStep
  PROVE  /\ \/ srv' = srv /\ swallowed' = swallowed
            \/ \E w \in Codes \cup {Transaction} :
                 srv.up /\ srv' = srv /\ swallowed' = swallowed \cup {w}
            \/ Rollback /\ srv.up /\ transactionOpen /\ srv' = RollbackTx(srv)
               /\ swallowed' = swallowed
            \/ CleanupUnlock /\ srv.up /\ srv' = UnlockTables(srv) /\ swallowed' = swallowed
            \/ CleanupGuard /\ srv.up /\ swallowed' = swallowed
               /\ \E i \in DOMAIN GuardOrder : srv' = RestoreVariable(srv, GuardOrder[i])
         /\ refusals' \in 0..MaxRefusals
         /\ UNCHANGED << opts, script, next, statementsExecuted, statementsFailed, aborted,
                         destroyed >>
<1>t. TypeOK
  BY DEF Inv
<1>w. /\ TableLocks \in Codes \cup {Transaction} /\ Transaction \in Codes \cup {Transaction}
      /\ \A i \in DOMAIN GuardOrder : GuardOrder[i] \in Codes \cup {Transaction}
  BY DEF Codes, GuardOrder, Variable
<1>n. NotSent => srv' = srv /\ swallowed' = swallowed /\ refusals' \in 0..MaxRefusals
  BY <1>t DEF NotSent, TypeOK
<1>f. CleanupFrame => UNCHANGED << opts, script, next, statementsExecuted, statementsFailed,
                                   aborted, destroyed >>
  BY DEF CleanupFrame, counters, cancellation
<1>1. CASE Rollback
  <2>1. CASE transactionOpen
    <3>1. Attempt(Transaction, RollbackTx(srv)) /\ CleanupFrame
      BY <1>1, <2>1 DEF Rollback, RollbackWith
    <3>. QED BY <1>1, <1>t, <1>w, <1>f, <2>1, <3>1, AttemptOutcome
  <2>2. CASE ~transactionOpen
    <3>1. NotSent /\ CleanupFrame
      BY <1>1, <2>2 DEF Rollback, RollbackWith
    <3>. QED BY <1>n, <1>f, <3>1
  <2>. QED BY <2>1, <2>2
<1>2. CASE CleanupUnlock
  <2>1. CASE TableLocks \in changed
    <3>1. Attempt(TableLocks, UnlockTables(srv)) /\ CleanupFrame
      BY <1>2, <2>1 DEF CleanupUnlock
    <3>. QED BY <1>2, <1>t, <1>w, <1>f, <3>1, AttemptOutcome
  <2>2. CASE TableLocks \notin changed
    <3>1. NotSent /\ CleanupFrame
      BY <1>2, <2>2 DEF CleanupUnlock
    <3>. QED BY <1>n, <1>f, <3>1
  <2>. QED BY <2>1, <2>2
<1>3. CASE CleanupGuard
  <2>1. PICK i \in DOMAIN GuardOrder : Attempt(GuardOrder[i], RestoreVariable(srv, GuardOrder[i]))
    BY <1>3 DEF CleanupGuard
  <2>2. CleanupFrame
    BY <1>3 DEF CleanupGuard
  <2>. QED BY <1>3, <1>t, <1>w, <1>f, <2>1, <2>2, AttemptOutcome
<1>4. CASE CleanupDone \/ Release
  <2>1. NotSent /\ CleanupFrame
    BY <1>4 DEF CleanupDone, CleanupDoneKeeping, Release
  <2>. QED BY <1>n, <1>f, <2>1
<1>. QED BY <1>1, <1>2, <1>3, <1>4 DEF CleanupStep

\* Whatever becomes of its statements, finalize() opens, takes and runs nothing.
LEMMA CleanupFields ==
  ASSUME Inv, CleanupStep
  PROVE  /\ srv' \in Session(DOMAIN script)
         /\ swallowed \subseteq swallowed' /\ swallowed' \subseteq Codes \cup {Transaction}
         /\ srv'.up = srv.up /\ srv'.applied = srv.applied
         /\ srv'.inTx => srv.inTx
         /\ srv'.locked => srv.locked
<1>s. srv \in Session(DOMAIN script) /\ swallowed \subseteq Codes \cup {Transaction}
  BY DEF Inv, TypeOK
<1>o. /\ RollbackTx(srv) \in Session(DOMAIN script) /\ UnlockTables(srv) \in Session(DOMAIN script)
      /\ \A i \in DOMAIN GuardOrder : RestoreVariable(srv, GuardOrder[i]) \in Session(DOMAIN script)
  BY <1>s, SessionOperators, RestoreGuardType
<1>1. CASE srv' = srv
  BY <1>1, <1>s, CleanupOutcome
<1>2. CASE srv' = RollbackTx(srv) \/ srv' = UnlockTables(srv)
  BY <1>2, <1>s, <1>o, SessionFields, CleanupOutcome
<1>3. CASE \E i \in DOMAIN GuardOrder : srv' = RestoreVariable(srv, GuardOrder[i])
  <2>1. PICK i \in DOMAIN GuardOrder : srv' = RestoreVariable(srv, GuardOrder[i])
    BY <1>3
  <2>2. /\ srv'.up = srv.up /\ srv'.applied = srv.applied
        /\ srv'.inTx => srv.inTx
        /\ srv'.locked => srv.locked
    BY <1>s, <2>1, SessionFields
  <2>3. swallowed \subseteq swallowed' /\ swallowed' \subseteq Codes \cup {Transaction}
    BY <1>s, CleanupOutcome
  <2>. QED BY <1>o, <2>1, <2>2, <2>3
<1>. QED BY <1>1, <1>2, <1>3, CleanupOutcome

\* The inductive step, action by action.
LEMMA InvNext == Inv /\ [Next]_vars => Inv'
<1> SUFFICES ASSUME Inv, [Next]_vars PROVE Inv'
  OBVIOUS
<1> USE DEF Inv
<1>s. srv \in Session(DOMAIN script) /\ Len(script) \in Nat
  BY ScriptsAssumption DEF TypeOK
<1>o. /\ CommitTx(srv) \in Session(DOMAIN script)
      /\ RollbackTx(srv) \in Session(DOMAIN script)
      /\ BeginTx(srv) \in Session(DOMAIN script)
      /\ UnlockTables(srv) \in Session(DOMAIN script)
      /\ Disconnect(srv) \in Session(DOMAIN script)
  BY <1>s, SessionOperators
<1>d. /\ Disconnect(BeginTx(srv)) \in Session(DOMAIN script)
      /\ Disconnect(CommitTx(srv)) \in Session(DOMAIN script)
  BY <1>o, SessionOperators
<1>g. Len(GuardOrder) = 8 /\ DOMAIN GuardOrder = 1..8
  BY DEF GuardOrder
<1>1. CASE Acquire
  <2>1. TypeOK'
    BY <1>1, <1>s, <1>o, SessionFields, MaxRefusalsAssumption DEF Acquire, Frame, counters,
       cancellation, TypeOK, PcSet, Outcome
  <2>2. ControlInv' /\ CleanupInv'
    BY <1>1, <1>s, <1>o, SessionFields DEF Acquire, Frame, counters, cancellation, TypeOK,
       ControlInv, CleanupInv, Cleanup
  <2>3. TransactionInv'
    BY <1>1, <1>s, <1>o, SessionFields DEF Acquire, Frame, counters, cancellation, TypeOK,
       TransactionInv, CleanupInv
  <2>. QED BY <2>1, <2>2, <2>3
<1>2. CASE UseDatabase
  <2>1. TypeOK'
    <3>1. srv' \in Session(DOMAIN script) /\ opts' \in Options /\ script' = script
      BY <1>2, <1>s, <1>o, <1>d DEF UseDatabase, CallAborted, Finalize, Refuse, Frame, counters,
         cancellation, TypeOK
    <3>2. pc' \in PcSet /\ outcome' \in Outcome /\ next' \in 1..(Len(script) + 1)
      BY <1>2, <1>s, <1>o, SessionFields DEF UseDatabase, CallAborted, Finalize, Refuse, Frame,
         counters, cancellation, TypeOK, PcSet, Outcome
    <3>3. /\ transactionOpen' \in BOOLEAN /\ aborted' \in BOOLEAN
          /\ destroyed' \in BOOLEAN /\ swallowed' \subseteq Codes \cup {Transaction}
          /\ changed' \subseteq Codes /\ guard' \in 1..(Len(GuardOrder) + 1)
      BY <1>2, <1>s, <1>o, SessionFields, <1>g DEF UseDatabase, CallAborted, Finalize, Refuse,
         Frame, counters, cancellation, TypeOK
    <3>4. /\ statementsExecuted' \in Nat /\ statementsFailed' \in Nat
          /\ releases' \in 0..2 /\ refusals' \in 0..MaxRefusals
      BY <1>2, <1>s, <1>o, SessionFields, MaxRefusalsAssumption DEF UseDatabase, CallAborted,
         Finalize, Refuse, Frame, counters, cancellation, TypeOK, ControlInv
    <3>. QED BY <3>1, <3>2, <3>3, <3>4 DEF TypeOK
  <2>2. ControlInv' /\ CleanupInv'
    BY <1>2, <1>s, <1>o, SessionFields DEF UseDatabase, CallAborted, Finalize, Refuse, Frame,
       counters, cancellation, TypeOK, ControlInv, CleanupInv, Cleanup
  <2>3. TransactionInv'
    BY <1>2, <1>s, <1>o, SessionFields DEF UseDatabase, CallAborted, Finalize, Refuse, Frame,
       counters, cancellation, TypeOK, TransactionInv, CleanupInv
  <2>. QED BY <2>1, <2>2, <2>3
<1>3. CASE StartTransaction
  <2>1. TypeOK'
    <3>1. srv' \in Session(DOMAIN script) /\ opts' \in Options /\ script' = script
      BY <1>3, <1>s, <1>o, <1>d DEF StartTransaction, CallAborted, Finalize, Frame, counters,
         cancellation, TypeOK
    <3>2. pc' \in PcSet /\ outcome' \in Outcome /\ next' \in 1..(Len(script) + 1)
      BY <1>3, <1>s, <1>o, SessionFields DEF StartTransaction, CallAborted, Finalize, Frame,
         counters, cancellation, TypeOK, PcSet, Outcome
    <3>3. /\ transactionOpen' \in BOOLEAN /\ aborted' \in BOOLEAN
          /\ destroyed' \in BOOLEAN /\ swallowed' \subseteq Codes \cup {Transaction}
          /\ changed' \subseteq Codes /\ guard' \in 1..(Len(GuardOrder) + 1)
      BY <1>3, <1>s, <1>o, SessionFields, <1>g DEF StartTransaction, CallAborted, Finalize, Frame,
         counters, cancellation, TypeOK
    <3>4. /\ statementsExecuted' \in Nat /\ statementsFailed' \in Nat
          /\ releases' \in 0..2 /\ refusals' \in 0..MaxRefusals
      BY <1>3, <1>s, <1>o, SessionFields, MaxRefusalsAssumption DEF StartTransaction, CallAborted,
         Finalize, Frame, counters, cancellation, TypeOK, ControlInv
    <3>. QED BY <3>1, <3>2, <3>3, <3>4 DEF TypeOK
  <2>2. ControlInv' /\ CleanupInv'
    BY <1>3, <1>s, <1>o, SessionFields DEF StartTransaction, CallAborted, Finalize, Frame,
       counters, cancellation, TypeOK, ControlInv, CleanupInv, Cleanup
  <2>3. TransactionInv'
    BY <1>3, <1>s, <1>o, SessionFields DEF StartTransaction, CallAborted, Finalize, Frame,
       counters, cancellation, TypeOK, TransactionInv, CleanupInv
  <2>. QED BY <2>1, <2>2, <2>3
<1>4. CASE Fetch
  <2>1. TypeOK'
    BY <1>4, <1>s, <1>o, SessionFields, MaxRefusalsAssumption DEF Fetch, Finalize, Frame,
       counters, cancellation, TypeOK, PcSet, Outcome
  <2>2. ControlInv' /\ CleanupInv'
    BY <1>4, <1>s, <1>o, SessionFields DEF Fetch, Finalize, Frame, counters, cancellation, TypeOK,
       ControlInv, CleanupInv, Cleanup
  <2>3. TransactionInv'
    BY <1>4, <1>s, <1>o, SessionFields DEF Fetch, Finalize, Frame, counters, cancellation, TypeOK,
       TransactionInv, CleanupInv
  <2>. QED BY <2>1, <2>2, <2>3
<1>5. CASE ExecuteSucceeds
  <2>a. /\ next + 1 \in 1..(Len(script) + 1) /\ next \in 1..(Len(script) + 1)
        /\ Apply(srv, st, next) \in Session(DOMAIN script)
        /\ Disconnect(Apply(srv, st, next)) \in Session(DOMAIN script)
        /\ Apply(srv, st, next).up = srv.up
        /\ Apply(srv, st, next).inTx => srv.inTx
        /\ Observe(changed, st) \subseteq Codes
    <3>1. pc \in {"execute", "retry"}
      BY <1>5 DEF ExecuteSucceeds
    <3>. QED BY <3>1, AtStatement, SessionOperators DEF TypeOK
  <2>1. TypeOK'
    <3>1. srv' \in Session(DOMAIN script) /\ opts' \in Options /\ script' = script
      BY <1>5, <1>s, <1>o, <1>d, <2>a DEF ExecuteSucceeds, StatementFailed, Advance, Finalize,
         CountExecuted, Frame, counters, cancellation, TypeOK
    <3>2. pc' \in PcSet /\ outcome' \in Outcome /\ next' \in 1..(Len(script) + 1)
      BY <1>5, <1>s, <1>o, <1>d, <2>a DEF ExecuteSucceeds, StatementFailed, Advance, Finalize,
         CountExecuted, Frame, counters, cancellation, TypeOK, PcSet, Outcome
    <3>3. /\ transactionOpen' \in BOOLEAN /\ aborted' \in BOOLEAN
          /\ destroyed' \in BOOLEAN /\ swallowed' \subseteq Codes \cup {Transaction}
          /\ changed' \subseteq Codes /\ guard' \in 1..(Len(GuardOrder) + 1)
      BY <1>5, <1>s, <1>o, <1>d, <2>a, <1>g DEF ExecuteSucceeds, StatementFailed, Advance,
         Finalize, CountExecuted, Frame, counters, cancellation, TypeOK
    <3>4. /\ statementsExecuted' \in Nat /\ statementsFailed' \in Nat
          /\ releases' \in 0..2 /\ refusals' \in 0..MaxRefusals
      BY <1>5, <1>s, <1>o, <1>d, <2>a, MaxRefusalsAssumption DEF ExecuteSucceeds, StatementFailed,
         Advance, Finalize, CountExecuted, Frame, counters, cancellation, TypeOK, ControlInv
    <3>. QED BY <3>1, <3>2, <3>3, <3>4 DEF TypeOK
  <2>2. ControlInv' /\ CleanupInv'
    BY <1>5, <1>s, <1>o, SessionFields, <2>a DEF ExecuteSucceeds, StatementFailed, Advance,
       Finalize, CountExecuted, Frame, counters, cancellation, TypeOK, ControlInv, CleanupInv,
       Cleanup
  <2>3. TransactionInv'
    BY <1>5, <1>s, <1>o, SessionFields, <2>a DEF ExecuteSucceeds, StatementFailed, Advance,
       Finalize, CountExecuted, Frame, counters, cancellation, TypeOK, TransactionInv, CleanupInv
  <2>. QED BY <2>1, <2>2, <2>3
<1>6. CASE ExecuteFails
  <2>a. /\ next + 1 \in 1..(Len(script) + 1) /\ next \in 1..(Len(script) + 1)
        /\ Apply(srv, st, next) \in Session(DOMAIN script)
        /\ Disconnect(Apply(srv, st, next)) \in Session(DOMAIN script)
        /\ Apply(srv, st, next).up = srv.up
        /\ Apply(srv, st, next).inTx => srv.inTx
        /\ Observe(changed, st) \subseteq Codes
    <3>1. pc \in {"execute", "retry"}
      BY <1>6 DEF ExecuteFails
    <3>. QED BY <3>1, AtStatement, SessionOperators DEF TypeOK
  <2>1. TypeOK'
    <3>1. srv' \in Session(DOMAIN script) /\ opts' \in Options /\ script' = script
      BY <1>6, <1>s, <1>o, <1>d, <2>a DEF ExecuteFails, StatementFailed, Advance, Finalize,
         Refuse, Frame, counters, cancellation, TypeOK
    <3>2. pc' \in PcSet /\ outcome' \in Outcome /\ next' \in 1..(Len(script) + 1)
      BY <1>6, <1>s, <1>o, <1>d, <2>a DEF ExecuteFails, StatementFailed, Advance, Finalize,
         Refuse, Frame, counters, cancellation, TypeOK, PcSet, Outcome
    <3>3. /\ transactionOpen' \in BOOLEAN /\ aborted' \in BOOLEAN
          /\ destroyed' \in BOOLEAN /\ swallowed' \subseteq Codes \cup {Transaction}
          /\ changed' \subseteq Codes /\ guard' \in 1..(Len(GuardOrder) + 1)
      BY <1>6, <1>s, <1>o, <1>d, <2>a, <1>g DEF ExecuteFails, StatementFailed, Advance, Finalize,
         Refuse, Frame, counters, cancellation, TypeOK
    <3>4. /\ statementsExecuted' \in Nat /\ statementsFailed' \in Nat
          /\ releases' \in 0..2 /\ refusals' \in 0..MaxRefusals
      BY <1>6, <1>s, <1>o, <1>d, <2>a, MaxRefusalsAssumption DEF ExecuteFails, StatementFailed,
         Advance, Finalize, Refuse, Frame, counters, cancellation, TypeOK, ControlInv
    <3>. QED BY <3>1, <3>2, <3>3, <3>4 DEF TypeOK
  <2>2. ControlInv' /\ CleanupInv'
    BY <1>6, <1>s, <1>o, SessionFields, <2>a DEF ExecuteFails, StatementFailed, Advance, Finalize,
       Refuse, Frame, counters, cancellation, TypeOK, ControlInv, CleanupInv, Cleanup
  <2>3. TransactionInv'
    BY <1>6, <1>s, <1>o, SessionFields, <2>a DEF ExecuteFails, StatementFailed, Advance, Finalize,
       Refuse, Frame, counters, cancellation, TypeOK, TransactionInv, CleanupInv
  <2>. QED BY <2>1, <2>2, <2>3
<1>7. CASE ExecuteFailsOnDefiner
  <2>a. /\ next + 1 \in 1..(Len(script) + 1) /\ next \in 1..(Len(script) + 1)
        /\ Apply(srv, st, next) \in Session(DOMAIN script)
        /\ Disconnect(Apply(srv, st, next)) \in Session(DOMAIN script)
        /\ Apply(srv, st, next).up = srv.up
        /\ Apply(srv, st, next).inTx => srv.inTx
        /\ Observe(changed, st) \subseteq Codes
    <3>1. pc \in {"execute", "retry"}
      BY <1>7 DEF ExecuteFailsOnDefiner
    <3>. QED BY <3>1, AtStatement, SessionOperators DEF TypeOK
  <2>1. TypeOK'
    <3>1. srv' \in Session(DOMAIN script) /\ opts' \in Options /\ script' = script
      BY <1>7, <1>s, <1>o, <1>d, <2>a DEF ExecuteFailsOnDefiner, StatementFailed, Advance,
         Finalize, Refuse, Frame, counters, cancellation, TypeOK
    <3>2. pc' \in PcSet /\ outcome' \in Outcome /\ next' \in 1..(Len(script) + 1)
      BY <1>7, <1>s, <1>o, <1>d, <2>a DEF ExecuteFailsOnDefiner, StatementFailed, Advance,
         Finalize, Refuse, Frame, counters, cancellation, TypeOK, PcSet, Outcome
    <3>3. /\ transactionOpen' \in BOOLEAN /\ aborted' \in BOOLEAN
          /\ destroyed' \in BOOLEAN /\ swallowed' \subseteq Codes \cup {Transaction}
          /\ changed' \subseteq Codes /\ guard' \in 1..(Len(GuardOrder) + 1)
      BY <1>7, <1>s, <1>o, <1>d, <2>a, <1>g DEF ExecuteFailsOnDefiner, StatementFailed, Advance,
         Finalize, Refuse, Frame, counters, cancellation, TypeOK
    <3>4. /\ statementsExecuted' \in Nat /\ statementsFailed' \in Nat
          /\ releases' \in 0..2 /\ refusals' \in 0..MaxRefusals
      BY <1>7, <1>s, <1>o, <1>d, <2>a, MaxRefusalsAssumption DEF ExecuteFailsOnDefiner,
         StatementFailed, Advance, Finalize, Refuse, Frame, counters, cancellation, TypeOK,
         ControlInv
    <3>. QED BY <3>1, <3>2, <3>3, <3>4 DEF TypeOK
  <2>2. ControlInv' /\ CleanupInv'
    BY <1>7, <1>s, <1>o, SessionFields, <2>a DEF ExecuteFailsOnDefiner, StatementFailed, Advance,
       Finalize, Refuse, Frame, counters, cancellation, TypeOK, ControlInv, CleanupInv, Cleanup
  <2>3. TransactionInv'
    BY <1>7, <1>s, <1>o, SessionFields, <2>a DEF ExecuteFailsOnDefiner, StatementFailed, Advance,
       Finalize, Refuse, Frame, counters, cancellation, TypeOK, TransactionInv, CleanupInv
  <2>. QED BY <2>1, <2>2, <2>3
<1>8. CASE ExecuteAborted
  <2>a. /\ next + 1 \in 1..(Len(script) + 1) /\ next \in 1..(Len(script) + 1)
        /\ Apply(srv, st, next) \in Session(DOMAIN script)
        /\ Disconnect(Apply(srv, st, next)) \in Session(DOMAIN script)
        /\ Apply(srv, st, next).up = srv.up
        /\ Apply(srv, st, next).inTx => srv.inTx
        /\ Observe(changed, st) \subseteq Codes
    <3>1. pc \in {"execute", "retry"}
      BY <1>8 DEF ExecuteAborted
    <3>. QED BY <3>1, AtStatement, SessionOperators DEF TypeOK
  <2>1. TypeOK'
    <3>1. srv' \in Session(DOMAIN script) /\ opts' \in Options /\ script' = script
      BY <1>8, <1>s, <1>o, <1>d, <2>a DEF ExecuteAborted, CallAborted, Finalize, Frame, counters,
         cancellation, TypeOK
    <3>2. pc' \in PcSet /\ outcome' \in Outcome /\ next' \in 1..(Len(script) + 1)
      BY <1>8, <1>s, <1>o, <1>d, <2>a DEF ExecuteAborted, CallAborted, Finalize, Frame, counters,
         cancellation, TypeOK, PcSet, Outcome
    <3>3. /\ transactionOpen' \in BOOLEAN /\ aborted' \in BOOLEAN
          /\ destroyed' \in BOOLEAN /\ swallowed' \subseteq Codes \cup {Transaction}
          /\ changed' \subseteq Codes /\ guard' \in 1..(Len(GuardOrder) + 1)
      BY <1>8, <1>s, <1>o, <1>d, <2>a, <1>g DEF ExecuteAborted, CallAborted, Finalize, Frame,
         counters, cancellation, TypeOK
    <3>4. /\ statementsExecuted' \in Nat /\ statementsFailed' \in Nat
          /\ releases' \in 0..2 /\ refusals' \in 0..MaxRefusals
      BY <1>8, <1>s, <1>o, <1>d, <2>a, MaxRefusalsAssumption DEF ExecuteAborted, CallAborted,
         Finalize, Frame, counters, cancellation, TypeOK, ControlInv
    <3>. QED BY <3>1, <3>2, <3>3, <3>4 DEF TypeOK
  <2>2. ControlInv' /\ CleanupInv'
    BY <1>8, <1>s, <1>o, SessionFields, <2>a DEF ExecuteAborted, CallAborted, Finalize, Frame,
       counters, cancellation, TypeOK, ControlInv, CleanupInv, Cleanup
  <2>3. TransactionInv'
    BY <1>8, <1>s, <1>o, SessionFields, <2>a DEF ExecuteAborted, CallAborted, Finalize, Frame,
       counters, cancellation, TypeOK, TransactionInv, CleanupInv
  <2>. QED BY <2>1, <2>2, <2>3
<1>9. CASE Retry
  <2>a. /\ next + 1 \in 1..(Len(script) + 1) /\ next \in 1..(Len(script) + 1)
        /\ Apply(srv, st, next) \in Session(DOMAIN script)
        /\ Disconnect(Apply(srv, st, next)) \in Session(DOMAIN script)
        /\ Apply(srv, st, next).up = srv.up
        /\ Apply(srv, st, next).inTx => srv.inTx
        /\ Observe(changed, st) \subseteq Codes
    <3>1. pc \in {"execute", "retry"}
      BY <1>9 DEF Retry
    <3>. QED BY <3>1, AtStatement, SessionOperators DEF TypeOK
  <2>1. TypeOK'
    <3>1. srv' \in Session(DOMAIN script) /\ opts' \in Options /\ script' = script
      BY <1>9, <1>s, <1>o, <1>d, <2>a DEF Retry, StatementFailed, Advance, Finalize,
         CountExecuted, CallAborted, Refuse, Frame, counters, cancellation, TypeOK
    <3>2. pc' \in PcSet /\ outcome' \in Outcome /\ next' \in 1..(Len(script) + 1)
      BY <1>9, <1>s, <1>o, <1>d, <2>a DEF Retry, StatementFailed, Advance, Finalize,
         CountExecuted, CallAborted, Refuse, Frame, counters, cancellation, TypeOK, PcSet, Outcome
    <3>3. /\ transactionOpen' \in BOOLEAN /\ aborted' \in BOOLEAN
          /\ destroyed' \in BOOLEAN /\ swallowed' \subseteq Codes \cup {Transaction}
          /\ changed' \subseteq Codes /\ guard' \in 1..(Len(GuardOrder) + 1)
      BY <1>9, <1>s, <1>o, <1>d, <2>a, <1>g DEF Retry, StatementFailed, Advance, Finalize,
         CountExecuted, CallAborted, Refuse, Frame, counters, cancellation, TypeOK
    <3>4. /\ statementsExecuted' \in Nat /\ statementsFailed' \in Nat
          /\ releases' \in 0..2 /\ refusals' \in 0..MaxRefusals
      BY <1>9, <1>s, <1>o, <1>d, <2>a, MaxRefusalsAssumption DEF Retry, StatementFailed, Advance,
         Finalize, CountExecuted, CallAborted, Refuse, Frame, counters, cancellation, TypeOK,
         ControlInv
    <3>. QED BY <3>1, <3>2, <3>3, <3>4 DEF TypeOK
  <2>2. ControlInv' /\ CleanupInv'
    BY <1>9, <1>s, <1>o, SessionFields, <2>a DEF Retry, StatementFailed, Advance, Finalize,
       CountExecuted, CallAborted, Refuse, Frame, counters, cancellation, TypeOK, ControlInv,
       CleanupInv, Cleanup
  <2>3. TransactionInv'
    BY <1>9, <1>s, <1>o, SessionFields, <2>a DEF Retry, StatementFailed, Advance, Finalize,
       CountExecuted, CallAborted, Refuse, Frame, counters, cancellation, TypeOK, TransactionInv,
       CleanupInv
  <2>. QED BY <2>1, <2>2, <2>3
<1>10. CASE Commit
  <2>1. TypeOK'
    <3>1. srv' \in Session(DOMAIN script) /\ opts' \in Options /\ script' = script
      BY <1>10, <1>s, <1>o, <1>d DEF Commit, CallAborted, Finalize, Frame, counters, cancellation,
         TypeOK
    <3>2. pc' \in PcSet /\ outcome' \in Outcome /\ next' \in 1..(Len(script) + 1)
      BY <1>10, <1>s, <1>o, SessionFields DEF Commit, CallAborted, Finalize, Frame, counters,
         cancellation, TypeOK, PcSet, Outcome
    <3>3. /\ transactionOpen' \in BOOLEAN /\ aborted' \in BOOLEAN
          /\ destroyed' \in BOOLEAN /\ swallowed' \subseteq Codes \cup {Transaction}
          /\ changed' \subseteq Codes /\ guard' \in 1..(Len(GuardOrder) + 1)
      BY <1>10, <1>s, <1>o, SessionFields, <1>g DEF Commit, CallAborted, Finalize, Frame,
         counters, cancellation, TypeOK
    <3>4. /\ statementsExecuted' \in Nat /\ statementsFailed' \in Nat
          /\ releases' \in 0..2 /\ refusals' \in 0..MaxRefusals
      BY <1>10, <1>s, <1>o, SessionFields, MaxRefusalsAssumption DEF Commit, CallAborted,
         Finalize, Frame, counters, cancellation, TypeOK, ControlInv
    <3>. QED BY <3>1, <3>2, <3>3, <3>4 DEF TypeOK
  <2>2. ControlInv' /\ CleanupInv'
    BY <1>10, <1>s, <1>o, SessionFields DEF Commit, CallAborted, Finalize, Frame, counters,
       cancellation, TypeOK, ControlInv, CleanupInv, Cleanup
  <2>3. TransactionInv'
    BY <1>10, <1>s, <1>o, SessionFields DEF Commit, CallAborted, Finalize, Frame, counters,
       cancellation, TypeOK, TransactionInv, CleanupInv
  <2>. QED BY <2>1, <2>2, <2>3
<1>c. ASSUME CleanupStep PROVE TypeOK' /\ (srv'.inTx => srv.inTx) /\ (srv'.locked => srv'.up)
  <2>1. /\ srv' \in Session(DOMAIN script) /\ opts' \in Options /\ script' = script
        /\ swallowed' \subseteq Codes \cup {Transaction} /\ refusals' \in 0..MaxRefusals
        /\ next' = next /\ aborted' = aborted /\ destroyed' = destroyed
        /\ statementsExecuted' = statementsExecuted /\ statementsFailed' = statementsFailed
    BY <1>c, CleanupOutcome, CleanupFields DEF TypeOK
  <2>2. pc' \in PcSet /\ outcome' \in Outcome /\ transactionOpen' \in BOOLEAN
    BY <1>c DEF CleanupStep, Rollback, RollbackWith, AfterRollback, CleanupUnlock, CleanupGuard,
                CleanupDone, CleanupDoneKeeping, Release, TypeOK, PcSet, Outcome
  <2>3. changed' \subseteq Codes /\ guard' \in 1..(Len(GuardOrder) + 1)
    BY <1>c, <1>g DEF CleanupStep, Rollback, RollbackWith, CleanupUnlock, CleanupGuard,
                GuardIsBehind, CleanupDone, CleanupDoneKeeping, Release, TypeOK
  <2>4. releases' \in 0..2
    BY <1>c DEF CleanupStep, Rollback, RollbackWith, CleanupUnlock, CleanupGuard, CleanupDone,
                CleanupDoneKeeping, Release, TypeOK, ControlInv
  <2>5. (srv'.inTx => srv.inTx) /\ (srv'.locked => srv'.up)
    BY <1>c, CleanupFields DEF TransactionInv
  <2>. QED BY <2>1, <2>2, <2>3, <2>4, <2>5 DEF TypeOK
<1>11. CASE Rollback
  <2>1. TypeOK'
    BY <1>11, <1>c DEF CleanupStep
  <2>2. ControlInv' /\ CleanupInv'
    BY <1>11, CleanupOutcome
       DEF CleanupStep, Rollback, RollbackWith, AfterRollback, ControlInv, CleanupInv, Cleanup
  <2>3. srv'.inTx => Transaction \in swallowed'
    <3>1. CASE transactionOpen
      <4>1. Attempt(Transaction, RollbackTx(srv))
        BY <1>11, <3>1 DEF Rollback, RollbackWith
      <4>2. ~RollbackTx(srv).inTx
        BY <1>s, SessionFields
      <4>. QED BY <4>1, <4>2, AttemptOutcome DEF TransactionInv
    <3>2. CASE ~transactionOpen
      BY <1>11, <3>2 DEF Rollback, RollbackWith, NotSent, TransactionInv
    <3>. QED BY <3>1, <3>2
  <2>4. srv'.inTx => srv'.up
    BY <1>11, CleanupFields DEF CleanupStep, TransactionInv
  <2>5. TransactionInv'
    BY <1>11, <1>c, <2>3, <2>4 DEF CleanupStep, TransactionInv
  <2>. QED BY <2>1, <2>2, <2>5
<1>12. CASE CleanupUnlock \/ CleanupGuard \/ CleanupDone \/ Release
  <2>1. TypeOK'
    BY <1>12, <1>c DEF CleanupStep
  <2>2. ControlInv' /\ CleanupInv'
    <3>1. CASE CleanupUnlock
      BY <3>1, CleanupOutcome DEF CleanupStep, CleanupUnlock, ControlInv, CleanupInv, Cleanup
    <3>2. CASE CleanupGuard
      BY <3>2, CleanupOutcome DEF CleanupStep, CleanupGuard, ControlInv, CleanupInv, Cleanup
    <3>3. CASE CleanupDone
      BY <3>3, CleanupOutcome
         DEF CleanupStep, CleanupDone, CleanupDoneKeeping, ControlInv, CleanupInv, Cleanup
    <3>4. CASE Release
      BY <3>4, CleanupOutcome DEF CleanupStep, Release, ControlInv, CleanupInv, Cleanup, TypeOK
    <3>. QED BY <1>12, <3>1, <3>2, <3>3, <3>4
  <2>3. TransactionInv'
    <3>1. transactionOpen' = transactionOpen
      BY <1>12 DEF CleanupUnlock, CleanupGuard, CleanupDone, CleanupDoneKeeping, Release
    <3>2. swallowed \subseteq swallowed' /\ srv'.up = srv.up
      BY <1>12, CleanupFields DEF CleanupStep
    <3>. QED BY <1>12, <1>c, <3>1, <3>2 DEF CleanupStep, TransactionInv
  <2>. QED BY <2>1, <2>2, <2>3
<1>13. CASE Abort
  <2>1. TypeOK'
    BY <1>13, <1>s, <1>o, SessionFields, MaxRefusalsAssumption DEF Abort, Frame, counters,
       cancellation, TypeOK, PcSet, Outcome
  <2>2. ControlInv' /\ CleanupInv'
    BY <1>13, <1>s, <1>o, SessionFields DEF Abort, Frame, counters, cancellation, TypeOK,
       ControlInv, CleanupInv, Cleanup
  <2>3. TransactionInv'
    BY <1>13, <1>s, <1>o, SessionFields DEF Abort, Frame, counters, cancellation, TypeOK,
       TransactionInv, CleanupInv
  <2>. QED BY <2>1, <2>2, <2>3
<1>14. CASE LoseConnection
  <2>1. TypeOK'
    BY <1>14, <1>s, <1>o, SessionFields, MaxRefusalsAssumption DEF LoseConnection, Frame,
       counters, cancellation, TypeOK, PcSet, Outcome
  <2>2. ControlInv' /\ CleanupInv'
    BY <1>14, <1>s, <1>o, SessionFields DEF LoseConnection, Frame, counters, cancellation, TypeOK,
       ControlInv, CleanupInv, Cleanup
  <2>3. TransactionInv'
    BY <1>14, <1>s, <1>o, SessionFields DEF LoseConnection, Frame, counters, cancellation, TypeOK,
       TransactionInv, CleanupInv
  <2>. QED BY <2>1, <2>2, <2>3
<1>15. CASE UNCHANGED vars
  BY <1>15 DEF vars, counters, cancellation, TypeOK, ControlInv, CleanupInv, TransactionInv, st
<1>. QED
  BY <1>1, <1>2, <1>3, <1>4, <1>5, <1>6, <1>7, <1>8, <1>9, <1>10, <1>11, <1>12, <1>13, <1>14,
     <1>15 DEF Next, Step, Terminated

LEMMA InvHolds == Spec => []Inv
<1>1. Inv /\ [Next]_vars => Inv'
  BY InvNext
<1>. QED BY InvInit, <1>1, PTL DEF Spec

\* The variables keep their types: in particular the server is never sent a
\* statement outside the script, and release() is called at most twice.
THEOREM TypeCorrect == Spec => []TypeOK
<1>1. Inv => TypeOK
  BY DEF Inv
<1>. QED BY InvHolds, <1>1, PTL

\* A connection never goes back with a transaction open, whichever statement
\* failed, was cancelled or lost, and whatever the script commits implicitly.
THEOREM TransactionsEnd == Spec => []TransactionHandedBack
<1>1. Inv => TransactionHandedBack
  BY DEF Inv, CleanupInv, TransactionInv, TransactionHandedBack, HandedBack
<1>. QED BY InvHolds, <1>1, PTL

\* A second finalize(), after a release() that threw, has nothing to send.
THEOREM SecondFinalizeIsSilent == Spec => []SilentAfterRelease
<1>1. Inv => SilentAfterRelease
  BY DEF Inv, CleanupInv, SilentAfterRelease
<1>. QED BY InvHolds, <1>1, PTL

\* Under stopOnError no statement of the script runs after one has failed.
THEOREM StopOnErrorStops == Spec => NothingRunsAfterFailure
<1>1. ASSUME Inv, [Next]_vars
      PROVE  [statementsFailed > 0 /\ opts.stopOnError => srv'.applied = srv.applied]_vars
  <2> SUFFICES ASSUME statementsFailed > 0, opts.stopOnError, Next
               PROVE  srv'.applied = srv.applied
    BY <1>1
  <2>1. pc \in Cleanup \cup {"done"} /\ srv \in Session(DOMAIN script)
    BY <1>1 DEF Inv, ControlInv, TypeOK
  <2>2. CASE CleanupStep
    BY <1>1, <2>2, CleanupFields
  <2>3. CASE Abort \/ LoseConnection \/ Terminated
    BY <2>1, <2>3, SessionFields DEF Abort, LoseConnection, Terminated, vars
  <2>. QED
    BY <2>1, <2>2, <2>3
       DEF Next, Step, CleanupStep, Cleanup, Acquire, UseDatabase, StartTransaction, Fetch, ExecuteSucceeds,
           ExecuteFails, ExecuteFailsOnDefiner, ExecuteAborted, Retry, Commit
<1>. QED BY InvHolds, <1>1, PTL DEF Spec, NothingRunsAfterFailure

-----------------------------------------------------------------------------
LEMMA LockInvInit == Init => LockInv
BY DEF Init, LockInv, FreshSession

\* The lock the server holds is known to the code, until it is released.
LEMMA LockInvNext ==
  ASSUME PlainLocks
  PROVE  Inv /\ LockInv /\ [Next]_vars => LockInv'
<1> SUFFICES ASSUME Inv, LockInv, [Next]_vars PROVE LockInv'
  OBVIOUS
<1>s. srv \in Session(DOMAIN script)
  BY DEF Inv, TypeOK
<1>x. ASSUME pc \in {"execute", "retry"}
      PROVE  /\ Apply(srv, st, next).locked => TableLocks \in Observe(changed, st)
             /\ Disconnect(Apply(srv, st, next)).locked = FALSE
  <2>1. /\ next \in DOMAIN script /\ IsStatement(st)
        /\ Apply(srv, st, next) \in Session(DOMAIN script)
    BY <1>x, AtStatement
  <2>2. st.kind = "lock" => ~st.commented
    BY <2>1 DEF PlainLocks, Inv, TypeOK, st
  <2>3. /\ Apply(srv, st, next).locked => srv.locked \/ st.kind = "lock"
        /\ st.kind = "unlock" => ~Apply(srv, st, next).locked
    BY <1>s, <2>1, ApplyFields
  <2>4. /\ st.kind = "lock" => TableLocks \in Observe(changed, st)
        /\ st.kind # "unlock" /\ TableLocks \in changed => TableLocks \in Observe(changed, st)
    BY <2>1, <2>2, ObserveTableLocks
  <2>5. srv.locked => TableLocks \in changed
    BY <1>x DEF LockInv, Inv, ControlInv, Cleanup
  <2>. QED BY <2>1, <2>3, <2>4, <2>5, SessionFields
<1>o. /\ CommitTx(srv) \in Session(DOMAIN script) /\ BeginTx(srv) \in Session(DOMAIN script)
  BY <1>s, SessionOperators
<1>1. CASE Acquire \/ UseDatabase \/ StartTransaction \/ Fetch \/ Commit
  BY <1>1, <1>s, <1>o, SessionFields
     DEF LockInv, Acquire, UseDatabase, StartTransaction, Fetch, Commit, CallAborted, Finalize, Frame
<1>2. CASE ExecuteSucceeds
  BY <1>2, <1>x DEF LockInv, ExecuteSucceeds, StatementFailed, Advance, Finalize, Frame
<1>3. CASE ExecuteFails \/ ExecuteFailsOnDefiner
  BY <1>3, <1>x DEF LockInv, ExecuteFails, ExecuteFailsOnDefiner, StatementFailed, Advance,
                    Finalize, Frame
<1>c. ASSUME pc \in {"execute", "retry"}, CallAborted(Apply(srv, st, next)), UNCHANGED changed,
             Frame
      PROVE  LockInv'
  <2>1. Disconnect(srv).locked = FALSE
    BY <1>s, SessionFields
  <2>2. Disconnect(Apply(srv, st, next)).locked = FALSE
    BY <1>c, <1>x
  <2>3. CASE aborted
    BY <1>c, <2>3 DEF CallAborted, Finalize, LockInv, Frame
  <2>4. CASE ~aborted
    <3>1. srv' = Disconnect(srv) \/ srv' = Disconnect(Apply(srv, st, next))
      BY <1>c, <2>4 DEF CallAborted
    <3>2. srv'.locked = FALSE
      BY <2>1, <2>2, <3>1
    <3>. QED BY <3>2 DEF LockInv
  <2>. QED BY <2>3, <2>4
<1>4. CASE ExecuteAborted
  BY <1>4, <1>c DEF ExecuteAborted
<1>5. CASE Retry
  <2>1. CASE CallAborted(Apply(srv, st, next)) /\ UNCHANGED changed
    BY <1>5, <1>c, <2>1 DEF Retry
  <2>2. CASE srv' = Apply(srv, st, next) /\ changed' = Observe(changed, st) /\ pc' # "guards"
    BY <1>5, <1>x, <2>2 DEF Retry, LockInv, Frame
  <2>3. CASE (srv' = srv \/ srv' = Disconnect(Apply(srv, st, next)))
             /\ UNCHANGED changed /\ pc' # "guards"
    BY <1>5, <1>x, <2>3 DEF Retry, LockInv, Frame
  <2>. QED
    BY <1>5, <2>1, <2>2, <2>3 DEF Retry, StatementFailed, Advance, Finalize
<1>6. CASE CleanupUnlock
  <2>1. srv'.locked => TableLocks \in swallowed'
    <3>1. CASE TableLocks \in changed
      <4>1. Attempt(TableLocks, UnlockTables(srv))
        BY <1>6, <3>1 DEF CleanupUnlock
      <4>2. ~UnlockTables(srv).locked
        BY <1>s, SessionFields
      <4>. QED BY <4>1, <4>2, AttemptOutcome DEF Inv, TransactionInv
    <3>2. CASE TableLocks \notin changed
      BY <1>6, <3>2 DEF CleanupUnlock, NotSent, LockInv
    <3>. QED BY <3>1, <3>2
  <2>. QED BY <2>1 DEF LockInv
<1>7. CASE Rollback \/ CleanupGuard \/ CleanupDone \/ Release
  <2>1. /\ srv'.locked => srv.locked
        /\ swallowed \subseteq swallowed'
        /\ UNCHANGED opts
    BY <1>7, CleanupFields, CleanupOutcome DEF CleanupStep
  <2>2. CASE CleanupGuard \/ CleanupDone
    <3>1. opts.restoreSessionState /\ pc = "guards"
      BY <2>2 DEF Inv, CleanupInv, CleanupGuard, CleanupDone, CleanupDoneKeeping
    <3>. QED BY <2>1, <3>1 DEF LockInv
  <2>3. CASE Rollback \/ Release
    <3>1. UNCHANGED changed /\ pc' # "guards"
      BY <2>3 DEF Rollback, RollbackWith, AfterRollback, Release
    <3>. QED BY <2>1, <3>1 DEF LockInv
  <2>. QED BY <1>7, <2>2, <2>3
<1>8. CASE Abort \/ Terminated \/ UNCHANGED vars
  BY <1>8 DEF LockInv, Abort, Terminated, vars, Frame
<1>9. CASE LoseConnection
  BY <1>9, <1>s, SessionFields DEF LockInv, LoseConnection
<1>. QED
  BY <1>1, <1>2, <1>3, <1>4, <1>5, <1>6, <1>7, <1>8, <1>9 DEF Next, Step

\* A script whose LOCK TABLES are not behind a comment never leaves a table
\* lock on a connection that is handed back, whatever else goes wrong.
THEOREM PlainLocksAreReleased ==
  ASSUME PlainLocks
  PROVE  Spec => []LocksHandedBack
<1>1. Inv /\ LockInv /\ [Next]_vars => LockInv'
  BY LockInvNext
<1>2. Spec => []LockInv
  BY LockInvInit, InvHolds, <1>1, PTL DEF Spec
<1>3. Inv /\ LockInv => LocksHandedBack
  BY DEF Inv, CleanupInv, LockInv, LocksHandedBack, HandedBack
<1>. QED BY InvHolds, <1>2, <1>3, PTL

-----------------------------------------------------------------------------
\* A statement that runs joins the statements that ran, and no other does.
LEMMA AppliedFields ==
  ASSUME NEW D, NEW s \in Session(D), NEW stmt, IsStatement(stmt), NEW i
  PROVE  /\ Apply(s, stmt, i).applied = s.applied \cup {i}
         /\ BeginTx(s).applied = s.applied
<1>c. CommitTx(s) \in Session(D) /\ UnlockTables(s) \in Session(D)
  BY SessionOperators
<1>1. Effect(s, stmt, i).applied = s.applied /\ DOMAIN Effect(s, stmt, i) = DOMAIN s
  <2>1. CASE stmt.kind = "set"
    BY <2>1 DEF Effect, Assign, Session
  <2>2. CASE stmt.kind = "lock"
    BY <2>2, <1>c, SessionFields DEF Effect, Session
  <2>3. CASE stmt.kind = "unlock"
    BY <2>3, <1>c, SessionFields DEF Effect, Session
  <2>4. CASE stmt.kind = "ddl"
    BY <2>4, <1>c, SessionFields DEF Effect, Session
  <2>5. CASE stmt.kind \in {"dml", "use"}
    BY <2>5 DEF Effect, Session
  <2>. QED BY <2>1, <2>2, <2>3, <2>4, <2>5 DEF IsStatement, Kind
<1>2. BeginTx(s).applied = s.applied
  BY <1>c, SessionFields DEF BeginTx, Session
<1>. QED BY <1>1, <1>2 DEF Apply, Session

\* What ran is a finite set.
LEMMA AppliedFinite ==
  ASSUME Inv
  PROVE  IsFiniteSet(srv.applied) /\ Cardinality(srv.applied) \in Nat
<1>1. Len(script) \in Nat /\ DOMAIN script = 1..Len(script) /\ srv.applied \subseteq DOMAIN script
  BY ScriptsAssumption DEF Inv, TypeOK, Session
<1>2. IsFiniteSet(1..Len(script))
  BY <1>1, FS_Interval
<1>3. IsFiniteSet(srv.applied)
  BY <1>1, <1>2, FS_Subset
<1>. QED BY <1>3, FS_CardinalityType

LEMMA AppliedInvInit == Init => AppliedInv
<1> SUFFICES ASSUME Init PROVE AppliedInv
  OBVIOUS
<1>1. srv.applied = {} /\ statementsExecuted = 0 /\ next = 1
  BY DEF Init, FreshSession
<1>2. Cardinality(srv.applied) = 0
  BY <1>1, FS_EmptySet
<1>. QED BY <1>1, <1>2 DEF AppliedInv, ExecutedMatchesServer

\* No statement runs twice, and what is counted is what ran.
LEMMA AppliedInvNext == Inv /\ AppliedInv /\ [Next]_vars => AppliedInv'
<1> SUFFICES ASSUME Inv, AppliedInv, [Next]_vars PROVE AppliedInv'
  OBVIOUS
<1>s. srv \in Session(DOMAIN script) /\ next \in Nat \ {0} /\ statementsExecuted \in Nat
  BY ScriptsAssumption DEF Inv, TypeOK
<1>f. IsFiniteSet(srv.applied) /\ Cardinality(srv.applied) \in Nat
  BY AppliedFinite
<1>o. /\ CommitTx(srv) \in Session(DOMAIN script) /\ BeginTx(srv) \in Session(DOMAIN script)
      /\ BeginTx(srv).applied = srv.applied
  BY <1>s, SessionOperators DEF CommitTx, BeginTx, Session
<1>d. /\ Disconnect(srv).applied = srv.applied /\ ~Disconnect(srv).up
      /\ Disconnect(CommitTx(srv)).applied = srv.applied /\ ~Disconnect(CommitTx(srv)).up
      /\ Disconnect(BeginTx(srv)).applied = srv.applied /\ ~Disconnect(BeginTx(srv)).up
  BY <1>s, <1>o, SessionFields
\* A step that runs nothing.
<1>q. ASSUME srv'.applied = srv.applied, srv'.up => srv.up, UNCHANGED statementsExecuted,
             pc' \in Running => pc \in Running /\ next' \in {next, next + 1}
      PROVE  AppliedInv'
  <2>1. ExecutedMatchesServer'
    BY <1>q DEF AppliedInv, ExecutedMatchesServer
  <2>2. ASSUME pc' \in Running PROVE srv'.applied \subseteq 1..(next' - 1)
    <3>1. srv.applied \subseteq 1..(next - 1)
      BY <1>q, <2>2 DEF AppliedInv
    <3>. QED BY <1>q, <1>s, <2>2, <3>1
  <2>. QED BY <2>1, <2>2 DEF AppliedInv
\* A step that runs a statement, and counts it unless the connection is lost.
<1>e. ASSUME pc \in {"execute", "retry"}, srv.up,
             \/ /\ srv' = Apply(srv, st, next) /\ statementsExecuted' = statementsExecuted + 1
             \/ srv' = Disconnect(Apply(srv, st, next)) /\ UNCHANGED statementsExecuted,
             pc' \in Running => next' = next + 1
      PROVE  AppliedInv'
  <2>1. IsStatement(st) /\ Apply(srv, st, next) \in Session(DOMAIN script)
    BY <1>e, AtStatement
  <2>2. srv'.applied = srv.applied \cup {next}
    BY <1>e, <1>s, <2>1, AppliedFields, SessionFields
  <2>3. srv.applied \subseteq 1..(next - 1) /\ next \notin srv.applied
    BY <1>e, <1>s DEF AppliedInv, Running
  <2>4. Cardinality(srv'.applied) = Cardinality(srv.applied) + 1
    BY <1>f, <2>2, <2>3, FS_AddElement
  <2>5. srv'.up => statementsExecuted' = statementsExecuted + 1
    BY <1>e, <2>1, SessionFields
  <2>6. statementsExecuted = Cardinality(srv.applied)
    BY <1>e DEF AppliedInv, ExecutedMatchesServer
  <2>7. pc' \in Running => srv'.applied \subseteq 1..(next' - 1)
    BY <1>e, <1>s, <2>2, <2>3
  <2>. QED BY <1>e, <1>f, <1>s, <2>4, <2>5, <2>6, <2>7 DEF AppliedInv, ExecutedMatchesServer
<1>c. ASSUME pc \in {"execute", "retry"}, CallAborted(Apply(srv, st, next)),
             UNCHANGED << next, statementsExecuted >>
      PROVE  AppliedInv'
  <2>1. pc' = "rollback"
    BY <1>c DEF CallAborted, Finalize
  <2>2. CASE srv' = srv \/ srv' = Disconnect(srv)
    BY <1>c, <1>d, <1>q, <2>1, <2>2 DEF Running
  <2>3. CASE srv.up /\ srv' = Disconnect(Apply(srv, st, next))
    BY <1>c, <1>e, <2>1, <2>3 DEF Running
  <2>. QED BY <1>c, <2>2, <2>3 DEF CallAborted
<1>1. CASE Acquire \/ UseDatabase \/ StartTransaction \/ Fetch \/ Commit
  <2>1. /\ srv'.applied = srv.applied
        /\ srv'.up => srv.up
        /\ UNCHANGED << next, statementsExecuted >>
    BY <1>1, <1>s, <1>o, <1>d, SessionFields
       DEF Acquire, UseDatabase, StartTransaction, Fetch, Commit, CallAborted, counters, cancellation
  <2>2. pc \in Running
    BY <1>1 DEF Acquire, UseDatabase, StartTransaction, Fetch, Commit, Running
  <2>. QED BY <1>q, <2>1, <2>2
<1>2. CASE ExecuteSucceeds
  BY <1>2, <1>e DEF ExecuteSucceeds, StatementFailed, Advance, Finalize, CountExecuted, Running
<1>3. CASE ExecuteFails
  <2>1. CASE srv' = srv
    BY <1>3, <1>q, <2>1 DEF ExecuteFails, StatementFailed, Advance, Finalize, Running
  <2>2. CASE srv.up /\ srv' = Disconnect(Apply(srv, st, next))
    BY <1>3, <1>e, <2>2 DEF ExecuteFails, StatementFailed, Advance, Finalize, Running
  <2>. QED BY <1>3, <2>1, <2>2 DEF ExecuteFails
<1>4. CASE ExecuteFailsOnDefiner
  BY <1>4, <1>q DEF ExecuteFailsOnDefiner, StatementFailed, Advance, Finalize, Running
<1>5. CASE ExecuteAborted
  BY <1>5, <1>c DEF ExecuteAborted, counters, cancellation
<1>6. CASE Retry
  <2>1. CASE CallAborted(Apply(srv, st, next)) /\ UNCHANGED << next, counters >>
    BY <1>6, <1>c, <2>1 DEF Retry, counters, cancellation
  <2>2. CASE /\ srv.up /\ srv' = Apply(srv, st, next) /\ CountExecuted
             /\ Advance \/ Finalize("threw")
    BY <1>6, <1>e, <2>2 DEF Retry, Advance, Finalize, CountExecuted, Running
  <2>3. CASE srv' = srv /\ UNCHANGED statementsExecuted /\ StatementFailed
    BY <1>6, <1>q, <2>3 DEF Retry, StatementFailed, Advance, Finalize, Running
  <2>4. CASE /\ srv.up /\ srv' = Disconnect(Apply(srv, st, next))
             /\ UNCHANGED statementsExecuted /\ StatementFailed
    BY <1>6, <1>e, <2>4 DEF Retry, StatementFailed, Advance, Finalize, Running
  <2>. QED BY <1>6, <2>1, <2>2, <2>3, <2>4 DEF Retry
<1>7. CASE Rollback \/ CleanupUnlock \/ CleanupGuard \/ CleanupDone \/ Release
  <2>1. /\ srv'.applied = srv.applied /\ UNCHANGED statementsExecuted
        /\ srv'.up => srv.up
    BY <1>7, CleanupFields, CleanupOutcome DEF CleanupStep
  <2>2. pc' \notin Running
    BY <1>7 DEF Rollback, RollbackWith, AfterRollback, CleanupUnlock, CleanupGuard, CleanupDone,
                CleanupDoneKeeping, Release, Running
  <2>. QED BY <1>q, <2>1, <2>2
<1>8. CASE Abort \/ LoseConnection \/ Terminated \/ UNCHANGED vars
  BY <1>8, <1>d, <1>q DEF Abort, LoseConnection, Terminated, vars, counters, cancellation
<1>. QED
  BY <1>1, <1>2, <1>3, <1>4, <1>5, <1>6, <1>7, <1>8 DEF Next, Step

\* Whatever the scripts, the options and the failures: what a restore counts
\* as executed the server executed, and on a connection that is still up it
\* counts everything the server executed.
THEOREM CountersMatchServer == Spec => []ExecutedMatchesServer
<1>1. Inv /\ AppliedInv /\ [Next]_vars => AppliedInv'
  BY AppliedInvNext
<1>2. AppliedInv => ExecutedMatchesServer
  BY DEF AppliedInv
<1>. QED BY AppliedInvInit, InvHolds, <1>1, <1>2, PTL DEF Spec

-----------------------------------------------------------------------------
LEMMA CountInvInit == Init => CountInv
BY DEF Init, CountInv, EveryStatementCountedOnce

\* Every statement the restore leaves behind is counted, and only once.
LEMMA CountInvNext ==
  ASSUME CountsOnce
  PROVE  Inv /\ CountInv /\ [Next]_vars => CountInv'
<1> SUFFICES ASSUME Inv, CountInv, [Next]_vars PROVE CountInv'
  OBVIOUS
<1>s. /\ Len(script) \in Nat /\ DOMAIN script = 1..Len(script)
      /\ next \in 1..(Len(script) + 1) /\ next \in Nat
      /\ statementsExecuted \in Nat /\ statementsFailed \in Nat
      /\ opts.callbackThrows => opts.stopOnError
  BY ScriptsAssumption DEF Inv, TypeOK, CountsOnce
\* A step that leaves the statement where it is.
<1>q. ASSUME UNCHANGED << script, next, counters >>, pc' # "commit",
             pc' \in Running => pc \in Running /\ UNCHANGED outcome,
             outcome' = "completed" => outcome = "completed"
      PROVE  CountInv'
  BY <1>q DEF CountInv, EveryStatementCountedOnce, counters, cancellation
\* A step that deals with the statement; on another way out than to the next
\* statement the call does not complete.
<1>e. ASSUME pc \in Running, UNCHANGED << script, outcome >>, pc' = "fetch", next' = next + 1,
             \/ /\ statementsExecuted' = statementsExecuted + 1
                /\ statementsFailed' = statementsFailed
             \/ /\ statementsExecuted' = statementsExecuted
                /\ statementsFailed' = statementsFailed + 1
      PROVE  CountInv'
  <2>1. statementsExecuted + statementsFailed = next - 1 /\ outcome # "completed"
    BY <1>e DEF CountInv
  <2>2. statementsExecuted' + statementsFailed' = next' - 1
    BY <1>e, <1>s, <2>1
  <2>. QED BY <1>e, <2>1, <2>2 DEF CountInv, EveryStatementCountedOnce
<1>x. ASSUME pc' = "rollback", outcome' # "completed"
      PROVE  CountInv'
  BY <1>x DEF CountInv, EveryStatementCountedOnce, Running
<1>1. CASE Acquire
  BY <1>1, <1>q DEF Acquire, Running, Frame
<1>2. CASE UseDatabase
  BY <1>2, <1>q, <1>x DEF UseDatabase, CallAborted, Finalize, Running, Frame
<1>3. CASE StartTransaction
  BY <1>3, <1>q, <1>x DEF StartTransaction, CallAborted, Finalize, Running, Frame
<1>4. CASE Fetch
  <2>1. CASE next \notin DOMAIN script /\ pc' = "commit" /\ UNCHANGED outcome
    <3>1. UNCHANGED << script, next, counters >> /\ pc \in Running
      BY <1>4 DEF Fetch, Running, Frame
    <3>2. next = Len(script) + 1
      BY <1>s, <2>1
    <3>3. statementsExecuted + statementsFailed = next - 1 /\ outcome # "completed"
      BY <3>1 DEF CountInv
    <3>. QED BY <2>1, <3>1, <3>2, <3>3 DEF CountInv, EveryStatementCountedOnce, counters, cancellation
  <2>. QED BY <1>4, <1>q, <1>x, <2>1 DEF Fetch, Finalize, Running, Frame
<1>5. CASE ExecuteSucceeds
  <2>1. CASE Advance /\ UNCHANGED statementsFailed
    BY <1>5, <1>e, <2>1 DEF ExecuteSucceeds, Advance, CountExecuted, Running, Frame
  <2>2. CASE opts.callbackThrows /\ StatementFailed
    BY <1>5, <1>s, <1>x, <2>2 DEF StatementFailed, Finalize
  <2>. QED BY <1>5, <2>1, <2>2 DEF ExecuteSucceeds
<1>6. CASE ExecuteFails
  BY <1>6, <1>e, <1>x DEF ExecuteFails, StatementFailed, Advance, Finalize, Running, Frame
<1>7. CASE ExecuteFailsOnDefiner
  BY <1>7, <1>q, <1>e, <1>x
     DEF ExecuteFailsOnDefiner, StatementFailed, Advance, Finalize, counters, cancellation, Running, Frame
<1>8. CASE ExecuteAborted
  BY <1>8, <1>x DEF ExecuteAborted, CallAborted, Finalize
<1>9. CASE Retry
  <2>1. CASE CallAborted(Apply(srv, st, next)) \/ Finalize("threw")
    BY <1>x, <2>1 DEF CallAborted, Finalize
  <2>2. CASE CountExecuted /\ Advance /\ UNCHANGED statementsFailed
    BY <1>9, <1>e, <2>2 DEF Retry, Advance, CountExecuted, Running, Frame
  <2>3. CASE StatementFailed /\ UNCHANGED statementsExecuted
    BY <1>9, <1>e, <1>x, <2>3 DEF Retry, StatementFailed, Advance, Finalize, Running, Frame
  <2>. QED BY <1>9, <2>1, <2>2, <2>3 DEF Retry
<1>10. CASE Commit
  <2>1. next = Len(script) + 1 /\ statementsExecuted + statementsFailed = Len(script)
    <3>1. pc = "commit" /\ pc \in Running
      BY <1>10 DEF Commit, Running
    <3>2. next = Len(script) + 1 /\ statementsExecuted + statementsFailed = next - 1
      BY <3>1 DEF CountInv
    <3>3. Len(script) \in Nat
      BY <1>s
    <3>. QED BY <3>2, <3>3
  <2>2. UNCHANGED << script, next, counters >> /\ pc' = "rollback"
    BY <1>10 DEF Commit, CallAborted, Finalize, Frame
  <2>. QED BY <2>1, <2>2 DEF CountInv, EveryStatementCountedOnce, counters, cancellation, Running
<1>11. CASE Rollback \/ CleanupUnlock \/ CleanupGuard \/ CleanupDone \/ Release
  <2>1. UNCHANGED << script, next, counters >>
    BY <1>11 DEF Rollback, RollbackWith, CleanupUnlock, CleanupGuard, CleanupDone,
                 CleanupDoneKeeping, Release, CleanupFrame
  <2>. QED
    BY <1>11, <1>q, <2>1 DEF Rollback, RollbackWith, AfterRollback, CleanupUnlock, CleanupGuard,
                             CleanupDone, CleanupDoneKeeping, Release, Running
<1>12. CASE Abort \/ LoseConnection \/ Terminated \/ UNCHANGED vars
  BY <1>12 DEF Abort, LoseConnection, Terminated, vars, counters, cancellation, Frame, CountInv,
               EveryStatementCountedOnce
<1>. QED
  BY <1>1, <1>2, <1>3, <1>4, <1>5, <1>6, <1>7, <1>8, <1>9, <1>10, <1>11, <1>12 DEF Next, Step

\* Unless a caller lets the restore go on after its callback threw, a restore
\* that reaches the end of its script has counted each statement once.
THEOREM StatementsCountedOnce ==
  ASSUME CountsOnce
  PROVE  Spec => []EveryStatementCountedOnce
<1>1. Inv /\ CountInv /\ [Next]_vars => CountInv'
  BY CountInvNext
<1>2. CountInv => EveryStatementCountedOnce
  BY DEF CountInv
<1>. QED BY CountInvInit, InvHolds, <1>1, <1>2, PTL DEF Spec

-----------------------------------------------------------------------------
\* What the operators do to the data: only a commit makes it durable.
LEMMA DataFields ==
  ASSUME NEW D, NEW s \in Session(D)
  PROVE  /\ CommitTx(s).durable = s.durable \cup s.pending
         /\ BeginTx(s).durable = s.durable \cup s.pending
         /\ BeginTx(s).pending = {} /\ BeginTx(s).inTx
         /\ RollbackTx(s).durable = s.durable /\ Disconnect(s).durable = s.durable
         /\ ~s.locked => UnlockTables(s).durable = s.durable
         /\ \A v : RestoreVariable(s, v).durable = s.durable
BY DEF Session, CommitTx, RollbackTx, BeginTx, UnlockTables, Disconnect, RestoreVariable

\* Inside a transaction a statement that commits nothing only waits.
LEMMA PendingFields ==
  ASSUME NEW D, NEW s \in Session(D), s.inTx, ~s.locked,
         NEW stmt, IsStatement(stmt), stmt.kind \notin {"ddl", "lock"}, NEW i
  PROVE  /\ Apply(s, stmt, i).durable = s.durable
         /\ Apply(s, stmt, i).inTx /\ ~Apply(s, stmt, i).locked
         /\ Apply(s, stmt, i).pending = IF stmt.kind = "dml" THEN s.pending \cup {i} ELSE s.pending
<1>1. CASE stmt.kind = "set"
  BY <1>1 DEF Apply, Effect, Assign, Session
<1>2. CASE stmt.kind = "unlock"
  BY <1>2 DEF Apply, Effect, UnlockTables, Session
<1>3. CASE stmt.kind \in {"dml", "use"}
  BY <1>3 DEF Apply, Effect, Session
<1>. QED BY <1>1, <1>2, <1>3 DEF IsStatement, Kind

\* A call keeps its options and its script.
LEMMA SameCall == [Next]_vars => UNCHANGED << opts, script >>
BY DEF Next, Step, vars, Frame, Acquire, UseDatabase, StartTransaction, Fetch, ExecuteSucceeds,
       ExecuteFails, ExecuteFailsOnDefiner, ExecuteAborted, Retry, Commit, Rollback,
       RollbackWith, CleanupUnlock, CleanupGuard, CleanupDone, CleanupDoneKeeping, Release,
       Abort, LoseConnection, Terminated, CleanupFrame

\* What the server has refused stays refused; only the cleanup swallows anything.
LEMMA SwallowedGrows ==
  ASSUME Inv, [Next]_vars
  PROVE  /\ swallowed \subseteq swallowed'
         /\ swallowed' # swallowed => CleanupStep
<1>1. CASE CleanupStep
  BY <1>1, CleanupFields
<1>2. CASE ~CleanupStep
  BY <1>2 DEF CleanupStep, Next, Step, vars, Frame, Acquire, UseDatabase, StartTransaction, Fetch,
              ExecuteSucceeds, ExecuteFails, ExecuteFailsOnDefiner, ExecuteAborted, Retry, Commit,
              Abort, LoseConnection, Terminated
<1>. QED BY <1>1, <1>2

LEMMA AtomicInvInit == Init => AtomicInv
<1> SUFFICES ASSUME Init PROVE AtomicInv
  OBVIOUS
<1>1. srv.durable = {} /\ srv.pending = {} /\ ~srv.locked /\ next = 1 /\ pc = "acquire"
  BY DEF Init, FreshSession
<1>2. script \in Scripts /\ Len(script) \in Nat /\ DOMAIN script = 1..Len(script)
  BY ScriptsAssumption DEF Init
<1>3. {i \in DataStatements(script) : i < next} = {}
  BY <1>1, <1>2 DEF DataStatements
<1>. QED BY <1>1, <1>3 DEF AtomicInv, AllOrNothing

\* Until the COMMIT nothing is durable; after it, everything is.
LEMMA AtomicInvNext ==
  ASSUME Transactional
  PROVE  Inv /\ AtomicInv /\ [Next]_vars => AtomicInv'
<1> SUFFICES ASSUME Inv, AtomicInv, [Next]_vars PROVE AtomicInv'
  OBVIOUS
<1>u. UNCHANGED << opts, script >>
  BY SameCall
<1> SUFFICES ASSUME opts.singleTransaction, NoDdl(script) PROVE AtomicInv'
  BY <1>u DEF AtomicInv, AllOrNothing
<1>s. /\ srv \in Session(DOMAIN script) /\ Len(script) \in Nat /\ DOMAIN script = 1..Len(script)
      /\ next \in 1..(Len(script) + 1) /\ next \in Nat /\ opts.stopOnError
      /\ \A i \in DOMAIN script : script[i].kind \notin {"ddl", "lock"}
  BY ScriptsAssumption DEF Inv, TypeOK, Transactional, NoDdl
<1>o. /\ CommitTx(srv) \in Session(DOMAIN script) /\ BeginTx(srv) \in Session(DOMAIN script)
  BY <1>s, SessionOperators
<1>i. /\ ~srv.locked
      /\ pc \in Running => /\ srv.durable = {} /\ statementsFailed = 0
                           /\ srv.up => srv.pending = {i \in DataStatements(script) : i < next}
      /\ AllOrNothing
  BY DEF AtomicInv, Inv, TypeOK, ControlInv, Transactional, Running, Cleanup
\* A step to the cleanup, or in it, that makes nothing durable.
<1>x. ASSUME pc' \notin Running, srv'.durable = srv.durable, ~srv'.locked,
             pc \in Running \/ UNCHANGED statementsFailed
      PROVE  AtomicInv'
  BY <1>u, <1>i, <1>x DEF AtomicInv, AllOrNothing, Running
\* A step of the running script that the session does not notice, unless it is lost.
<1>q. ASSUME pc \in Running, UNCHANGED << next, statementsFailed, transactionOpen >>,
             srv' \in {srv, Disconnect(srv)},
             pc' \in {"acquire", "use", "begin"} => next = 1,
             pc' = "commit" => next = Len(script) + 1,
             pc' \in {"fetch", "execute", "retry", "commit"} =>
               pc \in {"fetch", "execute", "retry", "commit"}
      PROVE  AtomicInv'
  <2>1. /\ srv'.durable = {} /\ ~srv'.locked
        /\ srv'.up => srv' = srv
    BY <1>i, <1>q, <1>s, DataFields, SessionFields
  <2>. QED BY <1>u, <1>i, <1>q, <2>1 DEF AtomicInv, AllOrNothing
\* A call that fails or is cancelled leaves the session, or loses it.
<1>c. ASSUME pc \in Running, NEW s \in Session(DOMAIN script), s.durable = {},
             srv' \in {srv, Disconnect(srv), Disconnect(s)}, pc' = "rollback"
      PROVE  AtomicInv'
  <2>d. /\ Disconnect(s).durable = {} /\ ~Disconnect(s).locked
        /\ Disconnect(srv).durable = srv.durable /\ ~Disconnect(srv).locked
    BY <1>c, <1>s, DataFields, SessionFields
  <2>1. srv'.durable = srv.durable /\ ~srv'.locked
    BY <1>i, <1>c, <2>d
  <2>. QED BY <1>c, <1>x, <2>1 DEF Running
<1>1. CASE Acquire
  <2>1. next = 1
    BY <1>1 DEF Acquire, AtomicInv
  <2>. QED BY <1>1, <1>q, <2>1 DEF Acquire, counters, cancellation, Running
<1>2. CASE UseDatabase
  <2>1. next = 1 /\ pc \in Running
    BY <1>2 DEF UseDatabase, AtomicInv, Running
  <2>2. CASE pc' = "begin" /\ UNCHANGED srv
    BY <1>2, <1>q, <2>1, <2>2 DEF UseDatabase, counters, cancellation
  <2>3. CASE Finalize("threw") /\ UNCHANGED srv
    BY <1>c, <1>i, <1>s, <2>1, <2>3 DEF Finalize
  <2>4. CASE CallAborted(srv)
    BY <1>c, <1>i, <1>s, <2>1, <2>4 DEF CallAborted, Finalize
  <2>. QED BY <1>2, <2>2, <2>3, <2>4 DEF UseDatabase
<1>3. CASE StartTransaction
  <2>1. next = 1 /\ pc \in Running
    BY <1>3 DEF StartTransaction, AtomicInv, Running
  <2>p. srv.up => srv.pending = {}
    BY <1>i, <1>s, <2>1 DEF DataStatements
  <2>2. CASE srv.up /\ srv' = BeginTx(srv) /\ transactionOpen' = TRUE /\ pc' = "fetch"
    <3>1. /\ srv'.durable = {} /\ srv'.pending = {} /\ srv'.inTx /\ ~srv'.locked
      BY <1>i, <1>s, <2>1, <2>2, <2>p, DataFields, SessionFields
    <3>2. UNCHANGED << next, statementsFailed >>
      BY <1>3 DEF StartTransaction, counters, cancellation
    <3>3. {i \in DataStatements(script) : i < next'} = {}
      BY <1>s, <2>1, <3>2 DEF DataStatements
    <3>. QED BY <1>u, <1>i, <2>1, <2>2, <3>1, <3>2, <3>3 DEF AtomicInv, AllOrNothing
  <2>3. CASE Finalize("threw") /\ UNCHANGED srv
    BY <1>c, <1>i, <1>s, <2>1, <2>3 DEF Finalize
  <2>4. CASE CallAborted(BeginTx(srv))
    <3>1. CASE aborted
      BY <1>c, <1>i, <1>s, <2>1, <2>4, <3>1 DEF CallAborted, Finalize
    <3>2. CASE ~aborted
      BY <1>c, <1>i, <1>o, <1>s, <2>1, <2>4, <2>p, <3>2, DataFields DEF CallAborted, Finalize
    <3>. QED BY <3>1, <3>2
  <2>. QED BY <1>3, <2>2, <2>3, <2>4 DEF StartTransaction
<1>4. CASE Fetch
  <2>1. CASE pc' \in {"execute", "commit"}
    BY <1>4, <1>s, <1>q, <2>1 DEF Fetch, Finalize, counters, cancellation, Running
  <2>2. CASE pc' = "rollback"
    BY <1>4, <1>s, <1>i, <1>c, <2>2 DEF Fetch, Running
  <2>. QED BY <1>4, <2>1, <2>2 DEF Fetch, Finalize
\* What the statement does to the transaction it runs in.
<1>e. ASSUME pc \in {"execute", "retry"}
      PROVE  /\ pc \in Running /\ transactionOpen
             /\ Apply(srv, st, next) \in Session(DOMAIN script)
             /\ srv.up => /\ Apply(srv, st, next).durable = {}
                          /\ Apply(srv, st, next).inTx /\ ~Apply(srv, st, next).locked
                          /\ Apply(srv, st, next).pending =
                               {i \in DataStatements(script) : i < next + 1}
  <2>1. /\ pc \in Running /\ transactionOpen
        /\ srv.up => srv.inTx
    BY <1>e DEF AtomicInv, Running
  <2>2. next \in DOMAIN script /\ IsStatement(st) /\ Apply(srv, st, next) \in Session(DOMAIN script)
    BY <1>e, AtStatement
  <2>3. st.kind \notin {"ddl", "lock"}
    BY <1>s, <2>2 DEF st
  <2>4. ASSUME srv.up
        PROVE  /\ Apply(srv, st, next).durable = srv.durable
               /\ Apply(srv, st, next).inTx /\ ~Apply(srv, st, next).locked
               /\ Apply(srv, st, next).pending =
                    IF st.kind = "dml" THEN srv.pending \cup {next} ELSE srv.pending
    BY <1>i, <1>s, <2>1, <2>2, <2>3, <2>4, PendingFields
  <2>5. {i \in DataStatements(script) : i < next + 1} =
          {i \in DataStatements(script) : i < next} \cup (IF st.kind = "dml" THEN {next} ELSE {})
    BY <1>s, <2>2 DEF DataStatements, st
  <2>. QED BY <1>i, <2>1, <2>2, <2>4, <2>5
\* The statement ran and the restore goes on to the next.
<1>r. ASSUME pc \in {"execute", "retry"}, srv.up, srv' = Apply(srv, st, next), pc' = "fetch",
             next' = next + 1, UNCHANGED << statementsFailed, transactionOpen >>
      PROVE  AtomicInv'
  <2>1. srv'.durable = {} /\ srv'.inTx /\ ~srv'.locked
    BY <1>r, <1>e
  <2>2. srv'.pending = {i \in DataStatements(script) : i < next'}
    BY <1>r, <1>e
  <2>. QED BY <1>u, <1>r, <1>e, <2>1, <2>2 DEF AtomicInv, AllOrNothing
\* The statement did not run, or ran on a connection that is lost, or the
\* callback threw after it: the restore ends.
<1>f. ASSUME pc \in {"execute", "retry"}, pc' = "rollback",
             \/ srv' \in {srv, Disconnect(srv)}
             \/ srv.up /\ srv' \in {Apply(srv, st, next), Disconnect(Apply(srv, st, next))}
      PROVE  AtomicInv'
  <2>d. /\ Disconnect(srv).durable = srv.durable /\ ~Disconnect(srv).locked
        /\ Disconnect(Apply(srv, st, next)).durable = Apply(srv, st, next).durable
        /\ ~Disconnect(Apply(srv, st, next)).locked
    BY <1>f, <1>e, <1>s, DataFields, SessionFields
  <2>1. srv'.durable = srv.durable /\ ~srv'.locked
    BY <1>f, <1>e, <1>i, <2>d
  <2>. QED BY <1>f, <1>e, <1>x, <2>1 DEF Running
<1>5. CASE ExecuteSucceeds
  BY <1>5, <1>s, <1>r, <1>f DEF ExecuteSucceeds, StatementFailed, Advance, Finalize
<1>6. CASE ExecuteFails
  BY <1>6, <1>s, <1>f DEF ExecuteFails, StatementFailed, Finalize
<1>7. CASE ExecuteFailsOnDefiner
  <2>1. CASE pc' = "retry" /\ UNCHANGED << next, statementsFailed >>
    BY <1>7, <1>q, <1>e, <2>1 DEF ExecuteFailsOnDefiner
  <2>2. CASE StatementFailed
    BY <1>7, <1>s, <1>f, <2>2 DEF ExecuteFailsOnDefiner, StatementFailed, Finalize
  <2>. QED BY <1>7, <2>1, <2>2 DEF ExecuteFailsOnDefiner
<1>a. ASSUME pc \in {"execute", "retry"}, CallAborted(Apply(srv, st, next))
      PROVE  AtomicInv'
  BY <1>a, <1>f DEF CallAborted, Finalize
<1>8. CASE ExecuteAborted
  BY <1>8, <1>a DEF ExecuteAborted
<1>9. CASE Retry
  <2>1. CASE CallAborted(Apply(srv, st, next))
    BY <1>9, <1>a, <2>1 DEF Retry
  <2>2. CASE /\ srv.up /\ srv' = Apply(srv, st, next) /\ UNCHANGED statementsFailed
             /\ Advance \/ Finalize("threw")
    BY <1>9, <1>r, <1>f, <2>2 DEF Retry, Advance, Finalize
  <2>3. CASE /\ srv' = srv \/ (srv.up /\ srv' = Disconnect(Apply(srv, st, next)))
             /\ StatementFailed
    <3>1. pc \in {"execute", "retry"}
      BY <1>9 DEF Retry
    <3>2. pc' = "rollback"
      BY <1>s, <2>3 DEF StatementFailed, Finalize
    <3>. QED BY <1>f, <2>3, <3>1, <3>2
  <2>. QED BY <1>9, <2>1, <2>2, <2>3 DEF Retry
<1>10. CASE Commit
  <2>1. transactionOpen /\ pc \in Running /\ next = Len(script) + 1
    BY <1>10 DEF Commit, AtomicInv, Running
  <2>2. {i \in DataStatements(script) : i < next} = DataStatements(script)
    BY <1>s, <2>1 DEF DataStatements
  <2>3. srv.up => CommitTx(srv).durable = DataStatements(script) /\ ~CommitTx(srv).locked
    <3>1. /\ CommitTx(srv).durable = srv.durable \cup srv.pending
          /\ CommitTx(srv).locked = srv.locked
      BY <1>s, DataFields, SessionFields
    <3>. QED BY <1>i, <2>1, <2>2, <3>1
  <2>4. srv.up => /\ Disconnect(CommitTx(srv)).durable = DataStatements(script)
                  /\ ~Disconnect(CommitTx(srv)).locked
    BY <1>o, <2>3, DataFields, SessionFields
  <2>5. Disconnect(srv).durable = {} /\ ~Disconnect(srv).locked
    BY <1>i, <1>s, <2>1, DataFields, SessionFields
  <2>6. /\ pc' = "rollback" /\ UNCHANGED statementsFailed
        /\ \/ srv' \in {srv, Disconnect(srv)}
           \/ srv.up /\ srv' \in {CommitTx(srv), Disconnect(CommitTx(srv))}
    BY <1>10, <2>1 DEF Commit, CallAborted, Finalize, counters, cancellation
  <2>7. ~srv'.locked /\ statementsFailed' = 0
    BY <1>i, <2>1, <2>3, <2>4, <2>5, <2>6
  <2>8. srv'.durable = {} \/ srv'.durable = DataStatements(script)
    BY <1>i, <2>1, <2>3, <2>4, <2>5, <2>6
  <2>. QED BY <1>u, <2>6, <2>7, <2>8 DEF AtomicInv, AllOrNothing, Running
<1>11. CASE Rollback \/ CleanupUnlock \/ CleanupGuard \/ CleanupDone \/ Release
  <2>1. srv'.durable = srv.durable /\ ~srv'.locked /\ UNCHANGED statementsFailed
    <3>1. CleanupStep
      BY <1>11 DEF CleanupStep
    <3>2. srv'.durable = srv.durable
      BY <1>i, <1>s, <3>1, CleanupOutcome, DataFields
    <3>. QED BY <1>i, <3>1, <3>2, CleanupFields, CleanupOutcome
  <2>2. pc' \notin Running
    BY <1>11 DEF Rollback, RollbackWith, AfterRollback, CleanupUnlock, CleanupGuard, CleanupDone,
                 CleanupDoneKeeping, Release, Running
  <2>. QED BY <1>x, <2>1, <2>2
<1>12. CASE Abort \/ LoseConnection \/ Terminated \/ UNCHANGED vars
  <2>1. /\ srv' \in {srv, Disconnect(srv)}
        /\ UNCHANGED << pc, next, statementsFailed, transactionOpen >>
    BY <1>12 DEF Abort, LoseConnection, Terminated, vars, counters, cancellation
  <2>2. CASE pc \in Running
    BY <1>q, <2>1, <2>2 DEF AtomicInv
  <2>3. CASE pc \notin Running
    BY <1>i, <1>s, <1>x, <2>1, <2>3, DataFields, SessionFields
  <2>. QED BY <2>2, <2>3
<1>. QED
  BY <1>1, <1>2, <1>3, <1>4, <1>5, <1>6, <1>7, <1>8, <1>9, <1>10, <1>11, <1>12 DEF Next, Step

\* With singleTransaction and stopOnError, a script whose only implicit
\* commits would be its DDL, and which has none, is durable as a whole or not
\* at all, at every instant and whatever is refused, lost or cancelled.
THEOREM TransactionIsAtomic ==
  ASSUME Transactional
  PROVE  Spec => []AllOrNothing
<1>1. Inv /\ AtomicInv /\ [Next]_vars => AtomicInv'
  BY AtomicInvNext
<1>2. AtomicInv => AllOrNothing
  BY DEF AtomicInv, AllOrNothing
<1>. QED BY AtomicInvInit, InvHolds, <1>1, <1>2, PTL DEF Spec

-----------------------------------------------------------------------------
\* Only a SET and the cleanup assign a variable.
LEMMA EnvFields ==
  ASSUME NEW D, NEW s \in Session(D)
  PROVE  /\ CommitTx(s).env = s.env /\ RollbackTx(s).env = s.env /\ BeginTx(s).env = s.env
         /\ UnlockTables(s).env = s.env /\ Disconnect(s).env = s.env
BY DEF Session, CommitTx, RollbackTx, BeginTx, UnlockTables, Disconnect

LEMMA ApplyEnv ==
  ASSUME NEW D, NEW s \in Session(D), NEW stmt, IsStatement(stmt), NEW i, NEW p \in Place
  PROVE  Apply(s, stmt, i).env[p] =
           IF stmt.kind = "set" /\ p \in DOMAIN stmt.assign THEN Read(s.env, stmt.assign[p])
                                                            ELSE s.env[p]
<1>c. CommitTx(s) \in Session(D) /\ UnlockTables(s) \in Session(D)
  BY SessionOperators
<1>1. CASE stmt.kind = "set"
  BY <1>1 DEF Apply, Effect, Assign, Session
<1>2. CASE stmt.kind = "lock"
  BY <1>2, <1>c, EnvFields DEF Apply, Effect, Session
<1>3. CASE stmt.kind = "unlock"
  BY <1>3, <1>c, EnvFields DEF Apply, Effect, Session
<1>4. CASE stmt.kind = "ddl"
  BY <1>4, <1>c, EnvFields DEF Apply, Effect, Session
<1>5. CASE stmt.kind \in {"dml", "use"}
  BY <1>5 DEF Apply, Effect, Session
<1>. QED BY <1>1, <1>2, <1>3, <1>4, <1>5 DEF IsStatement, Kind

\* What observe() makes of one variable.
LEMMA ObserveVariable ==
  ASSUME NEW codes, NEW stmt, IsStatement(stmt), NEW v \in Variable
  PROVE  v \in Observe(codes, stmt) <=>
           IF stmt.kind = "set" THEN (v \in codes \/ Changes(stmt, v)) /\ ~PutsBack(stmt, v)
                                ELSE v \in codes
<1>1. v # TableLocks
  BY DEF TableLocks, Variable
<1>2. v \in Observe(codes, stmt) <=> v \in ObserveVariables(codes, stmt)
  BY <1>1 DEF Observe, ObserveLocks, IsStatement, Kind
<1>. QED BY <1>2 DEF ObserveVariables

\* A statement the patterns of v recognise assigns v or the place v is saved in.
LEMMA ChangesSets ==
  ASSUME NEW stmt, NEW v \in Variable, Changes(stmt, v)
  PROVE  Sys(v) \in DOMAIN stmt.assign \/ Old(v) \in DOMAIN stmt.assign
<1>1. v \in DetectedByZero \/ v \in DetectedBySave \/ v \in CharsetTrio
  BY DEF Variable, DetectedByZero, DetectedBySave, CharsetTrio
<1>2. CASE v \in DetectedByZero
  BY <1>2 DEF Changes, DetectedByZero, DetectedBySave, CharsetTrio
<1>3. CASE v \in DetectedBySave
  BY <1>3 DEF Changes, DetectedByZero, DetectedBySave, CharsetTrio
<1>4. CASE v \in CharsetTrio
  BY <1>4 DEF Changes, DetectedByZero, DetectedBySave, CharsetTrio
<1>. QED BY <1>1, <1>2, <1>3, <1>4

\* A server that is up executes a line of the header.
LEMMA HeaderLineRuns ==
  ASSUME NEW s, NEW stmt, IsStatement(stmt), IsHeaderLine(stmt)
  PROVE  ~stmt.definer /\ ~Refusable(stmt) /\ Assignable(s, stmt)
<1>1. ASSUME NEW p \in DOMAIN stmt.assign PROVE stmt.assign[p] # Lit("object")
  <2>1. stmt.assign[p] = Lit("dump") \/ stmt.assign[p] = Sys(p[2])
    BY DEF IsHeaderLine
  <2>. QED BY <2>1 DEF Lit, Sys
<1>2. ASSUME NEW p \in DOMAIN stmt.assign, p[1] = "@@"
      PROVE  Read(s.env, stmt.assign[p]) # "null"
  BY <1>2 DEF IsHeaderLine, Lit, Read
<1>. QED BY <1>1, <1>2 DEF IsHeaderLine, Refusable, Assignable

\* Facts about the places of one variable.
LEMMA PlacesOf ==
  ASSUME NEW v \in Variable
  PROVE  /\ Sys(v) \in Place /\ Old(v) \in Place /\ Sys(v) # Old(v)
         /\ \A env : Read(env, Sys(v)) = env[Sys(v)] /\ Read(env, Old(v)) = env[Old(v)]
         /\ Lit("dump") # Old(v) /\ Old(v)[1] # "@@" /\ Old(v)[2] = v
BY DEF Sys, Old, Place, Scope, Lit, Read

\* One executed statement of a script that guards v keeps what the restore
\* relies on: before h the variable is the caller's; from h on the saved value
\* is, and what changes the variable is noticed; f puts it back.
LEMMA GuardedStep ==
  ASSUME Inv, pc \in {"execute", "retry"}, srv.up,
         NEW v \in Variable, NEW h \in Nat, NEW f \in Nat, h < f,
         GuardedBetween(script, v, h, f), VariableInv(v), PositionInv(v, h, f)
  PROVE  LET e == Apply(srv, st, next).env
             c == Observe(changed, st)
         IN  /\ v \in c => e[Old(v)] = "caller"
             /\ v \notin c => e[Sys(v)] = "caller"
             /\ next < h => v \notin c
             /\ h <= next => e[Old(v)] = "caller"
             /\ h <= next /\ next < f /\ Changes(script[h], v) => v \in c
<1> DEFINE e == Apply(srv, st, next).env
           c == Observe(changed, st)
           old == st.kind = "set" /\ Old(v) \in DOMAIN st.assign
           sys == st.kind = "set" /\ Sys(v) \in DOMAIN st.assign
<1>s. /\ next \in DOMAIN script /\ next \in Nat /\ IsStatement(st) /\ srv \in Session(DOMAIN script)
      /\ st = script[next]
  <2>1. next \in DOMAIN script /\ DOMAIN script = 1..Len(script) /\ IsStatement(st)
    BY AtStatement
  <2>. QED BY <2>1 DEF Inv, TypeOK, st
<1>o. e[Old(v)] = IF old THEN Read(srv.env, st.assign[Old(v)]) ELSE srv.env[Old(v)]
  BY <1>s, PlacesOf, ApplyEnv
<1>y. e[Sys(v)] = IF sys THEN Read(srv.env, st.assign[Sys(v)]) ELSE srv.env[Sys(v)]
  BY <1>s, PlacesOf, ApplyEnv
<1>c. v \in c <=> IF st.kind = "set" THEN (v \in changed \/ Changes(st, v)) /\ ~PutsBack(st, v)
                                     ELSE v \in changed
  BY <1>s, ObserveVariable
<1>n. ~old /\ ~sys => (v \in c <=> v \in changed)
  BY <1>c, ChangesSets DEF PutsBack
<1>g. /\ old => next = h
      /\ sys => /\ h <= next /\ next <= f
                /\ next < f => ~PutsBack(st, v) /\ (Changes(st, v) \/ Changes(script[h], v))
      /\ next = h => IsHeaderLine(st) /\ Old(v) \in DOMAIN st.assign
      /\ next = f => st.kind = "set" /\ PutsBack(st, v)
  BY <1>s DEF GuardedBetween, Sets
<1>v. /\ v \in changed => srv.env[Old(v)] = "caller"
      /\ v \notin changed => srv.env[Sys(v)] = "caller"
      /\ next <= h => v \notin changed
      /\ h < next => srv.env[Old(v)] = "caller"
      /\ h < next /\ next <= f /\ Changes(script[h], v) => v \in changed
  <2>1. swallowed = {}
    BY DEF Inv, ControlInv, Cleanup
  <2>. QED BY <2>1 DEF VariableInv, PutBack, PositionInv, Running
<1> HIDE DEF e, c, old, sys
<1> SUFFICES /\ v \in c => e[Old(v)] = "caller"
             /\ v \notin c => e[Sys(v)] = "caller"
             /\ next < h => v \notin c
             /\ h <= next => e[Old(v)] = "caller"
             /\ h <= next /\ next < f /\ Changes(script[h], v) => v \in c
  BY DEF e, c
<1>1. CASE next < h
  <2>1. ~old /\ ~sys
    BY <1>1, <1>g, <1>s
  <2>. QED BY <1>1, <1>s, <1>o, <1>y, <1>n, <1>v, <2>1
<1>2. CASE next = h
  <2>1. /\ st.kind = "set" /\ old /\ st.assign[Old(v)] = Sys(v)
        /\ sys => st.assign[Sys(v)] = Lit("dump")
    BY <1>2, <1>g, PlacesOf DEF IsHeaderLine, old, sys, Sys
  <2>2. v \notin changed /\ srv.env[Sys(v)] = "caller"
    BY <1>2, <1>v, <1>s
  <2>3. e[Old(v)] = "caller"
    BY <1>o, <2>1, <2>2, PlacesOf
  <2>4. ~PutsBack(st, v)
    BY <2>1, PlacesOf DEF PutsBack, sys
  <2>5. script[h] = st
    BY <1>2, <1>s
  <2>6. sys => Changes(st, v)
    BY <1>2, <1>g, <2>5
  <2>7. v \in c <=> Changes(st, v)
    BY <1>c, <2>1, <2>2, <2>4
  <2>8. v \notin c => e[Sys(v)] = "caller"
    BY <1>y, <2>2, <2>6, <2>7
  <2>. QED BY <1>2, <1>s, <2>3, <2>5, <2>7, <2>8
<1>3. CASE h < next /\ next < f
  <2>1. ~old /\ e[Old(v)] = "caller"
    BY <1>3, <1>g, <1>o, <1>s, <1>v
  <2>2. ~PutsBack(st, v) \/ st.kind # "set"
    BY <1>3, <1>g DEF PutsBack, sys
  <2>3. v \in c <=> v \in changed \/ (st.kind = "set" /\ Changes(st, v))
    BY <1>c, <2>2
  <2>4. ASSUME v \notin c PROVE e[Sys(v)] = "caller"
    <3>1. ~sys
      BY <1>3, <1>g, <1>s, <1>v, <2>3, <2>4 DEF sys
    <3>. QED BY <1>v, <1>y, <2>3, <2>4, <3>1
  <2>. QED BY <1>3, <1>s, <1>v, <2>1, <2>3, <2>4
<1>4. CASE next = f
  <2>1. /\ st.kind = "set" /\ PutsBack(st, v) /\ h < next /\ ~old
    BY <1>4, <1>g, <1>s
  <2>2. v \notin c /\ e[Old(v)] = "caller"
    BY <1>c, <1>o, <1>v, <2>1
  <2>3. e[Sys(v)] = srv.env[Old(v)]
    BY <1>y, <2>1, PlacesOf DEF PutsBack, sys
  <2>. QED BY <1>4, <1>s, <1>v, <2>1, <2>2, <2>3
<1>5. CASE f < next
  <2>1. ~old /\ ~sys
    BY <1>5, <1>g, <1>s
  <2>. QED BY <1>5, <1>s, <1>o, <1>y, <1>n, <1>v, <2>1
<1>. QED BY <1>1, <1>2, <1>3, <1>4, <1>5, <1>s

LEMMA GuardOrderFacts ==
  /\ DOMAIN GuardOrder = 1..8 /\ Len(GuardOrder) = 8
  /\ \A i \in 1..8 : GuardOrder[i] \in Variable
  /\ \A v \in Variable : \E i \in 1..8 : GuardOrder[i] = v
BY DEF GuardOrder, Variable

\* The cleanup stops only when no changed variable is left ahead of it.
LEMMA NoGuardLeft ==
  ASSUME guard \in 1..9, \A i \in DOMAIN GuardOrder : ~IsNextGuard(i)
  PROVE  \A i \in DOMAIN GuardOrder : i >= guard => GuardOrder[i] \notin changed
<1> DEFINE Clear(i) == i >= guard => GuardOrder[i] \notin changed
<1>d. DOMAIN GuardOrder = 1..8
  BY GuardOrderFacts
<1>s. ASSUME NEW i \in 1..8, \A j \in 1..(i - 1) : Clear(j)
      PROVE  Clear(i)
  <2>1. ~IsNextGuard(i)
    BY <1>d
  <2>2. \A j \in guard..(i - 1) : GuardOrder[j] \notin changed
    BY <1>s
  <2>. QED BY <2>1, <2>2 DEF IsNextGuard
<1> HIDE DEF Clear
<1>1. Clear(1)
  BY <1>s
<1>2. Clear(2)
  BY <1>s, <1>1
<1>3. Clear(3)
  BY <1>s, <1>1, <1>2
<1>4. Clear(4)
  BY <1>s, <1>1, <1>2, <1>3
<1>5. Clear(5)
  BY <1>s, <1>1, <1>2, <1>3, <1>4
<1>6. Clear(6)
  BY <1>s, <1>1, <1>2, <1>3, <1>4, <1>5
<1>7. Clear(7)
  BY <1>s, <1>1, <1>2, <1>3, <1>4, <1>5, <1>6
<1>8. Clear(8)
  BY <1>s, <1>1, <1>2, <1>3, <1>4, <1>5, <1>6, <1>7
<1>9. \A i \in 1..8 : Clear(i)
  BY <1>1, <1>2, <1>3, <1>4, <1>5, <1>6, <1>7, <1>8
<1>. QED BY <1>9, <1>d DEF Clear

\* The cleanup statement of a changed variable brings the caller's value back,
\* and touches no other variable and no saved value.
LEMMA RestoredVariable ==
  ASSUME NEW D, NEW s \in Session(D), NEW g \in Variable, NEW v \in Variable
  PROVE  /\ RestoreVariable(s, g).env[Old(v)] = s.env[Old(v)]
         /\ g # v => RestoreVariable(s, g).env[Sys(v)] = s.env[Sys(v)]
         /\ s.env[Old(v)] = "caller" => RestoreVariable(s, v).env[Sys(v)] = "caller"
<1>1. Sys(g) # Old(v) /\ (g # v => Sys(g) # Sys(v))
  BY DEF Sys, Old
<1>2. Sys(v) \in Place /\ Old(v) \in Place /\ Sys(g) \in Place
  BY PlacesOf
<1>. QED BY <1>1, <1>2 DEF RestoreVariable, CleanupValue, Session

LEMMA GuardsInvInit == Init => GuardsInv
<1> SUFFICES ASSUME Init PROVE GuardsInv
  OBVIOUS
<1>1. /\ changed = {} /\ next = 1 /\ pc = "acquire" /\ guard = 1
      /\ \A v \in Variable : srv.env[Sys(v)] = "caller"
  BY PlacesOf DEF Init, FreshSession, Sys
<1>2. Len(script) \in Nat
  BY ScriptsAssumption DEF Init
<1>3. \A v \in Variable : VariableInv(v)
  BY <1>1 DEF VariableInv, PutBack
<1>4. ASSUME NEW v, NEW h \in 1..(Len(script) + 1), NEW f \in (h + 1)..(Len(script) + 2)
      PROVE  PositionInv(v, h, f)
  BY <1>1, <1>2, <1>4 DEF PositionInv
<1>. QED BY <1>1, <1>3, <1>4 DEF GuardsInv

\* Two facts about where a step leads: a definer error alone leads to a retry,
\* and the cleanup of the guards starts at the first.
LEMMA RetryAndGuard ==
  Inv /\ GuardsInv /\ [Next]_vars =>
    /\ (pc = "retry" => st.definer)'
    /\ pc' # "guards" => guard' = 1
    /\ pc' = "guards" => guard' = 1 \/ pc = "guards"
<1> SUFFICES ASSUME Inv, GuardsInv, [Next]_vars
             PROVE  /\ (pc = "retry" => st.definer)'
                    /\ pc' # "guards" => guard' = 1
                    /\ pc' = "guards" => guard' = 1 \/ pc = "guards"
  OBVIOUS
<1>i. /\ pc = "retry" => st.definer
      /\ pc # "guards" => guard = 1
  BY DEF GuardsInv
<1>1. CASE Acquire \/ UseDatabase \/ StartTransaction \/ Fetch \/ Commit
  BY <1>1, <1>i
     DEF Acquire, UseDatabase, StartTransaction, Fetch, Commit, CallAborted, Finalize, Frame
<1>2. CASE ExecuteSucceeds \/ ExecuteFails \/ ExecuteAborted \/ Retry
  BY <1>2, <1>i DEF ExecuteSucceeds, ExecuteFails, ExecuteAborted, Retry, StatementFailed, Advance,
                    CallAborted, Finalize, Frame
<1>3. CASE ExecuteFailsOnDefiner
  <2>1. st.definer /\ UNCHANGED << script, guard >> /\ pc = "execute"
    BY <1>3 DEF ExecuteFailsOnDefiner, Frame
  <2>2. CASE pc' = "retry" /\ UNCHANGED next
    BY <1>i, <2>1, <2>2 DEF st
  <2>3. CASE StatementFailed
    BY <1>i, <2>1, <2>3 DEF StatementFailed, Advance, Finalize
  <2>. QED BY <1>3, <2>2, <2>3 DEF ExecuteFailsOnDefiner
<1>4. CASE Rollback \/ CleanupUnlock \/ CleanupGuard \/ CleanupDone \/ Release
  BY <1>4, <1>i DEF Rollback, RollbackWith, AfterRollback, CleanupUnlock, CleanupGuard, CleanupDone,
                    CleanupDoneKeeping, Release, Frame
<1>5. CASE Abort \/ LoseConnection \/ Terminated \/ UNCHANGED vars
  BY <1>5, <1>i DEF Abort, LoseConnection, Terminated, vars, Frame, st
<1>. QED
  BY <1>1, <1>2, <1>3, <1>4, <1>5 DEF Next, Step

\* The invariant of one guarded variable, step by step.
LEMMA VariableNext ==
  ASSUME Inv, GuardsInv, [Next]_vars, NEW v \in Variable,
         NEW h \in 1..(Len(script) + 1), NEW f \in (h + 1)..(Len(script) + 2),
         GuardedBetween(script, v, h, f)
  PROVE  VariableInv(v)' /\ PositionInv(v, h, f)'
<1>s. /\ srv \in Session(DOMAIN script) /\ Len(script) \in Nat /\ next \in Nat
      /\ h \in Nat /\ f \in Nat /\ h < f /\ guard \in 1..9
  BY ScriptsAssumption, GuardOrderFacts DEF Inv, TypeOK
<1>i. VariableInv(v) /\ PositionInv(v, h, f)
  BY DEF GuardsInv
<1>u. UNCHANGED << opts, script >>
  BY SameCall
<1>o. /\ CommitTx(srv) \in Session(DOMAIN script) /\ BeginTx(srv) \in Session(DOMAIN script)
      /\ ~Disconnect(srv).up /\ ~Disconnect(CommitTx(srv)).up /\ ~Disconnect(BeginTx(srv)).up
  BY <1>s, SessionOperators, SessionFields
<1>g. pc' = "guards" => guard' = 1 \/ pc = "guards"
  BY RetryAndGuard
<1>f. pc' = "guards" /\ guard' = 1 => \E i \in DOMAIN GuardOrder : i >= guard' /\ GuardOrder[i] = v
  BY GuardOrderFacts
<1>w. swallowed \subseteq swallowed'
  BY SwallowedGrows
\* A step that neither runs a statement nor puts a variable back.
<1>q. ASSUME UNCHANGED changed,
             srv'.up => srv.up /\ srv'.env = srv.env,
             pc' \in Running => pc \in Running /\ UNCHANGED next,
             pc' = "guards" /\ pc = "guards" => UNCHANGED guard
      PROVE  VariableInv(v)' /\ PositionInv(v, h, f)'
  <2>1. VariableInv(v)'
    BY <1>q, <1>i, <1>g, <1>f, <1>w DEF VariableInv, PutBack
  <2>2. PositionInv(v, h, f)'
    BY <1>q, <1>i, <1>u DEF PositionInv
  <2>. QED BY <2>1, <2>2
\* A statement that ran.
<1>e. ASSUME pc \in {"execute", "retry"}, srv.up, srv' = Apply(srv, st, next),
             changed' = Observe(changed, st), pc' \in {"fetch", "rollback"},
             pc' = "fetch" => next' = next + 1
      PROVE  VariableInv(v)' /\ PositionInv(v, h, f)'
  <2>1. /\ v \in changed' => srv'.env[Old(v)] = "caller"
        /\ v \notin changed' => srv'.env[Sys(v)] = "caller"
        /\ next < h => v \notin changed'
        /\ h <= next => srv'.env[Old(v)] = "caller"
        /\ h <= next /\ next < f /\ Changes(script[h], v) => v \in changed'
    BY <1>e, <1>i, <1>s, GuardedStep
  <2>2. VariableInv(v)'
    BY <1>e, <2>1 DEF VariableInv, PutBack
  <2>3. PositionInv(v, h, f)'
    BY <1>e, <1>s, <1>u, <2>1 DEF PositionInv, Running
  <2>. QED BY <2>2, <2>3
\* A statement the restore goes on without: not the one that saves v, unless
\* the connection is lost.
<1>k. ASSUME pc \in {"execute", "retry"}, UNCHANGED changed, pc' \in {"fetch", "rollback"},
             pc' = "fetch" => next' = next + 1,
             srv'.up => srv' = srv /\ (st.definer \/ Refusable(st) \/ ~Assignable(srv, st))
      PROVE  VariableInv(v)' /\ PositionInv(v, h, f)'
  <2>1. VariableInv(v)'
    BY <1>k, <1>i, <1>w DEF VariableInv, PutBack
  <2>2. next \in DOMAIN script /\ IsStatement(st)
    BY <1>k, AtStatement
  <2>3. srv'.up => next # h
    BY <1>k, <2>2, HeaderLineRuns DEF GuardedBetween, st
  <2>4. /\ next <= h => v \notin changed
        /\ srv.up /\ h < next => srv.env[Old(v)] = "caller"
        /\ srv.up /\ h < next /\ next <= f /\ Changes(script[h], v) => v \in changed
    BY <1>k, <1>i DEF PositionInv, Running
  <2>5. PositionInv(v, h, f)'
    BY <1>k, <1>s, <1>u, <2>3, <2>4 DEF PositionInv, Running
  <2>. QED BY <2>1, <2>5
<1>x. ASSUME pc \in {"execute", "retry"} PROVE ~Disconnect(Apply(srv, st, next)).up
  BY <1>x, AtStatement, SessionFields
<1>c. ASSUME pc \in {"execute", "retry"}, CallAborted(Apply(srv, st, next)),
             UNCHANGED << next, changed >>
      PROVE  VariableInv(v)' /\ PositionInv(v, h, f)'
  <2>1. srv'.up => srv' = srv
    BY <1>c, <1>o, <1>x DEF CallAborted
  <2>2. pc' = "rollback"
    BY <1>c DEF CallAborted, Finalize
  <2>. QED BY <1>c, <1>q, <2>1, <2>2 DEF Running
<1>1. CASE Acquire \/ UseDatabase \/ StartTransaction \/ Fetch \/ Commit
  <2>1. srv'.up => srv.up /\ srv'.env = srv.env
    BY <1>1, <1>s, <1>o, SessionFields, EnvFields
       DEF Acquire, UseDatabase, StartTransaction, Fetch, Commit, CallAborted
  <2>2. UNCHANGED << next, changed >> /\ pc \in Running
    BY <1>1 DEF Acquire, UseDatabase, StartTransaction, Fetch, Commit, Running
  <2>3. pc # "guards"
    BY <2>2 DEF Running
  <2>. QED BY <1>q, <2>1, <2>2, <2>3
<1>2. CASE ExecuteSucceeds
  BY <1>2, <1>e DEF ExecuteSucceeds, StatementFailed, Advance, Finalize
<1>3. CASE ExecuteFails
  <2>1. srv'.up => srv' = srv /\ (st.definer \/ Refusable(st) \/ ~Assignable(srv, st))
    BY <1>3, <1>x DEF ExecuteFails
  <2>. QED BY <1>3, <1>k, <2>1 DEF ExecuteFails, StatementFailed, Advance, Finalize
<1>4. CASE ExecuteFailsOnDefiner
  <2>1. CASE pc' = "retry" /\ UNCHANGED next
    BY <1>4, <1>q, <2>1 DEF ExecuteFailsOnDefiner, Running
  <2>2. CASE StatementFailed
    BY <1>4, <1>k, <2>2 DEF ExecuteFailsOnDefiner, StatementFailed, Advance, Finalize
  <2>. QED BY <1>4, <2>1, <2>2 DEF ExecuteFailsOnDefiner
<1>5. CASE ExecuteAborted
  BY <1>5, <1>c DEF ExecuteAborted
<1>6. CASE Retry
  <2>1. CASE CallAborted(Apply(srv, st, next)) /\ UNCHANGED << next, changed >>
    BY <1>6, <1>c, <2>1 DEF Retry
  <2>2. CASE /\ srv.up /\ srv' = Apply(srv, st, next) /\ changed' = Observe(changed, st)
             /\ Advance \/ Finalize("threw")
    BY <1>6, <1>e, <2>2 DEF Retry, Advance, Finalize
  <2>3. CASE /\ srv' = srv \/ srv' = Disconnect(Apply(srv, st, next))
             /\ UNCHANGED changed /\ StatementFailed
    <3>1. st.definer /\ pc = "retry"
      BY <1>6 DEF Retry, GuardsInv
    <3>2. srv'.up => srv' = srv
      BY <1>x, <2>3, <3>1
    <3>3. pc' \in {"fetch", "rollback"} /\ (pc' = "fetch" => next' = next + 1)
      BY <2>3 DEF StatementFailed, Advance, Finalize
    <3>. QED BY <1>k, <2>3, <3>1, <3>2, <3>3
  <2>. QED BY <1>6, <2>1, <2>2, <2>3 DEF Retry
<1>7. CASE Rollback \/ CleanupUnlock \/ Release
  <2>1. srv'.up => srv.up /\ srv'.env = srv.env
    <3>1. CleanupStep /\ ~CleanupGuard
      BY <1>7 DEF CleanupStep, Rollback, RollbackWith, CleanupUnlock, Release, CleanupGuard
    <3>. QED BY <1>s, <3>1, SessionFields, EnvFields, CleanupOutcome
  <2>2. UNCHANGED changed /\ pc' \notin Running /\ pc # "guards"
    BY <1>7 DEF Rollback, RollbackWith, AfterRollback, CleanupUnlock, Release, Running
  <2>. QED BY <1>q, <2>1, <2>2
<1>8. CASE CleanupGuard
  <2>1. PICK i \in DOMAIN GuardOrder :
          /\ IsNextGuard(i)
          /\ Attempt(GuardOrder[i], RestoreVariable(srv, GuardOrder[i]))
          /\ guard' = i + 1
    BY <1>8 DEF CleanupGuard, GuardIsBehind
  <2>2. pc = "guards" /\ UNCHANGED << pc, changed >>
    BY <1>8 DEF CleanupGuard
  <2>3. i \in 1..8 /\ GuardOrder[i] \in Variable /\ GuardOrder[i] \in changed /\ i >= guard
    BY <2>1, GuardOrderFacts DEF IsNextGuard
  <2>4. ASSUME srv'.up
        PROVE  /\ v \in changed => srv'.env[Old(v)] = "caller"
               /\ v \notin changed => PutBack(v)'
               /\ (\A j \in DOMAIN GuardOrder : j >= i + 1 => GuardOrder[j] # v) => PutBack(v)'
    <3>1. \/ srv.up /\ srv' = RestoreVariable(srv, GuardOrder[i])
          \/ srv.up /\ srv' = srv /\ GuardOrder[i] \in swallowed'
      BY <2>1, <2>4, AttemptOutcome DEF Inv
    <3>2. /\ srv'.env[Old(v)] = srv.env[Old(v)]
          /\ GuardOrder[i] # v => srv'.env[Sys(v)] = srv.env[Sys(v)]
          /\ GuardOrder[i] = v /\ srv.env[Old(v)] = "caller" => PutBack(v)'
      BY <1>s, <2>3, <3>1, RestoredVariable DEF PutBack
    <3>3. /\ v \in changed => srv.env[Old(v)] = "caller"
          /\ v \notin changed => PutBack(v)
          /\ (\A j \in DOMAIN GuardOrder : j >= guard => GuardOrder[j] # v) => PutBack(v)
      BY <1>i, <2>2, <3>1 DEF VariableInv
    <3>4. ASSUME \A j \in DOMAIN GuardOrder : j >= i + 1 => GuardOrder[j] # v, v \in changed,
                 GuardOrder[i] # v
          PROVE  \A j \in DOMAIN GuardOrder : j >= guard => GuardOrder[j] # v
      <4>1. \A j \in guard..(i - 1) : GuardOrder[j] # v
        BY <2>1, <3>4 DEF IsNextGuard
      <4>. QED BY <1>s, <2>3, <3>4, <4>1, GuardOrderFacts
    <3>5. GuardOrder[i] # v /\ PutBack(v) => PutBack(v)'
      BY <1>w, <3>2 DEF PutBack
    <3>. QED BY <2>3, <3>2, <3>3, <3>4, <3>5
  <2>5. VariableInv(v)'
    BY <2>1, <2>2, <2>4 DEF VariableInv
  <2>6. PositionInv(v, h, f)'
    BY <2>2 DEF PositionInv, Running
  <2>. QED BY <2>5, <2>6
<1>9. CASE CleanupDone
  <2>1. /\ pc = "guards" /\ \A i \in DOMAIN GuardOrder : ~IsNextGuard(i)
        /\ changed' = {} /\ pc' = "release" /\ UNCHANGED << srv, swallowed >>
    BY <1>9 DEF CleanupDone, CleanupDoneKeeping, NotSent
  <2>2. \A i \in DOMAIN GuardOrder : i >= guard => GuardOrder[i] \notin changed
    BY <1>s, <2>1, NoGuardLeft
  <2>3. srv.up => PutBack(v)
    BY <1>i, <2>1, <2>2 DEF VariableInv
  <2>4. VariableInv(v)'
    BY <2>1, <2>3 DEF VariableInv, PutBack
  <2>5. PositionInv(v, h, f)'
    BY <2>1 DEF PositionInv, Running
  <2>. QED BY <2>4, <2>5
<1>10. CASE Abort \/ LoseConnection \/ Terminated \/ UNCHANGED vars
  <2>1. srv'.up => srv' = srv
    BY <1>10, <1>o DEF Abort, LoseConnection, Terminated, vars
  <2>2. UNCHANGED << pc, next, changed, guard >>
    BY <1>10 DEF Abort, LoseConnection, Terminated, vars, Frame
  <2>. QED BY <1>q, <2>1, <2>2
<1>. QED
  BY <1>1, <1>2, <1>3, <1>4, <1>5, <1>6, <1>7, <1>8, <1>9, <1>10 DEF Next, Step

LEMMA GuardsInvNext ==
  ASSUME AllGuarded
  PROVE  Inv /\ GuardsInv /\ [Next]_vars => GuardsInv'
<1> SUFFICES ASSUME Inv, GuardsInv, [Next]_vars PROVE GuardsInv'
  OBVIOUS
<1>u. UNCHANGED script
  BY SameCall
<1>1. ASSUME NEW v \in Variable PROVE VariableInv(v)'
  <2>1. PICK h \in 1..(Len(script) + 1) :
          \E f \in (h + 1)..(Len(script) + 2) : GuardedBetween(script, v, h, f)
    BY DEF AllGuarded, Guarded, Inv, TypeOK
  <2>2. PICK f \in (h + 1)..(Len(script) + 2) : GuardedBetween(script, v, h, f)
    BY <2>1
  <2>. QED BY <2>2, VariableNext
<1>2. ASSUME NEW v \in Variable, NEW h \in 1..(Len(script) + 1),
             NEW f \in (h + 1)..(Len(script) + 2), GuardedBetween(script, v, h, f)
      PROVE  PositionInv(v, h, f)'
  BY <1>2, VariableNext
<1>. QED BY <1>u, <1>1, <1>2, RetryAndGuard DEF GuardsInv

LEMMA GuardsHold ==
  ASSUME AllGuarded
  PROVE  Spec => []GuardsInv
<1>1. Inv /\ GuardsInv /\ [Next]_vars => GuardsInv'
  BY GuardsInvNext
<1>. QED BY GuardsInvInit, InvHolds, <1>1, PTL DEF Spec

\* A restore of scripts that save what they change hands back every variable
\* as it was found, whatever statement it stopped at, failed or was retried.
THEOREM GuardedVariablesComeBack ==
  ASSUME AllGuarded
  PROVE  Spec => []VariablesHandedBack
<1>1. Inv /\ GuardsInv => VariablesHandedBack
  BY DEF Inv, CleanupInv, GuardsInv, VariableInv, VariablesHandedBack, HandedBack
<1>. QED BY GuardsHold, InvHolds, <1>1, PTL

-----------------------------------------------------------------------------
(* The scripts the renderer writes *)

SqlStatement ==
  [ kind : Kind, assign : UNION {[D -> Source] : D \in SUBSET Place},
    commented : BOOLEAN, definer : BOOLEAN ]

Touches(x, v) == x.kind = "set" /\ {Old(v), Sys(v)} \cap DOMAIN x.assign # {}
Untouched(s, v) == \A i \in DOMAIN s : ~Touches(s[i], v)

\* One line of s saves v, in front of what s assigns to it.
Opens(s, v) ==
  \E h \in DOMAIN s :
    /\ IsHeaderLine(s[h]) /\ Old(v) \in DOMAIN s[h].assign
    /\ \A i \in DOMAIN s :
         /\ Sets(s, i, Old(v)) => i = h
         /\ Sets(s, i, Sys(v)) =>
              h <= i /\ ~PutsBack(s[i], v) /\ (Changes(s[i], v) \/ Changes(s[h], v))

\* One line of s puts v back, and no other touches it.
Closes(s, v) ==
  \E f \in DOMAIN s :
    /\ s[f].kind = "set" /\ PutsBack(s[f], v) /\ Old(v) \notin DOMAIN s[f].assign
    /\ \A i \in DOMAIN s : Touches(s[i], v) => i = f

\* A line of a block assigns variables of V, saves nothing where the header
\* does, and puts nothing back from there.
BlockLine(x, V) ==
  x.kind = "set" =>
    \A p \in DOMAIN x.assign :
      /\ p[1] # "@OLD_"
      /\ p[1] = "@@" => p[2] \in V /\ x.assign[p][1] # "@OLD_"
BlockLines(V) == {x \in SqlStatement : BlockLine(x, V)}

\* What the header of a dump saves.
Saves(o) ==
  (IF o.setCharset THEN CharsetTrio ELSE {})
  \cup (IF o.includeSessionGuards
        THEN {"UNIQUE_CHECKS", "FOREIGN_KEY_CHECKS", "SQL_MODE", "SQL_NOTES"} ELSE {})
  \cup (IF o.includeSessionGuards /\ o.timeZone THEN {"TIME_ZONE"} ELSE {})

\* The lines of a SET.
LEMMA SetLines ==
  ASSUME NEW v \in Variable, NEW x \in Value, NEW w \in Variable
  PROVE  /\ SetTo(v, Lit(x)) \in SqlStatement
         /\ SetTo(v, Old(w)) \in SqlStatement /\ SetTo(v, Saved(w)) \in SqlStatement
         /\ SetTo(v, Save(w)) \in SqlStatement
         /\ SaveIn(Old(v)) \in SqlStatement /\ SaveIn(Saved(v)) \in SqlStatement
         /\ SaveIn(Save(v)) \in SqlStatement
         /\ SaveAndSet(v, x) \in SqlStatement /\ SetNames(x) \in SqlStatement
<1>1. /\ Sys(v) \in Place /\ Old(v) \in Place /\ Saved(v) \in Place /\ Save(v) \in Place
      /\ Sys(w) \in Place /\ Old(w) \in Place /\ Saved(w) \in Place /\ Save(w) \in Place
  BY DEF Place, Scope, Sys, Old, Saved, Save
<1>2. Place \subseteq Source /\ Lit(x) \in Source
  BY DEF Source, Lit
<1>3. ASSUME NEW D \in SUBSET Place, NEW a \in [D -> Source]
      PROVE  Statement("set", a) \in SqlStatement
  BY DEF Statement, SqlStatement, Kind
<1>4. ASSUME NEW p \in Place, NEW src \in Source
      PROVE  Statement("set", [q \in {p} |-> src]) \in SqlStatement
  <2>1. [q \in {p} |-> src] \in [{p} -> Source] /\ {p} \in SUBSET Place
    OBVIOUS
  <2> QED BY <2>1, <1>3
<1>5. SaveAndSet(v, x) \in SqlStatement
  <2> DEFINE a == [p \in {Old(v), Sys(v)} |-> IF p = Old(v) THEN Sys(v) ELSE Lit(x)]
  <2>1. a \in [{Old(v), Sys(v)} -> Source] /\ {Old(v), Sys(v)} \in SUBSET Place
    BY <1>1, <1>2
  <2>2. SaveAndSet(v, x) = Statement("set", a)
    BY DEF SaveAndSet
  <2> HIDE DEF a
  <2> QED BY <1>3, <2>1, <2>2
<1>6. SetNames(x) \in SqlStatement
  <2> DEFINE D == {Sys(u) : u \in CharsetTrio}
             a == [p \in D |-> Lit(x)]
  <2>1. D \in SUBSET Place
    BY DEF CharsetTrio, Variable, Place, Scope, Sys
  <2>2. SetNames(x) = Statement("set", a)
    BY DEF SetNames
  <2> HIDE DEF D
  <2>3. a \in [D -> Source]
    BY <1>2
  <2> HIDE DEF a
  <2> QED BY <1>3, <2>1, <2>2, <2>3
<1>7. \A u \in {Old(v), Saved(v), Save(v)} : u[2] = v
  BY DEF Old, Saved, Save
<1> QED BY <1>1, <1>2, <1>4, <1>5, <1>6, <1>7 DEF SetTo, SaveIn

LEMMA OtherLines ==
  ASSUME NEW V
  PROVE  {Ddl, Program, Dml, Lock, Unlock, Use} \subseteq BlockLines(V)
<1>1. << >> \in [{} -> Source] /\ {} \in SUBSET Place
  OBVIOUS
<1>2. \A kind \in Kind : Statement(kind, << >>) \in SqlStatement
  BY <1>1 DEF Statement, SqlStatement
<1>3. {Ddl, Dml, Lock, Unlock, Use} \subseteq SqlStatement
  BY <1>2 DEF Ddl, Dml, Lock, Unlock, Use, Kind
<1>4. Program \in SqlStatement
  BY <1>3 DEF Program, SqlStatement
<1>5. \A s \in {Ddl, Program, Dml, Lock, Unlock, Use} : s.kind # "set"
  BY DEF Ddl, Program, Dml, Lock, Unlock, Use, Statement
<1> QED BY <1>3, <1>4, <1>5 DEF BlockLines, BlockLine

LEMMA BlockSets ==
  ASSUME NEW V, NEW v \in Variable, NEW x \in Value, NEW w \in Variable
  PROVE  /\ SaveIn(Saved(v)) \in BlockLines(V) /\ SaveIn(Save(v)) \in BlockLines(V)
         /\ v \in V => /\ SetTo(v, Lit(x)) \in BlockLines(V)
                       /\ SetTo(v, Saved(w)) \in BlockLines(V)
                       /\ SetTo(v, Save(w)) \in BlockLines(V)
<1>1. ASSUME NEW place, place[1] \notin {"@OLD_", "@@"}, SaveIn(place) \in SqlStatement
      PROVE  SaveIn(place) \in BlockLines(V)
  <2>1. DOMAIN SaveIn(place).assign = {place}
    BY DEF SaveIn, Statement
  <2> QED BY <1>1, <2>1 DEF BlockLines, BlockLine
<1>2. ASSUME v \in V, NEW src, src[1] # "@OLD_", SetTo(v, src) \in SqlStatement
      PROVE  SetTo(v, src) \in BlockLines(V)
  <2>1. DOMAIN SetTo(v, src).assign = {Sys(v)} /\ SetTo(v, src).assign[Sys(v)] = src
    BY DEF SetTo, Statement
  <2>2. Sys(v)[1] = "@@" /\ Sys(v)[2] = v
    BY DEF Sys
  <2> QED BY <1>2, <2>1, <2>2 DEF BlockLines, BlockLine
<1>3. /\ Lit(x)[1] # "@OLD_" /\ Saved(w)[1] # "@OLD_" /\ Save(w)[1] # "@OLD_"
      /\ Saved(v)[1] \notin {"@OLD_", "@@"} /\ Save(v)[1] \notin {"@OLD_", "@@"}
  BY DEF Lit, Saved, Save
<1>4. SaveIn(Saved(v)) \in BlockLines(V) /\ SaveIn(Save(v)) \in BlockLines(V)
  BY <1>1, <1>3, SetLines
<1> QED BY <1>2, <1>3, <1>4, SetLines

-----------------------------------------------------------------------------
(* Sequences of lines *)

LEMMA CommentedLines ==
  ASSUME NEW S, S \subseteq SqlStatement, NEW s \in Seq(S)
  PROVE  /\ Len(Commented(s)) = Len(s) /\ Commented(s) \in Seq(SqlStatement)
         /\ \A i \in 1..Len(s) : /\ Commented(s)[i].kind = s[i].kind
                                 /\ Commented(s)[i].assign = s[i].assign
                                 /\ Commented(s)[i].definer = s[i].definer
<1>1. CASE s = << >>
  BY <1>1 DEF Commented
<1>2. CASE s # << >>
  <2> DEFINE first == [s[1] EXCEPT !.commented = TRUE]
  <2>1. s \in Seq(SqlStatement) /\ Len(s) \in Nat \ {0}
    BY <1>2, EmptySeq, SeqMonotonic
  <2>2. Tail(s) \in Seq(SqlStatement) /\ Len(Tail(s)) = Len(s) - 1
        /\ \A i \in 1..Len(Tail(s)) : Tail(s)[i] = s[i + 1]
    BY <1>2, <2>1, HeadTailProperties
  <2>3. s[1] \in SqlStatement
    BY <2>1, ElementOfSeq
  <2>4. first \in SqlStatement /\ first.kind = s[1].kind /\ first.assign = s[1].assign
        /\ first.definer = s[1].definer
    BY <2>3 DEF SqlStatement
  <2>5. << first >> \in Seq(SqlStatement) /\ Len(<< first >>) = 1 /\ << first >>[1] = first
    BY <2>4
  <2>6. Commented(s) = << first >> \o Tail(s)
    BY <1>2 DEF Commented
  <2> HIDE DEF first
  <2>7. /\ Commented(s) \in Seq(SqlStatement) /\ Len(Commented(s)) = Len(s)
        /\ \A i \in 1..Len(s) : Commented(s)[i] = IF i <= 1 THEN << first >>[i]
                                                            ELSE Tail(s)[i - 1]
    BY <2>1, <2>2, <2>5, <2>6, ConcatProperties
  <2>8. \A i \in 1..Len(s) : Commented(s)[i] = IF i = 1 THEN first ELSE s[i]
    BY <2>1, <2>2, <2>5, <2>7
  <2> QED BY <2>4, <2>7, <2>8
<1> QED BY <1>1, <1>2

LEMMA WhenLines ==
  ASSUME NEW S, NEW s \in Seq(S), NEW c \in BOOLEAN
  PROVE  When(c, s) \in Seq(S)
BY DEF When

LEMMA CommentedBlock ==
  ASSUME NEW V, NEW s \in Seq(BlockLines(V))
  PROVE  Commented(s) \in Seq(BlockLines(V))
<1>1. BlockLines(V) \subseteq SqlStatement
  BY DEF BlockLines
<1>2. /\ Commented(s) \in Seq(SqlStatement) /\ Len(Commented(s)) = Len(s)
      /\ \A i \in 1..Len(s) : /\ Commented(s)[i].kind = s[i].kind
                              /\ Commented(s)[i].assign = s[i].assign
  BY <1>1, CommentedLines
<1>3. \A i \in 1..Len(s) : Commented(s)[i] \in BlockLines(V)
  <2> SUFFICES ASSUME NEW i \in 1..Len(s) PROVE Commented(s)[i] \in BlockLines(V)
    OBVIOUS
  <2>1. s[i] \in BlockLines(V) /\ Commented(s)[i] \in SqlStatement
    BY <1>2, ElementOfSeq
  <2> QED BY <1>2, <2>1 DEF BlockLines, BlockLine
<1>4. Commented(s) \in [1..Len(s) -> BlockLines(V)] /\ Len(s) \in Nat
  BY <1>2, <1>3, LenProperties
<1> QED BY <1>4, SeqDef

\* A set of lines that holds what may stand in the context of an object holds
\* all of the context.
ContextIn(L, V) ==
  \A v \in V : /\ SaveIn(Saved(v)) \in L /\ SaveIn(Save(v)) \in L
               /\ SetTo(v, Lit("dump")) \in L /\ SetTo(v, Lit("object")) \in L
               /\ SetTo(v, Saved(v)) \in L /\ SetTo(v, Save(v)) \in L

\* The lines that open and close the context an object was created under.
LEMMA ContextLines ==
  ASSUME NEW e \in RenderedEntry, NEW V, NEW L, CharsetTrio \subseteq V, ContextIn(L, V), Ddl \in L
  PROVE  /\ WithTableCharset(Ddl) \in Seq(L) /\ SaveTrio \in Seq(L)
         /\ SetTrio(e) \in Seq(L) /\ BackTrio \in Seq(L)
         /\ "SQL_MODE" \in V => /\ renderCreationContextOpen(e) \in Seq(L)
                                /\ renderCreationContextClose \in Seq(L)
<1>v. {"CHARACTER_SET_CLIENT", "CHARACTER_SET_RESULTS", "COLLATION_CONNECTION"} = CharsetTrio
  BY DEF CharsetTrio
<1>c. \A s, t \in Seq(L) : s \o t \in Seq(L)
  BY ConcatProperties
<1>3. \A v \in CharsetTrio : /\ SaveIn(Saved(v)) \in L /\ SetTo(v, Lit("dump")) \in L
                             /\ SetTo(v, Lit("object")) \in L /\ SetTo(v, Saved(v)) \in L
  BY DEF ContextIn
<1>4. WithTableCharset(Ddl) \in Seq(L)
  BY <1>v, <1>3 DEF WithTableCharset, ClientCharset
<1>5. SaveTrio \in Seq(L)
  BY <1>v, <1>3 DEF SaveTrio
<1>6. BackTrio \in Seq(L)
  BY <1>v, <1>3 DEF BackTrio
<1>7. SetTrio(e) \in Seq(L)
  <2>1. /\ << SetTo("CHARACTER_SET_CLIENT", Lit("object")),
              SetTo("CHARACTER_SET_RESULTS", Lit("object")) >> \in Seq(L)
        /\ << SetTo("COLLATION_CONNECTION", Lit("object")) >> \in Seq(L)
    BY <1>v, <1>3
  <2>2. e.collation \in BOOLEAN
    BY DEF RenderedEntry
  <2>3. When(e.collation, << SetTo("COLLATION_CONNECTION", Lit("object")) >>) \in Seq(L)
    BY <2>1, <2>2, WhenLines
  <2> QED BY <1>c, <2>1, <2>3 DEF SetTrio
<1>8. "SQL_MODE" \in V =>
        renderCreationContextOpen(e) \in Seq(L) /\ renderCreationContextClose \in Seq(L)
  <2>1. "SQL_MODE" \in V =>
          /\ << SaveIn(Saved("SQL_MODE")), SetTo("SQL_MODE", Lit("object")) >> \in Seq(L)
          /\ << SetTo("SQL_MODE", Saved("SQL_MODE")) >> \in Seq(L)
    BY DEF ContextIn
  <2> QED BY <1>c, <1>5, <1>6, <1>7, <2>1
          DEF renderCreationContextOpen, renderCreationContextClose
<1> QED BY <1>4, <1>5, <1>6, <1>7, <1>8

\* What an entry's block assigns, by its type.
Assigned(e, V) ==
  /\ e.type \notin {"database", "tableData"} => CharsetTrio \subseteq V
  /\ e.type \in {"trigger", "routine", "event"} => "SQL_MODE" \in V
  /\ e.type = "event" => "TIME_ZONE" \in V

\* The lines of a block.
LEMMA LinesOfBlock ==
  ASSUME NEW o \in RenderOptions, NEW e \in RenderedEntry, NEW V, NEW L, Assigned(e, V),
         ContextIn(L, V), {Ddl, Program, Dml, Use} \subseteq L,
         e.type = "tableData" /\ o.addLocks => {Lock, Unlock} \subseteq L,
         \A s \in Seq(L) : Commented(s) \in Seq(L)
  PROVE  renderEntry(o, e) \in Seq(L)
<1>o. /\ \A c \in {o.setCharset, o.includeSessionGuards, o.timeZone, o.addLocks, o.disableKeys,
                   o.addDropTable, e.collation, e.first, e.last} : c \in BOOLEAN
      /\ e.inserts \in Nat
  BY DEF RenderOptions, RenderedEntry
<1>c. \A s, t \in Seq(L) : s \o t \in Seq(L)
  BY ConcatProperties
<1>w. \A s \in Seq(L) : \A c \in BOOLEAN : When(c, s) \in Seq(L)
  BY WhenLines
<1>3. CharsetTrio \subseteq V => WithTableCharset(Ddl) \in Seq(L) /\ SaveTrio \in Seq(L)
                                 /\ SetTrio(e) \in Seq(L) /\ BackTrio \in Seq(L)
  BY ContextLines
<1>4. CharsetTrio \subseteq V /\ "SQL_MODE" \in V =>
        renderCreationContextOpen(e) \in Seq(L) /\ renderCreationContextClose \in Seq(L)
  BY ContextLines
<1>5. /\ << Ddl >> \in Seq(L) /\ << Ddl, Ddl >> \in Seq(L) /\ << Program >> \in Seq(L)
      /\ << >> \in Seq(L) /\ << Use >> \in Seq(L)
      /\ [i \in 1..e.inserts |-> Dml] \in Seq(L)
  BY <1>o
<1>6. CASE e.type = "table"
  <2>1. renderTableStructure(o, e) \in Seq(L)
    BY <1>o, <1>c, <1>w, <1>3, <1>5, <1>6 DEF renderTableStructure, Assigned
  <2> QED BY <1>6, <2>1 DEF renderEntry
<1>7. CASE e.type = "tableData"
  <2>1. When(o.addLocks, << Lock >>) \in Seq(L) /\ When(o.addLocks, << Unlock >>) \in Seq(L)
    BY <1>o, <1>5, <1>7 DEF When
  <2>2. renderTableData(o, e) \in Seq(L)
    BY <1>o, <1>c, <1>w, <1>5, <2>1 DEF renderTableData
  <2> QED BY <1>7, <2>2 DEF renderEntry
<1>8. CASE e.type = "viewStub"
  <2>1. renderViewStub(o, e) \in Seq(L)
    BY <1>o, <1>c, <1>w, <1>3, <1>5, <1>8 DEF renderViewStub, Assigned
  <2> QED BY <1>8, <2>1 DEF renderEntry
<1>9. CASE e.type = "view"
  <2>1. renderView(o, e) \in Seq(L)
    BY <1>o, <1>c, <1>w, <1>3, <1>5, <1>9 DEF renderView, Assigned
  <2> QED BY <1>9, <2>1 DEF renderEntry
<1>10. CASE e.type = "trigger"
  <2>1. renderTrigger(o, e) \in Seq(L)
    BY <1>c, <1>4, <1>5, <1>10 DEF renderTrigger, Assigned
  <2> QED BY <1>10, <2>1 DEF renderEntry
<1>11. CASE e.type = "routine"
  <2>1. renderRoutine(o, e) \in Seq(L)
    BY <1>o, <1>c, <1>w, <1>4, <1>5, <1>11 DEF renderRoutine, Assigned
  <2> QED BY <1>11, <2>1 DEF renderEntry
<1>12. CASE e.type = "event"
  <2>1. /\ << SaveIn(Saved("TIME_ZONE")), SetTo("TIME_ZONE", Lit("object")), Program,
              SetTo("TIME_ZONE", Saved("TIME_ZONE")) >> \in Seq(L)
        /\ << SaveIn(Save("TIME_ZONE")) >> \in Seq(L)
        /\ << SetTo("TIME_ZONE", Save("TIME_ZONE")) >> \in Seq(L)
    BY <1>12 DEF ContextIn, Assigned
  <2>2. renderEvent(o, e) \in Seq(L)
    BY <1>o, <1>c, <1>w, <1>4, <1>5, <1>12, <2>1 DEF renderEvent, Assigned
  <2> QED BY <1>12, <2>2 DEF renderEntry
<1>13. CASE e.type = "database"
  <2>1. /\ o.includeCreateDatabase \in BOOLEAN /\ o.includeUseDatabase \in BOOLEAN
    BY DEF RenderOptions
  <2>2. renderDatabase(o, e) \in Seq(L)
    BY <1>c, <1>w, <1>5, <2>1 DEF renderDatabase
  <2> QED BY <1>13, <2>2 DEF renderEntry
<1> QED BY <1>6, <1>7, <1>8, <1>9, <1>10, <1>11, <1>12, <1>13 DEF RenderedEntry

LEMMA ContextInBlock ==
  ASSUME NEW V \in SUBSET Variable
  PROVE  ContextIn(BlockLines(V), V)
BY BlockSets DEF ContextIn, Value

\* What a block assigns.
LEMMA BlockAssigns ==
  ASSUME NEW o \in RenderOptions, NEW e \in RenderedEntry, NEW V \in SUBSET Variable,
         Assigned(e, V)
  PROVE  renderEntry(o, e) \in Seq(BlockLines(V))
<1>1. {Ddl, Program, Dml, Lock, Unlock, Use} \subseteq BlockLines(V)
  BY OtherLines
<1>2. \A s \in Seq(BlockLines(V)) : Commented(s) \in Seq(BlockLines(V))
  BY CommentedBlock
<1> QED BY <1>1, <1>2, ContextInBlock, LinesOfBlock

LEMMA LeastElement ==
  ASSUME NEW T, T \subseteq Nat, T # {}
  PROVE  \E x \in T : \A y \in T : x <= y
<1>1. PICK x \in T : \A y \in T : ~(<< y, x >> \in OpToRel(<, Nat))
  BY NatLessThanWellFounded, WFMin
<1>2. ASSUME NEW y \in T PROVE x <= y
  <2>1. ~(y < x)
    BY <1>1 DEF OpToRel
  <2> QED BY <2>1
<1> QED BY <1>2

\* A set that holds zero and with a number the next holds every number.
LEMMA FromZeroUp ==
  ASSUME NEW n \in Nat, NEW T, 0 \in T, \A m \in 0..(n - 1) : m \in T => m + 1 \in T
  PROVE  n \in T
<1> DEFINE Out == {m \in 0..n : m \notin T}
<1>1. SUFFICES ASSUME Out # {} PROVE FALSE
  OBVIOUS
<1>2. Out \subseteq Nat
  OBVIOUS
<1> HIDE DEF Out
<1>3. PICK m \in Out : \A k \in Out : m <= k
  BY <1>1, <1>2, LeastElement
<1> USE DEF Out
<1>4. m # 0 /\ m - 1 \in 0..(n - 1) /\ m - 1 \in 0..n
  BY <1>3
<1>5. m - 1 \in T
  BY <1>3, <1>4
<1> QED BY <1>3, <1>4, <1>5

\* The lines of a flattened sequence are those of its members.
LEMMA FlattenedLines ==
  ASSUME NEW S, NEW n \in Nat, NEW ss \in [1..n -> Seq(S)]
  PROVE  /\ FlattenSeq(ss) \in Seq(S)
         /\ \A k \in 1..n : \A i \in 1..Len(ss[k]) :
              \E j \in 1..Len(FlattenSeq(ss)) : FlattenSeq(ss)[j] = ss[k][i]
<1> DEFINE Def(f, m) == f = [i \in 1..m |-> IF i = 1 THEN ss[i] ELSE f[i - 1] \o ss[i]]
<1>1. ss \in Seq(Seq(S)) /\ Len(ss) = n
  BY SeqDef
<1>2. CASE n = 0
  BY <1>1, <1>2 DEF FlattenSeq
<1>3. CASE n # 0
  <2>1. \E f : Def(f, n)
    <3> DEFINE T == {m \in Nat : \E f : Def(f, m)}
    <3>1. 0 \in T
      <4>1. Def([i \in 1..0 |-> ss[i]], 0)
        OBVIOUS
      <4> QED BY <4>1
    <3>2. ASSUME NEW m \in 0..(n - 1), m \in T PROVE m + 1 \in T
      <4>1. PICK f : Def(f, m)
        BY <3>2
      <4>2. \A i \in 1..m : f[i] = IF i = 1 THEN ss[i] ELSE f[i - 1] \o ss[i]
        BY <4>1
      <4> DEFINE g == [i \in 1..(m + 1) |-> IF i <= m THEN f[i]
                          ELSE IF m = 0 THEN ss[1] ELSE f[m] \o ss[m + 1]]
      <4>3. ASSUME NEW i \in 1..(m + 1)
            PROVE  g[i] = IF i = 1 THEN ss[i] ELSE g[i - 1] \o ss[i]
        <5>1. CASE i <= m
          <6>1. g[i] = f[i] /\ i \in 1..m
            BY <5>1
          <6>2. i # 1 => g[i - 1] = f[i - 1]
            BY <5>1
          <6> QED BY <4>2, <6>1, <6>2
        <5>2. CASE i = m + 1 /\ m = 0
          BY <5>2
        <5>3. CASE i = m + 1 /\ m # 0
          <6>0. ~(i <= m) /\ i - 1 \in 1..(m + 1) /\ i - 1 <= m /\ i - 1 = m
            BY <5>3
          <6>1. g[i] = f[m] \o ss[m + 1] /\ g[i - 1] = f[m]
            BY <5>3, <6>0
          <6> QED BY <5>3, <6>1
        <5> QED BY <5>1, <5>2, <5>3
      <4>4. g = [i \in 1..(m + 1) |-> g[i]]
        OBVIOUS
      <4> HIDE DEF g
      <4>5. Def(g, m + 1)
        BY <4>3, <4>4
      <4>6. m + 1 \in Nat
        OBVIOUS
      <4> HIDE DEF Def
      <4> QED BY <4>5, <4>6
    <3>3. \A m \in 0..(n - 1) : m \in T => m + 1 \in T
      BY <3>2
    <3> HIDE DEF T
    <3>4. n \in T
      BY <3>1, <3>3, FromZeroUp
    <3> QED BY <3>4 DEF T
  <2> DEFINE f == CHOOSE f : Def(f, n)
  <2>2. Def(f, n)
    BY <2>1
  <2>3. FlattenSeq(ss) = f[n]
    BY <1>1, <1>3 DEF FlattenSeq
  <2> HIDE DEF f
  <2>d. \A i \in 1..n : f[i] = IF i = 1 THEN ss[i] ELSE f[i - 1] \o ss[i]
    BY <2>2
  <2> DEFINE Whole(m) == /\ f[m] \in Seq(S)
                         /\ \A k \in 1..m : \A i \in 1..Len(ss[k]) :
                              \E j \in 1..Len(f[m]) : f[m][j] = ss[k][i]
             T == {m \in Nat : m # 0 => Whole(m)}
  <2>4. 0 \in T
    OBVIOUS
  <2>5. ASSUME NEW m \in 0..(n - 1), m \in T PROVE m + 1 \in T
    <3>1. ss[m + 1] \in Seq(S) /\ m + 1 \in 1..n
      OBVIOUS
    <3>2. CASE m = 0
      <4>1. f[1] = ss[1]
        BY <1>3, <2>d
      <4>2. Whole(1)
        BY <3>1, <3>2, <4>1
      <4> QED BY <3>2, <4>2
    <3>3. CASE m # 0
      <4>1. f[m + 1] = f[m] \o ss[m + 1]
        <5>1. m + 1 \in 1..n /\ m + 1 # 1 /\ (m + 1) - 1 = m
          BY <3>3
        <5> QED BY <2>d, <5>1
      <4>2. Whole(m)
        BY <2>5, <3>3
      <4> DEFINE s == f[m]
                 t == ss[m + 1]
      <4>3. s \in Seq(S) /\ t \in Seq(S)
        BY <3>1, <4>2
      <4>4. \A k \in 1..m : \A i \in 1..Len(ss[k]) : \E j \in 1..Len(s) : s[j] = ss[k][i]
        BY <4>2
      <4>5. f[m + 1] = s \o t
        BY <4>1
      <4> HIDE DEF s
      <4>6. /\ s \o t \in Seq(S) /\ Len(s \o t) = Len(s) + Len(t)
            /\ \A j \in 1..(Len(s) + Len(t)) :
                 (s \o t)[j] = IF j <= Len(s) THEN s[j] ELSE t[j - Len(s)]
        BY <4>3, ConcatProperties
      <4>7. Len(s) \in Nat /\ Len(t) \in Nat
        BY <4>3, LenProperties
      <4>8. ASSUME NEW k \in 1..(m + 1), NEW i \in 1..Len(ss[k])
            PROVE  \E j \in 1..Len(s \o t) : (s \o t)[j] = ss[k][i]
        <5>1. CASE k = m + 1
          <6>1. Len(s) + i \in 1..Len(s \o t) /\ (s \o t)[Len(s) + i] = ss[k][i]
            BY <4>6, <4>7, <5>1
          <6> QED BY <6>1
        <5>2. CASE k # m + 1
          <6>0. k \in 1..m
            BY <5>2
          <6>1. PICK j \in 1..Len(s) : s[j] = ss[k][i]
            BY <4>4, <6>0
          <6>2. j \in 1..Len(s \o t) /\ (s \o t)[j] = ss[k][i]
            BY <4>6, <4>7, <6>1
          <6> QED BY <6>2
        <5> QED BY <5>1, <5>2
      <4>9. f[m + 1] \in Seq(S)
        BY <4>5, <4>6
      <4>10. ASSUME NEW k \in 1..(m + 1), NEW i \in 1..Len(ss[k])
             PROVE  \E j \in 1..Len(f[m + 1]) : f[m + 1][j] = ss[k][i]
        <5>1. PICK j \in 1..Len(s \o t) : (s \o t)[j] = ss[k][i]
          BY <4>8
        <5>2. j \in 1..Len(f[m + 1]) /\ f[m + 1][j] = ss[k][i]
          BY <4>5, <5>1
        <5> QED BY <5>2
      <4> QED BY <4>9, <4>10
    <3> QED BY <3>2, <3>3
  <2>6. \A m \in 0..(n - 1) : m \in T => m + 1 \in T
    BY <2>5
  <2> HIDE DEF T
  <2>7. n \in T
    BY <2>4, <2>6, FromZeroUp
  <2>8. Whole(n)
    BY <1>3, <2>7 DEF T
  <2> QED BY <2>3, <2>8
<1> QED BY <1>2, <1>3

-----------------------------------------------------------------------------
(* Header and footer *)

\* The places of a variable are different, and so are those of two variables.
LEMMA PlacesDiffer ==
  ASSUME NEW v, NEW w, NEW x
  PROVE  /\ Old(v) # Sys(w) /\ Lit(x) # Old(v)
         /\ (Old(v) = Old(w) <=> v = w) /\ (Sys(v) = Sys(w) <=> v = w)
BY DEF Old, Sys, Lit

LEMMA SaveLine ==
  ASSUME NEW u \in Variable, NEW v \in Variable
  PROVE  /\ SaveIn(Old(u)).kind = "set" /\ IsHeaderLine(SaveIn(Old(u)))
         /\ Old(v) \in DOMAIN SaveIn(Old(u)).assign <=> v = u
         /\ Sys(v) \notin DOMAIN SaveIn(Old(u)).assign
         /\ u \in DetectedBySave => Changes(SaveIn(Old(u)), u)
<1> DEFINE x == SaveIn(Old(u))
<1>1. x.kind = "set" /\ ~x.definer /\ DOMAIN x.assign = {Old(u)} /\ x.assign[Old(u)] = Sys(u)
  BY DEF SaveIn, Statement, Old
<1> HIDE DEF x
<1>2. Old(u)[1] = "@OLD_" /\ Old(u)[2] = u
  BY DEF Old
<1>3. IsHeaderLine(x)
  BY <1>1, <1>2 DEF IsHeaderLine
<1>4. u \in DetectedBySave => Changes(x, u)
  BY <1>1 DEF Changes, DetectedBySave, DetectedByZero, CharsetTrio
<1>5. /\ Old(v) \in DOMAIN x.assign <=> v = u
      /\ Sys(v) \notin DOMAIN x.assign
  BY <1>1, PlacesDiffer
<1> QED BY <1>1, <1>3, <1>4, <1>5 DEF x

LEMMA NamesLine ==
  ASSUME NEW v \in Variable
  PROVE  /\ SetNames("dump").kind = "set" /\ Old(v) \notin DOMAIN SetNames("dump").assign
         /\ Sys(v) \in DOMAIN SetNames("dump").assign <=> v \in CharsetTrio
         /\ ~PutsBack(SetNames("dump"), v)
         /\ v \in CharsetTrio => Changes(SetNames("dump"), v)
<1> DEFINE x == SetNames("dump")
<1>1. /\ x.kind = "set" /\ DOMAIN x.assign = {Sys(u) : u \in CharsetTrio}
      /\ \A p \in DOMAIN x.assign : x.assign[p] = Lit("dump")
  BY DEF SetNames, Statement
<1> HIDE DEF x
<1>2. Old(v) \notin DOMAIN x.assign
  BY <1>1, PlacesDiffer
<1>3. Sys(v) \in DOMAIN x.assign <=> v \in CharsetTrio
  BY <1>1, PlacesDiffer
<1>4. ~PutsBack(x, v)
  BY <1>1, PlacesDiffer DEF PutsBack
<1>5. v \in CharsetTrio => Changes(x, v)
  BY <1>3 DEF Changes, DetectedByZero, DetectedBySave, CharsetTrio
<1> QED BY <1>1, <1>2, <1>3, <1>4, <1>5 DEF x

LEMMA SetLine ==
  ASSUME NEW u \in Variable, NEW v \in Variable, NEW src
  PROVE  /\ SetTo(u, src).kind = "set" /\ Old(v) \notin DOMAIN SetTo(u, src).assign
         /\ Sys(v) \in DOMAIN SetTo(u, src).assign <=> v = u
         /\ PutsBack(SetTo(u, src), v) <=> v = u /\ src = Old(u)
<1> DEFINE x == SetTo(u, src)
<1>1. x.kind = "set" /\ DOMAIN x.assign = {Sys(u)} /\ x.assign[Sys(u)] = src
  BY DEF SetTo, Statement
<1> HIDE DEF x
<1>2. Old(v) \notin DOMAIN x.assign /\ (Sys(v) \in DOMAIN x.assign <=> v = u)
  BY <1>1, PlacesDiffer
<1>3. PutsBack(x, v) <=> v = u /\ src = Old(u)
  BY <1>1, <1>2 DEF PutsBack
<1> QED BY <1>1, <1>2, <1>3 DEF x

LEMMA SaveAndSetLine ==
  ASSUME NEW u \in {"UNIQUE_CHECKS", "FOREIGN_KEY_CHECKS", "SQL_MODE", "SQL_NOTES"},
         NEW v \in Variable
  PROVE  /\ SaveAndSet(u, "dump").kind = "set" /\ IsHeaderLine(SaveAndSet(u, "dump"))
         /\ Old(v) \in DOMAIN SaveAndSet(u, "dump").assign <=> v = u
         /\ Sys(v) \in DOMAIN SaveAndSet(u, "dump").assign <=> v = u
         /\ ~PutsBack(SaveAndSet(u, "dump"), v) /\ Changes(SaveAndSet(u, "dump"), u)
<1> DEFINE x == SaveAndSet(u, "dump")
<1>0. Old(u) # Sys(u)
  BY PlacesDiffer
<1>1. /\ x.kind = "set" /\ ~x.definer /\ DOMAIN x.assign = {Old(u), Sys(u)}
      /\ x.assign[Old(u)] = Sys(u) /\ x.assign[Sys(u)] = Lit("dump")
  BY <1>0 DEF SaveAndSet, Statement
<1> HIDE DEF x
<1>2. /\ Old(u)[1] = "@OLD_" /\ Old(u)[2] = u /\ Sys(u)[1] = "@@"
  BY DEF Old, Sys
<1>3. IsHeaderLine(x)
  BY <1>1, <1>2 DEF IsHeaderLine
<1>4. /\ Old(v) \in DOMAIN x.assign <=> v = u
      /\ Sys(v) \in DOMAIN x.assign <=> v = u
  BY <1>1, PlacesDiffer
<1>5. ~PutsBack(x, v)
  BY <1>1, <1>4, PlacesDiffer DEF PutsBack
<1>6. Changes(x, u)
  BY <1>1 DEF Changes, DetectedByZero, DetectedBySave
<1> QED BY <1>1, <1>3, <1>4, <1>5, <1>6 DEF x

\* Saves and ends of a variable in a part of a script are those of the whole,
\* when the other part leaves the variable alone.
LEMMA PartsTogether ==
  ASSUME NEW s \in Seq(SqlStatement), NEW t \in Seq(SqlStatement), NEW v
  PROVE  /\ Untouched(s, v) /\ Untouched(t, v) => Untouched(s \o t, v)
         /\ Opens(s, v) /\ Untouched(t, v) => Opens(s \o t, v)
         /\ Untouched(s, v) /\ Opens(t, v) => Opens(s \o t, v)
         /\ Closes(s, v) /\ Untouched(t, v) => Closes(s \o t, v)
         /\ Untouched(s, v) /\ Closes(t, v) => Closes(s \o t, v)
<1> DEFINE w == s \o t
<1>1. /\ DOMAIN s = 1..Len(s) /\ DOMAIN t = 1..Len(t) /\ DOMAIN w = 1..Len(w)
      /\ Len(s) \in Nat /\ Len(t) \in Nat /\ Len(w) = Len(s) + Len(t)
      /\ \A i \in DOMAIN w : w[i] = IF i <= Len(s) THEN s[i] ELSE t[i - Len(s)]
  BY ConcatProperties, LenProperties
<1> HIDE DEF w
<1>2. /\ \A i \in DOMAIN s : i \in DOMAIN w /\ w[i] = s[i]
      /\ \A i \in DOMAIN t : Len(s) + i \in DOMAIN w /\ w[Len(s) + i] = t[i]
      /\ \A i \in DOMAIN w : i \in DOMAIN s \/ i - Len(s) \in DOMAIN t
      /\ \A i \in DOMAIN w : i \notin DOMAIN s => w[i] = t[i - Len(s)]
  BY <1>1
<1>3. Untouched(s, v) /\ Untouched(t, v) => Untouched(w, v)
  BY <1>2 DEF Untouched
<1>4. \A r, i : Sets(r, i, Old(v)) \/ Sets(r, i, Sys(v)) <=> Touches(r[i], v)
  BY DEF Sets, Touches
<1>5. ASSUME Opens(s, v), Untouched(t, v) PROVE Opens(w, v)
  <2>1. PICK h \in DOMAIN s :
          /\ IsHeaderLine(s[h]) /\ Old(v) \in DOMAIN s[h].assign
          /\ \A i \in DOMAIN s :
               /\ Sets(s, i, Old(v)) => i = h
               /\ Sets(s, i, Sys(v)) =>
                    h <= i /\ ~PutsBack(s[i], v) /\ (Changes(s[i], v) \/ Changes(s[h], v))
    BY <1>5 DEF Opens
  <2>2. \A i \in DOMAIN w :
          /\ Sets(w, i, Old(v)) => i = h
          /\ Sets(w, i, Sys(v)) =>
               h <= i /\ ~PutsBack(w[i], v) /\ (Changes(w[i], v) \/ Changes(w[h], v))
    <3> SUFFICES ASSUME NEW i \in DOMAIN w, Touches(w[i], v)
                 PROVE  /\ Sets(w, i, Old(v)) => i = h
                        /\ Sets(w, i, Sys(v)) =>
                             /\ h <= i /\ ~PutsBack(w[i], v)
                             /\ Changes(w[i], v) \/ Changes(w[h], v)
      BY <1>4
    <3>1. i \in DOMAIN s
      BY <1>2, <1>5 DEF Untouched
    <3>2. w[i] = s[i] /\ w[h] = s[h]
      BY <1>2, <2>1, <3>1
    <3> QED BY <2>1, <3>1, <3>2 DEF Sets
  <2> QED BY <1>2, <2>1, <2>2 DEF Opens
<1>6. ASSUME Untouched(s, v), Opens(t, v) PROVE Opens(w, v)
  <2>1. PICK h \in DOMAIN t :
          /\ IsHeaderLine(t[h]) /\ Old(v) \in DOMAIN t[h].assign
          /\ \A i \in DOMAIN t :
               /\ Sets(t, i, Old(v)) => i = h
               /\ Sets(t, i, Sys(v)) =>
                    h <= i /\ ~PutsBack(t[i], v) /\ (Changes(t[i], v) \/ Changes(t[h], v))
    BY <1>6 DEF Opens
  <2>2. \A i \in DOMAIN w :
          /\ Sets(w, i, Old(v)) => i = Len(s) + h
          /\ Sets(w, i, Sys(v)) =>
               /\ Len(s) + h <= i /\ ~PutsBack(w[i], v)
               /\ Changes(w[i], v) \/ Changes(w[Len(s) + h], v)
    <3> SUFFICES ASSUME NEW i \in DOMAIN w, Touches(w[i], v)
                 PROVE  /\ Sets(w, i, Old(v)) => i = Len(s) + h
                        /\ Sets(w, i, Sys(v)) =>
                             /\ Len(s) + h <= i /\ ~PutsBack(w[i], v)
                             /\ Changes(w[i], v) \/ Changes(w[Len(s) + h], v)
      BY <1>4
    <3>1. i \notin DOMAIN s
      BY <1>2, <1>6 DEF Untouched
    <3>2. PICK k \in DOMAIN t : k = i - Len(s)
      BY <1>2, <3>1
    <3>3. w[i] = t[k] /\ w[Len(s) + h] = t[h] /\ i = Len(s) + k
      BY <1>1, <1>2, <2>1, <3>1, <3>2
    <3>4. /\ Sets(t, k, Old(v)) => k = h
          /\ Sets(t, k, Sys(v)) =>
               h <= k /\ ~PutsBack(t[k], v) /\ (Changes(t[k], v) \/ Changes(t[h], v))
      BY <2>1
    <3>5. h \in Nat /\ k \in Nat
      BY <1>1
    <3> QED BY <1>1, <3>3, <3>4, <3>5 DEF Sets
  <2>3. Len(s) + h \in DOMAIN w /\ w[Len(s) + h] = t[h]
    BY <1>2
  <2> QED BY <2>1, <2>2, <2>3 DEF Opens
<1>7. ASSUME Closes(s, v), Untouched(t, v) PROVE Closes(w, v)
  <2>1. PICK f \in DOMAIN s :
          /\ s[f].kind = "set" /\ PutsBack(s[f], v) /\ Old(v) \notin DOMAIN s[f].assign
          /\ \A i \in DOMAIN s : Touches(s[i], v) => i = f
    BY <1>7 DEF Closes
  <2>2. f \in DOMAIN w /\ w[f] = s[f]
    BY <1>2
  <2>3. \A i \in DOMAIN w : Touches(w[i], v) => i = f
    BY <1>2, <1>7, <2>1 DEF Untouched
  <2> QED BY <2>1, <2>2, <2>3 DEF Closes
<1>8. ASSUME Untouched(s, v), Closes(t, v) PROVE Closes(w, v)
  <2>1. PICK f \in DOMAIN t :
          /\ t[f].kind = "set" /\ PutsBack(t[f], v) /\ Old(v) \notin DOMAIN t[f].assign
          /\ \A i \in DOMAIN t : Touches(t[i], v) => i = f
    BY <1>8 DEF Closes
  <2>2. Len(s) + f \in DOMAIN w /\ w[Len(s) + f] = t[f]
    BY <1>2
  <2>3. \A i \in DOMAIN w : Touches(w[i], v) => i - Len(s) = f
    BY <1>2, <1>8, <2>1 DEF Untouched
  <2>4. \A i \in DOMAIN w : Touches(w[i], v) => i = Len(s) + f
    BY <1>1, <2>3
  <2> QED BY <2>1, <2>2, <2>4 DEF Closes
<1> QED BY <1>3, <1>5, <1>6, <1>7, <1>8 DEF w

LEMMA CommentedParts ==
  ASSUME NEW s \in Seq(SqlStatement), NEW v
  PROVE  /\ Untouched(s, v) => Untouched(Commented(s), v)
         /\ Opens(s, v) => Opens(Commented(s), v)
<1> DEFINE t == Commented(s)
<1>1. /\ DOMAIN s = 1..Len(s) /\ DOMAIN t = DOMAIN s
      /\ \A i \in DOMAIN s : /\ t[i].kind = s[i].kind /\ t[i].assign = s[i].assign
                             /\ t[i].definer = s[i].definer
  BY CommentedLines, LenProperties
<1> HIDE DEF t
<1>2. Untouched(s, v) => Untouched(t, v)
  BY <1>1 DEF Untouched, Touches
<1>3. \A i \in DOMAIN s : /\ IsHeaderLine(t[i]) <=> IsHeaderLine(s[i])
                          /\ PutsBack(t[i], v) <=> PutsBack(s[i], v)
                          /\ Changes(t[i], v) <=> Changes(s[i], v)
                          /\ \A p : Sets(t, i, p) <=> Sets(s, i, p)
  BY <1>1 DEF IsHeaderLine, PutsBack, Changes, Sets
<1>4. ASSUME Opens(s, v) PROVE Opens(t, v)
  <2>1. PICK h \in DOMAIN s :
          /\ IsHeaderLine(s[h]) /\ Old(v) \in DOMAIN s[h].assign
          /\ \A i \in DOMAIN s :
               /\ Sets(s, i, Old(v)) => i = h
               /\ Sets(s, i, Sys(v)) =>
                    h <= i /\ ~PutsBack(s[i], v) /\ (Changes(s[i], v) \/ Changes(s[h], v))
    BY <1>4 DEF Opens
  <2> QED BY <1>1, <1>3, <2>1 DEF Opens
<1> QED BY <1>2, <1>4 DEF t

\* The header saves the variables of Saves and leaves the others alone.
LEMMA HeaderSaves ==
  ASSUME NEW o \in RenderOptions, NEW v \in Variable
  PROVE  /\ headerGuardLines(o) \in Seq(SqlStatement)
         /\ IF v \in Saves(o) THEN Opens(headerGuardLines(o), v)
                              ELSE Untouched(headerGuardLines(o), v)
<1> DEFINE A == << SaveIn(Old("CHARACTER_SET_CLIENT")), SaveIn(Old("CHARACTER_SET_RESULTS")),
                   SaveIn(Old("COLLATION_CONNECTION")), SetNames("dump") >>
           B == << SaveIn(Old("TIME_ZONE")), SetTo("TIME_ZONE", Lit("dump")) >>
           C == << SaveAndSet("UNIQUE_CHECKS", "dump"), SaveAndSet("FOREIGN_KEY_CHECKS", "dump"),
                   SaveAndSet("SQL_MODE", "dump"), SaveAndSet("SQL_NOTES", "dump") >>
           Four == {"UNIQUE_CHECKS", "FOREIGN_KEY_CHECKS", "SQL_MODE", "SQL_NOTES"}
<1>o. /\ o.setCharset \in BOOLEAN /\ o.includeSessionGuards \in BOOLEAN /\ o.timeZone \in BOOLEAN
  BY DEF RenderOptions
<1>v. /\ CharsetTrio \subseteq Variable /\ Four \subseteq Variable /\ "TIME_ZONE" \in Variable
      /\ "dump" \in Value /\ "TIME_ZONE" \in DetectedBySave
  BY DEF CharsetTrio, Variable, Value, DetectedBySave
<1>1. A \in Seq(SqlStatement) /\ B \in Seq(SqlStatement) /\ C \in Seq(SqlStatement)
  <2>1. \A u \in Variable : /\ SaveIn(Old(u)) \in SqlStatement
                            /\ SetTo(u, Lit("dump")) \in SqlStatement
                            /\ SaveAndSet(u, "dump") \in SqlStatement
                            /\ SetNames("dump") \in SqlStatement
    BY <1>v, SetLines
  <2> QED BY <1>v, <2>1 DEF CharsetTrio
<1>2. IF v \in CharsetTrio THEN Opens(A, v) ELSE Untouched(A, v)
  <2>1. /\ DOMAIN A = 1..4 /\ A[4] = SetNames("dump")
        /\ A[1] = SaveIn(Old("CHARACTER_SET_CLIENT")) /\ A[2] = SaveIn(Old("CHARACTER_SET_RESULTS"))
        /\ A[3] = SaveIn(Old("COLLATION_CONNECTION"))
    OBVIOUS
  <2> DEFINE u == << "CHARACTER_SET_CLIENT", "CHARACTER_SET_RESULTS", "COLLATION_CONNECTION" >>
  <2>2. \A i \in 1..3 : u[i] \in Variable /\ A[i] = SaveIn(Old(u[i]))
    BY <1>v, <2>1 DEF CharsetTrio
  <2>3. \A i, j \in 1..3 : u[i] = u[j] => i = j
    OBVIOUS
  <2>4. v \in CharsetTrio <=> \E i \in 1..3 : v = u[i]
    BY DEF CharsetTrio
  <2> HIDE DEF A, u
  <2>5. \A i \in 1..3 : /\ A[i].kind = "set" /\ IsHeaderLine(A[i])
                        /\ Old(v) \in DOMAIN A[i].assign <=> v = u[i]
                        /\ Sys(v) \notin DOMAIN A[i].assign
    BY <2>2, SaveLine
  <2>6. \A i \in DOMAIN A : i \in 1..3 \/ i = 4
    BY <2>1
  <2>7. CASE v \in CharsetTrio
    <3>1. PICK h \in 1..3 : v = u[h]
      BY <2>4, <2>7
    <3>2. \A i \in DOMAIN A : Sets(A, i, Old(v)) => i = h
      BY <2>1, <2>3, <2>5, <2>6, <3>1, NamesLine DEF Sets
    <3>3. \A i \in DOMAIN A : Sets(A, i, Sys(v)) => i = 4
      BY <2>5, <2>6 DEF Sets
    <3>4. h <= 4 /\ ~PutsBack(A[4], v) /\ Changes(A[4], v) /\ h \in DOMAIN A
      BY <2>1, <2>7, NamesLine
    <3>5. IsHeaderLine(A[h]) /\ Old(v) \in DOMAIN A[h].assign
      BY <2>5, <3>1
    <3> QED BY <2>7, <3>2, <3>3, <3>4, <3>5 DEF Opens
  <2>8. CASE v \notin CharsetTrio
    <3>1. \A i \in 1..3 : ~Touches(A[i], v)
      BY <2>4, <2>5, <2>8 DEF Touches
    <3>2. ~Touches(A[4], v)
      BY <2>1, <2>8, NamesLine DEF Touches
    <3> QED BY <2>6, <2>8, <3>1, <3>2 DEF Untouched
  <2> QED BY <2>7, <2>8
<1>3. IF v = "TIME_ZONE" THEN Opens(B, v) ELSE Untouched(B, v)
  <2>1. /\ DOMAIN B = {1, 2} /\ B[1] = SaveIn(Old("TIME_ZONE"))
        /\ B[2] = SetTo("TIME_ZONE", Lit("dump"))
    OBVIOUS
  <2> HIDE DEF B
  <2>2. /\ B[1].kind = "set" /\ IsHeaderLine(B[1])
        /\ Old(v) \in DOMAIN B[1].assign <=> v = "TIME_ZONE"
        /\ Sys(v) \notin DOMAIN B[1].assign /\ Changes(B[1], "TIME_ZONE")
    BY <1>v, <2>1, SaveLine
  <2>3. /\ B[2].kind = "set" /\ Old(v) \notin DOMAIN B[2].assign
        /\ Sys(v) \in DOMAIN B[2].assign <=> v = "TIME_ZONE"
        /\ ~PutsBack(B[2], v)
    BY <1>v, <2>1, SetLine, PlacesDiffer
  <2>4. CASE v = "TIME_ZONE"
    BY <2>1, <2>2, <2>3, <2>4 DEF Opens, Sets
  <2>5. CASE v # "TIME_ZONE"
    BY <2>1, <2>2, <2>3, <2>5 DEF Untouched, Touches
  <2> QED BY <2>4, <2>5
<1>4. IF v \in Four THEN Opens(C, v) ELSE Untouched(C, v)
  <2> DEFINE u == << "UNIQUE_CHECKS", "FOREIGN_KEY_CHECKS", "SQL_MODE", "SQL_NOTES" >>
  <2>1. /\ DOMAIN C = 1..4 /\ \A i \in 1..4 : C[i] = SaveAndSet(u[i], "dump") /\ u[i] \in Four
        /\ \A i, j \in 1..4 : u[i] = u[j] => i = j
        /\ v \in Four <=> \E i \in 1..4 : v = u[i]
    OBVIOUS
  <2> HIDE DEF C, u
  <2>2. \A i \in 1..4 : /\ C[i].kind = "set" /\ IsHeaderLine(C[i])
                        /\ Old(v) \in DOMAIN C[i].assign <=> v = u[i]
                        /\ Sys(v) \in DOMAIN C[i].assign <=> v = u[i]
                        /\ ~PutsBack(C[i], v) /\ Changes(C[i], u[i])
    BY <2>1, SaveAndSetLine
  <2>3. CASE v \in Four
    <3>1. PICK h \in 1..4 : v = u[h]
      BY <2>1, <2>3
    <3>2. \A i \in DOMAIN C : Sets(C, i, Old(v)) \/ Sets(C, i, Sys(v)) => i = h
      BY <2>1, <2>2, <3>1 DEF Sets
    <3>3. /\ IsHeaderLine(C[h]) /\ Old(v) \in DOMAIN C[h].assign /\ ~PutsBack(C[h], v)
          /\ Changes(C[h], v) /\ h \in DOMAIN C /\ h <= h
      BY <2>1, <2>2, <3>1
    <3> QED BY <2>3, <3>2, <3>3 DEF Opens
  <2>4. CASE v \notin Four
    BY <2>1, <2>2, <2>4 DEF Untouched, Touches
  <2> QED BY <2>3, <2>4
<1> DEFINE D == When(o.setCharset, A)
           E == When(o.includeSessionGuards /\ o.timeZone, B)
           F == When(o.includeSessionGuards, C)
<1>5. D \in Seq(SqlStatement) /\ E \in Seq(SqlStatement) /\ F \in Seq(SqlStatement)
  BY <1>1, <1>o, WhenLines
<1>6. Untouched(<< >>, v)
  BY DEF Untouched
<1>7. /\ IF o.setCharset /\ v \in CharsetTrio THEN Opens(D, v) ELSE Untouched(D, v)
      /\ IF o.includeSessionGuards /\ o.timeZone /\ v = "TIME_ZONE"
         THEN Opens(E, v) ELSE Untouched(E, v)
      /\ IF o.includeSessionGuards /\ v \in Four THEN Opens(F, v) ELSE Untouched(F, v)
  BY <1>2, <1>3, <1>4, <1>6, <1>o DEF When
<1>8. "TIME_ZONE" \notin CharsetTrio \cup Four /\ CharsetTrio \cap Four = {}
  BY DEF CharsetTrio
<1>9. headerGuardLines(o) = Commented((D \o E) \o F)
  BY DEF headerGuardLines
<1>s. v \in Saves(o) <=> \/ o.setCharset /\ v \in CharsetTrio
                         \/ o.includeSessionGuards /\ o.timeZone /\ v = "TIME_ZONE"
                         \/ o.includeSessionGuards /\ v \in Four
  BY DEF Saves
<1> HIDE DEF D, E, F, Four
<1>10. D \o E \in Seq(SqlStatement) /\ (D \o E) \o F \in Seq(SqlStatement)
  BY <1>5, ConcatProperties
<1>11. IF v \in Saves(o) THEN Opens((D \o E) \o F, v) ELSE Untouched((D \o E) \o F, v)
  BY <1>5, <1>7, <1>8, <1>10, <1>s, PartsTogether
<1>12. Commented((D \o E) \o F) \in Seq(SqlStatement)
  BY <1>10, CommentedLines
<1> QED BY <1>9, <1>10, <1>11, <1>12, CommentedParts

\* The footer puts the same variables back.
LEMMA FooterPutsBack ==
  ASSUME NEW o \in RenderOptions, NEW v \in Variable
  PROVE  /\ footerGuardLines(o) \in Seq(SqlStatement)
         /\ IF v \in Saves(o) THEN Closes(footerGuardLines(o), v)
                              ELSE Untouched(footerGuardLines(o), v)
<1> DEFINE Back(u) == SetTo(u, Old(u))
           A == << Back("TIME_ZONE") >>
           B == << Back("SQL_MODE"), Back("FOREIGN_KEY_CHECKS"), Back("UNIQUE_CHECKS") >>
           C == << Back("CHARACTER_SET_CLIENT"), Back("CHARACTER_SET_RESULTS"),
                   Back("COLLATION_CONNECTION") >>
           D == << Back("SQL_NOTES") >>
           Three == {"SQL_MODE", "FOREIGN_KEY_CHECKS", "UNIQUE_CHECKS"}
<1>o. /\ o.setCharset \in BOOLEAN /\ o.includeSessionGuards \in BOOLEAN /\ o.timeZone \in BOOLEAN
  BY DEF RenderOptions
<1>v. /\ CharsetTrio \subseteq Variable /\ Three \subseteq Variable
      /\ {"TIME_ZONE", "SQL_NOTES"} \subseteq Variable
  BY DEF CharsetTrio, Variable
<1>1. \A u \in Variable : Back(u) \in SqlStatement
  BY SetLines DEF Value
<1>2. \A u \in Variable : /\ Back(u).kind = "set" /\ Old(v) \notin DOMAIN Back(u).assign
                          /\ PutsBack(Back(u), u)
                          /\ Touches(Back(u), v) <=> v = u
  BY SetLine DEF Touches
<1> HIDE DEF Back
<1>3. A \in Seq(SqlStatement) /\ B \in Seq(SqlStatement) /\ C \in Seq(SqlStatement)
      /\ D \in Seq(SqlStatement)
  BY <1>1, <1>v DEF CharsetTrio
<1>4. ASSUME NEW n \in Nat, NEW u \in [1..n -> Variable], NEW s, DOMAIN s = 1..n,
             \A i \in 1..n : s[i] = Back(u[i]), \A i, j \in 1..n : u[i] = u[j] => i = j
      PROVE  IF \E i \in 1..n : v = u[i] THEN Closes(s, v) ELSE Untouched(s, v)
  <2>1. CASE \E i \in 1..n : v = u[i]
    <3>1. PICK f \in 1..n : v = u[f]
      BY <2>1
    <3> QED BY <1>2, <1>4, <2>1, <3>1 DEF Closes
  <2>2. CASE ~ \E i \in 1..n : v = u[i]
    BY <1>2, <1>4, <2>2 DEF Untouched
  <2> QED BY <2>1, <2>2
<1>5. /\ IF v = "TIME_ZONE" THEN Closes(A, v) ELSE Untouched(A, v)
      /\ IF v = "SQL_NOTES" THEN Closes(D, v) ELSE Untouched(D, v)
  <2>1. \A u \in Variable :
          IF v = u THEN Closes(<< Back(u) >>, v) ELSE Untouched(<< Back(u) >>, v)
    BY <1>2 DEF Closes, Untouched
  <2> QED BY <1>v, <2>1
<1>6. IF v \in Three THEN Closes(B, v) ELSE Untouched(B, v)
  <2> DEFINE u == << "SQL_MODE", "FOREIGN_KEY_CHECKS", "UNIQUE_CHECKS" >>
  <2>1. /\ u \in [1..3 -> Variable] /\ DOMAIN B = 1..3 /\ \A i \in 1..3 : B[i] = Back(u[i])
        /\ \A i, j \in 1..3 : u[i] = u[j] => i = j
        /\ v \in Three <=> \E i \in 1..3 : v = u[i]
    BY <1>v
  <2> HIDE DEF B, u
  <2> QED BY <1>4, <2>1
<1>7. IF v \in CharsetTrio THEN Closes(C, v) ELSE Untouched(C, v)
  <2> DEFINE u == << "CHARACTER_SET_CLIENT", "CHARACTER_SET_RESULTS", "COLLATION_CONNECTION" >>
  <2>1. /\ u \in [1..3 -> Variable] /\ DOMAIN C = 1..3 /\ \A i \in 1..3 : C[i] = Back(u[i])
        /\ \A i, j \in 1..3 : u[i] = u[j] => i = j
        /\ v \in CharsetTrio <=> \E i \in 1..3 : v = u[i]
    BY <1>v DEF CharsetTrio
  <2> HIDE DEF C, u
  <2> QED BY <1>4, <2>1
<1> DEFINE E == When(o.includeSessionGuards /\ o.timeZone, A)
           F == When(o.includeSessionGuards, B)
           G == When(o.setCharset, C)
           H == When(o.includeSessionGuards, D)
<1>8. /\ E \in Seq(SqlStatement) /\ F \in Seq(SqlStatement)
      /\ G \in Seq(SqlStatement) /\ H \in Seq(SqlStatement)
  BY <1>3, <1>o, WhenLines
<1>9. Untouched(<< >>, v)
  BY DEF Untouched
<1>10. /\ IF o.includeSessionGuards /\ o.timeZone /\ v = "TIME_ZONE"
          THEN Closes(E, v) ELSE Untouched(E, v)
       /\ IF o.includeSessionGuards /\ v \in Three THEN Closes(F, v) ELSE Untouched(F, v)
       /\ IF o.setCharset /\ v \in CharsetTrio THEN Closes(G, v) ELSE Untouched(G, v)
       /\ IF o.includeSessionGuards /\ v = "SQL_NOTES" THEN Closes(H, v) ELSE Untouched(H, v)
  BY <1>5, <1>6, <1>7, <1>9, <1>o DEF When
<1>11. footerGuardLines(o) = ((E \o F) \o G) \o H
  BY DEF footerGuardLines, Back
<1>12. /\ {"TIME_ZONE", "SQL_NOTES"} \cap (CharsetTrio \cup Three) = {}
       /\ CharsetTrio \cap Three = {}
  BY DEF CharsetTrio
<1>s. v \in Saves(o) <=> \/ o.includeSessionGuards /\ o.timeZone /\ v = "TIME_ZONE"
                         \/ o.includeSessionGuards /\ v \in Three
                         \/ o.setCharset /\ v \in CharsetTrio
                         \/ o.includeSessionGuards /\ v = "SQL_NOTES"
  BY DEF Saves
<1> HIDE DEF E, F, G, H, Three
<1>13. /\ E \o F \in Seq(SqlStatement) /\ (E \o F) \o G \in Seq(SqlStatement)
       /\ ((E \o F) \o G) \o H \in Seq(SqlStatement)
  BY <1>8, ConcatProperties
<1>14. /\ IF v \in Saves(o) /\ v # "SQL_NOTES" THEN Closes((E \o F) \o G, v)
                                               ELSE Untouched((E \o F) \o G, v)
  <2>1. IF o.includeSessionGuards /\ (v \in Three \/ (o.timeZone /\ v = "TIME_ZONE"))
        THEN Closes(E \o F, v) ELSE Untouched(E \o F, v)
    BY <1>8, <1>10, <1>12, PartsTogether
  <2> QED BY <1>8, <1>10, <1>12, <1>13, <1>s, <2>1, PartsTogether
<1>15. IF v \in Saves(o) THEN Closes(((E \o F) \o G) \o H, v)
                         ELSE Untouched(((E \o F) \o G) \o H, v)
  BY <1>8, <1>10, <1>13, <1>14, <1>s, PartsTogether
<1> QED BY <1>11, <1>13, <1>15

-----------------------------------------------------------------------------
(* Dumps are guarded when their options suit what they hold *)

\* The lines of three parts, one after the other.
LEMMA ThreeParts ==
  ASSUME NEW H \in Seq(SqlStatement), NEW B \in Seq(SqlStatement), NEW F \in Seq(SqlStatement),
         NEW s, s = (H \o B) \o F
  PROVE  /\ Len(H) \in Nat /\ Len(B) \in Nat /\ Len(F) \in Nat
         /\ Len(s) = Len(H) + Len(B) + Len(F)
         /\ DOMAIN H = 1..Len(H) /\ DOMAIN B = 1..Len(B) /\ DOMAIN F = 1..Len(F)
         /\ DOMAIN s = 1..Len(s)
         /\ \A i \in DOMAIN H : s[i] = H[i]
         /\ \A i \in DOMAIN B : s[Len(H) + i] = B[i]
         /\ \A i \in DOMAIN F : s[Len(H) + Len(B) + i] = F[i]
<1> DEFINE t == H \o B
<1>1. /\ Len(H) \in Nat /\ Len(B) \in Nat /\ Len(F) \in Nat
      /\ DOMAIN H = 1..Len(H) /\ DOMAIN B = 1..Len(B) /\ DOMAIN F = 1..Len(F)
  BY LenProperties
<1>2. /\ t \in Seq(SqlStatement) /\ Len(t) = Len(H) + Len(B)
      /\ \A i \in 1..Len(t) : t[i] = IF i <= Len(H) THEN H[i] ELSE B[i - Len(H)]
  BY ConcatProperties
<1> HIDE DEF t
<1>3. /\ s \in Seq(SqlStatement) /\ Len(s) = Len(t) + Len(F)
      /\ \A i \in 1..Len(s) : s[i] = IF i <= Len(t) THEN t[i] ELSE F[i - Len(t)]
  BY <1>2, ConcatProperties DEF t
<1>4. Len(s) = Len(H) + Len(B) + Len(F) /\ DOMAIN s = 1..Len(s)
  BY <1>1, <1>2, <1>3, LenProperties
<1>5. \A i \in DOMAIN H : s[i] = H[i]
  BY <1>1, <1>2, <1>3
<1>6. \A i \in DOMAIN B : s[Len(H) + i] = B[i]
  BY <1>1, <1>2, <1>3
<1>7. \A i \in DOMAIN F : s[Len(H) + Len(B) + i] = F[i]
  BY <1>1, <1>2, <1>3
<1> QED BY <1>1, <1>4, <1>5, <1>6, <1>7

LEMMA BlockLineFacts ==
  ASSUME NEW V, NEW x \in BlockLines(V), NEW v
  PROVE  /\ x.kind = "set" => Old(v) \notin DOMAIN x.assign
         /\ x.kind = "set" /\ Sys(v) \in DOMAIN x.assign => v \in V /\ ~PutsBack(x, v)
<1>1. /\ Old(v)[1] = "@OLD_" /\ Sys(v)[1] = "@@" /\ Sys(v)[2] = v
  BY DEF Old, Sys
<1> QED BY <1>1 DEF BlockLines, BlockLine, PutsBack

\* A variable the header saves and the footer puts back is guarded, when the
\* patterns recognise what the blocks in between assign to it.
LEMMA BetweenHeaderAndFooter ==
  ASSUME NEW v \in Variable, NEW V, NEW H \in Seq(SqlStatement), NEW B \in Seq(BlockLines(V)),
         NEW F \in Seq(SqlStatement),
         Opens(H, v), Closes(F, v), v \in V => v \in CharsetTrio \cup DetectedBySave
  PROVE  Guarded((H \o B) \o F, v)
<1> DEFINE s == (H \o B) \o F
<1>0. B \in Seq(SqlStatement)
  BY SeqMonotonic DEF BlockLines
<1>1. /\ Len(H) \in Nat /\ Len(B) \in Nat /\ Len(F) \in Nat
      /\ Len(s) = Len(H) + Len(B) + Len(F)
      /\ DOMAIN H = 1..Len(H) /\ DOMAIN B = 1..Len(B) /\ DOMAIN F = 1..Len(F)
      /\ DOMAIN s = 1..Len(s)
      /\ \A i \in DOMAIN H : s[i] = H[i]
      /\ \A i \in DOMAIN B : s[Len(H) + i] = B[i]
      /\ \A i \in DOMAIN F : s[Len(H) + Len(B) + i] = F[i]
  BY <1>0, ThreeParts
<1> HIDE DEF s
<1>2. PICK h \in DOMAIN H :
        /\ IsHeaderLine(H[h]) /\ Old(v) \in DOMAIN H[h].assign
        /\ \A i \in DOMAIN H :
             /\ Sets(H, i, Old(v)) => i = h
             /\ Sets(H, i, Sys(v)) =>
                  h <= i /\ ~PutsBack(H[i], v) /\ (Changes(H[i], v) \/ Changes(H[h], v))
  BY DEF Opens
<1>3. PICK g \in DOMAIN F :
        /\ F[g].kind = "set" /\ PutsBack(F[g], v) /\ Old(v) \notin DOMAIN F[g].assign
        /\ \A i \in DOMAIN F : Touches(F[i], v) => i = g
  BY DEF Closes
<1> DEFINE f == Len(H) + Len(B) + g
<1>4. /\ h \in 1..Len(H) /\ g \in 1..Len(F) /\ f \in (h + 1)..(Len(s) + 2)
      /\ h \in 1..(Len(s) + 1) /\ s[h] = H[h] /\ s[f] = F[g]
  BY <1>1, <1>2, <1>3
<1> HIDE DEF f
<1>5. ASSUME NEW i \in DOMAIN s
      PROVE  /\ Sets(s, i, Old(v)) => i = h
             /\ Sets(s, i, Sys(v)) => /\ h <= i /\ i <= f
                                      /\ i < f => /\ ~PutsBack(s[i], v)
                                                  /\ Changes(s[i], v) \/ Changes(s[h], v)
  <2>1. CASE i \in DOMAIN H
    <3>1. s[i] = H[i] /\ i <= f /\ (Sets(H, i, Old(v)) <=> Sets(s, i, Old(v)))
          /\ (Sets(H, i, Sys(v)) <=> Sets(s, i, Sys(v)))
      BY <1>1, <1>4, <2>1 DEF f, Sets
    <3> QED BY <1>2, <1>4, <2>1, <3>1
  <2>2. CASE \E k \in DOMAIN B : i = Len(H) + k
    <3>1. PICK k \in DOMAIN B : i = Len(H) + k
      BY <2>2
    <3>2. s[i] = B[k] /\ h <= i /\ i <= f /\ B[k] \in BlockLines(V)
      BY <1>1, <1>4, <3>1, ElementOfSeq DEF f
    <3>3. ~Sets(s, i, Old(v))
      BY <3>2, BlockLineFacts DEF Sets
    <3>4. ASSUME Sets(s, i, Sys(v))
          PROVE  ~PutsBack(s[i], v) /\ (Changes(s[i], v) \/ Changes(s[h], v))
      <4>1. v \in V /\ ~PutsBack(s[i], v)
        BY <3>2, <3>4, BlockLineFacts DEF Sets
      <4>2. CASE v \in CharsetTrio
        BY <3>4, <4>1, <4>2 DEF Changes, Sets, DetectedByZero, DetectedBySave, CharsetTrio
      <4>3. CASE v \in DetectedBySave
        <5>1. Old(v)[1] = "@OLD_" /\ Old(v)[2] = v
          BY DEF Old
        <5>2. H[h].assign[Old(v)] = Sys(v)
          BY <1>2, <5>1 DEF IsHeaderLine
        <5>3. Changes(H[h], v)
          BY <1>2, <4>3, <5>2 DEF Changes, DetectedByZero, DetectedBySave, CharsetTrio
        <5> QED BY <1>4, <4>1, <5>3
      <4> QED BY <4>1, <4>2, <4>3
    <3> QED BY <3>2, <3>3, <3>4
  <2>3. CASE \E k \in DOMAIN F : i = Len(H) + Len(B) + k
    <3>1. PICK k \in DOMAIN F : i = Len(H) + Len(B) + k
      BY <2>3
    <3>2. s[i] = F[k] /\ h <= i
      BY <1>1, <1>4, <3>1
    <3>3. Sets(s, i, Old(v)) \/ Sets(s, i, Sys(v)) => k = g
      BY <1>3, <3>1, <3>2 DEF Sets, Touches
    <3>4. k = g => i = f /\ ~Sets(s, i, Old(v))
      BY <1>3, <3>1, <3>2 DEF Sets, f
    <3>5. f \in Nat
      BY <1>1, <1>4 DEF f
    <3> QED BY <3>2, <3>3, <3>4, <3>5
  <2>4. \/ i \in DOMAIN H
        \/ \E k \in DOMAIN B : i = Len(H) + k
        \/ \E k \in DOMAIN F : i = Len(H) + Len(B) + k
    <3>1. i <= Len(H) => i \in DOMAIN H
      BY <1>1
    <3>2. Len(H) < i /\ i <= Len(H) + Len(B) => i - Len(H) \in DOMAIN B /\ i = Len(H) + (i - Len(H))
      BY <1>1
    <3>3. Len(H) + Len(B) < i =>
            i - (Len(H) + Len(B)) \in DOMAIN F /\ i = Len(H) + Len(B) + (i - (Len(H) + Len(B)))
      BY <1>1
    <3>4. i \in Nat
      BY <1>1
    <3> QED BY <1>1, <3>1, <3>2, <3>3, <3>4
  <2> QED BY <2>1, <2>2, <2>3, <2>4
<1>6. GuardedBetween(s, v, h, f)
  BY <1>2, <1>3, <1>4, <1>5 DEF GuardedBetween
<1>7. Guarded(s, v)
  BY <1>4, <1>6 DEF Guarded
<1> QED BY <1>7 DEF s

\* So is a variable no line touches.
LEMMA LeftAloneIsGuarded ==
  ASSUME NEW v, NEW H \in Seq(SqlStatement), NEW B \in Seq(SqlStatement),
         NEW F \in Seq(SqlStatement), Untouched(H, v), Untouched(B, v), Untouched(F, v)
  PROVE  Guarded((H \o B) \o F, v)
<1> DEFINE s == (H \o B) \o F
<1>1. H \o B \in Seq(SqlStatement) /\ s \in Seq(SqlStatement)
  BY ConcatProperties
<1>2. Untouched(s, v)
  BY <1>1, PartsTogether
<1> HIDE DEF s
<1>3. Len(s) \in Nat /\ DOMAIN s = 1..Len(s)
  BY <1>1, LenProperties
<1>4. \A i \in DOMAIN s : ~Sets(s, i, Old(v)) /\ ~Sets(s, i, Sys(v))
  BY <1>2 DEF Untouched, Touches, Sets
<1>5. GuardedBetween(s, v, Len(s) + 1, Len(s) + 2)
  BY <1>3, <1>4 DEF GuardedBetween
<1>6. Len(s) + 1 \in 1..(Len(s) + 1) /\ Len(s) + 2 \in ((Len(s) + 1) + 1)..(Len(s) + 2)
  BY <1>3
<1>7. Guarded(s, v)
  BY <1>5, <1>6 DEF Guarded
<1> QED BY <1>7 DEF s

\* A variable that a block assigns and nothing saves is not.
LEMMA UnsavedIsNotGuarded ==
  ASSUME NEW v, NEW V, NEW H \in Seq(SqlStatement), NEW B \in Seq(BlockLines(V)),
         NEW F \in Seq(SqlStatement), Untouched(H, v), Untouched(F, v),
         NEW k \in DOMAIN B, Sets(B, k, Sys(v))
  PROVE  ~Guarded((H \o B) \o F, v)
<1> DEFINE s == (H \o B) \o F
<1>0. B \in Seq(SqlStatement)
  BY SeqMonotonic DEF BlockLines
<1>1. /\ Len(H) \in Nat /\ Len(B) \in Nat /\ Len(F) \in Nat
      /\ Len(s) = Len(H) + Len(B) + Len(F)
      /\ DOMAIN H = 1..Len(H) /\ DOMAIN B = 1..Len(B) /\ DOMAIN F = 1..Len(F)
      /\ DOMAIN s = 1..Len(s)
      /\ \A i \in DOMAIN H : s[i] = H[i]
      /\ \A i \in DOMAIN B : s[Len(H) + i] = B[i]
      /\ \A i \in DOMAIN F : s[Len(H) + Len(B) + i] = F[i]
  BY <1>0, ThreeParts
<1> HIDE DEF s
<1>2. SUFFICES ASSUME Guarded(s, v) PROVE FALSE
  BY DEF s
<1>3. PICK h \in 1..(Len(s) + 1) : \E f \in (h + 1)..(Len(s) + 2) : GuardedBetween(s, v, h, f)
  BY <1>2 DEF Guarded
<1>4. PICK f \in (h + 1)..(Len(s) + 2) : GuardedBetween(s, v, h, f)
  BY <1>3
<1>5. Len(H) + k \in DOMAIN s /\ Sets(s, Len(H) + k, Sys(v))
  BY <1>1 DEF Sets
<1>6. h <= Len(H) + k
  BY <1>4, <1>5 DEF GuardedBetween
<1>7. h \in DOMAIN s
  BY <1>1, <1>5, <1>6
<1>8. s[h].kind = "set" /\ Old(v) \in DOMAIN s[h].assign
  BY <1>4, <1>7 DEF GuardedBetween, IsHeaderLine
<1>9. CASE h <= Len(H)
  <2>1. h \in DOMAIN H
    BY <1>1, <1>7, <1>9
  <2>2. s[h] = H[h]
    BY <1>1, <2>1
  <2> QED BY <1>8, <2>1, <2>2 DEF Untouched, Touches
<1>10. CASE Len(H) < h /\ h <= Len(H) + Len(B)
  <2>1. PICK j \in DOMAIN B : h = Len(H) + j
    <3>1. h - Len(H) \in DOMAIN B /\ h = Len(H) + (h - Len(H))
      BY <1>1, <1>10
    <3> QED BY <3>1
  <2>2. s[h] = B[j] /\ B[j] \in BlockLines(V)
    BY <1>1, <2>1, ElementOfSeq
  <2> QED BY <1>8, <2>2, BlockLineFacts
<1> QED BY <1>1, <1>5, <1>6, <1>9, <1>10

\* Some line of s assigns p.
SetsIn(s, p) == \E i \in DOMAIN s : Sets(s, i, p)

LEMMA SetsInParts ==
  ASSUME NEW S, S \subseteq SqlStatement, NEW s \in Seq(S), NEW t \in Seq(S), NEW p
  PROVE  /\ SetsIn(s, p) \/ SetsIn(t, p) => SetsIn(s \o t, p)
         /\ SetsIn(s, p) => SetsIn(Commented(s), p)
<1>1. /\ DOMAIN s = 1..Len(s) /\ DOMAIN t = 1..Len(t) /\ Len(s) \in Nat /\ Len(t) \in Nat
      /\ DOMAIN (s \o t) = 1..(Len(s) + Len(t))
      /\ \A i \in 1..(Len(s) + Len(t)) : (s \o t)[i] = IF i <= Len(s) THEN s[i] ELSE t[i - Len(s)]
  BY ConcatProperties, LenProperties
<1>2. /\ \A i \in DOMAIN s : i \in DOMAIN (s \o t) /\ (s \o t)[i] = s[i]
      /\ \A i \in DOMAIN t : Len(s) + i \in DOMAIN (s \o t) /\ (s \o t)[Len(s) + i] = t[i]
  BY <1>1
<1>3. DOMAIN Commented(s) = DOMAIN s
      /\ \A i \in DOMAIN s : /\ Commented(s)[i].kind = s[i].kind
                             /\ Commented(s)[i].assign = s[i].assign
  BY <1>1, CommentedLines, LenProperties
<1>4. SetsIn(s, p) => SetsIn(s \o t, p)
  BY <1>2 DEF SetsIn, Sets
<1>5. SetsIn(t, p) => SetsIn(s \o t, p)
  BY <1>2 DEF SetsIn, Sets
<1>6. SetsIn(s, p) => SetsIn(Commented(s), p)
  BY <1>3 DEF SetsIn, Sets
<1> QED BY <1>4, <1>5, <1>6

\* What a block certainly assigns: everything but the database and rows pins the character set,
\* a program runs under its own SQL mode, an event in its own time zone.
LEMMA BlockChanges ==
  ASSUME NEW o \in RenderOptions, NEW e \in RenderedEntry
  PROVE  /\ e.type \notin {"database", "tableData"} =>
              SetsIn(renderEntry(o, e), Sys("CHARACTER_SET_CLIENT"))
         /\ e.type \in {"trigger", "routine", "event"} =>
              SetsIn(renderEntry(o, e), Sys("SQL_MODE"))
         /\ e.type = "event" => SetsIn(renderEntry(o, e), Sys("TIME_ZONE"))
<1> DEFINE L == BlockLines(Variable)
           client == Sys("CHARACTER_SET_CLIENT")
           mode == Sys("SQL_MODE")
           zone == Sys("TIME_ZONE")
<1>o. o.addDropTable \in BOOLEAN /\ e.first \in BOOLEAN /\ e.last \in BOOLEAN
  BY DEF RenderOptions, RenderedEntry
<1>v. CharsetTrio \subseteq Variable /\ "SQL_MODE" \in Variable /\ "TIME_ZONE" \in Variable
  BY DEF CharsetTrio, Variable
<1>s. L \subseteq SqlStatement
  BY DEF BlockLines
<1>1. << Ddl >> \in Seq(L) /\ << Ddl, Ddl >> \in Seq(L) /\ << Program >> \in Seq(L)
  <2>1. Ddl \in L /\ Program \in L
    BY OtherLines
  <2> HIDE DEF L
  <2> QED BY <2>1
<1>2. \A v \in Variable : /\ SaveIn(Saved(v)) \in L /\ SaveIn(Save(v)) \in L
                          /\ SetTo(v, Lit("object")) \in L
                          /\ SetTo(v, Saved(v)) \in L /\ SetTo(v, Save(v)) \in L
  BY BlockSets DEF Value
<1>3. /\ WithTableCharset(Ddl) \in Seq(L) /\ SaveTrio \in Seq(L) /\ SetTrio(e) \in Seq(L)
      /\ BackTrio \in Seq(L)
      /\ renderCreationContextOpen(e) \in Seq(L) /\ renderCreationContextClose \in Seq(L)
  <2>1. ContextIn(L, Variable) /\ Ddl \in L
    BY ContextInBlock, OtherLines
  <2> HIDE DEF L
  <2> QED BY <1>v, <2>1, ContextLines
<1> HIDE DEF L
<1>c. \A s, t \in Seq(L) : s \o t \in Seq(L)
  BY ConcatProperties
<1>w. \A s \in Seq(L) : \A c \in BOOLEAN : When(c, s) \in Seq(L)
  BY WhenLines
<1>p. \A s, t \in Seq(L) : \A p : SetsIn(s, p) \/ SetsIn(t, p) => SetsIn(s \o t, p)
  BY <1>s, SetsInParts
<1>m. \A s \in Seq(L) : \A p : SetsIn(s, p) => SetsIn(Commented(s), p)
  BY <1>s, SetsInParts
<1>4. \A v, src : SetTo(v, src).kind = "set" /\ Sys(v) \in DOMAIN SetTo(v, src).assign
  BY DEF SetTo, Statement
<1>5. SetsIn(WithTableCharset(Ddl), client)
  <2>1. 2 \in DOMAIN WithTableCharset(Ddl)
        /\ WithTableCharset(Ddl)[2] = SetTo("CHARACTER_SET_CLIENT", Lit("dump"))
    BY DEF WithTableCharset, ClientCharset
  <2> QED BY <1>4, <2>1 DEF SetsIn, Sets
<1>6. SetsIn(BackTrio, client)
  <2>1. 1 \in DOMAIN BackTrio
        /\ BackTrio[1] = SetTo("CHARACTER_SET_CLIENT", Saved("CHARACTER_SET_CLIENT"))
    BY DEF BackTrio
  <2> QED BY <1>4, <2>1 DEF SetsIn, Sets
<1>7. SetsIn(renderCreationContextClose, client) /\ SetsIn(renderCreationContextClose, mode)
  <2> DEFINE back == << SetTo("SQL_MODE", Saved("SQL_MODE")) >>
  <2>1. back \in Seq(L)
    BY <1>2, <1>v
  <2>2. 1 \in DOMAIN back /\ back[1] = SetTo("SQL_MODE", Saved("SQL_MODE"))
    OBVIOUS
  <2>3. renderCreationContextClose = back \o BackTrio
    BY DEF renderCreationContextClose
  <2> HIDE DEF back
  <2>4. SetsIn(back, mode)
    BY <1>4, <2>2 DEF SetsIn, Sets
  <2> QED BY <1>3, <1>6, <1>p, <2>1, <2>3, <2>4
<1> HIDE DEF client, mode, zone
<1>8. ASSUME e.type = "table" PROVE SetsIn(renderEntry(o, e), client)
  <2> DEFINE a == When(o.addDropTable, << Ddl >>)
  <2>1. a \in Seq(L)
    BY <1>1, <1>o, <1>w
  <2>2. renderEntry(o, e) = Commented(a \o WithTableCharset(Ddl))
    BY <1>8 DEF renderEntry, renderTableStructure
  <2> HIDE DEF a
  <2> QED BY <1>3, <1>5, <1>c, <1>p, <1>m, <2>1, <2>2
<1>9. ASSUME e.type = "viewStub" PROVE SetsIn(renderEntry(o, e), client)
  <2> DEFINE a == When(o.addDropTable, << Ddl, Ddl >>)
  <2>1. a \in Seq(L)
    BY <1>1, <1>o, <1>w
  <2>2. renderEntry(o, e) = Commented(a \o WithTableCharset(Ddl))
    BY <1>9 DEF renderEntry, renderViewStub
  <2> HIDE DEF a
  <2> QED BY <1>3, <1>5, <1>c, <1>p, <1>m, <2>1, <2>2
<1>10. ASSUME e.type = "view" PROVE SetsIn(renderEntry(o, e), client)
  <2> DEFINE a == ((When(o.addDropTable, << Ddl >>) \o SaveTrio) \o SetTrio(e)) \o << Program >>
  <2>1. a \in Seq(L)
    BY <1>1, <1>3, <1>o, <1>c, <1>w
  <2>2. renderEntry(o, e) = Commented(a \o BackTrio)
    BY <1>10 DEF renderEntry, renderView
  <2> HIDE DEF a
  <2> QED BY <1>3, <1>6, <1>c, <1>p, <1>m, <2>1, <2>2
<1>11. ASSUME e.type = "trigger"
       PROVE  SetsIn(renderEntry(o, e), client) /\ SetsIn(renderEntry(o, e), mode)
  <2> DEFINE a == renderCreationContextOpen(e) \o << Program >>
  <2>1. a \in Seq(L)
    BY <1>1, <1>3, <1>c
  <2>2. renderEntry(o, e) = a \o renderCreationContextClose
    BY <1>11 DEF renderEntry, renderTrigger
  <2> HIDE DEF a
  <2> QED BY <1>3, <1>7, <1>p, <2>1, <2>2
<1>12. ASSUME e.type = "routine"
       PROVE  SetsIn(renderEntry(o, e), client) /\ SetsIn(renderEntry(o, e), mode)
  <2> DEFINE a == (When(o.addDropTable, << Ddl >>) \o renderCreationContextOpen(e)) \o << Program >>
  <2>1. a \in Seq(L)
    BY <1>1, <1>3, <1>o, <1>c, <1>w
  <2>2. renderEntry(o, e) = a \o renderCreationContextClose
    BY <1>12 DEF renderEntry, renderRoutine
  <2> HIDE DEF a
  <2> QED BY <1>3, <1>7, <1>p, <2>1, <2>2
<1>13. ASSUME e.type = "event"
       PROVE  /\ SetsIn(renderEntry(o, e), client) /\ SetsIn(renderEntry(o, e), mode)
              /\ SetsIn(renderEntry(o, e), zone)
  <2> DEFINE x == << SaveIn(Save("TIME_ZONE")) >>
             a == (When(e.first, Commented(x)) \o When(o.addDropTable, << Ddl >>))
                    \o renderCreationContextOpen(e)
             b == << SaveIn(Saved("TIME_ZONE")), SetTo("TIME_ZONE", Lit("object")), Program,
                     SetTo("TIME_ZONE", Saved("TIME_ZONE")) >>
             y == << SetTo("TIME_ZONE", Save("TIME_ZONE")) >>
             c == When(e.last, y)
  <2>1. x \in Seq(L) /\ y \in Seq(L)
    BY <1>2, <1>v
  <2>2. b \in Seq(L)
    <3>1. Program \in L
      BY OtherLines DEF L
    <3> QED BY <1>2, <1>v, <3>1
  <2>3. 2 \in DOMAIN b /\ b[2] = SetTo("TIME_ZONE", Lit("object"))
    OBVIOUS
  <2>4. renderEntry(o, e) = ((a \o b) \o renderCreationContextClose) \o c
    BY <1>13 DEF renderEntry, renderEvent
  <2> HIDE DEF x, y
  <2>5. a \in Seq(L)
    <3>1. Commented(x) \in Seq(L)
      BY <2>1, CommentedBlock DEF L
    <3> QED BY <1>1, <1>3, <1>o, <1>c, <1>w, <3>1
  <2>6. c \in Seq(L)
    BY <1>o, <1>w, <2>1
  <2> HIDE DEF a, b, c
  <2>7. SetsIn(b, zone)
    BY <1>4, <2>3 DEF SetsIn, Sets, zone
  <2>8. /\ a \o b \in Seq(L) /\ SetsIn(a \o b, zone)
        /\ (a \o b) \o renderCreationContextClose \in Seq(L)
    BY <1>3, <1>c, <1>p, <2>2, <2>5, <2>7
  <2> DEFINE d == (a \o b) \o renderCreationContextClose
  <2>9. d \in Seq(L) /\ SetsIn(d, client) /\ SetsIn(d, mode) /\ SetsIn(d, zone)
    BY <1>3, <1>7, <1>p, <2>8
  <2>10. renderEntry(o, e) = d \o c
    BY <2>4
  <2> HIDE DEF d
  <2> QED BY <1>p, <2>6, <2>9, <2>10
<1>14. e.type \in {"database", "table", "tableData", "viewStub", "view", "trigger", "routine",
                  "event"}
  BY DEF RenderedEntry
<1> QED BY <1>8, <1>9, <1>10, <1>11, <1>12, <1>13, <1>14 DEF client, mode, zone

\* A dump of any length saves in its header and puts back in its footer every
\* variable its blocks change - exactly when the render options write the
\* guards each of its objects needs.
THEOREM DumpsAreGuarded ==
  ASSUME NEW o \in RenderOptions, NEW entries \in Seq(RenderedEntry)
  PROVE  (\A v \in Variable : Guarded(renderPlainSql(o, entries), v))
           <=> \A i \in DOMAIN entries : NeedsHeader(o, entries[i])
<1> DEFINE n == Len(entries)
           ss == [i \in 1..n |-> renderEntry(o, entries[i])]
           H == headerGuardLines(o)
           B == FlattenSeq(ss)
           F == footerGuardLines(o)
<1>1. n \in Nat /\ DOMAIN entries = 1..n /\ \A i \in 1..n : entries[i] \in RenderedEntry
  BY LenProperties, ElementOfSeq
<1>2. renderPlainSql(o, entries) = (H \o B) \o F
  BY <1>1 DEF renderPlainSql
<1>o. /\ o.setCharset \in BOOLEAN /\ o.includeSessionGuards \in BOOLEAN /\ o.timeZone \in BOOLEAN
  BY DEF RenderOptions
<1>3. /\ H \in Seq(SqlStatement) /\ F \in Seq(SqlStatement)
      /\ \A v \in Variable : IF v \in Saves(o) THEN Opens(H, v) /\ Closes(F, v)
                                               ELSE Untouched(H, v) /\ Untouched(F, v)
  <2>1. "SQL_MODE" \in Variable
    BY DEF Variable
  <2>2. H \in Seq(SqlStatement) /\ F \in Seq(SqlStatement)
    BY <2>1, HeaderSaves, FooterPutsBack
  <2> QED BY <2>2, HeaderSaves, FooterPutsBack
<1>4. ASSUME NEW V, \A i \in 1..n : renderEntry(o, entries[i]) \in Seq(BlockLines(V))
      PROVE  /\ B \in Seq(BlockLines(V)) /\ B \in Seq(SqlStatement)
             /\ \A k \in 1..n : \A i \in 1..Len(renderEntry(o, entries[k])) :
                  \E j \in 1..Len(B) : B[j] = renderEntry(o, entries[k])[i]
  <2>1. ss \in [1..n -> Seq(BlockLines(V))]
    BY <1>4
  <2>2. \A k \in 1..n : ss[k] = renderEntry(o, entries[k])
    OBVIOUS
  <2> HIDE DEF ss, n
  <2>3. /\ B \in Seq(BlockLines(V))
        /\ \A k \in 1..n : \A i \in 1..Len(ss[k]) : \E j \in 1..Len(B) : B[j] = ss[k][i]
    BY <1>1, <2>1, FlattenedLines
  <2> HIDE DEF B
  <2>4. B \in Seq(SqlStatement)
    BY <2>3, SeqMonotonic DEF BlockLines
  <2>5. ASSUME NEW k \in 1..n, NEW i \in 1..Len(renderEntry(o, entries[k]))
        PROVE  \E j \in 1..Len(B) : B[j] = renderEntry(o, entries[k])[i]
    <3>1. i \in 1..Len(ss[k])
      BY <2>2
    <3>2. PICK j \in 1..Len(B) : B[j] = ss[k][i]
      BY <2>3, <3>1
    <3> QED BY <2>2, <3>2
  <2> QED BY <2>3, <2>4, <2>5
<1> HIDE DEF ss, B, H, F
<1>5. ASSUME \A i \in DOMAIN entries : NeedsHeader(o, entries[i]), NEW v \in Variable
      PROVE  Guarded((H \o B) \o F, v)
  <2> DEFINE V == Saves(o) \cap (CharsetTrio \cup DetectedBySave)
  <2>1. ASSUME NEW i \in 1..n PROVE renderEntry(o, entries[i]) \in Seq(BlockLines(V))
    <3>1. NeedsHeader(o, entries[i]) /\ entries[i] \in RenderedEntry
      BY <1>1, <1>5
    <3>2. Assigned(entries[i], V)
      BY <3>1 DEF NeedsHeader, Saves, DetectedBySave, Assigned
    <3>3. V \in SUBSET Variable
      BY DEF DetectedBySave, CharsetTrio, Variable
    <3> HIDE DEF V
    <3> QED BY <3>1, <3>2, <3>3, BlockAssigns
  <2>2. B \in Seq(BlockLines(V)) /\ B \in Seq(SqlStatement)
    BY <1>4, <2>1
  <2>3. CASE v \in Saves(o)
    <3>1. v \in V => v \in CharsetTrio \cup DetectedBySave
      OBVIOUS
    <3> HIDE DEF V
    <3> QED BY <1>3, <2>2, <2>3, <3>1, BetweenHeaderAndFooter
  <2>4. CASE v \notin Saves(o)
    <3>1. v \notin V
      BY <2>4
    <3> HIDE DEF V
    <3>2. \A i \in DOMAIN B : B[i] \in BlockLines(V)
      BY <2>2, ElementOfSeq, LenProperties
    <3>3. Untouched(B, v)
      BY <3>1, <3>2, BlockLineFacts DEF Untouched, Touches
    <3> QED BY <1>3, <2>2, <2>4, <3>3, LeftAloneIsGuarded
  <2> QED BY <2>3, <2>4
<1>6. ASSUME NEW k \in DOMAIN entries, ~NeedsHeader(o, entries[k])
      PROVE  \E v \in Variable : ~Guarded((H \o B) \o F, v)
  <2> DEFINE e == entries[k]
  <2>1. e \in RenderedEntry
    BY <1>1
  <2> HIDE DEF e
  <2>2. PICK v \in Variable : v \notin Saves(o) /\ SetsIn(renderEntry(o, e), Sys(v))
    <3>1. CASE e.type \notin {"database", "tableData"} /\ ~o.setCharset
      <4>1. "CHARACTER_SET_CLIENT" \in Variable /\ "CHARACTER_SET_CLIENT" \notin Saves(o)
        BY <3>1 DEF Variable, Saves
      <4> QED BY <2>1, <3>1, <4>1, BlockChanges
    <3>2. CASE e.type \in {"trigger", "routine", "event"} /\ ~o.includeSessionGuards
      <4>1. "SQL_MODE" \in Variable /\ "SQL_MODE" \notin Saves(o)
        BY <3>2 DEF Variable, Saves, CharsetTrio
      <4> QED BY <2>1, <3>2, <4>1, BlockChanges
    <3>3. CASE e.type = "event" /\ ~o.timeZone
      <4>1. "TIME_ZONE" \in Variable /\ "TIME_ZONE" \notin Saves(o)
        BY <3>3 DEF Variable, Saves, CharsetTrio
      <4> QED BY <2>1, <3>3, <4>1, BlockChanges
    <3> QED BY <1>6, <3>1, <3>2, <3>3 DEF NeedsHeader, e
  <2>3. \A i \in 1..n : renderEntry(o, entries[i]) \in Seq(BlockLines(Variable))
    <3>1. ASSUME NEW i \in 1..n PROVE Assigned(entries[i], Variable)
      BY DEF CharsetTrio, Variable, Assigned
    <3> QED BY <1>1, <3>1, BlockAssigns
  <2>4. B \in Seq(BlockLines(Variable))
    BY <1>4, <2>3
  <2>5. PICK i \in DOMAIN renderEntry(o, e) : Sets(renderEntry(o, e), i, Sys(v))
    BY <2>2 DEF SetsIn
  <2>6. i \in 1..Len(renderEntry(o, e)) /\ k \in 1..n
    BY <1>1, <2>3, LenProperties DEF e
  <2>7. PICK j \in 1..Len(B) : B[j] = renderEntry(o, e)[i]
    BY <1>4, <2>3, <2>6 DEF e
  <2>8. j \in DOMAIN B /\ Sets(B, j, Sys(v))
    BY <2>4, <2>5, <2>7, LenProperties DEF Sets
  <2>9. ~Guarded((H \o B) \o F, v)
    BY <1>3, <2>2, <2>4, <2>8, UnsavedIsNotGuarded
  <2> QED BY <2>9
<1> QED BY <1>2, <1>5, <1>6

\* The scripts are dumps, each written with the guards its objects need.
SuitedDumps ==
  \A s \in Scripts :
    \E o \in RenderOptions : \E entries \in Seq(RenderedEntry) :
      s = renderPlainSql(o, entries) /\ \A i \in DOMAIN entries : NeedsHeader(o, entries[i])

LEMMA DumpsAreAllGuarded ==
  ASSUME SuitedDumps
  PROVE  AllGuarded
<1>1. ASSUME NEW s \in Scripts, NEW v \in Variable PROVE Guarded(s, v)
  <2>1. PICK o \in RenderOptions : \E entries \in Seq(RenderedEntry) :
          s = renderPlainSql(o, entries) /\ \A i \in DOMAIN entries : NeedsHeader(o, entries[i])
    BY DEF SuitedDumps
  <2>2. PICK entries \in Seq(RenderedEntry) :
          s = renderPlainSql(o, entries) /\ \A i \in DOMAIN entries : NeedsHeader(o, entries[i])
    BY <2>1
  <2>. QED BY <2>2, DumpsAreGuarded
<1>. QED BY <1>1 DEF AllGuarded

\* A restore of such a dump, however long, hands back every session variable
\* as it was found, whatever statement it stopped at, failed or was retried.
THEOREM DumpsPutVariablesBack ==
  ASSUME SuitedDumps
  PROVE  Spec => []VariablesHandedBack
BY DumpsAreAllGuarded, GuardedVariablesComeBack

-----------------------------------------------------------------------------
(* The locks of a dump *)

NoLockLines == {x \in SqlStatement : x.kind # "lock"}
HiddenLockLines == {x \in SqlStatement : x.kind = "lock" => x.commented}

LEMMA CommentedNoLock ==
  ASSUME NEW s \in Seq(NoLockLines)
  PROVE  Commented(s) \in Seq(NoLockLines)
<1>1. NoLockLines \subseteq SqlStatement
  BY DEF NoLockLines
<1>2. /\ Commented(s) \in Seq(SqlStatement) /\ Len(Commented(s)) = Len(s)
      /\ \A i \in 1..Len(s) : Commented(s)[i].kind = s[i].kind
  BY <1>1, CommentedLines
<1>3. \A i \in 1..Len(s) : Commented(s)[i] \in NoLockLines
  BY <1>2, ElementOfSeq DEF NoLockLines
<1>4. Commented(s) \in [1..Len(s) -> NoLockLines] /\ Len(s) \in Nat
  BY <1>2, <1>3, LenProperties
<1> QED BY <1>4, SeqDef

LEMMA SetsAreNoLocks ==
  ASSUME NEW v \in Variable
  PROVE  /\ SaveIn(Old(v)) \in NoLockLines /\ SaveAndSet(v, "dump") \in NoLockLines
         /\ SetNames("dump") \in NoLockLines
         /\ \A w \in Variable : SetTo(v, Old(w)) \in NoLockLines
         /\ SetTo(v, Lit("dump")) \in NoLockLines
         /\ ContextIn(NoLockLines, Variable)
<1>1. \A p, src : /\ SaveIn(p).kind = "set" /\ SetTo(p, src).kind = "set"
                  /\ SaveAndSet(p, src).kind = "set" /\ SetNames(src).kind = "set"
  BY DEF SaveIn, SetTo, SaveAndSet, SetNames, Statement
<1>2. "dump" \in Value /\ "object" \in Value
  BY DEF Value
<1>3. ContextIn(NoLockLines, Variable)
  BY <1>1, <1>2, SetLines DEF ContextIn, NoLockLines
<1> QED BY <1>1, <1>2, <1>3, SetLines DEF NoLockLines

\* Neither header nor footer locks anything.
LEMMA GuardLinesLockNothing ==
  ASSUME NEW o \in RenderOptions
  PROVE  headerGuardLines(o) \in Seq(NoLockLines) /\ footerGuardLines(o) \in Seq(NoLockLines)
<1> DEFINE L == NoLockLines
<1>o. /\ o.setCharset \in BOOLEAN /\ o.includeSessionGuards \in BOOLEAN /\ o.timeZone \in BOOLEAN
  BY DEF RenderOptions
<1>1. \A v \in {"FOREIGN_KEY_CHECKS", "UNIQUE_CHECKS", "SQL_MODE", "TIME_ZONE", "SQL_NOTES",
                "CHARACTER_SET_CLIENT", "CHARACTER_SET_RESULTS", "COLLATION_CONNECTION"} :
        /\ SaveIn(Old(v)) \in L /\ SaveAndSet(v, "dump") \in L /\ SetNames("dump") \in L
        /\ SetTo(v, Old(v)) \in L /\ SetTo(v, Lit("dump")) \in L
  BY SetsAreNoLocks DEF Variable
<1>m. \A s \in Seq(L) : Commented(s) \in Seq(L)
  BY CommentedNoLock
<1> HIDE DEF L
<1>c. \A s, t \in Seq(L) : s \o t \in Seq(L)
  BY ConcatProperties
<1>w. \A s \in Seq(L) : \A c \in BOOLEAN : When(c, s) \in Seq(L)
  BY WhenLines
<1>2. headerGuardLines(o) \in Seq(L)
  <2>1. /\ << SaveIn(Old("CHARACTER_SET_CLIENT")), SaveIn(Old("CHARACTER_SET_RESULTS")),
              SaveIn(Old("COLLATION_CONNECTION")), SetNames("dump") >> \in Seq(L)
        /\ << SaveIn(Old("TIME_ZONE")), SetTo("TIME_ZONE", Lit("dump")) >> \in Seq(L)
        /\ << SaveAndSet("UNIQUE_CHECKS", "dump"), SaveAndSet("FOREIGN_KEY_CHECKS", "dump"),
              SaveAndSet("SQL_MODE", "dump"), SaveAndSet("SQL_NOTES", "dump") >> \in Seq(L)
    BY <1>1
  <2> QED BY <1>o, <1>c, <1>w, <1>m, <2>1 DEF headerGuardLines
<1>3. footerGuardLines(o) \in Seq(L)
  <2> DEFINE Back(v) == SetTo(v, Old(v))
  <2>1. /\ << Back("TIME_ZONE") >> \in Seq(L) /\ << Back("SQL_NOTES") >> \in Seq(L)
        /\ << Back("SQL_MODE"), Back("FOREIGN_KEY_CHECKS"), Back("UNIQUE_CHECKS") >> \in Seq(L)
        /\ << Back("CHARACTER_SET_CLIENT"), Back("CHARACTER_SET_RESULTS"),
              Back("COLLATION_CONNECTION") >> \in Seq(L)
    BY <1>1
  <2> HIDE DEF Back
  <2> QED BY <1>o, <1>c, <1>w, <2>1 DEF footerGuardLines, Back
<1> QED BY <1>2, <1>3 DEF L

\* The LOCK TABLES of a table's rows stands behind their banner.
LEMMA RowsLockBehindBanner ==
  ASSUME NEW o \in RenderOptions, NEW e \in RenderedEntry, e.type = "tableData", o.addLocks
  PROVE  /\ renderEntry(o, e) \in Seq(HiddenLockLines)
         /\ \E i \in DOMAIN renderEntry(o, e) : renderEntry(o, e)[i].kind = "lock"
<1> DEFINE L == NoLockLines
           a == When(o.disableKeys, << Ddl >>)
           b == [i \in 1..e.inserts |-> Dml]
           c == When(o.addLocks, << Unlock >>)
           r == ((a \o b) \o a) \o c
           first == [Lock EXCEPT !.commented = TRUE]
<1>1. a \in Seq(L) /\ b \in Seq(L) /\ c \in Seq(L)
  <2>1. {Ddl, Dml, Unlock} \subseteq L
    <3>1. {Ddl, Dml, Unlock} \subseteq BlockLines(Variable)
      BY OtherLines
    <3> QED BY <3>1 DEF NoLockLines, BlockLines, Ddl, Dml, Unlock, Statement
  <2>2. o.disableKeys \in BOOLEAN /\ o.addLocks \in BOOLEAN /\ e.inserts \in Nat
    BY DEF RenderOptions, RenderedEntry
  <2> HIDE DEF L
  <2>3. << Ddl >> \in Seq(L) /\ << Unlock >> \in Seq(L)
    BY <2>1
  <2>4. a \in Seq(L) /\ c \in Seq(L)
    BY <2>2, <2>3, WhenLines
  <2>5. b \in Seq(L)
    BY <2>1, <2>2
  <2> QED BY <2>4, <2>5
<1>2. renderEntry(o, e) = Commented((((<< Lock >> \o a) \o b) \o a) \o c)
  <2>1. When(o.addLocks, << Lock >>) = << Lock >>
    BY DEF When
  <2> QED BY <2>1 DEF renderEntry, renderTableData
<1>3. Lock \in SqlStatement /\ NoLockLines \subseteq SqlStatement
  <2>1. Lock \in BlockLines(Variable)
    BY OtherLines
  <2> QED BY <2>1 DEF BlockLines, NoLockLines
<1>4. first \in HiddenLockLines /\ first.kind = "lock"
  BY <1>3 DEF HiddenLockLines, SqlStatement, Lock, Statement
<1> HIDE DEF a, b, c, L
<1>5. r \in Seq(L)
  <2>1. a \o b \in Seq(L)
    BY <1>1, ConcatProperties
  <2>2. (a \o b) \o a \in Seq(L)
    BY <1>1, <2>1, ConcatProperties
  <2> QED BY <1>1, <2>2, ConcatProperties
<1>6. (((<< Lock >> \o a) \o b) \o a) \o c = << Lock >> \o r
  <2> DEFINE S == SqlStatement
  <2>1. a \in Seq(S) /\ b \in Seq(S) /\ c \in Seq(S) /\ << Lock >> \in Seq(S)
    BY <1>1, <1>3, SeqMonotonic DEF L
  <2> HIDE DEF S
  <2>2. \A x, y, z \in Seq(S) : x \o y \in Seq(S) /\ (x \o y) \o z = x \o (y \o z)
    BY ConcatProperties, ConcatAssociative
  <2>3. /\ (<< Lock >> \o a) \o b = << Lock >> \o (a \o b) /\ a \o b \in Seq(S)
    BY <2>1, <2>2
  <2>4. /\ (<< Lock >> \o (a \o b)) \o a = << Lock >> \o ((a \o b) \o a)
        /\ (a \o b) \o a \in Seq(S)
    BY <2>1, <2>2, <2>3
  <2>5. (<< Lock >> \o ((a \o b) \o a)) \o c = << Lock >> \o r
    BY <2>1, <2>2, <2>4
  <2> QED BY <2>3, <2>4, <2>5
<1> HIDE DEF r, first
<1>7. /\ << Lock >> \o r # << >> /\ (<< Lock >> \o r)[1] = Lock /\ Tail(<< Lock >> \o r) = r
  BY <1>5
<1>8. renderEntry(o, e) = << first >> \o r
  BY <1>2, <1>6, <1>7 DEF Commented, first
<1>9. r \in Seq(HiddenLockLines)
  <2>1. NoLockLines \subseteq HiddenLockLines
    BY DEF NoLockLines, HiddenLockLines
  <2> QED BY <1>5, <2>1, SeqMonotonic DEF L
<1>10. << first >> \o r \in Seq(HiddenLockLines)
  <2> DEFINE S == HiddenLockLines
  <2>1. << first >> \in Seq(S)
    BY <1>4
  <2> HIDE DEF S
  <2>2. << first >> \o r \in Seq(S)
    BY <1>9, <2>1, ConcatProperties DEF S
  <2> QED BY <2>2 DEF S
<1>11. (<< first >> \o r)[1] = first /\ 1 \in DOMAIN (<< first >> \o r)
  BY <1>5
<1> QED BY <1>4, <1>8, <1>10, <1>11

\* The LOCK TABLES of a dump all stand behind a comment, the banner of their
\* table's rows, so the restore's pattern sees none of them; and a dump has
\* some whenever it has rows and its options ask for locks.
THEOREM DumpLocksAreHidden ==
  ASSUME NEW o \in RenderOptions, NEW entries \in Seq(RenderedEntry),
         NEW s, s = renderPlainSql(o, entries)
  PROVE  /\ \A i \in DOMAIN s : s[i].kind = "lock" => s[i].commented
         /\ (\E i \in DOMAIN s : s[i].kind = "lock")
              <=> o.addLocks /\ \E i \in DOMAIN entries : entries[i].type = "tableData"
<1> DEFINE n == Len(entries)
           ss == [i \in 1..n |-> renderEntry(o, entries[i])]
           H == headerGuardLines(o)
           B == FlattenSeq(ss)
           F == footerGuardLines(o)
<1>1. n \in Nat /\ DOMAIN entries = 1..n /\ \A i \in 1..n : entries[i] \in RenderedEntry
  BY LenProperties, ElementOfSeq
<1>2. s = (H \o B) \o F
  BY <1>1 DEF renderPlainSql
<1>3. H \in Seq(NoLockLines) /\ F \in Seq(NoLockLines)
  BY GuardLinesLockNothing
<1>4. NoLockLines \subseteq HiddenLockLines
  BY DEF NoLockLines, HiddenLockLines
<1>5. ASSUME NEW i \in 1..n, ~(o.addLocks /\ entries[i].type = "tableData")
      PROVE  ss[i] \in Seq(NoLockLines)
  <2>1. {Ddl, Program, Dml, Use} \subseteq NoLockLines
    <3>1. {Ddl, Program, Dml, Use} \subseteq BlockLines(Variable)
      BY OtherLines
    <3> QED BY <3>1 DEF NoLockLines, BlockLines, Ddl, Program, Dml, Use, Statement
  <2>2. Assigned(entries[i], Variable)
    BY DEF CharsetTrio, Variable, Assigned
  <2>3. ContextIn(NoLockLines, Variable)
    BY SetsAreNoLocks DEF Variable
  <2> QED BY <1>1, <1>5, <2>1, <2>2, <2>3, CommentedNoLock, LinesOfBlock
<1>6. ss \in [1..n -> Seq(HiddenLockLines)]
  <2>1. ASSUME NEW i \in 1..n PROVE ss[i] \in Seq(HiddenLockLines)
    <3>1. CASE o.addLocks /\ entries[i].type = "tableData"
      BY <1>1, <3>1, RowsLockBehindBanner
    <3>2. CASE ~(o.addLocks /\ entries[i].type = "tableData")
      <4>1. ss[i] \in Seq(NoLockLines)
        BY <1>5, <3>2
      <4> QED BY <1>4, <4>1, SeqMonotonic
    <3> QED BY <3>1, <3>2
  <2> QED BY <2>1
<1>7. ASSUME NEW k \in 1..n, o.addLocks /\ entries[k].type = "tableData"
      PROVE  \E x \in 1..Len(ss[k]) : ss[k][x].kind = "lock"
  <2>1. \E x \in DOMAIN ss[k] : ss[k][x].kind = "lock"
    BY <1>1, <1>7, RowsLockBehindBanner
  <2> QED BY <1>6, <2>1, LenProperties
<1>8. DOMAIN s = 1..Len(s) /\ s \in Seq(HiddenLockLines)
  <2> HIDE DEF ss, n, H, F
  <2>1. B \in Seq(HiddenLockLines)
    BY <1>1, <1>6, FlattenedLines
  <2>2. H \in Seq(HiddenLockLines) /\ F \in Seq(HiddenLockLines)
    BY <1>3, <1>4, SeqMonotonic
  <2> HIDE DEF B
  <2> QED BY <1>2, <2>1, <2>2, ConcatProperties, LenProperties
<1>9. \A i \in DOMAIN s : s[i].kind = "lock" => s[i].commented
  BY <1>8, ElementOfSeq DEF HiddenLockLines
<1>10. ASSUME \A i \in 1..n : ~(o.addLocks /\ entries[i].type = "tableData")
       PROVE  \A i \in DOMAIN s : s[i].kind # "lock"
  <2>1. ss \in [1..n -> Seq(NoLockLines)]
    BY <1>5, <1>10
  <2> HIDE DEF ss, n, H, F
  <2>2. B \in Seq(NoLockLines)
    BY <1>1, <2>1, FlattenedLines
  <2> HIDE DEF B
  <2>3. s \in Seq(NoLockLines)
    BY <1>2, <1>3, <2>2, ConcatProperties
  <2> QED BY <2>3, ElementOfSeq, LenProperties DEF NoLockLines
<1>11. ASSUME NEW k \in 1..n, o.addLocks /\ entries[k].type = "tableData"
       PROVE  \E i \in DOMAIN s : s[i].kind = "lock"
  <2>1. PICK x \in 1..Len(ss[k]) : ss[k][x].kind = "lock"
    BY <1>7, <1>11
  <2> HIDE DEF ss, n, H, F
  <2>2. PICK j \in 1..Len(B) : B[j] = ss[k][x]
    BY <1>1, <1>6, FlattenedLines
  <2>3. B \in Seq(HiddenLockLines)
    BY <1>1, <1>6, FlattenedLines
  <2>4. H \in Seq(SqlStatement) /\ B \in Seq(SqlStatement) /\ F \in Seq(SqlStatement)
    <3>1. HiddenLockLines \subseteq SqlStatement /\ NoLockLines \subseteq SqlStatement
      BY DEF HiddenLockLines, NoLockLines
    <3> QED BY <1>3, <2>3, <3>1, SeqMonotonic
  <2> HIDE DEF B
  <2>5. Len(H) + j \in DOMAIN s /\ s[Len(H) + j] = B[j]
    <3>1. /\ Len(H) \in Nat /\ Len(B) \in Nat /\ Len(F) \in Nat
          /\ Len(s) = Len(H) + Len(B) + Len(F) /\ DOMAIN s = 1..Len(s)
          /\ DOMAIN B = 1..Len(B) /\ \A m \in DOMAIN B : s[Len(H) + m] = B[m]
      BY <1>2, <2>4, ThreeParts
    <3> QED BY <3>1
  <2> QED BY <2>1, <2>2, <2>5
<1> QED BY <1>1, <1>9, <1>10, <1>11

-----------------------------------------------------------------------------
LEMMA OwnerInvInit == Init => OwnerInv
<1> SUFFICES ASSUME Init PROVE OwnerInv
  OBVIOUS
<1>. QED BY PlacesOf DEF Init, OwnerInv, VariablesAsFound, FreshSession, Sys

\* Only the acquisition leads to a call that ends without a release.
LEMMA OwnerInvNext == Inv /\ OwnerInv /\ [Next]_vars => OwnerInv'
<1> SUFFICES ASSUME Inv, OwnerInv, [Next]_vars PROVE OwnerInv'
  OBVIOUS
<1>s. srv \in Session(DOMAIN script) /\ releases \in Nat
  BY DEF Inv, TypeOK
<1>1. CASE Acquire \/ Terminated \/ Abort \/ UNCHANGED vars
  BY <1>1 DEF Acquire, Terminated, Abort, OwnerInv, vars, Frame
<1>2. CASE LoseConnection
  <2>1. VariablesAsFound(srv) => VariablesAsFound(Disconnect(srv))
    BY <1>s, EnvFields DEF VariablesAsFound
  <2>. QED BY <1>2, <1>s, <2>1, SessionFields DEF LoseConnection, OwnerInv, Frame
<1>3. CASE Release
  BY <1>3, <1>s DEF Release, OwnerInv
<1>4. CASE \/ UseDatabase \/ StartTransaction \/ Fetch \/ ExecuteSucceeds \/ ExecuteFails
           \/ ExecuteFailsOnDefiner \/ ExecuteAborted \/ Retry \/ Commit
  BY <1>4 DEF UseDatabase, StartTransaction, Fetch, ExecuteSucceeds, ExecuteFails,
              ExecuteFailsOnDefiner, ExecuteAborted, Retry, Commit, CallAborted, StatementFailed,
              Advance, Finalize, OwnerInv
<1>5. CASE Rollback \/ CleanupUnlock \/ CleanupGuard \/ CleanupDone
  BY <1>5 DEF Rollback, RollbackWith, AfterRollback, CleanupUnlock, CleanupGuard, CleanupDone,
              CleanupDoneKeeping, OwnerInv
<1>. QED BY <1>1, <1>2, <1>3, <1>4, <1>5 DEF Next, Step

\* While the connection is its owner's the session is as the owner left it.
LeftAlone == Phase # "operation" => AsFound

LEMMA NotOperating ==
  ASSUME AllRestore
  PROVE  Inv /\ LockInv /\ GuardsInv /\ OwnerInv => LeftAlone
<1> SUFFICES ASSUME Inv, LockInv, GuardsInv, OwnerInv, Phase # "operation", srv.up
             PROVE  /\ \A v \in Variable : PutBack(v)
                    /\ srv.locked => TableLocks \in swallowed
                    /\ srv.inTx => Transaction \in swallowed
  BY DEF LeftAlone, AsFound
<1>1. opts.restoreSessionState /\ releases \in Nat
  BY DEF AllRestore, Inv, TypeOK
<1>2. CASE releases > 0
  <2>1. changed = {} /\ ~transactionOpen
    BY <1>1, <1>2 DEF Inv, CleanupInv
  <2>2. \A v \in Variable : PutBack(v)
    BY <2>1 DEF GuardsInv, VariableInv
  <2>. QED BY <2>1, <2>2 DEF Inv, TransactionInv, LockInv
<1>3. CASE releases = 0
  BY <1>3 DEF OwnerInv, Phase, VariablesAsFound, PutBack
<1>. QED BY <1>1, <1>2, <1>3

LEMMA LeaseStep ==
  ASSUME Inv, LeftAlone, LeftAlone', [Next]_vars
  PROVE  [Lease!Next]_<< Phase, AsFound >>
<1>1. AsFound' \in BOOLEAN /\ releases \in Nat
  BY DEF AsFound, Inv, TypeOK
<1>2. CASE Acquire
  <2>1. UNCHANGED AsFound
    BY <1>2 DEF Acquire, Frame, AsFound, PutBack
  <2>2. Phase = "owner" /\ Phase' \in { "owner", "operation" }
    BY <1>2 DEF Acquire, Phase, Inv, ControlInv, Frame, Cleanup
  <2>. QED BY <2>1, <2>2 DEF Lease!Next, Lease!Lend
<1>3. CASE Release
  <2>1. UNCHANGED AsFound
    BY <1>3 DEF Release, NotSent, AsFound, PutBack
  <2>2. Phase \in { "operation", "returned" } /\ Phase' = "returned"
    BY <1>1, <1>3 DEF Release, Phase
  <2>3. AsFound
    BY <2>1, <2>2 DEF LeftAlone
  <2>. QED BY <2>1, <2>2, <2>3 DEF Lease!Next, Lease!HandBack
<1>4. ASSUME UNCHANGED releases, pc \in {"acquire", "done"} <=> pc' \in {"acquire", "done"}
      PROVE  [Lease!Next]_<< Phase, AsFound >>
  <2>1. UNCHANGED Phase
    BY <1>4 DEF Phase
  <2>2. CASE Phase = "operation"
    BY <1>1, <2>1, <2>2 DEF Lease!Next, Lease!Use
  <2>3. CASE Phase # "operation"
    <3>1. AsFound /\ AsFound'
      BY <2>1, <2>3 DEF LeftAlone
    <3>. QED BY <1>1, <2>1, <3>1
  <2>. QED BY <2>2, <2>3
<1>5. CASE \/ UseDatabase \/ StartTransaction \/ Fetch \/ ExecuteSucceeds \/ ExecuteFails
           \/ ExecuteFailsOnDefiner \/ ExecuteAborted \/ Retry \/ Commit
  BY <1>5, <1>4
     DEF UseDatabase, StartTransaction, Fetch, ExecuteSucceeds, ExecuteFails,
         ExecuteFailsOnDefiner, ExecuteAborted, Retry, Commit, CallAborted, StatementFailed,
         Advance, Finalize, Frame
<1>6. CASE Rollback \/ CleanupUnlock \/ CleanupGuard \/ CleanupDone
  BY <1>6, <1>4 DEF Rollback, RollbackWith, AfterRollback, CleanupUnlock, CleanupGuard, CleanupDone,
                    CleanupDoneKeeping, Frame
<1>7. CASE Abort \/ LoseConnection \/ Terminated \/ UNCHANGED vars
  BY <1>7, <1>4 DEF Abort, LoseConnection, Terminated, vars, Frame
<1>. QED BY <1>2, <1>3, <1>5, <1>6, <1>7 DEF Next, Step

\* A restore that may put the session back implements the lease: it hands the
\* connection back with variables, lock and transaction as its owner left them
\* and leaves it alone afterwards - for scripts that guard what they change
\* and lock tables with nothing in front.
THEOREM RestoreImplementsLease ==
  ASSUME PlainLocks, AllGuarded, AllRestore
  PROVE  Spec => ImplementsLease
<1>1. Init => Lease!Init
  <2>1. Init => OwnerInv /\ Phase = "owner"
    BY OwnerInvInit DEF Init, Phase
  <2>2. Init => AsFound
    BY <2>1 DEF Init, OwnerInv, VariablesAsFound, AsFound, PutBack
  <2>. QED BY <2>1, <2>2 DEF Lease!Init, AsFound
<1>2. Spec => []LockInv
  <2>1. Inv /\ LockInv /\ [Next]_vars => LockInv'
    BY LockInvNext
  <2>. QED BY LockInvInit, InvHolds, <2>1, PTL DEF Spec
<1>3. Spec => []OwnerInv
  BY OwnerInvInit, OwnerInvNext, InvHolds, PTL DEF Spec
<1>4. Spec => []LeftAlone
  <2>1. Inv /\ LockInv /\ GuardsInv /\ OwnerInv => LeftAlone
    BY NotOperating
  <2>. QED BY <1>2, <1>3, <2>1, GuardsHold, InvHolds, PTL
<1>5. Inv /\ LeftAlone /\ LeftAlone' /\ [Next]_vars => [Lease!Next]_<< Phase, AsFound >>
  BY LeaseStep
<1>. QED BY <1>1, <1>4, <1>5, InvHolds, PTL DEF Spec, ImplementsLease, Lease!Spec

DumpsWithoutLocks ==
  \A s \in Scripts :
    \E o \in RenderOptions : \E entries \in Seq(RenderedEntry) :
      /\ s = renderPlainSql(o, entries)
      /\ o.addLocks => \A i \in DOMAIN entries : entries[i].type # "tableData"

\* Restoring dumps implements the lease, however long they are, when each was
\* rendered with the guards its objects need and without LOCK TABLES.
THEOREM DumpsImplementLease ==
  ASSUME SuitedDumps, DumpsWithoutLocks, AllRestore
  PROVE  Spec => ImplementsLease
<1>1. PlainLocks
  <2>1. ASSUME NEW s \in Scripts
        PROVE  \A i \in DOMAIN s : s[i].kind = "lock" => ~s[i].commented
    <3>1. PICK o \in RenderOptions : \E entries \in Seq(RenderedEntry) :
            /\ s = renderPlainSql(o, entries)
            /\ o.addLocks => \A i \in DOMAIN entries : entries[i].type # "tableData"
      BY DEF DumpsWithoutLocks
    <3>2. PICK entries \in Seq(RenderedEntry) :
            /\ s = renderPlainSql(o, entries)
            /\ o.addLocks => \A i \in DOMAIN entries : entries[i].type # "tableData"
      BY <3>1
    <3>. QED BY <3>2, DumpLocksAreHidden
  <2>. QED BY <2>1 DEF PlainLocks
<1>. QED BY <1>1, DumpsAreAllGuarded, RestoreImplementsLease
=============================================================================
