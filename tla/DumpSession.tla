----------------------------- MODULE DumpSession -----------------------------
(***************************************************************************)
(* The read session of a dump: the statements with which                   *)
(* beginMysqlDumpSession pins a caller's session, those with which         *)
(* restoreSessionVariables puts it back, and what each does at the server. *)
(*                                                                         *)
(* A session is a value, [vars, inTx, snapshot, readLock].  A session      *)
(* variable holds what the caller's session held ("caller"), what the dump *)
(* assigns ("dump"), or what SET NAMES derives from the caller's client    *)
(* character set ("ofCaller").                                             *)
(***************************************************************************)
EXTENDS Naturals, Sequences

CharsetTrio == { "character_set_client", "character_set_results", "collation_connection" }

SessionVariable == CharsetTrio \cup { "sql_mode", "time_zone", "transaction_isolation" }

Setting == { "caller", "dump", "ofCaller" }

\* How a caller's session differs from what the dump assumes: its sql_mode
\* holds a flag that misrenders the catalog, its character sets are those of a
\* plain SET NAMES, its isolation level is REPEATABLE READ already.
Caller == [ conflictingMode : BOOLEAN, plainNames : BOOLEAN, repeatableRead : BOOLEAN ]

Found(caller) ==
  [v \in SessionVariable |->
     CASE v \in CharsetTrio \ {"character_set_client"} /\ caller.plainNames -> "ofCaller"
       [] v = "transaction_isolation" /\ caller.repeatableRead -> "dump"
       [] OTHER -> "caller"]

Consistency == { "single-transaction", "lock-all-tables", "none" }

-----------------------------------------------------------------------------
\* SET NAMES assigns all three; from the caller's charset only the first is
\* what it was, the others follow from it.
SetNames(vars, from) ==
  [v \in SessionVariable |->
     IF v \notin CharsetTrio THEN vars[v]
     ELSE IF from = "dump" THEN "dump"
     ELSE IF v = "character_set_client" THEN from ELSE "ofCaller"]

BeginStatement ==
  { "read sql_mode", "read time_zone", "read character_set_client",
    "set sql_mode", "set time_zone", "set names", "isolation", "start", "lock" }

ReadsVariable ==
  [ st \in { "read sql_mode", "read time_zone", "read character_set_client" } |->
      CASE st = "read sql_mode"  -> "sql_mode"
        [] st = "read time_zone" -> "time_zone"
        [] OTHER                 -> "character_set_client" ]

\* What is kept of the session s, for the restore, when st is answered.
Kept(saved, st, s) ==
  IF st \in DOMAIN ReadsVariable
  THEN [saved EXCEPT ![ReadsVariable[st]] = s.vars[ReadsVariable[st]]]
  ELSE saved

\* What begin sends for options o to a caller's session, in order.  sql_mode is
\* set only when it holds a conflicting flag; a time zone of null is left alone.
BeginOrder ==
  << "read sql_mode", "read time_zone", "read character_set_client",
     "set sql_mode", "set time_zone", "set names", "isolation", "start", "lock" >>

IsSentInCallersIsolation(st, o, caller) ==
  CASE st \in { "read time_zone", "set time_zone" } -> o.timeZone
    [] st = "set sql_mode" -> caller.conflictingMode
    [] st = "isolation"    -> FALSE
    [] st = "start"        -> o.consistency = "single-transaction"
    [] st = "lock"         -> o.consistency = "lock-all-tables"
    [] OTHER               -> TRUE
IsSent(st, o, caller) ==
  CASE st \in { "read time_zone", "set time_zone" } -> o.timeZone
    [] st = "set sql_mode"              -> caller.conflictingMode
    [] st \in { "isolation", "start" }  -> o.consistency = "single-transaction"
    [] st = "lock"                      -> o.consistency = "lock-all-tables"
    [] OTHER                            -> TRUE

\* The server's side; now is the version of the data at this instant.
SetVariable(s, v, x) == [s EXCEPT !.vars = [@ EXCEPT ![v] = x]]

Begin(s, st, now) ==
  CASE st = "set sql_mode"  -> SetVariable(s, "sql_mode", "dump")
    [] st = "set time_zone" -> SetVariable(s, "time_zone", "dump")
    [] st = "set names"     -> [s EXCEPT !.vars = SetNames(s.vars, "dump")]
    [] st = "isolation"     -> SetVariable(s, "transaction_isolation", "dump")
    [] st = "start"         -> [s EXCEPT !.inTx = TRUE, !.snapshot = now]
    [] st = "lock"          -> [s EXCEPT !.readLock = TRUE]
    [] OTHER                -> s

\* COMMIT or UNLOCK TABLES.
End(s) == [s EXCEPT !.inTx = FALSE, !.readLock = FALSE]

\* What a consistent read sees: the snapshot, under REPEATABLE READ only, and
\* only of tables whose engine has one; every other read sees the present.
Sees(s, transactional, now) ==
  IF transactional /\ s.inTx /\ s.vars["transaction_isolation"] = "dump" THEN s.snapshot ELSE now

-----------------------------------------------------------------------------
\* restoreSessionVariables, in order, from the values begin read.
RestoreOrder == << "sql_mode", "time_zone", "character_set_client" >>

IsRestored(v, o, caller) ==
  CASE v = "sql_mode"  -> caller.conflictingMode
    [] v = "time_zone" -> o.timeZone
    [] OTHER           -> TRUE

RestoreOnlyClient(s, v, saved) == SetVariable(s, v, saved[v])
Restore(s, v, saved) ==
  IF v = "character_set_client" THEN [s EXCEPT !.vars = SetNames(s.vars, saved[v])]
                                ELSE SetVariable(s, v, saved[v])

FreshSession(caller) ==
  [ vars |-> Found(caller), inTx |-> FALSE, snapshot |-> 0, readLock |-> FALSE ]

Session(Versions) ==
  [ vars : [SessionVariable -> Setting], inTx : BOOLEAN, snapshot : Versions,
    readLock : BOOLEAN ]
=============================================================================
