---------------------------- MODULE MysqlSession ----------------------------
(***************************************************************************)
(* One MySQL session, as far as the dumper and the restorer rely on it:    *)
(* the session variables they change, the user variables a dump saves them *)
(* in, the table lock, and the transaction.  The server is not part of the *)
(* repository; these operators say what the SQL the code sends does there. *)
(*                                                                         *)
(* A session is a value, [up, env, locked, inTx, applied, pending,         *)
(* durable], and every operator maps a session to the next one, so that    *)
(* the modules which drive a session keep it in one variable.              *)
(***************************************************************************)
EXTENDS Naturals, FiniteSets

\* The session variables a dump guards, in the order restore() visits them.
GuardOrder ==
  << "FOREIGN_KEY_CHECKS", "UNIQUE_CHECKS", "SQL_MODE", "TIME_ZONE", "SQL_NOTES",
     "CHARACTER_SET_CLIENT", "CHARACTER_SET_RESULTS", "COLLATION_CONNECTION" >>

Variable ==
  { "FOREIGN_KEY_CHECKS", "UNIQUE_CHECKS", "SQL_MODE", "TIME_ZONE", "SQL_NOTES",
    "CHARACTER_SET_CLIENT", "CHARACTER_SET_RESULTS", "COLLATION_CONNECTION" }

CharsetTrio ==
  { "CHARACTER_SET_CLIENT", "CHARACTER_SET_RESULTS", "COLLATION_CONNECTION" }

\* What a variable holds, up to what the properties tell apart: the value the
\* caller's session had, the one the dump's header assigns, the one an object
\* was created under, the server's default, NULL (an unset user variable), or
\* what an earlier restore left behind in a user variable.
Value == { "caller", "dump", "object", "default", "null", "stale" }

\* A place holds a value: the session variable itself, or one of the user
\* variables dumps save it in (@OLD_SQL_MODE, @saved_sql_mode, @save_time_zone).
Scope == { "@@", "@OLD_", "@saved_", "@save_" }
Place == Scope \X Variable

Sys(v)   == << "@@", v >>
Old(v)   == << "@OLD_", v >>
Saved(v) == << "@saved_", v >>
Save(v)  == << "@save_", v >>
Lit(x)   == << "=", x >>

\* The right-hand side of an assignment: a place or a literal.
Source == Place \cup ({"="} \X Value)

Read(env, src) == IF src[1] = "=" THEN src[2] ELSE env[src]

-----------------------------------------------------------------------------
\* A statement: its kind; for a SET, the places it assigns and from what; a
\* comment in front of the keyword; a DEFINER clause.  A SET that assigns
\* @OLD_V and V at once reads every right-hand side first.
Kind == { "set", "lock", "unlock", "ddl", "dml", "use" }

IsStatement(st) ==
  /\ st.kind \in Kind
  /\ st.commented \in BOOLEAN
  /\ st.definer \in BOOLEAN
  /\ DOMAIN st.assign \subseteq Place
  /\ \A p \in DOMAIN st.assign : st.assign[p] \in Source

\* Only character_set_results may be NULL; assigning NULL to another session
\* variable is an error.
Assignable(s, st) ==
  \A p \in DOMAIN st.assign :
    (p[1] = "@@" /\ p[2] # "CHARACTER_SET_RESULTS") => Read(s.env, st.assign[p]) # "null"

\* A statement the server may also refuse for reasons of its own: a missing
\* table, a duplicate key, a privilege.  Of the SETs only those to the context
\* an object was created under, which names character sets, zones and modes
\* another server may not know.
Refusable(st) ==
  st.kind = "set" => \E p \in DOMAIN st.assign : st.assign[p] = Lit("object")

CommitTx(s)   == [s EXCEPT !.inTx = FALSE, !.pending = {}, !.durable = @ \cup s.pending]
RollbackTx(s) == [s EXCEPT !.inTx = FALSE, !.pending = {}]

\* START TRANSACTION commits what was open and releases LOCK TABLES locks.
BeginTx(s) == [CommitTx(s) EXCEPT !.inTx = TRUE, !.locked = FALSE]

\* UNLOCK TABLES commits only when it releases a LOCK TABLES lock.
UnlockTables(s) == IF s.locked THEN [CommitTx(s) EXCEPT !.locked = FALSE] ELSE s

Assign(s, assign) ==
  [s EXCEPT !.env = [p \in Place |-> IF p \in DOMAIN assign THEN Read(s.env, assign[p])
                                                            ELSE s.env[p]]]

\* The session after it executed st, the statement of index i in its script.
\* DDL and LOCK TABLES commit implicitly.  USE only changes the default database.
Effect(s, st, i) ==
  CASE st.kind = "set"    -> Assign(s, st.assign)
    [] st.kind = "lock"   -> [CommitTx(s) EXCEPT !.locked = TRUE]
    [] st.kind = "unlock" -> UnlockTables(s)
    [] st.kind = "ddl"    -> [CommitTx(s) EXCEPT !.durable = @ \cup {i}]
    [] st.kind = "dml"    -> IF s.inTx THEN [s EXCEPT !.pending = @ \cup {i}]
                                       ELSE [s EXCEPT !.durable = @ \cup {i}]
    [] st.kind = "use"    -> s

Apply(s, st, i) == [Effect(s, st, i) EXCEPT !.applied = @ \cup {i}]

\* The socket is gone: the server rolls back and releases everything.
Disconnect(s) == [RollbackTx(s) EXCEPT !.up = FALSE, !.locked = FALSE]

\* The sessions that execute scripts with indices in D.
Session(D) ==
  [ up : BOOLEAN, env : [Place -> Value], locked : BOOLEAN, inTx : BOOLEAN,
    applied : SUBSET D, pending : SUBSET D, durable : SUBSET D ]

\* A session as the caller hands it over; user variables may hold leftovers.
FreshSession(left) ==
  [ up |-> TRUE, locked |-> FALSE, inTx |-> FALSE,
    env |-> [p \in Place |-> IF p[1] = "@@" THEN "caller" ELSE left],
    applied |-> {}, pending |-> {}, durable |-> {} ]

VariablesAsFound(s) == \A v \in Variable : s.env[Sys(v)] = "caller"
=============================================================================
