------------------------- MODULE RestoreSessionState -------------------------
(***************************************************************************)
(* The set of codes a restore keeps of what its script changed in the      *)
(* session and has not put back (class RestoreSessionState), as operators  *)
(* on that set.  Detection works on the statement's text: a comment before *)
(* the keyword hides LOCK TABLES but not a SET.                            *)
(***************************************************************************)
EXTENDS MysqlSession, Sequences

TableLocks == "TABLE LOCKS"
Codes == Variable \cup {TableLocks}

\* `V=0`: recognised by the value assigned.
DetectedByZero == { "FOREIGN_KEY_CHECKS", "UNIQUE_CHECKS", "SQL_NOTES" }
\* `@OLD_V=@@V`: recognised by the header's save, not by the assignment.
DetectedBySave == { "SQL_MODE", "TIME_ZONE" }

\* GUARD_PATTERNS: does the SET match the pattern of v?
Changes(st, v) ==
  CASE v \in DetectedByZero -> Sys(v) \in DOMAIN st.assign /\ st.assign[Sys(v)] = Lit("dump")
    [] v \in DetectedBySave -> Old(v) \in DOMAIN st.assign /\ st.assign[Old(v)] = Sys(v)
    [] v \in CharsetTrio    -> Sys(v) \in DOMAIN st.assign

\* RESTORED_PATTERNS: `SET V=@OLD_V`.
PutsBack(st, v) == Sys(v) \in DOMAIN st.assign /\ st.assign[Sys(v)] = Old(v)

ObserveVariables(changed, st) ==
  IF st.kind = "set"
  THEN (changed \cup {v \in Variable : Changes(st, v)}) \ {v \in Variable : PutsBack(st, v)}
  ELSE changed

ObserveLocksInSets(changed, st) == changed
\* LOCK_TABLES and UNLOCK_TABLES are anchored at the start of the text.
ObserveLocks(changed, st) ==
  IF st.commented THEN changed
  ELSE CASE st.kind = "lock"   -> changed \cup {TableLocks}
         [] st.kind = "unlock" -> changed \ {TableLocks}
         [] OTHER              -> changed

Observe(changed, st) == ObserveLocks(ObserveVariables(changed, st), st)

\* The value the cleanup statement of v assigns: COALESCE(@OLD_v, default),
\* except for character_set_results, whose saved value may be NULL.
CleanupValue(env, v) ==
  IF v # "CHARACTER_SET_RESULTS" /\ env[Old(v)] = "null" THEN "default" ELSE env[Old(v)]

RestoreVariable(s, v) == [s EXCEPT !.env[Sys(v)] = CleanupValue(s.env, v)]
=============================================================================
