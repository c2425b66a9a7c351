--------------------------- MODULE MCDumpContents ---------------------------
(***************************************************************************)
(* Instances of DumpContents for TLC.                                      *)
(***************************************************************************)
EXTENDS DumpContents

\* Name 1 is name 3 in upper case, and sorts before it.
FiveNames == 1..5
LowerCase == [n \in FiveNames |-> IF n = 1 THEN 3 ELSE n]

Object(kind, name, uses) ==
  [kind |-> kind, name |-> name, table |-> NoName, order |-> 0, uses |-> uses, body |-> 0]
Trigger(name, table, order) ==
  [Object("trigger", name, {}) EXCEPT !.table = table, !.order = order]

\* Two tables with circular foreign keys, a view on one that sorts behind it,
\* triggers that fire against the order of their names.
Tables   == {Object("table", 1, {2}), Object("table", 2, {1})}
Views    == {Object("view", 4, {1, 5}), Object("view", 5, {2})}
Triggers == {Trigger(4, 2, 1), Trigger(1, 2, 2)}
Programs == {Object("function", 1, {}), Object("procedure", 4, {}),
             Object("event", 1, {}), Object("event", 5, {})}
Shop     == {Tables \cup Views \cup Triggers \cup Programs,
             Tables \cup {Trigger(5, 1, 1), Object("sequence", 3, {})}}

\* A function and a procedure may share a name: they have a namespace each.
Twins == {{Object("function", 1, {}), Object("procedure", 1, {})}}
OneView == {Tables \cup Views}
NoCreations == {}

\* What other sessions do: a view replaced, a table altered, a function and
\* a table made.
SomeCreations ==
  {[Object("view", 4, {2}) EXCEPT !.body = 1], [Object("table", 2, {}) EXCEPT !.body = 1],
   Object("function", 5, {}), Object("table", 3, {})}

\* A server that folds names and hides an event; one that does not, has no
\* events, and hides a function and a trigger.
Folding == [hasDatabase |-> TRUE, caseInsensitiveTableNames |-> TRUE,
            supportsEvents |-> TRUE, hidden |-> {<< "event", 5 >>}]
Exact   == [hasDatabase |-> TRUE, caseInsensitiveTableNames |-> FALSE,
            supportsEvents |-> FALSE, hidden |-> {<< "function", 1 >>, << "trigger", 1 >>}]
PlainServer == {[Folding EXCEPT !.hidden = {}]}
SomeServers == {Folding, Exact, [Folding EXCEPT !.hasDatabase = FALSE]}

Everything ==
  [ include |-> [c \in NameClass |-> {}], exclude |-> [c \in NameClass |-> {}],
    dataExcludedTables |-> {} ]
SelectAll == {Everything}
SomeSelections ==
  { Everything,
    [Everything EXCEPT !.include["tables"] = {{1}}, !.include["routines"] = {{1}},
                       !.exclude["events"] = {3}],
    [Everything EXCEPT !.exclude["views"] = {4}, !.exclude["triggers"] = {3},
                       !.dataExcludedTables = {3}] }

Defaults ==
  [ mode |-> "full", includeTables |-> TRUE, includeViews |-> TRUE, includeTriggers |-> TRUE,
    includeRoutines |-> TRUE, includeEvents |-> TRUE, includeDatabaseEntry |-> FALSE,
    unsupportedFeaturePolicy |-> "error", addDropTable |-> TRUE ]
JustDefaults == {Defaults}
WithoutDrop  == {[Defaults EXCEPT !.addDropTable = FALSE]}
SomeOptions ==
  { Defaults,
    [Defaults EXCEPT !.mode = "schema-only", !.unsupportedFeaturePolicy = "warn-omit"],
    [Defaults EXCEPT !.mode = "data-only", !.includeDatabaseEntry = TRUE],
    [Defaults EXCEPT !.includeTables = FALSE, !.includeEvents = FALSE],
    [Defaults EXCEPT !.includeViews = FALSE, !.includeTriggers = FALSE,
                     !.includeRoutines = FALSE, !.includeDatabaseEntry = TRUE,
                     !.unsupportedFeaturePolicy = "warn-omit"] }

\* What the theorems assume of a server is so of the shop.
ASSUME ShopIsOrdinary ==
  Catalogs = Shop /\ Options = SomeOptions =>
    NoTwins /\ TriggersStay /\ OneDigitOrders /\ StubsAreDropped /\ TablesAreShown
=============================================================================
