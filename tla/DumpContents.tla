---------------------------- MODULE DumpContents ----------------------------
(***************************************************************************)
(* What a dump contains: dumpMysql from introspection through the plan to  *)
(* the end of the renderer's walk, with other sessions changing the        *)
(* catalog all along.  The script is the sequence of the blocks written.   *)
(*                                                                         *)
(* The connection, the snapshot and the rows are in DumpRun, the           *)
(* statements of a block in DumpScript.                                    *)
(***************************************************************************)
EXTENDS Introspection, Sequences, FiniteSets

CONSTANT Options

ASSUME OptionsAssumption ==
  Options \subseteq
    [ mode : {"full", "schema-only", "data-only"}, includeTables : BOOLEAN,
      includeViews : BOOLEAN, includeTriggers : BOOLEAN, includeRoutines : BOOLEAN,
      includeEvents : BOOLEAN, includeDatabaseEntry : BOOLEAN,
      unsupportedFeaturePolicy : {"error", "warn-omit"}, addDropTable : BOOLEAN ]

VARIABLES
  opts,
  pending,            \* the entries not yet visited
  banners,            \* the section banners not yet written
  rendered, skipped,  \* the entries visited
  script              \* the blocks written

renderVars == << pending, banners, rendered, skipped, script >>
vars == << introspectionVars, opts, renderVars >>

\* A block is an entry's text, a section banner, or half of the pair that
\* saves the time zone around the events; def holds the definition written.
BlockType == ArchiveObjectType \cup {"eventsBanner", "routinesBanner", "saveTimeZone", "resetTimeZone"}
Block(type, name, def) == [type |-> type, name |-> name, def |-> def]

Init ==
  /\ IntrospectionInit
  /\ opts \in Options
  /\ pending = {} /\ banners = {} /\ rendered = {} /\ skipped = {} /\ script = << >>

-----------------------------------------------------------------------------
database == [objects |-> model]

\* inspectDumpArchive, and the refusal of an invalid archive.
Plan ==
  /\ phase = "assembled"
  /\ LET E == Entries(database, normalized, opts)
     IN  IF IsValid(E, foreignKeys)
         THEN /\ phase' = "rendering" /\ pending' = E
              /\ banners' = (IF opts.includeEvents THEN {"eventsBanner"} ELSE {})
                            \cup (IF opts.includeRoutines THEN {"routinesBanner"} ELSE {})
              /\ diagnostics' = diagnostics \cup
                   {Diagnostic("trigger-table-not-selected", t) :
                      t \in TriggersWithoutTable(database, normalized, opts)}
         ELSE phase' = "rejected" /\ UNCHANGED << pending, banners, diagnostics >>
  /\ UNCHANGED << given, others, todo, model, foreignKeys, opts, rendered, skipped, script >>

\* The banners due before an entry of a section, or at the end.
Due(priority) ==
  {b \in banners : (IF b = "eventsBanner" THEN 2 ELSE 3) <= priority}
Flushed(due) ==
  (IF "eventsBanner" \in due THEN << Block("eventsBanner", NoName, {}) >> ELSE << >>)
  \o (IF "routinesBanner" \in due THEN << Block("routinesBanner", NoName, {}) >> ELSE << >>)

-----------------------------------------------------------------------------
(* The renderer's maps from names to objects.  Routines share one map, into *)
(* which the functions are put first and the procedures over them.          *)

MapKinds(type) ==
  CASE type \in {"table", "tableData"} -> {"table"}
    [] type \in {"view", "viewStub"} -> {"view"}
    [] type \in {"function", "procedure"} -> {"function", "procedure"}
    [] OTHER -> {type}

Named(e) == {o \in model : o.kind \in MapKinds(e.type) /\ o.name = e.name}
Got(e)   == {o \in Named(e) : o.kind = "procedure" \/ \A p \in Named(e) : p.kind # "procedure"}
Missing(e) == e.type # "database" /\ Got(e) = {}
CreateSql(e) == UNION {o.createSql : o \in Got(e)}

Unsupported(e) == e.type \in {"table", "view", "trigger"} /\ CreateSql(e) = {}
SkippedSilently(e) == e.type \in {"function", "procedure", "event"} /\ CreateSql(e) = {}

NamesOfAllEvents == {o.name : o \in {p \in model : p.kind = "event"}}
RenderableEventNames == {o.name : o \in {p \in model : p.kind = "event" /\ p.createSql # {}}}
isFirstEvent(e) == e.type = "event" /\ \A n \in RenderableEventNames : e.name <= n
isLastEvent(e)  == e.type = "event" /\ \A n \in RenderableEventNames : n <= e.name

\* The text of an entry.  A table's rows are read now, from the table that is
\* there now; a stub holds no more than the view's column names.
EntryBlocks(e) ==
  CASE e.type \in {"database", "viewStub"} -> << Block(e.type, e.name, {}) >>
    [] e.type = "tableData" -> << Block(e.type, e.name, Shown([kind |-> "table", name |-> e.name])) >>
    [] OTHER ->
         (IF isFirstEvent(e) THEN << Block("saveTimeZone", NoName, {}) >> ELSE << >>)
         \o << Block(e.type, e.name, CreateSql(e)) >>
         \o (IF isLastEvent(e) THEN << Block("resetTimeZone", NoName, {}) >> ELSE << >>)

-----------------------------------------------------------------------------
\* The walk takes the entries in the plan's order.
IsNext(e) == e \in pending /\ \A d \in pending \ {e} : Before(e, d)

Visit(e) ==
  /\ phase = "rendering" /\ IsNext(e)
  /\ pending' = pending \ {e}
  /\ banners' = banners \ Due(dumpSectionPriority(e.type))
  /\ UNCHANGED << given, others, todo, model, foreignKeys, opts >>

FlushedBy(e) == Flushed(Due(dumpSectionPriority(e.type)))

\* Reading the rows of a table that is gone fails, and ends the dump.
RenderEntry(e) ==
  /\ Visit(e)
  /\ ~Missing(e) /\ ~Unsupported(e) /\ ~SkippedSilently(e)
  /\ e.type = "tableData" => Shown([kind |-> "table", name |-> e.name]) # {}
  /\ script' = script \o FlushedBy(e) \o EntryBlocks(e)
  /\ rendered' = rendered \cup {e}
  /\ UNCHANGED << phase, diagnostics, skipped >>

TableIsGone(e) ==
  /\ Visit(e) /\ e.type = "tableData" /\ Shown([kind |-> "table", name |-> e.name]) = {}
  /\ phase' = "rejected" /\ UNCHANGED << diagnostics, rendered, skipped, script >>

\* missing() and unsupported(): by default the dump ends.
RefuseEntry(e) ==
  /\ Visit(e) /\ (Missing(e) \/ Unsupported(e)) /\ opts.unsupportedFeaturePolicy = "error"
  /\ phase' = "refused" /\ script' = script \o FlushedBy(e)
  /\ UNCHANGED << diagnostics, rendered, skipped >>

\* With warn-omit an entry is left out: a missing object's report refers to no
\* object, that of an unsupported one to a table of its name, whatever it is.
OmissionReport(e) ==
  IF Missing(e) THEN [code |-> "model-object-missing", kind |-> "none", name |-> NoName]
                ELSE [code |-> "unsupported-object", kind |-> "table", name |-> e.name]

OmitEntry(e) ==
  /\ Visit(e)
  /\ \/ /\ Missing(e) \/ Unsupported(e)
        /\ opts.unsupportedFeaturePolicy = "warn-omit"
        /\ diagnostics' = diagnostics \cup {OmissionReport(e)}
     \/ ~Missing(e) /\ SkippedSilently(e) /\ UNCHANGED diagnostics
  /\ script' = script \o FlushedBy(e)
  /\ skipped' = skipped \cup {e}
  /\ UNCHANGED << phase, rendered >>

Complete ==
  /\ phase = "rendering" /\ pending = {}
  /\ phase' = "completed"
  /\ script' = script \o Flushed(banners) /\ banners' = {}
  /\ UNCHANGED << given, others, todo, model, foreignKeys, diagnostics, opts, pending,
                  rendered, skipped >>

\* The signal fires, or the output or a read of rows fails.
RenderingFails ==
  /\ phase = "rendering" /\ phase' \in {"cancelled", "rejected"}
  /\ UNCHANGED << given, others, todo, model, foreignKeys, diagnostics, opts, renderVars >>

Render ==
  \/ \E e \in pending : RenderEntry(e) \/ TableIsGone(e) \/ RefuseEntry(e) \/ OmitEntry(e)
  \/ Complete \/ RenderingFails

Ended == phase \in {"completed", "cancelled", "rejected", "refused"}

OtherSession == ~Ended /\ (DropObject \/ DefineObject) /\ UNCHANGED << opts, renderVars >>

Next ==
  \/ Introspect /\ UNCHANGED << opts, renderVars >>
  \/ Plan \/ Render \/ OtherSession

Spec == Init /\ [][Next]_vars

-----------------------------------------------------------------------------
TypeOK ==
  /\ server \in Servers /\ selection \in Selections /\ opts \in Options
  /\ catalog \subseteq Definition /\ lasting \subseteq catalog /\ ddl \in 0..MaxDdl
  /\ phase \in Introspecting \cup {"assembled", "rendering", "completed", "cancelled",
                               "rejected", "refused"}
  /\ \A o \in todo \cup model :
       o \in [ kind : Kind, name : Name, table : Nat, order : Nat, createSql : SUBSET Definition ]
  /\ foreignKeys \subseteq Name \X Name
  /\ \A d \in diagnostics : d.name \in Nat
  /\ pending \cup rendered \cup skipped \subseteq ArchiveEntry
  /\ banners \subseteq {"eventsBanner", "routinesBanner"}
  /\ script \in Seq([type : BlockType, name : Nat, def : SUBSET Definition])

-----------------------------------------------------------------------------
(* What the caller asked for, as the server compares names. *)

SameName(class, m, n) ==
  m = n \/ ((class \notin {"tables", "views"} \/ server.caseInsensitiveTableNames)
            /\ Lower[m] = Lower[n])

Chosen(d) ==
  LET class == ClassOf[d.kind]
  IN  /\ \A x \in selection.exclude[class] : ~SameName(class, x, d.name)
      /\ \A list \in selection.include[class] : \E x \in list : SameName(class, x, d.name)

IncludedKind(kind) ==
  CASE kind = "table" -> opts.includeTables
    [] kind = "view" -> opts.includeViews
    [] kind = "trigger" -> opts.includeTriggers
    [] kind \in {"function", "procedure"} -> opts.includeRoutines
    [] kind = "event" -> opts.includeEvents /\ server.supportsEvents

AskedFor(d) == d.kind \in Kind /\ IncludedKind(d.kind) /\ opts.mode # "data-only" /\ Chosen(d)

RowsAskedFor(d) ==
  /\ d.kind = "table" /\ opts.includeTables /\ opts.mode # "schema-only" /\ Chosen(d)
  /\ \A x \in selection.dataExcludedTables : ~SameName("tables", x, d.name)

\* A trigger is written with its table, and a table may be left out.
HasTable(d) ==
  d.kind = "trigger" =>
    /\ opts.includeTables
    /\ \E t \in catalog : t.kind = "table" /\ t.name = d.table /\ Chosen(t)

TimesWritten(type, d) == Cardinality({i \in DOMAIN script : script[i].type = type /\ script[i].def = {d}})
Reported(d) ==
  \E g \in diagnostics :
    g.kind = (IF d.kind = "sequence" THEN "table" ELSE d.kind) /\ g.name = d.name

\* A dump that completes holds each object that was asked for and was there,
\* as it is, all the time: once, in its own words, and with its rows once if
\* they were asked for.  What it does not hold is reported, and nothing that
\* was not asked for is in it.  (normalizeDumpSelection, introspectMysql,
\* inspectDumpArchive and renderEntry together.)
WritesWhatWasAskedFor ==
  phase = "completed" =>
    /\ \A d \in lasting :
         /\ AskedFor(d) /\ HasTable(d) /\ ~Hidden(d) => TimesWritten(d.kind, d) = 1
         /\ AskedFor(d) /\ (Hidden(d) \/ ~HasTable(d)) =>
              TimesWritten(d.kind, d) = 0 /\ Reported(d)
         /\ d.kind = "sequence" => Reported(d)
         /\ RowsAskedFor(d) => TimesWritten("tableData", d) = 1
    /\ \A i \in DOMAIN script : \A d \in script[i].def :
         IF script[i].type = "tableData" THEN RowsAskedFor(d) ELSE AskedFor(d)

\* The planner never refuses what introspection read: it holds no name twice,
\* its order respects every requirement, and foreign keys, circular ones
\* included, are no requirement (planner.ts: validateOrder, findHardCycles).
PlansAreValid ==
  phase = "assembled" => IsValid(Entries(database, normalized, opts), foreignKeys)

-----------------------------------------------------------------------------
(* Restoring the script on an empty server *)

Creates(i, n, types) == script[i].type \in types /\ script[i].name = n

\* Nothing of the name is there yet, or the block drops it first.
Free(i, types) ==
  opts.addDropTable \/ \A j \in 1..(i - 1) : ~Creates(j, script[i].name, types)

\* What the script creates somewhere under this name it has created before.
ReadyBefore(i, n) ==
  (\E j \in DOMAIN script : Creates(j, n, {"table", "viewStub", "view"}))
    => \E j \in 1..(i - 1) : Creates(j, n, {"table", "viewStub", "view"})

\* Two triggers of a table that have been as they are all the time.
FiresBefore(c, d) ==
  {c, d} \subseteq lasting /\ c.kind = "trigger" /\ c.table = d.table /\ c.order < d.order

\* The block finds what it needs: a view the tables and views it names, rows
\* their table, a trigger its table with the rows in it and the triggers that
\* fire before it, and nothing finds its own name taken.
Restorable(i) ==
  LET b == script[i]
  IN  CASE b.type \in {"table", "viewStub"} -> Free(i, {"table", "viewStub"})
        [] b.type = "view" ->
             Free(i, {"viewStub", "view"}) /\ \A d \in b.def : \A n \in d.uses : ReadyBefore(i, n)
        [] b.type = "tableData" ->
             opts.mode = "data-only" \/ \E j \in 1..(i - 1) : Creates(j, b.name, {"table"})
        [] b.type = "trigger" ->
             \A d \in b.def :
               /\ \E j \in 1..(i - 1) : Creates(j, d.table, {"table"})
               /\ \A j \in DOMAIN script : Creates(j, d.table, {"tableData"}) => j < i
               /\ \A j \in DOMAIN script : \A c \in script[j].def :
                    FiresBefore(c, d) => j < i
        [] b.type \in {"function", "procedure"} ->
             \A d \in b.def : d.kind = b.type /\ Free(i, {b.type})
        [] OTHER -> TRUE

\* A complete dump can be restored block by block: views may name views that
\* sort behind them, triggers do not fire while rows are loaded, and every
\* real view finds its stub gone.
RestoresOnEmptyServer == phase = "completed" => \A i \in DOMAIN script : Restorable(i)

\* The blocks of a dump stand in the order of mysqldump, the banner of each
\* section the caller includes once and in front of it, and one pair of time
\* zone statements around the events when there are any.
LayoutRank(type) ==
  CASE type = "database" -> 0
    [] type \in {"table", "tableData", "trigger", "viewStub"} -> 1
    [] type = "eventsBanner" -> 2 [] type = "saveTimeZone" -> 3
    [] type = "event" -> 4 [] type = "resetTimeZone" -> 5
    [] type = "routinesBanner" -> 6 [] type = "function" -> 7 [] type = "procedure" -> 8
    [] type = "view" -> 9

Times(type) == Cardinality({i \in DOMAIN script : script[i].type = type})
OneIf(condition) == IF condition THEN 1 ELSE 0

LaidOutAsMysqldump ==
  phase = "completed" =>
    /\ \A i, j \in DOMAIN script : i < j => LayoutRank(script[i].type) <= LayoutRank(script[j].type)
    /\ Times("eventsBanner") = OneIf(opts.includeEvents)
    /\ Times("routinesBanner") = OneIf(opts.includeRoutines)
    /\ Times("saveTimeZone") = OneIf(Times("event") > 0)
    /\ Times("resetTimeZone") = OneIf(Times("event") > 0)

-----------------------------------------------------------------------------
(* What the theorems about complete dumps assume of a server: each leaves   *)
(* out a case in which the code does otherwise.                             *)

Definitions == (UNION Catalogs) \cup Creations

\* No function has the name of a procedure: the renderer's map takes one.
NoTwins ==
  \A c, d \in Definitions : c.kind = "function" /\ d.kind = "procedure" => c.name # d.name

\* No other session puts a trigger on another table: its place in the dump
\* is that of the table it was listed with.
TriggersStay ==
  \A c, d \in Definitions :
    c.kind = "trigger" /\ d.kind = "trigger" /\ c.name = d.name => c.table = d.table

\* The planner compares the orders of triggers as text.
OneDigitOrders == \A c \in Definitions : c.order < 10

\* A view replaces its stub.
StubsAreDropped == \A o \in Options : o.addDropTable \/ ~o.includeViews

\* The caller does not get a dump from which a table was left out, with its
\* rows and triggers still there.
TablesAreShown ==
  \/ \A o \in Options : o.unsupportedFeaturePolicy = "error"
  \/ \A s \in Servers : \A n \in Name : << "table", n >> \notin s.hidden
=============================================================================
