--------------------------- MODULE ArchivePlanner ---------------------------
(***************************************************************************)
(* inspectDumpArchive: which entries a dump of a database consists of, on  *)
(* which others each depends, and in which order they are written.         *)
(*                                                                         *)
(* The database is the set of the objects introspection read and its       *)
(* foreign keys, as pairs of table names.  Entries are sorted by           *)
(* compareEntries, so a plan is the set of its entries and the order       *)
(* Before: the entry at a smaller index is the one that is before.         *)
(***************************************************************************)
EXTENDS Selection

CONSTANT DatabaseName

ASSUME DatabaseNameAssumption == DatabaseName \in Nat

Kind == {"table", "view", "function", "procedure", "trigger", "event"}
NoName == 0

ArchiveObjectType == Kind \cup {"database", "tableData", "viewStub"}

ArchiveEntry ==
  [ type : ArchiveObjectType, name : Nat, parent : Nat, order : Nat ]

PlanOptions ==
  [ mode : {"full", "schema-only", "data-only"}, includeTables : BOOLEAN,
    includeViews : BOOLEAN, includeTriggers : BOOLEAN, includeRoutines : BOOLEAN,
    includeEvents : BOOLEAN, includeDatabaseEntry : BOOLEAN ]

-----------------------------------------------------------------------------
(* sectionRules.ts *)

dumpSectionPriority(type) ==
  CASE type = "database" -> 0
    [] type \in {"table", "tableData", "trigger", "viewStub"} -> 1
    [] type = "event" -> 2
    [] type \in {"function", "procedure"} -> 3
    [] type = "view" -> 4

mainGroupTriggersFirst(type) ==
  CASE type = "tableData" -> 2 [] type = "trigger" -> 1 [] OTHER -> 0
mainGroupPriority(type) ==
  CASE type = "tableData" -> 1 [] type = "trigger" -> 2 [] OTHER -> 0

routineKindPriority(type) == IF type = "procedure" THEN 1 ELSE 0

-----------------------------------------------------------------------------
(* The entries *)

wantsSchema(o) == o.mode # "data-only"
wantsData(o)   == o.mode # "schema-only"

Entry(type, name) == [type |-> type, name |-> name, parent |-> NoName, order |-> 0]

\* The owning table is the parent of its data and of its triggers.
DataEntry(table) == [Entry("tableData", table) EXCEPT !.parent = table]
TriggerEntry(t)  == [type |-> "trigger", name |-> t.name, parent |-> t.table, order |-> t.order]

NamesOf(db, kind, class, s) ==
  {x.name : x \in {y \in db.objects : y.kind = kind /\ IsSelected(class, y.name, s)}}

SelectedTables(db, s, o) == IF o.includeTables THEN NamesOf(db, "table", "tables", s) ELSE {}
SelectedViews(db, s, o)  == IF o.includeViews THEN NamesOf(db, "view", "views", s) ELSE {}
SelectedTriggers(db, s, o) ==
  IF o.includeTriggers /\ wantsSchema(o)
  THEN {t \in db.objects : t.kind = "trigger" /\ IsSelected("triggers", t.name, s)} ELSE {}

\* The tables that get an entry for their structure.
TableEntryNames(db, s, o) == IF wantsSchema(o) THEN SelectedTables(db, s, o) ELSE {}

TableEntries(db, s, o) ==
  {Entry("table", n) : n \in TableEntryNames(db, s, o)}
  \cup {DataEntry(n) : n \in {m \in SelectedTables(db, s, o) :
                                wantsData(o) /\ ~isTableDataExcluded(m, s)}}

ViewEntriesWithoutStubs(db, s, o) ==
  IF wantsSchema(o) THEN {Entry("view", n) : n \in SelectedViews(db, s, o)} ELSE {}
ViewEntries(db, s, o) ==
  IF wantsSchema(o)
  THEN UNION {{Entry("viewStub", n), Entry("view", n)} : n \in SelectedViews(db, s, o)} ELSE {}

\* A trigger on a table without an entry is dropped, and reported.
TriggerEntries(db, s, o) ==
  {TriggerEntry(t) : t \in {u \in SelectedTriggers(db, s, o) :
                              u.table \in TableEntryNames(db, s, o)}}
TriggersWithoutTable(db, s, o) ==
  {t \in SelectedTriggers(db, s, o) : t.table \notin TableEntryNames(db, s, o)}

EventEntries(db, s, o) ==
  IF o.includeEvents /\ wantsSchema(o)
  THEN {Entry("event", n) : n \in NamesOf(db, "event", "events", s)} ELSE {}

RoutineEntries(db, s, o) ==
  IF o.includeRoutines /\ wantsSchema(o)
  THEN {Entry("function", n) : n \in NamesOf(db, "function", "routines", s)}
       \cup {Entry("procedure", n) : n \in NamesOf(db, "procedure", "routines", s)} ELSE {}

DatabaseEntries(o) == IF o.includeDatabaseEntry THEN {Entry("database", DatabaseName)} ELSE {}

Entries(db, s, o) ==
  DatabaseEntries(o) \cup TableEntries(db, s, o) \cup ViewEntries(db, s, o)
  \cup TriggerEntries(db, s, o) \cup EventEntries(db, s, o) \cup RoutineEntries(db, s, o)

-----------------------------------------------------------------------------
(* What entry e depends on *)

RequiresHard(e, d) ==
  \/ d.type = "database" /\ e.type \in {"table", "tableData", "viewStub", "event",
                                        "function", "procedure"}
  \/ d.type = "table" /\ e.type = "tableData" /\ d.name = e.name
  \/ d.type \in {"table", "tableData"} /\ e.type = "trigger" /\ d.name = e.parent
  \/ d.type = "viewStub" /\ e.type = "view"

\* Foreign keys are wishes only: that is what makes circular ones work.
Prefers(e, d, foreignKeys) ==
  d.type = "table" /\ (e.type = "view" \/ (e.type = "table" /\ << e.name, d.name >> \in foreignKeys))

\* addDependency: an entry does not depend on itself, and a requirement wins
\* over a wish.
Strength(e, d, foreignKeys) ==
  CASE d = e -> "none"
    [] d # e /\ RequiresHard(e, d) -> "hard"
    [] d # e /\ ~RequiresHard(e, d) /\ Prefers(e, d, foreignKeys) -> "preference"
    [] OTHER -> "none"

DependsHard(e, d, foreignKeys) == Strength(e, d, foreignKeys) = "hard"

-----------------------------------------------------------------------------
(* The order *)

groupKey(e) == IF e.type \in {"tableData", "trigger"} THEN e.parent ELSE e.name

\* The secondary key of a trigger is the text "2:<order>:<name>", compared by
\* code points: orders compare as their digits do, with ":" behind "9".
TextRank(n) == IF n < 10 THEN 11 * n + 10 ELSE 11 * (n \div 10) + (n % 10)

secondaryKey(e) == IF e.type = "trigger" THEN TextRank(e.order) ELSE 0

\* The keys compareEntries compares, the most significant first.  The kind of
\* routine counts in the routines' section only, where alone it differs.
SortKey(e) ==
  << dumpSectionPriority(e.type), routineKindPriority(e.type), groupKey(e),
     mainGroupPriority(e.type), secondaryKey(e), e.name >>

compareEntries(k, l) == \E i \in 1..6 : k[i] < l[i] /\ \A j \in 1..(i - 1) : k[j] = l[j]

Before(d, e) == compareEntries(SortKey(d), SortKey(e))

-----------------------------------------------------------------------------
(* The verdict *)

\* createArchiveIdentity: what two entries may not share.
Identity(e) == << e.type, e.name, e.parent >>

Duplicates(E) == {e \in E : \E d \in E : d # e /\ Identity(d) = Identity(e)}

\* An entry written before one it needs.
UnsatisfiedDependencies(E, foreignKeys) ==
  {p \in E \X E : DependsHard(p[1], p[2], foreignKeys) /\ Before(p[1], p[2])}

\* A component of several entries exists when some entries each need another
\* of them; each then needs one and is needed.
findHardCycles(E, foreignKeys) ==
  LET Needs(e, d) == DependsHard(e, d, foreignKeys)
      Inner == {e \in E : (\E d \in E : Needs(e, d)) /\ (\E d \in E : Needs(d, e))}
  IN  {C \in SUBSET Inner : C # {} /\ \A e \in C : \E d \in C : Needs(e, d)}

IsValid(E, foreignKeys) ==
  /\ Duplicates(E) = {}
  /\ UnsatisfiedDependencies(E, foreignKeys) = {}
  /\ findHardCycles(E, foreignKeys) = {}
=============================================================================
