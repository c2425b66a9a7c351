------------------------- MODULE DumpContentsProofs -------------------------
(***************************************************************************)
(* Dumps of every catalog, selection and set of options, with any number   *)
(* of changes made by other sessions: the types, that planning never       *)
(* fails, that the walk keeps to the order of requirements, and of a       *)
(* complete dump its layout, that it holds what was asked for and nothing  *)
(* else, and that it can be restored block by block on an empty server.    *)
(***************************************************************************)
EXTENDS DumpContents, ArchivePlannerProofs, FiniteSetTheorems

Phases == Introspecting \cup {"assembled", "rendering", "completed", "cancelled",
                              "rejected", "refused"}
Listable == [ kind : Kind, name : Name, table : Nat, order : Nat, createSql : SUBSET Definition ]
Blocks == [type : BlockType, name : Nat, def : SUBSET Definition]

\* Phases before any trigger is listed.
BeforeTriggers ==
  {"server", "tables", "showTables", "keys", "routines", "showRoutines"}

\* The strengthening of the type invariant: the server has one object per
\* name, and so triggers, listed by one query, are listed once.
Inv ==
  /\ TypeOK
  /\ OneOfEach(catalog)
  /\ OneTriggerPerName([objects |-> todo \cup model])
  /\ phase \in BeforeTriggers => \A o \in todo \cup model : o.kind # "trigger"
  /\ phase \in Introspecting \cup {"assembled"} =>
       pending = {} /\ rendered = {} /\ skipped = {}

-----------------------------------------------------------------------------
\* A listing holds objects of the kinds asked for, as they are on the server.
LEMMA ListedIsTyped ==
  ASSUME catalog \subseteq Definition, NEW kinds \in SUBSET Kind
  PROVE  /\ Listed(kinds) \subseteq Listable
         /\ \A o \in Listed(kinds) : o.kind \in kinds
BY DEF Listed, Definition, Listable

\* One query lists one trigger of a name.
LEMMA ListedIsUnique ==
  ASSUME OneOfEach(catalog), NEW kinds
  PROVE  OneTriggerPerName([objects |-> Listed(kinds)])
BY DEF OneOfEach, OneTriggerPerName, Listed

\* Objects are listed with the identity they keep.
LEMMA ShowingKeepsUniqueness ==
  ASSUME NEW o \in todo, OneTriggerPerName([objects |-> todo \cup model]),
         NEW newModel, newModel \subseteq model \cup {[o EXCEPT !.createSql = Shown(o)]} \cup {o},
         todo \cup model \subseteq Listable
  PROVE  OneTriggerPerName([objects |-> (todo \ {o}) \cup newModel])
<1> DEFINE shown == [o EXCEPT !.createSql = Shown(o)]
<1>1. /\ shown.kind = o.kind /\ shown.name = o.name
      /\ shown.table = o.table /\ shown.order = o.order
  BY DEF Listable
<1>2. \A x \in (todo \ {o}) \cup newModel :
        \E y \in todo \cup model : /\ x.kind = y.kind /\ x.name = y.name
                                   /\ x.table = y.table /\ x.order = y.order
  BY <1>1
<1> HIDE DEF shown
<1> QED BY <1>2 DEF OneTriggerPerName
\* The first states satisfy the invariant.
LEMMA InitInv ==
  ASSUME Init
  PROVE  Inv
<1>1. /\ catalog \subseteq Definition /\ OneOfEach(catalog)
  BY IntrospectionAssumption DEF Init, IntrospectionInit
<1>2. TypeOK
  BY <1>1, IntrospectionAssumption DEF Init, IntrospectionInit, TypeOK, Introspecting
<1> QED BY <1>1, <1>2 DEF Init, IntrospectionInit, Inv, OneTriggerPerName

-----------------------------------------------------------------------------
(* Introspection *)

\* A step of introspection, or of another session, leaves the rendering alone.
NotRendering == UNCHANGED << opts, renderVars >>

\* Any step that lists or shows objects, seen from the outside.
LEMMA IntrospectionStep ==
  ASSUME Inv, NotRendering, UNCHANGED << given, others >>,
         phase \in Introspecting, phase' \in Introspecting \cup {"assembled", "rejected"},
         todo' \cup model' \subseteq Listable, foreignKeys' \subseteq Name \X Name,
         \A d \in diagnostics' : d.name \in Nat,
         OneTriggerPerName([objects |-> todo' \cup model']),
         phase' \in BeforeTriggers => \A o \in todo' \cup model' : o.kind # "trigger"
  PROVE  Inv'
<1>1. TypeOK'
  BY DEF Inv, TypeOK, NotRendering, renderVars, given, others, Listable, Introspecting
<1>2. OneOfEach(catalog)'
  BY DEF Inv, others, OneOfEach
<1>3. OneTriggerPerName([objects |-> todo \cup model])'
  OBVIOUS
<1>4. (phase \in Introspecting \cup {"assembled"} =>
         pending = {} /\ rendered = {} /\ skipped = {})'
  BY DEF Inv, NotRendering, renderVars
<1> QED BY <1>1, <1>2, <1>3, <1>4 DEF Inv

LEMMA ReadServerInv ==
  ASSUME Inv, ReadServer, NotRendering
  PROVE  Inv'
<1>1. /\ todo' = todo /\ model' = model /\ foreignKeys' = foreignKeys
      /\ diagnostics' = diagnostics /\ UNCHANGED << given, others >>
  BY DEF ReadServer
<1>2. phase \in BeforeTriggers /\ phase \in Introspecting
      /\ phase' \in Introspecting \cup {"assembled", "rejected"}
  BY DEF ReadServer, BeforeTriggers, Introspecting
<1>3. /\ todo' \cup model' \subseteq Listable /\ foreignKeys' \subseteq Name \X Name
      /\ \A d \in diagnostics' : d.name \in Nat
  BY <1>1 DEF Inv, TypeOK, Listable
<1>4. OneTriggerPerName([objects |-> todo' \cup model'])
  BY <1>1 DEF Inv
<1>5. \A o \in todo' \cup model' : o.kind # "trigger"
  BY <1>1, <1>2 DEF Inv
<1> QED BY <1>1, <1>2, <1>3, <1>4, <1>5, IntrospectionStep

\* The objects read are listable, and the names of a listing are numbers.
LEMMA InvTypes ==
  ASSUME Inv
  PROVE  /\ todo \cup model \subseteq Listable /\ foreignKeys \subseteq Name \X Name
         /\ \A d \in diagnostics : d.name \in Nat
         /\ catalog \subseteq Definition /\ Name \subseteq Nat
BY NamesAssumption DEF Inv, TypeOK, Listable

\* A new listing of anything but triggers, with nothing else to be shown.
LEMMA ListingInv ==
  ASSUME Inv, NotRendering, UNCHANGED << given, others >>, NEW kinds \in SUBSET Kind,
         "trigger" \notin kinds, todo' \subseteq Listed(kinds), model' = model,
         foreignKeys' = foreignKeys, \A d \in diagnostics' : d.name \in Nat,
         phase \in Introspecting, phase' \in Introspecting,
         phase' \in BeforeTriggers => phase \in BeforeTriggers
  PROVE  Inv'
<1>1. todo' \cup model' \subseteq Listable
  BY InvTypes, ListedIsTyped
<1>2. \A o \in todo' : o.kind # "trigger"
  BY InvTypes, ListedIsTyped
<1>3. OneTriggerPerName([objects |-> todo' \cup model'])
  BY <1>2 DEF OneTriggerPerName, Inv
<1>4. phase' \in BeforeTriggers => \A o \in todo' \cup model' : o.kind # "trigger"
  BY <1>2 DEF Inv
<1> QED BY <1>1, <1>3, <1>4, InvTypes, IntrospectionStep

LEMMA QueryTablesInv ==
  ASSUME Inv, QueryTables, NotRendering
  PROVE  Inv'
<1>1. {"table", "view"} \in SUBSET Kind
  BY DEF Kind
<1>2. todo' \subseteq Listed({"table", "view"})
  BY DEF QueryTables
<1>3. \A d \in diagnostics' : d.name \in Nat
  <2>1. \A o \in Listed({"sequence"}) : o.name \in Nat
    BY InvTypes DEF Listed, Definition
  <2> QED BY <2>1 DEF QueryTables, Diagnostic
<1> QED BY <1>1, <1>2, <1>3, ListingInv DEF QueryTables, Introspecting, BeforeTriggers

LEMMA QueryRoutinesInv ==
  ASSUME Inv, QueryRoutines, NotRendering
  PROVE  Inv'
<1>1. {"function", "procedure"} \in SUBSET Kind
  BY DEF Kind
<1> QED BY <1>1, InvTypes, ListingInv DEF QueryRoutines, Introspecting, BeforeTriggers

LEMMA QueryEventsInv ==
  ASSUME Inv, QueryEvents, NotRendering
  PROVE  Inv'
<1>1. {"event"} \in SUBSET Kind
  BY DEF Kind
<1> QED BY <1>1, InvTypes, ListingInv DEF QueryEvents, Introspecting, BeforeTriggers

\* The triggers are listed when none has been read.
LEMMA QueryTriggersInv ==
  ASSUME Inv, QueryTriggers, NotRendering
  PROVE  Inv'
<1>1. {"trigger"} \in SUBSET Kind
  BY DEF Kind
<1>2. phase \in BeforeTriggers /\ phase \in Introspecting
      /\ phase' \in Introspecting /\ phase' \notin BeforeTriggers
  BY DEF QueryTriggers, BeforeTriggers, Introspecting
<1>3. \A o \in model : o.kind # "trigger"
  BY <1>2 DEF Inv
<1>4. OneTriggerPerName([objects |-> Listed({"trigger"})])
  BY ListedIsUnique DEF Inv
<1>5. OneTriggerPerName([objects |-> todo' \cup model'])
  BY <1>3, <1>4 DEF OneTriggerPerName, QueryTriggers
<1>6. todo' \cup model' \subseteq Listable
  BY <1>1, InvTypes, ListedIsTyped DEF QueryTriggers
<1> QED BY <1>2, <1>5, <1>6, InvTypes, IntrospectionStep DEF QueryTriggers

\* Objects leave the model only.
LEMMA ModelShrinksInv ==
  ASSUME Inv, NotRendering, UNCHANGED << given, others, todo, diagnostics >>,
         model' \subseteq model, foreignKeys' \subseteq Name \X Name,
         phase \in Introspecting, phase' \in Introspecting \cup {"assembled", "rejected"},
         phase' \in BeforeTriggers => phase \in BeforeTriggers
  PROVE  Inv'
<1>1. todo' \cup model' \subseteq todo \cup model
  OBVIOUS
<1>2. OneTriggerPerName([objects |-> todo' \cup model'])
  BY <1>1 DEF OneTriggerPerName, Inv
<1>3. phase' \in BeforeTriggers => \A o \in todo' \cup model' : o.kind # "trigger"
  BY <1>1 DEF Inv
<1> QED BY <1>1, <1>2, <1>3, InvTypes, IntrospectionStep

LEMMA QueryViewsInv ==
  ASSUME Inv, QueryViews, NotRendering
  PROVE  Inv'
BY InvTypes, ModelShrinksInv DEF QueryViews, Introspecting, BeforeTriggers

LEMMA QueryForeignKeysInv ==
  ASSUME Inv, QueryForeignKeys, NotRendering
  PROVE  Inv'
<1>1. foreignKeys' \subseteq Name \X Name
  BY InvTypes DEF QueryForeignKeys, Definition
<1> QED BY <1>1, ModelShrinksInv DEF QueryForeignKeys, Introspecting, BeforeTriggers

LEMMA AssembleInv ==
  ASSUME Inv, Assemble, NotRendering
  PROVE  Inv'
BY InvTypes, ModelShrinksInv DEF Assemble, Introspecting, BeforeTriggers

LEMMA IntrospectionFailsInv ==
  ASSUME Inv, IntrospectionFails, NotRendering
  PROVE  Inv'
BY InvTypes, ModelShrinksInv DEF IntrospectionFails, BeforeTriggers

\* An object shown keeps its kind, name, table and order.
LEMMA ShowCreateInv ==
  ASSUME Inv, ShowCreate, NotRendering
  PROVE  Inv'
<1>1. PICK o \in todo :
        /\ todo' = todo \ {o}
        /\ \/ phase' = "rejected" /\ UNCHANGED << model, diagnostics >>
           \/ /\ model' = model \cup {[o EXCEPT !.createSql = Shown(o)]}
              /\ UNCHANGED << phase, diagnostics >>
           \/ /\ model' = model \cup {o}
              /\ diagnostics' = diagnostics \cup {Diagnostic("definition-unavailable", o)}
              /\ UNCHANGED phase
  BY DEF ShowCreate
<1> DEFINE shown == [o EXCEPT !.createSql = Shown(o)]
<1>2. o \in Listable
  BY <1>1, InvTypes
<1>3. shown \in Listable /\ shown.kind = o.kind
  BY <1>2, InvTypes DEF Listable, Shown
<1>4. model' \subseteq model \cup {shown} \cup {o}
  BY <1>1
<1>5. OneTriggerPerName([objects |-> todo' \cup model'])
  BY <1>1, <1>4, InvTypes, ShowingKeepsUniqueness DEF Inv
<1>6. todo' \cup model' \subseteq Listable
  BY <1>1, <1>2, <1>3, <1>4, InvTypes
<1>7. \A d \in diagnostics' : d.name \in Nat
  <2>1. o.name \in Nat
    BY <1>2, InvTypes DEF Listable
  <2> QED BY <1>1, <2>1, InvTypes DEF Diagnostic
<1>8. /\ phase \in Introspecting /\ phase' \in Introspecting \cup {"assembled", "rejected"}
      /\ phase' \in BeforeTriggers => phase \in BeforeTriggers
  BY <1>1 DEF ShowCreate, Introspecting, BeforeTriggers
<1>9. phase' \in BeforeTriggers => \A x \in todo' \cup model' : x.kind # "trigger"
  BY <1>1, <1>3, <1>4, <1>8 DEF Inv
<1>10. UNCHANGED << given, others, foreignKeys >>
  BY DEF ShowCreate
<1> QED BY <1>5, <1>6, <1>7, <1>8, <1>9, <1>10, InvTypes, IntrospectionStep

-----------------------------------------------------------------------------
(* Other sessions *)

LEMMA OtherSessionInv ==
  ASSUME Inv, OtherSession
  PROVE  Inv'
<1>1. \E after : /\ after \subseteq Definition /\ OneOfEach(after) /\ Ddl(after)
  <2>1. CASE DropObject
    <3>1. PICK after : after \subseteq catalog /\ Ddl(after)
      BY <2>1 DEF DropObject
    <3> QED BY <3>1, InvTypes DEF Inv, OneOfEach
  <2>2. CASE DefineObject
    <3>1. PICK d \in Creations :
            Ddl({c \in catalog : c.kind # d.kind \/ c.name # d.name} \cup {d})
      BY <2>2 DEF DefineObject
    <3>2. d \in Definition
      BY <3>1, IntrospectionAssumption
    <3>3. OneOfEach({c \in catalog : c.kind # d.kind \/ c.name # d.name} \cup {d})
      BY DEF Inv, OneOfEach
    <3> QED BY <3>1, <3>2, <3>3, InvTypes
  <2> QED BY <2>1, <2>2 DEF OtherSession
<1>2. PICK after : after \subseteq Definition /\ OneOfEach(after) /\ Ddl(after)
  BY <1>1
<1>3. /\ ddl' \in 0..MaxDdl /\ catalog' = after /\ lasting' = lasting \cap after
      /\ UNCHANGED << given, phase, todo, model, foreignKeys, diagnostics, opts, renderVars >>
  BY <1>2, IntrospectionAssumption DEF Ddl, OtherSession, Inv, TypeOK
<1>4. TypeOK'
  BY <1>2, <1>3 DEF Inv, TypeOK, given, renderVars
<1> QED BY <1>2, <1>3, <1>4 DEF Inv, OneOfEach, OneTriggerPerName, renderVars
-----------------------------------------------------------------------------
(* Planning and rendering *)

\* The order of the entries during the walk: what has been visited is before
\* what has not.
Walk ==
  /\ \A e \in pending \cup rendered \cup skipped : WellFormed(e)
  /\ \A e \in rendered \cup skipped : \A d \in pending : Before(e, d)

\* What the model holds is what the planner takes.
LEMMA ModelIsWellTyped ==
  ASSUME Inv
  PROVE  WellTyped(database) /\ OneTriggerPerName(database)
BY InvTypes DEF WellTyped, OneTriggerPerName, database, Inv, Listable

LEMMA FlushedBanners ==
  ASSUME NEW due
  PROVE  Flushed(due) \in Seq(Blocks)
<1>1. /\ Block("eventsBanner", NoName, {}) \in Blocks
      /\ Block("routinesBanner", NoName, {}) \in Blocks
  BY DEF Block, Blocks, BlockType, NoName
<1> QED BY <1>1 DEF Flushed

LEMMA WrittenBlocks ==
  ASSUME Inv, NEW e \in ArchiveEntry
  PROVE  EntryBlocks(e) \in Seq(Blocks)
<1>1. e.type \in BlockType /\ e.name \in Nat
  BY DEF ArchiveEntry, BlockType
<1>2. \A def \in SUBSET Definition : Block(e.type, e.name, def) \in Blocks
  BY <1>1 DEF Block, Blocks
<1>3. /\ Block("saveTimeZone", NoName, {}) \in Blocks
      /\ Block("resetTimeZone", NoName, {}) \in Blocks
  BY DEF Block, Blocks, BlockType, NoName
<1>4. CreateSql(e) \in SUBSET Definition
  <2>1. \A o \in model : o.createSql \in SUBSET Definition
    BY InvTypes DEF Listable
  <2> QED BY <2>1 DEF CreateSql, Got, Named
<1>5. Shown([kind |-> "table", name |-> e.name]) \in SUBSET Definition
  BY InvTypes DEF Shown
<1>6. CASE e.type \in {"database", "viewStub"}
  BY <1>2, <1>6 DEF EntryBlocks
<1>7. CASE e.type = "tableData"
  BY <1>2, <1>5, <1>7 DEF EntryBlocks
<1>8. CASE e.type \notin {"database", "viewStub", "tableData"}
  <2> DEFINE first == IF isFirstEvent(e) THEN << Block("saveTimeZone", NoName, {}) >> ELSE << >>
             middle == << Block(e.type, e.name, CreateSql(e)) >>
             last == IF isLastEvent(e) THEN << Block("resetTimeZone", NoName, {}) >> ELSE << >>
  <2>1. first \in Seq(Blocks)
    BY <1>3
  <2>2. middle \in Seq(Blocks)
    BY <1>2, <1>4
  <2>3. last \in Seq(Blocks)
    BY <1>3
  <2>4. EntryBlocks(e) = first \o middle \o last
    BY <1>8 DEF EntryBlocks
  <2> HIDE DEF first, middle, last
  <2> QED BY <2>1, <2>2, <2>3, <2>4
<1> QED BY <1>6, <1>7, <1>8

\* Any step from planning to the end.
LEMMA RenderingStep ==
  ASSUME Inv, UNCHANGED << given, others, todo, model, foreignKeys, opts >>,
         phase' \in {"rendering", "completed", "cancelled", "rejected", "refused"},
         \A d \in diagnostics' : d.name \in Nat,
         pending' \cup rendered' \cup skipped' \subseteq ArchiveEntry,
         banners' \subseteq {"eventsBanner", "routinesBanner"}, script' \in Seq(Blocks)
  PROVE  Inv'
<1>1. TypeOK'
  BY DEF Inv, TypeOK, given, others, Blocks
<1>2. phase' \notin Introspecting \cup {"assembled"} /\ phase' \notin BeforeTriggers
  BY DEF Introspecting, BeforeTriggers
<1> QED BY <1>1, <1>2 DEF Inv, others, OneOfEach, OneTriggerPerName

LEMMA RenderingTypes ==
  ASSUME Inv
  PROVE  /\ pending \cup rendered \cup skipped \subseteq ArchiveEntry
         /\ banners \subseteq {"eventsBanner", "routinesBanner"} /\ script \in Seq(Blocks)
BY DEF Inv, TypeOK, Blocks

LEMMA PlanInv ==
  ASSUME Inv, Walk, Plan
  PROVE  Inv' /\ Walk'
<1> DEFINE E == Entries(database, normalized, opts)
<1>1. \A e \in E : WellFormed(e)
  BY EntriesAreWellFormed, ModelIsWellTyped
<1>2. rendered = {} /\ skipped = {} /\ pending = {}
  BY DEF Plan, Inv
<1>3. CASE IsValid(E, foreignKeys)
  <2>1. /\ phase' = "rendering" /\ pending' = E
        /\ banners' \subseteq {"eventsBanner", "routinesBanner"}
        /\ UNCHANGED << given, others, todo, model, foreignKeys, opts, rendered, skipped, script >>
    BY <1>3 DEF Plan
  <2>2. \A d \in diagnostics' : d.name \in Nat
    <3>1. \A t \in TriggersWithoutTable(database, normalized, opts) : t.name \in Nat
      BY ModelIsWellTyped DEF TriggersWithoutTable, SelectedTriggers, WellTyped
    <3> QED BY <1>3, <3>1, InvTypes DEF Plan, Diagnostic
  <2>3. pending' \cup rendered' \cup skipped' \subseteq ArchiveEntry
    BY <1>1, <1>2, <2>1 DEF WellFormed
  <2>4. Inv'
    BY <2>1, <2>2, <2>3, RenderingTypes, RenderingStep
  <2>5. Walk'
    BY <1>1, <1>2, <2>1 DEF Walk
  <2> QED BY <2>4, <2>5
<1>4. CASE ~IsValid(E, foreignKeys)
  <2>1. /\ phase' = "rejected"
        /\ UNCHANGED << given, others, todo, model, foreignKeys, diagnostics, opts, renderVars >>
    BY <1>4 DEF Plan, renderVars
  <2>2. Inv'
    BY <2>1, InvTypes, RenderingTypes, RenderingStep DEF renderVars
  <2> QED BY <2>1, <2>2 DEF Walk, renderVars
<1> QED BY <1>3, <1>4

\* A visit takes the entry that is before all the others.
LEMMA VisitWalk ==
  ASSUME Inv, Walk, NEW e \in pending, Visit(e),
         rendered' \cup skipped' \subseteq rendered \cup skipped \cup {e}
  PROVE  /\ Walk'
         /\ pending' \cup rendered' \cup skipped' \subseteq ArchiveEntry
         /\ UNCHANGED << given, others, todo, model, foreignKeys, opts >>
         /\ banners' \subseteq {"eventsBanner", "routinesBanner"}
<1>1. pending' = pending \ {e} /\ \A d \in pending \ {e} : Before(e, d)
  BY DEF Visit, IsNext
<1>2. Walk'
  BY <1>1 DEF Walk
<1> QED BY <1>1, <1>2, RenderingTypes DEF Visit

LEMMA RenderEntryInv ==
  ASSUME Inv, Walk, NEW e \in pending, RenderEntry(e)
  PROVE  Inv' /\ Walk'
<1>1. /\ Visit(e) /\ phase' = "rendering" /\ UNCHANGED diagnostics
      /\ rendered' \cup skipped' \subseteq rendered \cup skipped \cup {e}
      /\ script' = script \o FlushedBy(e) \o EntryBlocks(e)
  BY DEF RenderEntry, Visit
<1>2. script' \in Seq(Blocks)
  <2>1. FlushedBy(e) \in Seq(Blocks)
    BY FlushedBanners DEF FlushedBy
  <2>2. EntryBlocks(e) \in Seq(Blocks)
    BY WrittenBlocks, RenderingTypes
  <2> QED BY <1>1, <2>1, <2>2, RenderingTypes
<1> QED BY <1>1, <1>2, InvTypes, VisitWalk, RenderingStep

\* The two ways a visit ends the dump.
LEMMA VisitEndsInv ==
  ASSUME Inv, Walk, NEW e \in pending, TableIsGone(e) \/ RefuseEntry(e)
  PROVE  Inv' /\ Walk'
<1>1. /\ Visit(e) /\ phase' \in {"rejected", "refused"}
      /\ UNCHANGED << diagnostics, rendered, skipped >>
      /\ script' = script \/ script' = script \o FlushedBy(e)
  BY DEF TableIsGone, RefuseEntry
<1>2. script' \in Seq(Blocks)
  <2>1. FlushedBy(e) \in Seq(Blocks)
    BY FlushedBanners DEF FlushedBy
  <2>2. script \o FlushedBy(e) \in Seq(Blocks)
    BY <2>1, RenderingTypes
  <2> QED BY <1>1, <2>2, RenderingTypes
<1> QED BY <1>1, <1>2, InvTypes, RenderingTypes, VisitWalk, RenderingStep

LEMMA OmitEntryInv ==
  ASSUME Inv, Walk, NEW e \in pending, OmitEntry(e)
  PROVE  Inv' /\ Walk'
<1>1. /\ Visit(e) /\ phase' = "rendering"
      /\ rendered' \cup skipped' \subseteq rendered \cup skipped \cup {e}
      /\ script' = script \o FlushedBy(e)
  BY DEF OmitEntry, Visit
<1>2. script' \in Seq(Blocks)
  <2>1. FlushedBy(e) \in Seq(Blocks)
    BY FlushedBanners DEF FlushedBy
  <2> QED BY <1>1, <2>1, RenderingTypes
<1>3. \A d \in diagnostics' : d.name \in Nat
  <2>1. e.name \in Nat
    BY RenderingTypes DEF ArchiveEntry
  <2> QED BY <2>1, InvTypes DEF OmitEntry, OmissionReport, NoName
<1> QED BY <1>1, <1>2, <1>3, VisitWalk, RenderingStep

LEMMA CompleteInv ==
  ASSUME Inv, Walk, Complete
  PROVE  Inv' /\ Walk'
<1>1. script' \in Seq(Blocks)
  BY FlushedBanners, RenderingTypes DEF Complete
<1>2. Inv'
  BY <1>1, InvTypes, RenderingTypes, RenderingStep DEF Complete
<1> QED BY <1>2 DEF Complete, Walk

LEMMA RenderingFailsInv ==
  ASSUME Inv, Walk, RenderingFails
  PROVE  Inv' /\ Walk'
<1>1. Inv'
  BY InvTypes, RenderingTypes, RenderingStep DEF RenderingFails, renderVars
<1> QED BY <1>1 DEF RenderingFails, Walk, renderVars

-----------------------------------------------------------------------------
(* The theorems *)

LEMMA NextInv ==
  ASSUME Inv, Walk, [Next]_vars
  PROVE  Inv' /\ Walk'
<1>1. CASE Introspect /\ NotRendering
  <2>1. Inv'
    BY <1>1, ReadServerInv, QueryTablesInv, ShowCreateInv, QueryViewsInv, QueryForeignKeysInv,
       QueryRoutinesInv, QueryTriggersInv, QueryEventsInv, AssembleInv, IntrospectionFailsInv
       DEF Introspect
  <2> QED BY <1>1, <2>1 DEF NotRendering, renderVars, Walk
<1>2. CASE Plan
  BY <1>2, PlanInv
<1>3. CASE Render
  BY <1>3, RenderEntryInv, VisitEndsInv, OmitEntryInv, CompleteInv, RenderingFailsInv DEF Render
<1>4. CASE OtherSession
  <2>1. Inv'
    BY <1>4, OtherSessionInv
  <2> QED BY <1>4, <2>1 DEF OtherSession, renderVars, Walk
<1>5. CASE UNCHANGED vars
  BY <1>5 DEF vars, introspectionVars, renderVars, Inv, TypeOK, Walk, OneOfEach, OneTriggerPerName
<1> QED BY <1>1, <1>2, <1>3, <1>4, <1>5 DEF Next, NotRendering

LEMMA InvIsInvariant == Spec => [](Inv /\ Walk)
<1>1. Init => Inv /\ Walk
  BY InitInv DEF Init, Walk
<1>2. Inv /\ Walk /\ [Next]_vars => (Inv /\ Walk)'
  BY NextInv
<1> QED BY <1>1, <1>2, PTL DEF Spec

\* Every variable of a dump keeps its type, whatever is on the server, is
\* selected, and is changed meanwhile.
THEOREM ContentsTypeCorrect == Spec => []TypeOK
<1>1. Inv => TypeOK
  BY DEF Inv
<1> QED BY <1>1, InvIsInvariant, PTL

\* No dump is refused by its own planner: what introspection reads, with other
\* sessions at work between its queries, always has a valid plan.
THEOREM PlanningNeverFails == Spec => []PlansAreValid
<1>1. Inv => PlansAreValid
  BY ModelIsWellTyped, PlansNeverFail DEF PlansAreValid
<1> QED BY <1>1, InvIsInvariant, PTL

\* When an entry is visited, all it needs has been visited: the walk never
\* writes rows before their table, a trigger before the rows, or a view before
\* a stub.
NothingBeforeWhatItNeeds ==
  \A e \in rendered \cup skipped : \A d \in pending : ~DependsHard(e, d, foreignKeys)

THEOREM WalkKeepsToRequirements == Spec => []NothingBeforeWhatItNeeds
<1>1. Walk => NothingBeforeWhatItNeeds
  <2>1. SUFFICES ASSUME Walk, NEW e \in rendered \cup skipped, NEW d \in pending,
                        DependsHard(e, d, foreignKeys)
                 PROVE  FALSE
    BY DEF NothingBeforeWhatItNeeds
  <2>2. WellFormed(e) /\ WellFormed(d) /\ Before(e, d)
    BY <2>1 DEF Walk
  <2>3. Before(d, e)
    BY <2>1, <2>2, DependsHardMeansRequires, HardDependenciesComeFirst
  <2> QED BY <2>2, <2>3, OrderIsStrict DEF WellFormed
<1> QED BY <1>1, InvIsInvariant, PTL
-----------------------------------------------------------------------------
(* What has been read *)

Final == {"assembled", "rendering", "completed"}

\* The kinds whose listing is behind the dump.
ListedKinds ==
  (IF phase \in Final \cup {"showTables", "keys", "routines", "showRoutines", "showTriggers",
                            "showEvents"} THEN {"table", "view"} ELSE {})
  \cup (IF phase \in Final \cup {"showRoutines", "showTriggers", "showEvents"}
        THEN {"function", "procedure"} ELSE {})
  \cup (IF phase \in Final \cup {"showTriggers", "showEvents"} THEN {"trigger"} ELSE {})
  \cup (IF phase \in Final \cup {"showEvents"} /\ server.supportsEvents THEN {"event"} ELSE {})

SameObject(o, d) == o.kind = d.kind /\ o.name = d.name

\* An object read is one the server has or had, and was selected as soon as
\* the code selects its kind.
Known(o) ==
  /\ \E c \in Definitions : SameObject(c, o) /\ c.table = o.table
  /\ o.kind = "event" => server.supportsEvents
  /\ o.kind \in {"table", "view"} \/ phase \in Final => ObjectSelected(o)

\* A definition read is one of its object, and one that is missing is reported.
ShownAsItWas(o) ==
  /\ \A d \in o.createSql : d \in Definitions /\ SameObject(o, d)
  /\ IF Hidden(o) THEN /\ o.createSql = {}
                       /\ \E g \in diagnostics : g.kind = o.kind /\ g.name = o.name
                  ELSE o.createSql # {}

\* An object that has been as it is all the time was listed and read so.
ReadAsItIs(d) ==
  /\ \A o \in todo \cup model : SameObject(o, d) => o.table = d.table /\ o.order = d.order
  /\ \A o \in model : SameObject(o, d) /\ ~Hidden(o) => o.createSql = {d}
  /\ d.kind \in ListedKinds /\ ObjectSelected(d) => \E o \in todo \cup model : SameObject(o, d)
  /\ d.kind = "trigger" /\ "table" \in ListedKinds /\ IsSelected("tables", d.table, normalized) =>
       \E o \in todo \cup model : o.kind = "table" /\ o.name = d.table
  /\ d.kind = "sequence" /\ "table" \in ListedKinds =>
       \E g \in diagnostics : g.kind = "table" /\ g.name = d.name

ReadInv ==
  /\ catalog \subseteq Definitions /\ TriggersHaveTables(catalog)
  /\ phase \in {"server", "tables"} => model = {}
  /\ phase \in {"server", "tables", "keys", "routines"} \cup Final => todo = {}
  /\ \A o \in todo : o.createSql = {}
  /\ \A o \in todo \cup model : Known(o)
  /\ \A o \in model : ShownAsItWas(o)
  /\ \A d \in lasting : ReadAsItIs(d)

\* What the operators of the selection say depends on what was given only.
LEMMA GivenIsGiven ==
  ASSUME UNCHANGED given
  PROVE  /\ normalized' = normalized /\ server' = server /\ selection' = selection
         /\ \A o : ObjectSelected(o)' <=> ObjectSelected(o)
         /\ \A o : Hidden(o)' <=> Hidden(o)
BY DEF given, normalized, ObjectSelected, Hidden

\* A step that neither lists nor reads an object.
LEMMA ReadStays ==
  ASSUME ReadInv, UNCHANGED << given, others, todo, model >>,
         \A g \in diagnostics : g \in diagnostics',
         ListedKinds' \subseteq ListedKinds, phase' \in Final => phase \in Final,
         phase' \in {"server", "tables"} => model = {},
         phase' \in {"server", "tables", "keys", "routines"} \cup Final => todo = {}
  PROVE  ReadInv'
<1>1. /\ normalized' = normalized /\ server' = server /\ todo' = todo /\ model' = model
      /\ catalog' = catalog /\ lasting' = lasting
      /\ \A o : ObjectSelected(o)' <=> ObjectSelected(o)
      /\ \A o : Hidden(o)' <=> Hidden(o)
  BY GivenIsGiven DEF others
<1>2. \A o \in todo \cup model : Known(o)'
  BY <1>1 DEF ReadInv, Known
<1>3. \A o \in model : ShownAsItWas(o)'
  BY <1>1 DEF ReadInv, ShownAsItWas
<1>4. \A d \in lasting : ReadAsItIs(d)'
  <2> SUFFICES ASSUME NEW d \in lasting PROVE ReadAsItIs(d)'
    OBVIOUS
  <2>1. ReadAsItIs(d)
    BY DEF ReadInv
  <2> QED BY <1>1, <2>1 DEF ReadAsItIs
<1> QED BY <1>1, <1>2, <1>3, <1>4 DEF ReadInv

LEMMA ReadInitially ==
  ASSUME Init
  PROVE  ReadInv
<1>1. /\ catalog \in Catalogs /\ phase = "server" /\ todo = {} /\ model = {}
  BY DEF Init, IntrospectionInit
<1>2. catalog \subseteq Definitions /\ TriggersHaveTables(catalog)
  BY <1>1, IntrospectionAssumption DEF Definitions
<1>3. ListedKinds = {}
  BY <1>1 DEF ListedKinds, Final
<1> QED BY <1>1, <1>2, <1>3 DEF ReadInv, ReadAsItIs

\* A listing holds the objects of the catalog, each as it is.
LEMMA ListingIsTrue ==
  ASSUME Inv, NEW kinds
  PROVE  /\ \A o \in Listed(kinds) :
              /\ o.createSql = {} /\ o.kind \in kinds
              /\ \E c \in catalog : SameObject(c, o) /\ c.table = o.table
              /\ \A d \in lasting : SameObject(o, d) => o.table = d.table /\ o.order = d.order
         /\ \A c \in catalog : c.kind \in kinds => \E o \in Listed(kinds) : SameObject(o, c)
<1>1. OneOfEach(catalog) /\ lasting \subseteq catalog
  BY DEF Inv, TypeOK
<1>2. ASSUME NEW o \in Listed(kinds)
      PROVE  /\ o.createSql = {} /\ o.kind \in kinds
             /\ \E c \in catalog : SameObject(c, o) /\ c.table = o.table
             /\ \A d \in lasting : SameObject(o, d) => o.table = d.table /\ o.order = d.order
  <2>1. PICK c \in catalog :
          /\ c.kind \in kinds
          /\ o = [kind |-> c.kind, name |-> c.name, table |-> c.table, order |-> c.order,
                  createSql |-> {}]
    BY <1>2 DEF Listed
  <2>2. /\ o.kind = c.kind /\ o.name = c.name /\ o.table = c.table /\ o.order = c.order
        /\ o.createSql = {}
    BY <2>1
  <2>3. \A d \in lasting : SameObject(o, d) => d = c
    BY <1>1, <2>2 DEF SameObject, OneOfEach
  <2> QED BY <2>1, <2>2, <2>3 DEF SameObject
<1>3. ASSUME NEW c \in catalog, c.kind \in kinds
      PROVE  \E o \in Listed(kinds) : SameObject(o, c)
  <2> DEFINE o == [kind |-> c.kind, name |-> c.name, table |-> c.table, order |-> c.order,
                   createSql |-> {}]
  <2>1. o \in Listed(kinds)
    BY <1>3 DEF Listed
  <2>2. SameObject(o, c)
    BY DEF SameObject
  <2> QED BY <2>1, <2>2
<1> QED BY <1>2, <1>3

\* Tables and views are listed when nothing has been read.
LEMMA QueryTablesRead ==
  ASSUME Inv, ReadInv, QueryTables
  PROVE  ReadInv'
<1> DEFINE kinds == {"table", "view"}
<1>1. /\ normalized' = normalized /\ server' = server /\ model' = model /\ model = {}
      /\ catalog' = catalog /\ lasting' = lasting /\ phase' = "showTables"
      /\ \A o : ObjectSelected(o)' <=> ObjectSelected(o)
      /\ todo' = {o \in Listed(kinds) : ObjectSelected(o)}
      /\ diagnostics' = {Diagnostic("unsupported-table-type", o) : o \in Listed({"sequence"})}
  BY GivenIsGiven DEF QueryTables, others, ReadInv
<1>2. ListedKinds' = kinds
  BY <1>1 DEF ListedKinds, Final
<1>3. \A o \in todo' : o.createSql = {} /\ Known(o)'
  <2> SUFFICES ASSUME NEW o \in todo' PROVE o.createSql = {} /\ Known(o)'
    OBVIOUS
  <2>1. /\ o.createSql = {} /\ o.kind \in kinds /\ ObjectSelected(o)
        /\ \E c \in catalog : SameObject(c, o) /\ c.table = o.table
    BY <1>1, ListingIsTrue
  <2> QED BY <1>1, <2>1 DEF Known, ReadInv
<1>4. \A d \in lasting : ReadAsItIs(d)'
  <2> SUFFICES ASSUME NEW d \in lasting PROVE ReadAsItIs(d)'
    OBVIOUS
  <2>0. d \in catalog
    BY DEF Inv, TypeOK
  <2>1. \A o \in todo' : SameObject(o, d) => o.table = d.table /\ o.order = d.order
    BY <1>1, ListingIsTrue
  <2>2. \A c \in catalog :
          c.kind \in kinds /\ ObjectSelected(c) => \E o \in todo' : SameObject(o, c)
    <3> SUFFICES ASSUME NEW c \in catalog, c.kind \in kinds, ObjectSelected(c)
                 PROVE  \E o \in todo' : SameObject(o, c)
      OBVIOUS
    <3>1. PICK o \in Listed(kinds) : SameObject(o, c)
      BY ListingIsTrue
    <3>2. ObjectSelected(o)
      BY <3>1 DEF SameObject, ObjectSelected
    <3> QED BY <1>1, <3>1, <3>2
  <2>3. d.kind = "trigger" /\ IsSelected("tables", d.table, normalized) =>
          \E o \in todo' : o.kind = "table" /\ o.name = d.table
    <3> SUFFICES ASSUME d.kind = "trigger", IsSelected("tables", d.table, normalized)
                 PROVE  \E o \in todo' : o.kind = "table" /\ o.name = d.table
      OBVIOUS
    <3>1. PICK t \in catalog : t.kind = "table" /\ t.name = d.table
      BY <2>0 DEF ReadInv, TriggersHaveTables
    <3>2. ObjectSelected(t)
      BY <3>1 DEF ObjectSelected, ClassOf
    <3> QED BY <2>2, <3>1, <3>2 DEF SameObject
  <2>4. d.kind = "sequence" => \E g \in diagnostics' : g.kind = "table" /\ g.name = d.name
    <3> SUFFICES ASSUME d.kind = "sequence"
                 PROVE  \E g \in diagnostics' : g.kind = "table" /\ g.name = d.name
      OBVIOUS
    <3>1. PICK o \in Listed({"sequence"}) : SameObject(o, d)
      BY <2>0, ListingIsTrue
    <3>2. Diagnostic("unsupported-table-type", o) \in diagnostics'
      BY <1>1
    <3>3. /\ Diagnostic("unsupported-table-type", o).kind = "table"
          /\ Diagnostic("unsupported-table-type", o).name = d.name
      BY <3>1 DEF Diagnostic, SameObject
    <3> QED BY <3>2, <3>3
  <2> QED BY <1>1, <1>2, <2>0, <2>1, <2>2, <2>3, <2>4 DEF ReadAsItIs
<1> QED BY <1>1, <1>3, <1>4 DEF ReadInv, Final

\* Stored programs are listed when nothing is left to be shown.
LEMMA ListingRead ==
  ASSUME Inv, ReadInv, UNCHANGED << given, others, model, diagnostics >>, todo = {},
         NEW kinds \in SUBSET {"function", "procedure", "trigger", "event"},
         todo' = Listed(kinds), ListedKinds' = ListedKinds \cup kinds,
         "event" \in kinds => server.supportsEvents,
         phase' \in {"showRoutines", "showTriggers", "showEvents"}
  PROVE  ReadInv'
<1>1. /\ normalized' = normalized /\ server' = server /\ model' = model
      /\ catalog' = catalog /\ lasting' = lasting /\ diagnostics' = diagnostics
      /\ \A o : ObjectSelected(o)' <=> ObjectSelected(o)
      /\ \A o : Hidden(o)' <=> Hidden(o)
  BY GivenIsGiven DEF others
<1>2. \A o \in todo' \cup model' : Known(o)'
  <2>1. \A o \in todo' : /\ \E c \in Definitions : SameObject(c, o) /\ c.table = o.table
                         /\ o.kind \in kinds
    BY ListingIsTrue DEF ReadInv
  <2> QED BY <1>1, <2>1 DEF Known, ReadInv, Final
<1>3. \A o \in model' : ShownAsItWas(o)'
  BY <1>1 DEF ReadInv, ShownAsItWas
<1>4. \A d \in lasting' : ReadAsItIs(d)'
  <2> SUFFICES ASSUME NEW d \in lasting PROVE ReadAsItIs(d)'
    BY <1>1
  <2>1. ReadAsItIs(d) /\ d \in catalog
    BY DEF ReadInv, Inv, TypeOK
  <2>2. \A o \in todo' : SameObject(o, d) => o.table = d.table /\ o.order = d.order
    BY ListingIsTrue
  <2>3. d.kind \in kinds => \E o \in todo' : SameObject(o, d)
    BY <2>1, ListingIsTrue
  <2> QED BY <1>1, <2>1, <2>2, <2>3 DEF ReadAsItIs
<1>5. \A o \in todo' : o.createSql = {}
  BY ListingIsTrue
<1> QED BY <1>1, <1>2, <1>3, <1>4, <1>5 DEF ReadInv, Final

LEMMA ProgramsRead ==
  ASSUME Inv, ReadInv, QueryRoutines \/ QueryTriggers \/ QueryEvents
  PROVE  ReadInv'
<1>1. CASE QueryRoutines
  <2>1. ListedKinds' = ListedKinds \cup {"function", "procedure"} /\ todo = {}
    BY <1>1 DEF QueryRoutines, ListedKinds, Final, ReadInv
  <2> QED BY <1>1, <2>1, ListingRead DEF QueryRoutines
<1>2. CASE QueryTriggers
  <2>1. ListedKinds' = ListedKinds \cup {"trigger"}
    BY <1>2 DEF QueryTriggers, ListedKinds, Final
  <2> QED BY <1>2, <2>1, ListingRead DEF QueryTriggers
<1>3. CASE QueryEvents
  <2>1. ListedKinds' = ListedKinds \cup {"event"}
    BY <1>3 DEF QueryEvents, ListedKinds, Final, given
  <2> QED BY <1>3, <2>1, ListingRead DEF QueryEvents
<1> QED BY <1>1, <1>2, <1>3

\* A definition is that of the object that has been there all the time.
LEMMA ShowCreateRead ==
  ASSUME Inv, ReadInv, ShowCreate
  PROVE  ReadInv'
<1>1. /\ normalized' = normalized /\ server' = server
      /\ catalog' = catalog /\ lasting' = lasting
      /\ \A o : ObjectSelected(o)' <=> ObjectSelected(o)
      /\ \A o : Hidden(o)' <=> Hidden(o)
      /\ phase \in {"showTables", "showRoutines", "showTriggers", "showEvents"}
  BY GivenIsGiven DEF ShowCreate, others
<1>2. PICK o \in todo :
        /\ todo' = todo \ {o}
        /\ \/ phase' = "rejected" /\ UNCHANGED << model, diagnostics >>
           \/ /\ Shown(o) # {} /\ ~Hidden(o)
              /\ model' = model \cup {[o EXCEPT !.createSql = Shown(o)]}
              /\ UNCHANGED << phase, diagnostics >>
           \/ /\ Hidden(o) /\ model' = model \cup {o}
              /\ diagnostics' = diagnostics \cup {Diagnostic("definition-unavailable", o)}
              /\ UNCHANGED phase
  BY DEF ShowCreate
<1>t. o \in Listable /\ OneOfEach(catalog) /\ lasting \subseteq catalog
  BY InvTypes DEF Inv, TypeOK
<1>k. Known(o) /\ o.createSql = {} /\ \A d \in lasting : ReadAsItIs(d)
  BY DEF ReadInv
<1>3. CASE phase' = "rejected" /\ UNCHANGED << model, diagnostics >>
  <2>1. ListedKinds' = {}
    BY <1>3 DEF ListedKinds, Final
  <2>2. \A x \in todo' \cup model' : Known(x)'
    BY <1>1, <1>2, <1>3 DEF ReadInv, Known, Final
  <2>3. \A x \in model' : ShownAsItWas(x)'
    BY <1>1, <1>3 DEF ReadInv, ShownAsItWas
  <2>4. \A d \in lasting' : ReadAsItIs(d)'
    BY <1>1, <1>2, <1>3, <1>k, <2>1 DEF ReadAsItIs
  <2> QED BY <1>1, <1>2, <1>3, <2>2, <2>3, <2>4 DEF ReadInv, Final
<1>4. ASSUME NEW new, model' = model \cup {new}, UNCHANGED phase,
             \A g \in diagnostics : g \in diagnostics',
             new.kind = o.kind, new.name = o.name, new.table = o.table, new.order = o.order,
             ShownAsItWas(new)',
             \A d \in lasting : SameObject(new, d) /\ ~Hidden(o) => new.createSql = {d}
      PROVE  ReadInv'
  <2>1. ListedKinds' = ListedKinds
    BY <1>1, <1>4 DEF ListedKinds
  <2>2. \A x \in todo' \cup model' : Known(x)'
    <3>1. Known(new)'
      BY <1>1, <1>4, <1>k DEF Known, SameObject, ObjectSelected
    <3> QED BY <1>1, <1>2, <1>4, <3>1 DEF ReadInv, Known
  <2>3. \A x \in model' : ShownAsItWas(x)'
    BY <1>1, <1>4 DEF ReadInv, ShownAsItWas
  <2>4. \A d \in lasting' : ReadAsItIs(d)'
    <3> SUFFICES ASSUME NEW d \in lasting PROVE ReadAsItIs(d)'
      BY <1>1
    <3>1. ReadAsItIs(d) /\ (Hidden(new) <=> Hidden(o)) /\ (SameObject(new, d) <=> SameObject(o, d))
      BY <1>k, <1>4 DEF Hidden, SameObject
    <3>2. \A x \in todo' \cup model' : x = new \/ x \in todo \cup model
      BY <1>2, <1>4
    <3>3. \A x \in todo \cup model : x \in todo' \cup model' \/ x = o
      BY <1>2, <1>4
    <3>4. \A x \in todo' \cup model' : SameObject(x, d) => x.table = d.table /\ x.order = d.order
      BY <1>4, <3>1, <3>2 DEF ReadAsItIs
    <3>5. \A x \in model' : SameObject(x, d) /\ ~Hidden(x)' => x.createSql = {d}
      BY <1>1, <1>4, <3>1 DEF ReadAsItIs
    <3>6. (\E x \in todo \cup model : SameObject(x, d)) =>
            \E x \in todo' \cup model' : SameObject(x, d)
      BY <1>4, <3>1, <3>3
    <3>7. (\E x \in todo \cup model : x.kind = "table" /\ x.name = d.table)
            => \E x \in todo' \cup model' : x.kind = "table" /\ x.name = d.table
      BY <1>4, <3>3
    <3> QED BY <1>1, <1>4, <2>1, <3>1, <3>4, <3>5, <3>6, <3>7 DEF ReadAsItIs
  <2>5. /\ phase' \notin {"server", "tables", "keys", "routines"} \cup Final
        /\ \A x \in todo' : x.createSql = {}
    BY <1>1, <1>2, <1>4 DEF ReadInv, Final
  <2> QED BY <1>1, <2>2, <2>3, <2>4, <2>5 DEF ReadInv
<1>5. CASE /\ Shown(o) # {} /\ ~Hidden(o)
           /\ model' = model \cup {[o EXCEPT !.createSql = Shown(o)]}
           /\ UNCHANGED << phase, diagnostics >>
  <2>1. PICK new : new = [o EXCEPT !.createSql = Shown(o)]
    OBVIOUS
  <2>2. /\ new.kind = o.kind /\ new.name = o.name /\ new.table = o.table /\ new.order = o.order
        /\ new.createSql = Shown(o)
    BY <1>t, <2>1 DEF Listable
  <2>3. ShownAsItWas(new)'
    <3>1. \A d \in Shown(o) : d \in Definitions /\ SameObject(new, d)
      BY <2>2 DEF Shown, SameObject, ReadInv
    <3>2. ~Hidden(new)'
      <4>1. ~Hidden(new)
        BY <1>5, <2>2 DEF Hidden
      <4> QED BY <1>1, <4>1
    <3> QED BY <1>5, <2>2, <3>1, <3>2 DEF ShownAsItWas
  <2>4. \A d \in lasting : SameObject(new, d) /\ ~Hidden(o) => new.createSql = {d}
    <3> SUFFICES ASSUME NEW d \in lasting, SameObject(new, d)
                 PROVE  Shown(o) = {d}
      BY <2>2
    <3>1. d \in catalog /\ d.kind = o.kind /\ d.name = o.name
      BY <1>t, <2>2 DEF SameObject
    <3>2. \A c \in Shown(o) : c = d
      BY <1>t, <3>1 DEF Shown, OneOfEach
    <3> QED BY <3>1, <3>2 DEF Shown
  <2>5. model' = model \cup {new}
    BY <1>5, <2>1
  <2> QED BY <1>4, <1>5, <2>2, <2>3, <2>4, <2>5
<1>6. CASE /\ Hidden(o) /\ model' = model \cup {o}
           /\ diagnostics' = diagnostics \cup {Diagnostic("definition-unavailable", o)}
           /\ UNCHANGED phase
  <2>1. o.kind # "sequence"
    BY <1>t DEF Listable, Kind
  <2>2. ShownAsItWas(o)'
    <3>1. Diagnostic("definition-unavailable", o) \in diagnostics'
      BY <1>6
    <3>2. /\ Diagnostic("definition-unavailable", o).kind = o.kind
          /\ Diagnostic("definition-unavailable", o).name = o.name
      BY <2>1 DEF Diagnostic
    <3>3. \E g \in diagnostics' : g.kind = o.kind /\ g.name = o.name
      BY <3>1, <3>2
    <3>4. Hidden(o)'
      BY <1>1, <1>6
    <3> QED BY <1>k, <3>3, <3>4 DEF ShownAsItWas
  <2>3. \A g \in diagnostics : g \in diagnostics'
    BY <1>6
  <2> QED BY <1>4, <1>6, <2>2, <2>3
<1> QED BY <1>2, <1>3, <1>5, <1>6

\* The model loses objects the server no longer has, or that are not selected.
LEMMA FewerRead ==
  ASSUME ReadInv, UNCHANGED << given, others, todo, diagnostics >>, todo = {},
         model' \subseteq model, ListedKinds' \subseteq ListedKinds,
         phase' \in Final => \A o \in model' : o.kind \in {"table", "view"} \/ ObjectSelected(o),
         phase' \notin {"server", "tables"},
         \A d \in lasting : \A o \in model : SameObject(o, d) /\ ObjectSelected(o) => o \in model',
         \A o \in model : o.kind = "table" => o \in model'
  PROVE  ReadInv'
<1>1. /\ normalized' = normalized /\ server' = server /\ diagnostics' = diagnostics
      /\ catalog' = catalog /\ lasting' = lasting /\ todo' = {}
      /\ \A o : ObjectSelected(o)' <=> ObjectSelected(o)
      /\ \A o : Hidden(o)' <=> Hidden(o)
  BY GivenIsGiven DEF others
<1>2. \A o \in todo' \cup model' : Known(o)'
  BY <1>1 DEF ReadInv, Known
<1>3. \A o \in model' : ShownAsItWas(o)'
  BY <1>1 DEF ReadInv, ShownAsItWas
<1>4. \A d \in lasting' : ReadAsItIs(d)'
  <2> SUFFICES ASSUME NEW d \in lasting PROVE ReadAsItIs(d)'
    BY <1>1
  <2>1. ReadAsItIs(d)
    BY DEF ReadInv
  <2>2. d.kind \in ListedKinds' /\ ObjectSelected(d) => \E o \in model' : SameObject(o, d)
    <3> SUFFICES ASSUME d.kind \in ListedKinds', ObjectSelected(d)
                 PROVE  \E o \in model' : SameObject(o, d)
      OBVIOUS
    <3>1. PICK o \in model : SameObject(o, d)
      BY <2>1 DEF ReadAsItIs
    <3>2. ObjectSelected(o)
      BY <3>1 DEF SameObject, ObjectSelected
    <3> QED BY <3>1, <3>2
  <2> QED BY <1>1, <2>1, <2>2 DEF ReadAsItIs
<1> QED BY <1>1, <1>2, <1>3, <1>4 DEF ReadInv

\* The second listing of views keeps those that have been there all the time.
LEMMA QueryViewsRead ==
  ASSUME Inv, ReadInv, QueryViews
  PROVE  ReadInv'
<1>1. ListedKinds' \subseteq ListedKinds /\ phase' \notin Final \cup {"server", "tables"}
  BY DEF QueryViews, ListedKinds, Final
<1>2. \A d \in lasting : \A o \in model : SameObject(o, d) => o \in model'
  <2> SUFFICES ASSUME NEW d \in lasting, NEW o \in model, SameObject(o, d), o.kind = "view"
               PROVE  \E v \in Listed({"view"}) : v.name = o.name
    BY DEF QueryViews
  <2>1. d \in catalog /\ d.kind = "view" /\ d.name = o.name
    BY DEF Inv, TypeOK, SameObject
  <2> QED BY <2>1, ListingIsTrue DEF SameObject
<1> QED BY <1>1, <1>2, FewerRead DEF QueryViews

LEMMA AssembleRead ==
  ASSUME ReadInv, Assemble
  PROVE  ReadInv'
<1>1. ListedKinds' \subseteq ListedKinds /\ phase' = "assembled"
  BY DEF Assemble, ListedKinds, Final, given
<1> QED BY <1>1, FewerRead DEF Assemble

\* A step behind which nothing has been listed or the listing is the same.
LEMMA OtherStepsRead ==
  ASSUME ReadInv,
         \/ ReadServer \/ QueryForeignKeys \/ IntrospectionFails \/ Plan \/ Render
         \/ UNCHANGED vars
  PROVE  ReadInv'
<1>1. CASE ReadServer
  <2>1. ListedKinds' \subseteq ListedKinds
    BY <1>1 DEF ReadServer, ListedKinds, Final
  <2> QED BY <1>1, <2>1, ReadStays DEF ReadServer, ReadInv, Final
<1>2. CASE QueryForeignKeys
  <2>1. ListedKinds' \subseteq ListedKinds
    BY <1>2 DEF QueryForeignKeys, ListedKinds, Final
  <2> QED BY <1>2, <2>1, ReadStays DEF QueryForeignKeys, ReadInv, Final
<1>3. CASE IntrospectionFails
  <2>1. ListedKinds' \subseteq ListedKinds
    BY <1>3 DEF IntrospectionFails, ListedKinds, Final
  <2> QED BY <1>3, <2>1, ReadStays DEF IntrospectionFails, Final
<1>4. CASE Plan \/ Render
  <2>1. /\ UNCHANGED << given, others, todo, model >>
        /\ phase \in Final /\ phase' \in Final \cup {"rejected", "refused", "cancelled"}
        /\ \A g \in diagnostics : g \in diagnostics'
    BY <1>4 DEF Plan, Render, RenderEntry, TableIsGone, RefuseEntry, OmitEntry, Visit,
                Complete, RenderingFails, Final
  <2>2. ListedKinds' \subseteq ListedKinds
    BY <2>1 DEF ListedKinds, Final, given
  <2> QED BY <2>1, <2>2, ReadStays DEF ReadInv, Final
<1>5. CASE UNCHANGED vars
  <2>1. UNCHANGED << given, others, todo, model, phase, diagnostics >>
    BY <1>5 DEF vars, introspectionVars, given, others
  <2>2. ListedKinds' \subseteq ListedKinds
    BY <2>1 DEF ListedKinds, given
  <2> QED BY <2>1, <2>2, ReadStays DEF ReadInv
<1> QED BY <1>1, <1>2, <1>3, <1>4, <1>5

\* Another session takes away from what lasts only, and a table takes its
\* triggers along.
LEMMA OtherSessionRead ==
  ASSUME ReadInv, OtherSession
  PROVE  ReadInv'
<1>1. \E after : after \subseteq Definitions /\ TriggersHaveTables(after) /\ Ddl(after)
  <2>1. CASE DropObject
    <3>1. PICK x \in catalog :
            Ddl({c \in catalog : /\ c # x
                                 /\ ~(x.kind = "table" /\ c.kind = "trigger" /\ c.table = x.name)})
      BY <2>1 DEF DropObject
    <3>2. TriggersHaveTables({c \in catalog :
                                /\ c # x
                                /\ ~(x.kind = "table" /\ c.kind = "trigger" /\ c.table = x.name)})
      BY DEF ReadInv, TriggersHaveTables
    <3> QED BY <3>1, <3>2 DEF ReadInv
  <2>2. CASE DefineObject
    <3>1. PICK x \in Creations :
            /\ x.kind = "trigger" => \E t \in catalog : t.kind = "table" /\ t.name = x.table
            /\ Ddl({c \in catalog : c.kind # x.kind \/ c.name # x.name} \cup {x})
      BY <2>2 DEF DefineObject
    <3> DEFINE after == {c \in catalog : c.kind # x.kind \/ c.name # x.name} \cup {x}
    <3>2. \A t \in catalog : \E u \in after : u.kind = t.kind /\ u.name = t.name
      OBVIOUS
    <3>3. \A c \in after :
            c.kind = "trigger" => \E t \in catalog : t.kind = "table" /\ t.name = c.table
      BY <3>1 DEF ReadInv, TriggersHaveTables
    <3>4. TriggersHaveTables(after)
      <4> HIDE DEF after
      <4> QED BY <3>2, <3>3 DEF TriggersHaveTables
    <3>5. after \subseteq Definitions
      <4>1. x \in Definitions
        BY <3>1 DEF Definitions
      <4> QED BY <4>1 DEF ReadInv
    <3> QED BY <3>1, <3>4, <3>5
  <2> QED BY <2>1, <2>2 DEF OtherSession
<1>2. PICK after : after \subseteq Definitions /\ TriggersHaveTables(after) /\ Ddl(after)
  BY <1>1
<1>3. /\ normalized' = normalized /\ server' = server /\ todo' = todo /\ model' = model
      /\ diagnostics' = diagnostics /\ phase' = phase
      /\ catalog' = after /\ lasting' \subseteq lasting
      /\ \A o : ObjectSelected(o)' <=> ObjectSelected(o)
      /\ \A o : Hidden(o)' <=> Hidden(o)
  BY <1>2, GivenIsGiven DEF Ddl
<1>4. ListedKinds' = ListedKinds
  BY <1>3 DEF ListedKinds
<1>5. \A o \in todo \cup model : Known(o)'
  BY <1>3 DEF ReadInv, Known
<1>6. \A o \in model : ShownAsItWas(o)'
  BY <1>3 DEF ReadInv, ShownAsItWas
<1>7. \A d \in lasting : ReadAsItIs(d)'
  <2> SUFFICES ASSUME NEW d \in lasting PROVE ReadAsItIs(d)'
    OBVIOUS
  <2>1. ReadAsItIs(d)
    BY DEF ReadInv
  <2> QED BY <1>3, <1>4, <2>1 DEF ReadAsItIs
<1>8. TriggersHaveTables(catalog)'
  BY <1>2, <1>3 DEF TriggersHaveTables
<1> QED BY <1>2, <1>3, <1>5, <1>6, <1>7, <1>8 DEF ReadInv

LEMMA ReadNext ==
  ASSUME Inv, ReadInv, [Next]_vars
  PROVE  ReadInv'
BY QueryTablesRead, ProgramsRead, ShowCreateRead, QueryViewsRead, AssembleRead,
   OtherStepsRead, OtherSessionRead DEF Next, Introspect

-----------------------------------------------------------------------------
(* What was selected *)

\* Two names fold to one when the server takes them for the same.
LEMMA FoldingIsComparing ==
  ASSUME NEW class, NEW m, NEW n
  PROVE  Fold(class, server.caseInsensitiveTableNames, m)
           = Fold(class, server.caseInsensitiveTableNames, n) <=> SameName(class, m, n)
BY DEF Fold, SameName

LEMMA ClassesOfKinds ==
  ASSUME NEW kind \in Kind
  PROVE  ClassOf[kind] \in NameClass
BY DEF Kind, ClassOf, NameClass

\* The folded lists select a name when a name of each list that is given is
\* the same for the server, and none of the excluded ones is.
LEMMA SelectedByName ==
  ASSUME NEW class \in NameClass, NEW n
  PROVE  IsSelected(class, n, normalized) <=>
           /\ \A x \in selection.exclude[class] : ~SameName(class, x, n)
           /\ \A list \in selection.include[class] : \E x \in list : SameName(class, x, n)
<1> DEFINE ci == server.caseInsensitiveTableNames
           key == Fold(class, ci, n)
<1>1. /\ normalized.include[class] = {toSet(class, ci, l) : l \in selection.include[class]}
      /\ normalized.exclude[class] = toSet(class, ci, selection.exclude[class])
      /\ normalized.caseInsensitiveTableNames = ci
  BY DEF normalized, normalizeDumpSelection
<1>2. \A S : key \in toSet(class, ci, S) <=> \E x \in S : SameName(class, x, n)
  BY FoldingIsComparing DEF toSet
<1>3. IsSelected(class, n, normalized) <=>
        /\ key \notin toSet(class, ci, selection.exclude[class])
        /\ \A l \in selection.include[class] : key \in toSet(class, ci, l)
  <2> HIDE DEF key, ci
  <2>1. IsSelected(class, n, normalized)
          <=> isSelected(key, normalized.include[class], normalized.exclude[class])
    BY <1>1 DEF IsSelected, key
  <2> QED BY <1>1, <2>1 DEF isSelected
<1> HIDE DEF key, ci
<1> QED BY <1>2, <1>3

LEMMA ExcludedRowsByName ==
  ASSUME NEW n
  PROVE  isTableDataExcluded(n, normalized) <=>
           \E x \in selection.dataExcludedTables : SameName("tables", x, n)
<1> DEFINE ci == server.caseInsensitiveTableNames
<1>1. /\ normalized.dataExcludedTables = toSet("tables", ci, selection.dataExcludedTables)
      /\ normalized.caseInsensitiveTableNames = ci
  BY DEF normalized, normalizeDumpSelection
<1> QED BY <1>1, FoldingIsComparing DEF isTableDataExcluded, toSet

\* An object is in the dump when the caller chose it.
THEOREM SelectionIsByName ==
  ASSUME NEW d, d.kind \in Kind
  PROVE  ObjectSelected(d) <=> Chosen(d)
BY ClassesOfKinds, SelectedByName DEF ObjectSelected, Chosen

-----------------------------------------------------------------------------
(* What has been written *)

BlocksOf(s) == {s[i] : i \in DOMAIN s}
Once(s, type) == \A i, j \in DOMAIN s : s[i].type = type /\ s[j].type = type => i = j
Rank(b) == LayoutRank(b.type)
Banner == {"eventsBanner", "routinesBanner"}
IncludedBanners ==
  (IF opts.includeEvents THEN {"eventsBanner"} ELSE {})
  \cup (IF opts.includeRoutines THEN {"routinesBanner"} ELSE {})

Planned == Entries(database, normalized, opts)
Visited == rendered \cup skipped

\* A block is the text of an entry: an object's definition, a table's rows, or
\* a name alone.
Text(b, e) ==
  /\ b.type = e.type /\ b.name = e.name
  /\ b.type \in {"database", "viewStub"} => b.def = {}
  /\ b.type = "tableData" => b.def # {} /\ \A d \in b.def : d.kind = "table" /\ d.name = e.name
  /\ b.type \in Kind => b.def = CreateSql(e)

\* The rows of a table that has been as it is all the time.
RowsInv ==
  \A b \in BlocksOf(script) : \A d \in lasting :
    b.type = "tableData" /\ d.kind = "table" /\ d.name = b.name => b.def = {d}

\* Each entry visited is written, or left out for a reason.
VisitInv ==
  /\ pending \cup Visited = Planned
  /\ \A t \in TriggersWithoutTable(database, normalized, opts) :
       \E g \in diagnostics : g.kind = "trigger" /\ g.name = t.name
  /\ \A e \in rendered : ~Missing(e) /\ ~Unsupported(e) /\ ~SkippedSilently(e)
  /\ \A e \in skipped :
       \/ (Missing(e) \/ Unsupported(e)) /\ opts.unsupportedFeaturePolicy = "warn-omit"
       \/ ~Missing(e) /\ SkippedSilently(e)

\* The script holds the entries rendered, in the plan's order.
ScriptInv ==
  /\ \A e \in rendered : \E b \in BlocksOf(script) : Text(b, e)
  /\ \A b \in BlocksOf(script) : IF b.type \in ArchiveObjectType
                                  THEN \E e \in rendered : Text(b, e) ELSE b.def = {}
  /\ \A i, j \in DOMAIN script : \A d, e \in rendered :
       i < j /\ Text(script[i], d) /\ Text(script[j], e) => Before(d, e)

\* A banner still to be written has its section ahead, one that is written
\* has it around or behind.
BannersInv ==
  /\ "eventsBanner" \in banners => \A b \in BlocksOf(script) : Rank(b) < 2
  /\ "routinesBanner" \in banners => \A b \in BlocksOf(script) : Rank(b) < 6
  /\ \A b \in BlocksOf(script) : \A e \in pending :
       /\ Rank(b) >= 2 => dumpSectionPriority(e.type) >= 2
       /\ Rank(b) >= 6 => dumpSectionPriority(e.type) >= 3
  /\ \A type \in Banner :
       /\ Once(script, type)
       /\ type \in IncludedBanners <=>
            type \in banners \/ \E b \in BlocksOf(script) : b.type = type

\* The time zone is saved with the first event and reset with the last.
TimeZoneInv ==
  /\ Once(script, "saveTimeZone") /\ Once(script, "resetTimeZone")
  /\ \A b \in BlocksOf(script) :
       /\ b.type = "saveTimeZone" => \E e \in rendered : isFirstEvent(e)
       /\ b.type = "resetTimeZone" => \E e \in rendered : isLastEvent(e)
  /\ (\E e \in rendered : e.type = "event") =>
       /\ \E b \in BlocksOf(script) : b.type = "saveTimeZone"
       /\ \/ \E b \in BlocksOf(script) : b.type = "resetTimeZone"
          \/ \E e \in pending : e.type = "event" /\ e.name \in RenderableEventNames

LayoutInv ==
  \A i, j \in DOMAIN script : i < j => Rank(script[i]) <= Rank(script[j])

WrittenInv ==
  /\ phase \in Introspecting \cup {"assembled"} => script = << >>
  /\ phase = "completed" => pending = {} /\ banners = {}
  /\ phase \in {"rendering", "completed"} =>
       VisitInv /\ ScriptInv /\ RowsInv /\ BannersInv /\ TimeZoneInv /\ LayoutInv

-----------------------------------------------------------------------------
(* The entries of a plan *)

\* A plan has one entry of a type and a name.
LEMMA EntryByName ==
  ASSUME Inv, NEW d \in Planned, NEW e \in Planned, d.type = e.type, d.name = e.name
  PROVE  d = e
<1>1. WellFormed(d) /\ WellFormed(e)
  BY EntriesAreWellFormed, ModelIsWellTyped DEF Planned
<1>2. CASE e.type = "trigger"
  <2>1. PICK t \in model : t.kind = "trigger" /\ d = TriggerEntry(t)
    BY <1>2, EntryOfATrigger DEF Planned, database
  <2>2. PICK u \in model : u.kind = "trigger" /\ e = TriggerEntry(u)
    BY <1>2, EntryOfATrigger DEF Planned, database
  <2>3. t.name = u.name
    BY <2>1, <2>2 DEF TriggerEntry
  <2>4. t.table = u.table /\ t.order = u.order
    BY <2>1, <2>2, <2>3, ModelIsWellTyped DEF OneTriggerPerName, database
  <2> QED BY <2>1, <2>2, <2>3, <2>4 DEF TriggerEntry
<1>3. CASE e.type # "trigger"
  <2>1. d.parent = e.parent /\ d.order = e.order
    BY <1>1, <1>3 DEF WellFormed
  <2> QED BY <1>1, <2>1 DEF WellFormed, ArchiveEntry
<1> QED BY <1>2, <1>3

\* The plan's order keeps to the sections and to the layout.
LEMMA OrderKeepsToLayout ==
  ASSUME NEW d \in ArchiveEntry, NEW e \in ArchiveEntry, Before(d, e)
  PROVE  /\ dumpSectionPriority(d.type) <= dumpSectionPriority(e.type)
         /\ LayoutRank(d.type) <= LayoutRank(e.type)
<1> DEFINE k == SortKey(d)
           l == SortKey(e)
<1>1. /\ k[1] = dumpSectionPriority(d.type) /\ l[1] = dumpSectionPriority(e.type)
      /\ k[2] = routineKindPriority(d.type) /\ l[2] = routineKindPriority(e.type)
      /\ k \in [1..6 -> Nat] /\ l \in [1..6 -> Nat]
  BY SortKeyType DEF SortKey
<1>2. compareEntries(k, l)
  BY DEF Before
<1>3. k[1] < l[1] \/ (k[1] = l[1] /\ k[2] <= l[2])
  <2> HIDE DEF k, l
  <2>1. PICK i \in 1..6 : k[i] < l[i] /\ \A j \in 1..(i - 1) : k[j] = l[j]
    BY <1>2 DEF compareEntries
  <2>2. CASE i = 1
    BY <2>1, <2>2
  <2>3. CASE i = 2
    BY <1>1, <2>1, <2>3
  <2>4. CASE i > 2
    <3>1. k[1] = l[1] /\ k[2] = l[2]
      BY <2>1, <2>4
    <3> QED BY <1>1, <3>1
  <2> QED BY <2>2, <2>3, <2>4
<1> HIDE DEF k, l
<1>4. d.type \in ArchiveObjectType /\ e.type \in ArchiveObjectType
  BY DEF ArchiveEntry
<1>5. dumpSectionPriority(d.type) < dumpSectionPriority(e.type)
        => LayoutRank(d.type) <= LayoutRank(e.type)
  BY <1>4 DEF dumpSectionPriority, LayoutRank, ArchiveObjectType, Kind
<1>6. dumpSectionPriority(d.type) = dumpSectionPriority(e.type)
      /\ routineKindPriority(d.type) <= routineKindPriority(e.type)
        => LayoutRank(d.type) <= LayoutRank(e.type)
  BY <1>4 DEF dumpSectionPriority, routineKindPriority, LayoutRank, ArchiveObjectType, Kind
<1> QED BY <1>1, <1>3, <1>5, <1>6

\* Events are in the order of their names.
LEMMA EventsAreByName ==
  ASSUME NEW d, NEW e, WellFormed(d), WellFormed(e), d.type = "event", e.type = "event"
  PROVE  Before(d, e) <=> d.name < e.name
<1> DEFINE k == SortKey(d)
           l == SortKey(e)
<1>1. d.name \in Nat /\ e.name \in Nat
  BY DEF WellFormed, ArchiveEntry
<1>2. /\ k[1] = 2 /\ k[2] = 0 /\ k[3] = d.name /\ k[4] = 0 /\ k[5] = 0 /\ k[6] = d.name
      /\ l[1] = 2 /\ l[2] = 0 /\ l[3] = e.name /\ l[4] = 0 /\ l[5] = 0 /\ l[6] = e.name
  BY DEF SortKey, dumpSectionPriority, routineKindPriority, groupKey, mainGroupPriority,
         secondaryKey
<1> HIDE DEF k, l
<1>3. compareEntries(k, l) => d.name < e.name
  <2> SUFFICES ASSUME NEW i \in 1..6, k[i] < l[i], \A j \in 1..(i - 1) : k[j] = l[j]
               PROVE  d.name < e.name
    BY DEF compareEntries
  <2>1. i \in {3, 6}
    <3>1. i \in {1, 2, 3, 4, 5, 6}
      OBVIOUS
    <3> QED BY <1>2, <3>1
  <2> QED BY <1>2, <2>1
<1>4. d.name < e.name => compareEntries(k, l)
  <2>1. \A j \in 1..(3 - 1) : k[j] = l[j]
    <3>1. \A j \in 1..(3 - 1) : j = 1 \/ j = 2
      OBVIOUS
    <3> QED BY <1>2, <3>1
  <2> QED BY <1>2, <2>1 DEF compareEntries
<1> QED BY <1>3, <1>4 DEF Before, k, l

-----------------------------------------------------------------------------
(* Blocks written behind others *)

LEMMA Concatenation ==
  ASSUME NEW s \in Seq(Blocks), NEW t \in Seq(Blocks)
  PROVE  /\ s \o t \in Seq(Blocks)
         /\ \A i \in DOMAIN s : i \in DOMAIN (s \o t) /\ (s \o t)[i] = s[i]
         /\ \A i \in DOMAIN t : Len(s) + i \in DOMAIN (s \o t) /\ (s \o t)[Len(s) + i] = t[i]
         /\ \A i \in DOMAIN (s \o t) :
              i \in DOMAIN s \/ \E j \in DOMAIN t : i = Len(s) + j
         /\ \A i \in DOMAIN s : \A j \in DOMAIN t : i < Len(s) + j
<1>1. /\ s \o t \in Seq(Blocks) /\ Len(s) \in Nat /\ Len(t) \in Nat
      /\ Len(s \o t) = Len(s) + Len(t)
      /\ DOMAIN s = 1..Len(s) /\ DOMAIN t = 1..Len(t) /\ DOMAIN (s \o t) = 1..Len(s \o t)
  OBVIOUS
<1>2. \A i \in DOMAIN s : i \in DOMAIN (s \o t) /\ (s \o t)[i] = s[i]
  OBVIOUS
<1>3. ASSUME NEW i \in DOMAIN t
      PROVE  Len(s) + i \in DOMAIN (s \o t) /\ (s \o t)[Len(s) + i] = t[i]
  OBVIOUS
<1>4. ASSUME NEW i \in DOMAIN (s \o t), i \notin DOMAIN s
      PROVE  \E j \in DOMAIN t : i = Len(s) + j
  <2>1. i - Len(s) \in DOMAIN t /\ i = Len(s) + (i - Len(s))
    BY <1>1, <1>4
  <2> QED BY <2>1
<1>5. \A i \in DOMAIN s : \A j \in DOMAIN t : i < Len(s) + j
  BY <1>1
<1> QED BY <1>1, <1>2, <1>3, <1>4, <1>5

LEMMA BlocksTogether ==
  ASSUME NEW s \in Seq(Blocks), NEW t \in Seq(Blocks)
  PROVE  BlocksOf(s \o t) = BlocksOf(s) \cup BlocksOf(t)
<1>1. \A b \in BlocksOf(s \o t) : b \in BlocksOf(s) \cup BlocksOf(t)
  <2> SUFFICES ASSUME NEW i \in DOMAIN (s \o t)
               PROVE  (s \o t)[i] \in BlocksOf(s) \cup BlocksOf(t)
    BY DEF BlocksOf
  <2> QED BY Concatenation DEF BlocksOf
<1>2. \A b \in BlocksOf(s) \cup BlocksOf(t) : b \in BlocksOf(s \o t)
  <2>1. \A i \in DOMAIN s : s[i] \in BlocksOf(s \o t)
    BY Concatenation DEF BlocksOf
  <2>2. ASSUME NEW i \in DOMAIN t PROVE t[i] \in BlocksOf(s \o t)
    <3>1. Len(s) + i \in DOMAIN (s \o t) /\ (s \o t)[Len(s) + i] = t[i]
      BY Concatenation
    <3> QED BY <3>1 DEF BlocksOf
  <2> QED BY <2>1, <2>2 DEF BlocksOf
<1> QED BY <1>1, <1>2

\* What is in one of two sequences once and not in the other is once in both.
LEMMA OnceTogether ==
  ASSUME NEW s \in Seq(Blocks), NEW t \in Seq(Blocks), NEW type, Once(s, type), Once(t, type),
         \/ \A b \in BlocksOf(s) : b.type # type
         \/ \A b \in BlocksOf(t) : b.type # type
  PROVE  Once(s \o t, type)
<1>1. \/ \A i \in DOMAIN s : s[i].type # type
      \/ \A i \in DOMAIN t : t[i].type # type
  BY DEF BlocksOf
<1> SUFFICES ASSUME NEW i \in DOMAIN (s \o t), NEW j \in DOMAIN (s \o t),
                    (s \o t)[i].type = type, (s \o t)[j].type = type
             PROVE  i = j
  BY DEF Once
<1>2. CASE i \in DOMAIN s
  <2>1. s[i].type = type
    BY <1>2, Concatenation
  <2>2. j \in DOMAIN s
    BY <1>1, <2>1, <1>2, Concatenation
  <2> QED BY <1>2, <2>1, <2>2, Concatenation DEF Once
<1>3. CASE i \notin DOMAIN s
  <2>1. PICK k \in DOMAIN t : i = Len(s) + k
    BY <1>3, Concatenation
  <2>2. t[k].type = type
    BY <2>1, Concatenation
  <2>3. j \notin DOMAIN s
    BY <1>1, <2>2, Concatenation
  <2>4. PICK l \in DOMAIN t : j = Len(s) + l
    BY <2>3, Concatenation
  <2>5. t[l].type = type
    BY <2>4, Concatenation
  <2> QED BY <2>1, <2>2, <2>4, <2>5 DEF Once
<1> QED BY <1>2, <1>3

\* The blocks of one visit are each of a section of their own.
Strict(s) == \A i, j \in DOMAIN s : i < j => Rank(s[i]) < Rank(s[j])

LEMMA StrictTogether ==
  ASSUME NEW s \in Seq(Blocks), NEW t \in Seq(Blocks), Strict(s), Strict(t),
         \A b \in BlocksOf(s) : \A c \in BlocksOf(t) : Rank(b) < Rank(c)
  PROVE  Strict(s \o t)
<1> SUFFICES ASSUME NEW i \in DOMAIN (s \o t), NEW j \in DOMAIN (s \o t), i < j
             PROVE  Rank((s \o t)[i]) < Rank((s \o t)[j])
  BY DEF Strict
<1>1. CASE i \in DOMAIN s /\ j \in DOMAIN s
  BY <1>1, Concatenation DEF Strict
<1>2. CASE i \in DOMAIN s /\ j \notin DOMAIN s
  <2>1. PICK l \in DOMAIN t : j = Len(s) + l
    BY <1>2, Concatenation
  <2>2. s[i] \in BlocksOf(s) /\ t[l] \in BlocksOf(t)
    BY <1>2 DEF BlocksOf
  <2>3. (s \o t)[i] = s[i] /\ (s \o t)[j] = t[l]
    BY <1>2, <2>1, Concatenation
  <2> QED BY <2>2, <2>3
<1>3. CASE i \notin DOMAIN s
  <2>1. PICK k \in DOMAIN t : i = Len(s) + k
    BY <1>3, Concatenation
  <2>2. j \notin DOMAIN s
    BY <2>1, Concatenation
  <2>3. PICK l \in DOMAIN t : j = Len(s) + l
    BY <2>2, Concatenation
  <2>4. k < l
    BY <2>1, <2>3
  <2> QED BY <2>1, <2>3, <2>4, Concatenation DEF Strict
<1> QED BY <1>1, <1>2, <1>3

LEMMA LayoutTogether ==
  ASSUME NEW s \in Seq(Blocks), NEW t \in Seq(Blocks),
         \A i, j \in DOMAIN s : i < j => Rank(s[i]) <= Rank(s[j]), Strict(t),
         \A b \in BlocksOf(s) : \A c \in BlocksOf(t) : Rank(b) <= Rank(c)
  PROVE  \A i, j \in DOMAIN (s \o t) : i < j => Rank((s \o t)[i]) <= Rank((s \o t)[j])
<1> SUFFICES ASSUME NEW i \in DOMAIN (s \o t), NEW j \in DOMAIN (s \o t), i < j
             PROVE  Rank((s \o t)[i]) <= Rank((s \o t)[j])
  OBVIOUS
<1>1. CASE i \in DOMAIN s /\ j \in DOMAIN s
  BY <1>1, Concatenation
<1>2. CASE i \in DOMAIN s /\ j \notin DOMAIN s
  <2>1. PICK l \in DOMAIN t : j = Len(s) + l
    BY <1>2, Concatenation
  <2>2. s[i] \in BlocksOf(s) /\ t[l] \in BlocksOf(t)
    BY <1>2 DEF BlocksOf
  <2>3. (s \o t)[i] = s[i] /\ (s \o t)[j] = t[l]
    BY <1>2, <2>1, Concatenation
  <2> QED BY <2>2, <2>3
<1>3. CASE i \notin DOMAIN s
  <2>1. PICK k \in DOMAIN t : i = Len(s) + k
    BY <1>3, Concatenation
  <2>2. j \notin DOMAIN s
    BY <2>1, Concatenation
  <2>3. PICK l \in DOMAIN t : j = Len(s) + l
    BY <2>2, Concatenation
  <2>4. k < l
    BY <2>1, <2>3
  <2>5. Rank(t[k]) \in Nat /\ Rank(t[l]) \in Nat
    <3>1. \A b \in Blocks : Rank(b) \in Nat
      BY DEF Blocks, BlockType, ArchiveObjectType, Kind, Rank, LayoutRank
    <3> QED BY <3>1
  <2>6. Rank(t[k]) < Rank(t[l])
    BY <2>4 DEF Strict
  <2>7. (s \o t)[i] = t[k] /\ (s \o t)[j] = t[l]
    BY <2>1, <2>3, Concatenation
  <2> QED BY <2>5, <2>6, <2>7
<1> QED BY <1>1, <1>2, <1>3

\* A block that is written under a condition.
LEMMA OptionalBlock ==
  ASSUME NEW b \in Blocks, NEW condition \in BOOLEAN, NEW s,
         s = IF condition THEN << b >> ELSE << >>
  PROVE  /\ s \in Seq(Blocks) /\ Strict(s)
         /\ BlocksOf(s) = IF condition THEN {b} ELSE {}
<1>1. CASE condition
  <2>1. s = << b >>
    BY <1>1
  <2>2. DOMAIN s = {1} /\ s[1] = b
    BY <2>1
  <2> QED BY <1>1, <2>1, <2>2 DEF Strict, BlocksOf
<1>2. CASE ~condition
  <2>1. s = << >> /\ DOMAIN s = {}
    BY <1>2
  <2> QED BY <1>2, <2>1 DEF Strict, BlocksOf
<1> QED BY <1>1, <1>2

LEMMA FlushedBlocks ==
  ASSUME NEW due \in SUBSET Banner
  PROVE  /\ Flushed(due) \in Seq(Blocks) /\ Strict(Flushed(due))
         /\ \A b \in BlocksOf(Flushed(due)) : b.type \in due /\ b.def = {}
         /\ \A type \in due : \E b \in BlocksOf(Flushed(due)) : b.type = type
<1> DEFINE eb == Block("eventsBanner", NoName, {})
           rb == Block("routinesBanner", NoName, {})
           s == IF "eventsBanner" \in due THEN << eb >> ELSE << >>
           t == IF "routinesBanner" \in due THEN << rb >> ELSE << >>
<1>1. /\ eb \in Blocks /\ rb \in Blocks /\ eb.type = "eventsBanner" /\ rb.type = "routinesBanner"
      /\ Rank(eb) = 2 /\ Rank(rb) = 6 /\ eb.def = {} /\ rb.def = {}
  BY DEF Block, Blocks, BlockType, NoName, Rank, LayoutRank
<1>2. Flushed(due) = s \o t
  BY DEF Flushed
<1>3. /\ s \in Seq(Blocks) /\ Strict(s)
      /\ BlocksOf(s) = IF "eventsBanner" \in due THEN {eb} ELSE {}
  <2> HIDE DEF eb
  <2> QED BY <1>1, OptionalBlock
<1>4. /\ t \in Seq(Blocks) /\ Strict(t)
      /\ BlocksOf(t) = IF "routinesBanner" \in due THEN {rb} ELSE {}
  <2> HIDE DEF rb
  <2> QED BY <1>1, OptionalBlock
<1> HIDE DEF eb, rb, s, t
<1>5. \A b \in BlocksOf(s) : \A c \in BlocksOf(t) : Rank(b) < Rank(c)
  BY <1>1, <1>3, <1>4
<1>6. s \o t \in Seq(Blocks) /\ Strict(s \o t) /\ BlocksOf(s \o t) = BlocksOf(s) \cup BlocksOf(t)
  BY <1>3, <1>4, <1>5, StrictTogether, BlocksTogether, Concatenation
<1> QED BY <1>1, <1>2, <1>3, <1>4, <1>6 DEF Banner

\* The block of an entry itself.
Own(e) ==
  CASE e.type \in {"database", "viewStub"} -> Block(e.type, e.name, {})
    [] e.type = "tableData" -> Block(e.type, e.name, Shown([kind |-> "table", name |-> e.name]))
    [] OTHER -> Block(e.type, e.name, CreateSql(e))
SaveBlock == Block("saveTimeZone", NoName, {})
ResetBlock == Block("resetTimeZone", NoName, {})

LEMMA OwnBlock ==
  ASSUME Inv, NEW e \in ArchiveEntry
  PROVE  Own(e) \in Blocks /\ Own(e).type = e.type /\ Own(e).name = e.name
<1>1. /\ e.type \in BlockType /\ e.type \in ArchiveObjectType /\ e.name \in Nat
  BY DEF ArchiveEntry, BlockType
<1>2. CreateSql(e) \in SUBSET Definition
  <2>1. \A o \in model : o.createSql \in SUBSET Definition
    BY InvTypes DEF Listable
  <2> QED BY <2>1 DEF CreateSql, Got, Named
<1>3. Shown([kind |-> "table", name |-> e.name]) \in SUBSET Definition
  BY InvTypes DEF Shown
<1>4. \A def \in SUBSET Definition :
        /\ Block(e.type, e.name, def) \in Blocks
        /\ Block(e.type, e.name, def).type = e.type /\ Block(e.type, e.name, def).name = e.name
  BY <1>1 DEF Block, Blocks
<1>5. CASE e.type \in {"database", "viewStub"}
  BY <1>4, <1>5 DEF Own
<1>6. CASE e.type = "tableData"
  BY <1>3, <1>4, <1>6 DEF Own
<1>7. CASE e.type \notin {"database", "viewStub", "tableData"}
  BY <1>2, <1>4, <1>7 DEF Own
<1> QED BY <1>5, <1>6, <1>7

\* It is the entry's text, in the case of rows when the table is there.
LEMMA OwnIsText ==
  ASSUME Inv, NEW e \in ArchiveEntry,
         e.type = "tableData" => Shown([kind |-> "table", name |-> e.name]) # {}
  PROVE  Text(Own(e), e)
<1>1. Own(e).type = e.type /\ Own(e).name = e.name
  BY OwnBlock
<1>2. e.type \in {"database", "viewStub"} => Own(e).def = {}
  BY DEF Own, Block
<1>3. e.type = "tableData" => Own(e).def = Shown([kind |-> "table", name |-> e.name])
  BY DEF Own, Block
<1>4. e.type \in Kind => Own(e).def = CreateSql(e)
  BY DEF Own, Block, Kind
<1>5. \A d \in Shown([kind |-> "table", name |-> e.name]) : d.kind = "table" /\ d.name = e.name
  BY DEF Shown
<1> QED BY <1>1, <1>2, <1>3, <1>4, <1>5 DEF Text

LEMMA VisitBlocks ==
  ASSUME Inv, NEW e \in ArchiveEntry
  PROVE  /\ EntryBlocks(e) \in Seq(Blocks) /\ Strict(EntryBlocks(e))
         /\ BlocksOf(EntryBlocks(e)) =
              {Own(e)} \cup (IF isFirstEvent(e) THEN {SaveBlock} ELSE {})
                       \cup (IF isLastEvent(e) THEN {ResetBlock} ELSE {})
<1>1. Own(e) \in Blocks /\ Own(e).type = e.type
  BY OwnBlock
<1>2. /\ SaveBlock \in Blocks /\ ResetBlock \in Blocks
      /\ Rank(SaveBlock) = 3 /\ Rank(ResetBlock) = 5
  BY DEF SaveBlock, ResetBlock, Block, Blocks, BlockType, NoName, Rank, LayoutRank
<1> DEFINE first == IF isFirstEvent(e) THEN << SaveBlock >> ELSE << >>
           middle == << Own(e) >>
           last == IF isLastEvent(e) THEN << ResetBlock >> ELSE << >>
<1>3. EntryBlocks(e) = (first \o middle) \o last
  <2>1. CASE e.type \in {"database", "viewStub", "tableData"}
    <3>1. first = << >> /\ last = << >>
      BY <2>1 DEF isFirstEvent, isLastEvent
    <3>2. EntryBlocks(e) = middle
      BY <2>1 DEF EntryBlocks, Own
    <3> HIDE DEF first, last
    <3> QED BY <3>1, <3>2
  <2>2. CASE e.type \notin {"database", "viewStub", "tableData"}
    <3>1. Own(e) = Block(e.type, e.name, CreateSql(e))
      BY <2>2 DEF Own
    <3> QED BY <2>2, <3>1 DEF EntryBlocks, SaveBlock, ResetBlock
  <2> QED BY <2>1, <2>2
<1>4. /\ first \in Seq(Blocks) /\ Strict(first)
      /\ BlocksOf(first) = IF isFirstEvent(e) THEN {SaveBlock} ELSE {}
  <2>1. isFirstEvent(e) \in BOOLEAN
    BY DEF isFirstEvent
  <2> QED BY <1>2, <2>1, OptionalBlock
<1>5. middle \in Seq(Blocks) /\ Strict(middle) /\ BlocksOf(middle) = {Own(e)}
  <2>1. middle = IF TRUE THEN << Own(e) >> ELSE << >>
    OBVIOUS
  <2> HIDE DEF middle
  <2> QED BY <1>1, <2>1, OptionalBlock
<1>6. /\ last \in Seq(Blocks) /\ Strict(last)
      /\ BlocksOf(last) = IF isLastEvent(e) THEN {ResetBlock} ELSE {}
  <2>1. isLastEvent(e) \in BOOLEAN
    BY DEF isLastEvent
  <2> QED BY <1>2, <2>1, OptionalBlock
<1> HIDE DEF first, middle, last
<1>7. isFirstEvent(e) \/ isLastEvent(e) => Rank(Own(e)) = 4
  BY <1>1 DEF isFirstEvent, isLastEvent, Rank, LayoutRank
<1>8. /\ first \o middle \in Seq(Blocks) /\ Strict(first \o middle)
      /\ BlocksOf(first \o middle) = BlocksOf(first) \cup BlocksOf(middle)
  <2>1. \A b \in BlocksOf(first) : \A c \in BlocksOf(middle) : Rank(b) < Rank(c)
    BY <1>2, <1>4, <1>5, <1>7
  <2> HIDE DEF Strict, BlocksOf
  <2> QED BY <1>4, <1>5, <2>1, StrictTogether, BlocksTogether, Concatenation
<1>9. /\ (first \o middle) \o last \in Seq(Blocks) /\ Strict((first \o middle) \o last)
      /\ BlocksOf((first \o middle) \o last) = BlocksOf(first \o middle) \cup BlocksOf(last)
  <2>1. \A b \in BlocksOf(first \o middle) : \A c \in BlocksOf(last) : Rank(b) < Rank(c)
    BY <1>2, <1>4, <1>5, <1>6, <1>7, <1>8
  <2> HIDE DEF Strict, BlocksOf
  <2> QED BY <1>6, <1>8, <2>1, StrictTogether, BlocksTogether, Concatenation
<1> QED BY <1>3, <1>4, <1>5, <1>6, <1>8, <1>9

\* What a visit writes: the banners that are due, and with a rendered entry
\* its own block with its half of the time zone pair.
Adds(n, e) ==
  /\ n \in Seq(Blocks) /\ Strict(n)
  /\ \A b \in BlocksOf(n) :
       \/ b.type \in Due(dumpSectionPriority(e.type)) /\ b.def = {}
       \/ b = Own(e)
       \/ b = SaveBlock /\ isFirstEvent(e)
       \/ b = ResetBlock /\ isLastEvent(e)
  /\ \A type \in Due(dumpSectionPriority(e.type)) : \E b \in BlocksOf(n) : b.type = type

LEMMA DueBanners ==
  ASSUME Inv, NEW e \in ArchiveEntry
  PROVE  /\ Due(dumpSectionPriority(e.type)) \in SUBSET Banner
         /\ Due(dumpSectionPriority(e.type)) \subseteq banners
         /\ "eventsBanner" \in banners =>
              ("eventsBanner" \in Due(dumpSectionPriority(e.type))
                 <=> dumpSectionPriority(e.type) >= 2)
         /\ "routinesBanner" \in banners =>
              ("routinesBanner" \in Due(dumpSectionPriority(e.type))
                 <=> dumpSectionPriority(e.type) >= 3)
<1>1. dumpSectionPriority(e.type) \in Nat
  BY SortKeysAreNatural
<1> QED BY <1>1, RenderingTypes DEF Due, Banner

LEMMA OmittingAdds ==
  ASSUME Inv, NEW e \in ArchiveEntry
  PROVE  /\ Adds(FlushedBy(e), e)
         /\ \A b \in BlocksOf(FlushedBy(e)) :
              b.type \in Due(dumpSectionPriority(e.type)) /\ b.def = {}
BY DueBanners, FlushedBlocks DEF Adds, FlushedBy

LEMMA RenderingAdds ==
  ASSUME Inv, NEW e \in ArchiveEntry
  PROVE  /\ Adds(FlushedBy(e) \o EntryBlocks(e), e)
         /\ Own(e) \in BlocksOf(FlushedBy(e) \o EntryBlocks(e))
         /\ isFirstEvent(e) => SaveBlock \in BlocksOf(FlushedBy(e) \o EntryBlocks(e))
         /\ isLastEvent(e) => ResetBlock \in BlocksOf(FlushedBy(e) \o EntryBlocks(e))
<1> DEFINE s == FlushedBy(e)
           t == EntryBlocks(e)
<1>1. /\ s \in Seq(Blocks) /\ Strict(s)
      /\ \A b \in BlocksOf(s) : b.type \in Due(dumpSectionPriority(e.type)) /\ b.def = {}
      /\ \A type \in Due(dumpSectionPriority(e.type)) : \E b \in BlocksOf(s) : b.type = type
  BY OmittingAdds DEF Adds
<1>2. /\ t \in Seq(Blocks) /\ Strict(t)
      /\ BlocksOf(t) = {Own(e)} \cup (IF isFirstEvent(e) THEN {SaveBlock} ELSE {})
                                \cup (IF isLastEvent(e) THEN {ResetBlock} ELSE {})
  BY VisitBlocks
<1>3. \A b \in BlocksOf(s) : \A c \in BlocksOf(t) : Rank(b) < Rank(c)
  <2> SUFFICES ASSUME NEW b \in BlocksOf(s), NEW c \in BlocksOf(t) PROVE Rank(b) < Rank(c)
    OBVIOUS
  <2>1. \/ b.type = "eventsBanner" /\ dumpSectionPriority(e.type) >= 2
        \/ b.type = "routinesBanner" /\ dumpSectionPriority(e.type) >= 3
    BY <1>1, DueBanners DEF Banner
  <2>2. e.type \in ArchiveObjectType /\ Own(e).type = e.type
    BY OwnBlock DEF ArchiveEntry
  <2>3. c = Own(e) \/ (e.type = "event" /\ c \in {SaveBlock, ResetBlock})
    BY <1>2 DEF isFirstEvent, isLastEvent
  <2>4. CASE c = Own(e)
    BY <2>1, <2>2, <2>4 DEF Rank, LayoutRank, dumpSectionPriority, ArchiveObjectType, Kind
  <2>5. CASE e.type = "event" /\ c \in {SaveBlock, ResetBlock}
    <3>1. dumpSectionPriority(e.type) = 2
      BY <2>5 DEF dumpSectionPriority
    <3>2. c.type \in {"saveTimeZone", "resetTimeZone"}
      BY <2>5 DEF SaveBlock, ResetBlock, Block
    <3> QED BY <2>1, <3>1, <3>2 DEF Rank, LayoutRank
  <2> QED BY <2>3, <2>4, <2>5
<1> HIDE DEF s, t
<1>4. s \o t \in Seq(Blocks) /\ Strict(s \o t) /\ BlocksOf(s \o t) = BlocksOf(s) \cup BlocksOf(t)
  BY <1>1, <1>2, <1>3, StrictTogether, BlocksTogether, Concatenation
<1>5. Adds(s \o t, e)
  BY <1>1, <1>2, <1>4 DEF Adds
<1> QED BY <1>2, <1>4, <1>5 DEF s, t

\* Why an entry is in a plan.
LEMMA WhyPlanned ==
  ASSUME NEW db, NEW s, NEW o, NEW e \in Entries(db, s, o)
  PROVE  /\ e.type = "table" => e.name \in TableEntryNames(db, s, o)
         /\ e.type = "tableData" =>
              e.name \in SelectedTables(db, s, o) /\ wantsData(o) /\ ~isTableDataExcluded(e.name, s)
         /\ e.type \in {"view", "viewStub"} => e.name \in SelectedViews(db, s, o) /\ wantsSchema(o)
         /\ e.type = "trigger" =>
              \E t \in SelectedTriggers(db, s, o) :
                e = TriggerEntry(t) /\ t.table \in TableEntryNames(db, s, o)
         /\ e.type = "event" =>
              /\ o.includeEvents /\ wantsSchema(o)
              /\ e.name \in NamesOf(db, "event", "events", s)
         /\ e.type \in {"function", "procedure"} =>
              /\ o.includeRoutines /\ wantsSchema(o)
              /\ e.name \in NamesOf(db, e.type, "routines", s)
         /\ e.type = "trigger" \/ e = [Entry(e.type, e.name) EXCEPT !.parent = e.parent]
<1>1. CASE e \in DatabaseEntries(o)
  BY <1>1 DEF DatabaseEntries, Entry
<1>2. CASE e \in TableEntries(db, s, o)
  <2>1. CASE \E n \in TableEntryNames(db, s, o) : e = Entry("table", n)
    BY <2>1 DEF Entry
  <2>2. CASE \E n \in SelectedTables(db, s, o) :
               wantsData(o) /\ ~isTableDataExcluded(n, s) /\ e = DataEntry(n)
    BY <2>2 DEF DataEntry, Entry
  <2> QED BY <1>2, <2>1, <2>2 DEF TableEntries
<1>3. CASE e \in ViewEntries(db, s, o)
  <2>1. PICK n \in SelectedViews(db, s, o) : e = Entry("viewStub", n) \/ e = Entry("view", n)
    BY <1>3 DEF ViewEntries
  <2> QED BY <1>3, <2>1 DEF ViewEntries, Entry
<1>4. CASE e \in TriggerEntries(db, s, o)
  BY <1>4 DEF TriggerEntries, TriggerEntry
<1>5. CASE e \in EventEntries(db, s, o)
  BY <1>5 DEF EventEntries, Entry
<1>6. CASE e \in RoutineEntries(db, s, o)
  BY <1>6 DEF RoutineEntries, Entry
<1> QED BY <1>1, <1>2, <1>3, <1>4, <1>5, <1>6 DEF Entries

-----------------------------------------------------------------------------
(* The walk *)

\* What is said of an entry depends on the model and the options only.
LEMMA ModelStays ==
  ASSUME UNCHANGED << given, model, opts >>
  PROVE  /\ Planned' = Planned /\ IncludedBanners' = IncludedBanners
         /\ TriggersWithoutTable(database, normalized, opts)'
              = TriggersWithoutTable(database, normalized, opts)
         /\ RenderableEventNames' = RenderableEventNames
         /\ opts' = opts
         /\ \A e : /\ Missing(e)' <=> Missing(e)
                   /\ Unsupported(e)' <=> Unsupported(e)
                   /\ SkippedSilently(e)' <=> SkippedSilently(e)
                   /\ isFirstEvent(e)' <=> isFirstEvent(e)
                   /\ isLastEvent(e)' <=> isLastEvent(e)
                   /\ CreateSql(e)' = CreateSql(e)
         /\ \A b, e : Text(b, e)' <=> Text(b, e)
<1>1. normalized' = normalized /\ database' = database /\ opts' = opts /\ model' = model
  BY GivenIsGiven DEF database
<1>2. RenderableEventNames' = RenderableEventNames /\ IncludedBanners' = IncludedBanners
  BY <1>1 DEF RenderableEventNames, IncludedBanners
<1>3. \A e : CreateSql(e)' = CreateSql(e) /\ Got(e)' = Got(e)
  BY <1>1 DEF CreateSql, Got, Named
<1>4. \A e : /\ Missing(e)' <=> Missing(e)
             /\ Unsupported(e)' <=> Unsupported(e)
             /\ SkippedSilently(e)' <=> SkippedSilently(e)
             /\ isFirstEvent(e)' <=> isFirstEvent(e)
             /\ isLastEvent(e)' <=> isLastEvent(e)
  BY <1>2, <1>3 DEF Missing, Unsupported, SkippedSilently, isFirstEvent, isLastEvent
<1>5. \A b, e : Text(b, e)' <=> Text(b, e)
  BY <1>3 DEF Text
<1> QED BY <1>1, <1>2, <1>3, <1>4, <1>5 DEF Planned

\* An event can be rendered when the model has its definition.
LEMMA EventsInTheModel ==
  ASSUME NEW e, e.type = "event"
  PROVE  e.name \in RenderableEventNames <=> ~Missing(e) /\ ~SkippedSilently(e)
<1>1. Named(e) = {o \in model : o.kind = "event" /\ o.name = e.name}
  BY DEF Named, MapKinds
<1>2. Got(e) = {o \in model : o.kind = "event" /\ o.name = e.name}
  BY <1>1 DEF Got
<1>3. Missing(e) <=> Got(e) = {}
  BY DEF Missing
<1>4. SkippedSilently(e) <=> \A o \in Got(e) : o.createSql = {}
  BY DEF SkippedSilently, CreateSql
<1>5. e.name \in RenderableEventNames <=> \E o \in Got(e) : o.createSql # {}
  BY <1>2 DEF RenderableEventNames
<1> QED BY <1>3, <1>4, <1>5

\* Each of them has an entry when events are planned.
LEMMA EventsArePlanned ==
  ASSUME ReadInv, phase = "rendering", NEW e \in Planned, e.type = "event",
         NEW n \in RenderableEventNames
  PROVE  Entry("event", n) \in Planned
<1>1. opts.includeEvents /\ wantsSchema(opts)
  BY WhyPlanned DEF Planned
<1>2. PICK o \in model : o.kind = "event" /\ o.name = n
  BY DEF RenderableEventNames
<1>3. IsSelected("events", n, normalized)
  BY <1>2 DEF ReadInv, Known, Final, ObjectSelected, ClassOf
<1>4. n \in NamesOf(database, "event", "events", normalized)
  BY <1>2, <1>3 DEF NamesOf, database
<1> QED BY <1>1, <1>4 DEF Planned, Entries, EventEntries

\* Where the walk stands when it visits an entry.
LEMMA VisitFacts ==
  ASSUME Inv, Walk, WrittenInv, NEW e \in pending, Visit(e)
  PROVE  /\ e \in Planned /\ WellFormed(e) /\ e \in ArchiveEntry
         /\ pending' = pending \ {e}
         /\ banners' = banners \ Due(dumpSectionPriority(e.type))
         /\ UNCHANGED << given, others, model, opts >>
         /\ \A d \in pending \ {e} : Before(e, d)
         /\ \A d \in Visited : Before(d, e) /\ d \in Planned /\ WellFormed(d) /\ d # e
         /\ \A d \in pending : d \in Planned /\ WellFormed(d)
         /\ VisitInv /\ ScriptInv /\ RowsInv /\ BannersInv /\ TimeZoneInv /\ LayoutInv
         /\ script \in Seq(Blocks)
<1>1. VisitInv /\ ScriptInv /\ RowsInv /\ BannersInv /\ TimeZoneInv /\ LayoutInv
  BY DEF WrittenInv, Visit
<1>2. /\ pending' = pending \ {e} /\ banners' = banners \ Due(dumpSectionPriority(e.type))
      /\ UNCHANGED << given, others, model, opts >>
      /\ \A d \in pending \ {e} : Before(e, d)
  BY DEF Visit, IsNext
<1>3. \A d \in pending \cup Visited : d \in Planned /\ WellFormed(d)
  BY <1>1 DEF VisitInv, Walk, Visited
<1>4. e \in ArchiveEntry
  BY <1>3 DEF WellFormed
<1>5. \A d \in Visited : Before(d, e) /\ d # e
  BY <1>4, OrderIsStrict DEF Walk, Visited
<1> QED BY <1>1, <1>2, <1>3, <1>4, <1>5, RenderingTypes

\* The first event finds none written, the last leaves none to write, and
\* nothing follows the last.
LEMMA EventTurn ==
  ASSUME Inv, Walk, ReadInv, WrittenInv, NEW e \in pending, Visit(e),
         e.type = "event", e.name \in RenderableEventNames
  PROVE  /\ isFirstEvent(e) => \A d \in rendered : d.type # "event"
         /\ \A d \in rendered : ~isLastEvent(d)
         /\ ~isFirstEvent(e) => \E d \in rendered : d.type = "event"
         /\ ~isLastEvent(e) =>
              \E d \in pending \ {e} : d.type = "event" /\ d.name \in RenderableEventNames
<1>1. /\ e \in Planned /\ WellFormed(e) /\ VisitInv
      /\ \A d \in pending \ {e} : Before(e, d)
      /\ \A d \in Visited : Before(d, e) /\ WellFormed(d) /\ d # e
      /\ phase = "rendering" /\ e.name \in Nat
  BY VisitFacts DEF Visit, ArchiveEntry
<1>2. \A d \in rendered : d.type = "event" => d.name < e.name /\ d.name \in RenderableEventNames
  <2> SUFFICES ASSUME NEW d \in rendered, d.type = "event"
               PROVE  d.name < e.name /\ d.name \in RenderableEventNames
    OBVIOUS
  <2>1. WellFormed(d) /\ Before(d, e)
    BY <1>1 DEF Visited
  <2>2. ~Missing(d) /\ ~SkippedSilently(d)
    BY <1>1 DEF VisitInv
  <2> QED BY <1>1, <2>1, <2>2, EventsAreByName, EventsInTheModel
<1>3. ASSUME NEW n \in RenderableEventNames, n # e.name
      PROVE  \/ \E d \in rendered : d.type = "event" /\ n < e.name
             \/ \E d \in pending \ {e} : d.type = "event" /\ d.name = n /\ e.name < n
  <2> DEFINE d == Entry("event", n)
  <2>1. d \in Planned /\ d.type = "event" /\ d.name = n
    BY <1>1, EventsArePlanned DEF Entry
  <2> HIDE DEF d
  <2>2. d \notin skipped
    <3>1. ~Missing(d) /\ ~SkippedSilently(d) /\ ~Unsupported(d)
      BY <1>3, <2>1, EventsInTheModel DEF Unsupported
    <3> QED BY <1>1, <3>1 DEF VisitInv
  <2>3. CASE d \in rendered
    BY <1>2, <2>1, <2>3
  <2>4. CASE d \in pending
    <3>1. d # e /\ Before(e, d)
      BY <1>1, <1>3, <2>1, <2>4
    <3>2. WellFormed(d)
      BY <2>4, VisitFacts
    <3> QED BY <1>1, <2>1, <2>4, <3>1, <3>2, EventsAreByName
  <2> QED BY <1>1, <2>1, <2>2, <2>3, <2>4 DEF VisitInv, Visited
<1>4. \A n \in RenderableEventNames : n \in Nat
  BY InvTypes DEF RenderableEventNames, Listable
<1>5. isFirstEvent(e) => \A d \in rendered : d.type # "event"
  BY <1>1, <1>2, <1>4 DEF isFirstEvent
<1>6. \A d \in rendered : ~isLastEvent(d)
  BY <1>1, <1>2, <1>4 DEF isLastEvent
<1>7. ~isFirstEvent(e) => \E d \in rendered : d.type = "event"
  <2> SUFFICES ASSUME ~isFirstEvent(e) PROVE \E d \in rendered : d.type = "event"
    OBVIOUS
  <2>1. PICK n \in RenderableEventNames : ~(e.name <= n)
    BY DEF isFirstEvent
  <2> QED BY <1>1, <1>3, <1>4, <2>1
<1>8. ~isLastEvent(e) =>
        \E d \in pending \ {e} : d.type = "event" /\ d.name \in RenderableEventNames
  <2> SUFFICES ASSUME ~isLastEvent(e)
               PROVE  \E d \in pending \ {e} : d.type = "event" /\ d.name \in RenderableEventNames
    OBVIOUS
  <2>1. PICK n \in RenderableEventNames : ~(n <= e.name)
    BY DEF isLastEvent
  <2> QED BY <1>1, <1>3, <1>4, <2>1
<1> QED BY <1>5, <1>6, <1>7, <1>8

\* What a visit adds keeps to the layout.
LEMMA RanksOfABlock ==
  ASSUME Inv, NEW e \in ArchiveEntry, NEW n, Adds(n, e), NEW b \in BlocksOf(n)
  PROVE  \/ /\ b.type = "eventsBanner" /\ "eventsBanner" \in banners
            /\ Rank(b) = 2 /\ dumpSectionPriority(e.type) >= 2
         \/ /\ b.type = "routinesBanner" /\ "routinesBanner" \in banners
            /\ Rank(b) = 6 /\ dumpSectionPriority(e.type) >= 3
         \/ /\ b = Own(e) /\ b.type = e.type /\ Rank(b) = LayoutRank(e.type)
         \/ /\ b.type = "saveTimeZone" /\ isFirstEvent(e) /\ Rank(b) = 3
            /\ dumpSectionPriority(e.type) = 2
         \/ /\ b.type = "resetTimeZone" /\ isLastEvent(e) /\ Rank(b) = 5
            /\ dumpSectionPriority(e.type) = 2
<1>1. CASE b.type \in Due(dumpSectionPriority(e.type))
  BY <1>1, DueBanners DEF Banner, Rank, LayoutRank
<1>2. CASE b = Own(e)
  BY <1>2, OwnBlock DEF Rank
<1>3. CASE b = SaveBlock /\ isFirstEvent(e)
  BY <1>3 DEF SaveBlock, Block, isFirstEvent, Rank, LayoutRank, dumpSectionPriority
<1>4. CASE b = ResetBlock /\ isLastEvent(e)
  BY <1>4 DEF ResetBlock, Block, isLastEvent, Rank, LayoutRank, dumpSectionPriority
<1> QED BY <1>1, <1>2, <1>3, <1>4 DEF Adds

LEMMA RanksOfEntryTypes ==
  ASSUME NEW b, b.type \in ArchiveObjectType
  PROVE  /\ LayoutRank(b.type) \in 0..9 /\ LayoutRank(b.type) \notin {2, 3, 5, 6}
         /\ LayoutRank(b.type) = 4 <=> b.type = "event"
<1>1. LayoutRank(b.type) \in 0..9
  BY DEF LayoutRank, ArchiveObjectType, Kind
<1>2. LayoutRank(b.type) \notin {2, 3, 5, 6}
  BY DEF LayoutRank, ArchiveObjectType, Kind
<1>3. LayoutRank(b.type) = 4 <=> b.type = "event"
  BY DEF LayoutRank, ArchiveObjectType, Kind
<1> QED BY <1>1, <1>2, <1>3

\* The rank of an entry's type and its section.
LEMMA RanksOfSections ==
  ASSUME NEW e \in ArchiveEntry
  PROVE  /\ dumpSectionPriority(e.type) < 2 => LayoutRank(e.type) < 2
         /\ dumpSectionPriority(e.type) < 3 => LayoutRank(e.type) < 6
         /\ dumpSectionPriority(e.type) >= 2 => LayoutRank(e.type) >= 4
         /\ dumpSectionPriority(e.type) >= 3 => LayoutRank(e.type) >= 7
         /\ dumpSectionPriority(e.type) = 2 <=> e.type = "event"
         /\ LayoutRank(e.type) = 4 <=> e.type = "event"
         /\ dumpSectionPriority(e.type) \in 0..4 /\ LayoutRank(e.type) \in 0..9
         /\ LayoutRank(e.type) \notin {2, 3, 5, 6}
<1>1. e.type \in ArchiveObjectType
  BY DEF ArchiveEntry
<1> QED BY <1>1 DEF ArchiveObjectType, Kind, LayoutRank, dumpSectionPriority

\* The ranks of the blocks tell the banners and the time zone from entries.
LEMMA RanksOfTypes ==
  ASSUME NEW b \in Blocks
  PROVE  /\ Rank(b) \in 0..9
         /\ Rank(b) = 2 <=> b.type = "eventsBanner"
         /\ Rank(b) = 3 <=> b.type = "saveTimeZone"
         /\ Rank(b) = 4 <=> b.type = "event"
         /\ Rank(b) = 5 <=> b.type = "resetTimeZone"
         /\ Rank(b) = 6 <=> b.type = "routinesBanner"
         /\ b.type \in ArchiveObjectType \/ b.type \in Banner \cup {"saveTimeZone", "resetTimeZone"}
<1>1. b.type \in ArchiveObjectType \cup {"eventsBanner", "routinesBanner", "saveTimeZone",
                                         "resetTimeZone"}
  BY DEF Blocks, BlockType
<1>2. CASE b.type \in ArchiveObjectType
  <2>1. /\ LayoutRank(b.type) \in 0..9 /\ LayoutRank(b.type) \notin {2, 3, 5, 6}
        /\ LayoutRank(b.type) = 4 <=> b.type = "event"
    BY <1>2, RanksOfEntryTypes
  <2>2. b.type \notin {"eventsBanner", "routinesBanner", "saveTimeZone", "resetTimeZone"}
    BY <1>2 DEF ArchiveObjectType, Kind
  <2> QED BY <1>2, <2>1, <2>2 DEF Rank
<1>3. CASE b.type = "eventsBanner"
  BY <1>3 DEF Rank, LayoutRank, Banner
<1>4. CASE b.type = "routinesBanner"
  BY <1>4 DEF Rank, LayoutRank, Banner
<1>5. CASE b.type = "saveTimeZone"
  BY <1>5 DEF Rank, LayoutRank
<1>6. CASE b.type = "resetTimeZone"
  BY <1>6 DEF Rank, LayoutRank
<1> QED BY <1>1, <1>2, <1>3, <1>4, <1>5, <1>6

LEMMA BlocksAreTyped ==
  ASSUME NEW s \in Seq(Blocks), NEW b \in BlocksOf(s)
  PROVE  b \in Blocks
BY DEF BlocksOf

\* A sequence of strict ranks has each type once.
LEMMA StrictIsOnce ==
  ASSUME NEW s \in Seq(Blocks), Strict(s), NEW type
  PROVE  Once(s, type)
<1> SUFFICES ASSUME NEW i \in DOMAIN s, NEW j \in DOMAIN s, s[i].type = type, s[j].type = type,
                    i < j
             PROVE  FALSE
  BY DEF Once
<1>1. Rank(s[i]) = Rank(s[j])
  BY DEF Rank
<1>2. Rank(s[i]) \in 0..9 /\ Rank(s[j]) \in 0..9
  BY RanksOfTypes
<1> QED BY <1>1, <1>2 DEF Strict

-----------------------------------------------------------------------------
(* A visit keeps what has been written in order *)

LEMMA VisitKeepsBanners ==
  ASSUME Inv, Walk, WrittenInv, NEW e \in pending, Visit(e),
         NEW n, Adds(n, e), script' = script \o n
  PROVE  BannersInv'
<1> DEFINE section == dumpSectionPriority(e.type)
<1>1. /\ e \in ArchiveEntry /\ pending' = pending \ {e}
      /\ banners' = banners \ Due(section) /\ UNCHANGED << given, model, opts >>
      /\ \A d \in pending \ {e} : Before(e, d) /\ d \in ArchiveEntry
      /\ BannersInv /\ script \in Seq(Blocks) /\ n \in Seq(Blocks) /\ Strict(n)
      /\ \A type \in Due(section) : \E b \in BlocksOf(n) : b.type = type
  BY VisitFacts DEF Adds, WellFormed
<1>2. BlocksOf(script') = BlocksOf(script) \cup BlocksOf(n)
  BY <1>1, BlocksTogether
<1>3. section \in 0..4 /\ banners \subseteq Banner
  BY <1>1, RanksOfSections, RenderingTypes DEF Banner
<1>4. /\ "eventsBanner" \in banners' => "eventsBanner" \in banners /\ section < 2
      /\ "routinesBanner" \in banners' => "routinesBanner" \in banners /\ section < 3
  BY <1>1, <1>3, DueBanners
<1>5. \A b \in BlocksOf(n) : /\ section < 2 => Rank(b) < 2
                             /\ section < 3 => Rank(b) < 6
                             /\ Rank(b) >= 2 => section >= 2
                             /\ Rank(b) >= 6 => section >= 3
  BY <1>1, <1>3, RanksOfABlock, RanksOfSections
<1>6. "eventsBanner" \in banners' => \A b \in BlocksOf(script') : Rank(b) < 2
  BY <1>1, <1>2, <1>4, <1>5 DEF BannersInv
<1>7. "routinesBanner" \in banners' => \A b \in BlocksOf(script') : Rank(b) < 6
  BY <1>1, <1>2, <1>4, <1>5 DEF BannersInv
<1>8. \A b \in BlocksOf(script') : \A d \in pending' :
        /\ Rank(b) >= 2 => dumpSectionPriority(d.type) >= 2
        /\ Rank(b) >= 6 => dumpSectionPriority(d.type) >= 3
  <2> SUFFICES ASSUME NEW b \in BlocksOf(script'), NEW d \in pending'
               PROVE  /\ Rank(b) >= 2 => dumpSectionPriority(d.type) >= 2
                      /\ Rank(b) >= 6 => dumpSectionPriority(d.type) >= 3
    OBVIOUS
  <2>1. CASE b \in BlocksOf(script)
    BY <1>1, <2>1 DEF BannersInv
  <2>2. CASE b \in BlocksOf(n)
    <3>1. section <= dumpSectionPriority(d.type) /\ dumpSectionPriority(d.type) \in 0..4
      BY <1>1, OrderKeepsToLayout, RanksOfSections
    <3> HIDE DEF section
    <3> QED BY <1>3, <1>5, <2>2, <3>1
  <2> QED BY <1>2, <2>1, <2>2
<1>9. \A type \in Banner :
        /\ Once(script', type)
        /\ type \in IncludedBanners' <=>
             type \in banners' \/ \E b \in BlocksOf(script') : b.type = type
  <2> SUFFICES ASSUME NEW type \in Banner
               PROVE  /\ Once(script', type)
                      /\ type \in IncludedBanners' <=>
                           type \in banners' \/ \E b \in BlocksOf(script') : b.type = type
    OBVIOUS
  <2>1. /\ Once(script, type) /\ Once(n, type)
        /\ type \in IncludedBanners <=>
             type \in banners \/ \E b \in BlocksOf(script) : b.type = type
    BY <1>1, StrictIsOnce DEF BannersInv
  <2>2. type \in banners => \A b \in BlocksOf(script) : b.type # type
    <3>1. CASE type = "eventsBanner"
      BY <1>1, <3>1, BlocksAreTyped, RanksOfTypes DEF BannersInv
    <3>2. CASE type = "routinesBanner"
      BY <1>1, <3>2, BlocksAreTyped, RanksOfTypes DEF BannersInv
    <3> QED BY <3>1, <3>2 DEF Banner
  <2>3. \A b \in BlocksOf(n) : b.type = type => type \in banners /\ type \in Due(section)
    <3> SUFFICES ASSUME NEW b \in BlocksOf(n), b.type = type
                 PROVE  type \in banners /\ type \in Due(section)
      OBVIOUS
    <3>1. Own(e).type \notin Banner
      BY <1>1, OwnBlock DEF ArchiveEntry, ArchiveObjectType, Kind, Banner
    <3>2. SaveBlock.type \notin Banner /\ ResetBlock.type \notin Banner
      BY DEF SaveBlock, ResetBlock, Block, Banner
    <3>3. b.type \in Due(section)
      BY <3>1, <3>2 DEF Adds
    <3> QED BY <1>1, <3>3, DueBanners
  <2>4. Once(script', type)
    BY <1>1, <2>1, <2>2, <2>3, OnceTogether
  <2>5. type \in banners' \/ (\E b \in BlocksOf(script') : b.type = type)
          <=> type \in banners \/ (\E b \in BlocksOf(script) : b.type = type)
    BY <1>1, <1>2, <2>3
  <2>6. IncludedBanners' = IncludedBanners
    BY <1>1, ModelStays
  <2> QED BY <2>1, <2>4, <2>5, <2>6
<1> QED BY <1>6, <1>7, <1>8, <1>9 DEF BannersInv

\* An entry that is not an event, or one that is rendered.
LEMMA VisitKeepsLayout ==
  ASSUME Inv, Walk, ReadInv, WrittenInv, NEW e \in pending, Visit(e),
         NEW n, Adds(n, e), script' = script \o n,
         \/ e.type = "event" => e.name \in RenderableEventNames
         \/ \A b \in BlocksOf(n) : b.type \in Due(dumpSectionPriority(e.type))
  PROVE  LayoutInv'
<1> DEFINE section == dumpSectionPriority(e.type)
<1>1. /\ e \in ArchiveEntry /\ WellFormed(e)
      /\ BannersInv /\ ScriptInv /\ TimeZoneInv /\ LayoutInv
      /\ script \in Seq(Blocks) /\ n \in Seq(Blocks) /\ Strict(n)
      /\ \A d \in Visited : Before(d, e) /\ WellFormed(d)
  BY VisitFacts DEF Adds
<1>2. ASSUME NEW a \in BlocksOf(script), NEW b \in BlocksOf(n)
      PROVE  Rank(a) <= Rank(b)
  <2>1. a \in Blocks /\ b \in Blocks /\ Rank(a) \in 0..9 /\ Rank(b) \in 0..9
    BY <1>1, BlocksAreTyped, RanksOfTypes
  <2>2. /\ Rank(a) >= 2 => section >= 2
        /\ Rank(a) >= 6 => section >= 3
    BY <1>1 DEF BannersInv
  <2>3. CASE b.type \in Banner /\ b.type \in banners
    <3>1. Rank(a) < Rank(b)
      BY <1>1, <2>1, <2>3 DEF BannersInv, Banner, Rank, LayoutRank
    <3> QED BY <2>1, <3>1
  <2>4. CASE b.type \notin Banner
    <3>1. ~(b.type \in Due(section))
      BY <1>1, <2>4, DueBanners
    <3>2. e.type = "event" => e.name \in RenderableEventNames
      BY <3>1
    <3>3. a.type = "event" => \E d \in rendered : d.type = "event" /\ Text(a, d)
      BY <1>1 DEF ScriptInv, ArchiveObjectType, Kind, Text
    <3>4. a.type = "resetTimeZone" => \E d \in rendered : isLastEvent(d)
      BY <1>1 DEF TimeZoneInv
    <3>5. e.type = "event" => a.type # "resetTimeZone"
      BY <3>2, <3>4, EventTurn
    <3>6. isFirstEvent(e) => a.type # "event"
      <4>1. isFirstEvent(e) => e.type = "event"
        BY DEF isFirstEvent
      <4> QED BY <3>2, <3>3, <4>1, EventTurn
    <3>7. a.type \in ArchiveObjectType => Rank(a) <= LayoutRank(e.type)
      <4> SUFFICES ASSUME a.type \in ArchiveObjectType PROVE Rank(a) <= LayoutRank(e.type)
        OBVIOUS
      <4>1. PICK d \in rendered : Text(a, d)
        BY <1>1 DEF ScriptInv
      <4>2. d \in ArchiveEntry /\ Before(d, e)
        BY <1>1 DEF Visited, WellFormed
      <4> QED BY <1>1, <4>1, <4>2, OrderKeepsToLayout DEF Text, Rank
    <3>8. /\ section < 2 => LayoutRank(e.type) < 2
          /\ section >= 2 => LayoutRank(e.type) >= 4
          /\ section >= 3 => LayoutRank(e.type) >= 7
          /\ section = 2 <=> e.type = "event"
          /\ section \in 0..4 /\ LayoutRank(e.type) \in 0..9
      BY <1>1, RanksOfSections
    <3>9. /\ Rank(a) = 4 <=> a.type = "event"
          /\ Rank(a) = 5 <=> a.type = "resetTimeZone"
          /\ a.type \in ArchiveObjectType \/ Rank(a) \in {2, 3, 5, 6}
      BY <2>1, RanksOfTypes DEF Banner
    <3> HIDE DEF section
    <3>10. CASE b = Own(e) /\ Rank(b) = LayoutRank(e.type)
      BY <2>1, <2>2, <3>5, <3>7, <3>8, <3>9, <3>10
    <3>11. CASE Rank(b) = 3 /\ isFirstEvent(e) /\ section = 2
      BY <2>1, <2>2, <3>5, <3>6, <3>8, <3>9, <3>11
    <3>12. CASE Rank(b) = 5 /\ section = 2
      BY <2>1, <2>2, <3>12
    <3>13. b.type # "eventsBanner" /\ b.type # "routinesBanner"
      BY <2>4 DEF Banner
    <3>14. \/ b = Own(e) /\ Rank(b) = LayoutRank(e.type)
           \/ Rank(b) = 3 /\ isFirstEvent(e) /\ section = 2
           \/ Rank(b) = 5 /\ section = 2
      BY <1>1, <3>13, RanksOfABlock DEF section
    <3> QED BY <3>10, <3>11, <3>12, <3>14
  <2>5. e.type \notin Banner
    BY <1>1 DEF ArchiveEntry, ArchiveObjectType, Kind, Banner
  <2>6. b.type \in Banner => b.type \in banners
    <3> HIDE DEF section
    <3> QED BY <1>1, <2>5, RanksOfABlock DEF Banner
  <2> QED BY <2>3, <2>4, <2>6
<1> QED BY <1>1, <1>2, LayoutTogether DEF LayoutInv

\* The text of an entry is written for it.
LEMMA WhoseText ==
  ASSUME Inv, VisitInv, ScriptInv, NEW b \in BlocksOf(script), NEW e \in Planned, Text(b, e)
  PROVE  e \in rendered
<1>1. b.type = e.type /\ b.name = e.name
  BY DEF Text
<1>2. e.type \in ArchiveObjectType
  BY EntriesAreWellFormed, ModelIsWellTyped DEF Planned, WellFormed, ArchiveEntry
<1>3. PICK d \in rendered : Text(b, d)
  BY <1>1, <1>2 DEF ScriptInv
<1>4. d \in Planned
  BY DEF VisitInv, Visited
<1>5. d = e
  BY <1>1, <1>3, <1>4, EntryByName DEF Text
<1> QED BY <1>5

\* What stands where in a script that has been continued.
LEMMA Continued ==
  ASSUME script \in Seq(Blocks), NEW n \in Seq(Blocks), script' = script \o n
  PROVE  /\ BlocksOf(script') = BlocksOf(script) \cup BlocksOf(n)
         /\ \A i \in DOMAIN script : script'[i] = script[i] /\ script[i] \in BlocksOf(script)
         /\ \A j \in DOMAIN script' : \A i \in DOMAIN script' :
              j \in DOMAIN script /\ i < j => i \in DOMAIN script
         /\ \A j \in DOMAIN script' \ DOMAIN script :
              \E l \in DOMAIN n : /\ j = Len(script) + l
                                  /\ script'[j] = n[l] /\ n[l] \in BlocksOf(n)
<1>1. BlocksOf(script') = BlocksOf(script) \cup BlocksOf(n)
  BY BlocksTogether
<1>2. \A i \in DOMAIN script : script'[i] = script[i] /\ script[i] \in BlocksOf(script)
  BY Concatenation DEF BlocksOf
<1>3. \A j \in DOMAIN script' : \A i \in DOMAIN script' :
        j \in DOMAIN script /\ i < j => i \in DOMAIN script
  BY Concatenation
<1>4. ASSUME NEW j \in DOMAIN script' \ DOMAIN script
      PROVE  \E l \in DOMAIN n : /\ j = Len(script) + l
                                 /\ script'[j] = n[l] /\ n[l] \in BlocksOf(n)
  <2>1. PICK l \in DOMAIN n : j = Len(script) + l
    BY Concatenation
  <2>2. script'[j] = n[l]
    BY <2>1, Concatenation
  <2> QED BY <2>1, <2>2 DEF BlocksOf
<1> QED BY <1>1, <1>2, <1>3, <1>4

\* An entry rendered stands behind all the others.
LEMMA RenderKeepsScript ==
  ASSUME Inv, Walk, WrittenInv, NEW e \in pending, Visit(e), NEW n, Adds(n, e),
         Own(e) \in BlocksOf(n), Text(Own(e), e), script' = script \o n,
         rendered' = rendered \cup {e}
  PROVE  ScriptInv'
<1>1. /\ e \in Planned /\ e \in ArchiveEntry /\ UNCHANGED << given, model, opts >>
      /\ VisitInv /\ ScriptInv /\ script \in Seq(Blocks) /\ n \in Seq(Blocks) /\ Strict(n)
      /\ \A d \in Visited : Before(d, e) /\ d # e
      /\ \A d \in rendered \cup {e} : d \in Planned /\ d.type \in ArchiveObjectType
      /\ e \notin rendered
  BY VisitFacts DEF Adds, Visited, WellFormed, ArchiveEntry
<1>2. \A b, x : Text(b, x)' <=> Text(b, x)
  BY <1>1, ModelStays
<1>3. BlocksOf(script') = BlocksOf(script) \cup BlocksOf(n)
  BY <1>1, Continued
<1>4. \A b \in BlocksOf(n) : b.type \in ArchiveObjectType => b = Own(e)
  <2>1. \A b \in BlocksOf(n) : b.type \in Due(dumpSectionPriority(e.type)) => b.type \in Banner
    BY <1>1, DueBanners
  <2>2. SaveBlock.type \notin ArchiveObjectType /\ ResetBlock.type \notin ArchiveObjectType
    BY DEF SaveBlock, ResetBlock, Block, ArchiveObjectType, Kind
  <2> QED BY <2>1, <2>2 DEF Adds, Banner, ArchiveObjectType, Kind
<1>d. \A b \in BlocksOf(n) : b = Own(e) \/ b.def = {}
  BY DEF Adds, SaveBlock, ResetBlock, Block
<1>5. \A x \in rendered' : \E b \in BlocksOf(script') : Text(b, x)
  BY <1>1, <1>3 DEF ScriptInv
<1>6. ASSUME NEW b \in BlocksOf(script')
      PROVE  IF b.type \in ArchiveObjectType THEN \E x \in rendered' : Text(b, x) ELSE b.def = {}
  <2>1. Own(e).type \in ArchiveObjectType
    BY <1>1, OwnBlock
  <2>2. CASE b \in BlocksOf(script)
    BY <1>1, <2>2 DEF ScriptInv
  <2>3. CASE b \in BlocksOf(n)
    <3>1. CASE b = Own(e)
      BY <2>1, <3>1
    <3>2. CASE b # Own(e)
      BY <1>4, <1>d, <2>3, <3>2
    <3> QED BY <3>1, <3>2
  <2> QED BY <1>3, <2>2, <2>3
<1>7. ASSUME NEW i \in DOMAIN script', NEW j \in DOMAIN script', NEW d \in rendered',
             NEW x \in rendered', i < j, Text(script'[i], d), Text(script'[j], x)
      PROVE  Before(d, x)
  <2>1. i \in DOMAIN script => d \in rendered
    BY <1>1, <1>7, WhoseText, Continued
  <2>2. CASE j \in DOMAIN script
    <3>1. i \in DOMAIN script /\ script'[i] = script[i] /\ script'[j] = script[j]
      BY <1>1, <1>7, <2>2, Continued
    <3>2. x \in rendered
      BY <1>1, <1>7, <2>2, WhoseText, Continued
    <3> QED BY <1>1, <1>7, <2>1, <2>2, <3>1, <3>2 DEF ScriptInv
  <2>3. CASE j \notin DOMAIN script
    <3>1. PICK l \in DOMAIN n :
            j = Len(script) + l /\ script'[j] = n[l] /\ n[l] \in BlocksOf(n)
      BY <1>1, <2>3, Continued
    <3>2. n[l] = Own(e)
      BY <1>1, <1>4, <1>7, <3>1 DEF Text
    <3>3. x = e
      BY <1>1, <1>7, <3>1, <3>2, EntryByName, OwnBlock DEF Text
    <3>4. CASE i \in DOMAIN script
      BY <1>1, <2>1, <3>3, <3>4 DEF Visited
    <3>5. CASE i \notin DOMAIN script
      <4>1. PICK k \in DOMAIN n :
              i = Len(script) + k /\ script'[i] = n[k] /\ n[k] \in BlocksOf(n)
        BY <1>1, <3>5, Continued
      <4>2. n[k] = Own(e)
        BY <1>1, <1>4, <1>7, <4>1 DEF Text
      <4>3. k < l
        BY <1>1, <1>7, <3>1, <4>1
      <4>4. Rank(Own(e)) \in 0..9
        BY <1>1, OwnBlock, RanksOfTypes
      <4> QED BY <1>1, <3>2, <4>2, <4>3, <4>4 DEF Strict
    <3> QED BY <3>4, <3>5
  <2> QED BY <2>2, <2>3
<1>8. \A i, j \in DOMAIN script' : \A d, x \in rendered' :
        i < j /\ Text(script'[i], d) /\ Text(script'[j], x) => Before(d, x)
  BY <1>7
<1> QED BY <1>2, <1>5, <1>6, <1>8 DEF ScriptInv

LEMMA OmitKeepsScript ==
  ASSUME Inv, Walk, WrittenInv, NEW e \in pending, Visit(e), NEW n \in Seq(Blocks),
         \A b \in BlocksOf(n) : b.type \in Banner /\ b.def = {}, script' = script \o n,
         UNCHANGED rendered
  PROVE  ScriptInv'
<1>1. /\ UNCHANGED << given, model, opts >> /\ ScriptInv /\ script \in Seq(Blocks)
      /\ \A d \in rendered : d.type \in ArchiveObjectType
  BY VisitFacts DEF Visited, WellFormed, ArchiveEntry
<1>2. \A b, x : Text(b, x)' <=> Text(b, x)
  BY <1>1, ModelStays
<1>3. BlocksOf(script') = BlocksOf(script) \cup BlocksOf(n)
  BY <1>1, Continued
<1>4. \A b \in BlocksOf(n) : b.type \notin ArchiveObjectType
  BY DEF Banner, ArchiveObjectType, Kind
<1>5. ASSUME NEW i \in DOMAIN script', NEW j \in DOMAIN script', NEW d \in rendered,
             NEW x \in rendered, i < j, Text(script'[i], d), Text(script'[j], x)
      PROVE  Before(d, x)
  <2>1. j \in DOMAIN script
    BY <1>1, <1>4, <1>5, Continued DEF Text
  <2>2. i \in DOMAIN script /\ script'[i] = script[i] /\ script'[j] = script[j]
    BY <1>1, <1>5, <2>1, Continued
  <2> QED BY <1>1, <1>5, <2>1, <2>2 DEF ScriptInv
<1>6. /\ \A x \in rendered : \E b \in BlocksOf(script') : Text(b, x)
      /\ \A b \in BlocksOf(script') : IF b.type \in ArchiveObjectType
                                      THEN \E x \in rendered : Text(b, x) ELSE b.def = {}
  BY <1>1, <1>3, <1>4 DEF ScriptInv
<1>7. \A i, j \in DOMAIN script' : \A d, x \in rendered :
        i < j /\ Text(script'[i], d) /\ Text(script'[j], x) => Before(d, x)
  BY <1>5
<1> QED BY <1>2, <1>6, <1>7 DEF ScriptInv

\* Rows are read from the table that is there, which has been there all the
\* time if it lasts.
LEMMA VisitKeepsRows ==
  ASSUME Inv, Walk, WrittenInv, NEW e \in pending, Visit(e), NEW n, Adds(n, e),
         script' = script \o n
  PROVE  RowsInv'
<1>1. /\ e \in ArchiveEntry /\ UNCHANGED others /\ RowsInv
      /\ script \in Seq(Blocks) /\ n \in Seq(Blocks)
  BY VisitFacts DEF Adds
<1>2. lasting' = lasting /\ lasting \subseteq catalog /\ OneOfEach(catalog)
  BY <1>1 DEF others, Inv, TypeOK
<1>3. BlocksOf(script') = BlocksOf(script) \cup BlocksOf(n)
  BY <1>1, Continued
<1>4. ASSUME NEW b \in BlocksOf(n), NEW d \in lasting, b.type = "tableData",
             d.kind = "table", d.name = b.name
      PROVE  b.def = {d}
  <2>1. b = Own(e) /\ e.type = "tableData" /\ e.name = d.name
    <3>1. b.type \notin Due(dumpSectionPriority(e.type))
      BY <1>1, <1>4, DueBanners DEF Banner
    <3>2. b # SaveBlock /\ b # ResetBlock
      BY <1>4 DEF SaveBlock, ResetBlock, Block
    <3> QED BY <1>1, <1>4, <3>1, <3>2, OwnBlock DEF Adds
  <2>2. b.def = {c \in catalog : c.kind = "table" /\ c.name = d.name}
    BY <2>1 DEF Own, Block, Shown
  <2> QED BY <1>2, <1>4, <2>2 DEF OneOfEach
<1> QED BY <1>1, <1>2, <1>3, <1>4 DEF RowsInv

\* The time zone is saved in front of the first event and reset behind the last.
LEMMA RenderKeepsTimeZone ==
  ASSUME Inv, Walk, ReadInv, WrittenInv, NEW e \in pending, Visit(e), NEW n, Adds(n, e),
         script' = script \o n, rendered' = rendered \cup {e},
         e.type = "event" => e.name \in RenderableEventNames,
         isFirstEvent(e) => SaveBlock \in BlocksOf(n),
         isLastEvent(e) => ResetBlock \in BlocksOf(n)
  PROVE  TimeZoneInv'
<1>1. /\ e \in ArchiveEntry /\ UNCHANGED << given, model, opts >> /\ pending' = pending \ {e}
      /\ TimeZoneInv /\ script \in Seq(Blocks) /\ n \in Seq(Blocks) /\ Strict(n)
  BY VisitFacts DEF Adds
<1>2. /\ RenderableEventNames' = RenderableEventNames
      /\ \A x : (isFirstEvent(x)' <=> isFirstEvent(x)) /\ (isLastEvent(x)' <=> isLastEvent(x))
  BY <1>1, ModelStays
<1>3. BlocksOf(script') = BlocksOf(script) \cup BlocksOf(n)
  BY <1>1, Continued
<1>4. SaveBlock.type = "saveTimeZone" /\ ResetBlock.type = "resetTimeZone"
  BY DEF SaveBlock, ResetBlock, Block
<1>5. \A b \in BlocksOf(n) : /\ b.type = "saveTimeZone" => isFirstEvent(e)
                             /\ b.type = "resetTimeZone" => isLastEvent(e)
  <2>1. Own(e).type \notin {"saveTimeZone", "resetTimeZone"}
    BY <1>1, OwnBlock DEF ArchiveEntry, ArchiveObjectType, Kind
  <2> QED BY <1>1, <2>1, RanksOfABlock
<1>6. \A x : isFirstEvent(x) \/ isLastEvent(x) => x.type = "event"
  BY DEF isFirstEvent, isLastEvent
<1>7. Once(script', "saveTimeZone")
  <2>1. isFirstEvent(e) => \A b \in BlocksOf(script) : b.type # "saveTimeZone"
    BY <1>1, <1>6, EventTurn DEF TimeZoneInv
  <2> QED BY <1>1, <1>5, <2>1, StrictIsOnce, OnceTogether DEF TimeZoneInv
<1>8. Once(script', "resetTimeZone")
  <2>1. isLastEvent(e) => \A b \in BlocksOf(script) : b.type # "resetTimeZone"
    BY <1>1, <1>6, EventTurn DEF TimeZoneInv
  <2> QED BY <1>1, <1>5, <2>1, StrictIsOnce, OnceTogether DEF TimeZoneInv
<1>9. \A b \in BlocksOf(script') :
        /\ b.type = "saveTimeZone" => \E x \in rendered' : isFirstEvent(x)
        /\ b.type = "resetTimeZone" => \E x \in rendered' : isLastEvent(x)
  BY <1>1, <1>3, <1>5 DEF TimeZoneInv
<1>10. (\E x \in rendered' : x.type = "event") =>
         /\ \E b \in BlocksOf(script') : b.type = "saveTimeZone"
         /\ \/ \E b \in BlocksOf(script') : b.type = "resetTimeZone"
            \/ \E x \in pending' : x.type = "event" /\ x.name \in RenderableEventNames
  <2>1. CASE e.type = "event"
    BY <1>1, <1>3, <1>4, <2>1, EventTurn DEF TimeZoneInv
  <2>2. CASE e.type # "event"
    BY <1>1, <1>3, <2>2 DEF TimeZoneInv
  <2> QED BY <2>1, <2>2
<1> QED BY <1>2, <1>7, <1>8, <1>9, <1>10 DEF TimeZoneInv

LEMMA OmitKeepsTimeZone ==
  ASSUME Inv, Walk, WrittenInv, NEW e \in pending, Visit(e), NEW n \in Seq(Blocks),
         \A b \in BlocksOf(n) : b.type \in Banner, script' = script \o n, UNCHANGED rendered,
         e.type = "event" => e.name \notin RenderableEventNames
  PROVE  TimeZoneInv'
<1>1. /\ UNCHANGED << given, model, opts >> /\ pending' = pending \ {e}
      /\ TimeZoneInv /\ script \in Seq(Blocks)
  BY VisitFacts
<1>2. /\ RenderableEventNames' = RenderableEventNames
      /\ \A x : (isFirstEvent(x)' <=> isFirstEvent(x)) /\ (isLastEvent(x)' <=> isLastEvent(x))
  BY <1>1, ModelStays
<1>3. BlocksOf(script') = BlocksOf(script) \cup BlocksOf(n)
  BY <1>1, Continued
<1>4. \A b \in BlocksOf(n) : b.type # "saveTimeZone" /\ b.type # "resetTimeZone"
  BY DEF Banner
<1>5. Once(n, "saveTimeZone") /\ Once(n, "resetTimeZone")
  BY <1>4 DEF Once, BlocksOf
<1>6. Once(script', "saveTimeZone") /\ Once(script', "resetTimeZone")
  BY <1>1, <1>4, <1>5, OnceTogether DEF TimeZoneInv
<1> QED BY <1>1, <1>2, <1>3, <1>4, <1>6 DEF TimeZoneInv

LEMMA RenderEntryWritten ==
  ASSUME Inv, Walk, ReadInv, WrittenInv, NEW e \in pending, RenderEntry(e)
  PROVE  WrittenInv'
<1> DEFINE n == FlushedBy(e) \o EntryBlocks(e)
<1>1. /\ Visit(e) /\ phase' = "rendering" /\ rendered' = rendered \cup {e}
      /\ ~Missing(e) /\ ~Unsupported(e) /\ ~SkippedSilently(e)
      /\ e.type = "tableData" => Shown([kind |-> "table", name |-> e.name]) # {}
      /\ UNCHANGED << diagnostics, skipped >>
  BY DEF RenderEntry, Visit
<1>2. /\ e \in Planned /\ e \in ArchiveEntry /\ WellFormed(e) /\ pending' = pending \ {e}
      /\ UNCHANGED << given, others, model, opts >> /\ VisitInv /\ script \in Seq(Blocks)
  BY <1>1, VisitFacts
<1>3. /\ Adds(n, e) /\ Own(e) \in BlocksOf(n)
      /\ isFirstEvent(e) => SaveBlock \in BlocksOf(n)
      /\ isLastEvent(e) => ResetBlock \in BlocksOf(n)
  BY <1>2, RenderingAdds
<1>4. script' = script \o n
  <2>1. script' = (script \o FlushedBy(e)) \o EntryBlocks(e)
    BY DEF RenderEntry
  <2>2. FlushedBy(e) \in Seq(Blocks) /\ EntryBlocks(e) \in Seq(Blocks)
    BY <1>2, OmittingAdds, VisitBlocks DEF Adds
  <2> QED BY <1>2, <2>1, <2>2
<1> HIDE DEF n
<1>5. e.type = "event" => e.name \in RenderableEventNames
  BY <1>1, EventsInTheModel
<1>6. Text(Own(e), e)
  BY <1>1, <1>2, OwnIsText
<1>7. BannersInv' /\ LayoutInv' /\ ScriptInv' /\ RowsInv' /\ TimeZoneInv'
  BY <1>1, <1>3, <1>4, <1>5, <1>6, VisitKeepsBanners, VisitKeepsLayout, RenderKeepsScript,
     VisitKeepsRows, RenderKeepsTimeZone
<1>8. VisitInv'
  BY <1>1, <1>2, ModelStays DEF VisitInv, Visited
<1> QED BY <1>1, <1>7, <1>8 DEF WrittenInv, Introspecting

LEMMA OmitEntryWritten ==
  ASSUME Inv, Walk, ReadInv, WrittenInv, NEW e \in pending, OmitEntry(e)
  PROVE  WrittenInv'
<1> DEFINE n == FlushedBy(e)
<1>1. /\ Visit(e) /\ phase' = "rendering" /\ skipped' = skipped \cup {e}
      /\ UNCHANGED rendered /\ script' = script \o n
      /\ \/ (Missing(e) \/ Unsupported(e)) /\ opts.unsupportedFeaturePolicy = "warn-omit"
         \/ ~Missing(e) /\ SkippedSilently(e)
      /\ \A g \in diagnostics : g \in diagnostics'
  BY DEF OmitEntry, Visit
<1>2. /\ e \in Planned /\ e \in ArchiveEntry /\ pending' = pending \ {e}
      /\ UNCHANGED << given, others, model, opts >> /\ VisitInv
  BY <1>1, VisitFacts
<1>3. /\ Adds(n, e) /\ n \in Seq(Blocks)
      /\ \A b \in BlocksOf(n) :
           b.type \in Due(dumpSectionPriority(e.type)) /\ b.type \in Banner /\ b.def = {}
  BY <1>2, OmittingAdds, DueBanners DEF Adds
<1> HIDE DEF n
<1>4. e.type = "event" => e.name \notin RenderableEventNames
  BY <1>1, EventsInTheModel DEF Unsupported
<1>5. BannersInv' /\ LayoutInv' /\ ScriptInv' /\ RowsInv' /\ TimeZoneInv'
  BY <1>1, <1>3, <1>4, VisitKeepsBanners, VisitKeepsLayout, OmitKeepsScript, VisitKeepsRows,
     OmitKeepsTimeZone
<1>6. VisitInv'
  BY <1>1, <1>2, ModelStays DEF VisitInv, Visited
<1> QED BY <1>1, <1>5, <1>6 DEF WrittenInv, Introspecting

\* The plan is what is to be visited, and nothing is written yet.
LEMMA PlanWritten ==
  ASSUME Inv, WrittenInv, Plan
  PROVE  WrittenInv'
<1>1. CASE IsValid(Planned, foreignKeys)
  <2>1. /\ phase' = "rendering" /\ pending' = Planned /\ banners' = IncludedBanners
        /\ UNCHANGED << given, model, opts >> /\ rendered' = {} /\ skipped' = {} /\ script' = << >>
        /\ diagnostics' = diagnostics \cup
             {Diagnostic("trigger-table-not-selected", t) :
                t \in TriggersWithoutTable(database, normalized, opts)}
    BY <1>1 DEF Plan, Inv, WrittenInv, IncludedBanners, Planned
  <2>2. BlocksOf(script') = {} /\ DOMAIN script' = {}
    BY <2>1 DEF BlocksOf
  <2>3. VisitInv'
    <3>1. \A t \in TriggersWithoutTable(database, normalized, opts) :
            \E g \in diagnostics' : g.kind = "trigger" /\ g.name = t.name
      <4> SUFFICES ASSUME NEW t \in TriggersWithoutTable(database, normalized, opts)
                   PROVE  \E g \in diagnostics' : g.kind = "trigger" /\ g.name = t.name
        OBVIOUS
      <4>1. t.kind = "trigger"
        BY DEF TriggersWithoutTable, SelectedTriggers
      <4>2. Diagnostic("trigger-table-not-selected", t) \in diagnostics'
        BY <2>1
      <4>3. /\ Diagnostic("trigger-table-not-selected", t).kind = "trigger"
            /\ Diagnostic("trigger-table-not-selected", t).name = t.name
        BY <4>1 DEF Diagnostic
      <4> QED BY <4>2, <4>3
    <3> QED BY <2>1, <3>1, ModelStays DEF VisitInv, Visited
  <2>4. ScriptInv' /\ RowsInv' /\ LayoutInv'
    BY <2>1, <2>2 DEF ScriptInv, RowsInv, LayoutInv
  <2>5. BannersInv'
    <3>1. IncludedBanners' = IncludedBanners
      BY <2>1, ModelStays
    <3> QED BY <2>1, <2>2, <3>1 DEF BannersInv, Once
  <2>6. TimeZoneInv'
    BY <2>1, <2>2 DEF TimeZoneInv, Once
  <2> QED BY <2>1, <2>3, <2>4, <2>5, <2>6 DEF WrittenInv, Introspecting
<1>2. CASE ~IsValid(Planned, foreignKeys)
  <2>1. phase' = "rejected"
    BY <1>2 DEF Plan, Planned
  <2> QED BY <2>1 DEF WrittenInv, Introspecting
<1> QED BY <1>1, <1>2

\* The banners left over are those of sections without an entry.
LEMMA CompleteWritten ==
  ASSUME Inv, WrittenInv, Complete
  PROVE  WrittenInv'
<1> DEFINE n == Flushed(banners)
<1>1. /\ phase = "rendering" /\ phase' = "completed" /\ pending = {} /\ pending' = {}
      /\ banners' = {} /\ script' = script \o n
      /\ UNCHANGED << given, others, model, opts, rendered, skipped, diagnostics >>
  BY DEF Complete
<1>2. /\ banners \subseteq Banner /\ script \in Seq(Blocks)
      /\ VisitInv /\ ScriptInv /\ RowsInv /\ BannersInv /\ TimeZoneInv /\ LayoutInv
  BY <1>1, RenderingTypes DEF WrittenInv, Banner
<1>3. /\ n \in Seq(Blocks) /\ Strict(n) /\ \A b \in BlocksOf(n) : b.type \in banners /\ b.def = {}
      /\ \A type \in banners : \E b \in BlocksOf(n) : b.type = type
  BY <1>2, FlushedBlocks
<1> HIDE DEF n
<1>4. /\ BlocksOf(script') = BlocksOf(script) \cup BlocksOf(n)
      /\ \A b \in BlocksOf(n) : b.type \in Banner
  BY <1>1, <1>2, <1>3, Continued
<1>5. VisitInv'
  BY <1>1, <1>2, ModelStays DEF VisitInv, Visited
<1>6. ScriptInv'
  <2>1. \A b, x : Text(b, x)' <=> Text(b, x)
    BY <1>1, ModelStays
  <2>2. \A b \in BlocksOf(n) : b.type \notin ArchiveObjectType
    BY <1>4 DEF Banner, ArchiveObjectType, Kind
  <2>3. \A d \in rendered : d.type \in ArchiveObjectType
    BY RenderingTypes DEF ArchiveEntry
  <2>4. ASSUME NEW i \in DOMAIN script', NEW j \in DOMAIN script', NEW d \in rendered,
               NEW x \in rendered, i < j, Text(script'[i], d), Text(script'[j], x)
        PROVE  Before(d, x)
    <3>1. j \in DOMAIN script
      <4>1. script'[j].type \in ArchiveObjectType
        BY <2>3, <2>4 DEF Text
      <4>2. \A k \in DOMAIN script' \ DOMAIN script : script'[k] \in BlocksOf(n)
        BY <1>1, <1>2, <1>3, Continued
      <4> QED BY <2>2, <4>1, <4>2
    <3>2. i \in DOMAIN script /\ script'[i] = script[i] /\ script'[j] = script[j]
      BY <1>1, <1>2, <1>3, <2>4, <3>1, Continued
    <3> QED BY <1>2, <2>4, <3>1, <3>2 DEF ScriptInv
  <2>5. /\ \A x \in rendered : \E b \in BlocksOf(script') : Text(b, x)
        /\ \A b \in BlocksOf(script') : IF b.type \in ArchiveObjectType
                                        THEN \E x \in rendered : Text(b, x) ELSE b.def = {}
    BY <1>2, <1>3, <1>4, <2>2 DEF ScriptInv
  <2>6. \A i, j \in DOMAIN script' : \A d, x \in rendered :
          i < j /\ Text(script'[i], d) /\ Text(script'[j], x) => Before(d, x)
    BY <2>4
  <2> QED BY <1>1, <2>1, <2>5, <2>6 DEF ScriptInv
<1>7. RowsInv'
  <2>1. \A b \in BlocksOf(n) : b.type # "tableData"
    BY <1>4 DEF Banner
  <2> QED BY <1>1, <1>2, <1>4, <2>1 DEF RowsInv, others
<1>8. \A type \in banners : \A b \in BlocksOf(script) : b.type # type
  <2>1. \A b \in BlocksOf(script) : /\ Rank(b) = 2 <=> b.type = "eventsBanner"
                                    /\ Rank(b) = 6 <=> b.type = "routinesBanner"
    BY <1>2, BlocksAreTyped, RanksOfTypes
  <2> QED BY <1>2, <2>1 DEF BannersInv, Banner
<1>9. BannersInv'
  <2>1. IncludedBanners' = IncludedBanners
    BY <1>1, ModelStays
  <2>2. \A type \in Banner : Once(script', type)
    <3> SUFFICES ASSUME NEW type \in Banner PROVE Once(script', type)
      OBVIOUS
    <3>1. Once(script, type) /\ Once(n, type)
      BY <1>2, <1>3, StrictIsOnce DEF BannersInv
    <3> QED BY <1>1, <1>2, <1>3, <1>8, <3>1, OnceTogether
  <2>3. \A type \in Banner :
          type \in IncludedBanners <=> \E b \in BlocksOf(script') : b.type = type
    BY <1>2, <1>3, <1>4 DEF BannersInv
  <2> QED BY <1>1, <2>1, <2>2, <2>3 DEF BannersInv
<1>10. TimeZoneInv'
  <2>1. /\ RenderableEventNames' = RenderableEventNames
        /\ \A x : (isFirstEvent(x)' <=> isFirstEvent(x)) /\ (isLastEvent(x)' <=> isLastEvent(x))
    BY <1>1, ModelStays
  <2>2. \A b \in BlocksOf(n) : b.type # "saveTimeZone" /\ b.type # "resetTimeZone"
    BY <1>4 DEF Banner
  <2>3. Once(script', "saveTimeZone") /\ Once(script', "resetTimeZone")
    BY <1>1, <1>2, <1>3, <2>2, StrictIsOnce, OnceTogether DEF TimeZoneInv
  <2> QED BY <1>1, <1>2, <1>4, <2>1, <2>2, <2>3 DEF TimeZoneInv
<1>11. LayoutInv'
  <2>1. ASSUME NEW a \in BlocksOf(script), NEW b \in BlocksOf(n)
        PROVE  Rank(a) <= Rank(b)
    <3>1. a \in Blocks /\ b \in Blocks /\ b.type \in banners /\ b.type \in Banner
      BY <1>2, <1>3, <1>4, BlocksAreTyped
    <3>2. /\ Rank(a) \in 0..9 /\ Rank(b) \in 0..9
          /\ b.type = "eventsBanner" => Rank(b) = 2
          /\ b.type = "routinesBanner" => Rank(b) = 6
      BY <3>1, RanksOfTypes
    <3> QED BY <1>2, <3>1, <3>2 DEF BannersInv, Banner
  <2> QED BY <1>1, <1>2, <1>3, <2>1, LayoutTogether DEF LayoutInv
<1> QED BY <1>1, <1>5, <1>6, <1>7, <1>9, <1>10, <1>11 DEF WrittenInv, Introspecting

\* The other sessions change what lasts, which is about rows only.
LEMMA OtherSessionWritten ==
  ASSUME WrittenInv, OtherSession
  PROVE  WrittenInv'
<1>1. PICK after : Ddl(after)
  BY DEF OtherSession, DropObject, DefineObject
<1>2. /\ phase' = phase /\ lasting' \subseteq lasting /\ pending' = pending
      /\ rendered' = rendered /\ skipped' = skipped /\ script' = script /\ banners' = banners
      /\ UNCHANGED << given, model, opts >> /\ diagnostics' = diagnostics
  BY <1>1 DEF Ddl, OtherSession, renderVars
<1> HIDE DEF OtherSession
<1>3. SUFFICES ASSUME phase \in {"rendering", "completed"},
                      VisitInv, ScriptInv, RowsInv, BannersInv, TimeZoneInv, LayoutInv
               PROVE  (VisitInv /\ ScriptInv /\ RowsInv /\ BannersInv /\ TimeZoneInv /\ LayoutInv)'
  BY <1>2 DEF WrittenInv
<1>4. VisitInv' /\ ScriptInv' /\ BannersInv' /\ TimeZoneInv' /\ LayoutInv'
  BY <1>2, <1>3, ModelStays DEF VisitInv, Visited, ScriptInv, BannersInv, TimeZoneInv, LayoutInv
<1>5. RowsInv'
  BY <1>2, <1>3 DEF RowsInv
<1> QED BY <1>4, <1>5

LEMMA WrittenNext ==
  ASSUME Inv, Walk, ReadInv, WrittenInv, [Next]_vars
  PROVE  WrittenInv'
<1>1. CASE Introspect /\ NotRendering
  <2>1. /\ phase \in Introspecting
        /\ phase' \in Introspecting \cup {"assembled", "rejected"} /\ UNCHANGED script
    BY <1>1 DEF Introspect, ReadServer, QueryTables, ShowCreate, QueryViews, QueryForeignKeys,
                QueryRoutines, QueryTriggers, QueryEvents, Assemble, IntrospectionFails,
                NotRendering, renderVars, Introspecting
  <2> QED BY <2>1 DEF WrittenInv, Introspecting
<1>2. CASE Plan
  BY <1>2, PlanWritten
<1>3. CASE Render
  <2>1. CASE \E e \in pending : TableIsGone(e) \/ RefuseEntry(e)
    BY <2>1 DEF TableIsGone, RefuseEntry, WrittenInv, Introspecting
  <2>2. CASE RenderingFails
    BY <2>2 DEF RenderingFails, WrittenInv, Introspecting
  <2> QED BY <1>3, <2>1, <2>2, RenderEntryWritten, OmitEntryWritten, CompleteWritten DEF Render
<1>4. CASE OtherSession
  BY <1>4, OtherSessionWritten
<1>5. CASE UNCHANGED vars
  <2>1. /\ phase' = phase /\ lasting' = lasting /\ pending' = pending
        /\ rendered' = rendered /\ skipped' = skipped /\ script' = script /\ banners' = banners
        /\ UNCHANGED << given, model, opts >> /\ diagnostics' = diagnostics
    BY <1>5 DEF vars, introspectionVars, renderVars, given
  <2>2. SUFFICES ASSUME phase \in {"rendering", "completed"},
                        VisitInv, ScriptInv, RowsInv, BannersInv, TimeZoneInv, LayoutInv
                 PROVE  (VisitInv /\ ScriptInv /\ RowsInv /\ BannersInv /\ TimeZoneInv
                           /\ LayoutInv)'
    BY <2>1 DEF WrittenInv
  <2>3. VisitInv' /\ ScriptInv' /\ BannersInv' /\ TimeZoneInv' /\ LayoutInv' /\ RowsInv'
    BY <2>1, <2>2, ModelStays
       DEF VisitInv, Visited, ScriptInv, BannersInv, TimeZoneInv, LayoutInv, RowsInv
  <2> QED BY <2>3
<1> QED BY <1>1, <1>2, <1>3, <1>4, <1>5 DEF Next, NotRendering

\* The whole inductive invariant.
DumpInv == Inv /\ Walk /\ ReadInv /\ WrittenInv

LEMMA DumpInvIsInvariant == Spec => []DumpInv
<1>1. Init => DumpInv
  <2>1. Init => Walk /\ WrittenInv
    BY DEF Init, IntrospectionInit, Walk, WrittenInv
  <2> QED BY <2>1, InitInv, ReadInitially DEF DumpInv
<1>2. DumpInv /\ [Next]_vars => DumpInv'
  BY NextInv, ReadNext, WrittenNext DEF DumpInv
<1> QED BY <1>1, <1>2, PTL DEF Spec

-----------------------------------------------------------------------------
(* Complete dumps *)

\* The places of a script at which something stands are none, one or more.
LEMMA Counting ==
  ASSUME script \in Seq(Blocks), NEW S \in SUBSET DOMAIN script
  PROVE  /\ Cardinality(S) > 0 <=> S # {}
         /\ S = {} => Cardinality(S) = 0
         /\ S # {} /\ (\A i, j \in S : i = j) => Cardinality(S) = 1
<1>1. IsFiniteSet(S)
  <2>1. DOMAIN script = 1..Len(script) /\ Len(script) \in Nat
    OBVIOUS
  <2>2. IsFiniteSet(1..Len(script))
    BY <2>1, FS_Interval
  <2> QED BY <2>1, <2>2, FS_Subset
<1>2. Cardinality(S) \in Nat /\ (Cardinality(S) = 0 <=> S = {})
  BY <1>1, FS_CardinalityType, FS_EmptySet
<1>3. ASSUME S # {}, \A i, j \in S : i = j
      PROVE  Cardinality(S) = 1
  <2>1. PICK i \in S : S = {i}
    BY <1>3
  <2> QED BY <2>1, FS_Singleton
<1> QED BY <1>2, <1>3

LEMMA TimesOfAType ==
  ASSUME script \in Seq(Blocks), NEW type
  PROVE  /\ Times(type) > 0 <=> \E b \in BlocksOf(script) : b.type = type
         /\ Once(script, type) => Times(type) = OneIf(\E b \in BlocksOf(script) : b.type = type)
<1> DEFINE S == {i \in DOMAIN script : script[i].type = type}
<1>1. S # {} <=> \E b \in BlocksOf(script) : b.type = type
  BY DEF BlocksOf
<1>2. Once(script, type) => \A i, j \in S : i = j
  BY DEF Once
<1>3. Times(type) = Cardinality(S) /\ S \in SUBSET DOMAIN script
  BY DEF Times
<1> HIDE DEF S
<1> QED BY <1>1, <1>2, <1>3, Counting DEF OneIf

\* What the invariant says of a dump that has completed.
LEMMA Completed ==
  ASSUME DumpInv, phase = "completed"
  PROVE  /\ rendered \cup skipped = Planned /\ banners = {} /\ pending = {} /\ todo = {}
         /\ ListedKinds = {"table", "view", "function", "procedure", "trigger"}
                            \cup (IF server.supportsEvents THEN {"event"} ELSE {})
         /\ VisitInv /\ ScriptInv /\ RowsInv /\ BannersInv /\ TimeZoneInv /\ LayoutInv
         /\ script \in Seq(Blocks)
         /\ \A e \in rendered : e \in Planned /\ WellFormed(e) /\ e.type \in ArchiveObjectType
<1>1. /\ VisitInv /\ ScriptInv /\ RowsInv /\ BannersInv /\ TimeZoneInv /\ LayoutInv
      /\ banners = {} /\ pending = {}
  BY DEF DumpInv, WrittenInv
<1>2. rendered \cup skipped = Planned
  BY <1>1 DEF VisitInv, Visited
<1>3. todo = {} /\ script \in Seq(Blocks)
  BY RenderingTypes DEF DumpInv, ReadInv, Final
<1>4. ListedKinds = {"table", "view", "function", "procedure", "trigger"}
                      \cup (IF server.supportsEvents THEN {"event"} ELSE {})
  BY DEF ListedKinds, Final
<1>5. \A e \in rendered : WellFormed(e) /\ e.type \in ArchiveObjectType
  BY DEF DumpInv, Walk, WellFormed, ArchiveEntry
<1> QED BY <1>1, <1>2, <1>3, <1>4, <1>5

\* The blocks of every complete dump stand in the order of mysqldump, with the
\* banner of each section the caller includes, and one pair of time zone
\* statements around the events when any event was written.
THEOREM LayoutIsMysqldumps == Spec => []LaidOutAsMysqldump
<1>1. DumpInv => LaidOutAsMysqldump
  <2>1. SUFFICES ASSUME DumpInv, phase = "completed"
                 PROVE  LaidOutAsMysqldump
    BY DEF LaidOutAsMysqldump
  <2>2. BannersInv /\ TimeZoneInv /\ LayoutInv /\ ScriptInv /\ script \in Seq(Blocks)
        /\ banners = {} /\ pending = {}
    BY <2>1, Completed
  <2>3. \A i, j \in DOMAIN script :
          i < j => LayoutRank(script[i].type) <= LayoutRank(script[j].type)
    BY <2>2 DEF LayoutInv, Rank
  <2>4. \A type \in Banner : Times(type) = OneIf(type \in IncludedBanners)
    <3> SUFFICES ASSUME NEW type \in Banner
                 PROVE  Times(type) = OneIf(type \in IncludedBanners)
      OBVIOUS
    <3>1. Times(type) = OneIf(\E b \in BlocksOf(script) : b.type = type)
      BY <2>2, TimesOfAType DEF BannersInv
    <3>2. type \in IncludedBanners <=> \E b \in BlocksOf(script) : b.type = type
      BY <2>2 DEF BannersInv
    <3> QED BY <3>1, <3>2 DEF OneIf
  <2>5. /\ "eventsBanner" \in IncludedBanners <=> opts.includeEvents
        /\ "routinesBanner" \in IncludedBanners <=> opts.includeRoutines
    BY DEF IncludedBanners
  <2>6. (\E e \in rendered : e.type = "event")
          <=> \E b \in BlocksOf(script) : b.type = "event"
    BY <2>2 DEF ScriptInv, Text, ArchiveObjectType, Kind
  <2>7. \A e : isFirstEvent(e) \/ isLastEvent(e) => e.type = "event"
    BY DEF isFirstEvent, isLastEvent
  <2>8. \A type \in {"saveTimeZone", "resetTimeZone"} :
          (\E b \in BlocksOf(script) : b.type = type) <=> \E e \in rendered : e.type = "event"
    BY <2>2, <2>7 DEF TimeZoneInv
  <2>9. \A type \in {"saveTimeZone", "resetTimeZone"} :
          Times(type) = OneIf(\E b \in BlocksOf(script) : b.type = type)
    BY <2>2, TimesOfAType DEF TimeZoneInv
  <2>10. Times("event") > 0 <=> \E e \in rendered : e.type = "event"
    BY <2>2, <2>6, TimesOfAType
  <2>11. \A type \in {"saveTimeZone", "resetTimeZone"} :
           Times(type) = OneIf(Times("event") > 0)
    BY <2>8, <2>9, <2>10 DEF OneIf
  <2> QED BY <2>3, <2>4, <2>5, <2>11 DEF LaidOutAsMysqldump, Banner, OneIf
<1> QED BY <1>1, DumpInvIsInvariant, PTL

\* The block of an entry is at one place, behind those of the entries before it.
LEMMA PlacesInOrder ==
  ASSUME DumpInv, phase = "completed", NEW i \in DOMAIN script, NEW j \in DOMAIN script,
         NEW e \in rendered, NEW f \in rendered, Text(script[i], e), Text(script[j], f)
  PROVE  /\ e = f => i = j
         /\ Before(f, e) => j < i
<1>1. /\ e \in ArchiveEntry /\ f \in ArchiveEntry /\ ScriptInv /\ script \in Seq(Blocks)
  BY Completed DEF WellFormed
<1>2. i < j => Before(e, f)
  BY <1>1 DEF ScriptInv
<1>3. j < i => Before(f, e)
  BY <1>1 DEF ScriptInv
<1>4. i = j \/ i < j \/ j < i
  BY <1>1
<1>5. ~Before(e, e) /\ (Before(e, f) => ~Before(f, e))
  BY <1>1, OrderIsStrict
<1>6. i = j => e = f
  BY <1>1, Completed, EntryByName DEF Text, DumpInv
<1> QED BY <1>2, <1>3, <1>4, <1>5, <1>6

LEMMA PlaceOfAnEntry ==
  ASSUME DumpInv, phase = "completed"
  PROVE  /\ \A e \in rendered : \E i \in DOMAIN script : Text(script[i], e)
         /\ \A i \in DOMAIN script :
              IF script[i].type \in ArchiveObjectType
              THEN \E e \in rendered : Text(script[i], e) ELSE script[i].def = {}
BY Completed DEF ScriptInv, BlocksOf

\* A definition written is one of the object that was read under the entry's
\* name.
LEMMA DefinitionWritten ==
  ASSUME DumpInv, phase = "completed", NEW e \in rendered, NEW b, Text(b, e),
         b.type \in Kind, NEW d \in b.def
  PROVE  /\ d.name = e.name /\ d.kind \in MapKinds(e.type) /\ d \in Definitions /\ ~Hidden(d)
         /\ \E o \in model : SameObject(o, d) /\ o.name = e.name /\ Known(o)
<1>1. d \in CreateSql(e)
  BY DEF Text
<1>2. PICK o \in Got(e) : d \in o.createSql
  BY <1>1 DEF CreateSql
<1>3. o \in model /\ o.kind \in MapKinds(e.type) /\ o.name = e.name
  BY <1>2 DEF Got, Named
<1>4. ShownAsItWas(o) /\ Known(o)
  BY <1>3 DEF DumpInv, ReadInv
<1>5. d \in Definitions /\ SameObject(o, d) /\ ~Hidden(o)
  BY <1>2, <1>4 DEF ShownAsItWas
<1> QED BY <1>3, <1>4, <1>5 DEF SameObject, Hidden

\* With no twins among the routines, an entry is of the kind that was read.
LEMMA ReadOfItsKind ==
  ASSUME NoTwins, DumpInv, phase = "completed", NEW e \in Planned, e.type \in Kind
  PROVE  Got(e) = {o \in model : o.kind = e.type /\ o.name = e.name}
<1>1. CASE e.type \notin {"function", "procedure"}
  <2>1. Named(e) = {o \in model : o.kind = e.type /\ o.name = e.name}
    BY <1>1 DEF Named, MapKinds, Kind
  <2> QED BY <1>1, <2>1 DEF Got
<1>2. CASE e.type \in {"function", "procedure"}
  <2>1. e.name \in NamesOf(database, e.type, "routines", normalized)
    BY <1>2, WhyPlanned DEF Planned
  <2>2. PICK x \in model : x.kind = e.type /\ x.name = e.name
    BY <2>1 DEF NamesOf, database
  <2>3. \A o \in model : \E c \in Definitions : c.kind = o.kind /\ c.name = o.name
    BY DEF DumpInv, ReadInv, Known, SameObject
  <2>4. Named(e) = {o \in model : o.kind \in {"function", "procedure"} /\ o.name = e.name}
    BY <1>2 DEF Named, MapKinds
  <2>5. \A o \in Named(e) : o.kind = e.type
    <3> SUFFICES ASSUME NEW o \in Named(e) PROVE o.kind = e.type
      OBVIOUS
    <3>1. PICK c \in Definitions : c.kind = o.kind /\ c.name = o.name
      BY <2>3, <2>4
    <3>2. PICK y \in Definitions : y.kind = e.type /\ y.name = e.name
      BY <2>2, <2>3
    <3> QED BY <1>2, <2>4, <3>1, <3>2 DEF NoTwins
  <2> QED BY <1>2, <2>4, <2>5 DEF Got
<1> QED BY <1>1, <1>2

\* The table of a trigger that lasted has an entry when the caller chose it.
LEMMA TablesWithEntries ==
  ASSUME DumpInv, phase = "completed", NEW d \in lasting, d.kind = "trigger", wantsSchema(opts)
  PROVE  HasTable(d) <=> d.table \in TableEntryNames(database, normalized, opts)
<1>1. /\ ReadAsItIs(d) /\ todo = {} /\ "table" \in ListedKinds /\ d \in catalog
      /\ TriggersHaveTables(catalog)
  BY Completed DEF DumpInv, ReadInv, Inv, TypeOK
<1>2. \A t : t.kind = "table" /\ t.name = d.table =>
        (Chosen(t) <=> IsSelected("tables", d.table, normalized))
  <2> SUFFICES ASSUME NEW t, t.kind = "table", t.name = d.table
               PROVE  Chosen(t) <=> IsSelected("tables", d.table, normalized)
    OBVIOUS
  <2> QED BY SelectionIsByName DEF ObjectSelected, ClassOf, Kind
<1>3. PICK t \in catalog : t.kind = "table" /\ t.name = d.table
  BY <1>1 DEF TriggersHaveTables
<1>4. HasTable(d) <=> opts.includeTables /\ IsSelected("tables", d.table, normalized)
  BY <1>2, <1>3 DEF HasTable
<1>5. IsSelected("tables", d.table, normalized) =>
        \E o \in model : o.kind = "table" /\ o.name = d.table
  BY <1>1 DEF ReadAsItIs
<1> QED BY <1>4, <1>5 DEF TableEntryNames, SelectedTables, NamesOf, database

\* An object that lasted, was asked for and has its table has an entry.
LEMMA AskedForIsPlanned ==
  ASSUME DumpInv, phase = "completed", NEW d \in lasting, AskedFor(d), HasTable(d)
  PROVE  \E e \in Planned : e.type = d.kind /\ e.name = d.name
<1>1. ObjectSelected(d) /\ wantsSchema(opts) /\ IncludedKind(d.kind) /\ d.kind \in Kind
  BY SelectionIsByName DEF AskedFor, wantsSchema
<1>2. d.kind \in ListedKinds
  BY <1>1, Completed DEF Kind, IncludedKind
<1>3. ReadAsItIs(d) /\ todo = {}
  BY Completed DEF DumpInv, ReadInv
<1>4. PICK o \in model : SameObject(o, d) /\ o.table = d.table
  BY <1>1, <1>2, <1>3 DEF ReadAsItIs
<1>5. o.kind = d.kind /\ o.name = d.name /\ o \in database.objects
  BY <1>4 DEF SameObject, database
<1>6. \A kind, class : d.kind = kind /\ ClassOf[kind] = class =>
        d.name \in NamesOf(database, kind, class, normalized)
  BY <1>1, <1>5 DEF NamesOf, ObjectSelected
<1>7. CASE d.kind = "table"
  <2>1. d.name \in TableEntryNames(database, normalized, opts)
    BY <1>1, <1>6, <1>7 DEF TableEntryNames, SelectedTables, IncludedKind, ClassOf
  <2>2. Entry("table", d.name) \in Planned
    BY <2>1 DEF Planned, Entries, TableEntries
  <2> QED BY <1>7, <2>2 DEF Entry
<1>8. CASE d.kind = "view"
  <2>1. d.name \in SelectedViews(database, normalized, opts)
    BY <1>1, <1>6, <1>8 DEF SelectedViews, IncludedKind, ClassOf
  <2>2. Entry("view", d.name) \in Planned
    BY <1>1, <2>1 DEF Planned, Entries, ViewEntries
  <2> QED BY <1>8, <2>2 DEF Entry
<1>9. CASE d.kind = "event"
  <2>1. Entry("event", d.name) \in Planned
    BY <1>1, <1>6, <1>9 DEF Planned, Entries, EventEntries, IncludedKind, ClassOf
  <2> QED BY <1>9, <2>1 DEF Entry
<1>10. CASE d.kind \in {"function", "procedure"}
  <2>1. Entry(d.kind, d.name) \in Planned
    BY <1>1, <1>6, <1>10 DEF Planned, Entries, RoutineEntries, IncludedKind, ClassOf
  <2> QED BY <2>1 DEF Entry
<1>11. CASE d.kind = "trigger"
  <2>1. o \in SelectedTriggers(database, normalized, opts)
    BY <1>1, <1>5, <1>11 DEF SelectedTriggers, IncludedKind, ClassOf, ObjectSelected
  <2>2. o.table \in TableEntryNames(database, normalized, opts)
    BY <1>1, <1>3, <1>4, <1>11, TablesWithEntries DEF HasTable
  <2>3. TriggerEntry(o) \in Planned
    BY <2>1, <2>2 DEF Planned, Entries, TriggerEntries
  <2>4. TriggerEntry(o).type = d.kind /\ TriggerEntry(o).name = d.name
    BY <1>5, <1>11 DEF TriggerEntry
  <2> QED BY <2>3, <2>4
<1> QED BY <1>1, <1>7, <1>8, <1>9, <1>10, <1>11 DEF Kind

\* A definition that was read is written, once.
LEMMA WrittenOnce ==
  ASSUME NoTwins, DumpInv, phase = "completed", NEW d \in lasting,
         AskedFor(d), HasTable(d), ~Hidden(d)
  PROVE  TimesWritten(d.kind, d) = 1
<1> DEFINE S == {i \in DOMAIN script : script[i].type = d.kind /\ script[i].def = {d}}
<1>1. PICK e \in Planned : e.type = d.kind /\ e.name = d.name
  BY AskedForIsPlanned
<1>2. d.kind \in Kind /\ ReadAsItIs(d) /\ todo = {} /\ ObjectSelected(d)
  BY Completed, SelectionIsByName DEF DumpInv, ReadInv, AskedFor
<1>3. Got(e) = {o \in model : SameObject(o, d)}
  BY <1>1, <1>2, ReadOfItsKind DEF SameObject
<1>4. \A o \in Got(e) : o.createSql = {d}
  <2>1. \A o : SameObject(o, d) => ~Hidden(o)
    BY DEF SameObject, Hidden
  <2> QED BY <1>2, <1>3, <2>1 DEF ReadAsItIs
<1>5. \E o \in Got(e) : TRUE
  <2>1. d.kind \in ListedKinds
    BY <1>2, Completed DEF Kind, AskedFor, IncludedKind
  <2> QED BY <1>2, <1>3, <2>1 DEF ReadAsItIs
<1>6. CreateSql(e) = {d} /\ Got(e) # {}
  BY <1>4, <1>5 DEF CreateSql
<1>7. e \in rendered
  <2>1. ~Missing(e) /\ ~Unsupported(e) /\ ~SkippedSilently(e)
    BY <1>6 DEF Missing, Unsupported, SkippedSilently
  <2> QED BY <2>1, Completed DEF VisitInv
<1>8. S # {}
  <2>1. PICK i \in DOMAIN script : Text(script[i], e)
    BY <1>7, PlaceOfAnEntry
  <2>2. script[i].type = d.kind /\ script[i].def = {d}
    BY <1>1, <1>2, <1>6, <2>1 DEF Text
  <2> QED BY <2>2
<1>9. \A i, j \in S : i = j
  <2> SUFFICES ASSUME NEW i \in S, NEW j \in S PROVE i = j
    OBVIOUS
  <2>1. \A k \in S : Text(script[k], e)
    <3> SUFFICES ASSUME NEW k \in S PROVE Text(script[k], e)
      OBVIOUS
    <3>1. PICK f \in rendered : Text(script[k], f)
      BY <1>2, PlaceOfAnEntry DEF ArchiveObjectType
    <3>2. d.name = f.name
      BY <1>2, <3>1, DefinitionWritten
    <3>3. f = e
      BY <1>1, <3>1, <3>2, Completed, EntryByName DEF Text, DumpInv
    <3> QED BY <3>1, <3>3
  <2> QED BY <1>7, <2>1, PlacesInOrder
<1>10. Cardinality(S) = 1
  <2> HIDE DEF S
  <2>1. S \in SUBSET DOMAIN script
    BY DEF S
  <2> QED BY <1>8, <1>9, <2>1, Completed, Counting
<1> QED BY <1>10 DEF TimesWritten

\* One that was not, or whose table is left out, is reported instead.
LEMMA LeftOutIsReported ==
  ASSUME DumpInv, phase = "completed", NEW d \in lasting, AskedFor(d),
         Hidden(d) \/ ~HasTable(d)
  PROVE  TimesWritten(d.kind, d) = 0 /\ Reported(d)
<1> DEFINE S == {i \in DOMAIN script : script[i].type = d.kind /\ script[i].def = {d}}
<1>1. /\ d.kind \in Kind /\ ReadAsItIs(d) /\ todo = {} /\ ObjectSelected(d)
      /\ wantsSchema(opts) /\ IncludedKind(d.kind)
  BY Completed, SelectionIsByName DEF DumpInv, ReadInv, AskedFor, wantsSchema
<1>2. PICK o \in model : SameObject(o, d) /\ o.table = d.table
  <2>1. d.kind \in ListedKinds
    BY <1>1, Completed DEF Kind, IncludedKind
  <2> QED BY <1>1, <2>1 DEF ReadAsItIs
<1>3. S = {}
  <2> SUFFICES ASSUME NEW i \in S PROVE FALSE
    OBVIOUS
  <2>1. PICK e \in rendered : Text(script[i], e)
    BY <1>1, PlaceOfAnEntry DEF ArchiveObjectType
  <2>2. ~Hidden(d) /\ d.name = e.name
    BY <1>1, <2>1, DefinitionWritten
  <2>3. d.kind = "trigger" /\ e.type = "trigger"
    BY <2>1, <2>2 DEF HasTable, Text
  <2>4. PICK t \in SelectedTriggers(database, normalized, opts) :
          e = TriggerEntry(t) /\ t.table \in TableEntryNames(database, normalized, opts)
    BY <2>1, <2>3, Completed, WhyPlanned DEF Planned
  <2>5. t \in model /\ SameObject(t, d)
    BY <2>2, <2>3, <2>4 DEF SelectedTriggers, database, TriggerEntry, SameObject
  <2>6. t.table = d.table
    BY <1>1, <2>5 DEF ReadAsItIs
  <2> QED BY <1>1, <2>2, <2>3, <2>4, <2>6, TablesWithEntries
<1>4. TimesWritten(d.kind, d) = 0
  <2>1. Cardinality(S) = 0
    <3> HIDE DEF S
    <3>1. S \in SUBSET DOMAIN script
      BY <1>3
    <3> QED BY <1>3, <3>1, Completed, Counting
  <2> QED BY <2>1 DEF TimesWritten
<1>5. \E g \in diagnostics : g.kind = d.kind /\ g.name = d.name
  <2>1. CASE Hidden(d)
    <3>1. ShownAsItWas(o) /\ Hidden(o)
      BY <1>2, <2>1 DEF DumpInv, ReadInv, SameObject, Hidden
    <3> QED BY <1>2, <3>1 DEF ShownAsItWas, SameObject
  <2>2. CASE ~HasTable(d)
    <3>1. d.kind = "trigger"
      BY <2>2 DEF HasTable
    <3>2. o \in SelectedTriggers(database, normalized, opts)
      BY <1>1, <1>2, <3>1
         DEF SelectedTriggers, IncludedKind, ClassOf, ObjectSelected, SameObject, database
    <3>3. o \in TriggersWithoutTable(database, normalized, opts)
      BY <1>1, <1>2, <2>2, <3>1, <3>2, TablesWithEntries DEF TriggersWithoutTable
    <3> QED BY <1>2, <3>1, <3>3, Completed DEF VisitInv, SameObject
  <2> QED BY <2>1, <2>2
<1>6. d.kind # "sequence"
  BY <1>1 DEF Kind
<1> QED BY <1>4, <1>5, <1>6 DEF Reported

\* Rows asked for are written, once, and they are the table's.
LEMMA RowsWrittenOnce ==
  ASSUME DumpInv, phase = "completed", NEW d \in lasting, RowsAskedFor(d)
  PROVE  TimesWritten("tableData", d) = 1
<1> DEFINE S == {i \in DOMAIN script : script[i].type = "tableData" /\ script[i].def = {d}}
           e == DataEntry(d.name)
<1>1. /\ d.kind = "table" /\ ObjectSelected(d) /\ wantsData(opts) /\ opts.includeTables
      /\ ~isTableDataExcluded(d.name, normalized) /\ ReadAsItIs(d) /\ todo = {}
  BY Completed, SelectionIsByName, ExcludedRowsByName
     DEF DumpInv, ReadInv, RowsAskedFor, wantsData, Kind
<1>2. PICK o \in model : SameObject(o, d)
  BY <1>1, Completed DEF ReadAsItIs
<1>3. d.name \in SelectedTables(database, normalized, opts)
  BY <1>1, <1>2
     DEF SelectedTables, NamesOf, ObjectSelected, ClassOf, SameObject, database
<1>4. e \in Planned /\ e.type = "tableData" /\ e.name = d.name
  BY <1>1, <1>3 DEF Planned, Entries, TableEntries, DataEntry, Entry
<1> HIDE DEF e
<1>5. e \in rendered
  <2>1. o \in Got(e)
    BY <1>1, <1>2, <1>4 DEF Got, Named, MapKinds, SameObject
  <2>2. ~Missing(e) /\ ~Unsupported(e) /\ ~SkippedSilently(e)
    BY <1>4, <2>1 DEF Missing, Unsupported, SkippedSilently
  <2> QED BY <1>4, <2>2, Completed DEF VisitInv
<1>6. S # {}
  <2>1. PICK i \in DOMAIN script : Text(script[i], e)
    BY <1>5, PlaceOfAnEntry
  <2>2. script[i].type = "tableData" /\ script[i].name = d.name
    BY <1>4, <2>1 DEF Text
  <2>3. script[i].def = {d}
    BY <1>1, <2>2, Completed DEF RowsInv, BlocksOf
  <2> QED BY <2>2, <2>3
<1>7. \A i, j \in S : i = j
  <2>1. \A k \in S : Text(script[k], e)
    <3> SUFFICES ASSUME NEW k \in S PROVE Text(script[k], e)
      OBVIOUS
    <3>1. PICK f \in rendered : Text(script[k], f)
      BY PlaceOfAnEntry DEF ArchiveObjectType
    <3>2. d.name = f.name /\ f.type = "tableData"
      BY <3>1 DEF Text
    <3>3. f = e
      BY <1>4, <3>2, Completed, EntryByName DEF DumpInv
    <3> QED BY <3>1, <3>3
  <2> QED BY <1>5, <2>1, PlacesInOrder
<1>8. Cardinality(S) = 1
  <2> HIDE DEF S
  <2>1. S \in SUBSET DOMAIN script
    BY DEF S
  <2> QED BY <1>6, <1>7, <2>1, Completed, Counting
<1> QED BY <1>8 DEF TimesWritten

\* What is written was selected.
LEMMA WrittenIsSelected ==
  ASSUME DumpInv, phase = "completed", NEW o \in model, NEW d, SameObject(o, d)
  PROVE  ObjectSelected(d) /\ (d.kind = "event" => server.supportsEvents)
<1>1. Known(o)
  BY DEF DumpInv, ReadInv
<1>2. ObjectSelected(o) /\ (o.kind = "event" => server.supportsEvents)
  BY <1>1 DEF Known, Final
<1> QED BY <1>2 DEF ObjectSelected, SameObject

\* Nothing is written that was not asked for.
LEMMA OnlyWhatWasAskedFor ==
  ASSUME DumpInv, phase = "completed", NEW i \in DOMAIN script, NEW d \in script[i].def
  PROVE  IF script[i].type = "tableData" THEN RowsAskedFor(d) ELSE AskedFor(d)
<1>1. PICK e \in rendered : Text(script[i], e)
  BY PlaceOfAnEntry
<1>2. e \in Entries(database, normalized, opts) /\ e.type \in ArchiveObjectType
  BY Completed DEF Planned
<1>3. CASE e.type = "tableData"
  <2>1. script[i].type = "tableData" /\ d.kind = "table" /\ d.name = e.name
    BY <1>1, <1>3 DEF Text
  <2>2. /\ e.name \in SelectedTables(database, normalized, opts) /\ wantsData(opts)
        /\ ~isTableDataExcluded(e.name, normalized)
    BY <1>2, <1>3, WhyPlanned
  <2>3. opts.includeTables /\ IsSelected("tables", d.name, normalized)
    BY <2>1, <2>2 DEF SelectedTables, NamesOf
  <2>4. Chosen(d)
    BY <2>1, <2>3, SelectionIsByName DEF ObjectSelected, ClassOf, Kind
  <2> QED BY <2>1, <2>2, <2>3, <2>4, ExcludedRowsByName DEF RowsAskedFor, wantsData
<1>4. CASE e.type \in Kind
  <2>1. script[i].type = e.type /\ script[i].type \in Kind
    BY <1>1, <1>4 DEF Text
  <2>2. /\ d.name = e.name /\ d.kind \in MapKinds(e.type)
        /\ \E o \in model : SameObject(o, d) /\ Known(o)
    BY <1>1, <2>1, DefinitionWritten
  <2>3. d.kind \in Kind /\ IncludedKind(d.kind) = IncludedKind(e.type)
    BY <1>4, <2>2 DEF MapKinds, Kind, IncludedKind
  <2>4. Chosen(d)
    <3>1. ObjectSelected(d)
      BY <2>2, WrittenIsSelected
    <3> QED BY <2>3, <3>1, SelectionIsByName
  <2>5. wantsSchema(opts) /\ IncludedKind(e.type)
    <3>1. d.kind = "event" => server.supportsEvents
      BY <2>2, WrittenIsSelected
    <3>2. CASE e.type = "table"
      BY <1>2, <3>2, WhyPlanned DEF TableEntryNames, SelectedTables, IncludedKind
    <3>3. CASE e.type = "view"
      BY <1>2, <3>3, WhyPlanned DEF SelectedViews, IncludedKind
    <3>4. CASE e.type = "trigger"
      BY <1>2, <3>4, WhyPlanned DEF SelectedTriggers, IncludedKind
    <3>5. CASE e.type \in {"function", "procedure"}
      BY <1>2, <3>5, WhyPlanned DEF IncludedKind
    <3>6. CASE e.type = "event"
      BY <1>2, <2>2, <3>1, <3>6, WhyPlanned DEF IncludedKind, MapKinds
    <3> QED BY <1>4, <3>2, <3>3, <3>4, <3>5, <3>6 DEF Kind
  <2> QED BY <2>1, <2>3, <2>4, <2>5 DEF AskedFor, wantsSchema, Kind
<1>5. CASE e.type \in {"database", "viewStub"}
  BY <1>1, <1>5 DEF Text
<1> QED BY <1>2, <1>3, <1>4, <1>5 DEF ArchiveObjectType

\* Every dump that completes is what the caller asked for, on every server on
\* which no function has the name of a procedure: each object chosen that was
\* there and the same all the time is written once and whole, one the server
\* does not show is reported instead, and nothing else is written.
THEOREM CompleteDumpsAreWhatWasAskedFor ==
  ASSUME NoTwins
  PROVE  Spec => []WritesWhatWasAskedFor
<1>1. DumpInv => WritesWhatWasAskedFor
  <2>1. SUFFICES ASSUME DumpInv, phase = "completed"
                 PROVE  WritesWhatWasAskedFor
    BY DEF WritesWhatWasAskedFor
  <2>2. ASSUME NEW d \in lasting, d.kind = "sequence"
        PROVE  Reported(d)
    <3>1. ReadAsItIs(d) /\ "table" \in ListedKinds
      BY <2>1, Completed DEF DumpInv, ReadInv
    <3> QED BY <2>2, <3>1 DEF ReadAsItIs, Reported
  <2> QED BY <2>1, <2>2, WrittenOnce, LeftOutIsReported, RowsWrittenOnce, OnlyWhatWasAskedFor
          DEF WritesWhatWasAskedFor
<1> QED BY <1>1, DumpInvIsInvariant, PTL

-----------------------------------------------------------------------------
(* Restoring a complete dump *)

LEMMA WhatIsGiven ==
  ASSUME DumpInv
  PROVE  server \in Servers /\ opts \in Options /\ Definitions \subseteq Definition
<1>1. server \in Servers /\ opts \in Options
  BY DEF DumpInv, Inv, TypeOK
<1>2. Definitions \subseteq Definition
  BY IntrospectionAssumption DEF Definitions
<1> QED BY <1>1, <1>2

\* A block has those of the entries its entry needs in front of it.
LEMMA NeededIsBefore ==
  ASSUME DumpInv, phase = "completed", NEW i \in DOMAIN script, NEW e \in rendered,
         Text(script[i], e), NEW f \in rendered, RequiresHard(e, f)
  PROVE  /\ \E j \in 1..(i - 1) : Text(script[j], f)
         /\ \A j \in DOMAIN script : Text(script[j], f) => j < i
<1>1. WellFormed(e) /\ WellFormed(f) /\ script \in Seq(Blocks)
  BY Completed
<1>2. Before(f, e)
  BY <1>1, HardDependenciesComeFirst
<1>3. \A j \in DOMAIN script : Text(script[j], f) => j < i
  BY <1>2, PlacesInOrder
<1>4. PICK j \in DOMAIN script : Text(script[j], f)
  BY PlaceOfAnEntry
<1>5. j < i
  BY <1>3, <1>4
<1>6. j \in 1..(i - 1)
  BY <1>1, <1>5
<1> QED BY <1>3, <1>4, <1>6

\* Blocks whose sections differ stand as their sections do.
LEMMA SectionsInOrder ==
  ASSUME DumpInv, phase = "completed", NEW i \in DOMAIN script, NEW j \in DOMAIN script,
         LayoutRank(script[j].type) = 1, LayoutRank(script[i].type) = 9
  PROVE  j \in 1..(i - 1)
<1>1. script \in Seq(Blocks) /\ LayoutInv
  BY Completed
<1>2. i # j /\ ~(i < j)
  BY <1>1 DEF LayoutInv, Rank
<1> QED BY <1>1, <1>2

\* One block of a type has a name.
LEMMA NamesAreFree ==
  ASSUME DumpInv, phase = "completed", NEW i \in DOMAIN script, NEW j \in 1..(i - 1),
         script[i].type = script[j].type, script[i].name = script[j].name,
         script[i].type \in ArchiveObjectType
  PROVE  FALSE
<1>1. script \in Seq(Blocks)
  BY Completed
<1>2. j \in DOMAIN script /\ i # j
  BY <1>1
<1>3. PICK e \in rendered : Text(script[i], e)
  BY PlaceOfAnEntry
<1>4. PICK f \in rendered : Text(script[j], f)
  BY <1>2, PlaceOfAnEntry
<1>5. e.type = f.type /\ e.name = f.name /\ e \in Planned /\ f \in Planned
  BY <1>3, <1>4, Completed DEF Text
<1>6. e = f
  BY <1>5, EntryByName DEF DumpInv
<1> QED BY <1>2, <1>3, <1>4, <1>6, PlacesInOrder

\* A table that was selected is written, whatever the policy lets leave out.
LEMMA TablesAreWritten ==
  ASSUME TablesAreShown, DumpInv, phase = "completed",
         NEW n \in TableEntryNames(database, normalized, opts)
  PROVE  \E e \in rendered : e.type = "table" /\ e.name = n
<1>1. PICK e \in Planned : e.type = "table" /\ e.name = n
  <2>1. Entry("table", n) \in Planned
    BY DEF Planned, Entries, TableEntries
  <2> QED BY <2>1 DEF Entry
<1>2. PICK o \in model : o.kind = "table" /\ o.name = n
  BY DEF TableEntryNames, SelectedTables, NamesOf, database
<1>3. o \in Got(e)
  BY <1>1, <1>2 DEF Got, Named, MapKinds
<1>4. ~Missing(e) /\ ~SkippedSilently(e)
  BY <1>1, <1>3 DEF Missing, SkippedSilently
<1>5. e \in skipped => Unsupported(e) /\ opts.unsupportedFeaturePolicy = "warn-omit"
  BY <1>4, Completed DEF VisitInv
<1>6. CASE \A p \in Options : p.unsupportedFeaturePolicy = "error"
  BY <1>1, <1>5, <1>6, WhatIsGiven, Completed
<1>7. CASE \A s \in Servers : \A m \in Name : << "table", m >> \notin s.hidden
  <2>1. PICK c \in Definitions : SameObject(c, o)
    BY <1>2 DEF DumpInv, ReadInv, Known
  <2>2. o.name \in Name
    BY <2>1, WhatIsGiven DEF SameObject, Definition
  <2>3. ~Hidden(o)
    BY <1>2, <1>7, <2>2, WhatIsGiven DEF Hidden
  <2>4. o.createSql # {}
    BY <1>2, <2>3 DEF DumpInv, ReadInv, ShownAsItWas
  <2>5. CreateSql(e) # {}
    BY <1>3, <2>4 DEF CreateSql
  <2> QED BY <1>1, <1>5, <2>5, Completed DEF Unsupported
<1> QED BY <1>6, <1>7 DEF TablesAreShown

LEMMA TableRestorable ==
  ASSUME StubsAreDropped, DumpInv, phase = "completed", NEW i \in DOMAIN script,
         script[i].type \in {"table", "viewStub"}
  PROVE  Free(i, {"table", "viewStub"})
<1>1. SUFFICES ASSUME ~opts.addDropTable, NEW j \in 1..(i - 1),
                      Creates(j, script[i].name, {"table", "viewStub"})
               PROVE  FALSE
  BY DEF Free
<1>2. ~opts.includeViews
  BY <1>1, WhatIsGiven DEF StubsAreDropped
<1>3. \A k \in DOMAIN script : script[k].type # "viewStub"
  <2> SUFFICES ASSUME NEW k \in DOMAIN script, script[k].type = "viewStub" PROVE FALSE
    OBVIOUS
  <2>1. PICK e \in rendered : Text(script[k], e)
    BY PlaceOfAnEntry DEF ArchiveObjectType
  <2>2. e \in Entries(database, normalized, opts) /\ e.type = "viewStub"
    BY <2>1, Completed DEF Text, Planned
  <2>3. e.name \in SelectedViews(database, normalized, opts)
    BY <2>2, WhyPlanned
  <2> QED BY <1>2, <2>3 DEF SelectedViews
<1>4. script \in Seq(Blocks)
  BY Completed
<1>5. j \in DOMAIN script
  BY <1>4
<1>6. script[i].type = "table" /\ script[j].type = "table" /\ script[j].name = script[i].name
  BY <1>1, <1>3, <1>5 DEF Creates
<1> QED BY <1>6, NamesAreFree DEF ArchiveObjectType, Kind

LEMMA ViewRestorable ==
  ASSUME StubsAreDropped, DumpInv, phase = "completed", NEW i \in DOMAIN script,
         script[i].type = "view"
  PROVE  Free(i, {"viewStub", "view"}) /\ \A n : ReadyBefore(i, n)
<1>1. PICK e \in rendered : Text(script[i], e)
  BY PlaceOfAnEntry DEF ArchiveObjectType, Kind
<1>2. e \in Entries(database, normalized, opts) /\ e.type = "view"
  BY <1>1, Completed DEF Text, Planned
<1>3. e.name \in SelectedViews(database, normalized, opts)
  BY <1>2, WhyPlanned
<1>4. Free(i, {"viewStub", "view"})
  BY <1>3, WhatIsGiven DEF SelectedViews, StubsAreDropped, Free
<1>5. \A j \in DOMAIN script : script[j].type \in {"table", "viewStub"} => j \in 1..(i - 1)
  <2>1. LayoutRank(script[i].type) = 9
    BY DEF LayoutRank
  <2>2. \A type \in {"table", "viewStub"} : LayoutRank(type) = 1
    BY DEF LayoutRank
  <2> QED BY <2>1, <2>2, SectionsInOrder
<1>6. ASSUME NEW n, NEW j \in DOMAIN script, Creates(j, n, {"table", "viewStub", "view"})
      PROVE  \E k \in 1..(i - 1) : Creates(k, n, {"table", "viewStub", "view"})
  <2>1. CASE script[j].type \in {"table", "viewStub"}
    BY <1>5, <1>6, <2>1
  <2>2. CASE script[j].type = "view"
    <3>1. PICK f \in rendered : Text(script[j], f)
      BY <2>2, PlaceOfAnEntry DEF ArchiveObjectType, Kind
    <3>2. f \in Entries(database, normalized, opts) /\ f.type = "view" /\ f.name = n
      BY <1>6, <2>2, <3>1, Completed DEF Text, Planned, Creates
    <3>3. n \in SelectedViews(database, normalized, opts) /\ wantsSchema(opts)
      BY <3>2, WhyPlanned
    <3>4. PICK g \in Planned : g.type = "viewStub" /\ g.name = n
      <4>1. Entry("viewStub", n) \in Planned
        BY <3>3 DEF Planned, Entries, ViewEntries
      <4> QED BY <4>1 DEF Entry
    <3>5. Got(g) = Got(f)
      BY <3>2, <3>4 DEF Got, Named, MapKinds
    <3>6. Got(f) # {}
      BY <3>1, <3>2, Completed DEF VisitInv, Missing
    <3>7. g \in rendered
      BY <3>4, <3>5, <3>6, Completed DEF VisitInv, Missing, Unsupported, SkippedSilently
    <3>8. PICK k \in DOMAIN script : Text(script[k], g)
      BY <3>7, PlaceOfAnEntry
    <3>9. script[k].type = "viewStub" /\ script[k].name = n
      BY <3>4, <3>8 DEF Text
    <3> QED BY <1>5, <3>9 DEF Creates
  <2> QED BY <1>6, <2>1, <2>2 DEF Creates
<1>7. \A n : ReadyBefore(i, n)
  BY <1>6 DEF ReadyBefore
<1> QED BY <1>4, <1>7

LEMMA RowsRestorable ==
  ASSUME TablesAreShown, DumpInv, phase = "completed", NEW i \in DOMAIN script,
         script[i].type = "tableData", opts.mode # "data-only"
  PROVE  \E j \in 1..(i - 1) : Creates(j, script[i].name, {"table"})
<1>1. PICK e \in rendered : Text(script[i], e)
  BY PlaceOfAnEntry DEF ArchiveObjectType
<1>2. /\ e \in Entries(database, normalized, opts) /\ e.type = "tableData"
      /\ e.name = script[i].name
  BY <1>1, Completed DEF Text, Planned
<1>3. e.name \in TableEntryNames(database, normalized, opts)
  BY <1>2, WhyPlanned DEF TableEntryNames, wantsSchema
<1>4. PICK f \in rendered : f.type = "table" /\ f.name = e.name
  BY <1>3, TablesAreWritten
<1>5. RequiresHard(e, f)
  BY <1>2, <1>4 DEF RequiresHard
<1>6. PICK j \in 1..(i - 1) : Text(script[j], f)
  BY <1>1, <1>5, NeededIsBefore
<1> QED BY <1>2, <1>4, <1>6 DEF Text, Creates

\* A trigger written is that of the table it was read with.
LEMMA TriggerWritten ==
  ASSUME TriggersStay, DumpInv, phase = "completed", NEW i \in DOMAIN script,
         script[i].type = "trigger", NEW d \in script[i].def
  PROVE  /\ d.kind = "trigger" /\ d \in Definitions
         /\ \E t \in model :
              /\ SameObject(t, d) /\ t.table = d.table
              /\ t.table \in TableEntryNames(database, normalized, opts)
              /\ TriggerEntry(t) \in rendered /\ Text(script[i], TriggerEntry(t))
<1>1. PICK e \in rendered : Text(script[i], e)
  BY PlaceOfAnEntry DEF ArchiveObjectType, Kind
<1>2. e \in Entries(database, normalized, opts) /\ e.type = "trigger"
  BY <1>1, Completed DEF Text, Planned
<1>3. d.name = e.name /\ d.kind = "trigger" /\ d \in Definitions
  BY <1>1, <1>2, DefinitionWritten DEF Kind, MapKinds
<1>4. PICK t \in SelectedTriggers(database, normalized, opts) :
        e = TriggerEntry(t) /\ t.table \in TableEntryNames(database, normalized, opts)
  BY <1>2, WhyPlanned
<1>5. t \in model /\ t.kind = "trigger" /\ t.name = d.name
  BY <1>3, <1>4 DEF SelectedTriggers, database, TriggerEntry
<1>6. PICK c \in Definitions : SameObject(c, t) /\ c.table = t.table
  BY <1>5 DEF DumpInv, ReadInv, Known
<1>7. t.table = d.table
  BY <1>3, <1>5, <1>6 DEF TriggersStay, SameObject
<1> QED BY <1>1, <1>3, <1>4, <1>5, <1>7 DEF SameObject

LEMMA OneDigitOrdersCompare ==
  ASSUME NEW m \in Nat, NEW n \in Nat, m < n, n < 10
  PROVE  TextRank(m) < TextRank(n)
BY DEF TextRank

LEMMA TriggersInOrder ==
  ASSUME NEW t, NEW u, WellFormed(TriggerEntry(t)), WellFormed(TriggerEntry(u)),
         t.table = u.table, t.order < u.order, u.order < 10
  PROVE  Before(TriggerEntry(t), TriggerEntry(u))
<1> DEFINE k == SortKey(TriggerEntry(t))
           l == SortKey(TriggerEntry(u))
<1>1. t.order \in Nat /\ u.order \in Nat
  BY DEF WellFormed, ArchiveEntry, TriggerEntry
<1>2. TextRank(t.order) < TextRank(u.order)
  BY <1>1, OneDigitOrdersCompare
<1>3. /\ k[1] = l[1] /\ k[2] = l[2] /\ k[3] = l[3] /\ k[4] = l[4]
      /\ k[5] = TextRank(t.order) /\ l[5] = TextRank(u.order)
  BY DEF SortKey, TriggerEntry, groupKey, secondaryKey
<1>4. \A j \in 1..(5 - 1) : k[j] = l[j]
  BY <1>3
<1> QED BY <1>2, <1>3, <1>4 DEF Before, compareEntries

LEMMA TriggerRestorable ==
  ASSUME TriggersStay, OneDigitOrders, TablesAreShown, DumpInv, phase = "completed",
         NEW i \in DOMAIN script, script[i].type = "trigger", NEW d \in script[i].def
  PROVE  /\ \E j \in 1..(i - 1) : Creates(j, d.table, {"table"})
         /\ \A j \in DOMAIN script : Creates(j, d.table, {"tableData"}) => j < i
         /\ \A j \in DOMAIN script : \A c \in script[j].def : FiresBefore(c, d) => j < i
<1>1. PICK t \in model :
        /\ SameObject(t, d) /\ t.table = d.table
        /\ t.table \in TableEntryNames(database, normalized, opts)
        /\ TriggerEntry(t) \in rendered /\ Text(script[i], TriggerEntry(t))
  BY TriggerWritten
<1>2. PICK e \in rendered : e = TriggerEntry(t)
  BY <1>1
<1>3. e.type = "trigger" /\ e.parent = d.table /\ Text(script[i], e)
  BY <1>1, <1>2 DEF TriggerEntry
<1>4. \E j \in 1..(i - 1) : Creates(j, d.table, {"table"})
  <2>1. PICK f \in rendered : f.type = "table" /\ f.name = d.table
    BY <1>1, TablesAreWritten
  <2>2. RequiresHard(e, f)
    BY <1>3, <2>1 DEF RequiresHard
  <2>3. PICK j \in 1..(i - 1) : Text(script[j], f)
    BY <1>3, <2>2, NeededIsBefore
  <2> QED BY <2>1, <2>3 DEF Text, Creates
<1>5. ASSUME NEW j \in DOMAIN script, Creates(j, d.table, {"tableData"})
      PROVE  j < i
  <2>1. script[j].type = "tableData" /\ script[j].name = d.table
    BY <1>5 DEF Creates
  <2>2. PICK f \in rendered : Text(script[j], f)
    BY <2>1, PlaceOfAnEntry DEF ArchiveObjectType
  <2>3. RequiresHard(e, f)
    BY <1>3, <2>1, <2>2 DEF RequiresHard, Text
  <2> QED BY <1>3, <2>2, <2>3, NeededIsBefore
<1>6. ASSUME NEW j \in DOMAIN script, NEW c \in script[j].def, FiresBefore(c, d)
      PROVE  j < i
  <2>1. /\ c \in lasting /\ d \in lasting /\ c.kind = "trigger" /\ c.table = d.table
        /\ c.order < d.order
    BY <1>6 DEF FiresBefore
  <2>2. script[j].type = "trigger"
    <3>1. PICK f \in rendered : Text(script[j], f)
      BY <1>6, PlaceOfAnEntry
    <3>2. f.type \in ArchiveObjectType /\ script[j].type = f.type
      BY <3>1, Completed DEF Text
    <3>3. f.type \notin {"database", "viewStub", "tableData"}
      BY <2>1, <3>1, <3>2 DEF Text
    <3>4. f.type \in Kind
      BY <3>2, <3>3 DEF ArchiveObjectType
    <3>5. c.kind \in MapKinds(f.type)
      BY <3>1, <3>2, <3>4, DefinitionWritten
    <3>6. f.type = "trigger"
      BY <2>1, <3>4, <3>5 DEF MapKinds, Kind
    <3> QED BY <3>2, <3>6
  <2>3. PICK u \in model :
          SameObject(u, c) /\ TriggerEntry(u) \in rendered /\ Text(script[j], TriggerEntry(u))
    BY <2>2, TriggerWritten
  <2>4. u.order = c.order /\ u.table = c.table /\ t.order = d.order
    BY <1>1, <2>1, <2>3 DEF DumpInv, ReadInv, ReadAsItIs
  <2>5. d.order < 10
    BY TriggerWritten DEF OneDigitOrders
  <2>6. Before(TriggerEntry(u), TriggerEntry(t))
    BY <1>1, <2>1, <2>3, <2>4, <2>5, Completed, TriggersInOrder
  <2> QED BY <1>1, <2>3, <2>6, PlacesInOrder
<1> QED BY <1>4, <1>5, <1>6

LEMMA RoutineRestorable ==
  ASSUME NoTwins, DumpInv, phase = "completed", NEW i \in DOMAIN script,
         script[i].type \in {"function", "procedure"}
  PROVE  Free(i, {script[i].type}) /\ \A d \in script[i].def : d.kind = script[i].type
<1>1. Free(i, {script[i].type})
  BY NamesAreFree DEF Free, Creates, ArchiveObjectType, Kind
<1>2. ASSUME NEW d \in script[i].def
      PROVE  d.kind = script[i].type
  <2>1. PICK e \in rendered : Text(script[i], e)
    BY PlaceOfAnEntry DEF ArchiveObjectType, Kind
  <2>2. e \in Planned /\ e.type = script[i].type /\ e.type \in Kind
    BY <2>1, Completed DEF Text, Kind
  <2>3. d \in CreateSql(e)
    BY <1>2, <2>1, <2>2 DEF Text
  <2>4. PICK o \in model : o.kind = e.type /\ d \in o.createSql
    BY <2>2, <2>3, ReadOfItsKind DEF CreateSql
  <2> QED BY <2>2, <2>4 DEF DumpInv, ReadInv, ShownAsItWas, SameObject
<1> QED BY <1>1, <1>2

\* Every dump that completes can be restored block by block on an empty server:
\* no block finds its name taken, and each view, each table's rows and each
\* trigger finds what it needs in front of it.
THEOREM CompleteDumpsRestore ==
  ASSUME NoTwins, TriggersStay, OneDigitOrders, StubsAreDropped, TablesAreShown
  PROVE  Spec => []RestoresOnEmptyServer
<1>1. DumpInv => RestoresOnEmptyServer
  <2>1. SUFFICES ASSUME DumpInv, phase = "completed", NEW i \in DOMAIN script
                 PROVE  Restorable(i)
    BY DEF RestoresOnEmptyServer
  <2>2. CASE script[i].type \in {"table", "viewStub"}
    BY <2>1, <2>2, TableRestorable DEF Restorable
  <2>3. CASE script[i].type = "view"
    BY <2>1, <2>3, ViewRestorable DEF Restorable
  <2>4. CASE script[i].type = "tableData"
    BY <2>1, <2>4, RowsRestorable DEF Restorable
  <2>5. CASE script[i].type = "trigger"
    BY <2>1, <2>5, TriggerRestorable DEF Restorable
  <2>6. CASE script[i].type \in {"function", "procedure"}
    BY <2>1, <2>6, RoutineRestorable DEF Restorable
  <2> QED BY <2>2, <2>3, <2>4, <2>5, <2>6 DEF Restorable
<1> QED BY <1>1, DumpInvIsInvariant, PTL
=============================================================================
