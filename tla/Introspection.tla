---------------------------- MODULE Introspection ----------------------------
(***************************************************************************)
(* introspectMysql: one connection lists the objects of a database, asks   *)
(* the server for the definition of each, and assembles the model.  An     *)
(* action is one query with the code that runs on its answer.  Other       *)
(* sessions create, replace and drop objects between any two queries: the  *)
(* catalog is no part of a snapshot.                                       *)
(*                                                                         *)
(* Objects of one listing are visited in any order, since the server's     *)
(* collation decides it.  Columns, keys, checks and character sets are     *)
(* read too and decide nothing here.                                       *)
(***************************************************************************)
EXTENDS ArchivePlanner

CONSTANTS
  Servers,     \* what the server may be like
  Catalogs,    \* what the database may hold when the dump begins
  Creations,   \* what other sessions may create or alter
  Selections,  \* what the caller may select
  MaxDdl       \* bound: changes other sessions make to the catalog

\* An object on the server.  A trigger has a table and its place among the
\* table's triggers; uses are the tables a foreign key or a view names.
Definition ==
  [ kind : Kind \cup {"sequence"}, name : Name, table : Nat, order : Nat,
    uses : SUBSET Name, body : Nat ]

\* SHOW CREATE answers without a definition for the hidden objects.
ServersAssumption ==
  Servers \subseteq [ hasDatabase : BOOLEAN, caseInsensitiveTableNames : BOOLEAN,
                      supportsEvents : BOOLEAN, hidden : SUBSET (Kind \X Name) ]

\* A server has one object of a kind and name.
OneOfEach(objects) ==
  \A c, d \in objects : c.kind = d.kind /\ c.name = d.name => c = d

\* A trigger belongs to a table of the same database.
TriggersHaveTables(objects) ==
  \A d \in objects : d.kind = "trigger" => \E t \in objects : t.kind = "table" /\ t.name = d.table

ASSUME IntrospectionAssumption ==
  /\ ServersAssumption
  /\ Catalogs \subseteq SUBSET Definition /\ Creations \subseteq Definition
  /\ \A c \in Catalogs : OneOfEach(c) /\ TriggersHaveTables(c)
  /\ Selections \subseteq DumpSelection
  /\ MaxDdl \in Nat

VARIABLES
  server, selection,
  catalog,       \* the objects on the server now
  lasting,       \* those of them that are as they were when the dump began
  ddl,           \* changes made so far
  phase,         \* the query that is next, or how the dump ended
  todo,          \* listed objects whose definition is to be asked for
  model,         \* the objects read, with their definition if there was one
  foreignKeys, diagnostics

introspectionVars ==
  << server, selection, catalog, lasting, ddl, phase, todo, model, foreignKeys, diagnostics >>
others == << catalog, lasting, ddl >>
given  == << server, selection >>

Introspecting == { "server", "tables", "showTables", "keys", "routines", "showRoutines",
                   "showTriggers", "showEvents" }

IntrospectionInit ==
  /\ server \in Servers /\ selection \in Selections
  /\ catalog \in Catalogs /\ lasting = catalog /\ ddl = 0
  /\ phase = "server" /\ todo = {} /\ model = {} /\ foreignKeys = {} /\ diagnostics = {}

normalized == normalizeDumpSelection(selection, server.caseInsensitiveTableNames)

ClassOf == [ table |-> "tables", view |-> "views", function |-> "routines",
             procedure |-> "routines", trigger |-> "triggers", event |-> "events" ]

ObjectSelected(o) == IsSelected(ClassOf[o.kind], o.name, normalized)

\* A sequence is reported as the table it is listed as.
Diagnostic(code, o) ==
  [code |-> code, kind |-> IF o.kind = "sequence" THEN "table" ELSE o.kind, name |-> o.name]

-----------------------------------------------------------------------------
\* What one query over information_schema lists, before any definition.
Listed(kinds) ==
  { [kind |-> d.kind, name |-> d.name, table |-> d.table, order |-> d.order, createSql |-> {}] :
      d \in {c \in catalog : c.kind \in kinds} }

ReadServer ==
  /\ phase = "server"
  /\ phase' = IF server.hasDatabase THEN "tables" ELSE "rejected"
  /\ UNCHANGED << given, others, todo, model, foreignKeys, diagnostics >>

\* Tables and views are selected before their definitions are asked for; an
\* object of another type is reported.
QueryTables ==
  /\ phase = "tables" /\ phase' = "showTables"
  /\ todo' = {o \in Listed({"table", "view"}) : ObjectSelected(o)}
  /\ diagnostics' = {Diagnostic("unsupported-table-type", o) : o \in Listed({"sequence"})}
  /\ UNCHANGED << given, others, model, foreignKeys >>

Shown(o)  == {d \in catalog : d.kind = o.kind /\ d.name = o.name}
Hidden(o) == << o.kind, o.name >> \in server.hidden

\* The server refuses to show what is gone, which ends the dump.
ShowCreate ==
  /\ phase \in {"showTables", "showRoutines", "showTriggers", "showEvents"}
  /\ \E o \in todo :
       /\ o.kind = "view" => \A p \in todo : p.kind # "table"
       /\ todo' = todo \ {o}
       /\ \/ /\ Shown(o) = {}
             /\ phase' = "rejected" /\ UNCHANGED << model, diagnostics >>
          \/ /\ Shown(o) # {} /\ ~Hidden(o)
             /\ model' = model \cup {[o EXCEPT !.createSql = Shown(o)]}
             /\ UNCHANGED << phase, diagnostics >>
          \/ /\ Shown(o) # {} /\ Hidden(o)
             /\ model' = model \cup {o}
             /\ diagnostics' = diagnostics \cup {Diagnostic("definition-unavailable", o)}
             /\ UNCHANGED phase
  /\ UNCHANGED << given, others, foreignKeys >>

\* The views are listed a second time, and those gone meanwhile are dropped
\* without a word.
QueryViews ==
  /\ phase = "showTables" /\ todo = {} /\ phase' = "keys"
  /\ model' = {o \in model : o.kind = "view" =>
                               \E v \in Listed({"view"}) : v.name = o.name}
  /\ UNCHANGED << given, others, todo, foreignKeys, diagnostics >>

QueryForeignKeys ==
  /\ phase = "keys" /\ phase' = "routines"
  /\ foreignKeys' =
       UNION {{<< d.name, u >> : u \in d.uses} :
                d \in {c \in catalog : c.kind = "table" /\ ObjectSelected(c)}}
  /\ UNCHANGED << given, others, todo, model, diagnostics >>

\* Stored programs are all listed and shown, whatever is selected.
QueryRoutines ==
  /\ phase = "routines" /\ phase' = "showRoutines"
  /\ todo' = Listed({"function", "procedure"})
  /\ UNCHANGED << given, others, model, foreignKeys, diagnostics >>

QueryTriggers ==
  /\ phase = "showRoutines" /\ todo = {} /\ phase' = "showTriggers"
  /\ todo' = Listed({"trigger"})
  /\ UNCHANGED << given, others, model, foreignKeys, diagnostics >>

QueryEvents ==
  /\ phase = "showTriggers" /\ todo = {} /\ server.supportsEvents /\ phase' = "showEvents"
  /\ todo' = Listed({"event"})
  /\ UNCHANGED << given, others, model, foreignKeys, diagnostics >>

Assemble ==
  /\ todo = {}
  /\ phase = "showEvents" \/ (phase = "showTriggers" /\ ~server.supportsEvents)
  /\ phase' = "assembled"
  /\ model' = {o \in model : o.kind \in {"table", "view"} \/ ObjectSelected(o)}
  /\ UNCHANGED << given, others, todo, foreignKeys, diagnostics >>

\* A query fails, or the signal fires.
IntrospectionFails ==
  /\ phase \in Introspecting /\ phase' = "rejected"
  /\ UNCHANGED << given, others, todo, model, foreignKeys, diagnostics >>

Introspect ==
  \/ ReadServer \/ QueryTables \/ ShowCreate \/ QueryViews \/ QueryForeignKeys
  \/ QueryRoutines \/ QueryTriggers \/ QueryEvents \/ Assemble \/ IntrospectionFails

-----------------------------------------------------------------------------
(* The other sessions *)

Ddl(after) ==
  /\ ddl < MaxDdl /\ ddl' = ddl + 1
  /\ catalog' = after /\ lasting' = lasting \cap after
  /\ UNCHANGED << given, phase, todo, model, foreignKeys, diagnostics >>

\* A table takes its triggers along.
DropObject ==
  \E d \in catalog :
    Ddl({c \in catalog : /\ c # d
                         /\ ~(d.kind = "table" /\ c.kind = "trigger" /\ c.table = d.name)})

\* CREATE, CREATE OR REPLACE or ALTER.
DefineObject ==
  \E d \in Creations \ catalog :
    /\ d.kind = "trigger" => \E t \in catalog : t.kind = "table" /\ t.name = d.table
    /\ Ddl({c \in catalog : c.kind # d.kind \/ c.name # d.name} \cup {d})
=============================================================================
