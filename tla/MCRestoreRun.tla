---------------------------- MODULE MCRestoreRun ----------------------------
(***************************************************************************)
(* Instances of RestoreRun for TLC: the scripts are dumps the renderer     *)
(* writes (DumpScript) and small hand-written ones.                        *)
(***************************************************************************)
EXTENDS RestoreRun, DumpScript

DefaultRender ==
  [ setCharset |-> TRUE, includeSessionGuards |-> TRUE, timeZone |-> TRUE,
    addLocks |-> TRUE, disableKeys |-> TRUE, addDropTable |-> TRUE,
    includeCreateDatabase |-> TRUE, includeUseDatabase |-> TRUE ]

Entry(type) ==
  [type |-> type, inserts |-> 1, collation |-> FALSE, first |-> TRUE, last |-> TRUE]
Database       == Entry("database")
TableStructure == Entry("table")
TableData      == Entry("tableData")
ViewStub       == Entry("viewStub")
FinalView      == Entry("view")
Trigger        == [Entry("trigger") EXCEPT !.collation = TRUE]
Routine        == Entry("routine")
OnlyEvent      == [Entry("event") EXCEPT !.collation = TRUE]

Dump(o, entries) == renderPlainSql(o, entries)

\* One dump per kind of object, each between the full guards.
ObjectDumps ==
  { Dump(DefaultRender, << TableStructure, TableData >>),
    Dump(DefaultRender, << ViewStub, FinalView >>),
    Dump(DefaultRender, << Trigger >>),
    Dump(DefaultRender, << Database, Routine >>),
    Dump([DefaultRender EXCEPT !.timeZone = FALSE, !.addDropTable = FALSE], << Trigger >>),
    Dump(DefaultRender, << OnlyEvent >>) }

\* The hypothesis AllGuarded of the theorems about variables is what the
\* renderer's header provides, and it fails with an option that leaves out a
\* line an object needs.
ASSUME HeaderGuards ==
  \A o \in [ setCharset : BOOLEAN, includeSessionGuards : BOOLEAN, timeZone : BOOLEAN,
              addLocks : {TRUE}, disableKeys : {TRUE}, addDropTable : {TRUE},
              includeCreateDatabase : {TRUE}, includeUseDatabase : {TRUE} ] :
    \A e \in {Database, TableStructure, TableData, ViewStub, FinalView, Trigger, Routine,
               OnlyEvent} :
      (\A v \in Variable : Guarded(Dump(o, << e >>), v)) <=> NeedsHeader(o, e)

\* Hand-written scripts: data blocks without a comment before LOCK TABLES.
LockScripts ==
  { << Lock, Dml, Unlock >>,
    << SaveAndSet("FOREIGN_KEY_CHECKS", "dump"), Lock, Ddl, Dml, Unlock, Lock, Dml, Unlock,
       SetTo("FOREIGN_KEY_CHECKS", Old("FOREIGN_KEY_CHECKS")) >>,
    << SaveAndSet("SQL_MODE", "dump"), Lock, Program >> }

\* Data statements between the header's and the footer's guards.
DataScripts ==
  { << Dml, Dml, Dml >>, << >>,
    << SaveAndSet("FOREIGN_KEY_CHECKS", "dump"), Dml, Dml,
       SetTo("FOREIGN_KEY_CHECKS", Old("FOREIGN_KEY_CHECKS")) >> }

GuardedScripts == ObjectDumps \cup DataScripts

ASSUME ScriptsAreGuarded ==
  \A s \in GuardedScripts \cup LockScripts : \A v \in Variable : Guarded(s, v)

\* A table as the renderer writes it, a banner in front of its LOCK TABLES.
NativeTableScripts == { Dump(DefaultRender, << TableStructure, TableData >>) }

-----------------------------------------------------------------------------
DefaultOptions ==
  [ database |-> FALSE, stopOnError |-> TRUE, restoreSessionState |-> TRUE,
    singleTransaction |-> FALSE, definerPolicy |-> "preserve", errnoDescribed |-> FALSE,
    signal |-> TRUE,
    callbackThrows |-> FALSE, releaseThrows |-> FALSE ]

JustDefaults == {DefaultOptions}

\* Stopping at errors, with the definer retry or inside a transaction, and
\* continuing after them.
GuardedOptions ==
  { DefaultOptions,
    [DefaultOptions EXCEPT !.definerPolicy = "best-effort"],
    [DefaultOptions EXCEPT !.definerPolicy = "best-effort", !.errnoDescribed = TRUE],
    [DefaultOptions EXCEPT !.singleTransaction = TRUE, !.database = TRUE,
                           !.definerPolicy = "strip", !.releaseThrows = TRUE],
    [DefaultOptions EXCEPT !.singleTransaction = TRUE, !.restoreSessionState = FALSE,
                           !.callbackThrows = TRUE],
    [DefaultOptions EXCEPT !.stopOnError = FALSE, !.signal = FALSE] }

\* Everything that can go wrong around a short script.
AllOptions ==
  [ database : {FALSE}, stopOnError : BOOLEAN, restoreSessionState : {TRUE},
    singleTransaction : BOOLEAN, definerPolicy : {"best-effort"},
    errnoDescribed : {TRUE}, signal : {TRUE},
    callbackThrows : BOOLEAN, releaseThrows : {TRUE} ]
=============================================================================
