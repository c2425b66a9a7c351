----------------------------- MODULE DumpScript -----------------------------
(***************************************************************************)
(* The statements of a plain-SQL dump, in order, as the renderer writes    *)
(* them: the header's session guards, one block per archive entry, and the *)
(* footer.  Text is abstracted to what a restoring session can tell apart  *)
(* (see MysqlSession): what a SET assigns and from where, whether the      *)
(* statement is DDL or data, whether a comment stands in front of it.      *)
(*                                                                         *)
(* A block is a function of the render options and its archive entry.      *)
(***************************************************************************)
EXTENDS MysqlSession, Sequences, SequencesExt

\* timeZone: the option is not null.
RenderOptions ==
  [ setCharset : BOOLEAN, includeSessionGuards : BOOLEAN, timeZone : BOOLEAN,
    addLocks : BOOLEAN, disableKeys : BOOLEAN, addDropTable : BOOLEAN,
    includeCreateDatabase : BOOLEAN, includeUseDatabase : BOOLEAN ]

\* The number of INSERT statements a table's rows make; whether an object's
\* creation context records a collation; an event's place in its section.
RenderedEntry ==
  [ type : {"database", "table", "tableData", "viewStub", "view", "trigger", "routine", "event"},
    inserts : Nat, collation : BOOLEAN, first : BOOLEAN, last : BOOLEAN ]

Statement(kind, assign) ==
  [kind |-> kind, assign |-> assign, commented |-> FALSE, definer |-> FALSE]

Ddl     == Statement("ddl", << >>)
Program == [Ddl EXCEPT !.definer = TRUE]
Dml     == Statement("dml", << >>)
Lock    == Statement("lock", << >>)
Unlock  == Statement("unlock", << >>)
Use     == Statement("use", << >>)

SetTo(v, src)       == Statement("set", [p \in {Sys(v)} |-> src])
SaveIn(place)       == Statement("set", [p \in {place} |-> Sys(place[2])])
SaveAndSet(v, x)    == Statement("set", [p \in {Old(v), Sys(v)} |->
                                            IF p = Old(v) THEN Sys(v) ELSE Lit(x)])
SetNames(x)         == Statement("set", [p \in {Sys(v) : v \in CharsetTrio} |-> Lit(x)])

When(condition, stmts) == IF condition THEN stmts ELSE << >>

\* A section comment: the parser leaves it in the text of the next statement.
Commented(stmts) ==
  IF stmts = << >> THEN << >> ELSE << [stmts[1] EXCEPT !.commented = TRUE] >> \o Tail(stmts)

-----------------------------------------------------------------------------
headerGuardLines(o) ==
  Commented(
    When(o.setCharset,
         << SaveIn(Old("CHARACTER_SET_CLIENT")), SaveIn(Old("CHARACTER_SET_RESULTS")),
            SaveIn(Old("COLLATION_CONNECTION")), SetNames("dump") >>)
    \o When(o.includeSessionGuards /\ o.timeZone,
            << SaveIn(Old("TIME_ZONE")), SetTo("TIME_ZONE", Lit("dump")) >>)
    \o When(o.includeSessionGuards,
            << SaveAndSet("UNIQUE_CHECKS", "dump"), SaveAndSet("FOREIGN_KEY_CHECKS", "dump"),
               SaveAndSet("SQL_MODE", "dump"), SaveAndSet("SQL_NOTES", "dump") >>))

footerGuardLines(o) ==
  LET Back(v) == SetTo(v, Old(v))
  IN  When(o.includeSessionGuards /\ o.timeZone, << Back("TIME_ZONE") >>)
      \o When(o.includeSessionGuards,
              << Back("SQL_MODE"), Back("FOREIGN_KEY_CHECKS"), Back("UNIQUE_CHECKS") >>)
      \o When(o.setCharset,
              << Back("CHARACTER_SET_CLIENT"), Back("CHARACTER_SET_RESULTS"),
                 Back("COLLATION_CONNECTION") >>)
      \o When(o.includeSessionGuards, << Back("SQL_NOTES") >>)

-----------------------------------------------------------------------------
renderDatabase(o, e) ==
  Commented(When(o.includeCreateDatabase, << Ddl >>) \o When(o.includeUseDatabase, << Use >>))

ClientCharset == "CHARACTER_SET_CLIENT"

\* Pins character_set_client around one CREATE.
WithTableCharset(create) ==
  << SaveIn(Saved(ClientCharset)), SetTo(ClientCharset, Lit("dump")), create,
     SetTo(ClientCharset, Saved(ClientCharset)) >>

renderTableStructure(o, e) ==
  Commented(When(o.addDropTable, << Ddl >>) \o WithTableCharset(Ddl))

\* The banner, the LOCK / DISABLE KEYS frame, and e.inserts INSERT statements.
renderTableData(o, e) ==
  Commented(
    When(o.addLocks, << Lock >>) \o When(o.disableKeys, << Ddl >>)
    \o [i \in 1..e.inserts |-> Dml]
    \o When(o.disableKeys, << Ddl >>) \o When(o.addLocks, << Unlock >>))

renderViewStub(o, e) ==
  Commented(When(o.addDropTable, << Ddl, Ddl >>) \o WithTableCharset(Ddl))

SaveTrio == << SaveIn(Saved("CHARACTER_SET_CLIENT")), SaveIn(Saved("CHARACTER_SET_RESULTS")),
               SaveIn(Saved("COLLATION_CONNECTION")) >>

\* The collation is set only when the object's creation context records one.
SetTrio(e) == << SetTo("CHARACTER_SET_CLIENT", Lit("object")),
                 SetTo("CHARACTER_SET_RESULTS", Lit("object")) >>
              \o When(e.collation, << SetTo("COLLATION_CONNECTION", Lit("object")) >>)

BackTrio == << SetTo("CHARACTER_SET_CLIENT", Saved("CHARACTER_SET_CLIENT")),
               SetTo("CHARACTER_SET_RESULTS", Saved("CHARACTER_SET_RESULTS")),
               SetTo("COLLATION_CONNECTION", Saved("COLLATION_CONNECTION")) >>

renderView(o, e) ==
  Commented(When(o.addDropTable, << Ddl >>) \o SaveTrio \o SetTrio(e) \o << Program >> \o BackTrio)

renderCreationContextOpen(e) ==
  SaveTrio \o SetTrio(e) \o << SaveIn(Saved("SQL_MODE")), SetTo("SQL_MODE", Lit("object")) >>

renderCreationContextClose == << SetTo("SQL_MODE", Saved("SQL_MODE")) >> \o BackTrio

renderTrigger(o, e) ==
  renderCreationContextOpen(e) \o << Program >> \o renderCreationContextClose

renderRoutine(o, e) ==
  When(o.addDropTable, << Ddl >>)
  \o renderCreationContextOpen(e) \o << Program >> \o renderCreationContextClose

\* The first event of the section opens, and the last closes, a time zone pair.
renderEvent(o, e) ==
  When(e.first, Commented(<< SaveIn(Save("TIME_ZONE")) >>))
  \o When(o.addDropTable, << Ddl >>)
  \o renderCreationContextOpen(e)
  \o << SaveIn(Saved("TIME_ZONE")), SetTo("TIME_ZONE", Lit("object")), Program,
        SetTo("TIME_ZONE", Saved("TIME_ZONE")) >>
  \o renderCreationContextClose
  \o When(e.last, << SetTo("TIME_ZONE", Save("TIME_ZONE")) >>)

renderEntry(o, e) ==
  CASE e.type = "database"  -> renderDatabase(o, e)
    [] e.type = "table"     -> renderTableStructure(o, e)
    [] e.type = "tableData" -> renderTableData(o, e)
    [] e.type = "viewStub"  -> renderViewStub(o, e)
    [] e.type = "view"      -> renderView(o, e)
    [] e.type = "trigger"   -> renderTrigger(o, e)
    [] e.type = "routine"   -> renderRoutine(o, e)
    [] e.type = "event"     -> renderEvent(o, e)

\* The whole dump of a sequence of archive entries.
renderPlainSql(o, entries) ==
  headerGuardLines(o)
  \o FlattenSeq([i \in DOMAIN entries |-> renderEntry(o, entries[i])])
  \o footerGuardLines(o)

-----------------------------------------------------------------------------
\* What a block changes, and so needs saved by the header: nothing for rows or
\* the database, the character set for tables and views, the SQL mode too for
\* programs, and the time zone for events.
NeedsHeader(o, e) ==
  /\ e.type \notin {"database", "tableData"} => o.setCharset
  /\ e.type \in {"trigger", "routine", "event"} => o.includeSessionGuards
  /\ e.type = "event" => o.timeZone
=============================================================================
