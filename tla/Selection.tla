------------------------------ MODULE Selection ------------------------------
(***************************************************************************)
(* Which objects of a database a dump is about: the caller's lists of      *)
(* names, and the comparison of a name with them.                          *)
(*                                                                         *)
(* A name is a number, and names are ordered as their code points are;     *)
(* Lower maps a name to its lower-case form.                               *)
(***************************************************************************)
EXTENDS Naturals

CONSTANTS Name, Lower

ASSUME NamesAssumption == Name \subseteq Nat \ {0} /\ Lower \in [Name -> Name]

NameClass == {"tables", "views", "routines", "triggers", "events"}

\* A list of names to include need not be given: the empty set is no list,
\* and a set with one element the list.
Lists(S) == {{}} \cup {{l} : l \in S}

DumpSelection ==
  [ include : [NameClass -> Lists(SUBSET Name)],
    exclude : [NameClass -> SUBSET Name],
    dataExcludedTables : SUBSET Name ]

NormalizedDumpSelection ==
  [ include : [NameClass -> Lists(SUBSET Name)],
    exclude : [NameClass -> SUBSET Name],
    dataExcludedTables : SUBSET Name,
    caseInsensitiveTableNames : BOOLEAN ]

\* Names of tables and views are folded when the server compares them so;
\* names of stored programs always are.
Fold(class, caseInsensitive, name) ==
  IF caseInsensitive \/ class \notin {"tables", "views"} THEN Lower[name] ELSE name

toSetUnfolded(class, caseInsensitive, names) == names
toSet(class, caseInsensitive, names) == {Fold(class, caseInsensitive, n) : n \in names}

normalizeDumpSelection(s, caseInsensitive) ==
  [ include |-> [c \in NameClass |-> {toSet(c, caseInsensitive, l) : l \in s.include[c]}],
    exclude |-> [c \in NameClass |-> toSet(c, caseInsensitive, s.exclude[c])],
    dataExcludedTables |-> toSet("tables", caseInsensitive, s.dataExcludedTables),
    caseInsensitiveTableNames |-> caseInsensitive ]

isSelected(key, include, exclude) ==
  key \notin exclude /\ \A list \in include : key \in list

\* isTableSelected, isViewSelected, isRoutineSelected, isTriggerSelected and
\* isEventSelected.
IsSelected(class, name, s) ==
  isSelected(Fold(class, s.caseInsensitiveTableNames, name), s.include[class], s.exclude[class])

isTableDataExcluded(name, s) ==
  Fold("tables", s.caseInsensitiveTableNames, name) \in s.dataExcludedTables
=============================================================================
