------------------------ MODULE ArchivePlannerProofs ------------------------
(***************************************************************************)
(* What the planner's order and verdict are worth, for every database,     *)
(* selection and set of options: no plan is refused, because what an entry *)
(* needs is always written before it.                                      *)
(***************************************************************************)
EXTENDS ArchivePlanner, TLAPS

\* What introspection hands over.  A database has one trigger of a name, and
\* no view with the name of a table.
WellTyped(db) ==
  \A x \in db.objects : x.name \in Nat /\ x.table \in Nat /\ x.order \in Nat
OneTriggerPerName(db) ==
  \A x, y \in db.objects :
    x.kind = "trigger" /\ y.kind = "trigger" /\ x.name = y.name
      => x.table = y.table /\ x.order = y.order
TablesAreNotViews(db) ==
  \A x, y \in db.objects : x.kind = "table" /\ y.kind = "view" => x.name # y.name

-----------------------------------------------------------------------------
(* What an entry looks like *)

\* The ways an entry comes into a plan.
TableOf(db, n)   == \E x \in db.objects : x.kind = "table" /\ x.name = n
ViewOf(db, n)    == \E x \in db.objects : x.kind = "view" /\ x.name = n
ObjectOf(db, n)  == \E x \in db.objects : x.name = n

MadeFrom(db, e) ==
  \/ e = Entry("database", DatabaseName)
  \/ \E n : TableOf(db, n) /\ e = Entry("table", n)
  \/ \E n : TableOf(db, n) /\ e = [type |-> "tableData", name |-> n, parent |-> n, order |-> 0]
  \/ \E n : ViewOf(db, n) /\ (e = Entry("viewStub", n) \/ e = Entry("view", n))
  \/ \E t \in db.objects : t.kind = "trigger" /\ e = TriggerEntry(t)
  \/ \E n : ObjectOf(db, n) /\ (e = Entry("event", n) \/ e = Entry("function", n)
                                \/ e = Entry("procedure", n))

\* Every entry of a plan was made from an object of the database.
LEMMA EntriesAreMade ==
  ASSUME NEW db, NEW s, NEW o, NEW e \in Entries(db, s, o)
  PROVE  MadeFrom(db, e)
<1>1. \A kind, class : \A n \in NamesOf(db, kind, class, s) :
        \E x \in db.objects : x.kind = kind /\ x.name = n
  BY DEF NamesOf
<1>2. CASE e \in DatabaseEntries(o)
  BY <1>2 DEF DatabaseEntries, MadeFrom
<1>3. CASE e \in TableEntries(db, s, o)
  <2>1. \A n \in SelectedTables(db, s, o) : TableOf(db, n)
    BY <1>1 DEF SelectedTables, TableOf
  <2>2. TableEntryNames(db, s, o) \subseteq SelectedTables(db, s, o)
    BY DEF TableEntryNames
  <2>3. \/ \E n \in SelectedTables(db, s, o) : e = Entry("table", n)
        \/ \E n \in SelectedTables(db, s, o) : e = DataEntry(n)
    BY <1>3, <2>2 DEF TableEntries
  <2>4. CASE \E n \in SelectedTables(db, s, o) : e = Entry("table", n)
    BY <2>1, <2>4 DEF MadeFrom
  <2>5. CASE \E n \in SelectedTables(db, s, o) : e = DataEntry(n)
    <3>1. PICK n \in SelectedTables(db, s, o) : e = DataEntry(n)
      BY <2>5
    <3>2. e = [type |-> "tableData", name |-> n, parent |-> n, order |-> 0]
      BY <3>1 DEF DataEntry, Entry
    <3> QED BY <2>1, <3>1, <3>2 DEF MadeFrom
  <2> QED BY <2>3, <2>4, <2>5
<1>4. CASE e \in ViewEntries(db, s, o)
  <2>1. \A n \in SelectedViews(db, s, o) : ViewOf(db, n)
    BY <1>1 DEF SelectedViews, ViewOf
  <2>2. \E n \in SelectedViews(db, s, o) : e = Entry("viewStub", n) \/ e = Entry("view", n)
    BY <1>4 DEF ViewEntries
  <2> QED BY <2>1, <2>2 DEF MadeFrom
<1>5. CASE e \in TriggerEntries(db, s, o)
  BY <1>5 DEF TriggerEntries, SelectedTriggers, MadeFrom
<1>6. CASE e \in EventEntries(db, s, o)
  <2>1. \E n : ObjectOf(db, n) /\ e = Entry("event", n)
    BY <1>1, <1>6 DEF EventEntries, ObjectOf
  <2> QED BY <2>1 DEF MadeFrom
<1>7. CASE e \in RoutineEntries(db, s, o)
  <2>1. \E n : ObjectOf(db, n) /\ (e = Entry("function", n) \/ e = Entry("procedure", n))
    BY <1>1, <1>7 DEF RoutineEntries, ObjectOf
  <2> QED BY <2>1 DEF MadeFrom
<1> QED BY <1>2, <1>3, <1>4, <1>5, <1>6, <1>7 DEF Entries

\* Rows belong to the table they are named after, triggers to theirs, and no
\* other entry has a parent or an order.
WellFormed(e) ==
  /\ e \in ArchiveEntry
  /\ e.type = "tableData" => e.parent = e.name
  /\ e.type \notin {"tableData", "trigger"} => e.parent = NoName
  /\ e.type # "trigger" => e.order = 0

LEMMA EntriesAreWellFormed ==
  ASSUME NEW db, NEW s, NEW o, WellTyped(db), NEW e \in Entries(db, s, o)
  PROVE  WellFormed(e)
<1> USE DEF WellFormed, ArchiveEntry, ArchiveObjectType, Kind, NoName, Entry, WellTyped
<1>1. MadeFrom(db, e)
  BY EntriesAreMade
<1>2. CASE e = Entry("database", DatabaseName)
  BY <1>2, DatabaseNameAssumption
<1>3. ASSUME NEW n, TableOf(db, n),
             e = Entry("table", n)
               \/ e = [type |-> "tableData", name |-> n, parent |-> n, order |-> 0]
      PROVE  WellFormed(e)
  BY <1>3 DEF TableOf
<1>4. ASSUME NEW n, ViewOf(db, n), e = Entry("viewStub", n) \/ e = Entry("view", n)
      PROVE  WellFormed(e)
  BY <1>4 DEF ViewOf
<1>5. ASSUME NEW t \in db.objects, e = TriggerEntry(t)
      PROVE  WellFormed(e)
  BY <1>5 DEF TriggerEntry
<1>6. ASSUME NEW n, ObjectOf(db, n),
             e = Entry("event", n) \/ e = Entry("function", n) \/ e = Entry("procedure", n)
      PROVE  WellFormed(e)
  BY <1>6 DEF ObjectOf
<1> HIDE DEF WellFormed, Entry
<1> QED BY <1>1, <1>2, <1>3, <1>4, <1>5, <1>6 DEF MadeFrom

\* Where the entries of three types come from.
LEMMA EntryOfATrigger ==
  ASSUME NEW db, NEW s, NEW o, NEW e \in Entries(db, s, o), e.type = "trigger"
  PROVE  \E t \in db.objects : t.kind = "trigger" /\ e = TriggerEntry(t)
BY EntriesAreMade DEF MadeFrom, Entry

LEMMA EntryOfATable ==
  ASSUME NEW db, NEW s, NEW o, NEW e \in Entries(db, s, o), e.type = "table"
  PROVE  TableOf(db, e.name)
BY EntriesAreMade DEF MadeFrom, Entry, TriggerEntry

LEMMA EntryOfAStub ==
  ASSUME NEW db, NEW s, NEW o, NEW e \in Entries(db, s, o), e.type = "viewStub"
  PROVE  ViewOf(db, e.name)
BY EntriesAreMade DEF MadeFrom, Entry, TriggerEntry

-----------------------------------------------------------------------------
(* The order *)

\* The text of an order ranks as a natural number.
LEMMA TextRankIsNatural ==
  ASSUME NEW n \in Nat
  PROVE  TextRank(n) \in Nat
<1>1. n \div 10 \in Nat /\ n % 10 \in Nat
  OBVIOUS
<1> QED BY <1>1 DEF TextRank

\* The keys of an entry are six natural numbers.
LEMMA SortKeysAreNatural ==
  ASSUME NEW e \in ArchiveEntry
  PROVE  /\ dumpSectionPriority(e.type) \in Nat /\ routineKindPriority(e.type) \in Nat
         /\ groupKey(e) \in Nat /\ mainGroupPriority(e.type) \in Nat
         /\ secondaryKey(e) \in Nat /\ e.name \in Nat
<1>1. e.type \in ArchiveObjectType /\ e.name \in Nat /\ e.parent \in Nat /\ e.order \in Nat
  BY DEF ArchiveEntry
<1>2. dumpSectionPriority(e.type) \in Nat
  BY <1>1 DEF dumpSectionPriority, ArchiveObjectType, Kind
<1>3. secondaryKey(e) \in Nat
  BY <1>1, TextRankIsNatural DEF secondaryKey
<1> QED BY <1>1, <1>2, <1>3 DEF routineKindPriority, groupKey, mainGroupPriority

\* The comparison of six numbers is a strict order, and total on keys that
\* differ.
LEMMA ComparisonIsStrict ==
  ASSUME NEW k \in [1..6 -> Nat], NEW l \in [1..6 -> Nat], NEW m \in [1..6 -> Nat]
  PROVE  /\ ~compareEntries(k, k)
         /\ compareEntries(k, l) => ~compareEntries(l, k)
         /\ compareEntries(k, l) /\ compareEntries(l, m) => compareEntries(k, m)
         /\ k # l => compareEntries(k, l) \/ compareEntries(l, k)
<1>1. /\ \A i \in 1..6 : k[i] \in Nat /\ l[i] \in Nat /\ m[i] \in Nat
  OBVIOUS
<1>2. ~compareEntries(k, k)
  BY <1>1 DEF compareEntries
<1>3. ASSUME compareEntries(k, l), compareEntries(l, k) PROVE FALSE
  <2>1. PICK a \in 1..6 : k[a] < l[a] /\ \A j \in 1..(a - 1) : k[j] = l[j]
    BY <1>3 DEF compareEntries
  <2>2. PICK b \in 1..6 : l[b] < k[b] /\ \A j \in 1..(b - 1) : l[j] = k[j]
    BY <1>3 DEF compareEntries
  <2>3. CASE a < b
    BY <1>1, <2>1, <2>2, <2>3
  <2>4. CASE b < a
    BY <1>1, <2>1, <2>2, <2>4
  <2>5. CASE a = b
    BY <1>1, <2>1, <2>2, <2>5
  <2> QED BY <2>3, <2>4, <2>5
<1>4. ASSUME compareEntries(k, l), compareEntries(l, m) PROVE compareEntries(k, m)
  <2>1. PICK a \in 1..6 : k[a] < l[a] /\ \A j \in 1..(a - 1) : k[j] = l[j]
    BY <1>4 DEF compareEntries
  <2>2. PICK b \in 1..6 : l[b] < m[b] /\ \A j \in 1..(b - 1) : l[j] = m[j]
    BY <1>4 DEF compareEntries
  <2>3. CASE a <= b
    <3>1. k[a] < m[a] /\ \A j \in 1..(a - 1) : k[j] = m[j]
      BY <1>1, <2>1, <2>2, <2>3
    <3> QED BY <3>1 DEF compareEntries
  <2>4. CASE b < a
    <3>1. k[b] < m[b] /\ \A j \in 1..(b - 1) : k[j] = m[j]
      BY <1>1, <2>1, <2>2, <2>4
    <3> QED BY <3>1 DEF compareEntries
  <2> QED BY <2>3, <2>4
<1>5. ASSUME k # l PROVE compareEntries(k, l) \/ compareEntries(l, k)
  <2> DEFINE Differ(i) == k[i] # l[i] /\ \A j \in 1..(i - 1) : k[j] = l[j]
  <2>1. \E i \in 1..6 : k[i] # l[i]
    BY <1>5
  <2>2. \E i \in 1..6 : Differ(i)
    <3>1. CASE k[1] # l[1]
      BY <3>1
    <3>2. CASE k[1] = l[1] /\ k[2] # l[2]
      BY <3>2
    <3>3. CASE k[1] = l[1] /\ k[2] = l[2] /\ k[3] # l[3]
      BY <3>3
    <3>4. CASE k[1] = l[1] /\ k[2] = l[2] /\ k[3] = l[3] /\ k[4] # l[4]
      BY <3>4
    <3>5. CASE k[1] = l[1] /\ k[2] = l[2] /\ k[3] = l[3] /\ k[4] = l[4] /\ k[5] # l[5]
      BY <3>5
    <3>6. CASE /\ k[1] = l[1] /\ k[2] = l[2] /\ k[3] = l[3] /\ k[4] = l[4] /\ k[5] = l[5]
               /\ k[6] # l[6]
      BY <3>6
    <3> QED BY <2>1, <3>1, <3>2, <3>3, <3>4, <3>5, <3>6
  <2>3. PICK i \in 1..6 : Differ(i)
    BY <2>2
  <2>4. k[i] < l[i] \/ l[i] < k[i]
    BY <1>1, <2>3
  <2> QED BY <2>3, <2>4 DEF compareEntries
<1> QED BY <1>2, <1>3, <1>4, <1>5

\* The six keys, as a function.
LEMMA SortKeyType ==
  ASSUME NEW e \in ArchiveEntry
  PROVE  SortKey(e) \in [1..6 -> Nat]
BY SortKeysAreNatural DEF SortKey

\* The order of the entries is strict and transitive.
THEOREM OrderIsStrict ==
  ASSUME NEW c \in ArchiveEntry, NEW d \in ArchiveEntry, NEW e \in ArchiveEntry
  PROVE  /\ ~Before(c, c)
         /\ Before(c, d) => ~Before(d, c)
         /\ Before(c, d) /\ Before(d, e) => Before(c, e)
BY SortKeyType, ComparisonIsStrict DEF Before
\* Distinct entries of one plan compare one way or the other, so the plan is
\* one sequence, whatever sort() does with equal keys.
THEOREM OrderIsTotal ==
  ASSUME NEW db, NEW s, NEW o, WellTyped(db), OneTriggerPerName(db), TablesAreNotViews(db),
         NEW d \in Entries(db, s, o), NEW e \in Entries(db, s, o), d # e
  PROVE  Before(d, e) \/ Before(e, d)
<1>1. WellFormed(d) /\ WellFormed(e)
  BY EntriesAreWellFormed
<1>2. SUFFICES ASSUME SortKey(d) = SortKey(e) PROVE FALSE
  BY <1>1, SortKeyType, ComparisonIsStrict DEF Before, WellFormed
<1>3. /\ dumpSectionPriority(d.type) = dumpSectionPriority(e.type)
      /\ routineKindPriority(d.type) = routineKindPriority(e.type)
      /\ groupKey(d) = groupKey(e)
      /\ mainGroupPriority(d.type) = mainGroupPriority(e.type)
      /\ d.name = e.name
  BY <1>2 DEF SortKey
<1>4. \/ d.type = e.type
      \/ {d.type, e.type} = {"table", "viewStub"}
  BY <1>1, <1>3 DEF WellFormed, ArchiveEntry, ArchiveObjectType, Kind, dumpSectionPriority,
     routineKindPriority, mainGroupPriority
<1>5. CASE d.type = e.type
  <2>1. CASE d.type = "trigger"
    <3>1. PICK t \in db.objects : t.kind = "trigger" /\ d = TriggerEntry(t)
      BY <2>1, EntryOfATrigger
    <3>2. e.type = "trigger"
      BY <1>5, <2>1
    <3>3. PICK u \in db.objects : u.kind = "trigger" /\ e = TriggerEntry(u)
      BY <3>2, EntryOfATrigger
    <3> QED BY <1>3, <3>1, <3>3 DEF TriggerEntry, OneTriggerPerName
  <2>2. CASE d.type # "trigger"
    <3>1. d.parent = e.parent /\ d.order = e.order
      BY <1>1, <1>3, <1>5, <2>2 DEF WellFormed
    <3> QED BY <1>1, <1>3, <1>5, <3>1 DEF WellFormed, ArchiveEntry
  <2> QED BY <2>1, <2>2
<1>6. CASE {d.type, e.type} = {"table", "viewStub"}
  <2>1. \/ d.type = "table" /\ e.type = "viewStub"
        \/ e.type = "table" /\ d.type = "viewStub"
    BY <1>6
  <2>2. TableOf(db, d.name) /\ ViewOf(db, d.name)
    BY <1>3, <2>1, EntryOfATable, EntryOfAStub
  <2> QED BY <2>2 DEF TablesAreNotViews, TableOf, ViewOf
<1> QED BY <1>4, <1>5, <1>6
-----------------------------------------------------------------------------
(* Requirements *)

\* A requirement is never recorded as less, and never of an entry on itself.
LEMMA DependsHardMeansRequires ==
  ASSUME NEW d, NEW e, NEW foreignKeys
  PROVE  DependsHard(e, d, foreignKeys) <=> (d # e /\ RequiresHard(e, d))
BY DEF DependsHard, Strength

\* An entry is written after all it needs: the database is first, a table's
\* rows and triggers stand in its block behind it in this order, and all stubs
\* are in the section before the views'.
THEOREM HardDependenciesComeFirst ==
  ASSUME NEW d, WellFormed(d), NEW e, WellFormed(e), RequiresHard(e, d)
  PROVE  Before(d, e)
<1> DEFINE k == SortKey(d)
           l == SortKey(e)
<1>1. /\ d \in ArchiveEntry /\ e \in ArchiveEntry
      /\ d.name \in Nat /\ e.name \in Nat /\ d.parent \in Nat /\ e.parent \in Nat
  BY DEF WellFormed, ArchiveEntry
<1>2. /\ k[1] = dumpSectionPriority(d.type) /\ l[1] = dumpSectionPriority(e.type)
      /\ k[2] = routineKindPriority(d.type) /\ l[2] = routineKindPriority(e.type)
      /\ k[3] = groupKey(d) /\ l[3] = groupKey(e)
      /\ k[4] = mainGroupPriority(d.type) /\ l[4] = mainGroupPriority(e.type)
  BY DEF SortKey
<1>3. ASSUME k[1] < l[1] PROVE Before(d, e)
  <2>1. \A j \in 1..(1 - 1) : k[j] = l[j]
    OBVIOUS
  <2> QED BY <1>3, <2>1 DEF Before, compareEntries
<1>4. ASSUME k[1] = l[1], k[2] = l[2], k[3] = l[3], k[4] < l[4] PROVE Before(d, e)
  <2>1. \A j \in 1..(4 - 1) : k[j] = l[j]
    BY <1>4
  <2> QED BY <1>4, <2>1 DEF Before, compareEntries
<1> HIDE DEF k, l
<1>5. CASE d.type = "database" /\ e.type # "database"
  <2>1. dumpSectionPriority(d.type) = 0
    BY <1>5 DEF dumpSectionPriority
  <2>2. dumpSectionPriority(e.type) \in Nat \ {0}
    BY <1>1, <1>5 DEF dumpSectionPriority, ArchiveEntry, ArchiveObjectType, Kind
  <2> QED BY <1>2, <1>3, <2>1, <2>2
<1>6. CASE d.type = "table" /\ e.type = "tableData" /\ d.name = e.name
  <2>1. /\ dumpSectionPriority(d.type) = 1 /\ dumpSectionPriority(e.type) = 1
        /\ routineKindPriority(d.type) = 0 /\ routineKindPriority(e.type) = 0
        /\ mainGroupPriority(d.type) = 0 /\ mainGroupPriority(e.type) = 1
    BY <1>6 DEF dumpSectionPriority, routineKindPriority, mainGroupPriority
  <2>2. groupKey(d) = groupKey(e)
    BY <1>6 DEF groupKey, WellFormed
  <2> QED BY <1>2, <1>4, <2>1, <2>2
<1>7. CASE d.type \in {"table", "tableData"} /\ e.type = "trigger" /\ d.name = e.parent
  <2>1. /\ dumpSectionPriority(d.type) = 1 /\ dumpSectionPriority(e.type) = 1
        /\ routineKindPriority(d.type) = 0 /\ routineKindPriority(e.type) = 0
        /\ mainGroupPriority(d.type) \in {0, 1} /\ mainGroupPriority(e.type) = 2
    BY <1>7 DEF dumpSectionPriority, routineKindPriority, mainGroupPriority
  <2>2. groupKey(d) = groupKey(e)
    BY <1>7 DEF groupKey, WellFormed
  <2> QED BY <1>2, <1>4, <2>1, <2>2
<1>8. CASE d.type = "viewStub" /\ e.type = "view"
  <2>1. dumpSectionPriority(d.type) = 1 /\ dumpSectionPriority(e.type) = 4
    BY <1>8 DEF dumpSectionPriority
  <2> QED BY <1>2, <1>3, <2>1
<1> QED BY <1>5, <1>6, <1>7, <1>8 DEF RequiresHard

\* How far down a chain of requirements an entry may stand.
Depth(e) ==
  CASE e.type = "database" -> 0
    [] e.type \in {"tableData", "view"} -> 2
    [] e.type = "trigger" -> 3
    [] OTHER -> 1

LEMMA DepthsAreSmall ==
  ASSUME NEW e
  PROVE  Depth(e) \in 0..3
BY DEF Depth

LEMMA RequirementsAreShallower ==
  ASSUME NEW d, NEW e, RequiresHard(e, d)
  PROVE  Depth(d) < Depth(e)
<1>1. \/ d.type = "database" /\ e.type # "database"
      \/ d.type = "table" /\ e.type = "tableData"
      \/ d.type \in {"table", "tableData"} /\ e.type = "trigger"
      \/ d.type = "viewStub" /\ e.type = "view"
  BY DEF RequiresHard
<1>2. CASE d.type = "database" /\ e.type # "database"
  BY <1>2 DEF Depth
<1>3. CASE d.type = "table" /\ e.type = "tableData"
  BY <1>3 DEF Depth
<1>4. CASE d.type \in {"table", "tableData"} /\ e.type = "trigger"
  BY <1>4 DEF Depth
<1>5. CASE d.type = "viewStub" /\ e.type = "view"
  BY <1>5 DEF Depth
<1> QED BY <1>1, <1>2, <1>3, <1>4, <1>5

\* No entries require one another in a circle: a chain of requirements has at
\* most four entries.
THEOREM NoHardCycles ==
  ASSUME NEW E, NEW foreignKeys
  PROVE  findHardCycles(E, foreignKeys) = {}
<1>1. SUFFICES ASSUME NEW C, C # {},
                      \A e \in C : \E d \in C : DependsHard(e, d, foreignKeys)
               PROVE  FALSE
  BY DEF findHardCycles
<1>2. \A e \in C : \E d \in C : Depth(d) < Depth(e)
  BY <1>1, DependsHardMeansRequires, RequirementsAreShallower
<1>3. \A e \in C : Depth(e) \in 0..3
  BY DepthsAreSmall
<1>4. PICK e0 \in C : TRUE
  BY <1>1
<1>5. PICK e1 \in C : Depth(e1) < Depth(e0)
  BY <1>2, <1>4
<1>6. PICK e2 \in C : Depth(e2) < Depth(e1)
  BY <1>2, <1>5
<1>7. PICK e3 \in C : Depth(e3) < Depth(e2)
  BY <1>2, <1>6
<1>8. PICK e4 \in C : Depth(e4) < Depth(e3)
  BY <1>2, <1>7
<1> HIDE DEF Depth
<1> QED BY <1>3, <1>4, <1>5, <1>6, <1>7, <1>8

\* Every plan is valid: the checks of the planner never fire, whatever the
\* database, its foreign keys, the selection and the options are.
THEOREM PlansNeverFail ==
  ASSUME NEW db, NEW s, NEW o, NEW foreignKeys, WellTyped(db), OneTriggerPerName(db)
  PROVE  IsValid(Entries(db, s, o), foreignKeys)
<1> DEFINE E == Entries(db, s, o)
<1>1. \A e \in E : WellFormed(e)
  BY EntriesAreWellFormed
<1>2. Duplicates(E) = {}
  <2>1. SUFFICES ASSUME NEW e \in E, NEW d \in E, d # e, Identity(d) = Identity(e) PROVE FALSE
    BY DEF Duplicates
  <2>2. d.type = e.type /\ d.name = e.name /\ d.parent = e.parent
    BY <2>1 DEF Identity
  <2>3. CASE e.type = "trigger"
    <3>1. PICK t \in db.objects : t.kind = "trigger" /\ d = TriggerEntry(t)
      BY <2>1, <2>2, <2>3, EntryOfATrigger
    <3>2. PICK u \in db.objects : u.kind = "trigger" /\ e = TriggerEntry(u)
      BY <2>1, <2>3, EntryOfATrigger
    <3> QED BY <2>1, <2>2, <3>1, <3>2 DEF TriggerEntry, OneTriggerPerName
  <2>4. CASE e.type # "trigger"
    BY <1>1, <2>1, <2>2, <2>4 DEF WellFormed, ArchiveEntry
  <2> QED BY <2>3, <2>4
<1>3. UnsatisfiedDependencies(E, foreignKeys) = {}
  <2>1. SUFFICES ASSUME NEW e \in E, NEW d \in E, DependsHard(e, d, foreignKeys), Before(e, d)
                 PROVE  FALSE
    BY DEF UnsatisfiedDependencies
  <2>2. Before(d, e)
    BY <1>1, <2>1, DependsHardMeansRequires, HardDependenciesComeFirst
  <2> QED BY <1>1, <2>1, <2>2, OrderIsStrict DEF WellFormed
<1>4. findHardCycles(E, foreignKeys) = {}
  BY NoHardCycles
<1> QED BY <1>2, <1>3, <1>4 DEF IsValid
=============================================================================
