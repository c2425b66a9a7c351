---------------------------- MODULE DumpRunProofs ----------------------------
(***************************************************************************)
(* Proofs about DumpRun, for all archives, options, bounds and - but for   *)
(* the last theorem - all callers' sessions.                               *)
(***************************************************************************)
EXTENDS DumpRun, TLAPS

-----------------------------------------------------------------------------
(* The read session: what its statements keep, and what the places of      *)
(* begin's order read, send and change                                     *)

\* The operators on a session keep its type.
LEMMA SessionTypes ==
  ASSUME NEW V, NEW s \in Session(V), NEW now \in V
  PROVE  /\ End(s) \in Session(V)
         /\ \A i \in DOMAIN BeginOrder : Begin(s, BeginOrder[i], now) \in Session(V)
         /\ \A v \in SessionVariable : \A x \in Setting :
              [s EXCEPT !.vars = [@ EXCEPT ![v] = x]] \in Session(V)
<1>1. End(s) \in Session(V)
  BY DEF Session, End
<1>2. \A v \in SessionVariable : \A x \in Setting :
        [s EXCEPT !.vars = [@ EXCEPT ![v] = x]] \in Session(V)
  BY DEF Session
<1>3. SetNames(s.vars, "dump") \in [SessionVariable -> Setting]
  BY DEF Session, SetNames, Setting
<1>4. ASSUME NEW i \in DOMAIN BeginOrder
      PROVE  Begin(s, BeginOrder[i], now) \in Session(V)
  <2>1. [s EXCEPT !.vars = SetNames(s.vars, "dump")] \in Session(V)
    BY <1>3 DEF Session
  <2>2. /\ [s EXCEPT !.inTx = TRUE, !.snapshot = now] \in Session(V)
        /\ [s EXCEPT !.readLock = TRUE] \in Session(V)
    BY DEF Session
  <2>3. /\ SetVariable(s, "sql_mode", "dump") \in Session(V)
        /\ SetVariable(s, "time_zone", "dump") \in Session(V)
        /\ SetVariable(s, "transaction_isolation", "dump") \in Session(V)
    BY <1>2 DEF SetVariable, SessionVariable, Setting
  <2>. QED BY <2>1, <2>2, <2>3 DEF Begin
<1>. QED BY <1>1, <1>2, <1>4

\* COMMIT, UNLOCK TABLES and a lost connection leave nothing held.
LEMMA Ended ==
  ASSUME NEW V, NEW s \in Session(V)
  PROVE  ~End(s).inTx /\ ~End(s).readLock /\ End(s).vars = s.vars
BY DEF Session, End

\* Neither does putting a variable back; it holds nothing either.
LEMMA RestoreTypes ==
  ASSUME NEW V, NEW s \in Session(V), NEW i \in DOMAIN RestoreOrder,
         NEW values \in [SessionVariable -> Setting \cup {"unread"}],
         RestoreOrder[i] = "character_set_client" \/ values[RestoreOrder[i]] \in Setting,
         values["character_set_client"] \in Setting
  PROVE  /\ Restore(s, RestoreOrder[i], values) \in Session(V)
         /\ Restore(s, RestoreOrder[i], values).inTx = s.inTx
         /\ Restore(s, RestoreOrder[i], values).readLock = s.readLock
<1>1. SetNames(s.vars, values["character_set_client"]) \in [SessionVariable -> Setting]
  BY DEF Session, SetNames, Setting
<1>2. RestoreOrder[i] \in SessionVariable
  BY DEF RestoreOrder, SessionVariable, CharsetTrio
<1>3. CASE RestoreOrder[i] = "character_set_client"
  BY <1>1, <1>3 DEF Restore, Session
<1>4. CASE RestoreOrder[i] # "character_set_client"
  <2>1. values[RestoreOrder[i]] \in Setting
    BY <1>4
  <2>. QED BY <1>2, <1>4, <2>1 DEF Restore, Session, SetVariable
<1>. QED BY <1>3, <1>4

\* What each place of the order is.
LEMMA BeginPlaces ==
  /\ DOMAIN BeginOrder = 1..9
  /\ BeginOrder[1] = "read sql_mode" /\ BeginOrder[2] = "read time_zone"
  /\ BeginOrder[3] = "read character_set_client"
  /\ BeginOrder[4] = "set sql_mode" /\ BeginOrder[5] = "set time_zone"
  /\ BeginOrder[6] = "set names" /\ BeginOrder[7] = "isolation"
  /\ BeginOrder[8] = "start" /\ BeginOrder[9] = "lock"
BY DEF BeginOrder

\* The statements begin reads a variable with.
LEMMA ReadPlaces ==
  DOMAIN ReadsVariable = { "read sql_mode", "read time_zone", "read character_set_client" }
BY DEF ReadsVariable

\* begin reads in its first three places, and changes something in the others.
LEMMA BeginReads ==
  ASSUME NEW i \in 1..9
  PROVE  /\ i <= 3 => BeginOrder[i] \in DOMAIN ReadsVariable
         /\ i > 3 => BeginOrder[i] \notin DOMAIN ReadsVariable
<1>1. /\ BeginOrder[1] \in DOMAIN ReadsVariable
      /\ BeginOrder[2] \in DOMAIN ReadsVariable
      /\ BeginOrder[3] \in DOMAIN ReadsVariable
  BY BeginPlaces, ReadPlaces
<1>2. /\ BeginOrder[4] \notin DOMAIN ReadsVariable
      /\ BeginOrder[5] \notin DOMAIN ReadsVariable
      /\ BeginOrder[6] \notin DOMAIN ReadsVariable
      /\ BeginOrder[7] \notin DOMAIN ReadsVariable
      /\ BeginOrder[8] \notin DOMAIN ReadsVariable
      /\ BeginOrder[9] \notin DOMAIN ReadsVariable
  BY BeginPlaces, ReadPlaces
<1>. QED BY <1>1, <1>2

\* What the first three read, and that every session holds its own there.
LEMMA ReadVariables ==
  /\ ReadsVariable[BeginOrder[1]] = "sql_mode"
  /\ ReadsVariable[BeginOrder[2]] = "time_zone"
  /\ ReadsVariable[BeginOrder[3]] = "character_set_client"
<1>1. /\ ReadsVariable["read sql_mode"] = "sql_mode"
      /\ ReadsVariable["read time_zone"] = "time_zone"
      /\ ReadsVariable["read character_set_client"] = "character_set_client"
  BY DEF ReadsVariable
<1>. QED BY <1>1, BeginPlaces

LEMMA FoundWhatIsRead ==
  ASSUME NEW c
  PROVE  /\ Found(c)["sql_mode"] = "caller"
         /\ Found(c)["time_zone"] = "caller"
         /\ Found(c)["character_set_client"] = "caller"
BY DEF Found, SessionVariable, CharsetTrio

\* What is kept when a place is answered.
LEMMA KeptByPlace ==
  ASSUME NEW X, NEW values \in [SessionVariable -> X], NEW s
  PROVE  /\ Kept(values, BeginOrder[1], s)["sql_mode"] = s.vars["sql_mode"]
         /\ Kept(values, BeginOrder[2], s)["time_zone"] = s.vars["time_zone"]
         /\ Kept(values, BeginOrder[2], s)["sql_mode"] = values["sql_mode"]
         /\ Kept(values, BeginOrder[3], s)["character_set_client"] = s.vars["character_set_client"]
         /\ Kept(values, BeginOrder[3], s)["time_zone"] = values["time_zone"]
         /\ Kept(values, BeginOrder[3], s)["sql_mode"] = values["sql_mode"]
         /\ \A i \in 4..9 : Kept(values, BeginOrder[i], s) = values
<1>1. \A i \in 4..9 : Kept(values, BeginOrder[i], s) = values
  BY BeginReads DEF Kept
<1>2. /\ Kept(values, "read sql_mode", s)["sql_mode"] = s.vars["sql_mode"]
      /\ Kept(values, "read time_zone", s)["time_zone"] = s.vars["time_zone"]
      /\ Kept(values, "read time_zone", s)["sql_mode"] = values["sql_mode"]
  BY DEF Kept, ReadsVariable, SessionVariable, CharsetTrio
<1>3. /\ Kept(values, "read character_set_client", s)["character_set_client"] =
           s.vars["character_set_client"]
      /\ Kept(values, "read character_set_client", s)["time_zone"] = values["time_zone"]
      /\ Kept(values, "read character_set_client", s)["sql_mode"] = values["sql_mode"]
  BY DEF Kept, ReadsVariable, SessionVariable, CharsetTrio
<1>. QED BY <1>1, <1>2, <1>3, BeginPlaces

\* Reading changes nothing at the server.
LEMMA ReadChangesNothing ==
  ASSUME NEW s, NEW now, NEW i \in 1..3
  PROVE  Begin(s, BeginOrder[i], now) = s
<1>1. /\ Begin(s, "read sql_mode", now) = s
      /\ Begin(s, "read time_zone", now) = s
      /\ Begin(s, "read character_set_client", now) = s
  BY DEF Begin
<1>2. i = 1 \/ i = 2 \/ i = 3
  OBVIOUS
<1>. QED BY <1>1, <1>2, BeginPlaces

\* Pinning the session opens no snapshot and takes no lock.
LEMMA PinHoldsNothing ==
  ASSUME NEW V, NEW s \in Session(V), NEW now, NEW i \in 1..7
  PROVE  /\ Begin(s, BeginOrder[i], now).inTx = s.inTx
         /\ Begin(s, BeginOrder[i], now).readLock = s.readLock
         /\ i = 7 => Begin(s, BeginOrder[i], now).vars["transaction_isolation"] = "dump"
<1>1. \A v, x : /\ SetVariable(s, v, x).inTx = s.inTx
                /\ SetVariable(s, v, x).readLock = s.readLock
  BY DEF SetVariable, Session
<1>2. \A m : /\ [s EXCEPT !.vars = m].inTx = s.inTx
             /\ [s EXCEPT !.vars = m].readLock = s.readLock
  BY DEF Session
<1>3. BeginOrder[i] # "start" /\ BeginOrder[i] # "lock"
  <2>1. i = 1 \/ i = 2 \/ i = 3 \/ i = 4 \/ i = 5 \/ i = 6 \/ i = 7
    OBVIOUS
  <2>. QED BY <2>1, BeginPlaces
<1>4. /\ Begin(s, BeginOrder[i], now).inTx = s.inTx
      /\ Begin(s, BeginOrder[i], now).readLock = s.readLock
  BY <1>1, <1>2, <1>3 DEF Begin
<1>5. ASSUME i = 7
      PROVE Begin(s, BeginOrder[i], now).vars["transaction_isolation"] = "dump"
  <2>1. Begin(s, "isolation", now) = SetVariable(s, "transaction_isolation", "dump")
    BY DEF Begin
  <2>2. SetVariable(s, "transaction_isolation", "dump").vars["transaction_isolation"] = "dump"
    BY DEF SetVariable, Session, SessionVariable
  <2>3. BeginOrder[i] = "isolation"
    BY <1>5, BeginPlaces
  <2>. QED BY <2>1, <2>2, <2>3
<1>. QED BY <1>4, <1>5

\* The last two places open the snapshot and take the lock.
LEMMA HoldPlaces ==
  ASSUME NEW s, NEW now
  PROVE  /\ Begin(s, BeginOrder[8], now) = [s EXCEPT !.inTx = TRUE, !.snapshot = now]
         /\ Begin(s, BeginOrder[9], now) = [s EXCEPT !.readLock = TRUE]
<1>1. /\ Begin(s, "start", now) = [s EXCEPT !.inTx = TRUE, !.snapshot = now]
      /\ Begin(s, "lock", now) = [s EXCEPT !.readLock = TRUE]
  BY DEF Begin
<1>. QED BY <1>1, BeginPlaces

\* Which places are sent, for options o and a session of c.
LEMMA SentPlaces ==
  ASSUME NEW o, NEW c
  PROVE  /\ IsSent(BeginOrder[1], o, c)  /\ IsSent(BeginOrder[3], o, c)
         /\ IsSent(BeginOrder[6], o, c)
         /\ IsSent(BeginOrder[2], o, c) <=> o.timeZone
         /\ IsSent(BeginOrder[5], o, c) <=> o.timeZone
         /\ IsSent(BeginOrder[4], o, c) <=> c.conflictingMode
         /\ IsSent(BeginOrder[7], o, c) <=> o.consistency = "single-transaction"
         /\ IsSent(BeginOrder[8], o, c) <=> o.consistency = "single-transaction"
         /\ IsSent(BeginOrder[9], o, c) <=> o.consistency = "lock-all-tables"
<1>1. /\ IsSent("read sql_mode", o, c)
      /\ IsSent("read character_set_client", o, c)
      /\ IsSent("set names", o, c)
  BY DEF IsSent
<1>2. /\ IsSent("read time_zone", o, c) <=> o.timeZone
      /\ IsSent("set time_zone", o, c) <=> o.timeZone
      /\ IsSent("set sql_mode", o, c) <=> c.conflictingMode
  BY Zenon DEF IsSent
<1>3. /\ IsSent("isolation", o, c) <=> o.consistency = "single-transaction"
      /\ IsSent("start", o, c) <=> o.consistency = "single-transaction"
      /\ IsSent("lock", o, c) <=> o.consistency = "lock-all-tables"
  BY DEF IsSent
<1>. QED BY <1>1, <1>2, <1>3, BeginPlaces

\* Each variable is assigned at one place only.
LEMMA BeginTouches ==
  ASSUME NEW V, NEW s \in Session(V), NEW now, NEW i \in 1..9
  PROVE  /\ i # 4 => Begin(s, BeginOrder[i], now).vars["sql_mode"] = s.vars["sql_mode"]
         /\ i # 5 => Begin(s, BeginOrder[i], now).vars["time_zone"] = s.vars["time_zone"]
         /\ i # 7 => Begin(s, BeginOrder[i], now).vars["transaction_isolation"] =
                       s.vars["transaction_isolation"]
         /\ i = 7 => Begin(s, BeginOrder[i], now).vars["transaction_isolation"] = "dump"
<1>1. ASSUME NEW v \in { "sql_mode", "time_zone", "transaction_isolation" }, NEW st,
             st = "set sql_mode" => v # "sql_mode",
             st = "set time_zone" => v # "time_zone",
             st = "isolation" => v # "transaction_isolation"
      PROVE  Begin(s, st, now).vars[v] = s.vars[v]
  <2>0. v \in SessionVariable /\ v \notin CharsetTrio
    BY DEF SessionVariable, CharsetTrio
  <2>1. ASSUME NEW w, w # v PROVE SetVariable(s, w, "dump").vars[v] = s.vars[v]
    BY <2>0, <2>1 DEF SetVariable, Session
  <2>2. [s EXCEPT !.vars = SetNames(s.vars, "dump")].vars[v] = s.vars[v]
    BY <2>0 DEF SetNames, Session
  <2>3. /\ [s EXCEPT !.inTx = TRUE, !.snapshot = now].vars[v] = s.vars[v]
        /\ [s EXCEPT !.readLock = TRUE].vars[v] = s.vars[v]
    BY DEF Session
  <2>. QED BY <1>1, <2>1, <2>2, <2>3 DEF Begin
<1>2. i = 1 \/ i = 2 \/ i = 3 \/ i = 4 \/ i = 5 \/ i = 6 \/ i = 7 \/ i = 8 \/ i = 9
  OBVIOUS
<1>3. /\ i # 4 => BeginOrder[i] # "set sql_mode"
      /\ i # 5 => BeginOrder[i] # "set time_zone"
      /\ i # 7 => BeginOrder[i] # "isolation"
  BY <1>2, BeginPlaces
<1>4. i # 4 => Begin(s, BeginOrder[i], now).vars["sql_mode"] = s.vars["sql_mode"]
  BY <1>1, <1>3
<1>5. i # 5 => Begin(s, BeginOrder[i], now).vars["time_zone"] = s.vars["time_zone"]
  BY <1>1, <1>3
<1>6. i # 7 => Begin(s, BeginOrder[i], now).vars["transaction_isolation"] =
                 s.vars["transaction_isolation"]
  BY <1>1, <1>3
<1>7. i = 7 => Begin(s, BeginOrder[i], now).vars["transaction_isolation"] = "dump"
  BY PinHoldsNothing
<1>. QED BY <1>4, <1>5, <1>6, <1>7

\* Places 4, 5 and 6 pin a variable each, the last SET NAMES all three of the
\* character sets, which no other place assigns.
LEMMA BeginPins ==
  ASSUME NEW V, NEW s \in Session(V), NEW now, NEW i \in 1..9
  PROVE  /\ i = 4 => Begin(s, BeginOrder[i], now).vars["sql_mode"] = "dump"
         /\ i = 5 => Begin(s, BeginOrder[i], now).vars["time_zone"] = "dump"
         /\ i = 6 => \A v \in CharsetTrio : Begin(s, BeginOrder[i], now).vars[v] = "dump"
         /\ i # 6 => \A v \in CharsetTrio : Begin(s, BeginOrder[i], now).vars[v] = s.vars[v]
<1>1. \A w \in SessionVariable : SetVariable(s, w, "dump").vars[w] = "dump"
  BY DEF SetVariable, Session
<1>2. /\ Begin(s, "set sql_mode", now) = SetVariable(s, "sql_mode", "dump")
      /\ Begin(s, "set time_zone", now) = SetVariable(s, "time_zone", "dump")
      /\ Begin(s, "set names", now) = [s EXCEPT !.vars = SetNames(s.vars, "dump")]
  BY DEF Begin
<1>3. "sql_mode" \in SessionVariable /\ "time_zone" \in SessionVariable
  BY DEF SessionVariable
<1>4. i = 4 => Begin(s, BeginOrder[i], now).vars["sql_mode"] = "dump"
  <2>1. SetVariable(s, "sql_mode", "dump").vars["sql_mode"] = "dump"
    BY <1>1, <1>3
  <2>2. BeginOrder[4] = "set sql_mode"
    BY BeginPlaces
  <2>. QED BY <1>2, <2>1, <2>2
<1>5. i = 5 => Begin(s, BeginOrder[i], now).vars["time_zone"] = "dump"
  <2>1. SetVariable(s, "time_zone", "dump").vars["time_zone"] = "dump"
    BY <1>1, <1>3
  <2>2. BeginOrder[5] = "set time_zone"
    BY BeginPlaces
  <2>. QED BY <1>2, <2>1, <2>2
<1>6. ASSUME i = 6, NEW v \in CharsetTrio PROVE Begin(s, BeginOrder[i], now).vars[v] = "dump"
  <2>1. [s EXCEPT !.vars = SetNames(s.vars, "dump")].vars = SetNames(s.vars, "dump")
    BY DEF Session
  <2>2. SetNames(s.vars, "dump")[v] = "dump"
    BY DEF SetNames, SessionVariable
  <2>. QED BY <1>2, <1>6, <2>1, <2>2, BeginPlaces
<1>7. ASSUME i # 6, NEW v \in CharsetTrio
      PROVE  Begin(s, BeginOrder[i], now).vars[v] = s.vars[v]
  <2>1. /\ v \in SessionVariable
        /\ v # "sql_mode" /\ v # "time_zone" /\ v # "transaction_isolation"
    BY DEF SessionVariable, CharsetTrio
  <2>2. ASSUME NEW w, w # v PROVE SetVariable(s, w, "dump").vars[v] = s.vars[v]
    BY <2>1, <2>2 DEF SetVariable, Session
  <2>3. /\ [s EXCEPT !.inTx = TRUE, !.snapshot = now].vars[v] = s.vars[v]
        /\ [s EXCEPT !.readLock = TRUE].vars[v] = s.vars[v]
    BY DEF Session
  <2>4. i = 1 \/ i = 2 \/ i = 3 \/ i = 4 \/ i = 5 \/ i = 7 \/ i = 8 \/ i = 9
    BY <1>7
  <2>5. BeginOrder[i] # "set names"
    BY <2>4, BeginPlaces
  <2>. QED BY <2>1, <2>2, <2>3, <2>5 DEF Begin
<1>. QED BY <1>4, <1>5, <1>6, <1>7

\* What each place of the cleanup is, and when it is sent.
LEMMA RestorePlaces ==
  /\ DOMAIN RestoreOrder = 1..3
  /\ RestoreOrder[1] = "sql_mode" /\ RestoreOrder[2] = "time_zone"
  /\ RestoreOrder[3] = "character_set_client"
  /\ \A o, c : /\ IsRestored(RestoreOrder[1], o, c) <=> c.conflictingMode
               /\ IsRestored(RestoreOrder[2], o, c) <=> o.timeZone
               /\ IsRestored(RestoreOrder[3], o, c)
<1>1. /\ DOMAIN RestoreOrder = 1..3
      /\ RestoreOrder[1] = "sql_mode" /\ RestoreOrder[2] = "time_zone"
      /\ RestoreOrder[3] = "character_set_client"
  BY DEF RestoreOrder
<1>2. ASSUME NEW o, NEW c
      PROVE  /\ IsRestored("sql_mode", o, c) <=> c.conflictingMode
             /\ IsRestored("time_zone", o, c) <=> o.timeZone
             /\ IsRestored("character_set_client", o, c)
  <2>1. IsRestored("character_set_client", o, c)
    BY DEF IsRestored
  <2>2. /\ IsRestored("sql_mode", o, c) <=> c.conflictingMode
        /\ IsRestored("time_zone", o, c) <=> o.timeZone
    BY Zenon DEF IsRestored
  <2>. QED BY <2>1, <2>2
<1>. QED BY <1>1, <1>2

\* Each place of the cleanup puts back its own; SET NAMES all three, of a
\* session a plain SET NAMES had set.
LEMMA RestoreTouches ==
  ASSUME NEW V, NEW s \in Session(V), NEW i \in 1..3, NEW values, NEW c, c.plainNames,
         values["character_set_client"] = "caller"
  PROVE  LET t == Restore(s, RestoreOrder[i], values)
         IN /\ t.vars["transaction_isolation"] = s.vars["transaction_isolation"]
            /\ i = 1 => t.vars["sql_mode"] = values["sql_mode"]
            /\ i # 1 => t.vars["sql_mode"] = s.vars["sql_mode"]
            /\ i = 2 => t.vars["time_zone"] = values["time_zone"]
            /\ i # 2 => t.vars["time_zone"] = s.vars["time_zone"]
            /\ i = 3 => \A v \in CharsetTrio : t.vars[v] = Found(c)[v]
<1>1. CASE i = 1
  <2>1. Restore(s, RestoreOrder[i], values) = SetVariable(s, "sql_mode", values["sql_mode"])
    BY <1>1, RestorePlaces DEF Restore
  <2>. QED BY <1>1, <2>1 DEF SetVariable, Session, SessionVariable, CharsetTrio
<1>2. CASE i = 2
  <2>1. Restore(s, RestoreOrder[i], values) = SetVariable(s, "time_zone", values["time_zone"])
    BY <1>2, RestorePlaces DEF Restore
  <2>. QED BY <1>2, <2>1 DEF SetVariable, Session, SessionVariable, CharsetTrio
<1>3. CASE i = 3
  <2> DEFINE names == SetNames(s.vars, "caller")
  <2>1. Restore(s, RestoreOrder[i], values) = [s EXCEPT !.vars = names]
    BY <1>3, RestorePlaces DEF Restore
  <2>2. [s EXCEPT !.vars = names].vars = names
    BY DEF Session
  <2>3. \A v \in CharsetTrio : names[v] = Found(c)[v]
    BY DEF SetNames, Found, SessionVariable, CharsetTrio
  <2>4. /\ names["transaction_isolation"] = s.vars["transaction_isolation"]
        /\ names["sql_mode"] = s.vars["sql_mode"]
        /\ names["time_zone"] = s.vars["time_zone"]
    BY DEF SetNames, SessionVariable, CharsetTrio
  <2>. QED BY <1>3, <2>1, <2>2, <2>3, <2>4
<1>. QED BY <1>1, <1>2, <1>3

\* A session at REPEATABLE READ has the level the snapshot needs.
LEMMA FoundIsolation ==
  ASSUME NEW c, c.repeatableRead
  PROVE  Found(c)["transaction_isolation"] = "dump"
BY DEF Found, SessionVariable, CharsetTrio

-----------------------------------------------------------------------------
(* The run *)


\* begin skips no statement it has to send: when none is next, all are sent.
LEMMA AllSent ==
  ASSUME at \in 1..10, \A i \in DOMAIN BeginOrder : ~IsNextStatement(i)
  PROVE  \A i \in DOMAIN BeginOrder : IsSent(BeginOrder[i], opts, caller) => i < at
<1> DEFINE Sent(i) == IsSent(BeginOrder[i], opts, caller)
<1>1. \A i \in 1..9 : ~(i >= at /\ Sent(i) /\ \A j \in at..(i - 1) : ~Sent(j))
  BY BeginPlaces DEF IsNextStatement
<1> HIDE DEF Sent
<1>2. at <= 1 => ~Sent(1)
  BY <1>1
<1>3. at <= 2 => ~Sent(2)
  BY <1>1, <1>2
<1>4. at <= 3 => ~Sent(3)
  BY <1>1, <1>2, <1>3
<1>5. at <= 4 => ~Sent(4)
  BY <1>1, <1>2, <1>3, <1>4
<1>6. at <= 5 => ~Sent(5)
  BY <1>1, <1>2, <1>3, <1>4, <1>5
<1>7. at <= 6 => ~Sent(6)
  BY <1>1, <1>2, <1>3, <1>4, <1>5, <1>6
<1>8. at <= 7 => ~Sent(7)
  BY <1>1, <1>2, <1>3, <1>4, <1>5, <1>6, <1>7
<1>9. at <= 8 => ~Sent(8)
  BY <1>1, <1>2, <1>3, <1>4, <1>5, <1>6, <1>7, <1>8
<1>10. at <= 9 => ~Sent(9)
  BY <1>1, <1>2, <1>3, <1>4, <1>5, <1>6, <1>7, <1>8, <1>9
<1>11. \A i \in 1..9 : Sent(i) => i < at
  BY <1>2, <1>3, <1>4, <1>5, <1>6, <1>7, <1>8, <1>9, <1>10
<1>. QED BY <1>11, BeginPlaces DEF Sent

\* ... and the statement that is next is sent at its place in the order.
LEMMA NextIsSent ==
  ASSUME at \in 1..10, NEW i \in DOMAIN BeginOrder, IsNextStatement(i)
  PROVE  /\ i \in 1..9 /\ i >= at /\ IsSent(BeginOrder[i], opts, caller)
         /\ \A j \in 1..9 : IsSent(BeginOrder[j], opts, caller) => j < at \/ j >= i
<1> DEFINE Sent(j) == IsSent(BeginOrder[j], opts, caller)
<1>1. i \in 1..9 /\ i >= at /\ Sent(i) /\ \A j \in at..(i - 1) : ~Sent(j)
  BY BeginPlaces DEF IsNextStatement
<1> HIDE DEF Sent
<1>2. \A j \in 1..9 : Sent(j) => j < at \/ j >= i
  BY <1>1
<1>. QED BY <1>1, <1>2 DEF Sent

Inv == TypeOK /\ ControlInv /\ SavedInv /\ HoldInv

\* A statement of finish() takes effect, finds no server, or is refused.
LEMMA AttemptOutcome ==
  ASSUME NEW what, NEW s, Attempt(what, s), TypeOK
  PROVE  /\ \/ conn = "open" /\ srv' = s /\ swallowed' = swallowed
            \/ conn # "open" /\ srv' = srv /\ swallowed' = swallowed
            \/ conn = "open" /\ srv' = srv /\ swallowed' = swallowed \cup {what}
         /\ refusals' \in 0..MaxRefusals
BY BoundsAssumption DEF Attempt, Refuse, TypeOK

LEMMA EndOutcome ==
  ASSUME TypeOK, EndSession
  PROVE  /\ \/ conn = "open" /\ srv' = End(srv) /\ swallowed' = swallowed
            \/ /\ conn # "open" \/ opts.consistency = "none"
               /\ srv' = srv /\ swallowed' = swallowed
            \/ conn = "open" /\ srv' = srv /\ swallowed' = swallowed \cup {"end"}
         /\ refusals' \in 0..MaxRefusals
         /\ pc = "end" /\ pc' = "restore" /\ at' = 1
         /\ UNCHANGED << call, conn, saved, entry, export, result, version, outputBroken, acquired,
                         releases, aborted, outcome >>
<1>1. CASE opts.consistency = "none"
  BY <1>1 DEF EndSession, EndWith, NotSent, TypeOK
<1>2. CASE opts.consistency # "none"
  <2>1. Attempt("end", End(srv))
    BY <1>2 DEF EndSession, EndWith
  <2>. QED BY <2>1, AttemptOutcome DEF EndSession, EndWith
<1>. QED BY <1>1, <1>2

LEMMA RestoreOutcome ==
  ASSUME TypeOK, RestoreVariable
  PROVE  \E i \in DOMAIN RestoreOrder :
           /\ IsNextRestore(i) /\ at' = i + 1 /\ RestoreOrder[i] \in SessionVariable
           /\ \/ conn = "open" /\ srv' = Restore(srv, RestoreOrder[i], saved)
                 /\ swallowed' = swallowed
              \/ conn # "open" /\ srv' = srv /\ swallowed' = swallowed
              \/ conn = "open" /\ srv' = srv /\ swallowed' = swallowed \cup {RestoreOrder[i]}
           /\ refusals' \in 0..MaxRefusals
<1>1. PICK i \in DOMAIN RestoreOrder :
        IsNextRestore(i) /\ Attempt(RestoreOrder[i], Restore(srv, RestoreOrder[i], saved))
        /\ at' = i + 1
  BY DEF RestoreVariable
<1>2. RestoreOrder[i] \in SessionVariable
  BY RestorePlaces DEF SessionVariable, CharsetTrio
<1>. QED BY <1>1, <1>2, AttemptOutcome

LEMMA TypeNext == Inv /\ Next => TypeOK'
<1> SUFFICES ASSUME Inv, Next PROVE TypeOK'
  OBVIOUS
<1>t. TypeOK /\ ControlInv
  BY DEF Inv
<1>a. /\ Len(entries) \in Nat /\ DOMAIN entries = 1..Len(entries)
      /\ \A i \in DOMAIN entries : entries[i].rows \in Nat
  BY <1>t, ArchivesAssumption DEF TypeOK
<1>v. version \in 1..MaxVersion /\ version \in 0..MaxVersion
  BY <1>t, BoundsAssumption DEF TypeOK
<1>e. End(srv) \in Session(0..MaxVersion)
  BY <1>t, <1>v, SessionTypes DEF TypeOK
<1>1. CASE Acquire
  <2>1. opts' \in Options /\ caller' \in Callers /\ entries' \in Archives /\ pc' \in PcSet
    BY <1>1, <1>t, <1>a, <1>e, BoundsAssumption
       DEF TypeOK, ControlInv, Acquire, call, export, result, world, lease, vars, PcSet
  <2>2. at' \in 1..10 /\ srv' \in Session(0..MaxVersion) /\ conn' \in { "open", "lost", "destroyed" }
    BY <1>1, <1>t, <1>a, <1>e, BoundsAssumption
       DEF TypeOK, ControlInv, Acquire, call, export, result, world, lease, vars
  <2>3. saved' \in [SessionVariable -> Setting \cup {"unread"}] /\ entry' \in 1..(Len(entries') + 1)
    BY <1>1, <1>t, <1>a, <1>e, BoundsAssumption
       DEF TypeOK, ControlInv, Acquire, call, export, result, world, lease, vars
  <2>4. stream' \in { "none", "open", "ended", "failed" } /\ arrived' \in Nat /\ consumed' \in 0..arrived'
    BY <1>1, <1>t, <1>a, <1>e, BoundsAssumption
       DEF TypeOK, ControlInv, Acquire, call, export, result, world, lease, vars
  <2>5. statementRows' \in 0..RowsPerStatement
    BY <1>1, <1>t, <1>a, <1>e, BoundsAssumption
       DEF TypeOK, ControlInv, Acquire, call, export, result, world, lease, vars
  <2>6. written' \in [DOMAIN entries' -> Nat] /\ seen' \in [DOMAIN entries' -> 0..MaxVersion]
    BY <1>1, <1>t, <1>a, <1>e, BoundsAssumption
       DEF TypeOK, ControlInv, Acquire, call, export, result, world, lease, vars
  <2>7. version' \in 1..MaxVersion /\ refusals' \in 0..MaxRefusals /\ releases' \in 0..1
    BY <1>1, <1>t, <1>a, <1>e, BoundsAssumption
       DEF TypeOK, ControlInv, Acquire, call, export, result, world, lease, vars
  <2>8. /\ outputBroken' \in BOOLEAN /\ acquired' \in BOOLEAN /\ aborted' \in BOOLEAN
        /\ swallowed' \subseteq {"end"} \cup SessionVariable
    BY <1>1, <1>t, <1>a, <1>e, BoundsAssumption
       DEF TypeOK, ControlInv, Acquire, call, export, result, world, lease, vars
  <2>9. outcome' \in Outcome
    BY <1>1, <1>t, <1>a, <1>e, BoundsAssumption
       DEF TypeOK, ControlInv, Acquire, call, export, result, world, lease, vars, Outcome
  <2>. QED BY <2>1, <2>2, <2>3, <2>4, <2>5, <2>6, <2>7, <2>8, <2>9 DEF TypeOK
<1>2. CASE StartSnapshot
  BY <1>2, <1>t, <1>a, <1>e, BoundsAssumption
     DEF TypeOK, ControlInv, StartSnapshot, call, export, result, world, lease, vars, PcSet,
         Outcome
<1>3. CASE BeginSession
  <2>1. PICK i \in DOMAIN BeginOrder :
          /\ IsNextStatement(i)
          /\ \/ /\ CallSucceeds
                /\ srv' = Begin(srv, BeginOrder[i], version)
                /\ saved' = Kept(saved, BeginOrder[i], srv)
                /\ at' = i + 1
                /\ UNCHANGED << pc, outcome >>
             \/ (CallFails \/ CallAborted) /\ BeginFails(i) /\ UNCHANGED saved
    BY <1>3 DEF BeginSession
  <2>2. i \in 1..9
    BY DEF BeginOrder
  <2>3. UNCHANGED << call, entry, export, result, version, outputBroken, lease >>
    BY <1>3 DEF BeginSession
  <2>4. Begin(srv, BeginOrder[i], version) \in Session(0..MaxVersion)
    BY <1>t, <1>v, SessionTypes DEF TypeOK
  <2>5. srv' \in Session(0..MaxVersion) /\ conn' \in { "open", "lost", "destroyed" }
    BY <1>t, <1>e, <2>1, <2>4 DEF TypeOK, CallSucceeds, CallFails, Refuse, CallAborted, Cancel
  <2>6. saved' \in [SessionVariable -> Setting \cup {"unread"}]
    <3>1. \A st \in DOMAIN ReadsVariable : ReadsVariable[st] \in SessionVariable
      BY DEF ReadsVariable, SessionVariable, CharsetTrio
    <3>2. Kept(saved, BeginOrder[i], srv) \in [SessionVariable -> Setting \cup {"unread"}]
      BY <1>t, <3>1 DEF TypeOK, Session, Kept
    <3>. QED BY <1>t, <2>1, <3>2 DEF TypeOK
  <2>7. pc' \in PcSet /\ at' \in 1..10 /\ outcome' \in Outcome
    BY <1>t, <2>1, <2>2 DEF TypeOK, BeginFails, PcSet, Outcome
  <2>8. aborted' \in BOOLEAN /\ refusals' \in 0..MaxRefusals
    <3>1. CASE CallSucceeds
      BY <1>t, <3>1 DEF TypeOK, CallSucceeds
    <3>2. CASE CallFails
      BY <1>t, <3>2, BoundsAssumption DEF TypeOK, CallFails, Refuse
    <3>3. CASE CallAborted
      BY <1>t, <3>3 DEF TypeOK, CallAborted
    <3>. QED BY <2>1, <3>1, <3>2, <3>3
  <2>. QED BY <1>t, <2>3, <2>5, <2>6, <2>7, <2>8 DEF TypeOK, call, export, result, lease
<1>4. CASE Begun
  BY <1>4, <1>t, <1>a, <1>e, BoundsAssumption
     DEF TypeOK, ControlInv, Begun, call, export, result, world, lease, vars, PcSet, Outcome
<1>5. CASE Introspect
  <2>1. opts' \in Options /\ caller' \in Callers /\ entries' \in Archives /\ pc' \in PcSet
    BY <1>5, <1>t, <1>a, <1>e, BoundsAssumption
       DEF TypeOK, ControlInv, Introspect, CallSucceeds, CallFails, Refuse, CallAborted, Cancel,
           Finish,
           call, export, result, world, lease, vars, PcSet
  <2>2. at' \in 1..10 /\ srv' \in Session(0..MaxVersion) /\ conn' \in { "open", "lost", "destroyed" }
    BY <1>5, <1>t, <1>a, <1>e, BoundsAssumption
       DEF TypeOK, ControlInv, Introspect, CallSucceeds, CallFails, Refuse, CallAborted, Cancel,
           Finish,
           call, export, result, world, lease, vars
  <2>3. saved' \in [SessionVariable -> Setting \cup {"unread"}] /\ entry' \in 1..(Len(entries') + 1)
    BY <1>5, <1>t, <1>a, <1>e, BoundsAssumption
       DEF TypeOK, ControlInv, Introspect, CallSucceeds, CallFails, Refuse, CallAborted, Cancel,
           Finish,
           call, export, result, world, lease, vars
  <2>4. stream' \in { "none", "open", "ended", "failed" } /\ arrived' \in Nat /\ consumed' \in 0..arrived'
    BY <1>5, <1>t, <1>a, <1>e, BoundsAssumption
       DEF TypeOK, ControlInv, Introspect, CallSucceeds, CallFails, Refuse, CallAborted, Cancel,
           Finish,
           call, export, result, world, lease, vars
  <2>5. statementRows' \in 0..RowsPerStatement
    BY <1>5, <1>t, <1>a, <1>e, BoundsAssumption
       DEF TypeOK, ControlInv, Introspect, CallSucceeds, CallFails, Refuse, CallAborted, Cancel,
           Finish,
           call, export, result, world, lease, vars
  <2>6. written' \in [DOMAIN entries' -> Nat] /\ seen' \in [DOMAIN entries' -> 0..MaxVersion]
    BY <1>5, <1>t, <1>a, <1>e, BoundsAssumption
       DEF TypeOK, ControlInv, Introspect, CallSucceeds, CallFails, Refuse, CallAborted, Cancel,
           Finish,
           call, export, result, world, lease, vars
  <2>7. version' \in 1..MaxVersion /\ refusals' \in 0..MaxRefusals /\ releases' \in 0..1
    BY <1>5, <1>t, <1>a, <1>e, BoundsAssumption
       DEF TypeOK, ControlInv, Introspect, CallSucceeds, CallFails, Refuse, CallAborted, Cancel,
           Finish,
           call, export, result, world, lease, vars
  <2>8. /\ outputBroken' \in BOOLEAN /\ acquired' \in BOOLEAN /\ aborted' \in BOOLEAN
        /\ swallowed' \subseteq {"end"} \cup SessionVariable
    BY <1>5, <1>t, <1>a, <1>e, BoundsAssumption
       DEF TypeOK, ControlInv, Introspect, CallSucceeds, CallFails, Refuse, CallAborted, Cancel,
           Finish,
           call, export, result, world, lease, vars
  <2>9. outcome' \in Outcome
    BY <1>5, <1>t, <1>a, <1>e, BoundsAssumption
       DEF TypeOK, ControlInv, Introspect, CallSucceeds, CallFails, Refuse, CallAborted, Cancel,
           Finish,
           call, export, result, world, lease, vars, Outcome
  <2>. QED BY <2>1, <2>2, <2>3, <2>4, <2>5, <2>6, <2>7, <2>8, <2>9 DEF TypeOK
<1>6. CASE ReadMaxAllowedPacket
  <2>1. opts' \in Options /\ caller' \in Callers /\ entries' \in Archives /\ pc' \in PcSet
    BY <1>6, <1>t, <1>a, <1>e, BoundsAssumption
       DEF TypeOK, ControlInv, ReadMaxAllowedPacket, CallSucceeds, CallFails, Refuse, CallAborted,
           Cancel, Finish, call, export, result, world, lease, vars, PcSet
  <2>2. at' \in 1..10 /\ srv' \in Session(0..MaxVersion) /\ conn' \in { "open", "lost", "destroyed" }
    BY <1>6, <1>t, <1>a, <1>e, BoundsAssumption
       DEF TypeOK, ControlInv, ReadMaxAllowedPacket, CallSucceeds, CallFails, Refuse, CallAborted,
           Cancel, Finish, call, export, result, world, lease, vars
  <2>3. saved' \in [SessionVariable -> Setting \cup {"unread"}] /\ entry' \in 1..(Len(entries') + 1)
    BY <1>6, <1>t, <1>a, <1>e, BoundsAssumption
       DEF TypeOK, ControlInv, ReadMaxAllowedPacket, CallSucceeds, CallFails, Refuse, CallAborted,
           Cancel, Finish, call, export, result, world, lease, vars
  <2>4. stream' \in { "none", "open", "ended", "failed" } /\ arrived' \in Nat /\ consumed' \in 0..arrived'
    BY <1>6, <1>t, <1>a, <1>e, BoundsAssumption
       DEF TypeOK, ControlInv, ReadMaxAllowedPacket, CallSucceeds, CallFails, Refuse, CallAborted,
           Cancel, Finish, call, export, result, world, lease, vars
  <2>5. statementRows' \in 0..RowsPerStatement
    BY <1>6, <1>t, <1>a, <1>e, BoundsAssumption
       DEF TypeOK, ControlInv, ReadMaxAllowedPacket, CallSucceeds, CallFails, Refuse, CallAborted,
           Cancel, Finish, call, export, result, world, lease, vars
  <2>6. written' \in [DOMAIN entries' -> Nat] /\ seen' \in [DOMAIN entries' -> 0..MaxVersion]
    BY <1>6, <1>t, <1>a, <1>e, BoundsAssumption
       DEF TypeOK, ControlInv, ReadMaxAllowedPacket, CallSucceeds, CallFails, Refuse, CallAborted,
           Cancel, Finish, call, export, result, world, lease, vars
  <2>7. version' \in 1..MaxVersion /\ refusals' \in 0..MaxRefusals /\ releases' \in 0..1
    BY <1>6, <1>t, <1>a, <1>e, BoundsAssumption
       DEF TypeOK, ControlInv, ReadMaxAllowedPacket, CallSucceeds, CallFails, Refuse, CallAborted,
           Cancel, Finish, call, export, result, world, lease, vars
  <2>8. /\ outputBroken' \in BOOLEAN /\ acquired' \in BOOLEAN /\ aborted' \in BOOLEAN
        /\ swallowed' \subseteq {"end"} \cup SessionVariable
    BY <1>6, <1>t, <1>a, <1>e, BoundsAssumption
       DEF TypeOK, ControlInv, ReadMaxAllowedPacket, CallSucceeds, CallFails, Refuse, CallAborted,
           Cancel, Finish, call, export, result, world, lease, vars
  <2>9. outcome' \in Outcome
    BY <1>6, <1>t, <1>a, <1>e, BoundsAssumption
       DEF TypeOK, ControlInv, ReadMaxAllowedPacket, CallSucceeds, CallFails, Refuse, CallAborted,
           Cancel, Finish, call, export, result, world, lease, vars, Outcome
  <2>. QED BY <2>1, <2>2, <2>3, <2>4, <2>5, <2>6, <2>7, <2>8, <2>9 DEF TypeOK
<1>7. CASE Header
  BY <1>7, <1>t, <1>a, <1>e, BoundsAssumption
     DEF TypeOK, ControlInv, Header, EmitFrame, Emit, WriteSucceeds, WriteAborted, WriteFails,
         Return, Finish, call, export, result, world, lease, vars, PcSet, Outcome
<1>8. CASE NextEntry
  BY <1>8, <1>t, <1>a, <1>e, BoundsAssumption
     DEF TypeOK, ControlInv, NextEntry, Return, Finish, call, export, result, world, lease,
         vars, PcSet, Outcome
<1>9. CASE RenderObject
  <2>1. opts' \in Options /\ caller' \in Callers /\ entries' \in Archives /\ pc' \in PcSet
    BY <1>9, <1>t, <1>a, <1>e, BoundsAssumption
       DEF TypeOK, ControlInv, RenderObject, Emit, WriteSucceeds, WriteAborted, WriteFails,
           Return, Finish, call, export, result, world, lease, vars, PcSet
  <2>2. at' \in 1..10 /\ srv' \in Session(0..MaxVersion) /\ conn' \in { "open", "lost", "destroyed" }
    BY <1>9, <1>t, <1>a, <1>e, BoundsAssumption
       DEF TypeOK, ControlInv, RenderObject, Emit, WriteSucceeds, WriteAborted, WriteFails,
           Return, Finish, call, export, result, world, lease, vars
  <2>3. saved' \in [SessionVariable -> Setting \cup {"unread"}] /\ entry' \in 1..(Len(entries') + 1)
    BY <1>9, <1>t, <1>a, <1>e, BoundsAssumption
       DEF TypeOK, ControlInv, RenderObject, Emit, WriteSucceeds, WriteAborted, WriteFails,
           Return, Finish, call, export, result, world, lease, vars
  <2>4. stream' \in { "none", "open", "ended", "failed" } /\ arrived' \in Nat /\ consumed' \in 0..arrived'
    BY <1>9, <1>t, <1>a, <1>e, BoundsAssumption
       DEF TypeOK, ControlInv, RenderObject, Emit, WriteSucceeds, WriteAborted, WriteFails,
           Return, Finish, call, export, result, world, lease, vars
  <2>5. statementRows' \in 0..RowsPerStatement
    BY <1>9, <1>t, <1>a, <1>e, BoundsAssumption
       DEF TypeOK, ControlInv, RenderObject, Emit, WriteSucceeds, WriteAborted, WriteFails,
           Return, Finish, call, export, result, world, lease, vars
  <2>6. written' \in [DOMAIN entries' -> Nat] /\ seen' \in [DOMAIN entries' -> 0..MaxVersion]
    BY <1>9, <1>t, <1>a, <1>e, BoundsAssumption
       DEF TypeOK, ControlInv, RenderObject, Emit, WriteSucceeds, WriteAborted, WriteFails,
           Return, Finish, call, export, result, world, lease, vars
  <2>7. version' \in 1..MaxVersion /\ refusals' \in 0..MaxRefusals /\ releases' \in 0..1
    BY <1>9, <1>t, <1>a, <1>e, BoundsAssumption
       DEF TypeOK, ControlInv, RenderObject, Emit, WriteSucceeds, WriteAborted, WriteFails,
           Return, Finish, call, export, result, world, lease, vars
  <2>8. /\ outputBroken' \in BOOLEAN /\ acquired' \in BOOLEAN /\ aborted' \in BOOLEAN
        /\ swallowed' \subseteq {"end"} \cup SessionVariable
    BY <1>9, <1>t, <1>a, <1>e, BoundsAssumption
       DEF TypeOK, ControlInv, RenderObject, Emit, WriteSucceeds, WriteAborted, WriteFails,
           Return, Finish, call, export, result, world, lease, vars
  <2>9. outcome' \in Outcome
    BY <1>9, <1>t, <1>a, <1>e, BoundsAssumption
       DEF TypeOK, ControlInv, RenderObject, Emit, WriteSucceeds, WriteAborted, WriteFails,
           Return, Finish, call, export, result, world, lease, vars, Outcome
  <2>. QED BY <2>1, <2>2, <2>3, <2>4, <2>5, <2>6, <2>7, <2>8, <2>9 DEF TypeOK
<1>10. CASE OpenTable
  BY <1>10, <1>t, <1>a, <1>e, BoundsAssumption
     DEF TypeOK, ControlInv, OpenTable, Emit, WriteSucceeds, WriteAborted, WriteFails, Return,
         Finish, call, export, result, world, lease, vars, PcSet, Outcome
<1>11. CASE SelectRows
  <2>s. Sees(srv, entries[entry].transactional, version) \in 0..MaxVersion
    BY <1>t, <1>v DEF TypeOK, Session, Sees
  <2>1. opts' \in Options /\ caller' \in Callers /\ entries' \in Archives /\ pc' \in PcSet
    BY <1>11, <1>t, <1>a, <1>e, BoundsAssumption, <2>s
       DEF TypeOK, ControlInv, SelectRows, CallSucceeds, CallFails, Refuse, ExportCancelled, Finish,
           call, export, result, world, lease, vars, PcSet
  <2>2. at' \in 1..10 /\ srv' \in Session(0..MaxVersion) /\ conn' \in { "open", "lost", "destroyed" }
    BY <1>11, <1>t, <1>a, <1>e, BoundsAssumption, <2>s
       DEF TypeOK, ControlInv, SelectRows, CallSucceeds, CallFails, Refuse, ExportCancelled, Finish,
           call, export, result, world, lease, vars
  <2>3. saved' \in [SessionVariable -> Setting \cup {"unread"}] /\ entry' \in 1..(Len(entries') + 1)
    BY <1>11, <1>t, <1>a, <1>e, BoundsAssumption, <2>s
       DEF TypeOK, ControlInv, SelectRows, CallSucceeds, CallFails, Refuse, ExportCancelled, Finish,
           call, export, result, world, lease, vars
  <2>4. stream' \in { "none", "open", "ended", "failed" } /\ arrived' \in Nat /\ consumed' \in 0..arrived'
    BY <1>11, <1>t, <1>a, <1>e, BoundsAssumption, <2>s
       DEF TypeOK, ControlInv, SelectRows, CallSucceeds, CallFails, Refuse, ExportCancelled, Finish,
           call, export, result, world, lease, vars
  <2>5. statementRows' \in 0..RowsPerStatement
    BY <1>11, <1>t, <1>a, <1>e, BoundsAssumption, <2>s
       DEF TypeOK, ControlInv, SelectRows, CallSucceeds, CallFails, Refuse, ExportCancelled, Finish,
           call, export, result, world, lease, vars
  <2>6. written' \in [DOMAIN entries' -> Nat] /\ seen' \in [DOMAIN entries' -> 0..MaxVersion]
    BY <1>11, <1>t, <1>a, <1>e, BoundsAssumption, <2>s
       DEF TypeOK, ControlInv, SelectRows, CallSucceeds, CallFails, Refuse, ExportCancelled, Finish,
           call, export, result, world, lease, vars
  <2>7. version' \in 1..MaxVersion /\ refusals' \in 0..MaxRefusals /\ releases' \in 0..1
    BY <1>11, <1>t, <1>a, <1>e, BoundsAssumption, <2>s
       DEF TypeOK, ControlInv, SelectRows, CallSucceeds, CallFails, Refuse, ExportCancelled, Finish,
           call, export, result, world, lease, vars
  <2>8. /\ outputBroken' \in BOOLEAN /\ acquired' \in BOOLEAN /\ aborted' \in BOOLEAN
        /\ swallowed' \subseteq {"end"} \cup SessionVariable
    BY <1>11, <1>t, <1>a, <1>e, BoundsAssumption, <2>s
       DEF TypeOK, ControlInv, SelectRows, CallSucceeds, CallFails, Refuse, ExportCancelled, Finish,
           call, export, result, world, lease, vars
  <2>9. outcome' \in Outcome
    BY <1>11, <1>t, <1>a, <1>e, BoundsAssumption, <2>s
       DEF TypeOK, ControlInv, SelectRows, CallSucceeds, CallFails, Refuse, ExportCancelled, Finish,
           call, export, result, world, lease, vars, Outcome
  <2>. QED BY <2>1, <2>2, <2>3, <2>4, <2>5, <2>6, <2>7, <2>8, <2>9 DEF TypeOK
<1>12. CASE RowArrives
  BY <1>12, <1>t, <1>a, <1>e, BoundsAssumption
     DEF TypeOK, ControlInv, RowArrives, call, export, result, world, lease, vars, PcSet, Outcome
<1>13. CASE ResultEnds
  BY <1>13, <1>t, <1>a, <1>e, BoundsAssumption
     DEF TypeOK, ControlInv, ResultEnds, call, export, result, world, lease, vars, PcSet, Outcome
<1>14. CASE TakeRow
  BY <1>14, <1>t, <1>a, <1>e, BoundsAssumption
     DEF TypeOK, ControlInv, TakeRow, LeaveStream, Cancel, ExportCancelled, AddRow, Finish,
         call, export, result, world, lease, vars, PcSet, Outcome
<1>15. CASE FlushFull
  <2>1. opts' \in Options /\ caller' \in Callers /\ entries' \in Archives /\ pc' \in PcSet
    BY <1>15, <1>t, <1>a, <1>e, BoundsAssumption
       DEF TypeOK, ControlInv, FlushFull, WriteSucceeds, WriteAborted, WriteFails,
           WriteStatement, LeaveStream, Cancel, ExportCancelled, AddRow, Finish, call, export,
           result, world, lease, vars, PcSet
  <2>2. at' \in 1..10 /\ srv' \in Session(0..MaxVersion) /\ conn' \in { "open", "lost", "destroyed" }
    BY <1>15, <1>t, <1>a, <1>e, BoundsAssumption
       DEF TypeOK, ControlInv, FlushFull, WriteSucceeds, WriteAborted, WriteFails,
           WriteStatement, LeaveStream, Cancel, ExportCancelled, AddRow, Finish, call, export,
           result, world, lease, vars
  <2>3. saved' \in [SessionVariable -> Setting \cup {"unread"}] /\ entry' \in 1..(Len(entries') + 1)
    BY <1>15, <1>t, <1>a, <1>e, BoundsAssumption
       DEF TypeOK, ControlInv, FlushFull, WriteSucceeds, WriteAborted, WriteFails,
           WriteStatement, LeaveStream, Cancel, ExportCancelled, AddRow, Finish, call, export,
           result, world, lease, vars
  <2>4. stream' \in { "none", "open", "ended", "failed" } /\ arrived' \in Nat /\ consumed' \in 0..arrived'
    BY <1>15, <1>t, <1>a, <1>e, BoundsAssumption
       DEF TypeOK, ControlInv, FlushFull, WriteSucceeds, WriteAborted, WriteFails,
           WriteStatement, LeaveStream, Cancel, ExportCancelled, AddRow, Finish, call, export,
           result, world, lease, vars
  <2>5. statementRows' \in 0..RowsPerStatement
    BY <1>15, <1>t, <1>a, <1>e, BoundsAssumption
       DEF TypeOK, ControlInv, FlushFull, WriteSucceeds, WriteAborted, WriteFails,
           WriteStatement, LeaveStream, Cancel, ExportCancelled, AddRow, Finish, call, export,
           result, world, lease, vars
  <2>6. written' \in [DOMAIN entries' -> Nat] /\ seen' \in [DOMAIN entries' -> 0..MaxVersion]
    <3>1. entries' = entries /\ seen' = seen /\ (written' = written \/ WriteStatement)
      BY <1>15 DEF FlushFull, call
    <3>2. entry \in DOMAIN entries /\ statementRows \in Nat
      BY <1>15, <1>t, BoundsAssumption DEF TypeOK, ControlInv, FlushFull
    <3>3. written[entry] + statementRows \in Nat
      BY <1>t, <3>2 DEF TypeOK
    <3>. QED BY <1>t, <3>1, <3>2, <3>3 DEF TypeOK, WriteStatement
  <2>7. version' \in 1..MaxVersion /\ refusals' \in 0..MaxRefusals /\ releases' \in 0..1
    BY <1>15, <1>t, <1>a, <1>e, BoundsAssumption
       DEF TypeOK, ControlInv, FlushFull, WriteSucceeds, WriteAborted, WriteFails,
           WriteStatement, LeaveStream, Cancel, ExportCancelled, AddRow, Finish, call, export,
           result, world, lease, vars
  <2>8. /\ outputBroken' \in BOOLEAN /\ acquired' \in BOOLEAN /\ aborted' \in BOOLEAN
        /\ swallowed' \subseteq {"end"} \cup SessionVariable
    BY <1>15, <1>t, <1>a, <1>e, BoundsAssumption
       DEF TypeOK, ControlInv, FlushFull, WriteSucceeds, WriteAborted, WriteFails,
           WriteStatement, LeaveStream, Cancel, ExportCancelled, AddRow, Finish, call, export,
           result, world, lease, vars
  <2>9. outcome' \in Outcome
    BY <1>15, <1>t, <1>a, <1>e, BoundsAssumption
       DEF TypeOK, ControlInv, FlushFull, WriteSucceeds, WriteAborted, WriteFails,
           WriteStatement, LeaveStream, Cancel, ExportCancelled, AddRow, Finish, call, export,
           result, world, lease, vars, Outcome
  <2>. QED BY <2>1, <2>2, <2>3, <2>4, <2>5, <2>6, <2>7, <2>8, <2>9 DEF TypeOK
<1>16. CASE StreamOver
  BY <1>16, <1>t, <1>a, <1>e, BoundsAssumption
     DEF TypeOK, ControlInv, StreamOver, LeaveStream, Cancel, ExportCancelled, RowsOver, Finish,
         call, export, result, world, lease, vars, PcSet, Outcome
<1>17. CASE FlushLast
  <2>1. opts' \in Options /\ caller' \in Callers /\ entries' \in Archives /\ pc' \in PcSet
    BY <1>17, <1>t, <1>a, <1>e, BoundsAssumption
       DEF TypeOK, ControlInv, FlushLast, WriteSucceeds, WriteAborted, WriteFails,
           WriteStatement, ExportCancelled, Finish, call, export, result, world, lease, vars,
           PcSet
  <2>2. at' \in 1..10 /\ srv' \in Session(0..MaxVersion) /\ conn' \in { "open", "lost", "destroyed" }
    BY <1>17, <1>t, <1>a, <1>e, BoundsAssumption
       DEF TypeOK, ControlInv, FlushLast, WriteSucceeds, WriteAborted, WriteFails,
           WriteStatement, ExportCancelled, Finish, call, export, result, world, lease, vars
  <2>3. saved' \in [SessionVariable -> Setting \cup {"unread"}] /\ entry' \in 1..(Len(entries') + 1)
    BY <1>17, <1>t, <1>a, <1>e, BoundsAssumption
       DEF TypeOK, ControlInv, FlushLast, WriteSucceeds, WriteAborted, WriteFails,
           WriteStatement, ExportCancelled, Finish, call, export, result, world, lease, vars
  <2>4. stream' \in { "none", "open", "ended", "failed" } /\ arrived' \in Nat /\ consumed' \in 0..arrived'
    BY <1>17, <1>t, <1>a, <1>e, BoundsAssumption
       DEF TypeOK, ControlInv, FlushLast, WriteSucceeds, WriteAborted, WriteFails,
           WriteStatement, ExportCancelled, Finish, call, export, result, world, lease, vars
  <2>5. statementRows' \in 0..RowsPerStatement
    BY <1>17, <1>t, <1>a, <1>e, BoundsAssumption
       DEF TypeOK, ControlInv, FlushLast, WriteSucceeds, WriteAborted, WriteFails,
           WriteStatement, ExportCancelled, Finish, call, export, result, world, lease, vars
  <2>6. written' \in [DOMAIN entries' -> Nat] /\ seen' \in [DOMAIN entries' -> 0..MaxVersion]
    <3>1. entries' = entries /\ seen' = seen /\ (written' = written \/ WriteStatement)
      BY <1>17 DEF FlushLast, call
    <3>2. entry \in DOMAIN entries /\ statementRows \in Nat
      BY <1>17, <1>t, BoundsAssumption DEF TypeOK, ControlInv, FlushLast
    <3>3. written[entry] + statementRows \in Nat
      BY <1>t, <3>2 DEF TypeOK
    <3>. QED BY <1>t, <3>1, <3>2, <3>3 DEF TypeOK, WriteStatement
  <2>7. version' \in 1..MaxVersion /\ refusals' \in 0..MaxRefusals /\ releases' \in 0..1
    BY <1>17, <1>t, <1>a, <1>e, BoundsAssumption
       DEF TypeOK, ControlInv, FlushLast, WriteSucceeds, WriteAborted, WriteFails,
           WriteStatement, ExportCancelled, Finish, call, export, result, world, lease, vars
  <2>8. /\ outputBroken' \in BOOLEAN /\ acquired' \in BOOLEAN /\ aborted' \in BOOLEAN
        /\ swallowed' \subseteq {"end"} \cup SessionVariable
    BY <1>17, <1>t, <1>a, <1>e, BoundsAssumption
       DEF TypeOK, ControlInv, FlushLast, WriteSucceeds, WriteAborted, WriteFails,
           WriteStatement, ExportCancelled, Finish, call, export, result, world, lease, vars
  <2>9. outcome' \in Outcome
    BY <1>17, <1>t, <1>a, <1>e, BoundsAssumption
       DEF TypeOK, ControlInv, FlushLast, WriteSucceeds, WriteAborted, WriteFails,
           WriteStatement, ExportCancelled, Finish, call, export, result, world, lease, vars,
           Outcome
  <2>. QED BY <2>1, <2>2, <2>3, <2>4, <2>5, <2>6, <2>7, <2>8, <2>9 DEF TypeOK
<1>18. CASE CloseTable
  <2>1. opts' \in Options /\ caller' \in Callers /\ entries' \in Archives /\ pc' \in PcSet
    BY <1>18, <1>t, <1>a, <1>e, BoundsAssumption
       DEF TypeOK, ControlInv, CloseTable, EmitFrame, Emit, WriteSucceeds, WriteAborted,
           WriteFails, Return, Finish, call, export, result, world, lease, vars, PcSet
  <2>2. at' \in 1..10 /\ srv' \in Session(0..MaxVersion) /\ conn' \in { "open", "lost", "destroyed" }
    BY <1>18, <1>t, <1>a, <1>e, BoundsAssumption
       DEF TypeOK, ControlInv, CloseTable, EmitFrame, Emit, WriteSucceeds, WriteAborted,
           WriteFails, Return, Finish, call, export, result, world, lease, vars
  <2>3. saved' \in [SessionVariable -> Setting \cup {"unread"}] /\ entry' \in 1..(Len(entries') + 1)
    BY <1>18, <1>t, <1>a, <1>e, BoundsAssumption
       DEF TypeOK, ControlInv, CloseTable, EmitFrame, Emit, WriteSucceeds, WriteAborted,
           WriteFails, Return, Finish, call, export, result, world, lease, vars
  <2>4. stream' \in { "none", "open", "ended", "failed" } /\ arrived' \in Nat /\ consumed' \in 0..arrived'
    BY <1>18, <1>t, <1>a, <1>e, BoundsAssumption
       DEF TypeOK, ControlInv, CloseTable, EmitFrame, Emit, WriteSucceeds, WriteAborted,
           WriteFails, Return, Finish, call, export, result, world, lease, vars
  <2>5. statementRows' \in 0..RowsPerStatement
    BY <1>18, <1>t, <1>a, <1>e, BoundsAssumption
       DEF TypeOK, ControlInv, CloseTable, EmitFrame, Emit, WriteSucceeds, WriteAborted,
           WriteFails, Return, Finish, call, export, result, world, lease, vars
  <2>6. written' \in [DOMAIN entries' -> Nat] /\ seen' \in [DOMAIN entries' -> 0..MaxVersion]
    BY <1>18, <1>t, <1>a, <1>e, BoundsAssumption
       DEF TypeOK, ControlInv, CloseTable, EmitFrame, Emit, WriteSucceeds, WriteAborted,
           WriteFails, Return, Finish, call, export, result, world, lease, vars
  <2>7. version' \in 1..MaxVersion /\ refusals' \in 0..MaxRefusals /\ releases' \in 0..1
    BY <1>18, <1>t, <1>a, <1>e, BoundsAssumption
       DEF TypeOK, ControlInv, CloseTable, EmitFrame, Emit, WriteSucceeds, WriteAborted,
           WriteFails, Return, Finish, call, export, result, world, lease, vars
  <2>8. /\ outputBroken' \in BOOLEAN /\ acquired' \in BOOLEAN /\ aborted' \in BOOLEAN
        /\ swallowed' \subseteq {"end"} \cup SessionVariable
    BY <1>18, <1>t, <1>a, <1>e, BoundsAssumption
       DEF TypeOK, ControlInv, CloseTable, EmitFrame, Emit, WriteSucceeds, WriteAborted,
           WriteFails, Return, Finish, call, export, result, world, lease, vars
  <2>9. outcome' \in Outcome
    BY <1>18, <1>t, <1>a, <1>e, BoundsAssumption
       DEF TypeOK, ControlInv, CloseTable, EmitFrame, Emit, WriteSucceeds, WriteAborted,
           WriteFails, Return, Finish, call, export, result, world, lease, vars, Outcome
  <2>. QED BY <2>1, <2>2, <2>3, <2>4, <2>5, <2>6, <2>7, <2>8, <2>9 DEF TypeOK
<1>19. CASE Footer
  BY <1>19, <1>t, <1>a, <1>e, BoundsAssumption
     DEF TypeOK, ControlInv, Footer, WriteSucceeds, WriteAborted, WriteFails, Return, Finish,
         call, export, result, world, lease, vars, PcSet, Outcome
<1>20. CASE EndSession
  <2>1. srv' \in Session(0..MaxVersion) /\ swallowed' \subseteq {"end"} \cup SessionVariable
    BY <1>20, <1>t, <1>e, EndOutcome DEF TypeOK
  <2>2. refusals' \in 0..MaxRefusals /\ pc' \in PcSet /\ at' \in 1..10
    BY <1>20, <1>t, EndOutcome DEF PcSet
  <2>. QED BY <1>20, <1>t, <2>1, <2>2, EndOutcome DEF TypeOK, call, export, result
<1>21. CASE RestoreVariable
  <2>1. PICK i \in DOMAIN RestoreOrder :
          /\ IsNextRestore(i) /\ at' = i + 1 /\ RestoreOrder[i] \in SessionVariable
          /\ \/ conn = "open" /\ srv' = Restore(srv, RestoreOrder[i], saved)
                /\ swallowed' = swallowed
             \/ conn # "open" /\ srv' = srv /\ swallowed' = swallowed
             \/ conn = "open" /\ srv' = srv /\ swallowed' = swallowed \cup {RestoreOrder[i]}
          /\ refusals' \in 0..MaxRefusals
    BY <1>21, <1>t, RestoreOutcome
  <2>2. i \in 1..3
    BY DEF RestoreOrder
  <2>3. /\ RestoreOrder[i] = "character_set_client" \/ saved[RestoreOrder[i]] \in Setting
        /\ saved["character_set_client"] \in Setting
    BY <1>21, <2>1, <2>2
       DEF RestoreVariable, Inv, SavedInv, Setting, IsNextRestore, IsRestored, RestoreOrder
  <2>4. Restore(srv, RestoreOrder[i], saved) \in Session(0..MaxVersion)
    BY <1>t, <2>3, RestoreTypes DEF TypeOK
  <2>5. srv' \in Session(0..MaxVersion) /\ at' \in 1..10
    BY <1>t, <2>1, <2>2, <2>4 DEF TypeOK
  <2>6. swallowed' \subseteq {"end"} \cup SessionVariable /\ refusals' \in 0..MaxRefusals
    BY <1>t, <2>1 DEF TypeOK
  <2>. QED BY <1>21, <1>t, <2>5, <2>6 DEF TypeOK, RestoreVariable, call, export, result
<1>22. CASE Restored
  BY <1>22, <1>t, <1>a, <1>e, BoundsAssumption
     DEF TypeOK, ControlInv, Restored, call, export, result, world, lease, vars, PcSet, Outcome
<1>23. CASE Release
  BY <1>23, <1>t, <1>a, <1>e, BoundsAssumption
     DEF TypeOK, ControlInv, Release, call, export, result, world, lease, vars, PcSet, Outcome
<1>24. CASE Abort
  BY <1>24, <1>t, <1>a, <1>e, BoundsAssumption
     DEF TypeOK, ControlInv, Abort, call, export, result, world, lease, vars, PcSet, Outcome
<1>25. CASE LoseConnection
  BY <1>25, <1>t, <1>a, <1>e, BoundsAssumption
     DEF TypeOK, ControlInv, LoseConnection, call, export, result, world, lease, vars, PcSet,
         Outcome
<1>26. CASE OutputBreaks
  BY <1>26, <1>t, <1>a, <1>e, BoundsAssumption
     DEF TypeOK, ControlInv, OutputBreaks, call, export, result, world, lease, vars, PcSet,
         Outcome
<1>27. CASE OtherSessionWrites
  BY <1>27, <1>t, <1>a, <1>e, BoundsAssumption
     DEF TypeOK, ControlInv, OtherSessionWrites, call, export, result, world, lease, vars,
         PcSet, Outcome
<1>28. CASE Terminated
  BY <1>28, <1>t DEF Terminated, call, export, result, world, lease, vars, TypeOK
<1>. QED
  BY <1>1, <1>2, <1>3, <1>4, <1>5, <1>6, <1>7, <1>8, <1>9, <1>10, <1>11, <1>12, <1>13, <1>14,
     <1>15, <1>16, <1>17, <1>18, <1>19, <1>20, <1>21, <1>22, <1>23, <1>24, <1>25, <1>26, <1>27, <1>28 DEF Next, Step

LEMMA ControlNext == Inv /\ Next => ControlInv'
<1> SUFFICES ASSUME Inv, Next PROVE ControlInv'
  OBVIOUS
<1>t. TypeOK /\ ControlInv /\ SavedInv /\ HoldInv
  BY DEF Inv
<1>a. /\ Len(entries) \in Nat /\ DOMAIN entries = 1..Len(entries)
      /\ \A i \in DOMAIN entries : entries[i].rows \in Nat
  BY <1>t, ArchivesAssumption DEF TypeOK
<1>1. CASE Acquire
  BY <1>1, <1>t, <1>a
     DEF TypeOK, ControlInv, Ending, Acquire, call, export, result, world, lease, vars
<1>2. CASE StartSnapshot
  BY <1>2, <1>t, <1>a
     DEF TypeOK, ControlInv, Ending, StartSnapshot, call, export, result, world, lease, vars
<1>3. CASE BeginSession
  BY <1>3, <1>t, <1>a
     DEF TypeOK, ControlInv, Ending, BeginSession, CallSucceeds, CallFails, Refuse, CallAborted,
         Cancel,
         BeginFails, call, export, result, world, lease, vars
<1>4. CASE Begun
  BY <1>4, <1>t, <1>a
     DEF TypeOK, ControlInv, Ending, Begun, call, export, result, world, lease, vars
<1>5. CASE Introspect
  BY <1>5, <1>t, <1>a
     DEF TypeOK, ControlInv, Ending, Introspect, CallSucceeds, CallFails, Refuse, CallAborted,
         Cancel, Finish,
         call, export, result, world, lease, vars
<1>6. CASE ReadMaxAllowedPacket
  BY <1>6, <1>t, <1>a
     DEF TypeOK, ControlInv, Ending, ReadMaxAllowedPacket, CallSucceeds, CallFails, Refuse,
         CallAborted, Cancel,
         Finish, call, export, result, world, lease, vars
<1>7. CASE Header
  BY <1>7, <1>t, <1>a
     DEF TypeOK, ControlInv, Ending, Header, EmitFrame, Emit, WriteSucceeds, WriteAborted,
         WriteFails,
         Return, Finish, call, export, result, world, lease, vars
<1>8. CASE NextEntry
  BY <1>8, <1>t, <1>a
     DEF TypeOK, ControlInv, Ending, NextEntry, Return, Finish, call, export, result, world,
         lease, vars
<1>9. CASE RenderObject
  BY <1>9, <1>t, <1>a
     DEF TypeOK, ControlInv, Ending, RenderObject, Emit, WriteSucceeds, WriteAborted, WriteFails,
         Return, Finish, call, export, result, world, lease, vars
<1>10. CASE OpenTable
  BY <1>10, <1>t, <1>a
     DEF TypeOK, ControlInv, Ending, OpenTable, Emit, WriteSucceeds, WriteAborted, WriteFails,
         Return,
         Finish, call, export, result, world, lease, vars
<1>11. CASE SelectRows
  BY <1>11, <1>t, <1>a
     DEF TypeOK, ControlInv, Ending, SelectRows, CallSucceeds, CallFails, Refuse,
         ExportCancelled, Finish, call,
         export, result, world, lease, vars
<1>12. CASE RowArrives
  BY <1>12, <1>t, <1>a
     DEF TypeOK, ControlInv, Ending, RowArrives, call, export, result, world, lease, vars
<1>13. CASE ResultEnds
  BY <1>13, <1>t, <1>a
     DEF TypeOK, ControlInv, Ending, ResultEnds, call, export, result, world, lease, vars
<1>14. CASE TakeRow
  BY <1>14, <1>t, <1>a
     DEF TypeOK, ControlInv, Ending, TakeRow, LeaveStream, Cancel, ExportCancelled, AddRow, Finish,
         call, export, result, world, lease, vars
<1>15. CASE FlushFull
  BY <1>15, <1>t, <1>a
     DEF TypeOK, ControlInv, Ending, FlushFull, WriteSucceeds, WriteAborted, WriteFails,
         WriteStatement,
         LeaveStream, Cancel, ExportCancelled, AddRow, Finish, call, export, result, world,
         lease, vars
<1>16. CASE StreamOver
  BY <1>16, <1>t, <1>a
     DEF TypeOK, ControlInv, Ending, StreamOver, LeaveStream, Cancel, ExportCancelled, RowsOver,
         Finish,
         call, export, result, world, lease, vars
<1>17. CASE FlushLast
  BY <1>17, <1>t, <1>a
     DEF TypeOK, ControlInv, Ending, FlushLast, WriteSucceeds, WriteAborted, WriteFails,
         WriteStatement,
         ExportCancelled, Finish, call, export, result, world, lease, vars
<1>18. CASE CloseTable
  BY <1>18, <1>t, <1>a
     DEF TypeOK, ControlInv, Ending, CloseTable, EmitFrame, Emit, WriteSucceeds, WriteAborted,
         WriteFails, Return, Finish, call, export, result, world, lease, vars
<1>19. CASE Footer
  BY <1>19, <1>t, <1>a
     DEF TypeOK, ControlInv, Ending, Footer, WriteSucceeds, WriteAborted, WriteFails, Return,
         Finish,
         call, export, result, world, lease, vars
<1>20. CASE EndSession
  BY <1>20, <1>t, <1>a
     DEF TypeOK, ControlInv, Ending, EndSession, EndWith, Attempt, NotSent, Refuse, call, export,
         result, world, lease, vars
<1>21. CASE RestoreVariable
  <2>1. at' <= 4 /\ pc = "restore"
    BY <1>21 DEF RestoreVariable, RestoreOrder
  <2>. QED BY <1>21, <1>t, <2>1 DEF ControlInv, Ending, RestoreVariable, call, export, lease
<1>22. CASE Restored
  BY <1>22, <1>t, <1>a
     DEF TypeOK, ControlInv, Ending, Restored, call, export, result, world, lease, vars
<1>23. CASE Release
  BY <1>23, <1>t, <1>a
     DEF TypeOK, ControlInv, Ending, Release, call, export, result, world, lease, vars
<1>24. CASE Abort
  BY <1>24, <1>t, <1>a
     DEF TypeOK, ControlInv, Ending, Abort, call, export, result, world, lease, vars
<1>25. CASE LoseConnection
  BY <1>25, <1>t, <1>a
     DEF TypeOK, ControlInv, Ending, LoseConnection, call, export, result, world, lease, vars
<1>26. CASE OutputBreaks
  BY <1>26, <1>t, <1>a
     DEF TypeOK, ControlInv, Ending, OutputBreaks, call, export, result, world, lease, vars
<1>27. CASE OtherSessionWrites
  BY <1>27, <1>t, <1>a
     DEF TypeOK, ControlInv, Ending, OtherSessionWrites, call, export, result, world, lease, vars
<1>28. CASE Terminated
  BY <1>28, <1>t DEF Terminated, call, export, result, world, lease, vars, TypeOK, ControlInv,
     Ending
<1>. QED
  BY <1>1, <1>2, <1>3, <1>4, <1>5, <1>6, <1>7, <1>8, <1>9, <1>10, <1>11, <1>12, <1>13, <1>14,
     <1>15, <1>16, <1>17, <1>18, <1>19, <1>20, <1>21, <1>22, <1>23, <1>24, <1>25, <1>26, <1>27, <1>28 DEF Next, Step

LEMMA HoldNext == Inv /\ Next => HoldInv'
<1> SUFFICES ASSUME Inv, Next PROVE HoldInv'
  OBVIOUS
<1>t. TypeOK /\ ControlInv /\ SavedInv /\ HoldInv
  BY DEF Inv
<1>e. ~End(srv).inTx /\ ~End(srv).readLock /\ End(srv).vars = srv.vars
  BY <1>t, Ended DEF TypeOK
<1>1. CASE Acquire
  BY <1>1, <1>t, <1>e
     DEF TypeOK, HoldInv, Rendering, Acquire, call, export, result, world, lease, vars
<1>2. CASE StartSnapshot
  BY <1>2, <1>t, <1>e
     DEF TypeOK, HoldInv, Rendering, StartSnapshot, call, export, result, world, lease, vars
<1>3. CASE BeginSession
  <2>1. PICK i \in DOMAIN BeginOrder :
          /\ IsNextStatement(i)
          /\ \/ /\ CallSucceeds
                /\ srv' = Begin(srv, BeginOrder[i], version)
                /\ saved' = Kept(saved, BeginOrder[i], srv)
                /\ at' = i + 1
                /\ UNCHANGED << pc, outcome >>
             \/ (CallFails \/ CallAborted) /\ BeginFails(i) /\ UNCHANGED saved
    BY <1>3 DEF BeginSession
  <2>2. /\ at \in 1..10 /\ i \in 1..9 /\ i >= at /\ IsSent(BeginOrder[i], opts, caller)
        /\ \A j \in 1..9 : IsSent(BeginOrder[j], opts, caller) => j < at \/ j >= i
    BY <1>t, <2>1, NextIsSent DEF TypeOK
  <2>3. pc = "begin" /\ UNCHANGED << opts, caller, entries, seen, version >>
    BY <1>3 DEF BeginSession, call, result
  <2>w. swallowed = {}
    BY <1>t, <2>3 DEF ControlInv, Ending
  <2>4. CASE /\ CallSucceeds
              /\ srv' = Begin(srv, BeginOrder[i], version)
              /\ saved' = Kept(saved, BeginOrder[i], srv)
              /\ at' = i + 1
              /\ UNCHANGED << pc, outcome >>
    <3>1. conn = "open" /\ conn' = "open"
      BY <2>4 DEF CallSucceeds
    <3>2. CASE i <= 7
      <4>1. srv'.inTx = srv.inTx /\ srv'.readLock = srv.readLock
        BY <1>t, <2>2, <2>4, <3>2, PinHoldsNothing DEF TypeOK
      <4>. QED BY <1>t, <2>2, <2>3, <2>w, <2>4, <3>1, <3>2, <4>1 DEF HoldInv, Rendering
    <3>3. CASE i = 8
      <4>1. opts.consistency = "single-transaction"
        BY <2>2, <3>3, SentPlaces
      <4>2. srv' = [srv EXCEPT !.inTx = TRUE, !.snapshot = version]
        BY <2>4, <3>3, HoldPlaces
      <4>3. ~srv'.readLock
        <5>1. srv'.readLock = srv.readLock
          BY <1>t, <4>2 DEF TypeOK, Session
        <5>. QED BY <1>t, <2>2, <2>3, <2>w, <3>3, <5>1 DEF HoldInv, Rendering
      <4>. QED BY <2>3, <2>4, <3>1, <3>3, <4>1, <4>3 DEF HoldInv
    <3>4. CASE i = 9
      <4>1. opts.consistency = "lock-all-tables"
        BY <2>2, <3>4, SentPlaces
      <4>2. srv' = [srv EXCEPT !.readLock = TRUE]
        BY <2>4, <3>4, HoldPlaces
      <4>3. ~srv'.inTx
        <5>1. srv'.inTx = srv.inTx
          BY <1>t, <4>2 DEF TypeOK, Session
        <5>. QED BY <1>t, <2>2, <2>3, <4>1, <5>1 DEF HoldInv
      <4>. QED BY <2>3, <2>4, <3>1, <3>4, <4>1, <4>3 DEF HoldInv
    <3>. QED BY <2>2, <3>2, <3>3, <3>4
  <2>5. CASE (CallFails \/ CallAborted) /\ BeginFails(i)
    <3>1. ~srv.inTx /\ ~srv.readLock
      <4>1. srv.inTx => opts.consistency = "single-transaction" /\ i = 9
        BY <1>t, <2>2, <2>3, <2>w DEF HoldInv, Rendering
      <4>2. srv.readLock => FALSE
        BY <1>t, <2>2, <2>3, <2>w DEF HoldInv, Rendering
      <4>. QED BY <2>2, <4>1, <4>2, SentPlaces
    <3>2. ~srv'.inTx /\ ~srv'.readLock
      BY <1>e, <2>5, <3>1 DEF CallFails, Refuse, CallAborted, Cancel
    <3>. QED BY <3>2 DEF HoldInv
  <2>. QED BY <2>1, <2>4, <2>5
<1>4. CASE Begun
  BY <1>4, <1>t, <1>e
     DEF TypeOK, HoldInv, Rendering, Begun, call, export, result, world, lease, vars
<1>5. CASE Introspect
  BY <1>5, <1>t, <1>e
     DEF TypeOK, HoldInv, Rendering, Introspect, CallSucceeds, CallFails, Refuse, CallAborted,
         Cancel,
         Finish, call, export, result, world, lease, vars
<1>6. CASE ReadMaxAllowedPacket
  BY <1>6, <1>t, <1>e
     DEF TypeOK, HoldInv, Rendering, ReadMaxAllowedPacket, CallSucceeds, CallFails, Refuse,
         CallAborted,
         Cancel, Finish, call, export, result, world, lease, vars
<1>7. CASE Header
  BY <1>7, <1>t, <1>e
     DEF TypeOK, HoldInv, Rendering, Header, EmitFrame, Emit, WriteSucceeds, WriteAborted,
         WriteFails, Return, Finish, call, export, result, world, lease, vars
<1>8. CASE NextEntry
  BY <1>8, <1>t, <1>e
     DEF TypeOK, HoldInv, Rendering, NextEntry, Return, Finish, call, export, result, world,
         lease, vars
<1>9. CASE RenderObject
  BY <1>9, <1>t, <1>e
     DEF TypeOK, HoldInv, Rendering, RenderObject, Emit, WriteSucceeds, WriteAborted,
         WriteFails, Return, Finish, call, export, result, world, lease, vars
<1>10. CASE OpenTable
  BY <1>10, <1>t, <1>e
     DEF TypeOK, HoldInv, Rendering, OpenTable, Emit, WriteSucceeds, WriteAborted, WriteFails,
         Return, Finish, call, export, result, world, lease, vars
<1>11. CASE SelectRows
  BY <1>11, <1>t, <1>e
     DEF TypeOK, HoldInv, Rendering, SelectRows, CallSucceeds, CallFails, Refuse, ExportCancelled,
         Finish, call, export, result, world, lease, vars
<1>12. CASE RowArrives
  BY <1>12, <1>t, <1>e
     DEF TypeOK, HoldInv, Rendering, RowArrives, call, export, result, world, lease, vars
<1>13. CASE ResultEnds
  BY <1>13, <1>t, <1>e
     DEF TypeOK, HoldInv, Rendering, ResultEnds, call, export, result, world, lease, vars
<1>14. CASE TakeRow
  BY <1>14, <1>t, <1>e
     DEF TypeOK, HoldInv, Rendering, TakeRow, LeaveStream, Cancel, ExportCancelled, AddRow,
         Finish, call, export, result, world, lease, vars
<1>15. CASE FlushFull
  BY <1>15, <1>t, <1>e
     DEF TypeOK, HoldInv, Rendering, FlushFull, WriteSucceeds, WriteAborted, WriteFails,
         WriteStatement, LeaveStream, Cancel, ExportCancelled, AddRow, Finish, call, export,
         result, world, lease, vars
<1>16. CASE StreamOver
  BY <1>16, <1>t, <1>e
     DEF TypeOK, HoldInv, Rendering, StreamOver, LeaveStream, Cancel, ExportCancelled, RowsOver,
         Finish, call, export, result, world, lease, vars
<1>17. CASE FlushLast
  BY <1>17, <1>t, <1>e
     DEF TypeOK, HoldInv, Rendering, FlushLast, WriteSucceeds, WriteAborted, WriteFails,
         WriteStatement, ExportCancelled, Finish, call, export, result, world, lease, vars
<1>18. CASE CloseTable
  BY <1>18, <1>t, <1>e
     DEF TypeOK, HoldInv, Rendering, CloseTable, EmitFrame, Emit, WriteSucceeds, WriteAborted,
         WriteFails, Return, Finish, call, export, result, world, lease, vars
<1>19. CASE Footer
  BY <1>19, <1>t, <1>e
     DEF TypeOK, HoldInv, Rendering, Footer, WriteSucceeds, WriteAborted, WriteFails, Return,
         Finish, call, export, result, world, lease, vars
<1>20. CASE EndSession
  BY <1>20, <1>t, <1>e, EndOutcome DEF HoldInv, Rendering, call
<1>21. CASE RestoreVariable
  <2>1. PICK i \in DOMAIN RestoreOrder :
          /\ IsNextRestore(i)
          /\ srv' = srv \/ srv' = Restore(srv, RestoreOrder[i], saved)
          /\ swallowed \subseteq swallowed'
    BY <1>21, <1>t, RestoreOutcome
  <2>2. /\ RestoreOrder[i] = "character_set_client" \/ saved[RestoreOrder[i]] \in Setting
        /\ saved["character_set_client"] \in Setting
    BY <1>21, <1>t, <2>1
       DEF RestoreVariable, SavedInv, Setting, IsNextRestore, IsRestored, RestoreOrder
  <2>3. srv'.inTx = srv.inTx /\ srv'.readLock = srv.readLock
    BY <1>t, <2>1, <2>2, RestoreTypes DEF TypeOK
  <2>4. pc = "restore" /\ UNCHANGED << opts, conn >>
    BY <1>21 DEF RestoreVariable, call
  <2>. QED BY <1>t, <2>1, <2>3, <2>4 DEF HoldInv, Rendering
<1>22. CASE Restored
  BY <1>22, <1>t, <1>e
     DEF TypeOK, HoldInv, Rendering, Restored, call, export, result, world, lease, vars
<1>23. CASE Release
  BY <1>23, <1>t, <1>e
     DEF TypeOK, HoldInv, Rendering, Release, call, export, result, world, lease, vars
<1>24. CASE Abort
  BY <1>24, <1>t, <1>e
     DEF TypeOK, HoldInv, Rendering, Abort, call, export, result, world, lease, vars
<1>25. CASE LoseConnection
  BY <1>25, <1>t, <1>e
     DEF TypeOK, HoldInv, Rendering, LoseConnection, call, export, result, world, lease, vars
<1>26. CASE OutputBreaks
  BY <1>26, <1>t, <1>e
     DEF TypeOK, HoldInv, Rendering, OutputBreaks, call, export, result, world, lease, vars
<1>27. CASE OtherSessionWrites
  BY <1>27, <1>t, <1>e
     DEF TypeOK, HoldInv, Rendering, OtherSessionWrites, call, export, result, world, lease, vars
<1>28. CASE Terminated
  BY <1>28, <1>t DEF Terminated, call, export, result, world, lease, vars, TypeOK, HoldInv,
     Rendering
<1>. QED
  BY <1>1, <1>2, <1>3, <1>4, <1>5, <1>6, <1>7, <1>8, <1>9, <1>10, <1>11, <1>12, <1>13, <1>14,
     <1>15, <1>16, <1>17, <1>18, <1>19, <1>20, <1>21, <1>22, <1>23, <1>24, <1>25, <1>26, <1>27, <1>28 DEF Next, Step

LEMMA SavedNext == Inv /\ Next => SavedInv'
<1> SUFFICES ASSUME Inv, Next PROVE SavedInv'
  OBVIOUS
<1>t. TypeOK /\ ControlInv /\ SavedInv /\ HoldInv
  BY DEF Inv
<1>k. /\ Kept(saved, BeginOrder[1], srv)["sql_mode"] = srv.vars["sql_mode"]
      /\ Kept(saved, BeginOrder[2], srv)["time_zone"] = srv.vars["time_zone"]
      /\ Kept(saved, BeginOrder[2], srv)["sql_mode"] = saved["sql_mode"]
      /\ Kept(saved, BeginOrder[3], srv)["character_set_client"] = srv.vars["character_set_client"]
      /\ Kept(saved, BeginOrder[3], srv)["time_zone"] = saved["time_zone"]
      /\ Kept(saved, BeginOrder[3], srv)["sql_mode"] = saved["sql_mode"]
      /\ \A i \in 4..9 : Kept(saved, BeginOrder[i], srv) = saved
  <2>1. saved \in [SessionVariable -> Setting \cup {"unread"}]
    BY <1>t DEF TypeOK
  <2>. QED BY <2>1, KeptByPlace, Zenon
<1>e. End(srv).vars = srv.vars
  BY <1>t, Ended DEF TypeOK
<1>1. CASE Acquire
  BY <1>1, <1>t, <1>e
     DEF TypeOK, ControlInv, SavedInv, Rendering, Acquire, call, export, result, world, lease,
         vars
<1>2. CASE StartSnapshot
  BY <1>2, <1>t, <1>e
     DEF TypeOK, ControlInv, SavedInv, Rendering, StartSnapshot, call, export, result, world,
         lease, vars
<1>3. CASE BeginSession
  <2>1. PICK i \in DOMAIN BeginOrder :
          /\ IsNextStatement(i)
          /\ \/ /\ CallSucceeds
                /\ srv' = Begin(srv, BeginOrder[i], version)
                /\ saved' = Kept(saved, BeginOrder[i], srv)
                /\ at' = i + 1
                /\ UNCHANGED << pc, outcome >>
             \/ (CallFails \/ CallAborted) /\ BeginFails(i) /\ UNCHANGED saved
    BY <1>3 DEF BeginSession
  <2>2. /\ at \in 1..10 /\ i \in 1..9 /\ i >= at /\ IsSent(BeginOrder[i], opts, caller)
        /\ \A j \in 1..9 : IsSent(BeginOrder[j], opts, caller) => j < at \/ j >= i
    BY <1>t, <2>1, NextIsSent DEF TypeOK
  <2>3. pc = "begin" /\ UNCHANGED << opts, caller, entries, seen, version >>
    BY <1>3 DEF BeginSession, call, result
  <2>4. CASE /\ CallSucceeds
              /\ srv' = Begin(srv, BeginOrder[i], version)
              /\ saved' = Kept(saved, BeginOrder[i], srv)
              /\ at' = i + 1
              /\ UNCHANGED << pc, outcome >>
    <3>1. conn = "open" /\ conn' = "open"
      BY <2>4 DEF CallSucceeds
    <3>2. CASE i <= 3
      <4>1. srv' = srv /\ srv.vars = Found(caller)
        <5>1. srv' = srv
          BY <2>2, <2>4, <3>2, ReadChangesNothing
        <5>. QED BY <1>t, <2>2, <2>3, <3>1, <3>2, <5>1 DEF SavedInv
      <4>2. /\ i = 1 => saved'["sql_mode"] = "caller"
            /\ i = 2 => saved'["time_zone"] = "caller" /\ saved'["sql_mode"] = saved["sql_mode"]
            /\ i = 3 => /\ saved'["character_set_client"] = "caller"
                        /\ saved'["time_zone"] = saved["time_zone"]
                        /\ saved'["sql_mode"] = saved["sql_mode"]
        <5>1. CASE i = 1
          BY <2>4, <4>1, <5>1, <1>k, FoundWhatIsRead
        <5>2. CASE i = 2
          BY <2>4, <4>1, <5>2, <1>k, FoundWhatIsRead
        <5>3. CASE i = 3
          BY <2>4, <4>1, <5>3, <1>k, FoundWhatIsRead
        <5>. QED BY <2>2, <3>2, <5>1, <5>2, <5>3
      <4>3. /\ at <= 1 => i = 1
            /\ opts.timeZone /\ at <= 2 => i <= 2
            /\ at <= 3 => i <= 3
        BY <2>2, SentPlaces
      <4>4. /\ saved'["sql_mode"] = "caller"
            /\ i > 1 /\ opts.timeZone => saved'["time_zone"] = "caller"
            /\ i > 2 => saved'["character_set_client"] = "caller"
        BY <1>t, <2>2, <2>3, <3>2, <4>2, <4>3 DEF SavedInv, TypeOK, SessionVariable, CharsetTrio
      <4>. QED BY <2>2, <2>3, <2>4, <3>2, <4>1, <4>4 DEF SavedInv, Rendering
    <3>3. CASE i > 3
      <4>1. saved' = saved
        BY <1>k, <2>2, <2>4, <3>3
      <4>2. at > 3
        BY <2>2, <3>3, SentPlaces
      <4>. QED BY <1>t, <2>2, <2>3, <2>4, <3>3, <4>1, <4>2 DEF SavedInv, Rendering
    <3>. QED BY <2>2, <3>2, <3>3
  <2>5. CASE (CallFails \/ CallAborted) /\ BeginFails(i) /\ UNCHANGED saved
    <3>1. CASE i <= 3
      <4>1. pc' = "release"
        BY <2>2, <2>5, <3>1, BeginReads DEF BeginFails
      <4>. QED BY <4>1 DEF SavedInv, Rendering
    <3>2. CASE i > 3
      <4>1. pc' = "restore" /\ saved' = saved
        BY <2>2, <2>5, <3>2, BeginReads DEF BeginFails
      <4>2. at > 3
        BY <2>2, <3>2, SentPlaces
      <4>. QED BY <1>t, <2>2, <2>3, <4>1, <4>2 DEF SavedInv, Rendering
    <3>. QED BY <2>2, <3>1, <3>2
  <2>. QED BY <2>1, <2>4, <2>5
<1>4. CASE Begun
  <2>1. \A i \in 1..9 : IsSent(BeginOrder[i], opts, caller) => i < at
    BY <1>4, <1>t, AllSent, BeginPlaces DEF Begun, TypeOK
  <2>2. at > 3 /\ at \in Nat
    BY <1>t, <2>1, SentPlaces DEF TypeOK
  <2>. QED BY <1>4, <1>t, <2>2 DEF Begun, SavedInv, Rendering, call
<1>5. CASE Introspect
  BY <1>5, <1>t, <1>e
     DEF TypeOK, ControlInv, SavedInv, Rendering, Introspect, CallSucceeds, CallFails, Refuse,
         CallAborted, Cancel, Finish, call, export, result, world, lease, vars
<1>6. CASE ReadMaxAllowedPacket
  BY <1>6, <1>t, <1>e
     DEF TypeOK, ControlInv, SavedInv, Rendering, ReadMaxAllowedPacket, CallSucceeds, CallFails,
         Refuse,
         CallAborted, Cancel, Finish, call, export, result, world, lease, vars
<1>7. CASE Header
  BY <1>7, <1>t, <1>e
     DEF TypeOK, ControlInv, SavedInv, Rendering, Header, EmitFrame, Emit, WriteSucceeds,
         WriteAborted, WriteFails, Return, Finish, call, export, result, world, lease, vars
<1>8. CASE NextEntry
  BY <1>8, <1>t, <1>e
     DEF TypeOK, ControlInv, SavedInv, Rendering, NextEntry, Return, Finish, call, export,
         result, world, lease, vars
<1>9. CASE RenderObject
  BY <1>9, <1>t, <1>e
     DEF TypeOK, ControlInv, SavedInv, Rendering, RenderObject, Emit, WriteSucceeds,
         WriteAborted, WriteFails, Return, Finish, call, export, result, world, lease, vars
<1>10. CASE OpenTable
  BY <1>10, <1>t, <1>e
     DEF TypeOK, ControlInv, SavedInv, Rendering, OpenTable, Emit, WriteSucceeds, WriteAborted,
         WriteFails, Return, Finish, call, export, result, world, lease, vars
<1>11. CASE SelectRows
  BY <1>11, <1>t, <1>e
     DEF TypeOK, ControlInv, SavedInv, Rendering, SelectRows, CallSucceeds, CallFails, Refuse,
         ExportCancelled, Finish, call, export, result, world, lease, vars
<1>12. CASE RowArrives
  BY <1>12, <1>t, <1>e
     DEF TypeOK, ControlInv, SavedInv, Rendering, RowArrives, call, export, result, world,
         lease, vars
<1>13. CASE ResultEnds
  BY <1>13, <1>t, <1>e
     DEF TypeOK, ControlInv, SavedInv, Rendering, ResultEnds, call, export, result, world,
         lease, vars
<1>14. CASE TakeRow
  BY <1>14, <1>t, <1>e
     DEF TypeOK, ControlInv, SavedInv, Rendering, TakeRow, LeaveStream, Cancel, ExportCancelled,
         AddRow, Finish, call, export, result, world, lease, vars
<1>15. CASE FlushFull
  BY <1>15, <1>t, <1>e
     DEF TypeOK, ControlInv, SavedInv, Rendering, FlushFull, WriteSucceeds, WriteAborted,
         WriteFails, WriteStatement, LeaveStream, Cancel, ExportCancelled, AddRow, Finish, call,
         export, result, world, lease, vars
<1>16. CASE StreamOver
  BY <1>16, <1>t, <1>e
     DEF TypeOK, ControlInv, SavedInv, Rendering, StreamOver, LeaveStream, Cancel,
         ExportCancelled, RowsOver, Finish, call, export, result, world, lease, vars
<1>17. CASE FlushLast
  BY <1>17, <1>t, <1>e
     DEF TypeOK, ControlInv, SavedInv, Rendering, FlushLast, WriteSucceeds, WriteAborted,
         WriteFails, WriteStatement, ExportCancelled, Finish, call, export, result, world,
         lease, vars
<1>18. CASE CloseTable
  BY <1>18, <1>t, <1>e
     DEF TypeOK, ControlInv, SavedInv, Rendering, CloseTable, EmitFrame, Emit, WriteSucceeds,
         WriteAborted, WriteFails, Return, Finish, call, export, result, world, lease, vars
<1>19. CASE Footer
  BY <1>19, <1>t, <1>e
     DEF TypeOK, ControlInv, SavedInv, Rendering, Footer, WriteSucceeds, WriteAborted,
         WriteFails, Return, Finish, call, export, result, world, lease, vars
<1>20. CASE EndSession
  BY <1>20, <1>t, <1>e
     DEF TypeOK, ControlInv, SavedInv, Rendering, EndSession, EndWith, Attempt, NotSent, Refuse,
         call, export, result, world,
         lease, vars
<1>21. CASE RestoreVariable
  BY <1>21, <1>t, <1>e
     DEF TypeOK, ControlInv, SavedInv, Rendering, RestoreVariable, call, export, result, world,
         lease, vars
<1>22. CASE Restored
  BY <1>22, <1>t, <1>e
     DEF TypeOK, ControlInv, SavedInv, Rendering, Restored, call, export, result, world, lease,
         vars
<1>23. CASE Release
  BY <1>23, <1>t, <1>e
     DEF TypeOK, ControlInv, SavedInv, Rendering, Release, call, export, result, world, lease,
         vars
<1>24. CASE Abort
  BY <1>24, <1>t, <1>e
     DEF TypeOK, ControlInv, SavedInv, Rendering, Abort, call, export, result, world, lease, vars
<1>25. CASE LoseConnection
  BY <1>25, <1>t, <1>e
     DEF TypeOK, ControlInv, SavedInv, Rendering, LoseConnection, call, export, result, world,
         lease, vars
<1>26. CASE OutputBreaks
  BY <1>26, <1>t, <1>e
     DEF TypeOK, ControlInv, SavedInv, Rendering, OutputBreaks, call, export, result, world,
         lease, vars
<1>27. CASE OtherSessionWrites
  BY <1>27, <1>t, <1>e
     DEF TypeOK, ControlInv, SavedInv, Rendering, OtherSessionWrites, call, export, result,
         world, lease, vars
<1>28. CASE Terminated
  BY <1>28, <1>t DEF Terminated, call, export, result, world, lease, vars, TypeOK, ControlInv,
     SavedInv, Rendering
<1>. QED
  BY <1>1, <1>2, <1>3, <1>4, <1>5, <1>6, <1>7, <1>8, <1>9, <1>10, <1>11, <1>12, <1>13, <1>14,
     <1>15, <1>16, <1>17, <1>18, <1>19, <1>20, <1>21, <1>22, <1>23, <1>24, <1>25, <1>26, <1>27, <1>28 DEF Next, Step

\* A step after which the instant is kept because nothing it rests on changed.
Early == { "acquire", "snapshot", "begin" }

Quiet ==
  /\ UNCHANGED << opts, entries, seen, version >>
  /\ pc' \in Early => pc \in Early
  /\ pc' = "begin" /\ conn' = "open" =>
       \/ at' <= 7
       \/ pc = "begin" /\ conn = "open" /\ at' = at /\ srv' = srv
  /\ pc' \in Rendering /\ conn' = "open" => pc \in Rendering /\ conn = "open" /\ srv' = srv

LEMMA QuietKeepsInstant ==
  ASSUME InstantInv, Quiet, TypeOK'
  PROVE  InstantInv'
<1>1. OneInstant'
  BY DEF InstantInv, OneInstant, Covered, Quiet
<1>2. (pc \in Early => \A i \in DOMAIN entries : seen[i] = 0)'
  BY DEF InstantInv, Quiet, Early
<1>3. pc' = "begin" /\ conn' = "open" =>
        /\ opts'.consistency = "single-transaction" /\ at' > 7 =>
             srv'.vars["transaction_isolation"] = "dump"
        /\ opts'.consistency = "single-transaction" /\ at' > 8 => srv'.inTx
        /\ opts'.consistency = "lock-all-tables" /\ at' > 9 => srv'.readLock
  <2> SUFFICES ASSUME pc' = "begin", conn' = "open"
               PROVE  /\ opts'.consistency = "single-transaction" /\ at' > 7 =>
                           srv'.vars["transaction_isolation"] = "dump"
                      /\ opts'.consistency = "single-transaction" /\ at' > 8 => srv'.inTx
                      /\ opts'.consistency = "lock-all-tables" /\ at' > 9 => srv'.readLock
    OBVIOUS
  <2>0. at' \in Nat
    BY DEF TypeOK
  <2>1. CASE at' <= 7
    BY <2>0, <2>1
  <2>2. CASE pc = "begin" /\ conn = "open" /\ at' = at /\ srv' = srv
    BY <2>2 DEF InstantInv, Quiet
  <2>. QED BY <2>1, <2>2 DEF Quiet
<1>4. pc' \in Rendering /\ conn' = "open" =>
        /\ opts'.consistency = "single-transaction" => SnapshotOpen'
        /\ opts'.consistency = "lock-all-tables" => srv'.readLock
        /\ \A i \in DOMAIN entries' : Covered(i)' /\ seen'[i] # 0 => seen'[i] = Instant'
  BY DEF InstantInv, Quiet, SnapshotOpen, Instant, Covered
<1>. QED BY <1>1, <1>2, <1>3, <1>4 DEF InstantInv, Early

LEMMA InstantNext == Inv /\ InstantInv /\ Next => InstantInv'
<1> SUFFICES ASSUME Inv, InstantInv, Next PROVE InstantInv'
  OBVIOUS
<1>t. TypeOK /\ ControlInv /\ HoldInv
  BY DEF Inv
<1>u. TypeOK'
  BY TypeNext
<1>a. pc = "begin" => \A i \in DOMAIN entries : seen[i] = 0
  BY DEF InstantInv
<1>o. UNCHANGED << opts, entries, seen >> => OneInstant'
  BY DEF InstantInv, OneInstant, Covered
<1>1. CASE Acquire
  <2>1. Quiet
    BY <1>1, <1>t
       DEF Quiet, Early, Rendering, ControlInv, Acquire, call, export, result, world, lease,
           vars
  <2>. QED BY <1>u, <2>1, QuietKeepsInstant
<1>2. CASE StartSnapshot
  <2>1. Quiet
    BY <1>2, <1>t
       DEF Quiet, Early, Rendering, TypeOK, ControlInv, StartSnapshot, call, export, result,
           world, lease, vars
  <2>. QED BY <1>u, <2>1, QuietKeepsInstant
<1>3. CASE BeginSession
  <2>1. PICK i \in DOMAIN BeginOrder :
          /\ IsNextStatement(i)
          /\ \/ /\ CallSucceeds
                /\ srv' = Begin(srv, BeginOrder[i], version)
                /\ saved' = Kept(saved, BeginOrder[i], srv)
                /\ at' = i + 1
                /\ UNCHANGED << pc, outcome >>
             \/ (CallFails \/ CallAborted) /\ BeginFails(i) /\ UNCHANGED saved
    BY <1>3 DEF BeginSession
  <2>2. /\ at \in 1..10 /\ i \in 1..9 /\ i >= at /\ IsSent(BeginOrder[i], opts, caller)
        /\ \A j \in 1..9 : IsSent(BeginOrder[j], opts, caller) => j < at \/ j >= i
    BY <1>t, <2>1, NextIsSent DEF TypeOK
  <2>3. pc = "begin" /\ UNCHANGED << opts, caller, entries, seen, version >>
    BY <1>3 DEF BeginSession, call, result
  <2>4. CASE /\ CallSucceeds
              /\ srv' = Begin(srv, BeginOrder[i], version)
              /\ saved' = Kept(saved, BeginOrder[i], srv)
              /\ at' = i + 1
              /\ UNCHANGED << pc, outcome >>
    <3>1. conn = "open" /\ conn' = "open" /\ pc' = "begin"
      BY <2>3, <2>4 DEF CallSucceeds
    <3>2. CASE i < 7
      <4>1. Quiet
        BY <2>2, <2>3, <2>4, <3>1, <3>2 DEF Quiet, Early, Rendering
      <4>. QED BY <1>u, <4>1, QuietKeepsInstant
    <3>3. CASE i = 7
      <4>1. srv'.vars["transaction_isolation"] = "dump"
        BY <1>t, <2>2, <2>4, <3>3, PinHoldsNothing DEF TypeOK
      <4>. QED BY <1>a, <1>o, <2>2, <2>3, <2>4, <3>1, <3>3, <4>1 DEF InstantInv, Rendering
    <3>4. CASE i = 8
      <4>1. srv' = [srv EXCEPT !.inTx = TRUE, !.snapshot = version]
        BY <2>4, <3>4, HoldPlaces
      <4>2. srv'.vars = srv.vars /\ srv'.inTx
        BY <1>t, <4>1 DEF TypeOK, Session
      <4>3. opts.consistency = "single-transaction" /\ at > 7
        BY <2>2, <3>4, SentPlaces
      <4>. QED BY <1>a, <1>o, <2>2, <2>3, <2>4, <3>1, <3>4, <4>2, <4>3 DEF InstantInv, Rendering
    <3>5. CASE i = 9
      <4>1. srv' = [srv EXCEPT !.readLock = TRUE]
        BY <2>4, <3>5, HoldPlaces
      <4>2. srv'.readLock
        BY <1>t, <4>1 DEF TypeOK, Session
      <4>3. opts.consistency = "lock-all-tables"
        BY <2>2, <3>5, SentPlaces
      <4>. QED BY <1>a, <1>o, <2>2, <2>3, <2>4, <3>1, <3>5, <4>2, <4>3 DEF InstantInv, Rendering
    <3>. QED BY <2>2, <3>2, <3>3, <3>4, <3>5
  <2>5. CASE (CallFails \/ CallAborted) /\ BeginFails(i) /\ UNCHANGED saved
    <3>1. Quiet
      BY <2>3, <2>5 DEF Quiet, Early, Rendering, BeginFails
    <3>. QED BY <1>u, <3>1, QuietKeepsInstant
  <2>. QED BY <2>1, <2>4, <2>5
<1>4. CASE Begun
  <2>1. \A i \in 1..9 : IsSent(BeginOrder[i], opts, caller) => i < at
    BY <1>4, <1>t, AllSent, BeginPlaces DEF Begun, TypeOK
  <2>2. /\ opts.consistency = "single-transaction" => 7 < at /\ 8 < at
        /\ opts.consistency = "lock-all-tables" => 9 < at
    BY <2>1, SentPlaces
  <2>3. /\ pc = "begin" /\ pc' = "introspect"
        /\ UNCHANGED << opts, entries, seen, version, srv, conn >>
    BY <1>4 DEF Begun, call, result, world
  <2>4. \A i \in DOMAIN entries : seen[i] = 0
    BY <2>3 DEF InstantInv
  <2>5. conn = "open" =>
          /\ opts.consistency = "single-transaction" => SnapshotOpen
          /\ opts.consistency = "lock-all-tables" => srv.readLock
    BY <1>t, <2>2, <2>3 DEF InstantInv, SnapshotOpen, TypeOK
  <2>. QED BY <1>o, <2>3, <2>4, <2>5 DEF InstantInv, SnapshotOpen, Rendering
<1>5. CASE Introspect
  <2>1. Quiet
    BY <1>5, <1>t
       DEF Quiet, Early, Rendering, ControlInv, Introspect, CallSucceeds, CallFails, Refuse,
           CallAborted, Cancel, Finish, call, export, result, world, lease, vars
  <2>. QED BY <1>u, <2>1, QuietKeepsInstant
<1>6. CASE ReadMaxAllowedPacket
  <2>1. Quiet
    BY <1>6, <1>t
       DEF Quiet, Early, Rendering, ControlInv, ReadMaxAllowedPacket, CallSucceeds, CallFails,
           Refuse,
           CallAborted, Cancel, Finish, call, export, result, world, lease, vars
  <2>. QED BY <1>u, <2>1, QuietKeepsInstant
<1>7. CASE Header
  <2>1. Quiet
    BY <1>7, <1>t
       DEF Quiet, Early, Rendering, ControlInv, Header, EmitFrame, Emit, WriteSucceeds,
           WriteAborted, WriteFails, Return, Finish, call, export, result, world, lease, vars
  <2>. QED BY <1>u, <2>1, QuietKeepsInstant
<1>8. CASE NextEntry
  <2>1. Quiet
    BY <1>8, <1>t
       DEF Quiet, Early, Rendering, ControlInv, NextEntry, Return, Finish, call, export, result,
           world, lease, vars
  <2>. QED BY <1>u, <2>1, QuietKeepsInstant
<1>9. CASE RenderObject
  <2>1. Quiet
    BY <1>9, <1>t
       DEF Quiet, Early, Rendering, ControlInv, RenderObject, Emit, WriteSucceeds, WriteAborted,
           WriteFails, Return, Finish, call, export, result, world, lease, vars
  <2>. QED BY <1>u, <2>1, QuietKeepsInstant
<1>10. CASE OpenTable
  <2>1. Quiet
    BY <1>10, <1>t
       DEF Quiet, Early, Rendering, ControlInv, OpenTable, Emit, WriteSucceeds, WriteAborted,
           WriteFails, Return, Finish, call, export, result, world, lease, vars
  <2>. QED BY <1>u, <2>1, QuietKeepsInstant
<1>11. CASE SelectRows
  <2>1. CASE UNCHANGED seen
    <3>1. Quiet
      BY <1>11, <1>t, <2>1
         DEF Quiet, Early, Rendering, ControlInv, SelectRows, CallSucceeds, CallFails, Refuse,
             ExportCancelled, Finish, call, export, result, world, lease, vars
    <3>. QED BY <1>u, <3>1, QuietKeepsInstant
  <2>2. CASE ~UNCHANGED seen
    <3>1. /\ CallSucceeds /\ pc = "select" /\ pc' = "rows" /\ opts' = opts /\ entries' = entries
          /\ seen' = [seen EXCEPT ![entry] = Sees(srv, entries[entry].transactional, version)]
          /\ srv' = srv /\ version' = version
      BY <1>11, <2>2 DEF SelectRows, call
    <3>2. conn = "open" /\ conn' = "open" /\ entry \in DOMAIN entries
      BY <1>t, <3>1 DEF CallSucceeds, ControlInv
    <3>3. /\ opts.consistency = "single-transaction" => SnapshotOpen
          /\ opts.consistency = "lock-all-tables" => srv.readLock
          /\ \A i \in DOMAIN entries : Covered(i) /\ seen[i] # 0 => seen[i] = Instant
      BY <3>1, <3>2 DEF InstantInv, Rendering
    <3>4. Covered(entry) => Sees(srv, entries[entry].transactional, version) = Instant
      <4>1. CASE opts.consistency = "single-transaction"
        BY <3>3, <4>1 DEF Covered, Sees, Instant, SnapshotOpen
      <4>2. CASE opts.consistency = "lock-all-tables"
        <5>1. ~srv.inTx
          BY <1>t, <4>2 DEF HoldInv
        <5>. QED BY <4>2, <5>1 DEF Sees, Instant
      <4>. QED BY <4>1, <4>2 DEF Covered
    <3>5. \A i \in DOMAIN entries : Covered(i) /\ seen'[i] # 0 => seen'[i] = Instant
      BY <1>t, <3>1, <3>2, <3>3, <3>4 DEF TypeOK
    <3>6. /\ \A i \in DOMAIN entries : Covered(i)' = Covered(i)
          /\ Instant' = Instant /\ (SnapshotOpen' = SnapshotOpen)
      BY <3>1 DEF Covered, Instant, SnapshotOpen
    <3>7. OneInstant'
      BY <3>1, <3>5, <3>6 DEF OneInstant
    <3>. QED BY <3>1, <3>2, <3>3, <3>5, <3>6, <3>7 DEF InstantInv
  <2>. QED BY <2>1, <2>2
<1>12. CASE RowArrives
  <2>1. Quiet
    BY <1>12, <1>t
       DEF Quiet, Early, Rendering, ControlInv, RowArrives, call, export, result, world, lease,
           vars
  <2>. QED BY <1>u, <2>1, QuietKeepsInstant
<1>13. CASE ResultEnds
  <2>1. Quiet
    BY <1>13, <1>t
       DEF Quiet, Early, Rendering, ControlInv, ResultEnds, call, export, result, world, lease,
           vars
  <2>. QED BY <1>u, <2>1, QuietKeepsInstant
<1>14. CASE TakeRow
  <2>1. Quiet
    BY <1>14, <1>t
       DEF Quiet, Early, Rendering, ControlInv, TakeRow, LeaveStream, Cancel, ExportCancelled,
           AddRow, Finish, call, export, result, world, lease, vars
  <2>. QED BY <1>u, <2>1, QuietKeepsInstant
<1>15. CASE FlushFull
  <2>1. Quiet
    BY <1>15, <1>t
       DEF Quiet, Early, Rendering, ControlInv, FlushFull, WriteSucceeds, WriteAborted,
           WriteFails, WriteStatement, LeaveStream, Cancel, ExportCancelled, AddRow, Finish,
           call, export, result, world, lease, vars
  <2>. QED BY <1>u, <2>1, QuietKeepsInstant
<1>16. CASE StreamOver
  <2>1. Quiet
    BY <1>16, <1>t
       DEF Quiet, Early, Rendering, ControlInv, StreamOver, LeaveStream, Cancel,
           ExportCancelled, RowsOver, Finish, call, export, result, world, lease, vars
  <2>. QED BY <1>u, <2>1, QuietKeepsInstant
<1>17. CASE FlushLast
  <2>1. Quiet
    BY <1>17, <1>t
       DEF Quiet, Early, Rendering, ControlInv, FlushLast, WriteSucceeds, WriteAborted,
           WriteFails, WriteStatement, ExportCancelled, Finish, call, export, result, world,
           lease, vars
  <2>. QED BY <1>u, <2>1, QuietKeepsInstant
<1>18. CASE CloseTable
  <2>1. Quiet
    BY <1>18, <1>t
       DEF Quiet, Early, Rendering, ControlInv, CloseTable, EmitFrame, Emit, WriteSucceeds,
           WriteAborted, WriteFails, Return, Finish, call, export, result, world, lease, vars
  <2>. QED BY <1>u, <2>1, QuietKeepsInstant
<1>19. CASE Footer
  <2>1. Quiet
    BY <1>19, <1>t
       DEF Quiet, Early, Rendering, ControlInv, Footer, WriteSucceeds, WriteAborted, WriteFails,
           Return, Finish, call, export, result, world, lease, vars
  <2>. QED BY <1>u, <2>1, QuietKeepsInstant
<1>20. CASE EndSession
  <2>1. Quiet
    BY <1>20, <1>t
       DEF Quiet, Early, Rendering, ControlInv, EndSession, EndWith, Attempt, NotSent, Refuse,
           call, export, result, world, lease,
           vars
  <2>. QED BY <1>u, <2>1, QuietKeepsInstant
<1>21. CASE RestoreVariable
  <2>1. Quiet
    BY <1>21, <1>t
       DEF Quiet, Early, Rendering, ControlInv, RestoreVariable, call, export, result, world,
           lease, vars
  <2>. QED BY <1>u, <2>1, QuietKeepsInstant
<1>22. CASE Restored
  <2>1. Quiet
    BY <1>22, <1>t
       DEF Quiet, Early, Rendering, ControlInv, Restored, call, export, result, world, lease,
           vars
  <2>. QED BY <1>u, <2>1, QuietKeepsInstant
<1>23. CASE Release
  <2>1. Quiet
    BY <1>23, <1>t
       DEF Quiet, Early, Rendering, ControlInv, Release, call, export, result, world, lease,
           vars
  <2>. QED BY <1>u, <2>1, QuietKeepsInstant
<1>24. CASE Abort
  <2>1. Quiet
    BY <1>24, <1>t
       DEF Quiet, Early, Rendering, ControlInv, Abort, call, export, result, world, lease, vars
  <2>. QED BY <1>u, <2>1, QuietKeepsInstant
<1>25. CASE LoseConnection
  <2>1. Quiet
    BY <1>25, <1>t
       DEF Quiet, Early, Rendering, ControlInv, LoseConnection, call, export, result, world,
           lease, vars
  <2>. QED BY <1>u, <2>1, QuietKeepsInstant
<1>26. CASE OutputBreaks
  <2>1. Quiet
    BY <1>26, <1>t
       DEF Quiet, Early, Rendering, ControlInv, OutputBreaks, call, export, result, world,
           lease, vars
  <2>. QED BY <1>u, <2>1, QuietKeepsInstant
<1>27. CASE OtherSessionWrites
  <2>1. UNCHANGED << opts, entries, seen, pc, at, srv, conn >> /\ ~srv.readLock
    BY <1>27 DEF OtherSessionWrites, call, result
  <2>2. \A i \in DOMAIN entries : Covered(i) => opts.consistency \in { "single-transaction", "lock-all-tables" }
    BY DEF Covered
  <2>3. pc \in Rendering /\ conn = "open" =>
          \A i \in DOMAIN entries : Covered(i) /\ seen[i] # 0 => seen[i] = Instant'
    BY <2>1, <2>2 DEF InstantInv, Instant
  <2>4. \A i \in DOMAIN entries : Covered(i)' = Covered(i)
    BY <2>1 DEF Covered
  <2>. QED BY <1>o, <2>1, <2>3, <2>4 DEF InstantInv, SnapshotOpen
<1>28. CASE Terminated
  <2>1. Quiet
    BY <1>28, <1>t
       DEF Quiet, Early, Rendering, ControlInv, Terminated, call, export, result, world, lease,
           vars
  <2>. QED BY <1>u, <2>1, QuietKeepsInstant
<1>. QED
  BY <1>1, <1>2, <1>3, <1>4, <1>5, <1>6, <1>7, <1>8, <1>9, <1>10, <1>11, <1>12, <1>13, <1>14,
     <1>15, <1>16, <1>17, <1>18, <1>19, <1>20, <1>21, <1>22, <1>23, <1>24, <1>25, <1>26, <1>27,
     <1>28 DEF Next, Step

\* A step after which the session is still pinned because it did not touch it.
PinnedQuiet ==
  /\ UNCHANGED << opts, caller >>
  /\ pc' = "begin" /\ conn' = "open" =>
       \/ at' <= 4
       \/ pc = "begin" /\ conn = "open" /\ at' = at /\ srv' = srv
  /\ pc' \in Rendering /\ conn' = "open" => pc \in Rendering /\ conn = "open" /\ srv' = srv

LEMMA QuietKeepsPinned ==
  ASSUME PinnedInv, PinnedQuiet, TypeOK'
  PROVE  PinnedInv'
<1>0. at' \in Nat
  BY DEF TypeOK
<1>1. CASE pc' = "begin" /\ conn' = "open"
  <2>1. pc' \notin Rendering
    BY <1>1 DEF Rendering
  <2>2. CASE at' <= 4
    BY <1>0, <1>1, <2>1, <2>2 DEF PinnedInv
  <2>3. CASE pc = "begin" /\ conn = "open" /\ at' = at /\ srv' = srv
    BY <1>1, <2>1, <2>3 DEF PinnedInv, PinnedQuiet
  <2>. QED BY <1>1, <2>2, <2>3 DEF PinnedQuiet
<1>2. CASE ~(pc' = "begin" /\ conn' = "open")
  BY <1>2 DEF PinnedInv, PinnedQuiet
<1>. QED BY <1>1, <1>2

LEMMA PinnedNext == Inv /\ PinnedInv /\ Next => PinnedInv'
<1> SUFFICES ASSUME Inv, PinnedInv, Next PROVE PinnedInv'
  OBVIOUS
<1>t. TypeOK /\ ControlInv
  BY DEF Inv
<1>u. TypeOK'
  BY TypeNext
<1>1. CASE Acquire
  <2>1. PinnedQuiet
    BY <1>1, <1>t
       DEF PinnedQuiet, Rendering, ControlInv, Acquire, call
  <2>. QED BY <1>u, <2>1, QuietKeepsPinned
<1>2. CASE StartSnapshot
  <2>1. PinnedQuiet
    BY <1>2, <1>t
       DEF PinnedQuiet, Rendering, TypeOK, ControlInv, StartSnapshot, call
  <2>. QED BY <1>u, <2>1, QuietKeepsPinned
<1>3. CASE BeginSession
  <2>1. PICK i \in DOMAIN BeginOrder :
          /\ IsNextStatement(i)
          /\ \/ /\ CallSucceeds
                /\ srv' = Begin(srv, BeginOrder[i], version)
                /\ saved' = Kept(saved, BeginOrder[i], srv)
                /\ at' = i + 1
                /\ UNCHANGED << pc, outcome >>
             \/ (CallFails \/ CallAborted) /\ BeginFails(i) /\ UNCHANGED saved
    BY <1>3 DEF BeginSession
  <2>2. /\ at \in 1..10 /\ i \in 1..9 /\ i >= at
        /\ \A j \in 1..9 : IsSent(BeginOrder[j], opts, caller) => j < at \/ j >= i
    BY <1>t, <2>1, NextIsSent DEF TypeOK
  <2>3. pc = "begin" /\ UNCHANGED << opts, caller >>
    BY <1>3 DEF BeginSession, call
  <2>4. CASE /\ CallSucceeds
              /\ srv' = Begin(srv, BeginOrder[i], version)
              /\ saved' = Kept(saved, BeginOrder[i], srv)
              /\ at' = i + 1
              /\ UNCHANGED << pc, outcome >>
    <3>1. conn = "open" /\ pc' = "begin" /\ pc' \notin Rendering
      BY <2>3, <2>4 DEF CallSucceeds, Rendering
    <3>2. /\ caller.conflictingMode => 4 < at \/ 4 >= i
          /\ opts.timeZone => 5 < at \/ 5 >= i
          /\ 6 < at \/ 6 >= i
      BY <2>2, SentPlaces
    <3>3. /\ caller.conflictingMode /\ at > 4 => srv.vars["sql_mode"] = "dump"
          /\ opts.timeZone /\ at > 5 => srv.vars["time_zone"] = "dump"
          /\ at > 6 => \A v \in CharsetTrio : srv.vars[v] = "dump"
      BY <2>3, <3>1 DEF PinnedInv
    <3>4. srv \in Session(0..MaxVersion)
      BY <1>t DEF TypeOK
    <3>5. /\ i = 4 => srv'.vars["sql_mode"] = "dump"
          /\ i # 4 => srv'.vars["sql_mode"] = srv.vars["sql_mode"]
      BY <2>2, <2>4, <3>4, BeginPins, BeginTouches
    <3>6. /\ i = 5 => srv'.vars["time_zone"] = "dump"
          /\ i # 5 => srv'.vars["time_zone"] = srv.vars["time_zone"]
      BY <2>2, <2>4, <3>4, BeginPins, BeginTouches
    <3>7. /\ i = 6 => \A v \in CharsetTrio : srv'.vars[v] = "dump"
          /\ i # 6 => \A v \in CharsetTrio : srv'.vars[v] = srv.vars[v]
      BY <2>2, <2>4, <3>4, BeginPins
    <3>8. caller.conflictingMode /\ at' > 4 => srv'.vars["sql_mode"] = "dump"
      BY <2>2, <2>4, <3>2, <3>3, <3>5
    <3>9. opts.timeZone /\ at' > 5 => srv'.vars["time_zone"] = "dump"
      BY <2>2, <2>4, <3>2, <3>3, <3>6
    <3>10. at' > 6 => \A v \in CharsetTrio : srv'.vars[v] = "dump"
      BY <2>2, <2>4, <3>2, <3>3, <3>7
    <3>. QED BY <2>3, <3>1, <3>8, <3>9, <3>10 DEF PinnedInv
  <2>5. CASE (CallFails \/ CallAborted) /\ BeginFails(i) /\ UNCHANGED saved
    <3>1. PinnedQuiet
      BY <2>3, <2>5 DEF PinnedQuiet, Rendering, BeginFails
    <3>. QED BY <1>u, <3>1, QuietKeepsPinned
  <2>. QED BY <2>1, <2>4, <2>5
<1>4. CASE Begun
  <2>1. \A i \in 1..9 : IsSent(BeginOrder[i], opts, caller) => i < at
    BY <1>4, <1>t, AllSent, BeginPlaces DEF Begun, TypeOK
  <2>2. /\ caller.conflictingMode => 4 < at
        /\ opts.timeZone => 5 < at
        /\ 6 < at
    BY <2>1, SentPlaces
  <2>3. pc = "begin" /\ pc' = "introspect" /\ UNCHANGED << opts, caller, srv, conn >>
    BY <1>4 DEF Begun, call
  <2>4. conn = "open" =>
          /\ caller.conflictingMode => srv.vars["sql_mode"] = "dump"
          /\ opts.timeZone => srv.vars["time_zone"] = "dump"
          /\ \A v \in CharsetTrio : srv.vars[v] = "dump"
    BY <1>t, <2>2, <2>3 DEF PinnedInv, TypeOK
  <2>. QED BY <2>3, <2>4 DEF PinnedInv, Rendering
<1>5. CASE Introspect
  <2>1. PinnedQuiet
    BY <1>5, <1>t
       DEF PinnedQuiet, Rendering, Introspect, CallSucceeds, CallFails, Refuse, CallAborted, Cancel,
           Finish, call
  <2>. QED BY <1>u, <2>1, QuietKeepsPinned
<1>6. CASE ReadMaxAllowedPacket
  <2>1. PinnedQuiet
    BY <1>6, <1>t
       DEF PinnedQuiet, Rendering, ReadMaxAllowedPacket, CallSucceeds, CallFails, Refuse,
           CallAborted,
           Cancel, Finish, call
  <2>. QED BY <1>u, <2>1, QuietKeepsPinned
<1>7. CASE Header
  <2>1. PinnedQuiet
    BY <1>7, <1>t
       DEF PinnedQuiet, Rendering, Header, EmitFrame, Emit, WriteSucceeds, WriteAborted,
           WriteFails, Return, Finish, call
  <2>. QED BY <1>u, <2>1, QuietKeepsPinned
<1>8. CASE NextEntry
  <2>1. PinnedQuiet
    BY <1>8, <1>t
       DEF PinnedQuiet, Rendering, NextEntry, Return, Finish, call
  <2>. QED BY <1>u, <2>1, QuietKeepsPinned
<1>9. CASE RenderObject
  <2>1. PinnedQuiet
    BY <1>9, <1>t
       DEF PinnedQuiet, Rendering, RenderObject, Emit, WriteSucceeds, WriteAborted, WriteFails,
           Return, Finish, call
  <2>. QED BY <1>u, <2>1, QuietKeepsPinned
<1>10. CASE OpenTable
  <2>1. PinnedQuiet
    BY <1>10, <1>t
       DEF PinnedQuiet, Rendering, OpenTable, Emit, WriteSucceeds, WriteAborted, WriteFails,
           Return, Finish, call
  <2>. QED BY <1>u, <2>1, QuietKeepsPinned
<1>11. CASE SelectRows
  <2>1. PinnedQuiet
    BY <1>11, <1>t
       DEF PinnedQuiet, Rendering, SelectRows, CallSucceeds, CallFails, Refuse, ExportCancelled,
           Finish, call
  <2>. QED BY <1>u, <2>1, QuietKeepsPinned
<1>12. CASE RowArrives
  <2>1. PinnedQuiet
    BY <1>12, <1>t
       DEF PinnedQuiet, Rendering, RowArrives, call
  <2>. QED BY <1>u, <2>1, QuietKeepsPinned
<1>13. CASE ResultEnds
  <2>1. PinnedQuiet
    BY <1>13, <1>t
       DEF PinnedQuiet, Rendering, ResultEnds, call
  <2>. QED BY <1>u, <2>1, QuietKeepsPinned
<1>14. CASE TakeRow
  <2>1. PinnedQuiet
    BY <1>14, <1>t
       DEF PinnedQuiet, Rendering, TakeRow, LeaveStream, Cancel, ExportCancelled, AddRow,
           Finish, call
  <2>. QED BY <1>u, <2>1, QuietKeepsPinned
<1>15. CASE FlushFull
  <2>1. PinnedQuiet
    BY <1>15, <1>t
       DEF PinnedQuiet, Rendering, FlushFull, WriteSucceeds, WriteAborted, WriteFails,
           WriteStatement, LeaveStream, Cancel, ExportCancelled, AddRow, Finish, call
  <2>. QED BY <1>u, <2>1, QuietKeepsPinned
<1>16. CASE StreamOver
  <2>1. PinnedQuiet
    BY <1>16, <1>t
       DEF PinnedQuiet, Rendering, StreamOver, LeaveStream, Cancel, ExportCancelled, RowsOver,
           Finish, call
  <2>. QED BY <1>u, <2>1, QuietKeepsPinned
<1>17. CASE FlushLast
  <2>1. PinnedQuiet
    BY <1>17, <1>t
       DEF PinnedQuiet, Rendering, FlushLast, WriteSucceeds, WriteAborted, WriteFails,
           WriteStatement, ExportCancelled, Finish, call
  <2>. QED BY <1>u, <2>1, QuietKeepsPinned
<1>18. CASE CloseTable
  <2>1. PinnedQuiet
    BY <1>18, <1>t
       DEF PinnedQuiet, Rendering, CloseTable, EmitFrame, Emit, WriteSucceeds, WriteAborted,
           WriteFails, Return, Finish, call
  <2>. QED BY <1>u, <2>1, QuietKeepsPinned
<1>19. CASE Footer
  <2>1. PinnedQuiet
    BY <1>19, <1>t
       DEF PinnedQuiet, Rendering, Footer, WriteSucceeds, WriteAborted, WriteFails, Return,
           Finish, call
  <2>. QED BY <1>u, <2>1, QuietKeepsPinned
<1>20. CASE EndSession
  <2>1. PinnedQuiet
    BY <1>20, <1>t
       DEF PinnedQuiet, Rendering, EndSession, EndWith, Attempt, NotSent, Refuse, call
  <2>. QED BY <1>u, <2>1, QuietKeepsPinned
<1>21. CASE RestoreVariable
  <2>1. PinnedQuiet
    BY <1>21, <1>t
       DEF PinnedQuiet, Rendering, RestoreVariable, call
  <2>. QED BY <1>u, <2>1, QuietKeepsPinned
<1>22. CASE Restored
  <2>1. PinnedQuiet
    BY <1>22, <1>t
       DEF PinnedQuiet, Rendering, Restored, call
  <2>. QED BY <1>u, <2>1, QuietKeepsPinned
<1>23. CASE Release
  <2>1. PinnedQuiet
    BY <1>23, <1>t
       DEF PinnedQuiet, Rendering, Release, call
  <2>. QED BY <1>u, <2>1, QuietKeepsPinned
<1>24. CASE Abort
  <2>1. PinnedQuiet
    BY <1>24, <1>t
       DEF PinnedQuiet, Rendering, Abort, call
  <2>. QED BY <1>u, <2>1, QuietKeepsPinned
<1>25. CASE LoseConnection
  <2>1. PinnedQuiet
    BY <1>25, <1>t
       DEF PinnedQuiet, Rendering, LoseConnection, call
  <2>. QED BY <1>u, <2>1, QuietKeepsPinned
<1>26. CASE OutputBreaks
  <2>1. PinnedQuiet
    BY <1>26, <1>t
       DEF PinnedQuiet, Rendering, OutputBreaks, call
  <2>. QED BY <1>u, <2>1, QuietKeepsPinned
<1>27. CASE OtherSessionWrites
  <2>1. PinnedQuiet
    BY <1>27, <1>t
       DEF PinnedQuiet, Rendering, OtherSessionWrites, call
  <2>. QED BY <1>u, <2>1, QuietKeepsPinned
<1>28. CASE Terminated
  <2>1. PinnedQuiet
    BY <1>28, <1>t
       DEF PinnedQuiet, Rendering, Terminated, call, vars
  <2>. QED BY <1>u, <2>1, QuietKeepsPinned
<1>. QED
  BY <1>1, <1>2, <1>3, <1>4, <1>5, <1>6, <1>7, <1>8, <1>9, <1>10, <1>11, <1>12, <1>13, <1>14,
     <1>15, <1>16, <1>17, <1>18, <1>19, <1>20, <1>21, <1>22, <1>23, <1>24, <1>25, <1>26, <1>27,
     <1>28 DEF Next, Step

\* The cleanup skips only what was not changed, and ends after its last place.
LEMMA NextRestore ==
  ASSUME at \in 1..4, NEW i \in DOMAIN RestoreOrder, IsNextRestore(i)
  PROVE  /\ i \in 1..3 /\ i >= at
         /\ at = 1 /\ i > 1 => ~caller.conflictingMode
         /\ at <= 2 /\ i > 2 => ~opts.timeZone
         /\ i = 2 => opts.timeZone
<1>1. i \in 1..3 /\ i >= at /\ IsRestored(RestoreOrder[i], opts, caller)
      /\ \A j \in at..(i - 1) : ~IsRestored(RestoreOrder[j], opts, caller)
  BY RestorePlaces DEF IsNextRestore
<1>2. at = 1 /\ i > 1 => ~IsRestored(RestoreOrder[1], opts, caller)
  BY <1>1
<1>3. at <= 2 /\ i > 2 => ~IsRestored(RestoreOrder[2], opts, caller)
  BY <1>1
<1>. QED BY <1>1, <1>2, <1>3, RestorePlaces

LEMMA AllRestored ==
  ASSUME at \in 1..4, \A i \in DOMAIN RestoreOrder : ~IsNextRestore(i)
  PROVE  at = 4
<1> DEFINE Sent(j) == IsRestored(RestoreOrder[j], opts, caller)
<1>1. \A i \in 1..3 : ~(i >= at /\ Sent(i) /\ \A j \in at..(i - 1) : ~Sent(j))
  BY RestorePlaces DEF IsNextRestore
<1>2. Sent(3)
  BY RestorePlaces
<1> HIDE DEF Sent
<1>3. at <= 1 => ~Sent(1)
  BY <1>1
<1>4. at <= 2 => ~Sent(2)
  BY <1>1, <1>3
<1>5. at <= 3 => ~Sent(3)
  BY <1>1, <1>3, <1>4
<1>. QED BY <1>2, <1>5

\* A step after which no variable is changed, or claimed to be put back.
VariablesQuiet ==
  /\ UNCHANGED << opts, caller >> /\ srv'.vars = srv.vars /\ swallowed \subseteq swallowed'
  /\ pc' \in { "release", "done" } /\ conn' = "open" => \A v \in SessionVariable : PutBack(v)
  /\ pc' = "restore" /\ conn' = "open" =>
       at' = 1 \/ (pc = "restore" /\ conn = "open" /\ at' = at)

LEMMA QuietKeepsVariables ==
  ASSUME VariablesInv, VariablesQuiet
  PROVE  VariablesInv'
<1>1. \A v : PutBack(v) => PutBack(v)'
  BY DEF PutBack, VariablesQuiet
<1>2. /\ srv'.vars["transaction_isolation"] = Found(caller')["transaction_isolation"]
      /\ ~caller'.conflictingMode => srv'.vars["sql_mode"] = "caller"
      /\ ~opts'.timeZone => srv'.vars["time_zone"] = "caller"
  BY DEF VariablesInv, VariablesQuiet
<1>3. pc' \in { "release", "done" } /\ conn' = "open" => \A v \in SessionVariable : PutBack(v)'
  BY <1>1 DEF VariablesQuiet
<1>5. pc' = "restore" /\ conn' = "open" =>
        /\ at' > 1 => PutBack("sql_mode")'
        /\ at' > 2 => PutBack("time_zone")'
        /\ at' > 3 => \A v \in CharsetTrio : PutBack(v)'
  BY <1>1 DEF VariablesInv, VariablesQuiet
<1>. QED BY <1>2, <1>3, <1>5 DEF VariablesInv

LEMMA VariablesNext ==
  ASSUME PlainCallers, Inv, VariablesInv, Next
  PROVE  VariablesInv'
<1>t. TypeOK /\ ControlInv /\ SavedInv
  BY DEF Inv
<1>e. End(srv).vars = srv.vars
  BY <1>t, Ended DEF TypeOK
<1>p. caller.plainNames /\ caller.repeatableRead
  BY <1>t DEF TypeOK, PlainCallers
<1>f. pc \in { "acquire", "snapshot" } /\ conn = "open" => \A v \in SessionVariable : PutBack(v)
  BY <1>t DEF SavedInv, PutBack
<1>1. CASE Acquire
  <2>1. VariablesQuiet
    BY <1>1, <1>t, <1>e, <1>f
       DEF VariablesQuiet, Acquire, call, export, result, world, lease, vars
  <2>. QED BY <2>1, QuietKeepsVariables
<1>2. CASE StartSnapshot
  <2>1. VariablesQuiet
    BY <1>2, <1>t, <1>e, <1>f
       DEF VariablesQuiet, StartSnapshot, call, export, result, world, lease, vars
  <2>. QED BY <2>1, QuietKeepsVariables
<1>3. CASE BeginSession
  <2>1. PICK i \in DOMAIN BeginOrder :
          /\ IsNextStatement(i)
          /\ \/ /\ CallSucceeds
                /\ srv' = Begin(srv, BeginOrder[i], version)
                /\ saved' = Kept(saved, BeginOrder[i], srv)
                /\ at' = i + 1
                /\ UNCHANGED << pc, outcome >>
             \/ (CallFails \/ CallAborted) /\ BeginFails(i) /\ UNCHANGED saved
    BY <1>3 DEF BeginSession
  <2>2. /\ at \in 1..10 /\ i \in 1..9 /\ i >= at /\ IsSent(BeginOrder[i], opts, caller)
        /\ \A j \in 1..9 : IsSent(BeginOrder[j], opts, caller) => j < at \/ j >= i
    BY <1>t, <2>1, NextIsSent DEF TypeOK
  <2>3. pc = "begin" /\ UNCHANGED << opts, caller, swallowed >>
    BY <1>3 DEF BeginSession, call, lease
  <2>4. CASE /\ CallSucceeds
              /\ srv' = Begin(srv, BeginOrder[i], version)
              /\ saved' = Kept(saved, BeginOrder[i], srv)
              /\ at' = i + 1
              /\ UNCHANGED << pc, outcome >>
    <3>1. /\ i # 4 => srv'.vars["sql_mode"] = srv.vars["sql_mode"]
          /\ i # 5 => srv'.vars["time_zone"] = srv.vars["time_zone"]
          /\ i # 7 => srv'.vars["transaction_isolation"] = srv.vars["transaction_isolation"]
          /\ i = 7 => srv'.vars["transaction_isolation"] = "dump"
      <4>1. srv \in Session(0..MaxVersion) /\ i \in 1..9
        BY <1>t, <2>2 DEF TypeOK
      <4>2. LET t == Begin(srv, BeginOrder[i], version)
            IN /\ i # 4 => t.vars["sql_mode"] = srv.vars["sql_mode"]
               /\ i # 5 => t.vars["time_zone"] = srv.vars["time_zone"]
               /\ i # 7 => t.vars["transaction_isolation"] = srv.vars["transaction_isolation"]
               /\ i = 7 => t.vars["transaction_isolation"] = "dump"
        BY <4>1, BeginTouches
      <4>. QED BY <2>4, <4>2
    <3>2. /\ i = 4 => caller.conflictingMode
          /\ i = 5 => opts.timeZone
      BY <2>2, SentPlaces
    <3>3. Found(caller)["transaction_isolation"] = "dump"
      BY <1>p, FoundIsolation
    <3>. QED BY <2>3, <2>4, <3>1, <3>2, <3>3 DEF VariablesInv
  <2>5. CASE (CallFails \/ CallAborted) /\ BeginFails(i) /\ UNCHANGED saved
    <3>1. srv'.vars = srv.vars /\ (conn' = "open" => conn = "open")
      BY <1>e, <2>5 DEF CallFails, Refuse, CallAborted, Cancel
    <3>2. CASE i <= 3
      <4>1. conn = "open" => \A v \in SessionVariable : PutBack(v)
        BY <1>t, <2>2, <2>3, <3>2 DEF SavedInv, PutBack
      <4>2. pc' = "release"
        BY <2>2, <2>5, <3>2, BeginReads DEF BeginFails
      <4>3. VariablesQuiet
        BY <2>3, <3>1, <4>1, <4>2 DEF VariablesQuiet
      <4>. QED BY <4>3, QuietKeepsVariables
    <3>3. CASE i > 3
      <4>1. pc' = "restore" /\ at' = 1
        BY <2>2, <2>5, <3>3, BeginReads DEF BeginFails
      <4>2. VariablesQuiet
        BY <2>3, <3>1, <4>1 DEF VariablesQuiet
      <4>. QED BY <4>2, QuietKeepsVariables
    <3>. QED BY <2>2, <3>2, <3>3
  <2>. QED BY <2>1, <2>4, <2>5
<1>4. CASE Begun
  <2>1. VariablesQuiet
    BY <1>4, <1>t, <1>e, <1>f
       DEF VariablesQuiet, Begun, call, export, result, world, lease, vars
  <2>. QED BY <2>1, QuietKeepsVariables
<1>5. CASE Introspect
  <2>1. VariablesQuiet
    BY <1>5, <1>t, <1>e, <1>f
       DEF VariablesQuiet, Introspect, CallSucceeds, CallFails, Refuse, CallAborted, Cancel, Finish,
           call, export, result, world, lease, vars
  <2>. QED BY <2>1, QuietKeepsVariables
<1>6. CASE ReadMaxAllowedPacket
  <2>1. VariablesQuiet
    BY <1>6, <1>t, <1>e, <1>f
       DEF VariablesQuiet, ReadMaxAllowedPacket, CallSucceeds, CallFails, Refuse, CallAborted,
           Cancel,
           Finish, call, export, result, world, lease, vars
  <2>. QED BY <2>1, QuietKeepsVariables
<1>7. CASE Header
  <2>1. VariablesQuiet
    BY <1>7, <1>t, <1>e, <1>f
       DEF VariablesQuiet, Header, EmitFrame, Emit, WriteSucceeds, WriteAborted, WriteFails,
           Return, Finish, call, export, result, world, lease, vars
  <2>. QED BY <2>1, QuietKeepsVariables
<1>8. CASE NextEntry
  <2>1. VariablesQuiet
    BY <1>8, <1>t, <1>e, <1>f
       DEF VariablesQuiet, NextEntry, Return, Finish, call, export, result, world, lease, vars
  <2>. QED BY <2>1, QuietKeepsVariables
<1>9. CASE RenderObject
  <2>1. VariablesQuiet
    BY <1>9, <1>t, <1>e, <1>f
       DEF VariablesQuiet, RenderObject, Emit, WriteSucceeds, WriteAborted, WriteFails, Return,
           Finish, call, export, result, world, lease, vars
  <2>. QED BY <2>1, QuietKeepsVariables
<1>10. CASE OpenTable
  <2>1. VariablesQuiet
    BY <1>10, <1>t, <1>e, <1>f
       DEF VariablesQuiet, OpenTable, Emit, WriteSucceeds, WriteAborted, WriteFails, Return,
           Finish, call, export, result, world, lease, vars
  <2>. QED BY <2>1, QuietKeepsVariables
<1>11. CASE SelectRows
  <2>1. VariablesQuiet
    BY <1>11, <1>t, <1>e, <1>f
       DEF VariablesQuiet, SelectRows, CallSucceeds, CallFails, Refuse, ExportCancelled, Finish,
           call,
           export, result, world, lease, vars
  <2>. QED BY <2>1, QuietKeepsVariables
<1>12. CASE RowArrives
  <2>1. VariablesQuiet
    BY <1>12, <1>t, <1>e, <1>f
       DEF VariablesQuiet, VariablesInv, RowArrives, call, export, result, world, lease, vars
  <2>. QED BY <2>1, QuietKeepsVariables
<1>13. CASE ResultEnds
  <2>1. VariablesQuiet
    BY <1>13, <1>t, <1>e, <1>f
       DEF VariablesQuiet, VariablesInv, ResultEnds, call, export, result, world, lease, vars
  <2>. QED BY <2>1, QuietKeepsVariables
<1>14. CASE TakeRow
  <2>1. VariablesQuiet
    BY <1>14, <1>t, <1>e, <1>f
       DEF VariablesQuiet, TakeRow, LeaveStream, Cancel, ExportCancelled, AddRow, Finish, call,
           export, result, world, lease, vars
  <2>. QED BY <2>1, QuietKeepsVariables
<1>15. CASE FlushFull
  <2>1. VariablesQuiet
    BY <1>15, <1>t, <1>e, <1>f
       DEF VariablesQuiet, FlushFull, WriteSucceeds, WriteAborted, WriteFails, WriteStatement,
           LeaveStream, Cancel, ExportCancelled, AddRow, Finish, call, export, result, world,
           lease, vars
  <2>. QED BY <2>1, QuietKeepsVariables
<1>16. CASE StreamOver
  <2>1. VariablesQuiet
    BY <1>16, <1>t, <1>e, <1>f
       DEF VariablesQuiet, StreamOver, LeaveStream, Cancel, ExportCancelled, RowsOver, Finish,
           call, export, result, world, lease, vars
  <2>. QED BY <2>1, QuietKeepsVariables
<1>17. CASE FlushLast
  <2>1. VariablesQuiet
    BY <1>17, <1>t, <1>e, <1>f
       DEF VariablesQuiet, FlushLast, WriteSucceeds, WriteAborted, WriteFails, WriteStatement,
           ExportCancelled, Finish, call, export, result, world, lease, vars
  <2>. QED BY <2>1, QuietKeepsVariables
<1>18. CASE CloseTable
  <2>1. VariablesQuiet
    BY <1>18, <1>t, <1>e, <1>f
       DEF VariablesQuiet, CloseTable, EmitFrame, Emit, WriteSucceeds, WriteAborted, WriteFails,
           Return, Finish, call, export, result, world, lease, vars
  <2>. QED BY <2>1, QuietKeepsVariables
<1>19. CASE Footer
  <2>1. VariablesQuiet
    BY <1>19, <1>t, <1>e, <1>f
       DEF VariablesQuiet, Footer, WriteSucceeds, WriteAborted, WriteFails, Return, Finish,
           call, export, result, world, lease, vars
  <2>. QED BY <2>1, QuietKeepsVariables
<1>20. CASE EndSession
  <2>1. VariablesQuiet
    BY <1>20, <1>t, <1>e, EndOutcome DEF VariablesQuiet, call
  <2>. QED BY <2>1, QuietKeepsVariables
<1>21. CASE RestoreVariable
  <2>1. PICK i \in DOMAIN RestoreOrder :
          /\ IsNextRestore(i) /\ at' = i + 1
          /\ \/ conn = "open" /\ srv' = Restore(srv, RestoreOrder[i], saved)
                /\ swallowed' = swallowed
             \/ conn # "open" /\ srv' = srv /\ swallowed' = swallowed
             \/ conn = "open" /\ srv' = srv /\ swallowed' = swallowed \cup {RestoreOrder[i]}
    BY <1>21, <1>t, RestoreOutcome
  <2>2. pc = "restore" /\ pc' = "restore" /\ conn' = conn /\ UNCHANGED << opts, caller >>
    BY <1>21 DEF RestoreVariable, call
  <2>3. /\ i \in 1..3 /\ at \in 1..4 /\ i >= at
        /\ at = 1 /\ i > 1 => ~caller.conflictingMode
        /\ at <= 2 /\ i > 2 => ~opts.timeZone
        /\ i = 2 => opts.timeZone
    BY <1>t, <2>1, <2>2, NextRestore DEF TypeOK, ControlInv
  <2>4. CASE conn # "open"
    BY <2>1, <2>2, <2>4 DEF VariablesInv
  <2>5. CASE conn = "open"
    <3>1. /\ saved["sql_mode"] = "caller" /\ saved["character_set_client"] = "caller"
          /\ opts.timeZone => saved["time_zone"] = "caller"
      BY <1>t, <2>2 DEF SavedInv
    <3>2. /\ Found(caller)["sql_mode"] = "caller" /\ Found(caller)["time_zone"] = "caller"
          /\ RestoredBy("sql_mode") = "sql_mode" /\ RestoredBy("time_zone") = "time_zone"
          /\ \A v \in CharsetTrio : RestoredBy(v) = "character_set_client"
      BY FoundWhatIsRead DEF RestoredBy, CharsetTrio
    \* What the statement was sent for is put back, or the server refused it.
    <3>3. /\ srv'.vars["transaction_isolation"] = srv.vars["transaction_isolation"]
          /\ i = 1 => PutBack("sql_mode")'
          /\ i # 1 => srv'.vars["sql_mode"] = srv.vars["sql_mode"]
          /\ srv'.vars["sql_mode"] \in { srv.vars["sql_mode"], "caller" }
          /\ i = 2 => PutBack("time_zone")'
          /\ i # 2 => srv'.vars["time_zone"] = srv.vars["time_zone"]
          /\ i = 3 => \A v \in CharsetTrio : PutBack(v)'
      <4>1. CASE srv' = Restore(srv, RestoreOrder[i], saved) /\ swallowed' = swallowed
        <5>1. srv \in Session(0..MaxVersion) /\ i \in 1..3
          BY <1>t, <2>3 DEF TypeOK
        <5>2. LET t == Restore(srv, RestoreOrder[i], saved)
              IN /\ t.vars["transaction_isolation"] = srv.vars["transaction_isolation"]
                 /\ i = 1 => t.vars["sql_mode"] = saved["sql_mode"]
                 /\ i # 1 => t.vars["sql_mode"] = srv.vars["sql_mode"]
                 /\ i = 2 => t.vars["time_zone"] = saved["time_zone"]
                 /\ i # 2 => t.vars["time_zone"] = srv.vars["time_zone"]
                 /\ i = 3 => \A v \in CharsetTrio : t.vars[v] = Found(caller)[v]
          BY <1>p, <3>1, <5>1, RestoreTouches
        <5>. QED BY <2>2, <2>3, <3>1, <3>2, <4>1, <5>2 DEF PutBack
      <4>2. CASE srv' = srv /\ swallowed' = swallowed \cup {RestoreOrder[i]}
        BY <2>3, <3>2, <4>2, RestorePlaces DEF PutBack
      <4>. QED BY <2>1, <2>5, <4>1, <4>2
    <3>4. /\ at > 1 => PutBack("sql_mode")
          /\ at > 2 => PutBack("time_zone")
          /\ ~caller.conflictingMode => srv.vars["sql_mode"] = "caller"
          /\ ~opts.timeZone => srv.vars["time_zone"] = "caller"
          /\ srv.vars["transaction_isolation"] = Found(caller)["transaction_isolation"]
      BY <2>2, <2>5 DEF VariablesInv
    <3>5. swallowed \subseteq swallowed'
      BY <2>1
    <3>6. i # 1 => PutBack("sql_mode")'
      <4>1. i # 1 => PutBack("sql_mode")
        BY <2>3, <3>2, <3>4 DEF PutBack
      <4>. QED BY <2>2, <3>3, <3>5, <4>1 DEF PutBack
    <3>7. i = 3 => PutBack("time_zone")'
      <4>1. i = 3 => PutBack("time_zone")
        BY <2>3, <3>2, <3>4 DEF PutBack
      <4>. QED BY <2>2, <3>3, <3>5, <4>1 DEF PutBack
    <3>8. /\ PutBack("sql_mode")'
          /\ at' > 2 => PutBack("time_zone")'
          /\ at' > 3 => \A v \in CharsetTrio : PutBack(v)'
      BY <2>1, <2>3, <3>3, <3>6, <3>7
    <3>9. /\ ~caller.conflictingMode => srv'.vars["sql_mode"] = "caller"
          /\ ~opts.timeZone => srv'.vars["time_zone"] = "caller"
      BY <2>3, <3>3, <3>4
    <3>. QED BY <2>2, <3>3, <3>4, <3>8, <3>9 DEF VariablesInv
  <2>. QED BY <2>4, <2>5
<1>22. CASE Restored
  <2>1. /\ pc = "restore" /\ pc' = "release"
        /\ UNCHANGED << opts, caller, srv, conn, swallowed >>
    BY <1>22 DEF Restored, call, lease
  <2>2. at \in 1..4 /\ ~(at <= 3)
    BY <1>22, <1>t, <2>1, AllRestored DEF Restored, TypeOK, ControlInv
  <2>3. conn = "open" => \A v \in SessionVariable : PutBack(v)
    BY <2>1, <2>2 DEF VariablesInv, SessionVariable, PutBack
  <2>4. VariablesQuiet
    BY <2>1, <2>3 DEF VariablesQuiet
  <2>. QED BY <2>4, QuietKeepsVariables
<1>23. CASE Release
  <2>1. VariablesQuiet
    BY <1>23, <1>t, <1>e, <1>f
       DEF VariablesQuiet, VariablesInv, Release, call, export, result, world, lease, vars
  <2>. QED BY <2>1, QuietKeepsVariables
<1>24. CASE Abort
  <2>1. VariablesQuiet
    BY <1>24, <1>t, <1>e, <1>f
       DEF VariablesQuiet, VariablesInv, Abort, call, export, result, world, lease, vars
  <2>. QED BY <2>1, QuietKeepsVariables
<1>25. CASE LoseConnection
  <2>1. VariablesQuiet
    BY <1>25, <1>t, <1>e, <1>f
       DEF VariablesQuiet, VariablesInv, LoseConnection, call, export, result, world, lease,
           vars
  <2>. QED BY <2>1, QuietKeepsVariables
<1>26. CASE OutputBreaks
  <2>1. VariablesQuiet
    BY <1>26, <1>t, <1>e, <1>f
       DEF VariablesQuiet, VariablesInv, OutputBreaks, call, export, result, world, lease, vars
  <2>. QED BY <2>1, QuietKeepsVariables
<1>27. CASE OtherSessionWrites
  <2>1. VariablesQuiet
    BY <1>27, <1>t, <1>e, <1>f
       DEF VariablesQuiet, VariablesInv, OtherSessionWrites, call, export, result, world, lease,
           vars
  <2>. QED BY <2>1, QuietKeepsVariables
<1>28. CASE Terminated
  <2>1. VariablesQuiet
    BY <1>28, <1>t, <1>e, <1>f
       DEF VariablesQuiet, VariablesInv, Terminated, call, export, result, world, lease, vars
  <2>. QED BY <2>1, QuietKeepsVariables
<1>. QED
  BY <1>1, <1>2, <1>3, <1>4, <1>5, <1>6, <1>7, <1>8, <1>9, <1>10, <1>11, <1>12, <1>13, <1>14,
     <1>15, <1>16, <1>17, <1>18, <1>19, <1>20, <1>21, <1>22, <1>23, <1>24, <1>25, <1>26, <1>27,
     <1>28 DEF Next, Step

-----------------------------------------------------------------------------
\* The initial states, and the strengthened invariant of every state.
LEMMA InvInit == Init => Inv /\ InstantInv /\ CheckoutInv
<1> SUFFICES ASSUME Init PROVE Inv /\ InstantInv /\ CheckoutInv
  OBVIOUS
<1>1. /\ Len(entries) \in Nat /\ MaxVersion \in Nat \ {0} /\ MaxRefusals \in Nat
      /\ RowsPerStatement \in Nat \ {0}
  BY ArchivesAssumption, BoundsAssumption DEF Init
<1>2. Found(caller) \in [SessionVariable -> Setting]
  BY DEF Found, Setting
<1>3. srv \in Session(0..MaxVersion) /\ ~srv.inTx /\ ~srv.readLock /\ srv.vars = Found(caller)
  BY <1>1, <1>2 DEF Init, FreshSession, Session
<1>4. TypeOK
  <2>1. /\ opts \in Options /\ caller \in Callers /\ entries \in Archives
        /\ pc \in PcSet /\ at \in 1..10 /\ conn \in { "open", "lost", "destroyed" }
    BY DEF Init, PcSet
  <2>2. /\ saved \in [SessionVariable -> Setting \cup {"unread"}]
        /\ entry \in 1..(Len(entries) + 1)
    BY <1>1 DEF Init
  <2>3. /\ stream \in { "none", "open", "ended", "failed" }
        /\ arrived \in Nat /\ consumed \in 0..arrived /\ statementRows \in 0..RowsPerStatement
    BY <1>1 DEF Init
  <2>4. /\ written \in [DOMAIN entries -> Nat] /\ seen \in [DOMAIN entries -> 0..MaxVersion]
    BY <1>1 DEF Init
  <2>5. version \in 1..MaxVersion /\ refusals \in 0..MaxRefusals /\ releases \in 0..1
    BY <1>1 DEF Init
  <2>6. /\ outputBroken \in BOOLEAN /\ acquired \in BOOLEAN /\ aborted \in BOOLEAN
        /\ swallowed \subseteq {"end"} \cup SessionVariable
    BY DEF Init
  <2>7. outcome \in Outcome
    BY DEF Init, Outcome
  <2>. QED BY <1>3, <2>1, <2>2, <2>3, <2>4, <2>5, <2>6, <2>7 DEF TypeOK
<1>5. ControlInv /\ HoldInv /\ SavedInv /\ CheckoutInv
  BY <1>3 DEF Init, ControlInv, Ending, HoldInv, SavedInv, CheckoutInv, Rendering
<1>6. InstantInv
  BY DEF Init, InstantInv, OneInstant, Rendering
<1>. QED BY <1>4, <1>5, <1>6 DEF Inv

LEMMA InvNext == Inv /\ [Next]_vars => Inv'
<1>1. Inv /\ Next => Inv'
  BY TypeNext, ControlNext, HoldNext, SavedNext DEF Inv
<1>2. Inv /\ UNCHANGED vars => Inv'
  BY DEF Inv, TypeOK, ControlInv, Ending, HoldInv, SavedInv, vars, call, export, result, world,
     lease
<1>. QED BY <1>1, <1>2

LEMMA InvHolds == Spec => []Inv
BY InvInit, InvNext, PTL DEF Spec

\* Every variable keeps its type, and every index its range.
THEOREM DumpTypeCorrect == Spec => []TypeOK
<1>1. Inv => TypeOK
  BY DEF Inv
<1>. QED BY <1>1, InvHolds, PTL

\* A connection still up when it is handed back holds no snapshot, no lock and
\* no unread result set, whatever failed, was cancelled or threw.
THEOREM IdleIsHandedBack == Spec => []IdleHandedBack
<1>1. Inv => IdleHandedBack
  BY DEF Inv, ControlInv, HoldInv, IdleHandedBack, HandedBack, Rendering
<1>. QED BY <1>1, InvHolds, PTL

\* Whoever writes during the dump, and whatever the session was before it, the
\* covered tables are read as of one instant.
THEOREM ReadAtOneInstant == Spec => []OneInstant
<1>1. Inv /\ InstantInv /\ [Next]_vars => InstantInv'
  <2>1. Inv /\ InstantInv /\ UNCHANGED vars => InstantInv'
    BY DEF InstantInv, OneInstant, Covered, SnapshotOpen, Instant, vars, call, result, world
  <2>. QED BY <2>1, InstantNext
<1>2. InstantInv => OneInstant
  BY DEF InstantInv
<1>. QED BY <1>1, <1>2, InvInit, InvHolds, PTL DEF Spec

\* The dump never reads a row, on a connection still up, under a session other
\* than the one it pinned: whichever of sql_mode, time zone and SET NAMES it
\* had to change is changed before the first SELECT, and nothing between undoes
\* it (beginMysqlDumpSession; dumpMysql).
THEOREM ReadsArePinned == Spec => []ReadsPinned
<1>1. Init => PinnedInv
  BY DEF Init, PinnedInv, Rendering
<1>2. Inv /\ PinnedInv /\ [Next]_vars => PinnedInv'
  <2>1. CASE Next
    BY <2>1, PinnedNext
  <2>2. ASSUME PinnedInv, UNCHANGED vars PROVE PinnedInv'
    BY <2>2 DEF PinnedInv, vars, call
  <2>. QED BY <2>1, <2>2
<1>3. PinnedInv => ReadsPinned
  BY DEF PinnedInv, ReadsPinned, Reading, Rendering
<1>. QED BY <1>1, <1>2, <1>3, InvHolds, PTL DEF Spec

-----------------------------------------------------------------------------
\* Only the checkout and the release move the connection.
LEMMA LeaseSteps ==
  [Next]_vars => Acquire \/ Release \/ UNCHANGED << acquired, releases >>
BY DEF Next, Step, vars, call, export, result, world, lease,
       StartSnapshot, BeginSession, Begun, Introspect, ReadMaxAllowedPacket, Header, NextEntry,
       RenderObject, OpenTable, SelectRows, RowArrives, ResultEnds, TakeRow, FlushFull,
       StreamOver, FlushLast, CloseTable, Footer, EndSession, EndWith, Attempt, NotSent, Refuse,
       RestoreVariable, Restored, Abort,
       LoseConnection, OutputBreaks, OtherSessionWrites, Terminated

LEMMA CheckoutNext == Inv /\ CheckoutInv /\ [Next]_vars => CheckoutInv'
<1> SUFFICES ASSUME Inv, CheckoutInv, [Next]_vars PROVE CheckoutInv'
  OBVIOUS
<1>1. CASE Acquire
  BY <1>1 DEF Acquire, CheckoutInv
<1>2. CASE Release
  BY <1>2 DEF Release, CheckoutInv
<1>3. CASE UNCHANGED << acquired, releases >>
  <2>1. pc \in { "acquire", "done" } => Acquire \/ pc' = pc
    BY DEF Next, Step, vars, call, export, result, world, ControlInv, Inv, StartSnapshot,
           BeginSession, Begun, Introspect, ReadMaxAllowedPacket, Header, NextEntry,
           RenderObject, OpenTable, SelectRows, RowArrives, ResultEnds, TakeRow, FlushFull,
           StreamOver, FlushLast, CloseTable, Footer, EndSession, EndWith, Attempt, NotSent,
           Refuse, RestoreVariable, Restored,
           Abort, LoseConnection, OutputBreaks, OtherSessionWrites, Terminated, Release
  <2>. QED BY <1>1, <1>3, <2>1 DEF CheckoutInv
<1>. QED BY <1>1, <1>2, <1>3, LeaseSteps

\* A dump whose progress callback does not throw gives every connection it
\* checks out back exactly once.
THEOREM CheckoutIsReturned ==
  ASSUME QuietCallbacks
  PROVE  Spec => []AcquiredIsReleased
<1>1. Init => AcquiredIsReleased
  BY DEF Init, AcquiredIsReleased
<1>2. Inv /\ AcquiredIsReleased /\ [Next]_vars => AcquiredIsReleased'
  <2> SUFFICES ASSUME Inv, AcquiredIsReleased, [Next]_vars PROVE AcquiredIsReleased'
    OBVIOUS
  <2>0. ~opts.callbackThrows
    BY QuietCallbacks DEF Inv, TypeOK, QuietCallbacks
  <2>1. CASE Acquire
    BY <2>1 DEF Acquire, AcquiredIsReleased, Inv, ControlInv
  <2>2. CASE Release
    BY <2>2 DEF Release, AcquiredIsReleased, Inv, ControlInv
  <2>3. CASE UNCHANGED << acquired, releases >>
    <3>1. pc' = "done" => Acquire \/ Release \/ pc = "done"
      BY <2>0 DEF Next, Step, vars, call, Finish, Return, Emit, EmitFrame, BeginFails,
                  ExportCancelled, RowsOver, StartSnapshot, BeginSession, Begun, Introspect,
                  ReadMaxAllowedPacket, Header, NextEntry, RenderObject, OpenTable, SelectRows,
                  RowArrives, ResultEnds, TakeRow, FlushFull, StreamOver, FlushLast, CloseTable,
                  Footer, EndSession, EndWith, Attempt, NotSent, Refuse, RestoreVariable,
                  Restored, Abort, LoseConnection,
                  OutputBreaks, OtherSessionWrites, Terminated
    <3>. QED BY <2>1, <2>2, <2>3, <3>1 DEF AcquiredIsReleased
  <2>. QED BY <2>1, <2>2, <2>3, LeaseSteps
<1>. QED BY <1>1, <1>2, InvHolds, PTL DEF Spec

-----------------------------------------------------------------------------
LEMMA VariablesInit ==
  ASSUME PlainCallers, Init
  PROVE  VariablesInv
<1>1. caller.conflictingMode \in BOOLEAN /\ srv.vars = Found(caller) /\ pc = "acquire"
  BY CallersAssumption DEF Init, FreshSession, Caller
<1>. QED BY <1>1, FoundWhatIsRead DEF VariablesInv, PutBack

LEMMA VariablesHold ==
  ASSUME PlainCallers
  PROVE  Spec => []VariablesInv
<1>1. Init => VariablesInv
  BY VariablesInit
<1>2. Inv /\ VariablesInv /\ [Next]_vars => VariablesInv'
  <2>1. VariablesInv /\ UNCHANGED vars => VariablesInv'
    BY DEF VariablesInv, PutBack, vars, call, lease
  <2>. QED BY <2>1, VariablesNext
<1>. QED BY <1>1, <1>2, InvHolds, PTL DEF Spec

\* For a caller whose character sets are those of a SET NAMES and whose level
\* is REPEATABLE READ, the connection comes back with every session variable as
\* it was found: on success, failure, cancellation and a half-begun session.
THEOREM VariablesAreHandedBack ==
  ASSUME PlainCallers
  PROVE  Spec => []VariablesHandedBack
<1>1. Inv /\ VariablesInv => VariablesHandedBack
  <2> SUFFICES ASSUME Inv, VariablesInv, HandedBack
               PROVE  \A v \in SessionVariable : PutBack(v)
    BY DEF VariablesHandedBack
  <2>1. releases # 0 /\ conn = "open"
    BY DEF HandedBack
  <2>2. pc = "done"
    BY <2>1 DEF Inv, ControlInv
  <2>. QED BY <2>1, <2>2 DEF VariablesInv
<1>. QED BY <1>1, InvHolds, VariablesHold, PTL

\* Before the checkout and after the release the session is as the owner left it.
LeftAlone == Phase # "operation" => AsFound

LEMMA NotOperating == Inv /\ VariablesInv /\ CheckoutInv => LeftAlone
<1> SUFFICES ASSUME Inv, VariablesInv, CheckoutInv, Phase # "operation" PROVE AsFound
  BY DEF LeftAlone
<1>1. pc \in { "acquire", "done" }
  BY DEF Inv, ControlInv, CheckoutInv, Phase, TypeOK
<1>2. conn = "open" => \A v \in SessionVariable : PutBack(v)
  BY <1>1 DEF Inv, SavedInv, VariablesInv, PutBack
<1>. QED BY <1>1, <1>2 DEF AsFound, Inv, ControlInv, HoldInv, Rendering

LEMMA LeaseStep ==
  ASSUME Inv, CheckoutInv, LeftAlone, LeftAlone', [Next]_vars
  PROVE  [Lease!Next]_<< Phase, AsFound >>
<1>1. /\ Phase # "operation" => AsFound
      /\ Phase' # "operation" => AsFound'
  BY DEF LeftAlone
<1>2. AsFound' \in BOOLEAN
  BY DEF AsFound
<1>3. CASE Acquire
  <2>1. AsFound' = AsFound
    BY <1>3 DEF Acquire, AsFound, PutBack, call, export
  <2>2. Phase = "owner" /\ Phase' \in { "owner", "operation" }
    BY <1>3 DEF Acquire, Phase, Inv, ControlInv
  <2>. QED BY <2>1, <2>2 DEF Lease!Next, Lease!Lend
<1>4. CASE Release
  <2>1. AsFound' = AsFound
    BY <1>4 DEF Release, AsFound, PutBack, call, export
  <2>2. Phase = "operation" /\ Phase' = "returned"
    BY <1>4 DEF Release, Phase, Inv, ControlInv, CheckoutInv
  <2>. QED BY <1>1, <2>1, <2>2 DEF Lease!Next, Lease!HandBack
<1>5. CASE UNCHANGED << acquired, releases >>
  <2>1. Phase' = Phase
    BY <1>5 DEF Phase
  <2>2. CASE Phase = "operation"
    BY <1>2, <2>1, <2>2 DEF Lease!Next, Lease!Use
  <2>3. CASE Phase # "operation"
    BY <1>1, <2>1, <2>3 DEF AsFound
  <2>. QED BY <2>2, <2>3
<1>. QED BY <1>3, <1>4, <1>5, LeaseSteps

\* A dump lent a plain session implements the lease.
THEOREM DumpImplementsLease ==
  ASSUME PlainCallers
  PROVE  Spec => ImplementsLease
<1>1. Init => Lease!Init
  <2>1. Init => Phase = "owner" /\ AsFound
    BY DEF Init, Phase, AsFound, PutBack, FreshSession
  <2>. QED BY <2>1 DEF Lease!Init, AsFound
<1>2. Spec => []CheckoutInv
  BY InvInit, CheckoutNext, InvHolds, PTL DEF Spec
<1>3. Spec => []LeftAlone
  BY <1>2, NotOperating, InvHolds, VariablesHold, PTL
<1>4. Inv /\ CheckoutInv /\ LeftAlone /\ LeftAlone' /\ [Next]_vars
      => [Lease!Next]_<< Phase, AsFound >>
  BY LeaseStep
<1>. QED BY <1>1, <1>2, <1>3, <1>4, InvHolds, PTL DEF Spec, ImplementsLease, Lease!Spec

-----------------------------------------------------------------------------
\* What CompleteInv does not notice.
CompleteQuiet ==
  /\ UNCHANGED << entries, written >> /\ (aborted => aborted')
  /\ outcome' = "completed" => outcome = "completed"
  /\ pc' \notin Ending => pc \notin Ending
  /\ ~aborted' =>
       /\ entry' = entry
       /\ pc' \in Unread => pc \in Unread
       /\ \/ pc' \notin { "footer", "object", "rows", "flush", "lastFlush", "close" }
          \/ /\ pc' = pc /\ UNCHANGED << statementRows, consumed >>
             /\ stream' = "ended" => stream = "ended" /\ arrived' = arrived

LEMMA QuietKeepsComplete ==
  ASSUME TypeOK, CompleteInv, CompleteQuiet
  PROVE  CompleteInv'
<1>1. CompletedIsComplete' /\ (pc' \notin Ending => outcome' # "completed")
  BY DEF CompleteInv, CompleteQuiet, CompletedIsComplete
<1>2. ASSUME ~aborted'
      PROVE  /\ \A i \in DOMAIN entries' :
                  /\ i < entry' => Complete(i)'
                  /\ i > entry' \/ (i = entry' /\ pc' \in Unread) => written'[i] = 0
             /\ pc' = "object" => ~entries'[entry'].data
             /\ pc' \in { "rows", "flush" } =>
                  /\ written'[entry'] + statementRows' = consumed'
                  /\ stream' = "ended" => arrived' = entries'[entry'].rows
             /\ pc' = "lastFlush" => written'[entry'] + statementRows' = entries'[entry'].rows
             /\ pc' = "close" => written'[entry'] = entries'[entry'].rows
             /\ pc' = "footer" => entry' \notin DOMAIN entries'
  <2>1. ~aborted /\ UNCHANGED << entries, written, entry >>
    BY <1>2 DEF CompleteQuiet
  <2>2. \A i \in DOMAIN entries' :
          /\ i < entry' => Complete(i)'
          /\ i > entry' \/ (i = entry' /\ pc' \in Unread) => written'[i] = 0
    BY <1>2, <2>1 DEF CompleteInv, CompleteQuiet, Complete
  <2>3. CASE pc' \notin { "footer", "object", "rows", "flush", "lastFlush", "close" }
    BY <2>2, <2>3
  <2>4. CASE /\ pc' = pc /\ UNCHANGED << statementRows, consumed >>
             /\ stream' = "ended" => stream = "ended" /\ arrived' = arrived
    BY <2>1, <2>2, <2>4 DEF CompleteInv
  <2>. QED BY <1>2, <2>3, <2>4 DEF CompleteQuiet
<1>. QED BY <1>1, <1>2 DEF CompleteInv

\* Nothing is lost on the way of a row from the driver to the output unless
\* the signal has fired.
LEMMA CompleteNext ==
  ASSUME AllFramed
  PROVE  Inv /\ CompleteInv /\ [Next]_vars => CompleteInv'
<1> SUFFICES ASSUME Inv, CompleteInv, [Next]_vars PROVE CompleteInv'
  OBVIOUS
<1>t. /\ TypeOK /\ ControlInv /\ opts.frames
      /\ Len(entries) \in Nat /\ DOMAIN entries = 1..Len(entries) /\ entry \in Nat
      /\ written \in [DOMAIN entries -> Nat]
      /\ statementRows \in Nat /\ consumed \in Nat /\ arrived \in Nat /\ consumed <= arrived
      /\ \A i \in DOMAIN entries : entries[i].rows \in Nat
  BY ArchivesAssumption, BoundsAssumption DEF Inv, TypeOK, AllFramed
\* A step that ends the dump, other than as complete.
<1>x. ASSUME pc' \in Ending, outcome' # "completed", UNCHANGED entries,
             aborted' \/ (~aborted /\ UNCHANGED << entry, written >>)
      PROVE  CompleteInv'
  <2>1. pc' \notin Unread /\ pc' \notin { "footer", "object", "rows", "flush", "lastFlush", "close" }
    BY <1>x DEF Ending, Unread
  <2>. QED BY <1>x, <2>1 DEF CompleteInv, CompletedIsComplete, Complete
\* A step of the dump after the signal has fired.
<1>a. ASSUME aborted', pc \notin Ending, outcome' # "completed"
      PROVE  CompleteInv'
  BY <1>a DEF CompleteInv, CompletedIsComplete
<1>n. pc \notin Ending => outcome # "completed"
  BY DEF CompleteInv
<1>1. CASE Acquire \/ StartSnapshot \/ Begun \/ Introspect \/ ReadMaxAllowedPacket
  <2>1. CompleteQuiet
    BY <1>1 DEF CompleteQuiet, Ending, Unread, PcSet, Acquire, StartSnapshot, Begun, Introspect,
                ReadMaxAllowedPacket, CallSucceeds, CallFails, Refuse, CallAborted, Finish, call,
                result,
                export
  <2>. QED BY <1>t, <2>1, QuietKeepsComplete
<1>2. CASE BeginSession
  <2>1. CompleteQuiet
    BY <1>2 DEF CompleteQuiet, Ending, Unread, PcSet, BeginSession, BeginFails, CallSucceeds,
                CallFails, Refuse, CallAborted, call, result, export
  <2>. QED BY <1>t, <2>1, QuietKeepsComplete
<1>3. CASE Header \/ OpenTable
  <2>1. CompleteQuiet
    BY <1>3, <1>t
       DEF CompleteQuiet, Ending, Unread, PcSet, Header, OpenTable, EmitFrame, Emit,
           WriteSucceeds, WriteAborted, WriteFails, Return, Finish, call, result, export
  <2>. QED BY <1>t, <2>1, QuietKeepsComplete
<1>4. CASE NextEntry
  <2>u. UNCHANGED << entries, written, entry, aborted >> /\ pc = "entry"
    BY <1>4 DEF NextEntry, call, result
  <2>p. pc \in Unread /\ pc \notin Ending
    BY <2>u DEF Unread, Ending, PcSet
  <2>1. CASE pc' = "end" /\ outcome' # "completed"
    <3>1. CompleteQuiet
      BY <2>1, <2>u, <2>p DEF CompleteQuiet, Ending, Unread
    <3>. QED BY <1>t, <3>1, QuietKeepsComplete
  <2>2. CASE UNCHANGED outcome /\ pc' = IF entries[entry].data THEN "open" ELSE "object"
    <3>1. pc' \notin Ending /\ outcome' # "completed"
      BY <1>n, <2>2, <2>p DEF Ending
    <3>2. pc' \notin { "rows", "flush", "lastFlush", "close", "footer" }
      BY <2>2
    <3>. QED BY <2>2, <2>u, <2>p, <3>1, <3>2 DEF CompleteInv, CompletedIsComplete, Complete
  <2>3. CASE UNCHANGED outcome /\ entry \notin DOMAIN entries /\ pc' = "footer"
    <3>1. pc' \notin Ending /\ outcome' # "completed"
      BY <1>n, <2>3, <2>p DEF Ending
    <3>2. pc' \notin Unread
      BY <2>3 DEF Unread
    <3>. QED BY <2>3, <2>u, <2>p, <3>1, <3>2 DEF CompleteInv, CompletedIsComplete, Complete
  <2>. QED BY <1>4, <2>1, <2>2, <2>3 DEF NextEntry, Return, Finish
<1>5. CASE RenderObject \/ CloseTable
  <2>u. /\ UNCHANGED << entries, written >> /\ pc \in { "object", "close" } /\ entry' = entry + 1
        /\ entry \in DOMAIN entries /\ pc \notin Ending
    BY <1>5, <1>t DEF RenderObject, CloseTable, call, result, ControlInv, Ending
  <2>1. ASSUME ~aborted
        PROVE  \A i \in DOMAIN entries : /\ i < entry' => Complete(i)
                                         /\ i >= entry' => written[i] = 0
    <3>1. Complete(entry)
      BY <2>1, <2>u DEF CompleteInv, Complete
    <3>2. \A i \in DOMAIN entries : i < entry' => i < entry \/ i = entry
      BY <1>t, <2>u
    <3>3. \A i \in DOMAIN entries : i >= entry' => i > entry
      BY <1>t, <2>u
    <3>. QED BY <2>1, <3>1, <3>2, <3>3 DEF CompleteInv
  <2>2. /\ pc' \in { "entry", "end" } /\ outcome' # "completed"
        /\ aborted => aborted'
    BY <1>5, <1>n, <1>t, <2>u
       DEF RenderObject, CloseTable, EmitFrame, Emit, WriteSucceeds, WriteAborted, WriteFails,
           Return, Finish
  <2>3. \A i \in DOMAIN entries : i > entry' \/ i = entry' => i >= entry'
    BY <1>t, <2>u
  <2>. QED BY <2>1, <2>2, <2>3, <2>u DEF CompleteInv, CompletedIsComplete, Complete
<1>6. CASE SelectRows
  <2>u. /\ UNCHANGED << entries, written, entry, aborted >> /\ pc = "select"
        /\ entry \in DOMAIN entries /\ pc \in Unread /\ pc \notin Ending
    BY <1>6, <1>t DEF SelectRows, call, ControlInv, Unread, Ending, PcSet
  <2>1. CASE aborted
    BY <1>6, <1>a, <1>n, <2>1, <2>u DEF SelectRows, ExportCancelled, CallSucceeds, CallFails,
       Refuse, Finish
  <2>2. CASE pc' = "end" /\ outcome' # "completed"
    BY <1>x, <2>1, <2>2, <2>u DEF Ending
  <2>3. CASE /\ ~aborted /\ pc' = "rows" /\ stream' \in { "open", "failed" }
             /\ statementRows' = 0 /\ consumed' = 0 /\ UNCHANGED outcome
    <3>1. written[entry] = 0
      BY <2>3, <2>u DEF CompleteInv
    <3>2. pc' \notin Unread /\ pc' \notin Ending
      BY <2>3 DEF Unread, Ending
    <3>. QED BY <1>n, <2>3, <2>u, <3>1, <3>2 DEF CompleteInv, CompletedIsComplete, Complete
  <2>. QED BY <1>6, <2>1, <2>2, <2>3, <1>n, <2>u DEF SelectRows, Finish
<1>7. CASE RowArrives
  <2>1. CompleteQuiet
    BY <1>7 DEF CompleteQuiet, RowArrives, call, result
  <2>. QED BY <1>t, <2>1, QuietKeepsComplete
<1>8. CASE ResultEnds
  <2>1. /\ UNCHANGED << entries, written, entry, aborted, pc, statementRows, consumed, arrived,
                        outcome >>
        /\ stream' = "ended" => arrived = entries[entry].rows
    BY <1>8 DEF ResultEnds, call, result
  <2>. QED BY <2>1 DEF CompleteInv, CompletedIsComplete, Complete
\* A step on the rows of a table, until the signal fires.
<1>r. ASSUME pc \in { "rows", "flush", "lastFlush" }, pc' \in { "rows", "flush", "lastFlush", "close" },
             UNCHANGED << entries, entry, arrived, outcome >>, aborted => aborted',
             ~aborted' =>
               /\ written' \in [DOMAIN entries -> Nat]
               /\ \A i \in DOMAIN entries : i # entry => written'[i] = written[i]
               /\ pc' \in { "rows", "flush" } =>
                    /\ written'[entry] + statementRows' = consumed'
                    /\ stream' = "ended" => stream = "ended" /\ pc \in { "rows", "flush" }
               /\ pc' = "lastFlush" => written'[entry] + statementRows' = entries[entry].rows
               /\ pc' = "close" => written'[entry] = entries[entry].rows
      PROVE  CompleteInv'
  <2>1. pc' \notin Unread /\ pc' \notin Ending /\ pc \notin Ending
    BY <1>r DEF Unread, Ending
  <2>2. ASSUME ~aborted'
        PROVE  \A i \in DOMAIN entries : /\ i < entry => Complete(i)'
                                         /\ i > entry => written'[i] = 0
    <3>1. \A i \in DOMAIN entries : i < entry \/ i > entry => written'[i] = written[i]
      BY <1>r, <1>t, <2>2
    <3>. QED BY <1>r, <2>2, <3>1 DEF CompleteInv, Complete
  <2>. QED BY <1>n, <1>r, <2>1, <2>2 DEF CompleteInv, CompletedIsComplete
<1>9. CASE TakeRow
  <2>u. /\ UNCHANGED << entries, written, entry, aborted, arrived >> /\ pc = "rows"
        /\ entry \in DOMAIN entries /\ pc \notin Ending
    BY <1>9, <1>t DEF TakeRow, call, result, ControlInv, Ending
  <2>1. CASE aborted
    BY <1>9, <1>a, <1>n, <2>1, <2>u DEF TakeRow, ExportCancelled, Finish
  <2>2. CASE pc' = "end" /\ outcome' # "completed"
    BY <1>x, <2>1, <2>2, <2>u DEF Ending
  <2>i. ~aborted => written[entry] + statementRows = consumed
    BY <2>u DEF CompleteInv
  <2>3. CASE ~aborted /\ AddRow(statementRows) /\ UNCHANGED << pc, stream, outcome >>
    <3>1. written[entry] + statementRows' = consumed'
      BY <1>t, <2>3, <2>i, <2>u DEF AddRow
    <3>. QED BY <1>r, <1>t, <2>3, <2>u, <3>1
  <2>4. CASE ~aborted /\ pc' = "flush" /\ UNCHANGED << consumed, statementRows, stream, outcome >>
    BY <1>r, <1>t, <2>4, <2>i, <2>u
  <2>. QED BY <1>9, <2>1, <2>2, <2>3, <2>4 DEF TakeRow, Finish
<1>10. CASE FlushFull
  <2>u. /\ UNCHANGED << entries, entry, arrived >> /\ pc = "flush" /\ (aborted => aborted')
        /\ entry \in DOMAIN entries /\ pc \notin Ending
    BY <1>10, <1>t DEF FlushFull, call, ControlInv, Ending, WriteSucceeds, WriteAborted, WriteFails
  <2>1. CASE WriteAborted /\ ExportCancelled
    BY <1>a, <1>n, <2>1, <2>u DEF WriteAborted, ExportCancelled, Finish
  <2>2. CASE WriteFails /\ Finish("rejected") /\ UNCHANGED written
    BY <1>x, <2>2, <2>u DEF WriteFails, Finish, Ending
  <2>3. CASE /\ WriteSucceeds /\ WriteStatement /\ AddRow(0) /\ pc' = "rows"
             /\ UNCHANGED << stream, outcome >>
    <3>1. ~aborted /\ written[entry] + statementRows = consumed
      BY <2>3, <2>u DEF CompleteInv, WriteSucceeds
    <3>2. /\ written'[entry] = written[entry] + statementRows /\ written[entry] \in Nat
          /\ \A i \in DOMAIN entries : i # entry => written'[i] = written[i]
          /\ written' \in [DOMAIN entries -> Nat]
      BY <1>t, <2>3, <2>u DEF WriteStatement
    <3>3. written'[entry] + statementRows' = consumed'
      BY <1>t, <2>3, <3>1, <3>2 DEF AddRow
    <3>. QED BY <1>r, <2>3, <2>u, <3>2, <3>3
  <2>4. CASE WriteSucceeds /\ WriteStatement /\ Finish("rejected")
    <3>1. \A i \in DOMAIN entries : i < entry \/ i > entry => written'[i] = written[i]
      BY <1>t, <2>4, <2>u DEF WriteStatement
    <3>2. pc' \notin Unread /\ pc' \in Ending /\ outcome' # "completed" /\ pc' = "end"
      BY <2>4 DEF Finish, Ending, Unread
    <3>. QED BY <2>4, <2>u, <3>1, <3>2 DEF CompleteInv, CompletedIsComplete, Complete, WriteSucceeds
  <2>. QED BY <1>10, <2>1, <2>2, <2>3, <2>4 DEF FlushFull
<1>11. CASE StreamOver
  <2>u. /\ UNCHANGED << entries, written, entry, aborted, arrived, consumed, statementRows >>
        /\ pc = "rows" /\ consumed = arrived /\ entry \in DOMAIN entries /\ pc \notin Ending
        /\ stream' = "none"
    BY <1>11, <1>t DEF StreamOver, call, result, ControlInv, Ending, LeaveStream
  <2>1. CASE aborted
    BY <1>11, <1>a, <1>n, <2>1, <2>u DEF StreamOver, ExportCancelled, Finish
  <2>2. CASE pc' = "end" /\ outcome' # "completed"
    BY <1>x, <2>1, <2>2, <2>u DEF Ending
  <2>3. CASE ~aborted /\ stream = "ended" /\ RowsOver /\ UNCHANGED outcome
    <3>1. written[entry] + statementRows = entries[entry].rows /\ written[entry] \in Nat
      BY <1>t, <2>3, <2>u DEF CompleteInv
    <3>2. statementRows = 0 => written[entry] = entries[entry].rows
      BY <1>t, <3>1
    <3>3. pc' = "lastFlush" \/ (pc' = "close" /\ statementRows = 0)
      BY <1>t, <2>3 DEF RowsOver
    <3>. QED BY <1>r, <1>t, <2>3, <2>u, <3>1, <3>2, <3>3
  <2>. QED BY <1>11, <2>1, <2>2, <2>3 DEF StreamOver, Finish
<1>12. CASE FlushLast
  <2>u. /\ UNCHANGED << entries, entry, arrived >> /\ pc = "lastFlush" /\ (aborted => aborted')
        /\ entry \in DOMAIN entries /\ pc \notin Ending
    BY <1>12, <1>t DEF FlushLast, call, export, ControlInv, Ending, WriteSucceeds, WriteAborted,
       WriteFails
  <2>1. CASE WriteAborted /\ ExportCancelled
    BY <1>a, <1>n, <2>1, <2>u DEF WriteAborted, ExportCancelled, Finish
  <2>2. CASE WriteFails /\ Finish("rejected") /\ UNCHANGED written
    BY <1>x, <2>2, <2>u DEF WriteFails, Finish, Ending
  <2>w. WriteStatement =>
          /\ written'[entry] = written[entry] + statementRows
          /\ \A i \in DOMAIN entries : i # entry => written'[i] = written[i]
          /\ written' \in [DOMAIN entries -> Nat]
    BY <1>t, <2>u DEF WriteStatement
  <2>3. CASE WriteSucceeds /\ WriteStatement /\ pc' = "close" /\ UNCHANGED outcome
    <3>1. ~aborted /\ written[entry] + statementRows = entries[entry].rows
      BY <2>3, <2>u DEF CompleteInv, WriteSucceeds
    <3>. QED BY <1>r, <2>3, <2>u, <2>w, <3>1
  <2>4. CASE WriteSucceeds /\ WriteStatement /\ Finish("rejected")
    <3>1. \A i \in DOMAIN entries : i < entry \/ i > entry => written'[i] = written[i]
      BY <1>t, <2>4, <2>w
    <3>2. pc' \notin Unread /\ pc' \in Ending /\ outcome' # "completed" /\ pc' = "end"
      BY <2>4 DEF Finish, Ending, Unread
    <3>. QED BY <2>4, <2>u, <3>1, <3>2 DEF CompleteInv, CompletedIsComplete, Complete, WriteSucceeds
  <2>. QED BY <1>12, <2>1, <2>2, <2>3, <2>4 DEF FlushLast
<1>13. CASE Footer
  <2>u. UNCHANGED << entries, entry, written >> /\ pc = "footer" /\ pc \notin Ending
    BY <1>13 DEF Footer, call, result, Ending
  <2>1. CASE ~aborted /\ UNCHANGED aborted /\ Return("completed")
    <3>1. \A i \in DOMAIN entries : Complete(i)
      BY <1>t, <2>1, <2>u DEF CompleteInv, TypeOK
    <3>2. pc' = "end" /\ pc' \in Ending /\ pc' \notin Unread
      BY <2>1 DEF Return, Finish, Ending, Unread
    <3>3. CompletedIsComplete'
      BY <2>u, <3>1 DEF CompletedIsComplete, Complete
    <3>. QED BY <2>1, <2>u, <3>2, <3>3 DEF CompleteInv, Complete
  <2>2. CASE aborted' /\ Return("cancelled")
    BY <1>x, <2>2, <2>u DEF Return, Finish, Ending
  <2>3. CASE UNCHANGED aborted /\ Finish("rejected")
    <3>1. CompleteQuiet
      BY <2>3, <2>u DEF CompleteQuiet, Finish, Ending, Unread
    <3>. QED BY <1>t, <3>1, QuietKeepsComplete
  <2>. QED BY <1>13, <1>t, <2>1, <2>2, <2>3 DEF Footer, WriteSucceeds, WriteAborted, WriteFails
<1>14. CASE EndSession \/ RestoreVariable \/ Restored \/ Release
  <2>1. CompleteQuiet
    BY <1>14 DEF CompleteQuiet, Ending, Unread, EndSession, EndWith, Attempt, NotSent, Refuse,
       RestoreVariable, Restored, Release, call,
                 result
  <2>. QED BY <1>t, <2>1, QuietKeepsComplete
<1>15. CASE \/ Abort \/ LoseConnection \/ OutputBreaks \/ OtherSessionWrites \/ Terminated
            \/ UNCHANGED vars
  <2>1. CompleteQuiet
    BY <1>15 DEF CompleteQuiet, Abort, LoseConnection, OutputBreaks, OtherSessionWrites, Terminated,
                 vars, call, result, export
  <2>. QED BY <1>t, <2>1, QuietKeepsComplete
<1>. QED
  BY <1>1, <1>2, <1>3, <1>4, <1>5, <1>6, <1>7, <1>8, <1>9, <1>10, <1>11, <1>12, <1>13, <1>14, <1>15
     DEF Next, Step

\* A dump that ends with a footer and does not report itself cancelled holds
\* every row of every table it was to dump: an export cut short by the signal
\* is always noticed, by the next write at the latest.
THEOREM CompletedDumpsAreComplete ==
  ASSUME AllFramed
  PROVE  Spec => []CompletedIsComplete
<1>1. Init => CompleteInv
  <2> SUFFICES ASSUME Init PROVE CompleteInv
    OBVIOUS
  <2>1. /\ entry = 1 /\ pc = "acquire" /\ outcome = "none" /\ entries \in Archives
        /\ written = [i \in DOMAIN entries |-> 0]
    BY DEF Init
  <2>2. \A i \in DOMAIN entries : ~(i < 1)
    BY <2>1, ArchivesAssumption
  <2>. QED BY <2>1, <2>2 DEF CompleteInv, CompletedIsComplete, Complete
<1>2. Inv /\ CompleteInv /\ [Next]_vars => CompleteInv'
  BY CompleteNext
<1>3. CompleteInv => CompletedIsComplete
  BY DEF CompleteInv
<1>. QED BY <1>1, <1>2, <1>3, InvHolds, PTL DEF Spec
=============================================================================
