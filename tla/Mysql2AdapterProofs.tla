------------------------ MODULE Mysql2AdapterProofs ------------------------
(***************************************************************************)
(* What holds of the adapter for every batch size, every result set and    *)
(* every number of requests.                                               *)
(***************************************************************************)
EXTENDS Mysql2Adapter, SequenceTheorems, TLAPS

\* The request, the generator and the driver's command agree: what occupies
\* the connection is what the server executes, until the result set ends.
RequestInv ==
  /\ Attached => inFlight = "stream"
  /\ pc = "query" => inFlight = "query" /\ command = "query"
  /\ pc = "idle" => command = "none"
  /\ inFlight = "none" => pc = "idle"
  /\ pc = "idle" /\ ~destroyed => inFlight = "none"
  /\ Attached => (command = "stream" <=> ~queryEnded) /\ command # "query"

\* The adapter's flag is the driver's, and is up only while the generator,
\* which alone can lower it, is there.
PauseInv ==
  /\ paused = driverPaused
  /\ paused => Attached

\* An unpaused queue has room for the row that may arrive.
RoomInv ==
  Attached => /\ Len(queue) <= highWaterMark
              /\ ~paused => Len(queue) < highWaterMark

\* The queue holds the rows between the last one taken and the last one sent.
OrderInv ==
  Attached => /\ \A i \in 1..Len(queue) : queue[i] = taken + i
              /\ taken + Len(queue) = sent
              /\ sent <= rows
              /\ queryEnded /\ failure = "none" => sent = rows

\* TypeOK in two halves, the Boolean variables and the others.
Flags ==
  /\ driverPaused \in BOOLEAN /\ paused \in BOOLEAN /\ queryEnded \in BOOLEAN
  /\ destroyed \in BOOLEAN /\ signalled \in BOOLEAN /\ aborted \in BOOLEAN

Data ==
  /\ command \in { "none", "stream", "query" }
  /\ rows \in 0..MaxRows /\ sent \in 0..MaxRows
  /\ inFlight \in { "none", "stream", "query" }
  /\ pc \in { "idle", "query", "loop", "waiting", "yielded" }
  /\ queue \in Seq(1..MaxRows)
  /\ failure \in { "none", "failed", "cancelled" }
  /\ batchSize \in Int /\ lowWaterMark \in 1..highWaterMark
  /\ taken \in 0..MaxRows
  /\ outcome \in { "none", "ended", "failed", "cancelled", "left" }
  /\ requests \in 0..MaxRequests

IInv == TypeOK /\ RequestInv /\ PauseInv /\ RoomInv /\ OrderInv

\* The water marks of any batch size are sound.
LEMMA WaterMarks ==
  ASSUME batchSize \in Int
  PROVE  /\ highWaterMark \in Nat /\ highWaterMark >= 1
         /\ lowWaterMark \in 1..highWaterMark
<1>1. highWaterMark \in Nat /\ highWaterMark >= 1
  BY DEF highWaterMark
<1>2. lowWaterMark \in 1..highWaterMark
  BY <1>1 DEF lowWaterMark
<1>. QED BY <1>1, <1>2

LEMMA TypeHalves == TypeOK <=> Flags /\ Data
<1>. QED BY DEF TypeOK, Flags, Data

LEMMA InitIInv == Init => IInv
<1>. SUFFICES ASSUME Init PROVE IInv
  OBVIOUS
<1>. USE BoundsAssumption
<1>1. TypeOK
  <2>1. lowWaterMark \in 1..highWaterMark
    BY WaterMarks DEF Init
  <2>2. queue \in Seq(1..MaxRows)
    BY DEF Init
  <2>3. Flags
    BY DEF Init, Flags
  <2>4. Data
    BY <2>1, <2>2 DEF Init, Data
  <2>. QED BY <2>3, <2>4, TypeHalves
<1>. QED BY <1>1 DEF Init, IInv, RequestInv, PauseInv, RoomInv, OrderInv, Attached

-----------------------------------------------------------------------------
LEMMA StreamStarts ==
  ASSUME IInv, NEW signal \in BOOLEAN, NEW n \in 0..MaxRows, NEW b \in BatchSizes,
         StartStream(signal, n, b)
  PROVE  IInv'
<1>. USE BoundsAssumption DEF StartStream, Begin, Admitted, IInv
<1>0. b \in Int
  BY BatchSizesAssumption
<1>1. lowWaterMark' \in 1..highWaterMark'
  BY <1>0 DEF lowWaterMark, highWaterMark
<1>2. TypeOK'
  <2>1. Flags'
    BY TypeHalves DEF Flags
  <2>2. Data'
    BY TypeHalves, <1>0, <1>1 DEF Data
  <2>. QED BY <2>1, <2>2 DEF TypeOK, Flags, Data
<1>3. RequestInv' /\ PauseInv'
  BY DEF TypeOK, RequestInv, PauseInv, Attached
<1>4. RoomInv'
  BY <1>0 DEF RoomInv, highWaterMark
<1>5. OrderInv'
  BY DEF OrderInv
<1>. QED BY <1>2, <1>3, <1>4, <1>5

LEMMA QueryStarts ==
  ASSUME IInv, NEW signal \in BOOLEAN, StartQuery(signal)
  PROVE  IInv'
<1>. USE BoundsAssumption DEF StartQuery, Begin, Admitted, IInv, generator
<1>m. lowWaterMark' = lowWaterMark /\ highWaterMark' = highWaterMark
  BY DEF lowWaterMark, highWaterMark
<1>1. TypeOK'
  <2>1. Flags'
    BY TypeHalves DEF Flags
  <2>2. Data'
    BY TypeHalves, <1>m DEF Data
  <2>. QED BY <2>1, <2>2 DEF TypeOK, Flags, Data
<1>2. RequestInv' /\ PauseInv' /\ RoomInv' /\ OrderInv'
  BY DEF TypeOK, RequestInv, PauseInv, RoomInv, OrderInv, Attached
<1>. QED BY <1>1, <1>2

LEMMA CalledBack ==
  ASSUME IInv, QueryCalledBack
  PROVE  IInv'
<1>. USE DEF QueryCalledBack, IInv, generator, options
<1>m. lowWaterMark' = lowWaterMark /\ highWaterMark' = highWaterMark
  BY DEF lowWaterMark, highWaterMark
<1>1. TypeOK'
  <2>1. Flags'
    BY TypeHalves DEF Flags
  <2>2. Data'
    BY TypeHalves, <1>m DEF Data
  <2>. QED BY <2>1, <2>2 DEF TypeOK, Flags, Data
<1>2. RequestInv' /\ PauseInv' /\ RoomInv' /\ OrderInv'
  BY DEF TypeOK, RequestInv, PauseInv, RoomInv, OrderInv, Attached
<1>. QED BY <1>1, <1>2

\* A row arrives only where there is room for it.
LEMMA RowsFit ==
  ASSUME IInv, RowArrives
  PROVE  IInv'
<1>. USE BoundsAssumption DEF RowArrives, IInv, adapter, options
<1>h. highWaterMark \in Nat /\ highWaterMark' = highWaterMark
  BY WaterMarks DEF TypeOK, highWaterMark
<1>p. Attached /\ Attached' /\ ~paused
  BY DEF RequestInv, PauseInv, Attached, Wake, TypeOK
<1>q. /\ sent + 1 \in 1..MaxRows
      /\ queue' \in Seq(1..MaxRows)
      /\ Len(queue') = Len(queue) + 1
      /\ \A i \in 1..Len(queue) : queue'[i] = queue[i]
      /\ queue'[Len(queue) + 1] = sent + 1
  BY DEF TypeOK
<1>m. lowWaterMark' = lowWaterMark /\ highWaterMark' = highWaterMark
  BY DEF lowWaterMark, highWaterMark
<1>1. TypeOK'
  <2>1. Flags'
    BY TypeHalves DEF Flags, PauseIfFull, Wake
  <2>2. Data'
    BY TypeHalves, <1>m, <1>q DEF Data, PauseIfFull, Wake
  <2>. QED BY <2>1, <2>2 DEF TypeOK, Flags, Data
<1>2. RequestInv'
  BY <1>p DEF RequestInv, Attached, Wake, TypeOK
<1>3. PauseInv'
  BY <1>p DEF PauseInv, PauseIfFull
<1>4. RoomInv'
  BY <1>h, <1>p, <1>q DEF RoomInv, PauseIfFull, TypeOK
<1>5. OrderInv'
  <2>. SUFFICES /\ \A i \in 1..Len(queue') : queue'[i] = taken' + i
                /\ taken' + Len(queue') = sent'
                /\ sent' <= rows'
                /\ ~queryEnded'
    BY DEF OrderInv
  <2>1. \A i \in 1..Len(queue') : queue'[i] = taken' + i
    BY <1>p, <1>q DEF OrderInv, TypeOK
  <2>2. taken' + Len(queue') = sent' /\ sent' <= rows'
    BY <1>p, <1>q DEF OrderInv, TypeOK
  <2>3. ~queryEnded'
    BY <1>p DEF RequestInv
  <2>. QED BY <2>1, <2>2, <2>3
<1>. QED BY <1>1, <1>2, <1>3, <1>4, <1>5

LEMMA ResultOver ==
  ASSUME IInv, ResultEnds \/ ResultFails
  PROVE  IInv'
<1>. USE DEF ResultEnds, ResultFails, IInv, adapter, options
<1>p. Attached /\ Attached' /\ highWaterMark' = highWaterMark
  BY DEF RequestInv, Attached, Wake, TypeOK, highWaterMark
<1>m. lowWaterMark' = lowWaterMark /\ highWaterMark' = highWaterMark
  BY DEF lowWaterMark, highWaterMark
<1>1. TypeOK'
  <2>1. Flags'
    BY TypeHalves DEF Flags, Wake
  <2>2. Data'
    BY TypeHalves, <1>m DEF Data, Wake
  <2>. QED BY <2>1, <2>2 DEF TypeOK, Flags, Data
<1>2. RequestInv' /\ PauseInv'
  BY <1>p DEF RequestInv, PauseInv, Attached, Wake, TypeOK
<1>3. RoomInv' /\ OrderInv'
  BY <1>p DEF RoomInv, OrderInv, TypeOK
<1>. QED BY <1>1, <1>2, <1>3

LEMMA AbortStep ==
  ASSUME IInv, Abort
  PROVE  IInv'
<1>. USE DEF Abort, IInv, options
<1>h. highWaterMark' = highWaterMark
  BY DEF highWaterMark
<1>m. lowWaterMark' = lowWaterMark /\ highWaterMark' = highWaterMark
  BY DEF lowWaterMark, highWaterMark
<1>1. TypeOK'
  <2>1. Flags'
    BY TypeHalves DEF Flags, Wake, Cancel
  <2>2. Data'
    BY TypeHalves, <1>m DEF Data, Wake, Cancel
  <2>. QED BY <2>1, <2>2 DEF TypeOK, Flags, Data
<1>2. Attached' => Attached
  BY DEF Attached, Wake
<1>3. RequestInv' /\ PauseInv'
  BY DEF RequestInv, PauseInv, Attached, Wake, Cancel, TypeOK
<1>4. RoomInv' /\ OrderInv'
  BY <1>h, <1>2 DEF RoomInv, OrderInv, TypeOK
<1>. QED BY <1>1, <1>3, <1>4

-----------------------------------------------------------------------------
\* Taking a row makes room, whether or not the connection is resumed.
LEMMA YieldStep ==
  ASSUME IInv, YieldRow
  PROVE  IInv'
<1>. USE DEF YieldRow, IInv, adapter, options
<1>h. highWaterMark \in Nat /\ highWaterMark' = highWaterMark
  BY WaterMarks DEF TypeOK, highWaterMark
<1>p. Attached /\ Attached'
  BY DEF Attached
<1>q. /\ queue' \in Seq(1..MaxRows)
      /\ Len(queue') = Len(queue) - 1 /\ Len(queue) >= 1
      /\ \A i \in 1..Len(queue') : queue'[i] = queue[i + 1]
      /\ taken' = queue[1] /\ taken' \in 1..MaxRows
  <2>1. queue \in Seq(1..MaxRows) /\ queue # << >>
    BY DEF TypeOK
  <2>2. Len(queue) \in Nat /\ 1 \in 1..Len(queue)
    BY <2>1, EmptySeq
  <2>3. queue[1] \in 1..MaxRows
    BY <2>1, <2>2, ElementOfSeq
  <2>. QED BY <2>1, <2>2, <2>3, HeadTailProperties
<1>m. lowWaterMark' = lowWaterMark /\ highWaterMark' = highWaterMark
  BY DEF lowWaterMark, highWaterMark
<1>1. TypeOK'
  <2>1. Flags'
    BY TypeHalves DEF Flags, ResumeIfLow
  <2>2. Data'
    BY TypeHalves, <1>m, <1>q DEF Data, ResumeIfLow
  <2>. QED BY <2>1, <2>2 DEF TypeOK, Flags, Data
<1>2. RequestInv' /\ PauseInv'
  BY <1>p DEF RequestInv, PauseInv, ResumeIfLow, Attached
<1>3. RoomInv'
  BY <1>h, <1>p, <1>q DEF RoomInv, ResumeIfLow, TypeOK
<1>4. OrderInv'
  <2>0. taken \in Nat /\ sent \in Nat /\ rows \in Nat /\ Len(queue) \in Nat
    BY DEF TypeOK
  <2>1. taken' = taken + 1
    BY <1>p, <1>q, <2>0 DEF OrderInv
  <2>2. ASSUME NEW i \in 1..Len(queue') PROVE queue'[i] = taken' + i
    <3>1. i + 1 \in 1..Len(queue) /\ queue'[i] = queue[i + 1]
      BY <1>q, <2>0
    <3>2. queue[i + 1] = taken + (i + 1)
      BY <1>p, <3>1 DEF OrderInv
    <3>. QED BY ONLY <2>0, <2>1, <3>1, <3>2, i \in 1..Len(queue')
  <2>3. taken' + Len(queue') = sent /\ sent <= rows
    BY <1>p, <1>q, <2>0, <2>1 DEF OrderInv
  <2>. QED BY <1>p, <2>2, <2>3 DEF OrderInv
<1>. QED BY <1>1, <1>2, <1>3, <1>4

\* The generator's finally, however it is reached.
LEMMA LeaveStep ==
  ASSUME IInv, Attached, NEW o \in { "ended", "failed", "cancelled", "left" }, LeaveWith(o)
  PROVE  IInv'
<1>. USE DEF LeaveWith, Abandoned, Cancel, IInv, options
<1>m. lowWaterMark' = lowWaterMark /\ highWaterMark' = highWaterMark
  BY DEF lowWaterMark, highWaterMark
<1>1. TypeOK'
  <2>1. Flags'
    BY TypeHalves DEF Flags
  <2>2. Data'
    BY TypeHalves, <1>m DEF Data
  <2>. QED BY <2>1, <2>2 DEF TypeOK, Flags, Data
<1>2. ~Attached'
  BY DEF Attached
<1>3. RequestInv' /\ PauseInv'
  BY DEF RequestInv, PauseInv, Attached, TypeOK
<1>. QED BY <1>1, <1>2, <1>3 DEF RoomInv, OrderInv

LEMMA SuspendStep ==
  ASSUME IInv, AwaitRows \/ AskNext
  PROVE  IInv'
<1>. USE DEF AwaitRows, AskNext, IInv, driver, adapter, generator, options
<1>m. lowWaterMark' = lowWaterMark /\ highWaterMark' = highWaterMark
  BY DEF lowWaterMark, highWaterMark
<1>1. TypeOK'
  <2>1. Flags'
    BY TypeHalves DEF Flags
  <2>2. Data'
    BY TypeHalves, <1>m DEF Data
  <2>. QED BY <2>1, <2>2 DEF TypeOK, Flags, Data
<1>2. Attached /\ Attached' /\ highWaterMark' = highWaterMark
  BY DEF Attached, highWaterMark
<1>3. RequestInv' /\ PauseInv'
  BY <1>2 DEF RequestInv, PauseInv, Attached, TypeOK
<1>. QED BY <1>1, <1>2, <1>3 DEF RoomInv, OrderInv

\* Every way out of the generator is a LeaveWith of one of four outcomes.
LEMMA Leaving ==
  ASSUME TypeOK, ThrowFailure \/ Return \/ Leave
  PROVE  /\ Attached
         /\ \E o \in { "ended", "failed", "cancelled", "left" } :
              LeaveWith(o) /\ (o = "ended" => Return)
<1>1. CASE ThrowFailure
  <2>1. failure \in { "failed", "cancelled" }
    BY <1>1 DEF ThrowFailure, TypeOK
  <2>. QED BY <1>1, <2>1 DEF ThrowFailure, Attached
<1>2. CASE Return
  BY <1>2 DEF Return, Attached
<1>3. CASE Leave
  BY <1>3 DEF Leave, Attached
<1>. QED BY <1>1, <1>2, <1>3

LEMMA NextIInv == IInv /\ [Next]_vars => IInv'
<1>. SUFFICES ASSUME IInv, [Next]_vars PROVE IInv'
  OBVIOUS
<1>1. CASE \E signal \in BOOLEAN, n \in 0..MaxRows, b \in BatchSizes : StartStream(signal, n, b)
  BY <1>1, StreamStarts
<1>2. CASE \E signal \in BOOLEAN : StartQuery(signal)
  BY <1>2, QueryStarts
<1>3. CASE Answer
  BY <1>3, CalledBack, RowsFit, ResultOver DEF Answer
<1>4. CASE Abort
  BY <1>4, AbortStep
<1>5. CASE YieldRow
  BY <1>5, YieldStep
<1>6. CASE ThrowFailure \/ Return \/ Leave
  BY <1>6, Leaving, LeaveStep DEF IInv
<1>7. CASE AwaitRows \/ AskNext
  BY <1>7, SuspendStep
<1>8. CASE UNCHANGED vars
  BY <1>8 DEF vars, driver, adapter, generator, options, IInv, TypeOK, RequestInv, PauseInv,
              RoomInv, OrderInv, Attached, lowWaterMark, highWaterMark
<1>. QED BY <1>1, <1>2, <1>3, <1>4, <1>5, <1>6, <1>7, <1>8 DEF Next, Run

LEMMA Inductive == Spec => []IInv
<1>. QED BY InitIInv, NextIInv, PTL DEF Spec

-----------------------------------------------------------------------------
\* Every variable of the adapter keeps its type, and every batch size gives
\* water marks the queue can work with.
THEOREM AdapterTypeCorrect == Spec => []TypeOK
<1>1. IInv => TypeOK
  BY DEF IInv
<1>. QED BY <1>1, Inductive, PTL

\* Whatever the consumer's pace, the rows read ahead of it are bounded by the
\* batch size.
THEOREM MemoryIsBounded == Spec => []QueueBounded
<1>1. IInv => QueueBounded
  BY DEF IInv, RoomInv, QueueBounded
<1>. QED BY <1>1, Inductive, PTL

\* A connection no request occupies is unpaused and executes nothing, or is
\* known to be destroyed.
THEOREM FreeConnectionsAreReady == Spec => []FreeIsReady
<1>1. IInv => FreeIsReady
  BY DEF IInv, RequestInv, PauseInv, FreeIsReady, Attached, TypeOK
<1>. QED BY <1>1, Inductive, PTL

\* Only a statement that is still executing costs the connection its socket.
THEOREM DestroysOnlyRunning == Spec => DestroysOnlyInFlight
<1>. DEFINE A == destroyed' # destroyed => command # "none"
<1>1. IInv /\ [Next]_vars => [A]_vars
  <2>. SUFFICES ASSUME IInv, Next, destroyed' # destroyed PROVE command # "none"
    OBVIOUS
  <2>1. CASE Abort
    BY <2>1 DEF Abort, IInv, RequestInv
  <2>2. CASE ThrowFailure \/ Return \/ Leave
    <3>1. Attached /\ ~queryEnded
      BY <2>2, Leaving DEF IInv, LeaveWith, Abandoned
    <3>. QED BY <3>1 DEF IInv, RequestInv
  <2>3. ~(\/ \E signal \in BOOLEAN, n \in 0..MaxRows, b \in BatchSizes : StartStream(signal, n, b)
          \/ \E signal \in BOOLEAN : StartQuery(signal))
    BY DEF StartStream, StartQuery, Begin
  <2>4. ~(Answer \/ YieldRow \/ AwaitRows \/ AskNext)
    BY DEF Answer, QueryCalledBack, RowArrives, ResultEnds, ResultFails, YieldRow, AwaitRows,
           AskNext, adapter
  <2>. QED BY <2>1, <2>2, <2>3, <2>4 DEF Next, Run
<1>2. []IInv /\ [][Next]_vars => [][A]_vars
  BY <1>1, PTL
<1>. QED BY <1>2, Inductive, PTL DEF Spec, DestroysOnlyInFlight

-----------------------------------------------------------------------------
\* Each step of the adapter is a step of the row source or none.
LEMMA StepsAreSourceSteps ==
  ASSUME IInv, IInv', [Next]_vars
  PROVE  [Source!Next]_<< Attached, rows, taken, outcome >>
<1>. USE DEF Source!Next
<1>1. CASE \E signal \in BOOLEAN, n \in 0..MaxRows, b \in BatchSizes : StartStream(signal, n, b)
  BY <1>1, BoundsAssumption DEF StartStream, Begin, Attached, Source!Open
<1>2. CASE (\E signal \in BOOLEAN : StartQuery(signal)) \/ Answer \/ Abort
  BY <1>2 DEF StartQuery, Begin, Answer, QueryCalledBack, RowArrives, ResultEnds, ResultFails,
              Abort, Attached, Wake
<1>3. CASE YieldRow
  <2>1. Attached /\ Attached' /\ taken' = Head(queue) /\ queue # << >>
    BY <1>3 DEF YieldRow, Attached
  <2>t. /\ queue \in Seq(1..MaxRows) /\ Len(queue) \in Nat /\ 1 \in 1..Len(queue)
        /\ taken \in Nat /\ sent \in Nat /\ rows \in Nat
    BY <2>1, EmptySeq DEF IInv, TypeOK
  <2>2. queue[1] = taken + 1 /\ taken + Len(queue) <= rows
    BY <2>1, <2>t DEF IInv, OrderInv
  <2>3. taken' = taken + 1 /\ taken < rows
    BY <2>1, <2>2, <2>t
  <2>. QED BY <1>3, <2>1, <2>3 DEF YieldRow, Source!Yield
<1>4. CASE ThrowFailure \/ Return \/ Leave
  <2>1. PICK o \in { "ended", "failed", "cancelled", "left" } :
          LeaveWith(o) /\ (o = "ended" => Return)
    BY <1>4, Leaving DEF IInv
  <2>2. Attached /\ ~Attached'
    BY <1>4, <2>1, Leaving DEF IInv, LeaveWith, Attached
  <2>3. o = "ended" => taken = rows
    <3>. SUFFICES ASSUME Return PROVE taken = rows
      BY <2>1
    <3>1. taken + 0 = sent /\ sent = rows /\ taken \in Nat
      BY <2>2 DEF Return, IInv, OrderInv, TypeOK
    <3>. QED BY <3>1
  <2>4. outcome' = o /\ rows' = rows /\ taken' = taken
    BY <2>1 DEF LeaveWith
  <2>5. Source!Close
    BY ONLY <2>2, <2>3, <2>4, o \in { "ended", "failed", "cancelled", "left" } DEF Source!Close, Attached
  <2>. QED BY ONLY <2>5 DEF Source!Next
<1>5. CASE AwaitRows \/ AskNext \/ UNCHANGED vars
  BY <1>5 DEF AwaitRows, AskNext, vars, driver, Attached
<1>. QED BY <1>1, <1>2, <1>3, <1>4, <1>5 DEF Next, Run

\* The stream of the adapter implements the row source: all rows, in order,
\* once, and an end only at the end.
THEOREM AdapterIsRowSource == Spec => ImplementsRowSource
<1>1. Init => Source!Init
  BY DEF Init, Source!Init, Attached
<1>2. IInv /\ IInv' /\ [Next]_vars => [Source!Next]_<< Attached, rows, taken, outcome >>
  BY StepsAreSourceSteps
<1>. QED BY <1>1, <1>2, Inductive, PTL DEF Spec, ImplementsRowSource, Source!Spec
=============================================================================
