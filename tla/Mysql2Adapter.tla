--------------------------- MODULE Mysql2Adapter ---------------------------
(***************************************************************************)
(* The mysql2 adapter: one connection, its single-request discipline, its  *)
(* query() promise, and the async generator behind stream(), which turns   *)
(* the driver's row events into a bounded queue by pausing and resuming    *)
(* the whole connection.                                                   *)
(*                                                                         *)
(* JavaScript runs a callback, or the generator up to its next suspension, *)
(* to completion, so each of those is one action.  The driver delivers     *)
(* nothing while it is paused: the packets it has parsed wait inside it.   *)
(* A request made while another is in flight is rejected at once and       *)
(* changes nothing (connection-busy), so it is not an action here: pc is   *)
(* "idle" exactly when a new request is not refused for that reason.       *)
(***************************************************************************)
EXTENDS Integers, Sequences

CONSTANTS
  BatchSizes,   \* the batchSize options a caller may pass
  MaxRows,      \* bound: rows of a result set
  MaxRequests   \* bound: requests on the connection

ASSUME BatchSizesAssumption == BatchSizes \subseteq Int
ASSUME BoundsAssumption == MaxRows \in Nat /\ MaxRequests \in Nat

VARIABLES
  \* The driver's connection.
  command,       \* what the server executes for it
  rows,          \* rows of the running result set
  sent,          \* rows handed to the listeners so far
  driverPaused,
  \* The adapter.
  inFlight,      \* the request that occupies the connection
  destroyed,
  \* The generator of the running stream, or the promise of a query.
  pc, queue, paused, queryEnded, failure,
  batchSize, signalled,   \* the options of the request
  \* The consumer.
  taken, outcome,
  aborted, requests

driver    == << command, rows, sent, driverPaused >>
adapter   == << inFlight, destroyed >>
generator == << queue, paused, queryEnded, failure >>
options   == << batchSize, signalled >>
vars == << driver, adapter, pc, generator, options, taken, outcome, aborted, requests >>

\* highWaterMark and lowWaterMark of the running stream.
highWaterMark == IF batchSize < 1 THEN 1 ELSE batchSize
HalfHighWaterMark == highWaterMark \div 2
lowWaterMark == IF highWaterMark \div 2 < 1 THEN 1 ELSE highWaterMark \div 2

\* The generator has its listeners on the driver.
Attached == pc \in { "loop", "waiting", "yielded" }

TypeOK ==
  /\ command \in { "none", "stream", "query" }
  /\ rows \in 0..MaxRows /\ sent \in 0..MaxRows
  /\ driverPaused \in BOOLEAN /\ paused \in BOOLEAN /\ queryEnded \in BOOLEAN
  /\ inFlight \in { "none", "stream", "query" }
  /\ destroyed \in BOOLEAN /\ signalled \in BOOLEAN /\ aborted \in BOOLEAN
  /\ pc \in { "idle", "query", "loop", "waiting", "yielded" }
  /\ queue \in Seq(1..MaxRows)
  /\ failure \in { "none", "failed", "cancelled" }
  /\ batchSize \in Int /\ lowWaterMark \in 1..highWaterMark
  /\ taken \in 0..MaxRows
  /\ outcome \in { "none", "ended", "failed", "cancelled", "left" }
  /\ requests \in 0..MaxRequests

Init ==
  /\ command = "none" /\ rows = 0 /\ sent = 0 /\ driverPaused = FALSE
  /\ inFlight = "none" /\ destroyed = FALSE
  /\ pc = "idle" /\ queue = << >> /\ paused = FALSE /\ queryEnded = TRUE /\ failure = "none"
  /\ batchSize = 1 /\ signalled = FALSE
  /\ taken = 0 /\ outcome = "none"
  /\ aborted = FALSE /\ requests = 0

-----------------------------------------------------------------------------
\* throwIfAborted, assertUsable, beginRequest.
Admitted(signal) == ~(signal /\ aborted) /\ ~destroyed /\ inFlight = "none"

Begin(kind, signal) ==
  /\ pc = "idle" /\ requests < MaxRequests /\ Admitted(signal)
  /\ requests' = requests + 1
  /\ inFlight' = kind /\ signalled' = signal
  /\ command' = kind
  /\ UNCHANGED << destroyed, driverPaused, aborted >>

\* stream(): the consumer's first next() runs the generator into its loop.
StartStream(signal, n, b) ==
  /\ Begin("stream", signal)
  /\ rows' = n /\ sent' = 0 /\ batchSize' = b
  /\ pc' = "loop"
  /\ queue' = << >> /\ paused' = FALSE /\ queryEnded' = FALSE /\ failure' = "none"
  /\ taken' = 0 /\ outcome' = "none"

StartQuery(signal) ==
  /\ Begin("query", signal)
  /\ pc' = "query"
  /\ UNCHANGED << rows, sent, batchSize, generator, taken, outcome >>

\* The callback settles the promise, with a result or an error.
QueryCalledBack ==
  /\ pc = "query" /\ command = "query" /\ ~driverPaused
  /\ command' = "none" /\ inFlight' = "none" /\ pc' = "idle"
  /\ UNCHANGED << rows, sent, driverPaused, destroyed, generator, options, taken, outcome,
                  aborted, requests >>

\* cancel()
Cancel == destroyed' = TRUE /\ command' = "none"

-----------------------------------------------------------------------------
\* wake() resolves the promise the generator waits on, if it does.
Wake == pc' = IF pc = "waiting" THEN "loop" ELSE pc

PauseLate == IF Len(queue) >= highWaterMark /\ ~paused
               THEN paused' = TRUE /\ driverPaused' = TRUE
               ELSE UNCHANGED << paused, driverPaused >>

\* onResult pauses the connection when the queue is full.
PauseIfFull == IF Len(queue) + 1 >= highWaterMark /\ ~paused
                 THEN paused' = TRUE /\ driverPaused' = TRUE
                 ELSE UNCHANGED << paused, driverPaused >>

RowArrives ==
  /\ command = "stream" /\ ~driverPaused /\ sent < rows
  /\ sent' = sent + 1
  /\ queue' = Append(queue, sent + 1)
  /\ PauseIfFull
  /\ Wake
  /\ UNCHANGED << command, rows, adapter, queryEnded, failure, options, taken, outcome,
                  aborted, requests >>

\* onEnd, once every row has been delivered.
ResultEnds ==
  /\ command = "stream" /\ ~driverPaused /\ sent = rows
  /\ command' = "none"
  /\ queryEnded' = TRUE
  /\ Wake
  /\ UNCHANGED << rows, sent, driverPaused, adapter, queue, paused, failure, options, taken,
                  outcome, aborted, requests >>

\* onError: the first failure is kept.
ResultFails ==
  /\ command = "stream" /\ ~driverPaused
  /\ command' = "none"
  /\ queryEnded' = TRUE
  /\ failure' = IF failure = "none" THEN "failed" ELSE failure
  /\ Wake
  /\ UNCHANGED << rows, sent, driverPaused, adapter, queue, paused, options, taken, outcome,
                  aborted, requests >>

\* The caller fires its signal: onAbort of the stream, or of the query, whose
\* promise is rejected while inFlight stays set.
Abort ==
  /\ ~aborted
  /\ aborted' = TRUE
  /\ \/ /\ Attached /\ signalled
        /\ failure' = "cancelled"
        /\ Wake
        /\ UNCHANGED << command, destroyed >>
     \/ /\ pc = "query" /\ signalled
        /\ pc' = "idle"
        /\ Cancel
        /\ UNCHANGED failure
     \/ /\ pc = "idle" \/ ~signalled
        /\ UNCHANGED << pc, failure, command, destroyed >>
  /\ UNCHANGED << rows, sent, driverPaused, inFlight, queue, paused, queryEnded, options, taken,
                  outcome, requests >>

-----------------------------------------------------------------------------
NeverResume == UNCHANGED << paused, driverPaused >>

\* One row is taken; a queue drained to the low-water mark resumes the driver.
ResumeIfLow == IF paused /\ Len(queue) - 1 <= lowWaterMark
                 THEN paused' = FALSE /\ driverPaused' = FALSE
                 ELSE UNCHANGED << paused, driverPaused >>

YieldRow ==
  /\ pc = "loop" /\ queue # << >>
  /\ taken' = Head(queue) /\ queue' = Tail(queue)
  /\ ResumeIfLow
  /\ pc' = "yielded"
  /\ UNCHANGED << command, rows, sent, adapter, queryEnded, failure, options, outcome, aborted,
                  requests >>

\* Not abandoned means the result set has ended, however the consumer left.
AbandonedUnlessFailed == ~queryEnded /\ failure = "none"
Abandoned == ~queryEnded

\* finally: the request ends, the listeners are detached, the connection is
\* resumed, and a result set nobody reads any more is cancelled.
LeaveWith(o) ==
  /\ pc' = "idle" /\ outcome' = o
  /\ inFlight' = "none"
  /\ paused' = FALSE
  /\ driverPaused' = IF paused THEN FALSE ELSE driverPaused
  /\ IF Abandoned THEN Cancel ELSE UNCHANGED << destroyed, command >>
  /\ UNCHANGED << rows, sent, queue, queryEnded, failure, options, taken, aborted, requests >>

ThrowFailure == pc = "loop" /\ queue = << >> /\ failure # "none" /\ LeaveWith(failure)

ReturnOverRows == pc = "loop" /\ failure = "none" /\ queryEnded /\ LeaveWith("ended")
Return == pc = "loop" /\ queue = << >> /\ failure = "none" /\ queryEnded /\ LeaveWith("ended")

AwaitRows ==
  /\ pc = "loop" /\ queue = << >> /\ failure = "none" /\ ~queryEnded
  /\ pc' = "waiting"
  /\ UNCHANGED << driver, adapter, generator, options, taken, outcome, aborted, requests >>

Run == YieldRow \/ ThrowFailure \/ Return \/ AwaitRows

\* The consumer asks for the next row, or leaves its loop.
AskNext ==
  /\ pc = "yielded" /\ pc' = "loop"
  /\ UNCHANGED << driver, adapter, generator, options, taken, outcome, aborted, requests >>

Leave == pc = "yielded" /\ LeaveWith("left")

-----------------------------------------------------------------------------
Answer == RowArrives \/ ResultEnds \/ ResultFails \/ QueryCalledBack

Next ==
  \/ \E signal \in BOOLEAN, n \in 0..MaxRows, b \in BatchSizes : StartStream(signal, n, b)
  \/ \E signal \in BOOLEAN : StartQuery(signal)
  \/ Answer
  \/ Abort
  \/ Run
  \/ AskNext
  \/ Leave

Spec == Init /\ [][Next]_vars

\* The server answers what it is asked unless its connection is paused or
\* gone, Node runs what is ready, and the consumer goes on or leaves.
Fairness == WF_vars(Answer) /\ WF_vars(Run) /\ WF_vars(AskNext \/ Leave)

FairSpec == Spec /\ Fairness

-----------------------------------------------------------------------------
\* An unconsumed result set never accumulates: the queue holds at most
\* highWaterMark rows however slowly the consumer iterates.
QueueBounded == Attached => Len(queue) <= highWaterMark

\* Between requests a connection the adapter would still use is fit for use:
\* no result set is being read, and the driver is not paused.
FreeIsReady == inFlight = "none" /\ ~destroyed => command = "none" /\ ~driverPaused

\* The socket is given up only for a statement the server is still executing:
\* leaving a complete result, or failing on an ended one, keeps it.
DestroysOnlyInFlight == [][destroyed' # destroyed => command # "none"]_vars

\* The consumer gets every row once and in order, and "ended" means all of them.
Source == INSTANCE RowSource WITH open <- Attached, length <- rows
ImplementsRowSource == Source!Spec

\* No lost wake-up, no connection left paused, no call the driver never
\* answers: every request settles.
Settles == pc # "idle" ~> pc = "idle"
=============================================================================
