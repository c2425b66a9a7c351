----------------------- MODULE StatementParserProofs -----------------------
(***************************************************************************)
(* What holds of the parser for every script, every way of cutting it into *)
(* chunks and every limit.                                                 *)
(***************************************************************************)
EXTENDS StatementParser, SequenceTheorems, WellFoundedInduction, TLAPS

-----------------------------------------------------------------------------
(* Runs, blanks and quotes. *)

\* A set of numbers has a least element.
LEMMA LeastElement ==
  ASSUME NEW T, T \subseteq Nat, T # {}
  PROVE  \E x \in T : \A y \in T : x <= y
<1>1. PICK x \in T : \A y \in T : ~(<< y, x >> \in OpToRel(<, Nat))
  BY NatLessThanWellFounded, WFMin
<1>2. ASSUME NEW y \in T PROVE x <= y
  <2>1. ~(y < x)
    BY <1>1 DEF OpToRel
  <2> QED
    BY <2>1
<1> QED
  BY <1>2

LEMMA GreatestElement ==
  ASSUME NEW n \in Nat, NEW T, T \subseteq 1..n, T # {}
  PROVE  \E x \in T : \A y \in T : y <= x
<1> DEFINE U == { n - x : x \in T }
<1>1. U \subseteq Nat /\ U # {}
  OBVIOUS
<1>2. PICK u \in U : \A v \in U : u <= v
  BY <1>1, LeastElement
<1>3. PICK x \in T : u = n - x
  OBVIOUS
<1>4. ASSUME NEW y \in T PROVE y <= x
  <2>1. n - x <= n - y
    BY <1>2, <1>3
  <2> QED
    BY <2>1
<1> QED
  BY <1>4

\* e ends the run of symbols in S from start.
RunsTo(s, start, limit, S, e) ==
  /\ e \in start..limit
  /\ \A k \in start..(e - 1) : s[k] \in S
  /\ e = limit \/ s[e] \notin S

LEMMA RunEndRuns ==
  ASSUME NEW s, NEW start \in Nat, NEW limit \in Nat, start <= limit, NEW S
  PROVE  RunsTo(s, start, limit, S, RunEnd(s, start, limit, S))
<1> DEFINE T == { e \in start..limit : e = limit \/ s[e] \notin S }
<1>1. T \subseteq Nat /\ limit \in T
  OBVIOUS
<1>2. PICK e \in T : \A f \in T : e <= f
  BY <1>1, LeastElement
<1>3. \A k \in start..(e - 1) : s[k] \in S
  <2> SUFFICES ASSUME NEW k \in start..(e - 1), s[k] \notin S PROVE FALSE
    OBVIOUS
  <2>1. k \in T
    OBVIOUS
  <2> QED
    BY <1>2, <2>1
<1> QED
  BY <1>3 DEF RunEnd, RunsTo

LEMMA RunEndBounds ==
  ASSUME NEW s, NEW start \in Nat, NEW limit \in Nat, start <= limit, NEW S
  PROVE  RunEnd(s, start, limit, S) \in start..limit
  BY RunEndRuns DEF RunsTo

LEMMA SlicesAreScripts ==
  ASSUME NEW s \in Seq(Symbols), NEW m \in Nat, NEW n \in Int, m >= 1, n <= Len(s)
  PROVE  /\ SubSeq(s, m, n) \in Seq(Symbols)
         /\ Len(SubSeq(s, m, n)) = IF m <= n THEN n - m + 1 ELSE 0
<1>1. \A i \in m..n : s[i] \in Symbols
  BY ElementOfSeq
<1> QED
  BY <1>1, SubSeqProperties

LEMMA TrimIsScript ==
  ASSUME NEW s \in Seq(Symbols)
  PROVE  Trim(s) \in Seq(Symbols)
<1> DEFINE kept == { i \in DOMAIN s : s[i] \notin Trimmed }
<1>1. kept \subseteq 1..Len(s) /\ Len(s) \in Nat
  OBVIOUS
<1>2. CASE kept = {}
  BY <1>2, EmptySeq DEF Trim
<1>3. CASE kept # {}
  <2> DEFINE first == CHOOSE i \in kept : \A j \in kept : i <= j
             last  == CHOOSE i \in kept : \A j \in kept : j <= i
  <2>1. kept \subseteq Nat
    BY <1>1
  <2>2. \E i \in kept : \A j \in kept : i <= j
    BY <1>3, <2>1, LeastElement
  <2>3. \E i \in kept : \A j \in kept : j <= i
    BY <1>1, <1>3, GreatestElement
  <2>4. first \in kept /\ last \in kept
    BY <2>2, <2>3
  <2> HIDE DEF first, last, kept
  <2>5. first \in Nat /\ last \in Nat /\ first >= 1 /\ last <= Len(s)
    BY <1>1, <2>4
  <2>6. SubSeq(s, first, last) \in Seq(Symbols)
    BY <2>5, SlicesAreScripts
  <2>7. Trim(s) = SubSeq(s, first, last)
    BY <1>3 DEF Trim, first, last, kept
  <2> QED
    BY <2>6, <2>7
<1> QED
  BY <1>2, <1>3

LEMMA StrippedIsShorter ==
  ASSUME NEW s \in Seq(Symbols)
  PROVE  stripQuotes(s) \in Seq(Symbols) /\ Len(stripQuotes(s)) <= Len(s)
  BY SlicesAreScripts, LenProperties DEF stripQuotes

-----------------------------------------------------------------------------
(* What the scan sees at its index. *)

IInv == TypeOK /\ MemoryBounded

CarryLimit == MaxCommandLength + 2 * MaxDelimiterLength

LEMMA Bounds ==
  ASSUME TypeOK
  PROVE  /\ script \in Seq(Symbols) /\ Len(script) \in Nat
         /\ fed \in Nat /\ index \in Nat /\ appendFrom \in Nat
         /\ fed <= Len(script) /\ index <= fed + 1 /\ 1 <= appendFrom /\ appendFrom <= index
         /\ delimiter \in Seq(Symbols) /\ Len(delimiter) \in Nat /\ Len(delimiter) >= 1
         /\ Len(delimiter) <= MaxDelimiterLength
         /\ parts \in Seq(Symbols) /\ Len(parts) \in Nat
         /\ MaxCommandLength \in Nat /\ MaxDelimiterLength \in Nat /\ MaxDelimiterLength >= 1
         /\ MaxStatementBytes \in Nat
<1>1. script \in Seq(Symbols) /\ Len(script) \in Nat
  BY LenProperties DEF TypeOK, script, Input
<1>2. delimiter \in Seq(Symbols) /\ Len(delimiter) \in Nat /\ Len(delimiter) >= 1
  BY LenProperties, EmptySeq DEF TypeOK
<1>3. parts \in Seq(Symbols) /\ Len(parts) \in Nat
  BY LenProperties DEF TypeOK
<1> QED
  BY <1>1, <1>2, <1>3, LengthsAssumption DEF TypeOK

LEMMA Remaining ==
  ASSUME TypeOK, index <= fed
  PROVE  /\ ch \in Symbols
         /\ remaining \in Seq(Symbols) /\ Len(remaining) = fed - index + 1
  BY Bounds, SlicesAreScripts, ElementOfSeq DEF ch, remaining

LEMMA Word ==
  ASSUME TypeOK, index <= fed
  PROVE  /\ wordStart \in Nat /\ index <= wordStart /\ wordStart <= index + 1
         /\ wordEnd \in Nat /\ wordStart <= wordEnd /\ wordEnd <= fed + 1
         /\ wordEnd <= wordStart + MaxCommandLength
<1>1. wordStart \in Nat /\ index <= wordStart /\ wordStart <= index + 1
  BY Bounds DEF wordStart
<1> DEFINE limit == Smaller(fed + 1, wordStart + MaxCommandLength)
<1>2. /\ limit \in Nat /\ wordStart <= limit
      /\ limit <= fed + 1 /\ limit <= wordStart + MaxCommandLength
  BY <1>1, Bounds DEF Smaller
<1>3. wordEnd \in wordStart..limit
  BY <1>1, <1>2, RunEndBounds DEF wordEnd
<1> HIDE DEF limit
<1> QED
  BY <1>1, <1>2, <1>3, Bounds

LEMMA ArgumentBounds ==
  ASSUME TypeOK, index <= fed
  PROVE  /\ argumentStart \in Nat /\ wordEnd <= argumentStart /\ argumentStart <= fed + 1
         /\ argumentStart <= wordEnd + MaxDelimiterLength
         /\ argumentEnd \in Nat /\ argumentStart <= argumentEnd /\ argumentEnd <= fed + 1
         /\ rawArgument \in Seq(Symbols) /\ Len(rawArgument) = argumentEnd - argumentStart
<1>1. /\ SpaceLimit \in Nat /\ wordEnd <= SpaceLimit
      /\ SpaceLimit <= fed + 1 /\ SpaceLimit <= wordEnd + MaxDelimiterLength
  BY Word, Bounds DEF SpaceLimit, Smaller
<1>2. argumentStart \in wordEnd..SpaceLimit
  BY <1>1, Word, RunEndBounds DEF argumentStart
<1>3. argumentStart \in Nat /\ wordEnd <= argumentStart /\ argumentStart <= fed + 1
      /\ argumentStart <= wordEnd + MaxDelimiterLength /\ argumentStart >= 1
  BY <1>1, <1>2, Word, Bounds
<1> DEFINE limit == Smaller(fed + 1, argumentStart + MaxDelimiterLength)
<1>4. limit \in Nat /\ argumentStart <= limit /\ limit <= fed + 1
  BY <1>3, Bounds DEF Smaller
<1>5. argumentEnd \in argumentStart..limit
  BY <1>3, <1>4, RunEndBounds DEF argumentEnd
<1> HIDE DEF limit
<1>6. argumentEnd \in Nat /\ argumentStart <= argumentEnd /\ argumentEnd <= fed + 1
  BY <1>3, <1>4, <1>5, Bounds
<1>7. rawArgument \in Seq(Symbols) /\ Len(rawArgument) = argumentEnd - argumentStart
  BY <1>3, <1>6, Bounds, SlicesAreScripts DEF rawArgument
<1> QED
  BY <1>3, <1>6, <1>7

\* What is held back is short: a command and its argument, a part of the
\* delimiter or of the longest comment opening, or one symbol.
LEMMA CarrySum ==
  ASSUME NEW c \in Nat, NEW d \in Nat, d >= 1,
         NEW i \in Nat, NEW w \in Nat, NEW e \in Nat, NEW a \in Nat, NEW f \in Nat,
         w <= i + 1, e - w < c, a <= e + d
  PROVE  /\ f + 1 <= e => f + 1 - i <= c + 2 * d
         /\ f + 1 <= a => f + 1 - i <= c + 2 * d
         /\ \A b \in Nat : f + 1 <= b /\ b - a < d => f + 1 - i <= c + 2 * d
  OBVIOUS

LEMMA HeldBackIsShort ==
  ASSUME TypeOK, index <= fed, MustWait
  PROVE  fed + 1 - index <= CarryLimit
<1>a. /\ fed \in Nat /\ index \in Nat /\ Len(remaining) = fed - index + 1
      /\ Len(delimiter) \in Nat /\ Len(delimiter) <= MaxDelimiterLength
      /\ MaxCommandLength \in Nat /\ MaxDelimiterLength \in Nat /\ MaxDelimiterLength >= 1
  BY Bounds, Remaining
<1>0. ASSUME wordEnd - wordStart < MaxCommandLength
      PROVE  /\ fed + 1 <= wordEnd => fed + 1 - index <= CarryLimit
             /\ fed + 1 <= argumentStart => fed + 1 - index <= CarryLimit
             /\ fed + 1 <= argumentEnd /\ argumentEnd - argumentStart < MaxDelimiterLength =>
                  fed + 1 - index <= CarryLimit
  BY <1>0, <1>a, CarrySum, Word, ArgumentBounds DEF CarryLimit
<1>1. CASE CommandIncomplete
  <2>1. CASE IsWord /\ Undecided(wordEnd)
    <3>1. wordEnd > fed /\ wordEnd - wordStart < MaxCommandLength
      BY <2>1 DEF IsWord, Undecided
    <3>2. fed + 1 <= wordEnd
      BY <3>1, <1>a, Word
    <3> QED
      BY <1>0, <3>1, <3>2
  <2>2. CASE /\ IsCommand(delimiterCommand)
             /\ \/ Undecided(argumentStart)
                \/ Undecided(argumentEnd) /\ Len(rawArgument) < MaxDelimiterLength
    <3>1. wordEnd - wordStart < MaxCommandLength
      BY <2>2 DEF IsCommand, IsWord
    <3>2. CASE Undecided(argumentStart)
      <4>1. fed + 1 <= argumentStart
        BY <3>2, <1>a, ArgumentBounds DEF Undecided
      <4> QED
        BY <1>0, <3>1, <4>1
    <3>3. CASE Undecided(argumentEnd) /\ Len(rawArgument) < MaxDelimiterLength
      <4>1. fed + 1 <= argumentEnd /\ argumentEnd - argumentStart < MaxDelimiterLength
        BY <3>3, <1>a, ArgumentBounds DEF Undecided
      <4> QED
        BY <1>0, <3>1, <4>1
    <3> QED
      BY <2>2, <3>2, <3>3
  <2> QED
    BY <1>1, <2>1, <2>2 DEF CommandIncomplete
<1>2. CASE CouldStartDelimiter
  BY <1>a, <1>2 DEF CouldStartDelimiter, CarryLimit
<1>3. CASE CouldStartComment
  <2>1. CASE remaining \in { << "-" >>, << "-", "-" >> }
    <3>1. Len(<< "-" >>) = 1 /\ Len(<< "-", "-" >>) = 2 /\ Len(sandboxPrefix) = 5
      BY DEF sandboxPrefix
    <3>2. Len(remaining) = 1 \/ Len(remaining) = 2
      BY <2>1, <3>1
    <3>3. 5 <= CarryLimit /\ CarryLimit \in Nat
      BY <3>1, LengthsAssumption DEF CarryLimit
    <3> QED
      BY <1>a, <3>2, <3>3
  <2>2. CASE StartsWith(sandboxPrefix, remaining)
    BY <1>a, <2>2, LengthsAssumption DEF StartsWith, CarryLimit, sandboxPrefix
  <2> QED
    BY <1>3, <2>1, <2>2 DEF CouldStartComment
<1>4. CASE index = fed
  BY <1>a, <1>4 DEF CarryLimit
<1>5. CommandIncomplete \/ CouldStartDelimiter \/ CouldStartComment \/ index = fed
  BY DEF MustWait, TypeOK, LexerState
<1> QED
  BY <1>1, <1>2, <1>3, <1>4, <1>5

-----------------------------------------------------------------------------
(* The effects the steps share. *)

\* The positions of TypeOK, the lexer's state and the statements.
PositionsOK ==
  fed \in 0..Len(script) /\ index \in 1..(fed + 1) /\ appendFrom \in 1..index
DelimiterOK ==
  delimiter \in Seq(Symbols) \ { << >> } /\ Len(delimiter) <= MaxDelimiterLength
FlagsOK == escapes \in BOOLEAN /\ atLineStart \in BOOLEAN /\ hasContent \in BOOLEAN
StatementsOK ==
  parts \in Seq(Symbols) /\ emitted \in Seq(Seq(Symbols)) /\ delivered \in Seq(Seq(Symbols))
ControlOK ==
  /\ input \in Input /\ pc \in { "idle", "push", "finish", "done" }
  /\ state \in LexerState /\ outcome \in ParserOutcome

LEMMA TypeParts ==
  TypeOK <=> PositionsOK /\ DelimiterOK /\ FlagsOK /\ StatementsOK /\ ControlOK
  BY DEF TypeOK, PositionsOK, DelimiterOK, FlagsOK, StatementsOK, ControlOK

LEMMA TypePartsNext ==
  TypeOK' <=> PositionsOK' /\ DelimiterOK' /\ FlagsOK' /\ StatementsOK' /\ ControlOK'
  BY DEF TypeOK, PositionsOK, DelimiterOK, FlagsOK, StatementsOK, ControlOK

LEMMA ConsumeKeeps ==
  ASSUME IInv, pc \in { "push", "finish" },
         NEW n \in 1..2, index + n <= fed + 1,
         NEW q \in LexerState, NEW b \in BOOLEAN, Consume(n, q, b)
  PROVE  IInv'
<1>a. TypeOK /\ MemoryBounded
  BY DEF IInv
<1>b. PositionsOK /\ DelimiterOK /\ FlagsOK /\ StatementsOK /\ ControlOK
  BY <1>a, TypeParts
<1>1. PositionsOK'
  BY <1>a, <1>b, Bounds DEF PositionsOK, Consume, script
<1>2. DelimiterOK' /\ StatementsOK'
  BY <1>b DEF DelimiterOK, StatementsOK, Consume
<1>3. FlagsOK'
  BY <1>b DEF FlagsOK, Consume, LineStartAfter
<1>4. ControlOK'
  BY <1>b DEF ControlOK, Consume
<1>5. MemoryBounded'
  BY <1>a DEF MemoryBounded, Consume
<1> QED
  BY <1>1, <1>2, <1>3, <1>4, <1>5, TypePartsNext DEF IInv

LEMMA DropKeeps ==
  ASSUME IInv, pc \in { "push", "finish" },
         NEW n \in 1..2, index + n <= fed + 1,
         NEW q \in LexerState, Drop(n, q),
         parts' \in Seq(Symbols), Len(parts') <= MaxStatementBytes
  PROVE  IInv'
<1>a. TypeOK /\ MemoryBounded
  BY DEF IInv
<1>b. PositionsOK /\ DelimiterOK /\ FlagsOK /\ StatementsOK /\ ControlOK
  BY <1>a, TypeParts
<1>1. PositionsOK'
  BY <1>a, <1>b, Bounds DEF PositionsOK, Drop, script
<1>2. DelimiterOK' /\ StatementsOK'
  BY <1>b DEF DelimiterOK, StatementsOK, Drop
<1>3. FlagsOK'
  BY <1>b DEF FlagsOK, Drop, LineStartAfter
<1>4. ControlOK'
  BY <1>b DEF ControlOK, Drop
<1>5. MemoryBounded'
  BY <1>a DEF MemoryBounded, Drop
<1> QED
  BY <1>1, <1>2, <1>3, <1>4, <1>5, TypePartsNext DEF IInv

LEMMA ThrowKeeps ==
  ASSUME IInv, NEW error \in ParserOutcome, Throw(error)
  PROVE  IInv'
<1>a. TypeOK /\ MemoryBounded
  BY DEF IInv
<1>b. PositionsOK /\ DelimiterOK /\ FlagsOK /\ StatementsOK /\ ControlOK
  BY <1>a, TypeParts
<1>1. PositionsOK' /\ DelimiterOK' /\ FlagsOK'
  BY <1>b DEF PositionsOK, DelimiterOK, FlagsOK, Throw, lexer, statement, script
<1>2. StatementsOK'
  BY <1>b, EmptySeq DEF StatementsOK, Throw, statement
<1>3. ControlOK'
  BY <1>b DEF ControlOK, Throw, lexer
<1>4. MemoryBounded'
  BY <1>a DEF MemoryBounded, Throw, statement
<1> QED
  BY <1>1, <1>2, <1>3, <1>4, TypePartsNext DEF IInv

\* Text appended to the statement is text of the script, and what is emitted of
\* it as well.
LEMMA AppendedIsText ==
  ASSUME TypeOK, NEW end \in Nat, end <= fed + 1
  PROVE  Appended(end) \in Seq(Symbols)
<1>1. SubSeq(script, appendFrom, end - 1) \in Seq(Symbols)
  BY Bounds, SlicesAreScripts
<1> QED
  BY <1>1, Bounds, ConcatProperties DEF Appended

LEMMA EmittedIsText ==
  ASSUME TypeOK, NEW text \in Seq(Symbols)
  PROVE  EmittedWith(text) \in Seq(Seq(Symbols)) /\ EscapesAfter(text) \in BOOLEAN
<1>1. Trim(text) \in Seq(Symbols)
  BY TrimIsScript
<1>2. EmittedWith(text) \in Seq(Seq(Symbols))
  BY <1>1, AppendProperties DEF EmittedWith, TypeOK
<1>3. EscapesAfter(text) \in BOOLEAN
  BY DEF EscapesAfter, TypeOK
<1> QED
  BY <1>2, <1>3

-----------------------------------------------------------------------------
(* The steps. *)

LEMMA CallsKeep ==
  ASSUME IInv, Push \/ Finish \/ Cancel \/ Terminated
  PROVE  IInv'
<1>a. TypeOK /\ MemoryBounded
  BY DEF IInv
<1>b. PositionsOK /\ DelimiterOK /\ FlagsOK /\ StatementsOK /\ ControlOK
  BY <1>a, TypeParts
<1>1. PositionsOK'
  BY <1>a, <1>b, Bounds DEF PositionsOK, Push, Finish, Cancel, Terminated, vars, script
<1>2. DelimiterOK' /\ FlagsOK' /\ StatementsOK'
  BY <1>b DEF DelimiterOK, FlagsOK, StatementsOK, Push, Finish, Cancel, Terminated, vars,
    lexer, statement
<1>3. ControlOK'
  BY <1>b DEF ControlOK, Push, Finish, Cancel, Terminated, vars, lexer, ParserOutcome
<1>4. MemoryBounded'
  BY <1>a DEF MemoryBounded, Push, Finish, Cancel, Terminated, vars, statement
<1> QED
  BY <1>1, <1>2, <1>3, <1>4, TypePartsNext DEF IInv

LEMMA HoldBackKeeps ==
  ASSUME IInv, HoldBack
  PROVE  IInv'
<1>a. TypeOK /\ MemoryBounded
  BY DEF IInv
<1>b. PositionsOK /\ DelimiterOK /\ FlagsOK /\ StatementsOK /\ ControlOK
  BY <1>a, TypeParts
<1>1. CASE Len(Appended(index)) > MaxStatementBytes
  <2>1. Throw("tooLarge")
    BY <1>1, <1>a, Bounds, AppendedIsText, LenProperties DEF HoldBack, AppendUpTo
  <2> QED
    BY <2>1, ThrowKeeps DEF ParserOutcome
<1>2. CASE Len(Appended(index)) <= MaxStatementBytes
  <2>1. /\ parts' = Appended(index) /\ appendFrom' = index
        /\ UNCHANGED << atLineStart, input, fed, index, state, delimiter, escapes, hasContent >>
        /\ pc' = "idle" /\ outcome' = "none"
        /\ delivered' = delivered \o emitted /\ emitted' = << >>
    BY <1>2 DEF HoldBack, AppendUpTo, Return, RollBackLineStart
  <2>2. Appended(index) \in Seq(Symbols)
    BY <1>a, Bounds, AppendedIsText
  <2>3. PositionsOK' /\ DelimiterOK' /\ FlagsOK'
    BY <1>b, <2>1 DEF PositionsOK, DelimiterOK, FlagsOK, script
  <2>4. StatementsOK'
    BY <1>b, <2>1, <2>2, ConcatProperties, EmptySeq DEF StatementsOK
  <2>5. ControlOK'
    BY <1>b, <2>1 DEF ControlOK, ParserOutcome
  <2>6. fed + 1 - index <= CarryLimit
    BY <1>a, HeldBackIsShort DEF HoldBack
  <2>7. MemoryBounded'
    BY <1>2, <2>1, <2>6 DEF MemoryBounded, CarryLimit
  <2> QED
    BY <2>3, <2>4, <2>5, <2>7, TypePartsNext DEF IInv
<1>3. Len(Appended(index)) \in Nat /\ MaxStatementBytes \in Nat
  BY <1>a, Bounds, AppendedIsText, LenProperties
<1> QED
  BY <1>1, <1>2, <1>3

LEMMA EndOfChunkKeeps ==
  ASSUME IInv, EndOfChunk
  PROVE  IInv'
<1>a. TypeOK /\ MemoryBounded
  BY DEF IInv
<1>b. PositionsOK /\ DelimiterOK /\ FlagsOK /\ StatementsOK /\ ControlOK
  BY <1>a, TypeParts
<1>1. CASE Throw("tooLarge")
  BY <1>1, ThrowKeeps DEF ParserOutcome
<1>2. CASE Len(Appended(index)) <= MaxStatementBytes
  <2>1. /\ parts' = Appended(index) /\ appendFrom' = index
        /\ UNCHANGED << input, fed, index, lexer, hasContent >>
        /\ pc' = "idle" /\ outcome' = "none"
        /\ delivered' = delivered \o emitted /\ emitted' = << >>
    BY <1>2 DEF EndOfChunk, AppendUpTo, Return
  <2>2. Appended(index) \in Seq(Symbols)
    BY <1>a, Bounds, AppendedIsText
  <2>3. PositionsOK' /\ DelimiterOK' /\ FlagsOK'
    BY <1>b, <2>1 DEF PositionsOK, DelimiterOK, FlagsOK, script, lexer
  <2>4. StatementsOK'
    BY <1>b, <2>1, <2>2, ConcatProperties, EmptySeq DEF StatementsOK
  <2>5. ControlOK'
    BY <1>b, <2>1 DEF ControlOK, ParserOutcome, lexer
  <2>6. index = fed + 1
    BY DEF EndOfChunk
  <2>7. MemoryBounded'
    <3>1. fed' = fed /\ index' = fed + 1 /\ fed \in Nat
      BY <1>a, <2>1, <2>6, Bounds
    <3>2. fed' + 1 - index' = 0
      BY <3>1
    <3> QED
      BY <1>2, <2>1, <3>2, LengthsAssumption DEF MemoryBounded
  <2> QED
    BY <2>3, <2>4, <2>5, <2>7, TypePartsNext DEF IInv
<1> QED
  BY <1>1, <1>2 DEF EndOfChunk, AppendUpTo

LEMMA EndOfScriptKeeps ==
  ASSUME IInv, EndOfScript
  PROVE  IInv'
<1>a. TypeOK /\ MemoryBounded
  BY DEF IInv
<1>b. PositionsOK /\ DelimiterOK /\ FlagsOK /\ StatementsOK /\ ControlOK
  BY <1>a, TypeParts
<1>1. CASE Throw("tooLarge") \/ Throw("malformed")
  BY <1>1, ThrowKeeps DEF ParserOutcome
<1>2. CASE /\ delivered' = delivered \o EmittedWith(Appended(index)) /\ emitted' = << >>
           /\ escapes' = EscapesAfter(Appended(index))
           /\ parts' = << >> /\ hasContent' = FALSE
           /\ appendFrom' = index /\ pc' = "done" /\ outcome' = "completed"
           /\ UNCHANGED << input, fed, index, state, delimiter, atLineStart >>
  <2>1. Appended(index) \in Seq(Symbols)
    BY <1>a, Bounds, AppendedIsText
  <2>2. EmittedWith(Appended(index)) \in Seq(Seq(Symbols))
        /\ EscapesAfter(Appended(index)) \in BOOLEAN
    BY <1>a, <2>1, EmittedIsText
  <2>3. PositionsOK' /\ DelimiterOK'
    BY <1>b, <1>2 DEF PositionsOK, DelimiterOK, script
  <2>4. FlagsOK'
    BY <1>b, <1>2, <2>2 DEF FlagsOK
  <2>5. StatementsOK'
    BY <1>b, <1>2, <2>2, ConcatProperties, EmptySeq DEF StatementsOK
  <2>6. ControlOK'
    BY <1>b, <1>2 DEF ControlOK, ParserOutcome
  <2>7. MemoryBounded'
    BY <1>2, EmptySeq, LengthsAssumption DEF MemoryBounded
  <2> QED
    BY <2>3, <2>4, <2>5, <2>6, <2>7, TypePartsNext DEF IInv
<1> QED
  BY <1>1, <1>2 DEF EndOfScript, AppendUpTo

LEMMA EndStatementKeeps ==
  ASSUME IInv, EndStatement
  PROVE  IInv'
<1>a. TypeOK /\ MemoryBounded /\ index <= fed
  BY DEF IInv, EndStatement, Scanning
<1>b. PositionsOK /\ DelimiterOK /\ FlagsOK /\ StatementsOK /\ ControlOK
  BY <1>a, TypeParts
<1>1. CASE Throw("tooLarge")
  BY <1>1, ThrowKeeps DEF ParserOutcome
<1>2. CASE /\ Flush(Appended(index))
           /\ index' = index + Len(delimiter) /\ appendFrom' = index + Len(delimiter)
           /\ atLineStart' = FALSE
           /\ UNCHANGED << input, pc, fed, state, delimiter, delivered, outcome >>
  <2>1. Appended(index) \in Seq(Symbols)
    BY <1>a, Bounds, AppendedIsText
  <2>2. EmittedWith(Appended(index)) \in Seq(Seq(Symbols))
        /\ EscapesAfter(Appended(index)) \in BOOLEAN
    BY <1>a, <2>1, EmittedIsText
  <2>3. Len(delimiter) <= fed - index + 1
    BY <1>a, Remaining DEF EndStatement, MatchesDelimiter, StartsWith
  <2>4. PositionsOK'
    BY <1>a, <1>2, <2>3, Bounds DEF PositionsOK, script
  <2>5. DelimiterOK' /\ ControlOK'
    BY <1>b, <1>2 DEF DelimiterOK, ControlOK
  <2>6. FlagsOK'
    BY <1>2, <2>2 DEF FlagsOK, Flush
  <2>7. StatementsOK'
    BY <1>b, <1>2, <2>2, EmptySeq DEF StatementsOK, Flush
  <2>8. MemoryBounded'
    BY <1>2, EmptySeq, LengthsAssumption DEF MemoryBounded, Flush, EndStatement, Scanning
  <2> QED
    BY <2>4, <2>5, <2>6, <2>7, <2>8, TypePartsNext DEF IInv
<1> QED
  BY <1>1, <1>2 DEF EndStatement, AppendUpTo

LEMMA ReadDelimiterKeeps ==
  ASSUME IInv, ReadDelimiter
  PROVE  IInv'
<1>a. TypeOK /\ MemoryBounded /\ index <= fed /\ pc \in { "push", "finish" }
  BY DEF IInv, ReadDelimiter, Scanning
<1>b. PositionsOK /\ DelimiterOK /\ FlagsOK /\ StatementsOK /\ ControlOK
  BY <1>a, TypeParts
<1>1. CASE Throw("tooLarge") \/ Throw("invalidDelimiter")
  BY <1>1, ThrowKeeps DEF ParserOutcome
<1>2. CASE /\ IsDelimiter(rawArgument) /\ Len(Appended(index)) <= MaxStatementBytes
           /\ delimiter' = stripQuotes(rawArgument) /\ state' = "skipToEndOfLine"
           /\ parts' = IF Trim(Appended(index)) = << >> THEN << >> ELSE Appended(index)
           /\ index' = argumentEnd /\ appendFrom' = argumentEnd /\ atLineStart' = FALSE
           /\ UNCHANGED << input, pc, fed, escapes, hasContent, emitted, delivered, outcome >>
  <2>1. Appended(index) \in Seq(Symbols)
    BY <1>a, Bounds, AppendedIsText
  <2>2. index <= argumentEnd /\ argumentEnd \in Nat /\ argumentEnd <= fed + 1
    BY <1>a, Bounds, Word, ArgumentBounds
  <2>3. PositionsOK'
    BY <1>a, <1>2, <2>2, Bounds DEF PositionsOK, script
  <2>4. /\ stripQuotes(rawArgument) \in Seq(Symbols)
        /\ Len(stripQuotes(rawArgument)) <= Len(rawArgument)
        /\ Len(rawArgument) \in Nat /\ Len(stripQuotes(rawArgument)) \in Nat
    BY <1>a, ArgumentBounds, StrippedIsShorter, LenProperties
  <2>5. DelimiterOK'
    BY <1>2, <2>4, LengthsAssumption DEF DelimiterOK, IsDelimiter
  <2>6. FlagsOK' /\ ControlOK'
    BY <1>b, <1>2 DEF FlagsOK, ControlOK, LexerState
  <2>7. StatementsOK'
    BY <1>b, <1>2, <2>1, EmptySeq DEF StatementsOK
  <2>8. MemoryBounded'
    BY <1>a, <1>2, EmptySeq, LengthsAssumption DEF MemoryBounded
  <2> QED
    BY <2>3, <2>5, <2>6, <2>7, <2>8, TypePartsNext DEF IInv
<1> QED
  BY <1>1, <1>2 DEF ReadDelimiter, AppendUpTo

\* A symbol that is there comes before the end of the text.
LEMMA NextIsThere ==
  ASSUME TypeOK, index <= fed, Sym(index + 1) # "end"
  PROVE  index + 2 <= fed + 1
  BY Bounds DEF Sym

LEMMA NormalKeeps ==
  ASSUME IInv, OpenQuote \/ OpenLineComment \/ LastDash \/ OpenBlockComment
               \/ OpenExecutable \/ OpenSandbox \/ TakeSymbol
  PROVE  IInv'
<1>a. /\ TypeOK /\ MemoryBounded /\ index <= fed /\ pc \in { "push", "finish" }
      /\ index \in Nat /\ fed \in Nat
  BY Bounds DEF IInv, OpenQuote, OpenLineComment, LastDash, OpenBlockComment, OpenExecutable,
    OpenSandbox, TakeSymbol, Plain, Scanning
<1>b. 1 \in 1..2 /\ 2 \in 1..2 /\ index + 1 <= fed + 1
  BY <1>a
<1>c. Quotes \subseteq LexerState /\ "normal" \in LexerState /\ "lineComment" \in LexerState
      /\ "blockComment" \in LexerState /\ "discardBlockComment" \in LexerState
  BY DEF LexerState
<1>d. IsBlock \/ IsLineComment => index + 2 <= fed + 1
  BY <1>a, NextIsThere DEF IsBlock, IsLineComment
<1>1. CASE OpenQuote
  BY <1>1, <1>a, <1>b, <1>c, ConsumeKeeps DEF OpenQuote
<1>2. CASE OpenLineComment
  BY <1>2, <1>a, <1>b, <1>c, <1>d, ConsumeKeeps DEF OpenLineComment
<1>3. CASE LastDash
  BY <1>3, <1>a, <1>b, <1>c, ConsumeKeeps DEF LastDash
<1>4. CASE OpenBlockComment
  BY <1>4, <1>a, <1>b, <1>c, <1>d, ConsumeKeeps DEF OpenBlockComment
<1>5. CASE OpenExecutable
  BY <1>5, <1>a, <1>b, <1>c, <1>d, ConsumeKeeps DEF OpenExecutable
<1>6. CASE OpenSandbox
  <2>1. CASE Throw("tooLarge")
    BY <2>1, ThrowKeeps DEF ParserOutcome
  <2>2. CASE /\ Len(Appended(index)) <= MaxStatementBytes
             /\ parts' = Appended(index) /\ Drop(2, "discardBlockComment")
    <3>1. Appended(index) \in Seq(Symbols)
      BY <1>a, Bounds, AppendedIsText
    <3>2. Len(sandboxPrefix) = 5 /\ Len(sandboxPrefix) <= fed - index + 1
      BY <1>6, <1>a, Remaining DEF OpenSandbox, IsSandbox, StartsWith, sandboxPrefix
    <3>3. index + 2 <= fed + 1
      BY <3>2, <1>a
    <3> QED
      BY <2>2, <3>1, <3>3, <1>a, <1>b, <1>c, DropKeeps
  <2> QED
    BY <1>6, <2>1, <2>2 DEF OpenSandbox, AppendUpTo
<1>7. CASE TakeSymbol
  BY <1>7, <1>a, <1>b, <1>c, ConsumeKeeps DEF TakeSymbol
<1> QED
  BY <1>1, <1>2, <1>3, <1>4, <1>5, <1>6, <1>7

LEMMA OtherStatesKeep ==
  ASSUME IInv, Quoted \/ InLineComment \/ SkipLine \/ InBlockComment \/ InDiscardedComment
  PROVE  IInv'
<1>a. /\ TypeOK /\ MemoryBounded /\ index <= fed /\ pc \in { "push", "finish" }
      /\ index \in Nat /\ fed \in Nat /\ state \in LexerState
  BY Bounds DEF IInv, Quoted, InLineComment, SkipLine, InBlockComment, InDiscardedComment,
    Scanning, TypeOK
<1>b. 1 \in 1..2 /\ 2 \in 1..2 /\ index + 1 <= fed + 1
  BY <1>a
<1>c. "normal" \in LexerState
  BY DEF LexerState
<1>1. CASE Quoted
  <2>1. CASE Escape
    <3>1. CASE index < fed
      <4>1. (IF index < fed THEN 2 ELSE 1) = 2
        BY <3>1
      <4>2. Consume(2, state, FALSE)
        BY <2>1, <4>1 DEF Escape
      <4>3. index + 2 <= fed + 1
        BY <3>1, <1>a
      <4> QED
        BY <4>2, <4>3, <1>a, <1>b, ConsumeKeeps
    <3>2. CASE ~(index < fed)
      BY <2>1, <3>2, <1>a, <1>b, ConsumeKeeps DEF Escape
    <3> QED
      BY <3>1, <3>2
  <2>2. CASE IsDoubled /\ Consume(2, state, FALSE)
    <3>1. Sym(index + 1) # "end"
      BY <1>1, <2>2 DEF IsDoubled, Quoted, Quotes
    <3> QED
      BY <2>2, <3>1, <1>a, <1>b, NextIsThere, ConsumeKeeps
  <2>3. CASE Consume(1, "normal", FALSE) \/ Consume(1, state, FALSE)
    BY <2>3, <1>a, <1>b, <1>c, ConsumeKeeps
  <2> QED
    BY <1>1, <2>1, <2>2, <2>3 DEF Quoted
<1>2. CASE InLineComment
  <2>1. (IF ch = "\n" THEN "normal" ELSE state) \in LexerState
    BY <1>a, <1>c
  <2> QED
    BY <1>2, <2>1, <1>a, <1>b, ConsumeKeeps DEF InLineComment
<1>d. ASSUME UNCHANGED parts
      PROVE  parts' \in Seq(Symbols) /\ Len(parts') <= MaxStatementBytes
  BY <1>a, <1>d DEF TypeOK, MemoryBounded
<1>e. ClosesBlock => index + 2 <= fed + 1
  BY <1>a, NextIsThere DEF ClosesBlock
<1>3. CASE SkipLine
  <2>1. (IF ch = "\n" THEN "normal" ELSE state) \in LexerState
    BY <1>a, <1>c
  <2> QED
    BY <1>3, <2>1, <1>a, <1>b, <1>d, DropKeeps DEF SkipLine
<1>4. CASE InBlockComment
  BY <1>4, <1>a, <1>b, <1>c, <1>e, ConsumeKeeps DEF InBlockComment
<1>5. CASE InDiscardedComment
  BY <1>5, <1>a, <1>b, <1>c, <1>d, <1>e, DropKeeps DEF InDiscardedComment
<1> QED
  BY <1>1, <1>2, <1>3, <1>4, <1>5

LEMMA InvInit == Init => IInv
<1> SUFFICES ASSUME Init PROVE IInv
  OBVIOUS
<1>1. input \in Input /\ script \in Seq(Symbols) /\ Len(script) \in Nat
  BY InputsAssumption, LenProperties DEF Init, script, Input
<1>2. delimiter \in Seq(Symbols) \ { << >> } /\ Len(delimiter) = 1
  <2>1. << ";" >> \in Seq(Symbols) /\ << ";" >> # << >> /\ Len(<< ";" >>) = 1
    BY DEF Symbols
  <2> QED
    BY <2>1 DEF Init
<1>3. PositionsOK
  <2>1. fed = 0 /\ index = 1 /\ appendFrom = 1
    BY DEF Init
  <2> QED
    BY <1>1, <2>1 DEF PositionsOK
<1>4. DelimiterOK
  BY <1>2, LengthsAssumption DEF DelimiterOK
<1>5. FlagsOK
  BY DEF Init, FlagsOK
<1>6. StatementsOK /\ ControlOK
  BY <1>1, EmptySeq DEF Init, StatementsOK, ControlOK, LexerState, ParserOutcome
<1>7. MemoryBounded
  <2>1. fed = 0 /\ index = 1 /\ parts = << >>
    BY DEF Init
  <2>2. fed + 1 - index = 0
    BY <2>1
  <2> QED
    BY <2>1, <2>2, EmptySeq, LengthsAssumption DEF MemoryBounded
<1> QED
  BY <1>3, <1>4, <1>5, <1>6, <1>7, TypeParts DEF IInv

LEMMA InvNext == IInv /\ [Next]_vars => IInv'
<1> SUFFICES ASSUME IInv, [Next]_vars PROVE IInv'
  OBVIOUS
<1>1. CASE Push \/ Finish \/ Cancel \/ Terminated
  BY <1>1, CallsKeep
<1>2. CASE HoldBack \/ EndOfChunk \/ EndOfScript
  BY <1>2, HoldBackKeeps, EndOfChunkKeeps, EndOfScriptKeeps
<1>3. CASE ReadDelimiter \/ EndStatement
  BY <1>3, ReadDelimiterKeeps, EndStatementKeeps
<1>4. CASE RefuseCommand
  BY <1>4, ThrowKeeps DEF RefuseCommand, ParserOutcome
<1>5. CASE OpenQuote \/ OpenLineComment \/ LastDash \/ OpenBlockComment
           \/ OpenExecutable \/ OpenSandbox \/ TakeSymbol
  BY <1>5, NormalKeeps
<1>6. CASE Quoted \/ InLineComment \/ SkipLine \/ InBlockComment \/ InDiscardedComment
  BY <1>6, OtherStatesKeep
<1>7. CASE UNCHANGED vars
  <2>1. PositionsOK' /\ DelimiterOK' /\ FlagsOK' /\ StatementsOK' /\ ControlOK' /\ MemoryBounded'
    BY <1>7, TypeParts DEF IInv, PositionsOK, DelimiterOK, FlagsOK, StatementsOK, ControlOK,
      MemoryBounded, vars, lexer, statement, script
  <2> QED
    BY <2>1, TypePartsNext DEF IInv
<1> QED
  BY <1>1, <1>2, <1>3, <1>4, <1>5, <1>6, <1>7 DEF Next

LEMMA InvHolds == Spec => []IInv
  BY InvInit, InvNext, PTL DEF Spec

-----------------------------------------------------------------------------
\* Every variable of the parser keeps its type: in particular no step reads past
\* the text or leaves the positions of the scan out of order.
THEOREM ParserTypeCorrect == Spec => []TypeOK
<1>1. IInv => TypeOK
  BY DEF IInv
<1> QED
  BY <1>1, InvHolds, PTL

\* The parser carries no more than one client command from one chunk to the
\* next, and gathers no more than maxStatementBytes, whatever it is fed.
THEOREM ParserMemoryIsBounded == Spec => []MemoryBounded
<1>1. IInv => MemoryBounded
  BY DEF IInv
<1> QED
  BY <1>1, InvHolds, PTL

-----------------------------------------------------------------------------
(* Runs and slices. *)

LEMMA RunsToOne ==
  ASSUME NEW s, NEW start \in Nat, NEW limit \in Nat, NEW S,
         NEW e, RunsTo(s, start, limit, S, e), NEW f, RunsTo(s, start, limit, S, f)
  PROVE  e = f
<1>1. e \in Nat /\ f \in Nat /\ e <= limit /\ f <= limit /\ start <= e /\ start <= f
  BY DEF RunsTo
<1>2. ~(e < f)
  <2> SUFFICES ASSUME e < f PROVE FALSE
    OBVIOUS
  <2>1. e \in start..(f - 1) /\ e # limit
    BY <1>1
  <2> QED
    BY <2>1 DEF RunsTo
<1>3. ~(f < e)
  <2> SUFFICES ASSUME f < e PROVE FALSE
    OBVIOUS
  <2>1. f \in start..(e - 1) /\ f # limit
    BY <1>1
  <2> QED
    BY <2>1 DEF RunsTo
<1> QED
  BY <1>1, <1>2, <1>3

\* The run that a limit cuts is the run, or ends at the limit.
LEMMA RunEndCut ==
  ASSUME NEW s, NEW start \in Nat, NEW cut \in Nat, NEW limit \in Nat, NEW S,
         start <= cut, cut <= limit
  PROVE  /\ RunEnd(s, start, limit, S) <= cut =>
              RunEnd(s, start, cut, S) = RunEnd(s, start, limit, S)
         /\ cut <= RunEnd(s, start, limit, S) => RunEnd(s, start, cut, S) = cut
<1> DEFINE e == RunEnd(s, start, limit, S)
<1>1. RunsTo(s, start, limit, S, e)
  BY RunEndRuns
<1>2. RunsTo(s, start, cut, S, RunEnd(s, start, cut, S))
  BY RunEndRuns
<1> HIDE DEF e
<1>3. ASSUME e <= cut PROVE RunsTo(s, start, cut, S, e)
  BY <1>1, <1>3 DEF RunsTo
<1>4. ASSUME cut <= e PROVE RunsTo(s, start, cut, S, cut)
  BY <1>1, <1>4 DEF RunsTo
<1>5. e <= cut => RunEnd(s, start, cut, S) = e
  BY <1>2, <1>3, RunsToOne
<1>6. cut <= e => RunEnd(s, start, cut, S) = cut
  BY <1>2, <1>4, RunsToOne
<1> QED
  BY <1>5, <1>6 DEF e

\* The text from a position on starts with a token when the token stands there.
StandsAt(s, i, n, token) ==
  i + Len(token) - 1 <= n /\ \A k \in 1..Len(token) : s[i + k - 1] = token[k]

LEMMA TokenStands ==
  ASSUME NEW s \in Seq(Symbols), NEW i \in Nat, i >= 1, NEW n \in Nat, n <= Len(s), i <= n + 1,
         NEW token \in Seq(Symbols)
  PROVE  StartsWith(SubSeq(s, i, n), token) <=> StandsAt(s, i, n, token)
<1> DEFINE r == SubSeq(s, i, n)
<1>0. Len(s) \in Nat /\ Len(token) \in Nat
  BY LenProperties
<1>1. \A k \in i..n : s[k] \in Symbols
  BY <1>0, ElementOfSeq
<1>2. /\ r \in Seq(Symbols) /\ Len(r) = n - i + 1
      /\ \A k \in 1..(n - i + 1) : r[k] = s[i + k - 1]
  BY <1>1, SubSeqProperties
<1> HIDE DEF r
<1>3. Len(token) <= Len(r) <=> i + Len(token) - 1 <= n
  BY <1>0, <1>2
<1>4. ASSUME Len(token) <= Len(r)
      PROVE  SubSeq(r, 1, Len(token)) = token <=> \A k \in 1..Len(token) : s[i + k - 1] = token[k]
  <2> DEFINE p == SubSeq(r, 1, Len(token))
  <2>1. \A k \in 1..Len(token) : r[k] \in Symbols /\ r[k] = s[i + k - 1]
    BY <1>0, <1>2, <1>4, ElementOfSeq
  <2>2. /\ p \in Seq(Symbols) /\ Len(p) = Len(token)
        /\ \A k \in 1..Len(token) : p[k] = s[i + k - 1]
    <3>1. /\ p \in Seq(Symbols) /\ Len(p) = IF 1 <= Len(token) THEN Len(token) - 1 + 1 ELSE 0
          /\ \A k \in 1..(Len(token) - 1 + 1) : p[k] = r[1 + k - 1]
      BY <1>0, <2>1, SubSeqProperties
    <3>2. Len(p) = Len(token)
      BY <1>0, <3>1
    <3>3. ASSUME NEW k \in 1..Len(token) PROVE p[k] = s[i + k - 1]
      <4>1. k \in 1..(Len(token) - 1 + 1) /\ 1 + k - 1 = k
        BY <1>0
      <4> QED
        BY <2>1, <3>1, <4>1
    <3> QED
      BY <3>1, <3>2, <3>3
  <2> HIDE DEF p
  <2>3. (\A k \in 1..Len(token) : s[i + k - 1] = token[k]) => p = token
    <3> SUFFICES ASSUME \A k \in 1..Len(token) : s[i + k - 1] = token[k] PROVE p = token
      OBVIOUS
    <3>1. \A k \in 1..Len(p) : p[k] = token[k]
      BY <2>2
    <3> QED
      BY <2>2, <3>1, SeqEqual
  <2>4. p = token => \A k \in 1..Len(token) : s[i + k - 1] = token[k]
    BY <2>2
  <2> QED
    BY <2>3, <2>4 DEF p
<1> QED
  BY <1>3, <1>4 DEF StartsWith, StandsAt, r

-----------------------------------------------------------------------------
(* The two modules use the same words. *)

LEMMA SameSymbols ==
  /\ Whole!Whitespace = Whitespace /\ Whole!Spaces = Spaces /\ Whole!Quotes = Quotes
  /\ Whole!Trimmed = Trimmed
  /\ Whole!Letters = Letters /\ Whole!Symbols \ Whole!Whitespace = NonSpace
  /\ Whole!delimiterCommand = delimiterCommand /\ Whole!unsupportedCommand = unsupportedCommand
  /\ Whole!sandboxPrefix = sandboxPrefix
  BY DEF Whole!Whitespace, Whitespace, Whole!Spaces, Spaces, Whole!Quotes, Quotes,
    Whole!Letters, Letters, Whole!Symbols, Symbols, NonSpace,
    Whole!Trimmed, Trimmed, Whole!Nbsp, Nbsp,
    Whole!delimiterCommand, delimiterCommand, Whole!unsupportedCommand, unsupportedCommand,
    Whole!sandboxPrefix, sandboxPrefix,
    Whole!NoEscapesMode, NoEscapesMode, Whole!OtherMode, OtherMode

LEMMA SameText ==
  /\ \A s, t : Whole!StartsWith(s, t) = StartsWith(s, t)
  /\ \A s : Whole!Trim(s) = Trim(s)
  /\ \A s : Whole!stripQuotes(s) = stripQuotes(s)
  /\ \A s : Whole!IsDelimiter(s) = IsDelimiter(s)
  /\ \A s, i, n, S : Whole!RunEnd(s, i, n, S) = RunEnd(s, i, n, S)
<1>1. \A s, t : Whole!StartsWith(s, t) = StartsWith(s, t)
  BY DEF Whole!StartsWith, StartsWith
<1>2. \A s : Whole!Trim(s) = Trim(s)
  BY SameSymbols DEF Whole!Trim, Trim
<1>3. \A s : Whole!stripQuotes(s) = stripQuotes(s)
  BY SameSymbols DEF Whole!stripQuotes, stripQuotes
<1>4. \A s : Whole!IsDelimiter(s) = IsDelimiter(s)
  BY <1>3 DEF Whole!IsDelimiter, IsDelimiter
<1>5. \A s, i, n, S : Whole!RunEnd(s, i, n, S) = RunEnd(s, i, n, S)
  BY DEF Whole!RunEnd, RunEnd
<1> QED
  BY <1>1, <1>2, <1>3, <1>4, <1>5

\* The run from a position to the end of the script.
RunFrom(i, S) == RunEnd(script, i, Len(script) + 1, S)
SymbolAt(i) == IF i <= Len(script) THEN script[i] ELSE "end"
rest == SubSeq(script, index, Len(script))

LEMMA SameScan ==
  /\ Whole!script = script /\ Whole!ch = ch /\ Whole!wordStart = wordStart
  /\ Whole!wordEnd = RunFrom(wordStart, Letters)
  /\ Whole!argumentStart = RunFrom(RunFrom(wordStart, Letters), Spaces)
  /\ Whole!LineStartAfter = LineStartAfter
  /\ \A i : Whole!SymbolAt(i) = SymbolAt(i)
  /\ \A t : Whole!OpensWith(t) = StartsWith(rest, t)
<1>1. Whole!script = script /\ Whole!ch = ch /\ Whole!wordStart = wordStart
  BY DEF Whole!script, script, Whole!ch, ch, Whole!wordStart, wordStart
<1>2. \A i, S : Whole!RunFrom(i, S) = RunFrom(i, S)
  BY <1>1, SameText DEF Whole!RunFrom, RunFrom
<1>3. Whole!wordEnd = RunFrom(wordStart, Letters)
  BY <1>1, <1>2, SameSymbols DEF Whole!wordEnd
<1>4. Whole!argumentStart = RunFrom(RunFrom(wordStart, Letters), Spaces)
  BY <1>2, <1>3, SameSymbols DEF Whole!argumentStart
<1>5. Whole!LineStartAfter = LineStartAfter
  BY <1>1, SameSymbols DEF Whole!LineStartAfter, LineStartAfter
<1>6. \A i : Whole!SymbolAt(i) = SymbolAt(i)
  BY <1>1 DEF Whole!SymbolAt, SymbolAt
<1>7. \A t : Whole!OpensWith(t) = StartsWith(rest, t)
  BY <1>1, SameText DEF Whole!OpensWith, rest
<1> QED
  BY <1>1, <1>3, <1>4, <1>5, <1>6, <1>7

-----------------------------------------------------------------------------
(* What the turns of the scan rely on. *)

\* Only blanks stand between a position and the start of its line.
AtLineStart(s, i) ==
  \A k \in 1..(i - 1) : s[k] \in Whitespace \/ \E m \in (k + 1)..(i - 1) : s[m] = "\n"

Between ==
  /\ input \in Inputs
  /\ pc = "finish" => fed = Len(script)
  /\ pc # "done" => outcome = "none"
Dropping == { "skipToEndOfLine", "discardBlockComment" }
DropsAtOnce == state \in Dropping => appendFrom = index
LineStartKnown == atLineStart => AtLineStart(script, index)

ScanInv == IInv /\ Between /\ DropsAtOnce /\ LineStartKnown

LEMMA BlankKeepsLineStart ==
  ASSUME NEW s, NEW i \in Nat, i >= 1, s[i] \in Whitespace, s[i] = "\n" \/ AtLineStart(s, i)
  PROVE  AtLineStart(s, i + 1)
<1>1. i + 1 - 1 = i
  OBVIOUS
<1>2. ASSUME NEW k \in 1..i PROVE s[k] \in Whitespace \/ \E m \in (k + 1)..i : s[m] = "\n"
  <2>1. CASE k = i
    BY <2>1
  <2>2. CASE k # i /\ s[i] = "\n"
    <3>1. i \in (k + 1)..i
      BY <2>2
    <3> QED
      BY <2>2, <3>1
  <2>3. CASE k # i /\ AtLineStart(s, i)
    <3>1. k \in 1..(i - 1)
      BY <2>3
    <3>2. s[k] \in Whitespace \/ \E m \in (k + 1)..(i - 1) : s[m] = "\n"
      BY <2>3, <3>1 DEF AtLineStart
    <3>3. (k + 1)..(i - 1) \subseteq (k + 1)..i
      BY <3>1
    <3> QED
      BY <3>2, <3>3
  <2> QED
    BY <2>1, <2>2, <2>3
<1> QED
  BY <1>1, <1>2 DEF AtLineStart

LEMMA LineStartMoves ==
  ASSUME TypeOK, LineStartKnown, index <= fed, script' = script, atLineStart' = LineStartAfter,
         index' = index + 1 \/ (index' = index + 2 /\ ch \notin Whitespace)
  PROVE  LineStartKnown'
<1>1. CASE ch \notin Whitespace
  BY <1>1 DEF LineStartAfter, LineStartKnown, Whitespace
<1>2. CASE ch \in Whitespace
  <2>1. index' = index + 1 /\ index \in Nat /\ index >= 1
    BY <1>2, Bounds
  <2>2. atLineStart' => ch = "\n" \/ AtLineStart(script, index)
    BY DEF LineStartAfter, LineStartKnown
  <2>3. atLineStart' => AtLineStart(script, index + 1)
    BY <1>2, <2>1, <2>2, BlankKeepsLineStart DEF ch
  <2> QED
    BY <2>1, <2>3 DEF LineStartKnown
<1> QED
  BY <1>1, <1>2

LEMMA ConsumeKeepsScan ==
  ASSUME ScanInv, index <= fed, NEW n \in 1..2, NEW q, NEW b, Consume(n, q, b),
         q \notin Dropping, n = 1 \/ ch \notin Whitespace
  PROVE  (Between /\ DropsAtOnce /\ LineStartKnown)'
<1>1. Between'
  BY DEF ScanInv, Between, Consume, script
<1>2. DropsAtOnce'
  BY DEF DropsAtOnce, Consume
<1>3. script' = script /\ atLineStart' = LineStartAfter
      /\ (index' = index + 1 \/ (index' = index + 2 /\ ch \notin Whitespace))
  BY DEF Consume, script
<1>4. LineStartKnown'
  BY <1>3, LineStartMoves DEF ScanInv, IInv
<1> QED
  BY <1>1, <1>2, <1>4

LEMMA DropKeepsScan ==
  ASSUME ScanInv, index <= fed, NEW n \in 1..2, NEW q, Drop(n, q),
         n = 1 \/ ch \notin Whitespace
  PROVE  (Between /\ DropsAtOnce /\ LineStartKnown)'
<1>1. Between'
  BY DEF ScanInv, Between, Drop, script
<1>2. DropsAtOnce'
  BY DEF DropsAtOnce, Drop
<1>3. script' = script /\ atLineStart' = LineStartAfter
      /\ (index' = index + 1 \/ (index' = index + 2 /\ ch \notin Whitespace))
  BY DEF Drop, script
<1>4. LineStartKnown'
  BY <1>3, LineStartMoves DEF ScanInv, IInv
<1> QED
  BY <1>1, <1>2, <1>4

LEMMA ThrowKeepsScan ==
  ASSUME ScanInv, NEW error, Throw(error)
  PROVE  (Between /\ DropsAtOnce /\ LineStartKnown)'
<1>1. Between'
  BY DEF ScanInv, Between, Throw
<1>2. DropsAtOnce'
  BY DEF ScanInv, DropsAtOnce, Throw, lexer
<1>3. LineStartKnown'
  BY DEF ScanInv, LineStartKnown, Throw, lexer, script
<1> QED
  BY <1>1, <1>2, <1>3

LEMMA OtherStepsKeepScan ==
  ASSUME ScanInv, Push \/ Finish \/ Cancel \/ Terminated \/ HoldBack \/ EndOfChunk \/ EndOfScript
  PROVE  (Between /\ DropsAtOnce /\ LineStartKnown)'
<1>1. CASE Push \/ Finish \/ Cancel \/ Terminated
  <2>1. UNCHANGED << input, index, appendFrom, state, atLineStart >>
    BY <1>1 DEF Push, Finish, Cancel, Terminated, vars, lexer
  <2>2. Between'
    BY <1>1 DEF ScanInv, Between, Push, Finish, Cancel, Terminated, vars, script
  <2> QED
    BY <2>1, <2>2 DEF ScanInv, DropsAtOnce, LineStartKnown, script
<1>2. CASE HoldBack \/ EndOfChunk
  <2>1. CASE Throw("tooLarge")
    BY <2>1, ThrowKeepsScan
  <2>2. CASE /\ appendFrom' = index /\ pc' = "idle" /\ outcome' = "none"
             /\ UNCHANGED << input, index, state, atLineStart >>
    BY <2>2 DEF ScanInv, Between, DropsAtOnce, LineStartKnown, script
  <2> QED
    BY <1>2, <2>1, <2>2 DEF HoldBack, EndOfChunk, AppendUpTo, Return, RollBackLineStart, lexer
<1>3. CASE EndOfScript
  <2>1. CASE Throw("tooLarge") \/ Throw("malformed")
    BY <2>1, ThrowKeepsScan
  <2>2. CASE /\ appendFrom' = index /\ pc' = "done"
             /\ UNCHANGED << input, index, state, atLineStart >>
    BY <2>2 DEF ScanInv, Between, DropsAtOnce, LineStartKnown, script
  <2> QED
    BY <1>3, <2>1, <2>2 DEF EndOfScript, AppendUpTo
<1> QED
  BY <1>1, <1>2, <1>3

LEMMA CommandsKeepScan ==
  ASSUME ScanInv, ReadDelimiter \/ RefuseCommand \/ EndStatement
  PROVE  (Between /\ DropsAtOnce /\ LineStartKnown)'
<1>1. CASE Throw("tooLarge") \/ Throw("invalidDelimiter") \/ Throw("unsupported")
  BY <1>1, ThrowKeepsScan
<1>2. CASE /\ atLineStart' = FALSE /\ index' = appendFrom'
           /\ UNCHANGED << input, pc, fed, outcome >>
  BY <1>2 DEF ScanInv, Between, DropsAtOnce, LineStartKnown, script
<1> QED
  BY <1>1, <1>2 DEF ReadDelimiter, RefuseCommand, EndStatement, AppendUpTo

LEMMA TurnsKeepScan ==
  ASSUME ScanInv, OpenQuote \/ OpenLineComment \/ LastDash \/ OpenBlockComment
                  \/ OpenExecutable \/ OpenSandbox \/ TakeSymbol
                  \/ Quoted \/ InLineComment \/ SkipLine \/ InBlockComment \/ InDiscardedComment
  PROVE  (Between /\ DropsAtOnce /\ LineStartKnown)'
<1>a. index <= fed /\ TypeOK
  BY DEF ScanInv, IInv, OpenQuote, OpenLineComment, LastDash, OpenBlockComment, OpenExecutable,
    OpenSandbox, TakeSymbol, Plain, Quoted, InLineComment, SkipLine, InBlockComment,
    InDiscardedComment, Scanning
<1>b. 1 \in 1..2 /\ 2 \in 1..2
  OBVIOUS
<1>c. /\ \A q \in Quotes : q \notin Dropping /\ q \notin Whitespace
      /\ "normal" \notin Dropping /\ "lineComment" \notin Dropping /\ "blockComment" \notin Dropping
      /\ "-" \notin Whitespace /\ "/" \notin Whitespace /\ "\\" \notin Whitespace
      /\ "*" \notin Whitespace
  BY DEF Quotes, Dropping, Whitespace, Spaces
<1>1. CASE OpenQuote
  BY <1>1, <1>a, <1>b, <1>c, ConsumeKeepsScan DEF OpenQuote
<1>2. CASE OpenLineComment
  BY <1>2, <1>a, <1>b, <1>c, ConsumeKeepsScan DEF OpenLineComment, IsLineComment
<1>3. CASE LastDash
  BY <1>3, <1>a, <1>b, <1>c, ConsumeKeepsScan DEF LastDash
<1>4. CASE OpenBlockComment
  BY <1>4, <1>a, <1>b, <1>c, ConsumeKeepsScan DEF OpenBlockComment, IsBlock
<1>5. CASE OpenExecutable
  BY <1>5, <1>a, <1>b, <1>c, ConsumeKeepsScan DEF OpenExecutable, IsBlock
<1>6. CASE OpenSandbox
  <2>1. CASE Throw("tooLarge")
    BY <2>1, ThrowKeepsScan
  <2>2. CASE Drop(2, "discardBlockComment")
    <3>1. ch = "/"
      <4>1. Len(sandboxPrefix) = 5 /\ sandboxPrefix[1] = "/" /\ sandboxPrefix \in Seq(Symbols)
        BY DEF sandboxPrefix, Symbols, Letters
      <4>2. StandsAt(script, index, fed, sandboxPrefix)
        BY <1>6, <1>a, <4>1, Bounds, TokenStands DEF OpenSandbox, IsSandbox, remaining
      <4>3. index \in Nat /\ index + 1 - 1 = index /\ 1 \in 1..5
        BY <1>a, Bounds
      <4> QED
        BY <4>1, <4>2, <4>3 DEF StandsAt, ch
    <3> QED
      BY <2>2, <3>1, <1>a, <1>b, <1>c, DropKeepsScan
  <2> QED
    BY <1>6, <2>1, <2>2 DEF OpenSandbox, AppendUpTo
<1>7. CASE TakeSymbol
  BY <1>7, <1>a, <1>b, <1>c, ConsumeKeepsScan DEF TakeSymbol
<1>8. CASE Quoted
  <2>1. state \notin Dropping
    BY <1>8, <1>c DEF Quoted
  <2>2. CASE IsEscape /\ Escape
    <3>1. ch \notin Whitespace
      BY <1>c, <2>2 DEF IsEscape
    <3>2. (IF index < fed THEN 2 ELSE 1) \in 1..2
      OBVIOUS
    <3> QED
      BY <2>1, <2>2, <3>1, <3>2, <1>a, ConsumeKeepsScan DEF Escape
  <2>3. CASE IsDoubled /\ Consume(2, state, FALSE)
    BY <1>8, <1>a, <1>b, <1>c, <2>1, <2>3, ConsumeKeepsScan DEF IsDoubled, Quoted
  <2>4. CASE Consume(1, "normal", FALSE) \/ Consume(1, state, FALSE)
    BY <1>a, <1>b, <1>c, <2>1, <2>4, ConsumeKeepsScan
  <2> QED
    BY <1>8, <2>2, <2>3, <2>4 DEF Quoted
<1>9. CASE InLineComment
  <2>1. (IF ch = "\n" THEN "normal" ELSE state) \notin Dropping
    BY <1>9, <1>c DEF InLineComment
  <2> QED
    BY <1>9, <2>1, <1>a, <1>b, ConsumeKeepsScan DEF InLineComment
<1>10. CASE SkipLine
  BY <1>10, <1>a, <1>b, DropKeepsScan DEF SkipLine
<1>11. CASE InBlockComment
  BY <1>11, <1>a, <1>b, <1>c, ConsumeKeepsScan DEF InBlockComment, ClosesBlock
<1>12. CASE InDiscardedComment
  BY <1>12, <1>a, <1>b, <1>c, DropKeepsScan DEF InDiscardedComment, ClosesBlock
<1> QED
  BY <1>1, <1>2, <1>3, <1>4, <1>5, <1>6, <1>7, <1>8, <1>9, <1>10, <1>11, <1>12

LEMMA ScanInvInit == Init => ScanInv
<1> SUFFICES ASSUME Init PROVE ScanInv
  OBVIOUS
<1>1. index = 1 /\ AtLineStart(script, 1)
  <2>1. 1..(1 - 1) = {}
    OBVIOUS
  <2> QED
    BY <2>1 DEF Init, AtLineStart
<1>2. Between /\ DropsAtOnce /\ LineStartKnown
  BY <1>1 DEF Init, Between, DropsAtOnce, LineStartKnown
<1> QED
  BY <1>2, InvInit DEF ScanInv

LEMMA ScanInvNext == ScanInv /\ [Next]_vars => ScanInv'
<1> SUFFICES ASSUME ScanInv, [Next]_vars PROVE ScanInv'
  OBVIOUS
<1>1. IInv'
  BY InvNext DEF ScanInv
<1>2. CASE UNCHANGED vars
  <2>1. (Between /\ DropsAtOnce /\ LineStartKnown)'
    BY <1>2 DEF ScanInv, Between, DropsAtOnce, LineStartKnown, vars, lexer, script
  <2> QED
    BY <1>1, <2>1 DEF ScanInv
<1>3. CASE Next
  <2>1. (Between /\ DropsAtOnce /\ LineStartKnown)'
    BY <1>3, OtherStepsKeepScan, CommandsKeepScan, TurnsKeepScan DEF Next
  <2> QED
    BY <1>1, <2>1 DEF ScanInv
<1> QED
  BY <1>2, <1>3

LEMMA ScanInvHolds == Spec => []ScanInv
  BY ScanInvInit, ScanInvNext, PTL DEF Spec

-----------------------------------------------------------------------------
(* A word that is not held back is the word of the whole script. *)

LEMMA WholeWord ==
  ASSUME TypeOK, index <= fed
  PROVE  /\ RunFrom(wordStart, Letters) \in Nat
         /\ wordStart <= RunFrom(wordStart, Letters)
         /\ RunFrom(wordStart, Letters) <= Len(script) + 1
         /\ \/ wordEnd = RunFrom(wordStart, Letters)
            \/ wordEnd < RunFrom(wordStart, Letters) /\ wordEnd = fed + 1
            \/ wordEnd < RunFrom(wordStart, Letters) /\ wordEnd = wordStart + MaxCommandLength
<1>1. /\ wordStart \in Nat /\ wordStart <= fed + 1 /\ fed \in Nat /\ Len(script) \in Nat
      /\ fed <= Len(script) /\ MaxCommandLength \in Nat
  BY Word, Bounds
<1> DEFINE cut == Smaller(fed + 1, wordStart + MaxCommandLength)
           end == RunFrom(wordStart, Letters)
<1>2. /\ cut \in Nat /\ wordStart <= cut /\ cut <= Len(script) + 1
      /\ cut = fed + 1 \/ cut = wordStart + MaxCommandLength
  BY <1>1 DEF Smaller
<1>3. end \in wordStart..(Len(script) + 1)
  BY <1>1, RunEndBounds DEF RunFrom
<1>4. /\ end <= cut => wordEnd = end
      /\ cut <= end => wordEnd = cut
  BY <1>1, <1>2, RunEndCut DEF wordEnd, RunFrom
<1> HIDE DEF cut, end
<1>5. end \in Nat /\ wordStart <= end /\ end <= Len(script) + 1
  BY <1>1, <1>3
<1>6. \/ wordEnd = end
      \/ wordEnd < end /\ wordEnd = fed + 1
      \/ wordEnd < end /\ wordEnd = wordStart + MaxCommandLength
  BY <1>2, <1>4, <1>5
<1> QED
  BY <1>5, <1>6 DEF end

Commands == { delimiterCommand, unsupportedCommand }

LEMMA CommandWords ==
  ASSUME NEW name \in Commands
  PROVE  /\ name \in Seq(Symbols) /\ Len(name) \in Nat /\ Len(name) >= 1
         /\ Len(name) < MaxCommandLength /\ MaxCommandLength \in Nat
<1>1. /\ delimiterCommand \in Seq(Symbols) /\ Len(delimiterCommand) = 2
      /\ unsupportedCommand \in Seq(Symbols) /\ Len(unsupportedCommand) = 2
  BY DEF delimiterCommand, unsupportedCommand, Symbols, Letters
<1>2. /\ Len(delimiterCommand) < MaxCommandLength /\ Len(unsupportedCommand) < MaxCommandLength
      /\ MaxCommandLength \in Nat
  BY LengthsAssumption
<1>3. /\ Len(delimiterCommand) \in Nat /\ Len(delimiterCommand) >= 1
      /\ Len(unsupportedCommand) \in Nat /\ Len(unsupportedCommand) >= 1
  BY <1>1
<1>4. name = delimiterCommand \/ name = unsupportedCommand
  BY DEF Commands
<1> QED
  BY <1>1, <1>2, <1>3, <1>4, Zenon

LEMMA WordIsWhole ==
  ASSUME TypeOK, index <= fed, pc \in { "push", "finish" }, Between,
         wordEnd - wordStart < MaxCommandLength, ~Undecided(wordEnd)
  PROVE  wordEnd = RunFrom(wordStart, Letters) /\ Sym(wordEnd) = SymbolAt(wordEnd)
<1>1. /\ wordStart \in Nat /\ wordEnd \in Nat /\ fed \in Nat /\ Len(script) \in Nat
      /\ fed <= Len(script) /\ MaxCommandLength \in Nat
  BY Word, Bounds
<1>2. wordEnd <= fed \/ fed = Len(script)
  BY <1>1 DEF Undecided, Between
<1>3. wordEnd = RunFrom(wordStart, Letters)
  BY <1>1, <1>2, WholeWord
<1>4. Sym(wordEnd) = SymbolAt(wordEnd)
  BY <1>1, <1>2 DEF Sym, SymbolAt
<1> QED
  BY <1>3, <1>4

\* A command of the whole script.
WholeCommand(name) ==
  /\ state = "normal" /\ ~hasContent /\ atLineStart
  /\ SubSeq(script, wordStart, RunFrom(wordStart, Letters) - 1) = name
  /\ SymbolAt(RunFrom(wordStart, Letters)) \in Whitespace \cup { "end" }

LEMMA CommandIsWhole ==
  ASSUME ScanInv, PlainCommands, index <= fed, pc \in { "push", "finish" },
         ~(IsWord /\ Undecided(wordEnd)), NEW name \in Commands
  PROVE  IsCommand(name) <=> WholeCommand(name)
<1>a. TypeOK /\ Between
  BY DEF ScanInv, IInv
<1>1. ASSUME IsCommand(name) PROVE WholeCommand(name)
  <2>1. wordEnd - wordStart < MaxCommandLength /\ ~Undecided(wordEnd)
    BY <1>1 DEF IsCommand, IsWord
  <2>2. wordEnd = RunFrom(wordStart, Letters) /\ Sym(wordEnd) = SymbolAt(wordEnd)
    BY <1>a, <2>1, WordIsWhole
  <2> QED
    BY <1>1, <2>2 DEF IsCommand, IsWord, WholeCommand, word
<1>2. ASSUME WholeCommand(name) PROVE IsCommand(name)
  <2> DEFINE end == RunFrom(wordStart, Letters)
  <2>1. /\ wordStart \in Nat /\ wordStart >= 1 /\ wordEnd \in Nat /\ wordStart <= wordEnd
        /\ fed \in Nat /\ Len(script) \in Nat /\ script \in Seq(Symbols)
        /\ fed <= Len(script) /\ MaxCommandLength \in Nat
        /\ index \in Nat /\ index >= 1 /\ wordStart <= index + 1
    BY <1>a, Word, Bounds
  <2>2. /\ end \in Nat /\ wordStart <= end /\ end <= Len(script) + 1
        /\ \/ wordEnd = end
           \/ wordEnd < end /\ wordEnd = fed + 1
           \/ wordEnd < end /\ wordEnd = wordStart + MaxCommandLength
    BY <1>a, WholeWord
  <2>3. SubSeq(script, wordStart, end - 1) = name
    BY <1>2 DEF WholeCommand
  <2> HIDE DEF end
  <2>4. end - wordStart = Len(name)
    <3>1. Len(SubSeq(script, wordStart, end - 1)) =
             IF wordStart <= end - 1 THEN end - 1 - wordStart + 1 ELSE 0
      BY <2>1, <2>2, SlicesAreScripts
    <3>2. Len(name) \in Nat /\ Len(name) >= 1
      BY CommandWords
    <3> QED
      BY <2>1, <2>2, <2>3, <3>1, <3>2
  <2>5. /\ wordEnd - wordStart < MaxCommandLength
        /\ wordEnd = end \/ (wordEnd < end /\ wordEnd = fed + 1)
    BY <2>1, <2>2, <2>4, CommandWords
  <2>6. wordEnd # wordStart
    <3> SUFFICES ASSUME wordEnd = wordStart PROVE FALSE
      OBVIOUS
    <3>1. wordStart = index + 1
      BY <2>1, <2>2, <2>4, <2>5, CommandWords
    <3>2. ch = "\\"
      BY <2>1, <3>1 DEF wordStart
    <3>3. AtLineStart(script, index)
      BY <1>2 DEF WholeCommand, ScanInv, LineStartKnown
    <3>4. StartsWith(SubSeq(script, index + 1, Len(script)), name)
      <4>1. \A k \in (index + 1)..(end - 1) : script[k] \in Symbols
        BY <2>1, <2>2, ElementOfSeq
      <4>2. \A k \in 1..(end - 1 - (index + 1) + 1) : name[k] = script[index + 1 + k - 1]
        BY <2>1, <2>2, <2>3, <3>1, <4>1, SubSeqProperties
      <4>3. \A k \in 1..Len(name) : script[index + 1 + k - 1] = name[k]
        BY <2>1, <2>2, <2>4, <3>1, <4>2
      <4>4. index + 1 + Len(name) - 1 <= Len(script)
        BY <2>1, <2>2, <2>4, <3>1
      <4>5. index + 1 \in Nat /\ index + 1 >= 1 /\ index + 1 <= Len(script) + 1
        BY <2>1
      <4> QED
        BY <2>1, <4>3, <4>4, <4>5, TokenStands, CommandWords DEF StandsAt
    <3>5. BackslashCommand(script, index)
      BY <3>2, <3>3, <3>4 DEF BackslashCommand, AtLineStart, ch, Commands
    <3>6. input \in Inputs /\ index \in DOMAIN input.script
      BY <1>a, <2>1, LenProperties DEF Between, script
    <3> QED
      BY <3>5, <3>6 DEF PlainCommands, script
  <2>7. IsWord
    BY <1>2, <2>5, <2>6 DEF IsWord, WholeCommand
  <2>8. ~Undecided(wordEnd)
    BY <2>7
  <2>9. wordEnd = end /\ Sym(wordEnd) = SymbolAt(wordEnd)
    BY <1>a, <2>5, <2>8, WordIsWhole DEF end
  <2> QED
    BY <1>2, <2>7, <2>8, <2>9 DEF IsCommand, WholeCommand, word, end
<1> QED
  BY <1>1, <1>2

\* The argument of `delimiter': what is not held back is read as in the whole
\* script, or is refused in both.
wholeArgumentStart == RunFrom(wordEnd, Spaces)
wholeArgumentEnd   == RunFrom(wholeArgumentStart, NonSpace)
wholeArgument      == SubSeq(script, wholeArgumentStart, wholeArgumentEnd - 1)
WholeInstalls ==
  wholeArgumentStart - wordEnd <= MaxDelimiterLength /\ IsDelimiter(wholeArgument)

LEMMA WholeArgumentBounds ==
  ASSUME TypeOK, index <= fed
  PROVE  /\ wholeArgumentStart \in Nat /\ wordEnd <= wholeArgumentStart
         /\ wholeArgumentStart <= Len(script) + 1
         /\ wholeArgumentEnd \in Nat /\ wholeArgumentStart <= wholeArgumentEnd
         /\ wholeArgumentEnd <= Len(script) + 1
         /\ wholeArgument \in Seq(Symbols)
         /\ Len(wholeArgument) = wholeArgumentEnd - wholeArgumentStart
         /\ \/ argumentStart = wholeArgumentStart
            \/ argumentStart < wholeArgumentStart /\ argumentStart = fed + 1
            \/ argumentStart < wholeArgumentStart /\ argumentStart = wordEnd + MaxDelimiterLength
<1>1. /\ wordEnd \in Nat /\ wordEnd <= fed + 1 /\ fed \in Nat /\ Len(script) \in Nat
      /\ fed <= Len(script) /\ MaxDelimiterLength \in Nat /\ wordEnd >= 1
      /\ script \in Seq(Symbols)
  BY Word, Bounds
<1>2. /\ SpaceLimit \in Nat /\ wordEnd <= SpaceLimit /\ SpaceLimit <= Len(script) + 1
      /\ SpaceLimit = fed + 1 \/ SpaceLimit = wordEnd + MaxDelimiterLength
  BY <1>1 DEF SpaceLimit, Smaller
<1>3. wholeArgumentStart \in wordEnd..(Len(script) + 1)
  BY <1>1, RunEndBounds DEF wholeArgumentStart, RunFrom
<1>4. /\ wholeArgumentStart <= SpaceLimit => argumentStart = wholeArgumentStart
      /\ SpaceLimit <= wholeArgumentStart => argumentStart = SpaceLimit
  BY <1>1, <1>2, RunEndCut DEF argumentStart, wholeArgumentStart, RunFrom
<1>5. wholeArgumentStart \in Nat /\ wordEnd <= wholeArgumentStart
      /\ wholeArgumentStart <= Len(script) + 1
  BY <1>1, <1>3
<1>6. \/ argumentStart = wholeArgumentStart
      \/ argumentStart < wholeArgumentStart /\ argumentStart = fed + 1
      \/ argumentStart < wholeArgumentStart /\ argumentStart = wordEnd + MaxDelimiterLength
  BY <1>2, <1>4, <1>5
<1>7. wholeArgumentEnd \in wholeArgumentStart..(Len(script) + 1)
  BY <1>1, <1>5, RunEndBounds DEF wholeArgumentEnd, RunFrom
<1>8. wholeArgumentEnd \in Nat /\ wholeArgumentStart <= wholeArgumentEnd
      /\ wholeArgumentEnd <= Len(script) + 1
  BY <1>1, <1>5, <1>7
<1>9. wholeArgument \in Seq(Symbols) /\ Len(wholeArgument) = wholeArgumentEnd - wholeArgumentStart
  BY <1>1, <1>5, <1>8, SlicesAreScripts DEF wholeArgument
<1> QED
  BY <1>5, <1>6, <1>8, <1>9

LEMMA EmptyIsNoDelimiter == ~IsDelimiter(<< >>)
  BY DEF IsDelimiter, stripQuotes

LEMMA ArgumentIsWhole ==
  ASSUME TypeOK, index <= fed, pc \in { "push", "finish" }, Between,
         ~Undecided(argumentStart),
         ~(Undecided(argumentEnd) /\ Len(rawArgument) < MaxDelimiterLength)
  PROVE  /\ IsDelimiter(rawArgument) <=> WholeInstalls
         /\ IsDelimiter(rawArgument) =>
              argumentEnd = wholeArgumentEnd /\ rawArgument = wholeArgument
<1>1. /\ wordEnd \in Nat /\ fed \in Nat /\ Len(script) \in Nat /\ script \in Seq(Symbols)
      /\ fed <= Len(script) /\ MaxDelimiterLength \in Nat /\ MaxDelimiterLength >= 1
  BY Word, Bounds
<1>2. /\ argumentStart <= fed \/ fed = Len(script)
      /\ argumentEnd <= fed \/ fed = Len(script) \/ ~(Len(rawArgument) < MaxDelimiterLength)
  BY <1>1, ArgumentBounds DEF Undecided, Between
<1>3. \/ argumentStart = wholeArgumentStart
      \/ argumentStart < wholeArgumentStart /\ argumentStart = wordEnd + MaxDelimiterLength
  BY <1>1, <1>2, ArgumentBounds, WholeArgumentBounds
<1>4. CASE argumentStart = wholeArgumentStart
  <2> DEFINE cut == Smaller(fed + 1, argumentStart + MaxDelimiterLength)
  <2>1. /\ argumentStart \in Nat /\ argumentStart <= fed + 1
        /\ argumentStart <= wordEnd + MaxDelimiterLength
    BY ArgumentBounds
  <2>2. /\ cut \in Nat /\ argumentStart <= cut /\ cut <= Len(script) + 1
        /\ cut = fed + 1 \/ cut = argumentStart + MaxDelimiterLength
    BY <1>1, <2>1 DEF Smaller
  <2>3. /\ wholeArgumentEnd <= cut => argumentEnd = wholeArgumentEnd
        /\ cut <= wholeArgumentEnd => argumentEnd = cut
    BY <1>1, <1>4, <2>1, <2>2, RunEndCut DEF argumentEnd, wholeArgumentEnd, RunFrom
  <2> HIDE DEF cut
  <2>4. /\ wholeArgumentEnd \in Nat /\ wholeArgumentEnd <= Len(script) + 1
        /\ Len(rawArgument) = argumentEnd - argumentStart
        /\ Len(wholeArgument) = wholeArgumentEnd - argumentStart
    BY <1>4, ArgumentBounds, WholeArgumentBounds
  <2>5. \/ argumentEnd = wholeArgumentEnd
        \/ ~(Len(rawArgument) < MaxDelimiterLength) /\ ~(Len(wholeArgument) < MaxDelimiterLength)
    BY <1>1, <1>2, <2>1, <2>2, <2>3, <2>4
  <2>6. argumentEnd = wholeArgumentEnd => rawArgument = wholeArgument
    BY <1>4 DEF rawArgument, wholeArgument
  <2>7. wholeArgumentStart - wordEnd <= MaxDelimiterLength
    BY <1>1, <1>4, <2>1
  <2>8. CASE argumentEnd = wholeArgumentEnd
    BY <2>6, <2>7, <2>8 DEF WholeInstalls
  <2>9. CASE ~(Len(rawArgument) < MaxDelimiterLength) /\ ~(Len(wholeArgument) < MaxDelimiterLength)
    BY <2>9 DEF WholeInstalls, IsDelimiter
  <2> QED
    BY <2>5, <2>8, <2>9
<1>5. CASE argumentStart < wholeArgumentStart /\ argumentStart = wordEnd + MaxDelimiterLength
  <2>1. ~WholeInstalls
    BY <1>1, <1>5, ArgumentBounds, WholeArgumentBounds DEF WholeInstalls
  <2>2. script[argumentStart] \in Spaces
    <3>1. RunsTo(script, wordEnd, Len(script) + 1, Spaces, wholeArgumentStart)
      <4>1. wordEnd <= Len(script) + 1
        BY <1>1, WholeArgumentBounds
      <4> QED
        BY <1>1, <4>1, RunEndRuns DEF wholeArgumentStart, RunFrom
    <3>2. argumentStart \in wordEnd..(wholeArgumentStart - 1)
      BY <1>1, <1>5, ArgumentBounds, WholeArgumentBounds
    <3> QED
      BY <3>1, <3>2 DEF RunsTo
  <2>3. argumentEnd = argumentStart
    <3> DEFINE cut == Smaller(fed + 1, argumentStart + MaxDelimiterLength)
    <3>1. argumentStart \in Nat /\ argumentStart <= fed + 1
      BY ArgumentBounds
    <3>2. cut \in Nat /\ argumentStart <= cut
      BY <1>1, <3>1 DEF Smaller
    <3>3. RunsTo(script, argumentStart, cut, NonSpace, argumentEnd)
      BY <3>1, <3>2, RunEndRuns DEF argumentEnd
    <3>4. script[argumentStart] \notin NonSpace
      BY <2>2 DEF NonSpace, Whitespace
    <3> HIDE DEF cut
    <3> SUFFICES ASSUME argumentEnd # argumentStart PROVE FALSE
      OBVIOUS
    <3>5. argumentStart \in argumentStart..(argumentEnd - 1)
      BY <3>1, <3>2, ArgumentBounds
    <3> QED
      BY <3>3, <3>4, <3>5 DEF RunsTo
  <2>4. rawArgument = << >>
    <3>1. Len(rawArgument) = 0 /\ rawArgument \in Seq(Symbols)
      BY <2>3, ArgumentBounds
    <3> QED
      BY <3>1, EmptySeq
  <2> QED
    BY <2>1, <2>4, EmptyIsNoDelimiter
<1> QED
  BY <1>3, <1>4, <1>5

-----------------------------------------------------------------------------
(* What the scan reads at its index is what stands there in the whole script. *)

LEMMA NormalTurn ==
  ASSUME ScanInv, Scanning, state = "normal"
  PROVE  /\ ~CommandIncomplete
         /\ pc = "finish" => fed = Len(script)
         /\ pc = "push" /\ ~IsClientCommand /\ ~MatchesDelimiter =>
              ~CouldStartDelimiter /\ ~CouldStartComment
<1>1. pc = "push" \/ (pc = "finish" /\ fed = Len(script))
  BY DEF Scanning, ScanInv, Between
<1>2. pc = "finish" => ~CommandIncomplete
  BY DEF CommandIncomplete, Undecided
<1> DEFINE waits ==
      \/ CommandIncomplete
      \/ ~IsClientCommand /\ ~MatchesDelimiter /\ (CouldStartDelimiter \/ CouldStartComment)
<1>0. pc = "push" /\ waits => MustWait
  <2> HIDE DEF waits
  <2>1. "normal" \notin Quotes
    BY DEF Quotes
  <2> QED
    BY <2>1 DEF MustWait, waits
<1>5. pc = "push" => ~waits
  BY <1>0 DEF Scanning
<1>3. pc = "push" => ~CommandIncomplete
  BY <1>5
<1>4. pc = "push" /\ ~IsClientCommand /\ ~MatchesDelimiter =>
        ~CouldStartDelimiter /\ ~CouldStartComment
  BY <1>5
<1> QED
  BY <1>1, <1>2, <1>3, <1>4

LEMMA DelimiterIsWhole ==
  ASSUME ScanInv, Scanning, state = "normal", ~IsClientCommand
  PROVE  MatchesDelimiter <=> StartsWith(rest, delimiter)
<1>a. /\ TypeOK /\ index <= fed /\ pc \in { "push", "finish" }
  BY DEF ScanInv, IInv, Scanning
<1>b. /\ index \in Nat /\ index >= 1 /\ fed \in Nat
      /\ Len(script) \in Nat /\ script \in Seq(Symbols)
      /\ fed <= Len(script) /\ delimiter \in Seq(Symbols) /\ Len(delimiter) \in Nat
  BY <1>a, Bounds
<1>1. MatchesDelimiter <=> StandsAt(script, index, fed, delimiter)
  BY <1>a, <1>b, TokenStands DEF MatchesDelimiter, remaining
<1>2. StartsWith(rest, delimiter) <=> StandsAt(script, index, Len(script), delimiter)
  BY <1>a, <1>b, TokenStands DEF rest
<1>3. StandsAt(script, index, fed, delimiter) => StandsAt(script, index, Len(script), delimiter)
  BY <1>b DEF StandsAt
<1>4. ASSUME StandsAt(script, index, Len(script), delimiter), ~MatchesDelimiter PROVE FALSE
  <2>1. fed < index + Len(delimiter) - 1 /\ pc = "push"
    BY <1>a, <1>b, <1>1, <1>4, NormalTurn DEF StandsAt
  <2>2. /\ remaining \in Seq(Symbols) /\ Len(remaining) = fed - index + 1
    BY <1>a, Remaining
  <2>3. \A k \in 1..Len(remaining) : remaining[k] = delimiter[1 + k - 1]
    <3>1. \A k \in index..fed : script[k] \in Symbols
      BY <1>b, ElementOfSeq
    <3>2. \A k \in 1..(fed - index + 1) : remaining[k] = script[index + k - 1]
      BY <1>b, <3>1, SubSeqProperties DEF remaining
    <3> SUFFICES ASSUME NEW k \in 1..Len(remaining) PROVE remaining[k] = delimiter[1 + k - 1]
      OBVIOUS
    <3>3. k \in 1..(fed - index + 1) /\ k \in 1..Len(delimiter) /\ 1 + k - 1 = k
      BY <1>b, <2>1, <2>2
    <3> QED
      BY <1>4, <3>2, <3>3 DEF StandsAt
  <2>4. StandsAt(delimiter, 1, Len(delimiter), remaining)
    BY <1>b, <2>1, <2>2, <2>3 DEF StandsAt
  <2>5. StartsWith(SubSeq(delimiter, 1, Len(delimiter)), remaining)
    BY <1>b, <2>2, <2>4, TokenStands
  <2>6. CouldStartDelimiter
    <3>1. SubSeq(delimiter, 1, Len(delimiter)) = delimiter
      BY <1>b, SubSeqFull
    <3>2. Len(remaining) < Len(delimiter)
      BY <1>b, <2>1, <2>2
    <3> QED
      BY <2>5, <3>1, <3>2 DEF CouldStartDelimiter
  <2> QED
    BY <1>4, <2>1, <2>6, NormalTurn
<1> QED
  BY <1>1, <1>2, <1>3, <1>4

\* The first n symbols of a comment stand at the index.
Stands(n, token) == index + n - 1 <= Len(script) /\ \A k \in 1..n : script[index + k - 1] = token[k]

LEMMA TokenIsAhead ==
  ASSUME TypeOK, index <= fed, NEW token \in Seq(Symbols)
  PROVE  StartsWith(rest, token) <=> Stands(Len(token), token)
<1>1. /\ index \in Nat /\ index >= 1 /\ Len(script) \in Nat /\ script \in Seq(Symbols)
      /\ index <= Len(script) + 1
  BY Bounds
<1>2. StartsWith(rest, token) <=> StandsAt(script, index, Len(script), token)
  BY <1>1, TokenStands DEF rest
<1> QED
  BY <1>2 DEF Stands, StandsAt

LEMMA RemainingSymbols ==
  ASSUME TypeOK, index <= fed
  PROVE  \A k \in 1..(fed - index + 1) : remaining[k] = script[index + k - 1]
<1>1. \A k \in index..fed : script[k] \in Symbols
  BY Bounds, ElementOfSeq
<1> QED
  BY <1>1, Bounds, SubSeqProperties DEF remaining

LEMMA SandboxSymbols ==
  /\ sandboxPrefix \in Seq(Symbols) /\ Len(sandboxPrefix) = 5
  /\ sandboxPrefix[1] = "/" /\ sandboxPrefix[2] = "*" /\ sandboxPrefix[3] = "M"
  /\ sandboxPrefix[4] = "!" /\ sandboxPrefix[5] = "9"
  BY DEF sandboxPrefix, Symbols, Letters

\* A comment is held back until the symbol behind what is there of its opening is
\* there as well.
LEMMA OpeningIsSeen ==
  ASSUME ScanInv, Plain, NEW n \in 1..5, Stands(n, sandboxPrefix)
  PROVE  index + n - 1 <= fed /\ Sym(index + n) = SymbolAt(index + n)
<1>a. /\ TypeOK /\ index <= fed /\ pc \in { "push", "finish" }
      /\ Scanning /\ state = "normal" /\ ~IsClientCommand /\ ~MatchesDelimiter
  BY DEF ScanInv, IInv, Plain, Scanning
<1>b. /\ index \in Nat /\ index >= 1 /\ fed \in Nat /\ Len(script) \in Nat /\ fed <= Len(script)
  BY <1>a, Bounds
<1>1. CASE pc = "finish"
  <2>1. fed = Len(script)
    BY <1>1, <1>a, NormalTurn
  <2> QED
    BY <1>b, <2>1 DEF Stands, Sym, SymbolAt
<1>2. CASE pc = "push"
  <2>1. ASSUME fed < index + n PROVE FALSE
    <3>1. remaining \in Seq(Symbols) /\ Len(remaining) = fed - index + 1
          /\ \A k \in 1..(fed - index + 1) : remaining[k] = script[index + k - 1]
      BY <1>a, Remaining, RemainingSymbols
    <3>2. Len(remaining) <= n /\ Len(remaining) >= 1
      BY <1>a, <1>b, <2>1, <3>1
    <3>3. ASSUME NEW k \in 1..Len(remaining) PROVE sandboxPrefix[1 + k - 1] = remaining[k]
      <4>1. k \in 1..n /\ k \in 1..(fed - index + 1) /\ 1 + k - 1 = k
        BY <1>b, <3>1, <3>2
      <4> QED
        BY <3>1, <4>1 DEF Stands
    <3>4. StandsAt(sandboxPrefix, 1, 5, remaining)
      <4>1. 1 + Len(remaining) - 1 <= 5
        BY <1>b, <3>1, <3>2
      <4> QED
        BY <3>3, <4>1 DEF StandsAt
    <3>5. StartsWith(SubSeq(sandboxPrefix, 1, 5), remaining)
      <4>1. 1 \in Nat /\ 1 >= 1 /\ 5 \in Nat /\ 5 <= Len(sandboxPrefix) /\ 1 <= 5 + 1
        BY SandboxSymbols
      <4> QED
        BY <3>1, <3>4, <4>1, SandboxSymbols, TokenStands
    <3>6. SubSeq(sandboxPrefix, 1, 5) = sandboxPrefix
      BY SandboxSymbols, SubSeqFull
    <3>7. ch = "/"
      <4>1. 1 \in 1..n /\ index + 1 - 1 = index
        BY <1>b
      <4>2. script[index + 1 - 1] = sandboxPrefix[1]
        BY <4>1 DEF Stands
      <4> QED
        BY <4>1, <4>2, SandboxSymbols DEF ch
    <3>8. CouldStartComment
      BY <3>5, <3>6, <3>7 DEF CouldStartComment
    <3> QED
      BY <1>2, <1>a, <3>8, NormalTurn
  <2>2. index + n <= fed
    BY <1>b, <2>1
  <2> QED
    BY <1>b, <2>2 DEF Sym, SymbolAt
<1> QED
  BY <1>1, <1>2, <1>a

LEMMA TwoAhead ==
  ASSUME TypeOK, index <= fed, NEW a \in Symbols, NEW b \in Symbols
  PROVE  StartsWith(rest, << a, b >>) <=> ch = a /\ SymbolAt(index + 1) = b
<1>1. << a, b >> \in Seq(Symbols) /\ Len(<< a, b >>) = 2
  OBVIOUS
<1>2. StartsWith(rest, << a, b >>) <=> Stands(2, << a, b >>)
  BY <1>1, TokenIsAhead
<1>3. index \in Nat /\ Len(script) \in Nat /\ fed \in Nat /\ fed <= Len(script)
  BY Bounds
<1>4. /\ 1 \in 1..2 /\ 2 \in 1..2 /\ index + 1 - 1 = index /\ index + 2 - 1 = index + 1
      /\ << a, b >>[1] = a /\ << a, b >>[2] = b
      /\ \A k \in 1..2 : k = 1 \/ k = 2
  BY <1>3
<1>5. b # "end"
  BY DEF Symbols, Quotes, Trimmed, Nbsp, Whitespace, Spaces, Letters, NoEscapesMode, OtherMode
<1>6. Stands(2, << a, b >>) <=>
        index + 1 <= Len(script) /\ script[index] = a /\ script[index + 1] = b
  BY <1>4 DEF Stands
<1>7. SymbolAt(index + 1) = b <=> index + 1 <= Len(script) /\ script[index + 1] = b
  BY <1>5 DEF SymbolAt
<1> QED
  BY <1>2, <1>6, <1>7 DEF ch

LEMMA SymIsSymbolAt ==
  ASSUME TypeOK, NEW i \in Nat, Sym(i) # "end"
  PROVE  Sym(i) = SymbolAt(i) /\ i <= fed
  BY Bounds DEF Sym, SymbolAt

LEMMA SandboxStands ==
  ASSUME TypeOK, index <= fed
  PROVE  /\ Stands(1, sandboxPrefix) <=> ch = "/"
         /\ Stands(2, sandboxPrefix) <=> ch = "/" /\ SymbolAt(index + 1) = "*"
         /\ Stands(3, sandboxPrefix) <=> Stands(2, sandboxPrefix) /\ SymbolAt(index + 2) = "M"
         /\ Stands(4, sandboxPrefix) <=> Stands(3, sandboxPrefix) /\ SymbolAt(index + 3) = "!"
         /\ Stands(5, sandboxPrefix) => Stands(4, sandboxPrefix)
<1>1. /\ index \in Nat /\ Len(script) \in Nat /\ fed \in Nat
      /\ fed <= Len(script) /\ index <= Len(script)
  BY Bounds
<1>2. /\ \A k \in 1..1 : k = 1
      /\ \A k \in 1..2 : k = 1 \/ k = 2
      /\ \A k \in 1..3 : k \in 1..2 \/ k = 3
      /\ \A k \in 1..4 : k \in 1..3 \/ k = 4
      /\ 1..1 \subseteq 1..2 /\ 1..2 \subseteq 1..3 /\ 1..3 \subseteq 1..4 /\ 1..4 \subseteq 1..5
      /\ 1 \in 1..1 /\ 2 \in 1..2 /\ 3 \in 1..3 /\ 4 \in 1..4
  OBVIOUS
<1>3. /\ index + 1 - 1 = index /\ index + 2 - 1 = index + 1 /\ index + 3 - 1 = index + 2
      /\ index + 4 - 1 = index + 3 /\ index + 5 - 1 = index + 4
      /\ index + 4 <= Len(script) => index + 3 <= Len(script)
      /\ index + 3 <= Len(script) => index + 2 <= Len(script)
      /\ index + 2 <= Len(script) => index + 1 <= Len(script)
  BY <1>1
<1>4. \A n \in { "*", "M", "!" } : n # "end"
  OBVIOUS
<1> DEFINE At(n, s) == index + n - 1 <= Len(script) /\ script[index + n - 1] = s
<1>5. /\ SymbolAt(index + 1) = "*" <=> At(2, "*")
      /\ SymbolAt(index + 2) = "M" <=> At(3, "M")
      /\ SymbolAt(index + 3) = "!" <=> At(4, "!")
      /\ ch = "/" <=> At(1, "/")
  BY <1>1, <1>3 DEF SymbolAt, ch
<1>6. Stands(1, sandboxPrefix) <=> At(1, "/")
  BY <1>2, SandboxSymbols DEF Stands
<1>7. Stands(2, sandboxPrefix) <=> Stands(1, sandboxPrefix) /\ At(2, "*")
  BY <1>1, <1>2, <1>3, SandboxSymbols DEF Stands
<1>8. Stands(3, sandboxPrefix) <=> Stands(2, sandboxPrefix) /\ At(3, "M")
  BY <1>1, <1>2, <1>3, SandboxSymbols DEF Stands
<1>9. Stands(4, sandboxPrefix) <=> Stands(3, sandboxPrefix) /\ At(4, "!")
  BY <1>1, <1>2, <1>3, SandboxSymbols DEF Stands
<1>10. Stands(5, sandboxPrefix) => Stands(4, sandboxPrefix)
  BY <1>1, <1>2, <1>3 DEF Stands
<1> QED
  BY <1>5, <1>6, <1>7, <1>8, <1>9, <1>10

LEMMA LineCommentIsWhole ==
  ASSUME ScanInv, Plain
  PROVE  IsLineComment <=> Whole!IsLineComment
<1>a. /\ TypeOK /\ index <= fed /\ pc \in { "push", "finish" }
      /\ Scanning /\ state = "normal" /\ ~IsClientCommand /\ ~MatchesDelimiter
  BY DEF ScanInv, IInv, Plain, Scanning
<1>b. /\ index \in Nat /\ index >= 1 /\ fed \in Nat /\ Len(script) \in Nat /\ fed <= Len(script)
  BY <1>a, Bounds
<1>0. "-" \in Symbols /\ "-" # "end"
  BY DEF Symbols
<1>1. Whole!IsLineComment <=> /\ ch = "-" /\ SymbolAt(index + 1) = "-"
                              /\ SymbolAt(index + 2) \in Whitespace \cup { "end" }
  BY <1>0, <1>a, TwoAhead, SameScan, SameSymbols DEF Whole!IsLineComment
<1>2. ASSUME pc = "push", ch = "-", SymbolAt(index + 1) = "-"
      PROVE  index + 2 <= fed
  <2>1. remaining \in Seq(Symbols) /\ Len(remaining) = fed - index + 1
        /\ \A k \in 1..(fed - index + 1) : remaining[k] = script[index + k - 1]
    BY <1>a, Remaining, RemainingSymbols
  <2>2. remaining # << "-" >> /\ remaining # << "-", "-" >>
    BY <1>2, <1>a, NormalTurn DEF CouldStartComment
  <2>3. << "-" >> \in Seq(Symbols) /\ << "-", "-" >> \in Seq(Symbols)
    BY <1>0
  <2>4. index # fed
    <3> SUFFICES ASSUME index = fed PROVE FALSE
      OBVIOUS
    <3>1. Len(remaining) = 1 /\ 1 \in 1..(fed - index + 1) /\ index + 1 - 1 = index
      BY <1>b, <2>1
    <3>2. remaining[1] = "-"
      BY <1>2, <2>1, <3>1 DEF ch
    <3>3. remaining = << "-" >>
      <4>1. Len(<< "-" >>) = 1
        OBVIOUS
      <4>2. \A k \in 1..Len(remaining) : remaining[k] = << "-" >>[k]
        BY <3>1, <3>2
      <4> QED
        BY <2>1, <2>3, <3>1, <4>1, <4>2, SeqEqual
    <3> QED
      BY <2>2, <3>3
  <2>5. index + 1 # fed
    <3> SUFFICES ASSUME index + 1 = fed PROVE FALSE
      OBVIOUS
    <3>1. /\ Len(remaining) = 2 /\ 1 \in 1..(fed - index + 1) /\ 2 \in 1..(fed - index + 1)
          /\ index + 1 - 1 = index /\ index + 2 - 1 = index + 1 /\ index + 1 <= Len(script)
      BY <1>b, <2>1
    <3>2. remaining[1] = "-" /\ remaining[2] = "-"
      BY <1>2, <2>1, <3>1 DEF ch, SymbolAt
    <3>3. remaining = << "-", "-" >>
      <4>1. Len(<< "-", "-" >>) = 2
        OBVIOUS
      <4>2. \A k \in 1..Len(remaining) : remaining[k] = << "-", "-" >>[k]
        BY <3>1, <3>2
      <4> QED
        BY <2>1, <2>3, <3>1, <4>1, <4>2, SeqEqual
    <3> QED
      BY <2>2, <3>3
  <2> QED
    BY <1>a, <1>b, <2>4, <2>5
<1>3. ASSUME ch = "-", SymbolAt(index + 1) = "-"
      PROVE  Sym(index + 1) = SymbolAt(index + 1) /\ Sym(index + 2) = SymbolAt(index + 2)
  <2>1. CASE pc = "push"
    BY <1>b, <1>2, <1>3, <2>1 DEF Sym, SymbolAt
  <2>2. CASE pc = "finish"
    BY <1>a, <2>2, NormalTurn DEF Sym, SymbolAt
  <2> QED
    BY <1>a, <2>1, <2>2
<1>4. Sym(index + 1) = "-" => SymbolAt(index + 1) = "-"
  BY <1>0, <1>a, <1>b, SymIsSymbolAt
<1> QED
  BY <1>1, <1>3, <1>4 DEF IsLineComment

LEMMA BlockIsWhole ==
  ASSUME ScanInv, Plain
  PROVE  /\ IsBlock <=> Whole!IsBlock
         /\ IsSandbox <=> Whole!IsSandbox
         /\ IsSandbox => IsBlock /\ ~IsExecutable
         /\ IsBlock => (IsExecutable <=> Whole!IsExecutable)
<1>a. /\ TypeOK /\ index <= fed
  BY DEF ScanInv, IInv, Plain, Scanning
<1>b. /\ index \in Nat /\ index >= 1 /\ fed \in Nat /\ Len(script) \in Nat /\ fed <= Len(script)
      /\ script \in Seq(Symbols) /\ index <= fed + 1
  BY <1>a, Bounds
<1>c. /\ "/" \in Symbols /\ "*" \in Symbols /\ "M" \in Symbols /\ "!" \in Symbols
  BY DEF Symbols, Letters
<1>d. /\ 2 \in 1..5 /\ 3 \in 1..5 /\ 5 \in 1..5
      /\ index + 1 \in Nat /\ index + 2 \in Nat /\ index + 3 \in Nat
  BY <1>b
<1>1. Whole!IsBlock <=> Stands(2, sandboxPrefix)
  BY <1>a, <1>c, TwoAhead, SameScan, SandboxStands DEF Whole!IsBlock
<1>2. IsBlock <=> Stands(2, sandboxPrefix)
  <2>1. Stands(2, sandboxPrefix) => Sym(index + 1) = SymbolAt(index + 1)
    <3> SUFFICES ASSUME Stands(2, sandboxPrefix) PROVE Sym(index + 1) = SymbolAt(index + 1)
      OBVIOUS
    <3>1. index + 2 - 1 <= fed
      BY <1>d, OpeningIsSeen
    <3> QED
      BY <1>b, <3>1 DEF Sym, SymbolAt
  <2>2. Sym(index + 1) = "*" => SymbolAt(index + 1) = "*"
    BY <1>a, <1>d, SymIsSymbolAt
  <2> QED
    BY <1>a, <2>1, <2>2, SandboxStands DEF IsBlock
<1>3. Whole!IsSandbox <=> Stands(5, sandboxPrefix)
  BY <1>a, TokenIsAhead, SandboxSymbols, SameScan, SameSymbols DEF Whole!IsSandbox
<1>4. IsSandbox <=> Stands(5, sandboxPrefix)
  <2>1. IsSandbox <=> StandsAt(script, index, fed, sandboxPrefix)
    BY <1>b, SandboxSymbols, TokenStands DEF IsSandbox, remaining
  <2>2. StandsAt(script, index, fed, sandboxPrefix) => Stands(5, sandboxPrefix)
    BY <1>b, SandboxSymbols DEF StandsAt, Stands
  <2>3. Stands(5, sandboxPrefix) => StandsAt(script, index, fed, sandboxPrefix)
    BY <1>d, OpeningIsSeen, SandboxSymbols DEF StandsAt, Stands
  <2> QED
    BY <2>1, <2>2, <2>3
<1>5. ASSUME Stands(2, sandboxPrefix) PROVE Sym(index + 2) = SymbolAt(index + 2)
  BY <1>d, <1>5, OpeningIsSeen
<1>6. ASSUME Stands(3, sandboxPrefix) PROVE Sym(index + 3) = SymbolAt(index + 3)
  BY <1>d, <1>6, OpeningIsSeen
<1>7. Stands(5, sandboxPrefix) => Stands(4, sandboxPrefix) /\ Stands(3, sandboxPrefix)
                                  /\ Stands(2, sandboxPrefix)
  BY <1>a, SandboxStands
<1>8. StartsWith(rest, << "/", "*", "M", "!" >>) <=> Stands(4, sandboxPrefix)
  <2>1. << "/", "*", "M", "!" >> \in Seq(Symbols) /\ Len(<< "/", "*", "M", "!" >>) = 4
    BY <1>c
  <2>2. StartsWith(rest, << "/", "*", "M", "!" >>) <=> Stands(4, << "/", "*", "M", "!" >>)
    BY <1>a, <2>1, TokenIsAhead
  <2>3. \A k \in 1..4 : << "/", "*", "M", "!" >>[k] = sandboxPrefix[k]
    BY DEF sandboxPrefix
  <2> QED
    BY <2>2, <2>3 DEF Stands
<1>9. ASSUME IsBlock PROVE IsExecutable <=> Whole!IsExecutable
  <2>1. Sym(index + 2) = SymbolAt(index + 2) /\ Stands(2, sandboxPrefix)
    BY <1>2, <1>5, <1>9
  <2>2. Stands(4, sandboxPrefix) <=> Sym(index + 2) = "M" /\ Sym(index + 3) = "!"
    BY <1>a, <2>1, <1>6, SandboxStands, <1>d, SymIsSymbolAt
  <2>3. Whole!IsExecutable <=>
          \/ SymbolAt(index + 2) \in { "!", "+" }
          \/ Stands(4, sandboxPrefix) /\ ~IsSandbox
    BY <1>3, <1>4, <1>8, SameScan DEF Whole!IsExecutable
  <2> QED
    BY <2>1, <2>2, <2>3 DEF IsExecutable
<1>10. ASSUME IsSandbox PROVE IsBlock /\ ~IsExecutable
  <2>1. IsBlock /\ Sym(index + 2) = SymbolAt(index + 2) /\ SymbolAt(index + 2) = "M"
    BY <1>a, <1>2, <1>4, <1>5, <1>7, <1>10, SandboxStands
  <2> QED
    BY <1>10, <2>1 DEF IsExecutable
<1> QED
  BY <1>1, <1>2, <1>3, <1>4, <1>9, <1>10

-----------------------------------------------------------------------------
(* The effects the steps share. *)

Found == delivered \o emitted

LEMMA NothingIsEmpty ==
  ASSUME NEW s, NEW i \in Int, NEW start, start = i
  PROVE  SubSeq(s, start, i - 1) = << >>
  BY SubSeqEmpty

\* The statement's text, when nothing of it is left to append.
LEMMA NothingLeft ==
  ASSUME parts \in Seq(Symbols), index \in Nat, appendFrom = index
  PROVE  Appended(index) = parts
<1>1. SubSeq(script, appendFrom, index - 1) = << >>
  BY NothingIsEmpty
<1> QED
  BY <1>1, ConcatEmptySeq DEF Appended

LEMMA NothingLeftNext ==
  ASSUME parts' \in Seq(Symbols), index' \in Nat, appendFrom' = index'
  PROVE  Appended(index)' = parts'
<1>1. \A s : \A i \in Nat : SubSeq(s, i, i - 1) = << >>
  BY NothingIsEmpty
<1>2. SubSeq(script', index', index' - 1) = << >>
  BY <1>1
<1>3. Appended(index)' = parts' \o SubSeq(script', index', index' - 1)
  BY DEF Appended
<1> QED
  BY <1>2, <1>3, ConcatEmptySeq

LEMMA TextsJoin ==
  ASSUME NEW s \in Seq(Symbols), NEW t \in Seq(Symbols), NEW u \in Seq(Symbols)
  PROVE  (s \o t) \o u = s \o (t \o u)
  BY ConcatAssociative

LEMMA ConsumeTakes ==
  ASSUME ScanInv, index <= fed, NEW n \in 1..2, index + n <= fed + 1,
         NEW q, NEW b, Consume(n, q, b)
  PROVE  Whole!Take(n, q, b)
<1>a. TypeOK
  BY DEF ScanInv, IInv
<1>b. /\ index \in Nat /\ index >= 1 /\ fed \in Nat /\ Len(script) \in Nat /\ fed <= Len(script)
      /\ script \in Seq(Symbols) /\ appendFrom \in Nat /\ appendFrom >= 1 /\ appendFrom <= index
      /\ parts \in Seq(Symbols)
  BY <1>a, Bounds
<1>1. Appended(index)' = parts \o SubSeq(script, appendFrom, index + n - 1)
  <2>1. /\ index' = index + n /\ script' = script /\ UNCHANGED << appendFrom, parts >>
    BY DEF Consume, script
  <2>2. index' - 1 = index + n - 1
    BY <1>b, <2>1
  <2>3. SubSeq(script', appendFrom', index' - 1) = SubSeq(script, appendFrom', index + n - 1)
    BY <2>1, <2>2
  <2>4. Appended(index)' = parts' \o SubSeq(script', appendFrom', index' - 1)
    BY DEF Appended
  <2> QED
    BY <2>1, <2>3, <2>4
<1>2. SubSeq(script, appendFrom, index + n - 1) =
        SubSeq(script, appendFrom, index - 1) \o SubSeq(script, index, index + n - 1)
  <2>1. /\ appendFrom \in 1..(Len(script) + 1) /\ index - 1 \in (appendFrom - 1)..Len(script)
        /\ index + n - 1 \in (index - 1)..Len(script) /\ index - 1 + 1 = index
    BY <1>b
  <2> QED
    BY <1>b, <2>1, ConcatAdjacentSubSeq
<1>3. /\ SubSeq(script, appendFrom, index - 1) \in Seq(Symbols)
      /\ SubSeq(script, index, index + n - 1) \in Seq(Symbols)
  BY <1>b, SlicesAreScripts
<1>4. Appended(index)' = Appended(index) \o SubSeq(script, index, index + n - 1)
  <2> DEFINE before == SubSeq(script, appendFrom, index - 1)
             taken  == SubSeq(script, index, index + n - 1)
  <2>1. Appended(index)' = parts \o (before \o taken)
    BY <1>1, <1>2
  <2>3. Appended(index) = parts \o before
    BY DEF Appended
  <2>4. before \in Seq(Symbols) /\ taken \in Seq(Symbols)
    BY <1>3
  <2> HIDE DEF before, taken
  <2>5. parts \in Seq(Symbols)
    BY <1>b
  <2>2. (parts \o before) \o taken = parts \o (before \o taken)
    BY <2>4, <2>5, TextsJoin
  <2> USE DEF taken
  <2> QED
    BY <2>1, <2>2, <2>3, Zenon
<1>5. /\ index' = index + n /\ state' = q /\ atLineStart' = LineStartAfter
      /\ hasContent' = (hasContent \/ b)
      /\ UNCHANGED << input, delimiter, escapes, delivered, emitted, outcome >>
  BY DEF Consume
<1> QED
  BY <1>4, <1>5, SameScan DEF Whole!Take, Whole!unread

LEMMA DropSkips ==
  ASSUME ScanInv, index <= fed, NEW n \in 1..2, NEW q, Drop(n, q), parts' = Appended(index)
  PROVE  Whole!Skip(n, q)
<1>a. TypeOK
  BY DEF ScanInv, IInv
<1>b. index \in Nat /\ Appended(index) \in Seq(Symbols)
  BY <1>a, Bounds, AppendedIsText
<1>1. Appended(index)' = Appended(index) \o SubSeq(script, index + n, index + n - 1)
  <2>1. /\ index' = index + n /\ appendFrom' = index + n /\ script' = script
    BY DEF Drop, script
  <2>2. index' - 1 = index + n - 1
    BY <1>b, <2>1
  <2>3. SubSeq(script', appendFrom', index' - 1) = SubSeq(script, appendFrom', index + n - 1)
    BY <2>1, <2>2
  <2>4. Appended(index)' = parts' \o SubSeq(script', appendFrom', index' - 1)
    BY DEF Appended
  <2> QED
    BY <2>1, <2>3, <2>4
<1>2. SubSeq(script, index + n, index + n - 1) = << >>
  BY <1>b, NothingIsEmpty
<1>3. Appended(index)' = Appended(index)
  BY <1>b, <1>1, <1>2, ConcatEmptySeq
<1>4. /\ index' = index + n /\ state' = q /\ atLineStart' = LineStartAfter
      /\ UNCHANGED << input, delimiter, escapes, hasContent, delivered, emitted, outcome >>
  BY DEF Drop
<1> QED
  BY <1>3, <1>4, SameScan DEF Whole!Skip, Whole!unread

\* Nothing of the statement is left to append where the scan discards.
LEMMA DiscardedText ==
  ASSUME ScanInv, index <= fed, state \in Dropping, UNCHANGED parts
  PROVE  parts' = Appended(index)
<1>a. TypeOK /\ appendFrom = index
  BY DEF ScanInv, IInv, DropsAtOnce
<1>b. index \in Nat /\ parts \in Seq(Symbols)
  BY <1>a, Bounds
<1> QED
  BY <1>a, <1>b, NothingLeft

LEMMA ThrowFails ==
  ASSUME ScanInv, NEW error, Throw(error)
  PROVE  Whole!Fail(error)
<1>1. delivered \in Seq(Seq(Symbols)) /\ emitted \in Seq(Seq(Symbols))
  BY DEF ScanInv, IInv, TypeOK
<1>2. Found' = delivered
  BY <1>1, ConcatEmptySeq DEF Throw, Found
<1>3. Len(delivered) \in 0..Len(Found) /\ SubSeq(Found, 1, Len(delivered)) = delivered
  <2>1. Len(delivered) \in Nat /\ Len(emitted) \in Nat /\ Len(Found) = Len(delivered) + Len(emitted)
        /\ Found \in Seq(Seq(Symbols))
        /\ \A k \in 1..Len(delivered) : Found[k] = delivered[k]
    BY <1>1, ConcatProperties, LenProperties DEF Found
  <2>2. \A k \in 1..Len(delivered) : Found[k] \in Seq(Symbols)
    BY <1>1, <2>1, ElementOfSeq
  <2>3. /\ SubSeq(Found, 1, Len(delivered)) \in Seq(Seq(Symbols))
        /\ Len(SubSeq(Found, 1, Len(delivered))) = IF 1 <= Len(delivered) THEN Len(delivered) - 1 + 1 ELSE 0
        /\ \A k \in 1..(Len(delivered) - 1 + 1) : SubSeq(Found, 1, Len(delivered))[k] = Found[1 + k - 1]
    BY <2>1, <2>2, SubSeqProperties
  <2>4. Len(SubSeq(Found, 1, Len(delivered))) = Len(delivered)
    BY <2>1, <2>3
  <2>5. ASSUME NEW k \in 1..Len(delivered) PROVE SubSeq(Found, 1, Len(delivered))[k] = delivered[k]
    <3>1. k \in 1..(Len(delivered) - 1 + 1) /\ 1 + k - 1 = k
      BY <2>1
    <3> QED
      BY <2>1, <2>3, <3>1
  <2>6. SubSeq(Found, 1, Len(delivered)) = delivered
    BY <1>1, <2>3, <2>4, <2>5, SeqEqual
  <2> QED
    BY <2>1, <2>6
<1>4. \E n \in 0..Len(Found) : Found' = SubSeq(Found, 1, n)
  BY <1>2, <1>3
<1>5. /\ outcome' = error
      /\ UNCHANGED << input, index, state, delimiter, escapes, atLineStart, hasContent >>
      /\ Appended(index)' = Appended(index)
  BY DEF Throw, lexer, statement, Appended, script
<1> QED
  BY <1>4, <1>5 DEF Whole!Fail, Found

-----------------------------------------------------------------------------
(* Each step is one of the whole scan, or nothing to it. *)

LEMMA CallsAreNothing ==
  ASSUME ScanInv, Push \/ Finish \/ Terminated \/ UNCHANGED vars
  PROVE  UNCHANGED Whole!vars
<1>1. UNCHANGED << input, index, appendFrom, lexer, statement, emitted, delivered, outcome >>
  BY DEF Push, Finish, Terminated, vars
<1>2. UNCHANGED << index, state, atLineStart, hasContent, input, delimiter, escapes, outcome >>
      /\ UNCHANGED << delivered, emitted >>
  BY <1>1 DEF lexer, statement
<1>3. Appended(index)' = Appended(index)
  BY <1>1 DEF Appended, statement, script
<1> QED
  BY <1>2, <1>3 DEF Whole!vars, Whole!unread

LEMMA CancelIsWhole ==
  ASSUME ScanInv, Cancel
  PROVE  Whole!Cancel
<1>1. outcome = "none" /\ outcome' = "cancelled"
      /\ UNCHANGED << input, index, appendFrom, lexer, statement, emitted, delivered >>
  BY DEF Cancel, ScanInv, Between
<1>2. Appended(index)' = Appended(index)
  BY <1>1 DEF Appended, statement, script
<1> QED
  BY <1>1, <1>2 DEF Whole!Cancel, lexer, statement

LEMMA TooLargeIsWhole ==
  ASSUME ScanInv, pc # "done", ~(Len(Appended(index)) <= MaxStatementBytes), Throw("tooLarge")
  PROVE  Whole!TooLarge
<1>1. Whole!Fail("tooLarge")
  BY ThrowFails
<1>2. outcome = "none" /\ ~Whole!Fits
  BY DEF ScanInv, Between, Whole!Fits
<1> QED
  BY <1>1, <1>2 DEF Whole!TooLarge

LEMMA PauseIsNothing ==
  ASSUME ScanInv, index <= fed + 1, parts' = Appended(index), appendFrom' = index,
         Return("idle", "none"), pc # "done",
         UNCHANGED << input, fed, index, state, delimiter, escapes, atLineStart, hasContent >>
  PROVE  UNCHANGED Whole!vars
<1>a. TypeOK /\ outcome = "none"
  BY DEF ScanInv, IInv, Between
<1>b. index \in Nat /\ Appended(index) \in Seq(Symbols)
      /\ delivered \in Seq(Seq(Symbols)) /\ emitted \in Seq(Seq(Symbols))
  BY <1>a, Bounds, AppendedIsText DEF TypeOK
<1>1. Appended(index)' = Appended(index)
  <2>1. parts' \in Seq(Symbols) /\ index' \in Nat /\ appendFrom' = index'
    BY <1>b
  <2> QED
    BY <2>1, NothingLeftNext
<1>2. (delivered \o emitted)' = delivered \o emitted
  <2>1. delivered \o emitted \in Seq(Seq(Symbols))
    BY <1>b, ConcatProperties
  <2>2. (delivered \o emitted)' = (delivered \o emitted) \o << >>
    BY DEF Return
  <2> QED
    BY <2>1, <2>2, ConcatEmptySeq
<1>3. outcome' = outcome
  BY <1>a DEF Return
<1> QED
  BY <1>1, <1>2, <1>3 DEF Whole!vars, Whole!unread

LEMMA ChunkEndIsNothing ==
  ASSUME ScanInv, HoldBack \/ EndOfChunk
  PROVE  Whole!TooLarge \/ UNCHANGED Whole!vars
<1>a. TypeOK /\ index <= fed + 1 /\ pc # "done"
  BY Bounds DEF ScanInv, IInv, HoldBack, EndOfChunk, MustWait
<1>1. CASE ~(Len(Appended(index)) <= MaxStatementBytes)
  <2>1. Throw("tooLarge")
    BY <1>1 DEF HoldBack, EndOfChunk, AppendUpTo
  <2> QED
    BY <1>1, <1>a, <2>1, TooLargeIsWhole
<1>2. CASE Len(Appended(index)) <= MaxStatementBytes
  <2>1. /\ parts' = Appended(index) /\ appendFrom' = index /\ Return("idle", "none")
        /\ UNCHANGED << input, fed, index, state, delimiter, escapes, atLineStart, hasContent >>
    BY <1>2 DEF HoldBack, EndOfChunk, AppendUpTo, RollBackLineStart, lexer
  <2> QED
    BY <1>a, <2>1, PauseIsNothing
<1> QED
  BY <1>1, <1>2

LEMMA ScanGoes ==
  ASSUME ScanInv, Scanning
  PROVE  /\ TypeOK /\ index <= fed /\ pc \in { "push", "finish" } /\ Whole!Going
         /\ index + 1 <= fed + 1
<1>1. TypeOK /\ index <= fed /\ pc \in { "push", "finish" } /\ outcome = "none"
  BY DEF ScanInv, IInv, Between, Scanning
<1>2. index <= Len(script) /\ index + 1 <= fed + 1
  BY <1>1, Bounds
<1> QED
  BY <1>1, <1>2, SameScan DEF Whole!Going

LEMMA CommandsAreWhole ==
  ASSUME ScanInv, PlainCommands, Scanning, state = "normal"
  PROVE  /\ IsCommand(delimiterCommand) <=> Whole!IsCommand(delimiterCommand)
         /\ IsCommand(unsupportedCommand) <=> Whole!IsCommand(unsupportedCommand)
         /\ IsClientCommand <=> IsCommand(delimiterCommand) \/ IsCommand(unsupportedCommand)
<1>1. ~CommandIncomplete
  BY NormalTurn
<1>2. ~(IsWord /\ Undecided(wordEnd))
  BY <1>1 DEF CommandIncomplete
<1>3. \A name : Whole!IsCommand(name) <=> WholeCommand(name)
  BY SameScan, SameSymbols DEF Whole!IsCommand, WholeCommand
<1>4. \A name \in Commands : IsCommand(name) <=> WholeCommand(name)
  BY <1>2, ScanGoes, CommandIsWhole
<1> QED
  BY <1>1, <1>3, <1>4 DEF Commands, IsClientCommand

LEMMA PlainIsWhole ==
  ASSUME ScanInv, PlainCommands, Plain
  PROVE  Whole!Plain /\ Whole!Sql
<1>1. Scanning /\ state = "normal" /\ ~IsClientCommand /\ ~MatchesDelimiter
  BY DEF Plain
<1>2. ~Whole!IsCommand(Whole!delimiterCommand) /\ ~Whole!IsCommand(Whole!unsupportedCommand)
  BY <1>1, CommandsAreWhole, SameSymbols
<1>3. ~Whole!OpensWith(delimiter)
  BY <1>1, DelimiterIsWhole, SameScan
<1> QED
  BY <1>1, <1>2, <1>3, ScanGoes DEF Whole!Plain, Whole!Sql

LEMMA TokensAreWhole ==
  ASSUME ScanInv, PlainCommands,
         OpenQuote \/ OpenLineComment \/ LastDash \/ OpenBlockComment \/ OpenExecutable \/ TakeSymbol
  PROVE  \/ Whole!OpenQuote \/ Whole!OpenLineComment \/ Whole!OpenBlockComment \/ Whole!TakeSymbol
<1>a. Plain
  BY DEF OpenQuote, OpenLineComment, LastDash, OpenBlockComment, OpenExecutable, TakeSymbol
<1>b. /\ TypeOK /\ index <= fed /\ pc \in { "push", "finish" } /\ index + 1 <= fed + 1
      /\ Scanning /\ state = "normal" /\ ~IsClientCommand /\ ~MatchesDelimiter
      /\ Whole!Plain
  BY <1>a, ScanGoes, PlainIsWhole DEF Plain
<1>c. /\ index \in Nat /\ fed \in Nat /\ Len(script) \in Nat /\ fed <= Len(script)
  BY <1>b, Bounds
<1>d. 1 \in 1..2 /\ 2 \in 1..2
  OBVIOUS
<1>e. /\ IsLineComment <=> Whole!IsLineComment
      /\ IsBlock <=> Whole!IsBlock
      /\ IsSandbox <=> Whole!IsSandbox
      /\ IsSandbox => IsBlock /\ ~IsExecutable
      /\ IsBlock => (IsExecutable <=> Whole!IsExecutable)
  BY <1>a, LineCommentIsWhole, BlockIsWhole
<1>f. IsLineComment \/ IsBlock => index + 2 <= fed + 1
  BY <1>b, NextIsThere DEF IsLineComment, IsBlock
<1>g. Whole!ch = ch /\ Whole!Quotes = Quotes /\ Whole!Whitespace = Whitespace
      /\ Whole!script = script
  BY SameScan, SameSymbols
<1>1. CASE OpenQuote
  <2>1. Whole!Take(1, ch, TRUE)
    BY <1>1, <1>b, <1>d, ConsumeTakes DEF OpenQuote
  <2> QED
    BY <1>1, <1>b, <1>g, <2>1 DEF OpenQuote, Whole!OpenQuote
<1>2. CASE OpenLineComment
  <2>1. CASE ch = "#" /\ Consume(1, "lineComment", FALSE)
    <3>1. Whole!Take(1, "lineComment", FALSE)
      BY <2>1, <1>b, <1>d, ConsumeTakes
    <3> QED
      BY <2>1, <1>b, <1>g, <3>1 DEF Whole!OpenLineComment
  <2>2. CASE IsLineComment /\ Consume(2, "lineComment", FALSE)
    <3>1. Whole!Take(2, "lineComment", FALSE)
      BY <2>2, <1>b, <1>d, <1>f, ConsumeTakes
    <3> QED
      BY <2>2, <1>b, <1>e, <3>1 DEF Whole!OpenLineComment
  <2> QED
    BY <1>2, <2>1, <2>2 DEF OpenLineComment
<1>3. CASE LastDash
  <2>1. pc = "finish"
    <3> SUFFICES ASSUME pc = "push" PROVE FALSE
      BY <1>b
    <3>1. remaining \in Seq(Symbols) /\ Len(remaining) = 1 /\ remaining[1] = ch
      <4>1. 1 \in 1..(fed - index + 1) /\ index + 1 - 1 = index
        BY <1>b, <1>c
      <4>2. remaining[1] = ch
        BY <1>b, <4>1, RemainingSymbols DEF ch
      <4>3. Len(remaining) = 1
        BY <1>3, <1>b, <1>c, Remaining DEF LastDash
      <4> QED
        BY <1>b, <4>2, <4>3, Remaining
    <3>2. << "-" >> \in Seq(Symbols) /\ Len(<< "-" >>) = 1 /\ << "-" >>[1] = ch
      BY <1>3 DEF LastDash, Symbols
    <3>3. \A k \in 1..Len(remaining) : remaining[k] = << "-" >>[k]
      BY <3>1, <3>2
    <3>4. remaining = << "-" >>
      BY <3>1, <3>2, <3>3, SeqEqual
    <3> QED
      BY <1>b, <3>4, NormalTurn DEF CouldStartComment
  <2>2. fed = Len(script) /\ ch = "-" /\ index = Len(script)
    BY <1>3, <1>b, <2>1, NormalTurn DEF LastDash
  <2>3. ~IsLineComment /\ ~IsBlock /\ ch \notin Quotes \cup { "#" }
    <3>1. Sym(index + 1) = "end"
      BY <1>c, <2>2 DEF Sym
    <3> QED
      BY <2>2, <3>1 DEF IsLineComment, IsBlock, Quotes
  <2>4. Whole!Take(1, "normal", FALSE)
    BY <1>3, <1>b, <1>d, ConsumeTakes DEF LastDash
  <2>5. (ch \notin Whitespace /\ ~(ch = "-" /\ index = Len(script))) = FALSE
    BY <2>2
  <2> QED
    BY <1>b, <1>e, <1>g, <2>3, <2>4, <2>5 DEF Whole!TakeSymbol
<1>4. CASE OpenBlockComment
  <2>1. Whole!Take(2, "blockComment", FALSE)
    BY <1>4, <1>b, <1>d, <1>f, ConsumeTakes DEF OpenBlockComment
  <2>2. Whole!IsBlock /\ ~Whole!IsSandbox /\ ~Whole!IsExecutable
    BY <1>4, <1>e DEF OpenBlockComment
  <2> QED
    BY <1>b, <2>1, <2>2 DEF Whole!OpenBlockComment
<1>5. CASE OpenExecutable
  <2>1. Whole!Take(2, "normal", TRUE)
    BY <1>5, <1>b, <1>d, <1>f, ConsumeTakes DEF OpenExecutable
  <2>2. Whole!IsBlock /\ ~Whole!IsSandbox /\ Whole!IsExecutable
    BY <1>5, <1>e DEF OpenExecutable
  <2> QED
    BY <1>b, <2>1, <2>2 DEF Whole!OpenBlockComment
<1>6. CASE TakeSymbol
  <2>1. Whole!Take(1, "normal", ch \notin Whitespace)
    BY <1>6, <1>b, <1>d, ConsumeTakes DEF TakeSymbol
  <2>2. ~(ch = "-" /\ index = Len(script))
    BY <1>6, <1>b, <1>c DEF TakeSymbol
  <2>3. (ch \notin Whitespace /\ ~(ch = "-" /\ index = Len(script))) = (ch \notin Whitespace)
    BY <2>2
  <2> QED
    BY <1>6, <1>b, <1>e, <1>g, <2>1, <2>3 DEF TakeSymbol, Whole!TakeSymbol
<1> QED
  BY <1>1, <1>2, <1>3, <1>4, <1>5, <1>6

LEMMA SandboxIsWhole ==
  ASSUME ScanInv, PlainCommands, OpenSandbox
  PROVE  Whole!OpenSandbox \/ Whole!TooLarge
<1>a. Plain /\ IsSandbox /\ Scanning
  BY DEF OpenSandbox, Plain
<1>b. index <= fed /\ pc # "done" /\ Whole!Plain /\ Whole!IsSandbox
  BY <1>a, ScanGoes, PlainIsWhole, BlockIsWhole
<1>1. CASE ~(Len(Appended(index)) <= MaxStatementBytes)
  <2>1. Throw("tooLarge")
    BY <1>1 DEF OpenSandbox, AppendUpTo
  <2> QED
    BY <1>1, <1>b, <2>1, TooLargeIsWhole
<1>2. CASE Len(Appended(index)) <= MaxStatementBytes
  <2>1. parts' = Appended(index) /\ Drop(2, "discardBlockComment") /\ 2 \in 1..2
    BY <1>2 DEF OpenSandbox, AppendUpTo
  <2>2. Whole!Skip(2, "discardBlockComment")
    BY <1>b, <2>1, DropSkips
  <2> QED
    BY <1>2, <1>b, <2>2 DEF Whole!OpenSandbox, Whole!Fits
<1> QED
  BY <1>1, <1>2

LEMMA QuoteTurn ==
  ASSUME ScanInv, Scanning, state \in Quotes, ch = state \/ IsEscape
  PROVE  /\ Sym(index + 1) = SymbolAt(index + 1)
         /\ index < fed <=> index < Len(script)
<1>a. /\ index \in Nat /\ fed \in Nat /\ Len(script) \in Nat /\ fed <= Len(script) /\ index <= fed
  BY ScanGoes, Bounds
<1>1. pc = "push" => index < fed
  <2> SUFFICES ASSUME pc = "push", index = fed PROVE FALSE
    BY <1>a
  <2>1. state # "normal"
    BY DEF Quotes
  <2>2. state \notin { "blockComment", "discardBlockComment" }
    BY DEF Quotes
  <2>3. ch = state \/ (ch = "\\" /\ escapes /\ state # "backtick")
    BY DEF IsEscape
  <2>4. MustWait
    BY <2>1, <2>2, <2>3 DEF MustWait
  <2> QED
    BY <2>4 DEF Scanning
<1>2. pc = "push" \/ fed = Len(script)
  BY DEF Scanning, ScanInv, Between
<1> QED
  BY <1>a, <1>1, <1>2 DEF Sym, SymbolAt

LEMMA QuotedIsWhole ==
  ASSUME ScanInv, Quoted
  PROVE  Whole!Quoted
<1>a. Scanning /\ state \in Quotes
  BY DEF Quoted
<1>b. TypeOK /\ index <= fed /\ Whole!Going /\ index + 1 <= fed + 1
  BY <1>a, ScanGoes
<1>c. /\ index \in Nat /\ fed \in Nat /\ Len(script) \in Nat /\ fed <= Len(script)
      /\ 1 \in 1..2 /\ 2 \in 1..2
  BY <1>b, Bounds
<1>d. /\ Whole!ch = ch /\ Whole!Quotes = Quotes /\ Whole!script = script
      /\ Whole!SymbolAt(index + 1) = SymbolAt(index + 1)
      /\ Whole!IsEscape <=> IsEscape
  BY SameScan, SameSymbols DEF Whole!IsEscape, IsEscape
<1>e. state # "end"
  BY <1>a DEF Quotes
<1>1. CASE IsEscape /\ Escape
  <2> DEFINE n == IF index < fed THEN 2 ELSE 1
  <2>1. n \in 1..2 /\ index + n <= fed + 1
    BY <1>b, <1>c
  <2>2. n = IF index < Len(script) THEN 2 ELSE 1
    BY <1>1, <1>a, QuoteTurn
  <2>3. Consume(n, state, FALSE)
    BY <1>1 DEF Escape
  <2> HIDE DEF n
  <2>4. Whole!Take(n, state, FALSE)
    BY <1>b, <2>1, <2>3, ConsumeTakes
  <2> QED
    BY <1>1, <1>a, <1>b, <1>d, <2>2, <2>4 DEF Whole!Quoted
<1>2. CASE IsDoubled /\ Consume(2, state, FALSE)
  <2>1. ch = state /\ SymbolAt(index + 1) = state
    BY <1>2, <1>a, QuoteTurn DEF IsDoubled
  <2>2. index + 2 <= fed + 1
    BY <1>2, <1>b, <1>e, NextIsThere DEF IsDoubled
  <2>3. Whole!Take(2, state, FALSE)
    BY <1>2, <1>b, <1>c, <2>2, ConsumeTakes
  <2> QED
    BY <1>a, <1>b, <1>d, <2>1, <2>3 DEF Whole!Quoted
<1>3. CASE ch = state /\ ~IsDoubled /\ Consume(1, "normal", FALSE)
  <2>1. ch = state /\ SymbolAt(index + 1) # state
    BY <1>3, <1>a, QuoteTurn DEF IsDoubled
  <2>2. Whole!Take(1, "normal", FALSE)
    BY <1>3, <1>b, <1>c, ConsumeTakes
  <2> QED
    BY <1>a, <1>b, <1>d, <2>1, <2>2 DEF Whole!Quoted
<1>4. CASE ch # state /\ ~IsEscape /\ Consume(1, state, FALSE)
  <2>1. Whole!Take(1, state, FALSE)
    BY <1>4, <1>b, <1>c, ConsumeTakes
  <2> QED
    BY <1>4, <1>a, <1>b, <1>d, <2>1 DEF Whole!Quoted
<1> QED
  BY <1>1, <1>2, <1>3, <1>4 DEF Quoted

LEMMA ClosingIsWhole ==
  ASSUME ScanInv, Scanning, state \in { "blockComment", "discardBlockComment" }
  PROVE  /\ ClosesBlock <=> Whole!ClosesBlock
         /\ ClosesBlock => index + 2 <= fed + 1
<1>a. /\ TypeOK /\ index \in Nat /\ fed \in Nat /\ Len(script) \in Nat /\ fed <= Len(script)
      /\ index <= fed
  BY ScanGoes, Bounds
<1>1. pc = "push" /\ ch = "*" => index < fed
  <2> SUFFICES ASSUME pc = "push", ch = "*", index = fed PROVE FALSE
    BY <1>a
  <2>1. state # "normal" /\ state \notin Quotes
    BY DEF Quotes
  <2>2. MustWait
    BY <2>1 DEF MustWait
  <2> QED
    BY <2>2 DEF Scanning
<1>2. pc = "push" \/ fed = Len(script)
  BY DEF Scanning, ScanInv, Between
<1>3. ch = "*" => Sym(index + 1) = SymbolAt(index + 1)
  BY <1>a, <1>1, <1>2 DEF Sym, SymbolAt
<1>4. Whole!ClosesBlock <=> ch = "*" /\ SymbolAt(index + 1) = "/"
  <2>1. "*" \in Symbols /\ "/" \in Symbols
    BY DEF Symbols
  <2> QED
    BY <1>a, <2>1, TwoAhead, SameScan DEF Whole!ClosesBlock
<1>5. ClosesBlock => index + 2 <= fed + 1
  BY <1>a, NextIsThere DEF ClosesBlock
<1> QED
  BY <1>3, <1>4, <1>5 DEF ClosesBlock

LEMMA CommentsAreWhole ==
  ASSUME ScanInv, InLineComment \/ InBlockComment
  PROVE  Whole!InComment
<1>a. Scanning
  BY DEF InLineComment, InBlockComment
<1>b. index <= fed /\ Whole!Going /\ index + 1 <= fed + 1 /\ 1 \in 1..2 /\ 2 \in 1..2
      /\ Whole!ch = ch
  BY <1>a, ScanGoes, SameScan
<1>1. CASE InLineComment
  <2> DEFINE q == IF ch = "\n" THEN "normal" ELSE state
  <2>1. Consume(1, q, FALSE) /\ state = "lineComment"
    BY <1>1 DEF InLineComment
  <2> HIDE DEF q
  <2>2. Whole!Take(1, q, FALSE)
    BY <1>b, <2>1, ConsumeTakes
  <2> QED
    BY <1>b, <2>1, <2>2 DEF Whole!InComment, q
<1>2. CASE InBlockComment /\ ClosesBlock
  <2>1. Consume(2, "normal", FALSE) /\ state = "blockComment"
    BY <1>2 DEF InBlockComment
  <2>2. Whole!ClosesBlock /\ index + 2 <= fed + 1
    BY <1>2, <1>a, <2>1, ClosingIsWhole
  <2>3. Whole!Take(2, "normal", FALSE)
    BY <1>b, <2>1, <2>2, ConsumeTakes
  <2> QED
    BY <1>b, <2>1, <2>2, <2>3 DEF Whole!InComment
<1>3. CASE InBlockComment /\ ~ClosesBlock
  <2>1. Consume(1, state, FALSE) /\ state = "blockComment"
    BY <1>3 DEF InBlockComment
  <2>2. ~Whole!ClosesBlock
    BY <1>3, <1>a, <2>1, ClosingIsWhole
  <2>3. Whole!Take(1, state, FALSE)
    BY <1>b, <2>1, ConsumeTakes
  <2> QED
    BY <1>b, <2>1, <2>2, <2>3 DEF Whole!InComment
<1> QED
  BY <1>1, <1>2, <1>3

LEMMA DiscardsAreWhole ==
  ASSUME ScanInv, SkipLine \/ InDiscardedComment
  PROVE  Whole!Discard
<1>a. Scanning /\ state \in Dropping /\ UNCHANGED parts
  BY DEF SkipLine, InDiscardedComment, Dropping
<1>b. index <= fed /\ Whole!Going /\ index + 1 <= fed + 1 /\ 1 \in 1..2 /\ 2 \in 1..2
      /\ Whole!ch = ch /\ parts' = Appended(index)
  BY <1>a, ScanGoes, SameScan, DiscardedText
<1>1. CASE SkipLine
  <2> DEFINE q == IF ch = "\n" THEN "normal" ELSE state
  <2>1. Drop(1, q) /\ state = "skipToEndOfLine"
    BY <1>1 DEF SkipLine
  <2> HIDE DEF q
  <2>2. Whole!Skip(1, q)
    BY <1>b, <2>1, DropSkips
  <2> QED
    BY <1>b, <2>1, <2>2 DEF Whole!Discard, q
<1>2. CASE InDiscardedComment /\ ClosesBlock
  <2>1. Drop(2, "normal") /\ state = "discardBlockComment"
    BY <1>2 DEF InDiscardedComment
  <2>2. Whole!ClosesBlock
    BY <1>2, <1>a, <2>1, ClosingIsWhole
  <2>3. Whole!Skip(2, "normal")
    BY <1>b, <2>1, DropSkips
  <2> QED
    BY <1>b, <2>1, <2>2, <2>3 DEF Whole!Discard
<1>3. CASE InDiscardedComment /\ ~ClosesBlock
  <2>1. Drop(1, state) /\ state = "discardBlockComment"
    BY <1>3 DEF InDiscardedComment
  <2>2. ~Whole!ClosesBlock
    BY <1>3, <1>a, <2>1, ClosingIsWhole
  <2>3. Whole!Skip(1, state)
    BY <1>b, <2>1, DropSkips
  <2> QED
    BY <1>b, <2>1, <2>2, <2>3 DEF Whole!Discard
<1> QED
  BY <1>1, <1>2, <1>3

\* What is returned with a statement that ends, and the text of the next.
LEMMA EndsAsWhole ==
  ASSUME ScanInv, index <= fed + 1, Found' = delivered \o EmittedWith(Appended(index)),
         escapes' = EscapesAfter(Appended(index)), parts' = << >>, hasContent' = FALSE,
         appendFrom' = index', index' \in Nat
  PROVE  Whole!End
<1>a. TypeOK
  BY DEF ScanInv, IInv
<1> DEFINE text == Appended(index)
<1>b. /\ text \in Seq(Symbols) /\ Trim(text) \in Seq(Symbols)
      /\ delivered \in Seq(Seq(Symbols)) /\ emitted \in Seq(Seq(Symbols))
  BY <1>a, Bounds, AppendedIsText, TrimIsScript DEF TypeOK
<1> HIDE DEF text
<1>1. delivered \o Append(emitted, Trim(text)) = Append(Found, Trim(text))
  BY <1>b DEF Found
<1>2. Found' = IF hasContent /\ Trim(text) # << >> THEN Append(Found, Trim(text)) ELSE Found
  BY <1>1 DEF EmittedWith, Found, text
<1>3. Whole!NoEscapesMode = NoEscapesMode /\ Whole!OtherMode = OtherMode
  BY DEF Whole!NoEscapesMode, NoEscapesMode, Whole!OtherMode, OtherMode
<1>4. Appended(index)' = << >>
  <2>1. parts' \in Seq(Symbols)
    BY EmptySeq, Zenon
  <2>2. Appended(index)' = parts'
    BY <2>1, NothingLeftNext, Zenon
  <2> QED
    BY <2>2, Zenon
<1>5. escapes' = EscapesAfter(text)
  BY DEF text
<1>6. (delivered \o emitted)' =
        IF hasContent /\ Whole!Trim(text) # << >> THEN Append(delivered \o emitted, Whole!Trim(text))
        ELSE delivered \o emitted
  BY <1>2, SameText DEF Found
<1>7. LET modes == { i \in DOMAIN text : text[i] \in { Whole!NoEscapesMode, Whole!OtherMode } }
      IN  escapes' = IF ~hasContent \/ input.escapeMode # "auto" \/ modes = {} THEN escapes
                     ELSE text[CHOOSE i \in modes : \A j \in modes : i <= j] = Whole!OtherMode
  BY <1>3, <1>5 DEF EscapesAfter
<1> QED
  BY <1>4, <1>6, <1>7 DEF Whole!End, text

LEMMA EndStatementIsWhole ==
  ASSUME ScanInv, PlainCommands, EndStatement
  PROVE  Whole!EndStatement \/ Whole!TooLarge
<1>a. Scanning /\ state = "normal" /\ ~IsClientCommand /\ MatchesDelimiter
  BY DEF EndStatement
<1>b. TypeOK /\ index <= fed /\ pc # "done" /\ Whole!Going
  BY <1>a, ScanGoes
<1>c. index \in Nat /\ fed \in Nat /\ Len(delimiter) \in Nat
  BY <1>b, Bounds
<1>1. Whole!Sql /\ Whole!OpensWith(delimiter)
  <2>1. ~Whole!IsCommand(Whole!delimiterCommand) /\ ~Whole!IsCommand(Whole!unsupportedCommand)
    BY <1>a, CommandsAreWhole, SameSymbols
  <2>2. Whole!OpensWith(delimiter)
    BY <1>a, DelimiterIsWhole, SameScan
  <2> QED
    BY <1>a, <1>b, <2>1, <2>2 DEF Whole!Sql
<1>2. CASE ~(Len(Appended(index)) <= MaxStatementBytes)
  <2>1. Throw("tooLarge")
    BY <1>2 DEF EndStatement, AppendUpTo
  <2> QED
    BY <1>2, <1>b, <2>1, TooLargeIsWhole
<1>3. CASE Len(Appended(index)) <= MaxStatementBytes
  <2>1. /\ Flush(Appended(index))
        /\ index' = index + Len(delimiter) /\ appendFrom' = index + Len(delimiter)
        /\ atLineStart' = FALSE
        /\ UNCHANGED << input, pc, fed, state, delimiter, delivered, outcome >>
    BY <1>3 DEF EndStatement, AppendUpTo
  <2>2. Found' = delivered \o EmittedWith(Appended(index))
    BY <2>1 DEF Flush, Found
  <2>3. index' \in Nat /\ appendFrom' = index' /\ index <= fed + 1
    BY <1>b, <1>c, <2>1
  <2>4. Whole!End
    BY <2>1, <2>2, <2>3, EndsAsWhole DEF Flush
  <2> QED
    BY <1>1, <1>3, <2>1, <2>4 DEF Whole!EndStatement, Whole!Fits
<1> QED
  BY <1>2, <1>3

LEMMA EndOfScriptIsWhole ==
  ASSUME ScanInv, EndOfScript
  PROVE  Whole!EndOfScript \/ Whole!TooLarge
<1>a. /\ TypeOK /\ pc = "finish" /\ index = fed + 1 /\ fed = Len(script) /\ outcome = "none"
  BY DEF ScanInv, IInv, Between, EndOfScript
<1>b. index \in Nat /\ index <= fed + 1
  BY <1>a, Bounds
<1>c. Whole!IsOpen <=> state \in Quotes \cup { "blockComment", "discardBlockComment" }
  BY SameSymbols DEF Whole!IsOpen
<1>1. CASE ~(Len(Appended(index)) <= MaxStatementBytes)
  <2>1. Throw("tooLarge")
    BY <1>1 DEF EndOfScript, AppendUpTo
  <2> QED
    BY <1>1, <1>a, <2>1, TooLargeIsWhole
<1>2. CASE Len(Appended(index)) <= MaxStatementBytes /\ Whole!IsOpen
  <2>1. Throw("malformed")
    BY <1>2, <1>c DEF EndOfScript, AppendUpTo
  <2>2. Whole!Fail("malformed")
    BY <2>1, ThrowFails
  <2> QED
    BY <1>2, <1>a, <2>2, SameScan DEF Whole!EndOfScript, Whole!Fits
<1>3. CASE Len(Appended(index)) <= MaxStatementBytes /\ ~Whole!IsOpen
  <2>1. /\ delivered' = delivered \o EmittedWith(Appended(index)) /\ emitted' = << >>
        /\ escapes' = EscapesAfter(Appended(index))
        /\ parts' = << >> /\ hasContent' = FALSE
        /\ appendFrom' = index /\ pc' = "done" /\ outcome' = "completed"
        /\ UNCHANGED << input, fed, index, state, delimiter, atLineStart >>
    BY <1>3, <1>c DEF EndOfScript, AppendUpTo
  <2>2. Found' = delivered \o EmittedWith(Appended(index))
    <3>1. Appended(index) \in Seq(Symbols) /\ delivered \in Seq(Seq(Symbols))
      BY <1>a, <1>b, AppendedIsText DEF TypeOK
    <3>2. delivered \o EmittedWith(Appended(index)) \in Seq(Seq(Symbols))
      BY <1>a, <3>1, EmittedIsText, ConcatProperties
    <3> QED
      BY <2>1, <3>2, ConcatEmptySeq DEF Found
  <2>3. index' \in Nat /\ appendFrom' = index'
    BY <1>b, <2>1
  <2>4. Whole!End
    BY <1>b, <2>1, <2>2, <2>3, EndsAsWhole
  <2> QED
    BY <1>3, <1>a, <2>1, <2>4, SameScan DEF Whole!EndOfScript, Whole!Fits
<1> QED
  BY <1>1, <1>2, <1>3

LEMMA CommandTurnIsWhole ==
  ASSUME ScanInv, PlainCommands, ReadDelimiter \/ RefuseCommand
  PROVE  Whole!Delimiter \/ Whole!RefuseCommand \/ Whole!TooLarge
<1>a. Scanning /\ state = "normal"
  BY DEF ReadDelimiter, RefuseCommand, IsCommand, IsWord
<1>b. TypeOK /\ index <= fed /\ pc \in { "push", "finish" } /\ pc # "done" /\ Whole!Going /\ Between
  BY <1>a, ScanGoes DEF ScanInv
<1>1. CASE RefuseCommand
  <2>1. Whole!IsCommand(Whole!unsupportedCommand)
    BY <1>1, <1>a, CommandsAreWhole, SameSymbols DEF RefuseCommand
  <2>2. Whole!Fail("unsupported")
    BY <1>1, ThrowFails DEF RefuseCommand
  <2> QED
    BY <1>b, <2>1, <2>2 DEF Whole!RefuseCommand
<1>2. CASE ReadDelimiter
  <2>1. IsCommand(delimiterCommand) /\ ~CommandIncomplete
    BY <1>2, <1>a, NormalTurn DEF ReadDelimiter
  <2>2. Whole!IsCommand(Whole!delimiterCommand)
    BY <1>a, <2>1, CommandsAreWhole, SameSymbols
  <2>3. /\ ~Undecided(argumentStart)
        /\ ~(Undecided(argumentEnd) /\ Len(rawArgument) < MaxDelimiterLength)
    BY <2>1 DEF CommandIncomplete
  <2>4. wordEnd = RunFrom(wordStart, Letters)
    BY <1>b, <2>1, WordIsWhole DEF IsCommand, IsWord
  <2>5. /\ Whole!argumentEnd = wholeArgumentEnd
        /\ Whole!argument = wholeArgument
        /\ Whole!InstallsDelimiter <=> WholeInstalls
    <3>1. Whole!wordEnd = wordEnd /\ Whole!argumentStart = wholeArgumentStart
      BY <2>4, SameScan DEF wholeArgumentStart
    <3>2. Whole!argumentEnd = wholeArgumentEnd
      BY <3>1, SameScan, SameText, SameSymbols
        DEF Whole!argumentEnd, Whole!RunFrom, wholeArgumentEnd, RunFrom
    <3>3. Whole!argument = wholeArgument
      BY <3>1, <3>2, SameScan DEF Whole!argument, wholeArgument
    <3>4. Whole!InstallsDelimiter <=> WholeInstalls
      BY <3>1, <3>3, SameText DEF Whole!InstallsDelimiter, WholeInstalls
    <3> QED
      BY <3>2, <3>3, <3>4
  <2>6. /\ IsDelimiter(rawArgument) <=> Whole!InstallsDelimiter
        /\ IsDelimiter(rawArgument) => argumentEnd = Whole!argumentEnd /\ rawArgument = Whole!argument
    BY <1>b, <2>3, <2>5, ArgumentIsWhole
  <2>7. CASE ~IsDelimiter(rawArgument)
    <3>1. Whole!Fail("invalidDelimiter")
      BY <1>2, <2>7, ThrowFails DEF ReadDelimiter
    <3> QED
      BY <1>b, <2>2, <2>6, <2>7, <3>1 DEF Whole!RefuseCommand
  <2>8. CASE IsDelimiter(rawArgument) /\ ~(Len(Appended(index)) <= MaxStatementBytes)
    <3>1. Throw("tooLarge")
      BY <1>2, <2>8 DEF ReadDelimiter, AppendUpTo
    <3> QED
      BY <1>b, <2>8, <3>1, TooLargeIsWhole
  <2>9. CASE IsDelimiter(rawArgument) /\ Len(Appended(index)) <= MaxStatementBytes
    <3>1. /\ delimiter' = stripQuotes(rawArgument) /\ state' = "skipToEndOfLine"
          /\ parts' = IF Trim(Appended(index)) = << >> THEN << >> ELSE Appended(index)
          /\ index' = argumentEnd /\ appendFrom' = argumentEnd /\ atLineStart' = FALSE
          /\ UNCHANGED << input, pc, fed, escapes, hasContent, emitted, delivered, outcome >>
      BY <1>2, <2>9 DEF ReadDelimiter, AppendUpTo
    <3>2. Appended(index)' = parts'
      <4>1. parts' \in Seq(Symbols)
        BY <1>b, <3>1, Bounds, AppendedIsText, EmptySeq
      <4>2. index' \in Nat /\ appendFrom' = index'
        BY <1>b, <3>1, ArgumentBounds
      <4> QED
        BY <4>1, <4>2, NothingLeftNext
    <3>3. delimiter' = Whole!stripQuotes(Whole!argument) /\ index' = Whole!argumentEnd
      BY <2>6, <2>9, <3>1, SameText
    <3>4. Appended(index)' = IF Whole!Trim(Appended(index)) = << >> THEN << >> ELSE Appended(index)
      BY <3>1, <3>2, SameText
    <3>5. Whole!InstallsDelimiter /\ Whole!Fits
      BY <2>6, <2>9 DEF Whole!Fits
    <3> QED
      BY <1>b, <2>2, <3>1, <3>3, <3>4, <3>5 DEF Whole!Delimiter
  <2> QED
    BY <2>7, <2>8, <2>9
<1> QED
  BY <1>1, <1>2

LEMMA StepsAreWhole ==
  ASSUME PlainCommands, ScanInv, [Next]_vars
  PROVE  [Whole!Next]_Whole!vars
<1>1. CASE Push \/ Finish \/ Terminated \/ UNCHANGED vars
  BY <1>1, CallsAreNothing
<1>2. CASE Cancel
  BY <1>2, CancelIsWhole DEF Whole!Next
<1>3. CASE HoldBack \/ EndOfChunk
  BY <1>3, ChunkEndIsNothing DEF Whole!Next
<1>4. CASE ReadDelimiter \/ RefuseCommand
  BY <1>4, CommandTurnIsWhole DEF Whole!Next
<1>5. CASE EndStatement \/ EndOfScript
  BY <1>5, EndStatementIsWhole, EndOfScriptIsWhole DEF Whole!Next
<1>6. CASE OpenQuote \/ OpenLineComment \/ LastDash \/ OpenBlockComment \/ OpenExecutable
           \/ TakeSymbol
  BY <1>6, TokensAreWhole DEF Whole!Next
<1>7. CASE OpenSandbox
  BY <1>7, SandboxIsWhole DEF Whole!Next
<1>8. CASE Quoted \/ InLineComment \/ InBlockComment
  BY <1>8, QuotedIsWhole, CommentsAreWhole DEF Whole!Next
<1>9. CASE SkipLine \/ InDiscardedComment
  BY <1>9, DiscardsAreWhole DEF Whole!Next
<1> QED
  BY <1>1, <1>2, <1>3, <1>4, <1>5, <1>6, <1>7, <1>8, <1>9 DEF Next

LEMMA InitialText ==
  ASSUME index = 1, appendFrom = 1, parts = << >>
  PROVE  Appended(index) = << >>
  BY NothingLeft, EmptySeq

\* However the source is cut into chunks, the parser does what the scan of the whole
\* script does: the same statements, the same errors and the same state of the lexer
\* at each position.  Only the long form of a command, `\delimiter', is read
\* otherwise when a chunk ends behind its backslash (tryReadClientCommand).
THEOREM ParserImplementsWholeScan ==
  ASSUME PlainCommands
  PROVE  Spec => ImplementsWholeScan
<1>1. Init => Whole!Init
  <2> SUFFICES ASSUME Init PROVE Whole!Init
    OBVIOUS
  <2>1. /\ input \in Inputs /\ index = 1 /\ appendFrom = 1 /\ parts = << >>
        /\ state = "normal" /\ delimiter = << ";" >> /\ escapes = (input.escapeMode # "disabled")
        /\ atLineStart = TRUE /\ hasContent = FALSE
        /\ emitted = << >> /\ delivered = << >> /\ outcome = "none"
    BY DEF Init
  <2>2. delivered \o emitted = << >>
    BY <2>1, EmptySeq, ConcatEmptySeq
  <2>3. Appended(index) = << >>
    BY InitialText DEF Init
  <2> QED
    BY <2>1, <2>2, <2>3 DEF Whole!Init
<1>2. ScanInv /\ [Next]_vars => [Whole!Next]_Whole!vars
  BY StepsAreWhole
<1> QED
  BY <1>1, <1>2, ScanInvHolds, PTL DEF Spec, ImplementsWholeScan, Whole!Spec
=============================================================================
