-------------------------- MODULE StatementParser --------------------------
(***************************************************************************)
(* SqlStatementParser: the incremental lexer that splits a script, fed in  *)
(* chunks of any size, into statements (restore/statementParser.ts).       *)
(*                                                                         *)
(* The chunks are cut from one script, of which `fed' symbols have been    *)
(* pushed.  The code's text, the carried-over symbols and the chunk, is    *)
(* script[i] for i in 1..fed from where the scan began; its index and      *)
(* appendFrom are positions of the script.  Between two pushes the carry   *)
(* is script[index..fed].  One step is one turn of the scan's loop.        *)
(***************************************************************************)
EXTENDS ClientScript

CONSTANT Inputs   \* records of a script and its options.backslashEscapes

Input == [ script : Seq(Symbols), escapeMode : { "auto", "enabled", "disabled" } ]

ASSUME InputsAssumption == Inputs \subseteq Input

VARIABLES
  input,         \* the script and the option
  pc,            \* "idle" between two calls, "push", "finish", "done"
  fed, index, appendFrom,
  state,         \* the lexer's state; a quoted one is its quote
  delimiter, escapes, atLineStart,
  parts,         \* statementParts, joined
  hasContent,    \* statementHasContent
  emitted,       \* the statements of the push under way
  delivered,     \* the statements returned so far
  outcome

lexer == << state, delimiter, escapes, atLineStart >>
statement == << parts, hasContent >>
vars == << input, pc, fed, index, appendFrom, lexer, statement, emitted, delivered, outcome >>

script == input.script

LexerState ==
  Quotes \cup { "normal", "lineComment", "blockComment", "discardBlockComment", "skipToEndOfLine" }

Init ==
  /\ input \in Inputs
  /\ pc = "idle" /\ fed = 0 /\ index = 1 /\ appendFrom = 1
  /\ state = "normal" /\ delimiter = << ";" >> /\ escapes = (input.escapeMode # "disabled")
  /\ atLineStart = TRUE
  /\ parts = << >> /\ hasContent = FALSE
  /\ emitted = << >> /\ delivered = << >> /\ outcome = "none"

-----------------------------------------------------------------------------
(* What the scan sees at its index. *)

ch == script[index]
Sym(i) == IF i <= fed THEN script[i] ELSE "end"
remaining == SubSeq(script, index, fed)

\* The text ends before i, and more of it may come.
Undecided(i) == i > fed /\ pc = "push"

Smaller(a, b) == IF a < b THEN a ELSE b
NonSpace == Symbols \ Whitespace

wordStart == IF ch = "\\" THEN index + 1 ELSE index
wordEnd   == RunEnd(script, wordStart, Smaller(fed + 1, wordStart + MaxCommandLength), Letters)
word      == SubSeq(script, wordStart, wordEnd - 1)

\* The argument of `delimiter', behind its spaces.
SpacesUnlimited == fed + 1
SpaceLimit == Smaller(fed + 1, wordEnd + MaxDelimiterLength)
argumentStart == RunEnd(script, wordEnd, SpaceLimit, Spaces)
argumentEnd ==
  RunEnd(script, argumentStart, Smaller(fed + 1, argumentStart + MaxDelimiterLength), NonSpace)
rawArgument == SubSeq(script, argumentStart, argumentEnd - 1)

\* A word at the start of a line, with nothing but blanks in the statement.
IsWord ==
  /\ state = "normal" /\ ~hasContent /\ atLineStart
  /\ wordEnd # wordStart /\ wordEnd - wordStart < MaxCommandLength

IsCommand(name) ==
  /\ IsWord /\ ~Undecided(wordEnd) /\ word = name
  /\ Sym(wordEnd) \in Whitespace \cup { "end" }

\* tryReadClientCommand returns 'incomplete'.
CommandIncomplete ==
  \/ IsWord /\ Undecided(wordEnd)
  \/ /\ IsCommand(delimiterCommand)
     /\ \/ Undecided(argumentStart)
        \/ Undecided(argumentEnd) /\ Len(rawArgument) < MaxDelimiterLength

IsClientCommand ==
  CommandIncomplete \/ IsCommand(delimiterCommand) \/ IsCommand(unsupportedCommand)

MatchesDelimiter == StartsWith(remaining, delimiter)
CouldStartDelimiter == Len(remaining) < Len(delimiter) /\ StartsWith(delimiter, remaining)

\* `--' and `/*' are tokens only with what follows them.
OneSymbolAhead == remaining \in { << "-" >>, << "/" >> }
CouldStartComment ==
  remaining \in { << "-" >>, << "-", "-" >> } \/ (ch = "/" /\ StartsWith(sandboxPrefix, remaining))

\* The symbol's meaning depends on what has yet to come.
MustWait ==
  /\ pc = "push"
  /\ CASE state = "normal" ->
            \/ CommandIncomplete
            \/ ~IsClientCommand /\ ~MatchesDelimiter /\ (CouldStartDelimiter \/ CouldStartComment)
       [] state \in Quotes ->
            (ch = state \/ (ch = "\\" /\ escapes /\ state # "backtick")) /\ index = fed
       [] state \in { "blockComment", "discardBlockComment" } -> ch = "*" /\ index = fed
       [] OTHER -> FALSE

Scanning == pc \in { "push", "finish" } /\ index <= fed /\ ~MustWait
Plain == Scanning /\ state = "normal" /\ ~IsClientCommand /\ ~MatchesDelimiter

-----------------------------------------------------------------------------
(* The effects the steps share. *)

\* atLineStart, once ch is accounted for.
LineStartAfter == ch = "\n" \/ (ch \in Spaces /\ atLineStart)

\* The parser throws: the statements this push had found are lost with it.
Throw(error) ==
  /\ pc' = "done" /\ outcome' = error /\ emitted' = << >>
  /\ UNCHANGED << input, fed, index, appendFrom, lexer, statement, delivered >>

\* appendUpTo(end), which the statement may be too large for.
Appended(end) == parts \o SubSeq(script, appendFrom, end - 1)
AppendUpTo(end, Continue) ==
  IF Len(Appended(end)) <= MaxStatementBytes THEN Continue ELSE Throw("tooLarge")

\* n symbols of the statement are taken, in the state given.
Consume(n, newState, isContent) ==
  /\ index' = index + n /\ state' = newState /\ atLineStart' = LineStartAfter
  /\ hasContent' = (hasContent \/ isContent)
  /\ UNCHANGED << input, pc, fed, appendFrom, delimiter, escapes, parts, emitted, delivered, outcome >>

\* n symbols are taken that belong to no statement.
Drop(n, newState) ==
  /\ index' = index + n /\ appendFrom' = index + n
  /\ state' = newState /\ atLineStart' = LineStartAfter
  /\ UNCHANGED << input, pc, fed, delimiter, escapes, hasContent, emitted, delivered, outcome >>

\* flushStatement: comments and blanks alone are no statement.
EmittedWith(text) ==
  IF hasContent /\ Trim(text) # << >> THEN Append(emitted, Trim(text)) ELSE emitted

\* trackSqlMode: the first assignment in the statement decides.
EscapesAfter(text) ==
  LET modes == { i \in DOMAIN text : text[i] \in { NoEscapesMode, OtherMode } }
  IN  IF ~hasContent \/ input.escapeMode # "auto" \/ modes = {} THEN escapes
      ELSE text[CHOOSE i \in modes : \A j \in modes : i <= j] = OtherMode

\* The statement is over and its text emitted, if it has any.
Flush(text) ==
  /\ emitted' = EmittedWith(text) /\ escapes' = EscapesAfter(text)
  /\ parts' = << >> /\ hasContent' = FALSE

\* The call returns the statements it has emitted.
Return(to, o) ==
  pc' = to /\ outcome' = o /\ delivered' = delivered \o emitted /\ emitted' = << >>

-----------------------------------------------------------------------------
(* Between two pushes. *)

\* push(): the scan starts at the carry.
Push ==
  /\ pc = "idle" /\ fed < Len(script)
  /\ fed' \in (fed + 1)..Len(script)
  /\ pc' = "push"
  /\ UNCHANGED << input, index, appendFrom, lexer, statement, emitted, delivered, outcome >>

\* finish(), when the source has ended.
Finish ==
  /\ pc = "idle" /\ fed = Len(script)
  /\ pc' = "finish"
  /\ UNCHANGED << input, fed, index, appendFrom, lexer, statement, emitted, delivered, outcome >>

\* streamSqlStatements looks at its signal between two chunks.
Cancel ==
  /\ pc = "idle"
  /\ pc' = "done" /\ outcome' = "cancelled"
  /\ UNCHANGED << input, fed, index, appendFrom, lexer, statement, emitted, delivered >>

-----------------------------------------------------------------------------
(* One turn of the loop. *)

\* holdBack: the symbol will be seen again, so it has not been accounted for.
KeepLineStart == atLineStart' = LineStartAfter
RollBackLineStart == UNCHANGED atLineStart
HoldBack ==
  /\ index <= fed /\ MustWait
  /\ AppendUpTo(index,
       /\ parts' = Appended(index) /\ appendFrom' = index
       /\ RollBackLineStart
       /\ Return("idle", "none")
       /\ UNCHANGED << input, fed, index, state, delimiter, escapes, hasContent >>)

\* readDelimiterCommand installs the delimiter; blanks before it are dropped.
ReadDelimiter ==
  /\ Scanning /\ IsCommand(delimiterCommand)
  /\ IF IsDelimiter(rawArgument)
       THEN AppendUpTo(index,
              /\ delimiter' = stripQuotes(rawArgument) /\ state' = "skipToEndOfLine"
              /\ parts' = IF Trim(Appended(index)) = << >> THEN << >> ELSE Appended(index)
              /\ index' = argumentEnd /\ appendFrom' = argumentEnd /\ atLineStart' = FALSE
              /\ UNCHANGED << input, pc, fed, escapes, hasContent, emitted, delivered, outcome >>)
       ELSE Throw("invalidDelimiter")

RefuseCommand == Scanning /\ IsCommand(unsupportedCommand) /\ Throw("unsupported")

EndStatement ==
  /\ Scanning /\ state = "normal" /\ ~IsClientCommand /\ MatchesDelimiter
  /\ AppendUpTo(index,
       /\ Flush(Appended(index))
       /\ index' = index + Len(delimiter) /\ appendFrom' = index + Len(delimiter)
       /\ atLineStart' = FALSE
       /\ UNCHANGED << input, pc, fed, state, delimiter, delivered, outcome >>)

OpenQuote == Plain /\ ch \in Quotes /\ Consume(1, ch, TRUE)

\* `--' is a comment only before a blank or the end of the script.
IsLineComment == ch = "-" /\ Sym(index + 1) = "-" /\ Sym(index + 2) \in Whitespace \cup { "end" }
OpenLineComment ==
  /\ Plain
  /\ \/ ch = "#" /\ Consume(1, "lineComment", FALSE)
     \/ IsLineComment /\ Consume(2, "lineComment", FALSE)

\* A `-' that ends the script is not marked as content.
LastDash == Plain /\ ch = "-" /\ index = fed /\ Consume(1, "normal", FALSE)

IsBlock == ch = "/" /\ Sym(index + 1) = "*"
IsSandbox == StartsWith(remaining, sandboxPrefix)
IsExecutable ==
  \/ Sym(index + 2) \in { "!", "+" }
  \/ Sym(index + 2) = "M" /\ Sym(index + 3) = "!" /\ ~IsSandbox

OpenBlockComment ==
  Plain /\ IsBlock /\ ~IsExecutable /\ ~IsSandbox /\ Consume(2, "blockComment", FALSE)

\* An executable comment is statement text.
OpenExecutable == Plain /\ IsBlock /\ IsExecutable /\ Consume(2, "normal", TRUE)

\* The MariaDB client's sandbox command is no SQL: it is dropped.
OpenSandbox ==
  /\ Plain /\ IsSandbox
  /\ AppendUpTo(index, parts' = Appended(index) /\ Drop(2, "discardBlockComment"))

TakeSymbol ==
  /\ Plain
  /\ ch \notin Quotes \cup { "#" } /\ ~IsLineComment /\ ~IsBlock /\ ~(ch = "-" /\ index = fed)
  /\ Consume(1, "normal", ch \notin Whitespace)

\* Inside quotes: an escaped symbol, a doubled quote, the closing one.
IsEscape == ch = "\\" /\ escapes /\ state # "backtick"
IsDoubled == ch = state /\ Sym(index + 1) = state
EscapeAlways == Consume(2, state, FALSE)
Escape == Consume(IF index < fed THEN 2 ELSE 1, state, FALSE)
Quoted ==
  /\ Scanning /\ state \in Quotes
  /\ \/ IsEscape /\ Escape
     \/ IsDoubled /\ Consume(2, state, FALSE)
     \/ ch = state /\ ~IsDoubled /\ Consume(1, "normal", FALSE)
     \/ ch # state /\ ~IsEscape /\ Consume(1, state, FALSE)

InLineComment ==
  /\ Scanning /\ state = "lineComment"
  /\ Consume(1, IF ch = "\n" THEN "normal" ELSE state, FALSE)

\* The rest of a command's line reaches no statement.
SkipLine ==
  /\ Scanning /\ state = "skipToEndOfLine" /\ UNCHANGED parts
  /\ Drop(1, IF ch = "\n" THEN "normal" ELSE state)

ClosesBlock == ch = "*" /\ Sym(index + 1) = "/"
InBlockComment ==
  /\ Scanning /\ state = "blockComment"
  /\ IF ClosesBlock THEN Consume(2, "normal", FALSE) ELSE Consume(1, state, FALSE)
InDiscardedComment ==
  /\ Scanning /\ state = "discardBlockComment" /\ UNCHANGED parts
  /\ IF ClosesBlock THEN Drop(2, "normal") ELSE Drop(1, state)

\* The chunk is used up.
EndOfChunk ==
  /\ pc = "push" /\ index = fed + 1
  /\ AppendUpTo(index,
       /\ parts' = Appended(index) /\ appendFrom' = index
       /\ Return("idle", "none")
       /\ UNCHANGED << input, fed, index, lexer, hasContent >>)

\* The script is used up: an open construct is an error, the rest a statement.
EndOfScript ==
  /\ pc = "finish" /\ index = fed + 1
  /\ AppendUpTo(index,
       IF state \in Quotes \cup { "blockComment", "discardBlockComment" } THEN Throw("malformed")
       ELSE /\ delivered' = delivered \o EmittedWith(Appended(index)) /\ emitted' = << >>
            /\ escapes' = EscapesAfter(Appended(index))
            /\ parts' = << >> /\ hasContent' = FALSE
            /\ appendFrom' = index /\ pc' = "done" /\ outcome' = "completed"
            /\ UNCHANGED << input, fed, index, state, delimiter, atLineStart >>)

Terminated == pc = "done" /\ UNCHANGED vars

Next ==
  \/ Push \/ Finish \/ Cancel
  \/ HoldBack \/ ReadDelimiter \/ RefuseCommand \/ EndStatement
  \/ OpenQuote \/ OpenLineComment \/ LastDash
  \/ OpenBlockComment \/ OpenExecutable \/ OpenSandbox \/ TakeSymbol
  \/ Quoted \/ InLineComment \/ SkipLine \/ InBlockComment \/ InDiscardedComment
  \/ EndOfChunk \/ EndOfScript \/ Terminated

Spec == Init /\ [][Next]_vars

-----------------------------------------------------------------------------
TypeOK ==
  /\ input \in Input
  /\ pc \in { "idle", "push", "finish", "done" }
  /\ fed \in 0..Len(script) /\ index \in 1..(fed + 1) /\ appendFrom \in 1..index
  /\ state \in LexerState
  /\ delimiter \in Seq(Symbols) \ { << >> } /\ Len(delimiter) <= MaxDelimiterLength
  /\ escapes \in BOOLEAN /\ atLineStart \in BOOLEAN /\ hasContent \in BOOLEAN
  /\ parts \in Seq(Symbols)
  /\ emitted \in Seq(Seq(Symbols)) /\ delivered \in Seq(Seq(Symbols))
  /\ outcome \in ParserOutcome

\* However the source is cut, what is carried over to the next push is no longer
\* than the longest client command, and a statement's text is no longer than
\* maxStatementBytes.
MemoryBounded ==
  /\ pc = "idle" => fed + 1 - index <= MaxCommandLength + 2 * MaxDelimiterLength
  /\ Len(parts) <= MaxStatementBytes

\* The long form of a command at the start of a line.  A chunk that ends behind
\* its backslash makes it a statement of SQL.
BackslashCommand(s, i) ==
  /\ s[i] = "\\"
  /\ \A k \in 1..(i - 1) : s[k] \in Whitespace \/ \E m \in (k + 1)..(i - 1) : s[m] = "\n"
  /\ \E name \in { delimiterCommand, unsupportedCommand } :
       StartsWith(SubSeq(s, i + 1, Len(s)), name)

PlainCommands == \A in \in Inputs : \A i \in DOMAIN in.script : ~BackslashCommand(in.script, i)

\* However the source is cut into chunks, the parser's turns are those of the scan
\* of the whole script: nothing is read otherwise because the text ended there, and
\* what is held back is as if it had not been seen (scan, holdBack).
Whole == INSTANCE WholeScan WITH
  at <- index, text <- Appended(index), statements <- delivered \o emitted

ImplementsWholeScan == Whole!Spec
=============================================================================
