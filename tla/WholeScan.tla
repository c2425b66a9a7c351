----------------------------- MODULE WholeScan -----------------------------
(***************************************************************************)
(* What SqlStatementParser promises for every way of cutting a script into *)
(* chunks: the scan of the script in one piece, which never has to wait    *)
(* for what comes next (restore/statementParser.ts:275-284).               *)
(*                                                                         *)
(* In each state at most one step leads on.  Beside it, the source may be  *)
(* cancelled, and a statement that is too large may be found out at once   *)
(* or later; an error loses statements that were found before it.          *)
(***************************************************************************)
EXTENDS ClientScript

CONSTANT Inputs   \* records of a script and its options.backslashEscapes

VARIABLES
  input,
  at,            \* the position scanned next
  state, delimiter, escapes, atLineStart,
  text,          \* the statement so far
  hasContent,
  statements,    \* those found
  outcome

unread == << input, delimiter, escapes, statements, outcome >>
vars == << at, state, atLineStart, text, hasContent, unread >>

script == input.script

Init ==
  /\ input \in Inputs
  /\ at = 1 /\ state = "normal" /\ delimiter = << ";" >>
  /\ escapes = (input.escapeMode # "disabled") /\ atLineStart = TRUE
  /\ text = << >> /\ hasContent = FALSE /\ statements = << >> /\ outcome = "none"

-----------------------------------------------------------------------------
(* What stands at a position. *)

ch == script[at]
SymbolAt(i) == IF i <= Len(script) THEN script[i] ELSE "end"
OpensWith(token) == StartsWith(SubSeq(script, at, Len(script)), token)

RunFrom(i, S) == RunEnd(script, i, Len(script) + 1, S)
wordStart     == IF ch = "\\" THEN at + 1 ELSE at
wordEnd       == RunFrom(wordStart, Letters)
argumentStart == RunFrom(wordEnd, Spaces)
argumentEnd   == RunFrom(argumentStart, Symbols \ Whitespace)
argument      == SubSeq(script, argumentStart, argumentEnd - 1)

\* A client command opens a line, with nothing but blanks in the statement.
IsCommand(name) ==
  /\ state = "normal" /\ ~hasContent /\ atLineStart
  /\ SubSeq(script, wordStart, wordEnd - 1) = name
  /\ SymbolAt(wordEnd) \in Whitespace \cup { "end" }

InstallsDelimiter == argumentStart - wordEnd <= MaxDelimiterLength /\ IsDelimiter(argument)

IsLineComment ==
  OpensWith(<< "-", "-" >>) /\ SymbolAt(at + 2) \in Whitespace \cup { "end" }
IsBlock   == OpensWith(<< "/", "*" >>)
IsSandbox == OpensWith(sandboxPrefix)
IsExecutable ==
  \/ SymbolAt(at + 2) \in { "!", "+" }
  \/ OpensWith(<< "/", "*", "M", "!" >>) /\ ~IsSandbox
ClosesBlock == OpensWith(<< "*", "/" >>)

-----------------------------------------------------------------------------
Going == outcome = "none" /\ at <= Len(script)
Fits  == Len(text) <= MaxStatementBytes

LineStartAfter == ch = "\n" \/ (ch \in Spaces /\ atLineStart)

\* n symbols become part of the statement.
Take(n, newState, isContent) ==
  /\ at' = at + n /\ text' = text \o SubSeq(script, at, at + n - 1)
  /\ state' = newState /\ atLineStart' = LineStartAfter
  /\ hasContent' = (hasContent \/ isContent)
  /\ UNCHANGED unread

\* n symbols belong to no statement.
Skip(n, newState) ==
  /\ at' = at + n /\ state' = newState /\ atLineStart' = LineStartAfter
  /\ UNCHANGED << text, hasContent, unread >>

\* The statement is over: comments and blanks alone are none, and the first
\* assignment of sql_mode in one that is decides about backslashes.
End ==
  LET modes == { i \in DOMAIN text : text[i] \in { NoEscapesMode, OtherMode } }
  IN  /\ statements' =
           IF hasContent /\ Trim(text) # << >> THEN Append(statements, Trim(text)) ELSE statements
      /\ escapes' =
           IF ~hasContent \/ input.escapeMode # "auto" \/ modes = {} THEN escapes
           ELSE text[CHOOSE i \in modes : \A j \in modes : i <= j] = OtherMode
      /\ text' = << >> /\ hasContent' = FALSE

Fail(error) ==
  /\ outcome' = error
  /\ \E n \in 0..Len(statements) : statements' = SubSeq(statements, 1, n)
  /\ UNCHANGED << input, at, state, delimiter, escapes, atLineStart, text, hasContent >>

-----------------------------------------------------------------------------
Delimiter ==
  /\ Going /\ Fits /\ IsCommand(delimiterCommand) /\ InstallsDelimiter
  /\ delimiter' = stripQuotes(argument) /\ state' = "skipToEndOfLine"
  /\ text' = IF Trim(text) = << >> THEN << >> ELSE text
  /\ at' = argumentEnd /\ atLineStart' = FALSE
  /\ UNCHANGED << input, escapes, hasContent, statements, outcome >>

RefuseCommand ==
  /\ Going
  /\ \/ IsCommand(unsupportedCommand) /\ Fail("unsupported")
     \/ IsCommand(delimiterCommand) /\ ~InstallsDelimiter /\ Fail("invalidDelimiter")

Sql == Going /\ state = "normal" /\ ~IsCommand(delimiterCommand) /\ ~IsCommand(unsupportedCommand)
Plain == Sql /\ ~OpensWith(delimiter)

EndStatement ==
  /\ Sql /\ OpensWith(delimiter) /\ Fits /\ End
  /\ at' = at + Len(delimiter) /\ atLineStart' = FALSE
  /\ UNCHANGED << input, state, delimiter, outcome >>

OpenQuote == Plain /\ ch \in Quotes /\ Take(1, ch, TRUE)
OpenLineComment ==
  /\ Plain
  /\ \/ ch = "#" /\ Take(1, "lineComment", FALSE)
     \/ IsLineComment /\ Take(2, "lineComment", FALSE)
OpenSandbox == Plain /\ IsSandbox /\ Fits /\ Skip(2, "discardBlockComment")
OpenBlockComment ==
  /\ Plain /\ IsBlock /\ ~IsSandbox
  /\ IF IsExecutable THEN Take(2, "normal", TRUE) ELSE Take(2, "blockComment", FALSE)

\* A dash that ends the script is nothing.
TakeSymbol ==
  /\ Plain /\ ch \notin Quotes \cup { "#" } /\ ~IsLineComment /\ ~IsBlock
  /\ Take(1, "normal", ch \notin Whitespace /\ ~(ch = "-" /\ at = Len(script)))

IsEscape == ch = "\\" /\ escapes /\ state # "backtick"
Quoted ==
  /\ Going /\ state \in Quotes
  /\ \/ IsEscape /\ Take(IF at < Len(script) THEN 2 ELSE 1, state, FALSE)
     \/ ch = state /\ SymbolAt(at + 1) = state /\ Take(2, state, FALSE)
     \/ ch = state /\ SymbolAt(at + 1) # state /\ Take(1, "normal", FALSE)
     \/ ch # state /\ ~IsEscape /\ Take(1, state, FALSE)

InComment ==
  /\ Going
  /\ \/ state = "lineComment" /\ Take(1, IF ch = "\n" THEN "normal" ELSE state, FALSE)
     \/ state = "blockComment" /\ ClosesBlock /\ Take(2, "normal", FALSE)
     \/ state = "blockComment" /\ ~ClosesBlock /\ Take(1, state, FALSE)

Discard ==
  /\ Going
  /\ \/ state = "skipToEndOfLine" /\ Skip(1, IF ch = "\n" THEN "normal" ELSE state)
     \/ state = "discardBlockComment" /\ ClosesBlock /\ Skip(2, "normal")
     \/ state = "discardBlockComment" /\ ~ClosesBlock /\ Skip(1, state)

\* The script has ended: an open construct is an error, the rest a statement.
IsOpen == state \in Quotes \cup { "blockComment", "discardBlockComment" }
EndOfScript ==
  /\ outcome = "none" /\ at = Len(script) + 1 /\ Fits
  /\ \/ IsOpen /\ Fail("malformed")
     \/ ~IsOpen /\ End /\ outcome' = "completed" /\ UNCHANGED << input, at, state, delimiter, atLineStart >>

TooLarge == outcome = "none" /\ ~Fits /\ Fail("tooLarge")

Cancel ==
  /\ outcome = "none" /\ outcome' = "cancelled"
  /\ UNCHANGED << input, at, state, delimiter, escapes, atLineStart, text, hasContent, statements >>

Next ==
  \/ Delimiter \/ RefuseCommand \/ EndStatement
  \/ OpenQuote \/ OpenLineComment \/ OpenSandbox \/ OpenBlockComment \/ TakeSymbol
  \/ Quoted \/ InComment \/ Discard
  \/ EndOfScript \/ TooLarge \/ Cancel

Spec == Init /\ [][Next]_vars
=============================================================================
