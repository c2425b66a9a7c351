---------------------------- MODULE ClientScript ----------------------------
(***************************************************************************)
(* A script for the mysql client, as a sequence of symbols.  A symbol is   *)
(* one character where the lexer looks at characters.  What it sees only   *)
(* as a whole is one symbol or a short word: the client command            *)
(* `delimiter', an unsupported one such as `source', an assignment of      *)
(* sql_mode.  (restore/statementParser.ts)                                 *)
(***************************************************************************)
EXTENDS Integers, Sequences

CONSTANTS
  MaxCommandLength,    \* MAX_CLIENT_COMMAND_LENGTH
  MaxDelimiterLength,  \* MAX_DELIMITER_LENGTH
  MaxStatementBytes    \* options.maxStatementBytes, in symbols

\* `SET sql_mode = ...' with NO_BACKSLASH_ESCAPES in its value, and any other.
NoEscapesMode == "SET sql_mode=NO_BACKSLASH_ESCAPES"
OtherMode     == "SET sql_mode=@OLD_SQL_MODE"

Quotes     == { "'", "\"", "backtick" }
Spaces     == { " " }
Whitespace == Spaces \cup { "\n" }
Letters    == { "d", "l", "x", "M" }

\* The byte 0xA0, such as the last one of the two of `a' with a grave accent: no
\* blank to the lexer, but trim() strips it of a text read as latin1.
Nbsp    == "A0"
Trimmed == Whitespace \cup { Nbsp }

Symbols    == Quotes \cup Trimmed \cup Letters
              \cup { ";", "$", "\\", "#", "-", "/", "*", "!", "+", "9", NoEscapesMode, OtherMode }

delimiterCommand   == << "d", "l" >>       \* `delimiter'
unsupportedCommand == << "l", "d" >>       \* `source', `system', `tee', ...
sandboxPrefix      == << "/", "*", "M", "!", "9" >>   \* `/*M!999999'

ASSUME LengthsAssumption ==
  /\ MaxCommandLength \in Nat /\ MaxDelimiterLength \in Nat \ {0} /\ MaxStatementBytes \in Nat
  /\ Len(sandboxPrefix) <= MaxCommandLength + 2 * MaxDelimiterLength
  /\ Len(delimiterCommand) < MaxCommandLength /\ Len(unsupportedCommand) < MaxCommandLength

\* What one call returns or throws in the end.
ParserOutcome ==
  { "none", "completed", "cancelled", "malformed", "tooLarge", "unsupported", "invalidDelimiter" }

StartsWith(s, prefix) == Len(prefix) <= Len(s) /\ SubSeq(s, 1, Len(prefix)) = prefix

\* The end of the run of symbols in S from start, or limit.
RunEnd(s, start, limit, S) ==
  CHOOSE e \in start..limit : /\ \A k \in start..(e - 1) : s[k] \in S
                              /\ e = limit \/ s[e] \notin S

Trim(s) ==
  LET kept == { i \in DOMAIN s : s[i] \notin Trimmed }
  IN  IF kept = {} THEN << >>
      ELSE SubSeq(s, CHOOSE i \in kept : \A j \in kept : i <= j,
                     CHOOSE i \in kept : \A j \in kept : j <= i)

stripQuotes(s) ==
  IF Len(s) >= 2 /\ s[1] \in Quotes /\ s[Len(s)] = s[1] THEN SubSeq(s, 2, Len(s) - 1) ELSE s

\* A delimiter the client accepts, before and after its quotes are stripped.
IsDelimiter(raw) ==
  /\ Len(raw) < MaxDelimiterLength
  /\ stripQuotes(raw) # << >>
  /\ \A i \in DOMAIN stripQuotes(raw) : stripQuotes(raw)[i] # "\\"
=============================================================================
