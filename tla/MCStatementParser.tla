------------------------- MODULE MCStatementParser -------------------------
(***************************************************************************)
(* Instances of StatementParser for TLC: all short scripts over the        *)
(* symbols of one construct, each cut into chunks in every way, against    *)
(* the split of the whole script.                                          *)
(***************************************************************************)
EXTENDS StatementParser, ScriptSplit

Over(S, n) == UNION { [1..k -> S] : k \in 0..n }
Behind(prefixes, scripts) == { p \o s : p \in prefixes, s \in scripts }
In(modes, scripts) == [ script : scripts, escapeMode : modes ]

\* Strings and identifiers, with both kinds of escape.
QuoteInputs ==
  In({ "auto" }, Over({ "'", "backtick", "\\", ";" }, 5))
  \cup In({ "disabled" }, Over({ "'", "\"", "\\", ";" }, 4))

\* Comments, and what only looks like one.
CommentInputs ==
  In({ "auto" }, Over({ "-", "/", "*", "!", "\n", ";" }, 3)
                 \cup Over({ "-", "\n", ";" }, 4) \cup Over({ "/", "*", "!", "\n" }, 4)
                 \cup Behind({ << "x", "/", "*" >> }, Over({ "*", "/", "+", "\n", ";" }, 3))
                 \cup Behind({ << "#" >>, << "/", "*", "M" >> },
                             Over({ "*", "/", "!", "#", "\n", ";" }, 3)))

\* The sandbox command, what falls short of it, and text around it.
SandboxInputs ==
  LET Prefixes == { SubSeq(sandboxPrefix, 1, n) : n \in 1..5 }
  IN  In({ "auto" }, Behind(Prefixes, Over({ "*", "/", ";", "x" }, 3))
                     \cup Behind({ << "x" >> \o p : p \in Prefixes }, Over({ "*", "/", ";", "x" }, 2)))

\* Commands: words at and off the start of a line, their arguments, and the
\* delimiters they set.
CommandInputs ==
  In({ "auto" },
     Behind({ << "d", "l" >>, << "d", "l", " " >> }, Over({ " ", "\n", "$", ";", "'" }, 3))
     \cup Behind({ << " ", "d" >>, << "l", "d" >>, << "x", "\n", "d", "l" >>, << ";", "\n", "d", "l" >>,
                   << "#", "\n", "d" >> },
                 Over({ " ", "\n", "$", "l" }, 3))
     \cup Behind({ << "d", "l", " ", "$", "$", "\n" >>, << "d", "l", " ", "$", ";", "$" >> },
                 Over({ "$", ";", "x", "\n" }, 3) \cup Behind({ << "d", "l" >> }, Over({ " ", "$", ";" }, 2)))
     \cup { << "d", "l" >> \o [i \in 1..n |-> " "] \o << "$", "\n" >> : n \in 0..12 })

\* What a statement that sets sql_mode changes in the strings behind it.
ModeInputs ==
  In({ "auto" },
     Behind({ << NoEscapesMode, ";" >>, << OtherMode, ";" >>, << NoEscapesMode, ";", OtherMode, ";" >> },
            Over({ "'", "\\", ";", "x" }, 4)))
  \cup In({ "enabled" }, Behind({ << NoEscapesMode, ";" >> }, Over({ "'", "\\", ";" }, 3)))

\* What trim() strips at the ends of a statement, and the lexer does not skip.
TrimInputs == In({ "auto" }, Over({ Nbsp, " ", ";", "x" }, 4))

\* Statements around the limit, and blanks and comments around it that a
\* command follows.
Repeated(symbol, Lengths) == { [i \in 1..n |-> symbol] : n \in Lengths }
LargeInputs ==
  In({ "auto" },
     Behind(Repeated("x", 4..10), Over({ ";", "'", "\n" }, 2))
     \cup Behind(Repeated(" ", 6..10) \cup { << "#" >> \o s \o << "\n" >> : s \in Repeated("x", 5..8) },
                 { << >>, << "l", "d" >>, << "\n", "l", "d", " " >>, << "d", "l", "\n" >>,
                   << "d", "l", " ", "\\" >>, << "d", "l", " ", "$", "\n", "x" >>,
                   << "x", ";" >>, << ";" >> }))

AllInputs ==
  QuoteInputs \cup CommentInputs \cup SandboxInputs \cup CommandInputs \cup ModeInputs
  \cup TrimInputs \cup LargeInputs

\* None of them has a command with a backslash, as the proof that chunks change
\* nothing asks.
ASSUME CommandsArePlain == PlainCommands

\* One error depends on the chunks: blanks and comments that are too long are
\* noticed when a chunk or a statement ends, so that a bad command behind them in
\* the same chunk is reported first.
ReportedFirst(whole) ==
  /\ whole.outcome = "tooLarge" /\ whole.blank
  /\ outcome \in { "unsupported", "invalidDelimiter" }

\* However the source is cut into chunks, the statements returned are those of
\* the whole script, in order, and so is the error, if there is one, but for that
\* case: a cancelled or failed parse has returned a part of the statements.
SplitsAsWhole ==
  LET whole == Split(input)
  IN  /\ pc \in { "idle", "done" } => StartsWith(whole.statements, delivered)
      /\ outcome \notin { "none", "cancelled" } => outcome = whole.outcome \/ ReportedFirst(whole)
      /\ outcome = "completed" => delivered = whole.statements
=============================================================================
