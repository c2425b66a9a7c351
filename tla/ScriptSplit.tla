---------------------------- MODULE ScriptSplit ----------------------------
(***************************************************************************)
(* The statements of a whole script, by definition: token by token, each   *)
(* recognised in the text that follows it, with no state of a scan.  It is *)
(* what SqlStatementParser promises for every way of cutting the script    *)
(* into chunks (restore/statementParser.ts:275-284).                       *)
(***************************************************************************)
EXTENDS ClientScript, FiniteSets

\* The first position from i on that is in S, or one past the script's end.
FirstIn(s, i, S) ==
  CHOOSE p \in i..(Len(s) + 1) : /\ p \in S \/ p = Len(s) + 1
                                 /\ \A k \in i..(p - 1) : k \notin S

SymbolAt(s, i) == IF i <= Len(s) THEN s[i] ELSE "end"

\* A quote is escaped behind an odd number of backslashes.  A doubled quote
\* closes a string and opens the next one.
IsEscaped(s, from, i) ==
  Cardinality({ k \in (from + 1)..(i - 1) : \A m \in k..(i - 1) : s[m] = "\\" }) % 2 = 1
ClosingQuote(s, i, escapes) ==
  FirstIn(s, i + 1, { p \in (i + 1)..Len(s) :
                        s[p] = s[i] /\ ~(escapes /\ s[i] # "backtick" /\ IsEscaped(s, i, p)) })

LineEnd(s, i) == FirstIn(s, i, { p \in i..Len(s) : s[p] = "\n" })
BlockEnd(s, i) == FirstIn(s, i + 2, { p \in (i + 2)..Len(s) : s[p] = "*" /\ SymbolAt(s, p + 1) = "/" })

StartsAt(s, i, token) == StartsWith(SubSeq(s, i, Len(s)), token)
IsLineStart(s, i) ==
  \A k \in 1..(i - 1) : s[k] \in Whitespace \/ \E m \in (k + 1)..(i - 1) : s[m] = "\n"
OpensLineComment(s, i) ==
  \/ s[i] = "#"
  \/ /\ StartsAt(s, i, << "-", "-" >>) /\ SymbolAt(s, i + 2) \in Whitespace \cup { "end" }
OpensBlockComment(s, i) ==
  /\ StartsAt(s, i, << "/", "*" >>)
  /\ SymbolAt(s, i + 2) \notin { "!", "+" } /\ ~StartsAt(s, i, << "/", "*", "M", "!" >>)

\* The word of a client command at i, with or without its backslash.
WordStart(s, i) == IF s[i] = "\\" THEN i + 1 ELSE i
WordEnd(s, i) == RunEnd(s, WordStart(s, i), Len(s) + 1, Letters)
IsCommandAt(s, i, name) ==
  /\ IsLineStart(s, i)
  /\ SubSeq(s, WordStart(s, i), WordEnd(s, i) - 1) = name
  /\ SymbolAt(s, WordEnd(s, i)) \in Whitespace \cup { "end" }
ArgumentStart(s, i) == RunEnd(s, WordEnd(s, i), Len(s) + 1, Spaces)
ArgumentEnd(s, i) == RunEnd(s, ArgumentStart(s, i), Len(s) + 1, Symbols \ Whitespace)
Argument(s, i) == SubSeq(s, ArgumentStart(s, i), ArgumentEnd(s, i) - 1)

-----------------------------------------------------------------------------
(* A split under way: the text since the last delimiter, whether it is only *)
(* blanks and comments, what the commands and statements before it have set. *)

Result(st, o) == [ statements |-> st.statements, outcome |-> o, blank |-> st.blank ]

Ended(st) ==
  IF st.blank \/ Trim(st.text) = << >> THEN [st EXCEPT !.text = << >>, !.blank = TRUE]
  ELSE LET modes == { i \in DOMAIN st.text : st.text[i] \in { NoEscapesMode, OtherMode } }
           first == CHOOSE i \in modes : \A j \in modes : i <= j
       IN  [st EXCEPT !.statements = Append(@, Trim(st.text)), !.text = << >>, !.blank = TRUE,
                      !.escapes = IF st.auto /\ modes # {} THEN st.text[first] = OtherMode ELSE @]

\* The symbols from i to j - 1, or to the script's end, belong to the statement.
Taking(st, s, i, j, isContent) ==
  [st EXCEPT !.text = @ \o SubSeq(s, i, IF j <= Len(s) THEN j - 1 ELSE Len(s)),
             !.blank = @ /\ ~isContent]

RECURSIVE SplitFrom(_, _, _)
SplitFrom(s, i, st) ==
  IF Len(st.text) > MaxStatementBytes THEN Result(st, "tooLarge")
  ELSE IF i > Len(s) THEN Result(Ended(st), "completed")
  ELSE IF st.blank /\ IsCommandAt(s, i, unsupportedCommand) THEN Result(st, "unsupported")
  ELSE IF st.blank /\ IsCommandAt(s, i, delimiterCommand) THEN
    IF ArgumentStart(s, i) - WordEnd(s, i) > MaxDelimiterLength \/ ~IsDelimiter(Argument(s, i))
    THEN Result(st, "invalidDelimiter")
    ELSE SplitFrom(s, LineEnd(s, ArgumentEnd(s, i)) + 1,
                   [st EXCEPT !.delimiter = stripQuotes(Argument(s, i)),
                              !.text = IF Trim(@) = << >> THEN << >> ELSE @])
  ELSE IF StartsAt(s, i, st.delimiter) THEN SplitFrom(s, i + Len(st.delimiter), Ended(st))
  ELSE IF s[i] \in Quotes THEN
    LET close == ClosingQuote(s, i, st.escapes)
        quoted == Taking(st, s, i, close + 1, TRUE)
    IN  IF close <= Len(s) THEN SplitFrom(s, close + 1, quoted)
        ELSE Result(st, IF Len(quoted.text) > MaxStatementBytes THEN "tooLarge" ELSE "malformed")
  ELSE IF OpensLineComment(s, i) THEN
    SplitFrom(s, LineEnd(s, i) + 1, Taking(st, s, i, LineEnd(s, i) + 1, FALSE))
  ELSE IF StartsAt(s, i, sandboxPrefix) THEN
    IF BlockEnd(s, i) > Len(s) THEN Result(st, "malformed") ELSE SplitFrom(s, BlockEnd(s, i) + 2, st)
  ELSE IF OpensBlockComment(s, i) THEN
    LET open == Taking(st, s, i, Len(s) + 1, FALSE)
    IN  IF BlockEnd(s, i) <= Len(s)
        THEN SplitFrom(s, BlockEnd(s, i) + 2, Taking(st, s, i, BlockEnd(s, i) + 2, FALSE))
        ELSE Result(st, IF Len(open.text) > MaxStatementBytes THEN "tooLarge" ELSE "malformed")
  \* The star of an executable comment's opening is not looked at again, and a
  \* dash that ends the script is nothing.
  ELSE LET end == IF StartsAt(s, i, << "/", "*" >>) THEN i + 2 ELSE i + 1
       IN  SplitFrom(s, end, Taking(st, s, i, end, ~(s[i] \in Whitespace \/ (s[i] = "-" /\ i = Len(s)))))

Split(in) ==
  SplitFrom(in.script, 1, [ text |-> << >>, blank |-> TRUE, statements |-> << >>,
                            delimiter |-> << ";" >>, auto |-> in.escapeMode = "auto",
                            escapes |-> in.escapeMode # "disabled" ])
=============================================================================
