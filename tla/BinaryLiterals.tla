--------------------------- MODULE BinaryLiterals ---------------------------
(***************************************************************************)
(* rewriteBinaryLiterals: a statement that is not valid UTF-8 cannot be    *)
(* sent as text, so its literals that are not become hexadecimal ones.     *)
(* An action is one turn of the scan's loop.  (restore/binaryLiterals.ts)  *)
(***************************************************************************)
EXTENDS StatementBytes

CONSTANT Statements

ASSUME StatementsAssumption ==
  \A s \in Statements : s \in Seq(SourceBytes \cup { "0x" } \cup Digits)

VARIABLES
  statement, index,
  copiedFrom,          \* where the part of the statement not yet copied begins
  out,                 \* the parts copied or rewritten
  rewrittenLiterals,
  phase

vars == << statement, index, copiedFrom, out, rewrittenLiterals, phase >>

Init ==
  /\ statement \in Statements
  /\ index = 1 /\ copiedFrom = 1 /\ out = << >> /\ rewrittenLiterals = 0
  /\ phase = "called"

-----------------------------------------------------------------------------
end == Len(statement) + 1
ByteAt(i) == IF i < end THEN statement[i] ELSE "end"
Slice(from, to) == SubSeq(statement, from, to - 1)

\* The first position at or behind i where P holds, or the end.
FirstFrom(i, P(_)) ==
  CHOOSE p \in i..end : (p = end \/ P(p)) /\ \A k \in i..(p - 1) : ~P(k)
AtMostEnd(i) == IF i < end THEN i ELSE end

skipToEndOfLine(i) == AtMostEnd(FirstFrom(i, LAMBDA p : ByteAt(p) = "\n") + 1)
skipBlockComment(i) ==
  AtMostEnd(FirstFrom(i + 2, LAMBDA p : ByteAt(p) = "*" /\ ByteAt(p + 1) = "/") + 2)

isCommentBoundary(byte) == byte \in Blanks \cup { "end" }

\* A doubled quote taken for the end of the literal and the start of another.
skipQuotedUndoubled(i, quote, backslashEscapes) ==
  LET scan[p \in 1..(end + 1)] ==
        IF p >= end THEN end
        ELSE IF backslashEscapes /\ ByteAt(p) = "\\" THEN scan[p + 2]
        ELSE IF ByteAt(p) = quote THEN p + 1
        ELSE scan[p + 1]
  IN  scan[i + 1]

\* The position behind the quote that closes the one at i.
skipQuoted(i, quote, backslashEscapes) ==
  LET scan[p \in 1..(end + 1)] ==
        IF p >= end THEN end
        ELSE IF backslashEscapes /\ ByteAt(p) = "\\" THEN scan[p + 2]
        ELSE IF ByteAt(p) # quote THEN scan[p + 1]
        ELSE IF ByteAt(p + 1) = quote THEN scan[p + 2]
        ELSE p + 1
  IN  scan[i + 1]

\* Where the bytes of B that end in front of e begin.
RunStart(e, B) ==
  CHOOSE b \in 1..e : (\A k \in b..(e - 1) : statement[k] \in B)
                      /\ (b = 1 \/ statement[b - 1] \notin B)

\* Where the introducer in front of the quote at i begins, or i: an underscore
\* and what else may be in a word.
PlainWordByte == Letters \cup { "0x" } \cup Digits
WordByte      == PlainWordByte \cup { "_binary" }

findBinaryIntroducer(i) ==
  LET wordEnd == RunStart(i, { Space })
      start == RunStart(wordEnd, WordByte)
      word == Slice(start, wordEnd)
  IN  IF word # << >> /\ word[1] = "_binary" /\ Range(Tail(word)) \subseteq PlainWordByte
      THEN start ELSE i

UNESCAPE(byte) == IF byte = "n" THEN "\n" ELSE byte

\* The bytes a literal's content denotes.
unescape(content) ==
  LET n == Len(content)
      from[p \in 1..(n + 2)] ==
        IF p > n THEN << >>
        ELSE IF content[p] = "\\" /\ p < n THEN << UNESCAPE(content[p + 1]) >> \o from[p + 2]
        ELSE IF content[p] = "'" /\ p < n /\ content[p + 1] = "'" THEN << "'" >> \o from[p + 2]
        ELSE << content[p] >> \o from[p + 1]
  IN  from[1]

\* Also the dump's renderHexLiteral.
toHexLiteral(bytes) ==
  IF bytes = << >> THEN << "'", "'" >> ELSE << "0x" >> \o [i \in DOMAIN bytes |-> HexPair[bytes[i]]]

-----------------------------------------------------------------------------
PassThrough ==
  /\ phase = "called"
  /\ IF isUtf8(statement)
     THEN phase' = "sent" /\ out' = statement
     ELSE phase' = "scanning" /\ UNCHANGED out
  /\ UNCHANGED << statement, index, copiedFrom, rewrittenLiterals >>

SkipTo(i) == index' = i /\ UNCHANGED << statement, copiedFrom, out, rewrittenLiterals, phase >>

OpensLineComment ==
  \/ ByteAt(index) = "#"
  \/ ByteAt(index) = "-" /\ ByteAt(index + 1) = "-" /\ isCommentBoundary(ByteAt(index + 2))
OpensComment == ByteAt(index) = "/" /\ ByteAt(index + 1) = "*"

\* What an executable comment or a hint holds is SQL.
IsExecutable ==
  ByteAt(index + 2) \in { "!", "+" } \/ (ByteAt(index + 2) = "M" /\ ByteAt(index + 3) = "!")

Scanning == phase = "scanning" /\ index < end

SkipLineComment == Scanning /\ OpensLineComment /\ SkipTo(skipToEndOfLine(index))

SkipComment ==
  /\ Scanning /\ OpensComment
  /\ SkipTo(IF IsExecutable THEN index + 2 ELSE skipBlockComment(index))

SkipName == Scanning /\ ByteAt(index) = "backtick" /\ SkipTo(skipQuoted(index, "backtick", FALSE))
SkipDoubleQuoted == Scanning /\ ByteAt(index) = "\"" /\ SkipTo(skipQuoted(index, "\"", TRUE))

\* The literal from index to behind its closing quote.
LiteralEnd == skipQuoted(index, "'", TRUE)
Content    == Slice(index + 1, LiteralEnd - 1)

SkipLiteral == Scanning /\ ByteAt(index) = "'" /\ isUtf8(Content) /\ SkipTo(LiteralEnd)

RewriteLiteral ==
  /\ Scanning /\ ByteAt(index) = "'" /\ ~isUtf8(Content)
  /\ out' = out \o Slice(copiedFrom, findBinaryIntroducer(index)) \o toHexLiteral(unescape(Content))
  /\ copiedFrom' = LiteralEnd /\ index' = LiteralEnd
  /\ rewrittenLiterals' = rewrittenLiterals + 1
  /\ UNCHANGED << statement, phase >>

SkipByte ==
  /\ Scanning /\ ~OpensLineComment /\ ~OpensComment
  /\ ByteAt(index) \notin { "backtick", "\"", "'" }
  /\ SkipTo(index + 1)

\* What is still not valid is outside the literals, and is refused.
Finish ==
  /\ phase = "scanning" /\ index >= end
  /\ out' = out \o Slice(copiedFrom, end)
  /\ phase' = IF isUtf8(out') THEN "sent" ELSE "failed"
  /\ UNCHANGED << statement, index, copiedFrom, rewrittenLiterals >>

Next ==
  \/ PassThrough \/ SkipLineComment \/ SkipComment \/ SkipName \/ SkipDoubleQuoted
  \/ SkipLiteral \/ RewriteLiteral \/ SkipByte \/ Finish

Spec == Init /\ [][Next]_vars

-----------------------------------------------------------------------------
(* The dump's side: data/valueRenderer.ts and security/literals.ts *)

STRING_ESCAPES(byte) ==
  IF byte \in { "'", "\"", "\\" } THEN << "\\", byte >>
  ELSE IF byte = "\n" THEN << "\\", "n" >> ELSE << byte >>

quoteMysqlBytes(value) ==
  << "'" >> \o FlattenSeq([i \in DOMAIN value |-> STRING_ESCAPES(value[i])]) \o << "'" >>

renderBytes(value, hexBlob) ==
  IF hexBlob THEN toHexLiteral(value) ELSE << "_binary", Space >> \o quoteMysqlBytes(value)
=============================================================================
