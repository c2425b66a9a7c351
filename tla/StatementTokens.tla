-------------------------- MODULE StatementTokens --------------------------
(***************************************************************************)
(* What the server reads in a statement, by definition and with no scan:   *)
(* the words, symbols, quoted names and strings, each string with the      *)
(* bytes it denotes.  Comments and blanks separate tokens and are none.    *)
(***************************************************************************)
EXTENDS StatementBytes, FiniteSets

WordBytes == Letters \cup { "_binary", "0x", Lead, Trail } \cup Digits

At(s, i) == IF i \in DOMAIN s THEN s[i] ELSE "end"
Looks(s, i, text) == \A k \in DOMAIN text : At(s, i + k - 1) = text[k]

\* How many of the places before i, without a gap, are in S.
RunBefore(i, S) == Cardinality({ k \in S : k < i /\ k..(i - 1) \subseteq S })
Odd(n) == n % 2 = 1

\* A byte behind an odd number of backslashes is escaped.
Escaped(s, from, i) == Odd(RunBefore(i, { k \in from..Len(s) : s[k] = "\\" }))

\* The quotes behind the one at i that are not escaped: the last one of the
\* first run of odd length closes it, for a doubled quote stands for itself.
Closing(s, i) ==
  LET Q == { p \in (i + 1)..Len(s) :
               s[p] = s[i] /\ ~(s[i] # "backtick" /\ Escaped(s, i + 1, p)) }
  IN  { p \in Q : p + 1 \notin Q /\ Odd(1 + RunBefore(p, Q)) }

Earliest(S) == CHOOSE p \in S : \A q \in S : p <= q

\* The piece of a statement that begins at i, up to one of the places in ends.
Piece(s, kind, i, ends) ==
  [ kind |-> IF ends = {} THEN "open" ELSE kind, from |-> i,
    to |-> IF ends = {} THEN Len(s) ELSE Earliest(ends) ]

PieceAt(s, i) ==
  LET Ends(P(_)) == { p \in i..Len(s) : P(p) }
      line  == Looks(s, i, << "#" >>)
               \/ (Looks(s, i, << "-", "-" >>) /\ At(s, i + 2) \in Blanks \cup { "end" })
      block == Looks(s, i, << "/", "*" >>)
      sql   == \E sign \in { << "!" >>, << "+" >>, << "M", "!" >> } : Looks(s, i + 2, sign)
  IN  CASE line -> Piece(s, "comment", i, Ends(LAMBDA p : s[p] = "\n" \/ p = Len(s)))
        [] block /\ ~sql ->
             Piece(s, "comment", i, Ends(LAMBDA p : p > i + 2 /\ Looks(s, p - 1, << "*", "/" >>)))
        [] block /\ sql -> Piece(s, "symbol", i, { i + 1 })
        [] s[i] = "'" -> Piece(s, "string", i, Closing(s, i))
        [] s[i] \in { "\"", "backtick" } -> Piece(s, "quoted", i, Closing(s, i))
        [] s[i] \in WordBytes -> Piece(s, "word", i, Ends(LAMBDA p : At(s, p + 1) \notin WordBytes))
        [] s[i] \in Blanks -> Piece(s, "blank", i, { i })
        [] OTHER -> Piece(s, "symbol", i, { i })

RECURSIVE PiecesFrom(_, _)
PiecesFrom(s, i) ==
  IF i > Len(s) THEN << >>
  ELSE LET p == PieceAt(s, i) IN << p >> \o PiecesFrom(s, p.to + 1)

Pieces(s) == PiecesFrom(s, 1)
TextOf(s, p) == SubSeq(s, p.from, p.to)
Content(s, p) == SubSeq(s, p.from + 1, p.to - 1)

-----------------------------------------------------------------------------
\* The bytes a string denotes: without the backslashes that escape, and with
\* one of every two quotes.
Value(c) ==
  LET escapes == { i \in DOMAIN c : c[i] = "\\" /\ ~Escaped(c, 1, i) }
      quotes  == { i \in DOMAIN c : c[i] = "'" /\ ~Escaped(c, 1, i) }
      kept    == { i \in DOMAIN c : i \notin escapes /\ ~(i \in quotes /\ Odd(RunBefore(i, quotes))) }
      Byte(i) == IF i - 1 \in escapes /\ c[i] = "n" THEN "\n" ELSE c[i]
  IN  FlattenSeq([i \in DOMAIN c |-> IF i \in kept THEN << Byte(i) >> ELSE << >>])

HexValue(digits) == [i \in DOMAIN digits |-> CHOOSE c \in SourceBytes : HexPair[c] = digits[i]]
IsHex(w) == Len(w) > 1 /\ w[1] = "0x" /\ Range(Tail(w)) \subseteq Digits

\* A string is one of bytes if it is written in hexadecimal or introduced so,
\* and has to be one if it is no text at all.
Token(kind, text, binary) == [kind |-> kind, text |-> text, binary |-> binary]
BytesToken(value) == Token("string", value, TRUE)

TokenOf(s, p) ==
  LET text == TextOf(s, p)
  IN  CASE p.kind = "string" -> Token("string", Value(Content(s, p)), ~isUtf8(text))
        [] p.kind = "word" /\ IsHex(text) -> BytesToken(HexValue(Tail(text)))
        [] OTHER -> Token(p.kind, text, FALSE)

\* An introducer is part of the string behind it.
Introduces(t, i) ==
  /\ i \in DOMAIN t /\ t[i] = Token("word", << "_binary" >>, FALSE)
  /\ i + 1 \in DOMAIN t /\ t[i + 1].kind = "string"

Tokens(s) ==
  LET pieces == SelectSeq(Pieces(s), LAMBDA p : p.kind \notin { "blank", "comment" })
      t == [i \in DOMAIN pieces |-> TokenOf(s, pieces[i])]
  IN  FlattenSeq([i \in DOMAIN t |->
        IF Introduces(t, i) THEN << >>
        ELSE IF Introduces(t, i - 1) THEN << BytesToken(t[i].text) >> ELSE << t[i] >>])

\* Every string, comment and quoted name ends.
Terminated(s) == \A i \in DOMAIN Pieces(s) : Pieces(s)[i].kind # "open"

RawLiterals(s) ==
  { p \in Range(Pieces(s)) : p.kind = "string" /\ ~isUtf8(TextOf(s, p)) }

\* All that is not valid UTF-8 is in strings.
Representable(s) ==
  \A p \in Range(Pieces(s)) : p.kind = "string" \/ isUtf8(TextOf(s, p))
=============================================================================
