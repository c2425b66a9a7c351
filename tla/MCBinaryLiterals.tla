-------------------------- MODULE MCBinaryLiterals --------------------------
(***************************************************************************)
(* Instances of BinaryLiterals for TLC: all short statements over the      *)
(* bytes of one construct, against the server's reading of them.           *)
(***************************************************************************)
EXTENDS BinaryLiterals

S == INSTANCE StatementTokens

Over(B, n) == UNION { [1..k -> B] : k \in 0..n }
Around(before, words, after) == { before \o w \o after : w \in words }
RawLiteral == << "'", Lead, "'" >>

\* Strings, introduced or not, with both kinds of escape, and other quotes.
EscapeInputs ==
  Around(<< "_binary", " ", "'" >>, Over({ "\\", "'", "n", Lead, Trail }, 5), << "'", "," >>)
  \cup Around(<< "'" >>, Over({ "\\", "'", "\"", Lead, "," }, 4), << "'" >>)
QuoteInputs ==
  Over({ "\"", "backtick", "'", "\\", Lead }, 4)
  \cup Around(<< >>, Over({ "\"", "backtick", "'", "\\" }, 4), << "," >> \o RawLiteral)

\* Words and blanks in front of a string, and what follows it.
IntroducerInputs ==
  Around(<< >>, Over({ "_binary", " ", "\n", "a", "," }, 4), RawLiteral)
  \cup Around(<< "_binary" >> \o RawLiteral, Over({ ",", " ", "_binary", "'", Lead, Trail }, 5), << >>)

\* Comments, executable comments and what only looks like one.
CommentInputs ==
  Around(<< >>, Over({ "#", "-", "/", "*", "\n", " " }, 4), << "," >> \o RawLiteral)
  \cup Around(<< "/", "*" >>, Over({ "!", "M", "*", "/", "'", Lead }, 5), << "*", "/" >>)
  \cup Around(<< "-", "-", " " >>, Over({ "'", Lead, Trail, "\n" }, 4), << "\n" >> \o RawLiteral)

\* What a dump writes for the bytes of a column.
Values == Over({ "'", "\\", "n", "\n", Lead, Trail }, 3)
Rendered(v, hexBlob) == << "," >> \o renderBytes(v, hexBlob) \o << "," >>
DumpInputs == { Rendered(v, hexBlob) : v \in Values, hexBlob \in BOOLEAN }

\* The parser returns whole statements only.  Neighbours a dump does not
\* write are left out: a string next to another or touching a word that is no
\* introducer, an introducer of an introducer, and names that begin like one.
Ordinary(s) ==
  LET P == S!Pieces(s)
      T == S!Tokens(s)
  IN  /\ S!Terminated(s)
      /\ \A i \in 1..(Len(T) - 1) :
           /\ ~({ T[i].kind, T[i + 1].kind } \subseteq { "string", "quoted" })
           /\ ~(T[i].text = << "_binary" >> /\ T[i + 1].kind = "string")
      /\ \A i \in 1..(Len(P) - 1) :
           /\ P[i].kind = "word" /\ P[i + 1].kind = "string" => S!TextOf(s, P[i]) = << "_binary" >>
           /\ ~(P[i].kind = "string" /\ P[i + 1].kind = "word")
      /\ \A p \in Range(P) : p.kind = "word" =>
           LET w == S!TextOf(s, p)
           IN  "_binary" \in Range(w) => w = << "_binary" >> \/ w[1] \in Letters

AllStatements ==
  DumpInputs \cup { s \in EscapeInputs \cup QuoteInputs \cup IntroducerInputs \cup CommentInputs :
                      Ordinary(s) }

\* A statement is sent if and only if all its bytes outside of strings are
\* text, and then the server reads the same in it as in the dump: the same
\* tokens, every string with the same bytes, and only those made byte strings
\* that were or had to be.  In particular a column's bytes come back as they
\* were dumped, in either form (rewriteBinaryLiterals, renderBytes).
SentAsWritten ==
  /\ phase = "sent" =>
       /\ S!Representable(statement) /\ isUtf8(out)
       /\ S!Tokens(out) = S!Tokens(statement)
       /\ rewrittenLiterals = Cardinality(S!RawLiterals(statement))
       /\ statement \in DumpInputs => \A v \in Values, hexBlob \in BOOLEAN :
            statement = Rendered(v, hexBlob) =>
              S!Tokens(out)[2].kind = "string" /\ S!Tokens(out)[2].text = v
  /\ phase = "failed" => ~S!Representable(statement)
=============================================================================
