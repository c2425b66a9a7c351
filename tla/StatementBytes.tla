--------------------------- MODULE StatementBytes ---------------------------
(***************************************************************************)
(* A statement on its way to the server, as a sequence of bytes: those the *)
(* lexer asks for, the two of one character that is not ASCII, letters,    *)
(* and a comma for everything else.  The word `_binary', the `0x' of a     *)
(* hexadecimal literal and a pair of its digits are one symbol each.       *)
(***************************************************************************)
EXTENDS Naturals, Sequences, TLC, SequencesExt

\* The two bytes of a character in UTF-8; neither is valid without the other.
Lead  == "lead"
Trail == "trail"
Space == " "

SourceBytes ==
  { "'", "\"", "backtick", "\\", "#", "-", "/", "*", "!", "M", ",", Space, "\n", "a", "n",
    Lead, Trail, "_binary" }

HexPair ==
  [ byte \in SourceBytes |->
      CASE byte = "'" -> "27" [] byte = "\"" -> "22" [] byte = "backtick" -> "60"
        [] byte = "\\" -> "5C" [] byte = "#" -> "23" [] byte = "-" -> "2D" [] byte = "/" -> "2F"
        [] byte = "*" -> "2A" [] byte = "!" -> "21" [] byte = "M" -> "4D" [] byte = "," -> "2C"
        [] byte = Space -> "20" [] byte = "\n" -> "0A" [] byte = "a" -> "61" [] byte = "n" -> "6E"
        [] byte = Lead -> "C3" [] byte = Trail -> "A9" [] byte = "_binary" -> "5F62696E617279" ]

Digits      == { HexPair[c] : c \in SourceBytes }
Blanks      == { Space, "\n" }
Letters     == { "a", "n", "M" }

isUtf8(s) ==
  \A i \in DOMAIN s : /\ s[i] = Lead => i < Len(s) /\ s[i + 1] = Trail
                      /\ s[i] = Trail => i > 1 /\ s[i - 1] = Lead
=============================================================================
