------------------------------- MODULE Stream -------------------------------
(***************************************************************************)
(* What the two highlighters use of CodeMirror: a StringStream over a line *)
(* and regular expressions matched at a position of it.                    *)
(*                                                                         *)
(* A line is a sequence of symbols.  A symbol is one character, or one     *)
(* whole word of the languages' word lists: two words side by side are an  *)
(* identifier that is in no list.  Characters outside ASCII have names:    *)
(* "sup2" is a superscript digit, "sub0" a subscript one, "oo" the symbol  *)
(* for infinity, "bbN" the domain of the naturals and so on; "7" is any    *)
(* digit, " " any space, "," any other punctuation, "foo" any word of no   *)
(* list.  A word after a backslash is one that casdsl.ts spells out or     *)
(* begins with none of them.                                               *)
(*                                                                         *)
(* An operator that looks for something at p returns the position after    *)
(* it, and p itself when it is not there.                                  *)
(***************************************************************************)
EXTENDS Integers, Sequences

Marks == {" ", "-", "/", "\"", "\\", "'", ".", ":", "=", ">", "|", "#", "_", "!", "?",
          "7", "sub0", "sup2", "oo", ","}

\* \p{N}, of which only some are \d.
Numerals == {"7", "sub0", "sup2"}
Digits   == {"7"}

\* The letters that are words of their own; the other words are longer.
Letters == {"e", "i", "d", "O", "pi", "scrP", "bbN", "bbZ", "bbQ", "bbR", "bbC"}

Alphabetic == STRING \ Marks

\* What a dot or a class of a regular expression takes: one UTF-16 unit, where
\* "scrP" has two.
IsChar(s) == s \in Marks \cup (Letters \ {"scrP"})

\* The end of the symbols from p on that are in S.
EndOf(line, p, S) ==
  CHOOSE q \in p .. Len(line) + 1 :
    /\ \A r \in p .. q - 1 : line[r] \in S
    /\ q <= Len(line) => line[q] \notin S

\* match(string)
After(line, p, word) ==
  LET q == p + Len(word)
  IN IF q <= Len(line) + 1 /\ SubSeq(line, p, q - 1) = word THEN q ELSE p

\* A symbol that may start a word, then those that may follow it.
Word(line, p, starts, follows) ==
  IF p <= Len(line) /\ line[p] \in starts THEN EndOf(line, p + 1, follows) ELSE p

\* The first rule that consumes something; the last one always does.  The rules are
\* evaluated once, as the argument of a function.
FirstOf(p, rules) ==
  LET first[s \in {rules}] ==
        s[CHOOSE i \in DOMAIN s : s[i].end > p /\ \A j \in 1 .. i - 1 : s[j].end <= p]
  IN first[rules]
=============================================================================
