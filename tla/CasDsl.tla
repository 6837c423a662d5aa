------------------------------- MODULE CasDsl -------------------------------
(* The highlighter of CasDsl cells (casdsl.ts), one token() call an operator. *)
EXTENDS Stream

RESERVED_WORDS       == {"dx", "Spec", "lim_", "map", "to", "is"}
NON_RESERVED_KEYWORDS == {"and", "O", "dt", "span_QQ"}
COMMAND_WORDS        == {"let", "assert", "in"}
CONSTANT_ATOMS       == {"pi", "e", "i", "aleph0", "scrP", "d"}

\* The other five, \NN to \CC, are no identifiers.
DOMAIN_TOKENS == {"bbN", "bbZ", "bbQ", "bbR", "bbC"}
Spelled       == {"NN", "ZZ", "QQ", "RR", "CC"}

keywords == RESERVED_WORDS \cup NON_RESERVED_KEYWORDS \cup COMMAND_WORDS

\* An identifier: no underscore to begin with, no superscript at all.
IDENT(line, p) ==
  Word(line, p, Alphabetic, Alphabetic \cup (Numerals \ {"sup2"}) \cup {"_", "'", "!", "?"})

\* Hexadecimal and binary literals are left out.
NUMBER(line, p) ==
  LET q == EndOf(line, p, Digits)
  IN IF q > p /\ q < Len(line) /\ line[q] = "." /\ line[q + 1] \in Digits
     THEN EndOf(line, q + 1, Digits) ELSE q

HASH_COMMAND(line, p) ==
  IF p <= Len(line) /\ line[p] = "#"
  THEN LET q == Word(line, p + 1, Alphabetic \cup {"_"}, Alphabetic \cup Numerals \cup {"_"})
       IN IF q > p + 1 THEN q ELSE p
  ELSE p

\* 'c' or '\c'
CHAR_LITERAL(line, p) ==
  LET Quotes(n) == p + n <= Len(line) /\ line[p] = "'" /\ line[p + n] = "'"
  IN CASE Quotes(2) /\ IsChar(line[p + 1]) /\ line[p + 1] \notin {"\\", "'"} -> p + 3
       [] Quotes(3) /\ line[p + 1] = "\\" /\ IsChar(line[p + 2]) -> p + 4
       [] OTHER -> p

\* From a quote to the next one that is not escaped, or to the end of the line.
String(line, p) ==
  LET escaped[k \in Nat] == k > p + 1 /\ line[k - 1] = "\\" /\ ~escaped[k - 1]
      quotes == {k \in p + 1 .. Len(line) : line[k] = "\"" /\ ~escaped[k]}
  IN IF p > Len(line) \/ line[p] # "\"" THEN p
     ELSE IF quotes = {} THEN Len(line) + 1
     ELSE 1 + CHOOSE k \in quotes : \A j \in quotes : k <= j

\* To the closing mark of the outermost comment, or the end of the line.
tokenBlockComment(line, p, state) ==
  LET Step(s) ==
        IF After(line, s.pos, <<"-", "/">>) > s.pos THEN [pos |-> s.pos + 2, depth |-> s.depth - 1]
        ELSE IF After(line, s.pos, <<"/", "-">>) > s.pos THEN [pos |-> s.pos + 2, depth |-> s.depth + 1]
        ELSE [pos |-> s.pos + 1, depth |-> s.depth]
      Ended(s) == s.depth = 0 \/ s.pos > Len(line)
      rest[n \in 0 .. Len(line)] ==
        IF n = 0 THEN [pos |-> p, depth |-> state.depth]
        ELSE IF Ended(rest[n - 1]) THEN rest[n - 1] ELSE Step(rest[n - 1])
      end == rest[Len(line)]
  IN [pos |-> end.pos, style |-> IF state.doc THEN "docComment" ELSE "comment",
      depth |-> end.depth, doc |-> state.doc /\ end.depth > 0]

\* Mutant: a plain block comment opens only at the start of a line.
OpenerAtStart(line, p) ==
  LET doc   == After(line, p, <<"/", "-", "-">>)
      block == After(line, p, <<"/", "-">>)
  IN CASE doc > p                         -> [pos |-> doc, depth |-> 1, doc |-> TRUE]
       [] doc = p /\ block > p /\ p = 1   -> [pos |-> block, depth |-> 1, doc |-> FALSE]
       [] OTHER                           -> [pos |-> p, depth |-> 0, doc |-> FALSE]

\* What opens a block comment at p, if anything does, and the state inside it.
Opener(line, p) ==
  LET doc   == After(line, p, <<"/", "-", "-">>)
      block == After(line, p, <<"/", "-">>)
  IN CASE doc > p              -> [pos |-> doc, depth |-> 1, doc |-> TRUE]
       [] doc = p /\ block > p -> [pos |-> block, depth |-> 1, doc |-> FALSE]
       [] OTHER                -> [pos |-> p, depth |-> 0, doc |-> FALSE]

\* The tokens outside comments, in the order in which they are tried.
Rules(line, p) ==
  LET ident == IDENT(line, p)
      name  == IF ident = p + 1 THEN line[p] ELSE ""
      Match(word)  == After(line, p, word)
      Dotted       == IF Match(<<".">>) > p /\ IDENT(line, p + 1) > p + 1
                      THEN IDENT(line, p + 1) ELSE p
      Latex(words) == IF \E w \in words : Match(<<"\\", w>>) > p THEN p + 2 ELSE p
  IN << [end |-> EndOf(line, p, {" "}), style |-> "none"],
        [end |-> IF Match(<<"-", "-">>) > p THEN Len(line) + 1 ELSE p, style |-> "comment"],
        [end |-> String(line, p), style |-> "string"],
        [end |-> CHAR_LITERAL(line, p), style |-> "string"],
        [end |-> NUMBER(line, p), style |-> "number"],
        [end |-> HASH_COMMAND(line, p), style |-> "meta"],
        [end |-> Match(<<"oo">>), style |-> "atom"],
        [end |-> Latex({"mapsto", "leq", "in"}), style |-> "operator"],
        [end |-> Latex(Spelled), style |-> "typeName"],
        [end |-> ident, style |-> CASE name \in keywords -> "keyword"
                                    [] name \in DOMAIN_TOKENS -> "typeName"
                                    [] name \in CONSTANT_ATOMS -> "atom"
                                    [] OTHER -> "variableName"],
        [end |-> Dotted, style |-> "methodName"],
        [end |-> Match(<<":", "=">>), style |-> "operator"],
        [end |-> Match(<<"|", "-", ">">>), style |-> "operator"],
        [end |-> Match(<<"-", ">">>), style |-> "operator"],
        [end |-> Match(<<".", ".", ".">>), style |-> "operator"],
        [end |-> p + 1, style |-> "operator"] >>

startState == [depth |-> 0, doc |-> FALSE]

\* One call of token(): what it painted and the state after it.
token(line, p, state) ==
  LET opener == Opener(line, p)
      code   == FirstOf(p, Rules(line, p))
  IN CASE state.depth > 0 -> tokenBlockComment(line, p, state)
       [] state.depth = 0 /\ opener.depth > 0 -> tokenBlockComment(line, opener.pos, opener)
       [] OTHER -> [pos |-> code.end, style |-> code.style, depth |-> 0, doc |-> state.doc]
=============================================================================
