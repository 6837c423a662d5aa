-------------------------------- MODULE Lean4 --------------------------------
(***************************************************************************)
(* The highlighter of Lean 4 cells (lean4.ts), one token() call an         *)
(* operator.  It takes CasDsl's word lists and repeats the rest.           *)
(***************************************************************************)
EXTENDS Stream

Cas == INSTANCE CasDsl

CORE_KEYWORDS ==
  {"abbrev", "by", "deriving", "def", "do", "elab", "else", "end", "example", "from", "fun",
   "have", "if", "import", "in", "inductive", "initialize", "instance", "lemma", "let",
   "macro", "match", "mutual", "namespace", "noncomputable", "open", "partial", "private",
   "protected", "return", "section", "set_option", "show", "structure", "syntax", "then",
   "theorem", "universe", "unsafe", "variable", "where", "with"}

\* Mutant: the list is kept by hand and a new command word is forgotten.
ForgottenDefault == (Cas!RESERVED_WORDS \cup Cas!NON_RESERVED_KEYWORDS) \cup {"prefer"}

DEFAULT_DSL_KEYWORDS ==
  Cas!RESERVED_WORDS \cup Cas!NON_RESERVED_KEYWORDS \cup Cas!COMMAND_WORDS \cup {"prefer"}

HOLE == "sorry"

IDENT(line, p) ==
  Word(line, p, Alphabetic \cup {"_"}, Alphabetic \cup Numerals \cup {"_", "'", "!", "?"})

\* Hexadecimal and binary literals are left out.
NUMBER(line, p) ==
  LET q == EndOf(line, p, Digits)
  IN IF q > p /\ q < Len(line) /\ line[q] = "." /\ line[q + 1] \in Digits
     THEN EndOf(line, q + 1, Digits) ELSE q

HASH_COMMAND(line, p) ==
  IF p <= Len(line) /\ line[p] = "#"
  THEN LET q == Word(line, p + 1, Alphabetic \cup {"_"}, Alphabetic \cup Numerals \cup {"_"})
       IN IF q > p + 1 THEN q ELSE p
  ELSE p

\* 'c' or '\c'
CHAR_LITERAL(line, p) ==
  LET Quotes(n) == p + n <= Len(line) /\ line[p] = "'" /\ line[p + n] = "'"
  IN CASE Quotes(2) /\ IsChar(line[p + 1]) /\ line[p + 1] \notin {"\\", "'"} -> p + 3
       [] Quotes(3) /\ line[p + 1] = "\\" /\ IsChar(line[p + 2]) -> p + 4
       [] OTHER -> p

\* Mutant: the quote is not escaped by what precedes it.
StringUnescaped(line, p) ==
  LET quotes == {k \in p + 1 .. Len(line) : line[k] = "\""}
  IN IF p > Len(line) \/ line[p] # "\"" THEN p
     ELSE IF quotes = {} THEN Len(line) + 1
     ELSE 1 + CHOOSE k \in quotes : \A j \in quotes : k <= j

\* From a quote to the next one that is not escaped, or to the end of the line.
String(line, p) ==
  LET escaped[k \in Nat] == k > p + 1 /\ line[k - 1] = "\\" /\ ~escaped[k - 1]
      quotes == {k \in p + 1 .. Len(line) : line[k] = "\"" /\ ~escaped[k]}
  IN IF p > Len(line) \/ line[p] # "\"" THEN p
     ELSE IF quotes = {} THEN Len(line) + 1
     ELSE 1 + CHOOSE k \in quotes : \A j \in quotes : k <= j

\* Mutant: a doc comment that is closed leaves its mark.
StillDocKept(state, depth) == state.doc

\* state.doc lasts until the outermost comment is closed.
StillDoc(state, depth) == state.doc /\ depth > 0

\* To the closing mark of the outermost comment, or the end of the line.
tokenBlockComment(line, p, state) ==
  LET Step(s) ==
        IF After(line, s.pos, <<"-", "/">>) > s.pos THEN [pos |-> s.pos + 2, depth |-> s.depth - 1]
        ELSE IF After(line, s.pos, <<"/", "-">>) > s.pos THEN [pos |-> s.pos + 2, depth |-> s.depth + 1]
        ELSE [pos |-> s.pos + 1, depth |-> s.depth]
      Ended(s) == s.depth = 0 \/ s.pos > Len(line)
      rest[n \in 0 .. Len(line)] ==
        IF n = 0 THEN [pos |-> p, depth |-> state.depth]
        ELSE IF Ended(rest[n - 1]) THEN rest[n - 1] ELSE Step(rest[n - 1])
      end == rest[Len(line)]
  IN [pos |-> end.pos, style |-> IF state.doc THEN "docComment" ELSE "comment",
      depth |-> end.depth, doc |-> StillDoc(state, end.depth)]

\* What opens a block comment at p, if anything does, and the state inside it.
Opener(line, p) ==
  LET doc   == After(line, p, <<"/", "-", "-">>)
      block == After(line, p, <<"/", "-">>)
  IN CASE doc > p              -> [pos |-> doc, depth |-> 1, doc |-> TRUE]
       [] doc = p /\ block > p -> [pos |-> block, depth |-> 1, doc |-> FALSE]
       [] OTHER                -> [pos |-> p, depth |-> 0, doc |-> FALSE]

\* The tokens outside comments, in the order in which they are tried.
Rules(keywords, line, p) ==
  LET ident == IDENT(line, p)
      name  == IF ident = p + 1 THEN line[p] ELSE ""
      Match(word) == After(line, p, word)
      method      == IF Match(<<".">>) > p THEN IDENT(line, p + 1) ELSE p
  IN << [end |-> EndOf(line, p, {" "}), style |-> "none"],
        [end |-> IF Match(<<"-", "-">>) > p THEN Len(line) + 1 ELSE p, style |-> "comment"],
        [end |-> String(line, p), style |-> "string"],
        [end |-> CHAR_LITERAL(line, p), style |-> "string"],
        [end |-> NUMBER(line, p), style |-> "number"],
        [end |-> HASH_COMMAND(line, p), style |-> "meta"],
        [end |-> ident,
         style |-> CASE name = HOLE -> "invalid"
                     [] name # HOLE /\ name \in keywords -> "keyword"
                     [] name \notin keywords \cup {HOLE}
                          /\ name \in Cas!CONSTANT_ATOMS \cup Cas!DOMAIN_TOKENS -> "atom"
                     [] OTHER -> "variableName"],
        [end |-> IF method > p + 1 THEN method ELSE p, style |-> "methodName"],
        [end |-> Match(<<":", "=">>), style |-> "operator"],
        [end |-> Match(<<"=", ">">>), style |-> "operator"],
        [end |-> Match(<<"-", ">">>), style |-> "operator"],
        [end |-> p + 1, style |-> "operator"] >>

\* Mutant: a lone dot is looked at and left.
CodeLoneDot(keywords, line, p) ==
  IF line[p] = "." /\ IDENT(line, p + 1) = p + 1 THEN [end |-> p, style |-> "operator"]
  ELSE FirstOf(p, Rules(keywords, line, p))

Code(keywords, line, p) == FirstOf(p, Rules(keywords, line, p))

startState == [depth |-> 0, doc |-> FALSE]

\* One call of token() of makeLean4Parser(extra): what it painted and the state
\* after it.
token(extra, line, p, state) ==
  LET opener == Opener(line, p)
      code   == Code(CORE_KEYWORDS \cup extra, line, p)
  IN CASE state.depth > 0 -> tokenBlockComment(line, p, state)
       [] state.depth = 0 /\ opener.depth > 0 -> tokenBlockComment(line, opener.pos, opener)
       [] OTHER -> [pos |-> code.end, style |-> code.style, depth |-> 0, doc |-> state.doc]
==============================================================================
