--------------------------- MODULE CellViewInv ----------------------------
(***************************************************************************)
(* What an output shows and what the editors have painted at any time,     *)
(* for every text: the inductive invariants of CellView. LastChild and     *)
(* OutputInv are those of the output, EditInv that of the editors. ReadInv *)
(* says how the rows of an editor came about: as the calls of token(), and *)
(* as a walk from comment to comment, by which two tokenizers can be       *)
(* compared.                                                               *)
(***************************************************************************)
EXTENDS CellView

----------------------------------------------------------------------------
(* The output *)

\* What the widget holds is the child of the payload rendered last, alone.
LastChild ==
  widget # <<>> => /\ shown \in Payload \cup {NoObject}
                   /\ widget = <<Child(shown)>>

\* The settings and the output.
OutputInv ==
  /\ lean \in {{}} \cup {{readKeywords(value)} : value \in Settings \cup {SchemaDefault, NoWords}}
  /\ shown \in Payloads \cup {NoObject}

----------------------------------------------------------------------------
(* Tokens *)

\* A comment mark at k.
Opens(line, k) ==
  k + 1 <= Len(line) /\ <<line[k], line[k + 1]>> \in {<<"-", "-">>, <<"/", "-">>}

\* The styles of the two token tables.
Styles ==
  {"none", "comment", "docComment", "string", "number", "meta", "invalid", "keyword", "atom",
   "variableName", "methodName", "operator", "typeName"}

\* No comment mark from p to q.
NoMark(line, p, q) == \A k \in p .. q - 1 : ~Opens(line, k)

\* What a rule of either language says of the symbols from p on.
RuleOK(line, p, r) ==
  /\ r.end \in p .. Len(line) + 1 /\ r.style \in Styles
  /\ Shade(r.style) = "code" /\ r.end > p => NoMark(line, p, r.end)

\* startState and what follows from it: a doc comment is a comment.
ParserState(state) ==
  state.depth \in Nat /\ state.doc \in BOOLEAN /\ (state.doc => state.depth > 0)

\* What a call of token() at p gives: it advances within the line, and what it paints
\* as code holds no comment mark.
TokenOK(line, p, r) ==
  /\ r.pos \in p + 1 .. Len(line) + 1 /\ r.style \in Styles /\ ParserState(r)
  /\ Shade(r.style) = "code" => NoMark(line, p, r.pos)

----------------------------------------------------------------------------
(* Editors *)

\* A parser that has read nothing.
AtStart == [line |-> 1, pos |-> 1, depth |-> 0, doc |-> FALSE]

\* How far line l has been painted when the parser is at a.
Extent(a, l) ==
  IF l < a.line THEN Len(text[l]) ELSE IF l = a.line THEN a.pos - 1 ELSE 0

\* The painted part of a line has its styles, and no mark in it is code.
LineOK(d, l) ==
  /\ paint[d][l] \in Seq(Styles) /\ Len(paint[d][l]) = Extent(at[d], l)
  /\ \A k \in 1 .. Len(paint[d][l]) : Shade(paint[d][l][k]) = "code" => ~Opens(text[l], k)

\* An editor with a text: the parser is at a position of it or behind its end.
EditorOK(d) ==
  /\ ParserState(at[d]) /\ at[d].line \in 1 .. Len(text) + 1
  /\ at[d].pos \in 1 .. (IF at[d].line <= Len(text) THEN Len(text[at[d].line]) ELSE 0) + 1
  /\ DOMAIN paint[d] = DOMAIN text /\ \A l \in DOMAIN text : LineOK(d, l)

\* The inductive invariant of the editors.
EditInv ==
  /\ text = <<>> \/ text \in Texts
  /\ DOMAIN at = Dialects /\ DOMAIN paint = Dialects
  /\ text = <<>> => \A d \in Dialects : at[d] = AtStart
  /\ text # <<>> => \A d \in Dialects : EditorOK(d)

\* Where CodeMirror calls token(), the call ends behind where it began, in the line.
CallsAdvance ==
  \A d \in Dialects : Turn(d) /\ at[d].pos <= Len(text[at[d].line]) =>
    \A r \in CallToken(d) : r.pos \in at[d].pos + 1 .. Len(text[at[d].line]) + 1

----------------------------------------------------------------------------
(* What token() takes in plain code *)

\* The symbols that TLA+ strings must escape, by name: the mark of a string, the
\* blank that eatSpace eats, and the backslash of the LaTeX spellings.
Quote == "\""
Blank == " "
Backslash == "\\"

\* What begins a word of lean4.ts (IDENT) and what goes on with it.
Starts == Lean!Alphabetic \cup {"_"}
Inner == Lean!Alphabetic \cup Lean!Numerals \cup {"_", "'", "!", "?"}

\* stream.match of two symbols succeeds at p.
Pair(line, p, a, b) == p + 1 <= Len(line) /\ line[p] = a /\ line[p + 1] = b

\* stream.match of three symbols succeeds at p.
Triple(line, p, a, b, c) == p + 2 <= Len(line) /\ line[p] = a /\ line[p + 1] = b /\ line[p + 2] = c

\* A LaTeX spelling of these words is at p (casdsl.ts:176-189).
Latex(line, p, words) == p + 1 <= Len(line) /\ line[p] = Backslash /\ line[p + 1] \in words

\* A line comment opens at p.
Dashes(line, p) == p + 1 <= Len(line) /\ line[p] = "-" /\ line[p + 1] = "-"

\* At p one of the rules takes a comment or a literal that both files try before any
\* rule of code: --, a string or a character (lean4.ts:120-152, casdsl.ts:125-157).
Lit(line, p) == Dashes(line, p) \/ line[p] = Quote \/ Lean!CHAR_LITERAL(line, p) > p

\* What such a rule takes.
LitOf(line, p) ==
  IF Dashes(line, p) THEN [end |-> Len(line) + 1, style |-> "comment"]
  ELSE [end |-> IF line[p] = Quote THEN Lean!String(line, p) ELSE Lean!CHAR_LITERAL(line, p),
        style |-> "string"]

\* Where plain code is left: a literal, or a block comment.
Opening(line, p) == Lit(line, p) \/ Pair(line, p, "/", "-")

\* The word at p when it is one symbol long: every word of the tables is.
LeanName(line, p) == IF Lean!IDENT(line, p) = p + 1 THEN line[p] ELSE ""
CasName(line, p)  == IF Cas!IDENT(line, p) = p + 1 THEN line[p] ELSE ""

\* How lean4.ts paints a word (lean4.ts:162-178): the hole, the keywords, then the
\* constants and domains it shares with casdsl.ts.
LeanStyle(words, name) ==
  CASE name = Lean!HOLE -> "invalid"
    [] name # Lean!HOLE /\ name \in words -> "keyword"
    [] name \notin words \cup {Lean!HOLE}
         /\ name \in Lean!Cas!CONSTANT_ATOMS \cup Lean!Cas!DOMAIN_TOKENS -> "atom"
    [] OTHER -> "variableName"

\* How casdsl.ts paints a word (casdsl.ts:193-206): keywords, domains, constants.
CasStyle(name) ==
  CASE name \in Cas!keywords -> "keyword"
    [] name \in Cas!DOMAIN_TOKENS -> "typeName"
    [] name \in Cas!CONSTANT_ATOMS -> "atom"
    [] OTHER -> "variableName"

\* A dot with a word behind it is a method (lean4.ts:184-191, casdsl.ts:212-219).
LeanMethod(line, p) == line[p] = "." /\ Lean!IDENT(line, p + 1) > p + 1
CasMethod(line, p)  == line[p] = "." /\ Cas!IDENT(line, p + 1) > p + 1

\* What both languages read alike outside literals: blanks, numbers, # commands and
\* the two arrows, := and ->.
Common(line, p, r) ==
  \/ line[p] = Blank /\ r = [end |-> Lean!EndOf(line, p, {Blank}), style |-> "none"]
  \/ line[p] \in Lean!Digits /\ r = [end |-> Lean!NUMBER(line, p), style |-> "number"]
  \/ line[p] = "#" /\ Lean!HASH_COMMAND(line, p) > p
       /\ r = [end |-> Lean!HASH_COMMAND(line, p), style |-> "meta"]
  \/ Pair(line, p, ":", "=") /\ r = [end |-> p + 2, style |-> "operator"]
  \/ Pair(line, p, "-", ">") /\ r = [end |-> p + 2, style |-> "operator"]

\* The last rule of both files takes one symbol, whatever it is.
Single(line, p, r) ==
  /\ line[p] \notin Lean!Digits \cup {Blank} \cup Lean!Alphabetic
  /\ line[p] = "#" => Lean!HASH_COMMAND(line, p) = p
  /\ ~Pair(line, p, ":", "=") /\ ~Pair(line, p, "-", ">")
  /\ r.end = p + 1

\* What lean4.ts takes at p where no literal begins: token() from the rule for blanks
\* to the last one, each with the condition under which it is reached and succeeds.
LeanPick(words, line, p, r) ==
  \/ Common(line, p, r)
  \/ line[p] \in Starts /\ r = [end |-> Lean!IDENT(line, p), style |-> LeanStyle(words, LeanName(line, p))]
  \/ LeanMethod(line, p) /\ r = [end |-> Lean!IDENT(line, p + 1), style |-> "methodName"]
  \/ Pair(line, p, "=", ">") /\ r = [end |-> p + 2, style |-> "operator"]
  \/ /\ Single(line, p, r) /\ line[p] # "_" /\ ~LeanMethod(line, p) /\ ~Pair(line, p, "=", ">")
     /\ r.style = "operator"

\* The same of casdsl.ts, with its LaTeX spellings, |->, the ellipsis and the
\* symbol for infinity.
CasPick(line, p, r) ==
  \/ Common(line, p, r)
  \/ Latex(line, p, {"mapsto", "leq", "in"}) /\ r = [end |-> p + 2, style |-> "operator"]
  \/ Latex(line, p, Cas!Spelled) /\ r = [end |-> p + 2, style |-> "typeName"]
  \/ /\ line[p] \in Lean!Alphabetic
     /\ r = [end |-> Cas!IDENT(line, p), style |-> CasStyle(CasName(line, p))]
  \/ CasMethod(line, p) /\ r = [end |-> Cas!IDENT(line, p + 1), style |-> "methodName"]
  \/ Triple(line, p, "|", "-", ">") /\ r = [end |-> p + 3, style |-> "operator"]
  \/ Triple(line, p, ".", ".", ".") /\ r = [end |-> p + 3, style |-> "operator"]
  \/ /\ Single(line, p, r) /\ ~CasMethod(line, p) /\ ~Triple(line, p, "|", "-", ">")
     /\ r.style = IF line[p] = "oo" THEN "atom" ELSE "operator"

\* What the editor of d takes at p in plain code, with one of the readings of the
\* setting.
PickOf(d, words, line, p, c) ==
  IF d = "lean4" THEN \E extra \in words : LeanPick(Lean!CORE_KEYWORDS \cup extra, line, p, c)
  ELSE CasPick(line, p, c)

\* The calls of token() that the editor of d may make at p.
CallOf(d, words, line, p, s) ==
  IF d = "lean4" THEN {Lean!token(extra, line, p, s) : extra \in words} ELSE {Cas!token(line, p, s)}

\* What a call leaves of the parser's state.
StateOf(r) == [depth |-> r.depth, doc |-> r.doc]

\* The states of a parser: a doc comment is a comment.
PStates == {s \in [depth : Nat, doc : BOOLEAN] : s.doc => s.depth > 0}

----------------------------------------------------------------------------
(* Where both languages leave code, and the walk over a line *)

\* A word from p to e that ends where both files would end one.
IsWord(line, p, e) ==
  /\ p <= Len(line) /\ line[p] \in Starts
  /\ \A k \in p + 1 .. e - 1 : line[k] \in Inner
  /\ e <= Len(line) => line[e] \notin Inner \ {"sup2"}

\* The shapes of what either file takes in plain code, whichever of its rules took it: a
\* word, a method, a # command, a LaTeX spelling, or symbols that open nothing and are
\* no part of a word (but for a lone underscore).
Kind(line, p, e) ==
  \/ IsWord(line, p, e)
  \/ line[p] = "." /\ p + 1 < e /\ IsWord(line, p + 1, e)
  \/ line[p] = "#" /\ e = Lean!HASH_COMMAND(line, p)
  \/ line[p] = Backslash /\ e = p + 2 /\ p + 1 <= Len(line) /\ line[p + 1] \in Starts
  \/ /\ \A k \in p + 1 .. e - 1 : line[k] \notin Starts \cup {"#"} /\ ~Opening(line, k)
     /\ line[p] \in Starts => line[p] = "_" /\ e = p + 1
     /\ line[p] = "#" => e = p + 1 /\ Lean!HASH_COMMAND(line, p) = p

\* After y, a # command is being read at i: its end is not the end of a word.
InHash(line, y, i) ==
  \E h \in y .. i - 1 :
    /\ line[h] = "#" /\ line[h + 1] \in Starts
    /\ \A k \in h + 1 .. i : line[k] \in Starts \cup Lean!Numerals

\* After y, a word is being read at o.
InWord(line, y, o) ==
  \E i \in y .. o - 1 :
    line[i] \in Starts /\ (\A k \in i + 1 .. o - 1 : line[k] \in Inner) /\ ~InHash(line, y, i)

\* Both files leave code at o when they began to read it at y: a literal or a comment
\* opens there, and an apostrophe is not the prime of a word.
Hits(line, y, o) == Opening(line, o) /\ (line[o] = "'" => ~InWord(line, y, o))

\* b breaks the word in which p is, in CasDsl.
Breaks(line, b, p) ==
  /\ \A k \in b + 1 .. p : line[k] \in Inner
  /\ line[b] \in {"_", "sup2"} \/ (line[b] = Backslash /\ b + 1 < p)

\* A parser that began with code at y may stand at p: not inside a # command, and inside
\* a word only behind a symbol that ends a word of CasDsl.
Placed(line, y, p) ==
  p <= Len(line) =>
    /\ ~InHash(line, y, p)
    /\ InWord(line, y, p) /\ line[p] \in Inner => \E b \in y .. p : Breaks(line, b, p)

\* Where code that begins at y is first left; a comment is left at once.
First(line, s, y, o) ==
  IF s.depth > 0 THEN o = y
  ELSE Hits(line, y, o) /\ \A k \in y .. o - 1 : ~Hits(line, y, k)

\* From y on there is code up to the first place that leaves it; the token there, the same
\* in both files, ends at another position of Y.
Jumps(line, row, Y, st, y) ==
  \E o \in y .. Len(line) :
    LET r == Cas!token(line, o, st[y])
    IN /\ First(line, st[y], y, o)
       /\ r.pos \in Y /\ r.pos > o /\ st[r.pos] = StateOf(r)
       /\ \A k \in y .. o - 1 : Shade(row[k]) = "code"
       /\ \A k \in o .. r.pos - 1 : Shade(row[k]) = Shade(r.style)

\* From y on there has been code only, up to p.
Rests(line, row, p, s, t, y) ==
  /\ s = t /\ (t.depth > 0 => y = p) /\ Placed(line, y, p)
  /\ \A k \in y .. p - 1 : Shade(row[k]) = "code" /\ ~Hits(line, y, k)

\* The positions Y at which code or a comment begins: each leads to the next one by a
\* token that is a comment or a literal, and the last one to p.
Walk(line, s0, row, p, s, Y, st) ==
  /\ Y \subseteq 1 .. p /\ 1 \in Y /\ st[1] = s0
  /\ \A y \in Y : st[y] \in PStates /\ (Jumps(line, row, Y, st, y) \/ Rests(line, row, p, s, st[y], y))

\* The row shows such a walk, from the state s0 at the start of the line to s at p.
Walked(line, s0, row, p, s) == \E Y, st : Walk(line, s0, row, p, s, Y, st)

----------------------------------------------------------------------------
(* The styles of the two languages, and the calls that painted them *)

\* What KeywordsMirrored asks of one symbol.
Mirrors(cas, own, symbol) ==
  /\ cas \in {"keyword", "number", "meta", "methodName"} => own = cas
  /\ cas \in {"atom", "typeName"} /\ symbol # "oo" => own = "atom"

\* The settings that KeywordsMirrored is about.
Defaults == {SchemaDefault, Lean!DEFAULT_DSL_KEYWORDS}

\* A rule that both files share succeeds at p.
HasCommon(line, p) ==
  \/ line[p] = Blank \/ line[p] \in Lean!Digits \/ Pair(line, p, ":", "=") \/ Pair(line, p, "-", ">")
  \/ line[p] = "#" /\ Lean!HASH_COMMAND(line, p) > p

\* A call of token() at t took the symbols up to the next position of T, and painted
\* them.
Steps(d, words, line, row, T, st, t) ==
  /\ t <= Len(line)
  /\ \E r \in CallOf(d, words, line, t, st[t]) :
       r.pos \in T /\ st[r.pos] = StateOf(r) /\ \A k \in t .. r.pos - 1 : row[k] = r.style

\* The positions T at which token() was called: each leads to the next, the last to p.
Trace(d, words, line, s0, row, p, s, T, st) ==
  /\ T \subseteq 1 .. p /\ 1 \in T /\ st[1] = s0
  /\ \A t \in T : st[t] \in PStates /\ ((t = p /\ st[t] = s) \/ Steps(d, words, line, row, T, st, t))

\* The row shows the calls of token() that painted it.
Traced(d, words, line, s0, row, p, s) == \E T, st : Trace(d, words, line, s0, row, p, s, T, st)

----------------------------------------------------------------------------
(* What has been read of a text *)

\* What is known of a line read up to p: its calls, and on a comparable line its walk.
Read(d, words, line, s0, row, p, s) ==
  /\ Traced(d, words, line, s0, row, p, s)
  /\ Comparable(line) => Walked(line, s0, row, p, s)

\* startState.
Begun == [depth |-> 0, doc |-> FALSE]

\* The states h at the starts of the lines explain what editor d shows: each line was
\* read from its own state to that of the next.
History(d, h) ==
  /\ h[1] = Begun
  /\ \A l \in 1 .. at[d].line - 1 :
       Read(d, lean, text[l], h[l], paint[d][l], Len(text[l]) + 1, h[l + 1])
  /\ IF at[d].line > Len(text) THEN h[at[d].line] = StateOf(at[d])
     ELSE Read(d, lean, text[at[d].line], h[at[d].line], paint[d][at[d].line], at[d].pos, StateOf(at[d]))

\* The inductive invariant of what has been read: each editor has a history, with the
\* settings as they are (they are read before anything is typed, index.ts).
ReadInv ==
  /\ \A d \in Dialects :
       at[d] = [line |-> at[d].line, pos |-> at[d].pos, depth |-> at[d].depth, doc |-> at[d].doc]
  /\ text # <<>> => lean # {} /\ \A d \in Dialects : \E h : History(d, h)

\* Of the lines of S, each takes equal states to equal states.
Steady(n, g, h, S) == \A l \in 1 .. n : l \in S /\ g[l] = h[l] => g[l + 1] = h[l + 1]

\* Two histories are equal as far as all lines before are in S.
Alike(n, g, h, S) == \A l \in 1 .. n + 1 : 1 .. l - 1 \subseteq S => g[l] = h[l]
============================================================================
