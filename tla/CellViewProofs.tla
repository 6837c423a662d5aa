-------------------------- MODULE CellViewProofs --------------------------
(***************************************************************************)
(* What a path output shows, for every payload and every number of steps,  *)
(* and what the highlighters paint, for every text and every setting: no   *)
(* mark that opens a comment is left among the code, and the two languages *)
(* agree wherever they are meant to.                                       *)
(***************************************************************************)
EXTENDS CellViewInv, RecursionProofs

----------------------------------------------------------------------------
(* The output *)

\* Between its two endpoints the chain (pathData.ts:74-95) is the row of Between, in
\* place.
LEMMA ChainParts ==
  ASSUME NEW path, NEW n \in Nat, Len(path.steps) = n
  PROVE  LET chain == Chain(path)
             m == IF n = 0 THEN 1 ELSE 2 * n - 1
         IN /\ Len(chain) = m + 2
            /\ chain[1] = labelled("node", path.source)
            /\ chain[m + 2] = labelled("node", path.target)
            /\ \A k \in 1 .. m : chain[k + 1] = Between(path)[k]
<1> DEFINE m == IF n = 0 THEN 1 ELSE 2 * n - 1
           M == Between(path)
           Any == {labelled("node", path.source), labelled("node", path.target)}
                    \cup {M[k] : k \in 1 .. m}
<1>1. m \in Nat \ {0}
  OBVIOUS
<1>2. M \in Seq(Any) /\ Len(M) = m
  <2>1. CASE n = 0
    <3>1. M = <<arrow(<<>>)>> /\ m = 1
      BY <2>1 DEF Between
    <3>2. M[1] \in Any
      BY <1>1, <3>1
    <3>. HIDE DEF Any, M, m
    <3> QED BY <3>1, <3>2
  <2>2. CASE n # 0
    <3>1. M = [k \in 1 .. m |-> M[k]]
      BY <2>2 DEF Between
    <3>2. \A k \in 1 .. m : M[k] \in Any
      OBVIOUS
    <3>. HIDE DEF Any, M, m
    <3> QED BY <1>1, <3>1, <3>2
  <2> QED BY <2>1, <2>2
<1>3. Chain(path) = <<labelled("node", path.source)>> \o M \o <<labelled("node", path.target)>>
  BY DEF Chain
<1>4. labelled("node", path.source) \in Any /\ labelled("node", path.target) \in Any
  OBVIOUS
<1>. HIDE DEF Any, M, m
<1> QED BY <1>1, <1>2, <1>3, <1>4 DEF M, m

\* The widget's child shows every path whole, and what is no path as it came
\* (pathRenderer.ts:25-27).
LEMMA ChildShows ==
  ASSUME NEW data \in Payload \cup {NoObject}
  PROVE  IF IsPath(data) THEN ShowsPath(Child(data), data)
         ELSE Child(data).class = "fallback" /\ Child(data).json = data
<1>1. CASE ~IsPath(data)
  BY <1>1 DEF Child, buildFallbackNode
<1>2. CASE IsPath(data)
  <2> DEFINE n == Len(data.steps)
             m == IF n = 0 THEN 1 ELSE 2 * n - 1
             chain == Chain(data)
  <2>1. data.steps \in Seq(Fields) /\ n \in Nat
    BY <1>2 DEF IsPath, isStringArray, Payload
  <2>2. Child(data) = [class |-> "path", object |-> labelled("object", data.object), chain |-> chain]
    BY <1>2 DEF Child, buildPathNode
  <2>3. /\ Len(chain) = m + 2
        /\ chain[1] = labelled("node", data.source)
        /\ chain[m + 2] = labelled("node", data.target)
        /\ \A k \in 1 .. m : chain[k + 1] = Between(data)[k]
    BY <2>1, ChainParts
  <2>4. Len(chain) = 2 * (IF n = 0 THEN 1 ELSE n) + 1 /\ m \in Nat
    BY <2>1, <2>3
  <2>5. chain[1].title = <<data.source>> /\ chain[Len(chain)].title = <<data.target>>
    BY <2>3 DEF labelled
  <2>. HIDE DEF chain
  <2>6. ASSUME NEW i \in 1 .. n
        PROVE  chain[2 * i] = arrow(<<labelled("step", data.steps[i])>>)
    <3>1. 2 * i - 1 \in 1 .. m /\ (2 * i - 1) + 1 = 2 * i /\ n # 0
      BY <2>1, <2>6
    <3>2. (2 * i - 1) % 2 # 0 /\ ((2 * i - 1) + 1) \div 2 = i
      BY <2>1, <2>6
    <3>3. Between(data)[2 * i - 1] = arrow(<<labelled("step", data.steps[i])>>)
      BY <3>1, <3>2 DEF Between
    <3>4. chain[(2 * i - 1) + 1] = Between(data)[2 * i - 1]
      BY <2>3, <3>1
    <3> QED BY <3>1, <3>3, <3>4
  <2>7. ASSUME NEW i \in 1 .. n - 1
        PROVE  chain[2 * i + 1] = Waypoint
    <3>1. 2 * i \in 1 .. m /\ n # 0 /\ (2 * i) % 2 = 0
      BY <2>1, <2>7
    <3>2. Between(data)[2 * i] = Waypoint
      BY <3>1 DEF Between
    <3> QED BY <2>3, <3>1, <3>2
  <2>8. \A i \in 1 .. n : /\ chain[2 * i].class = "arrow"
                          /\ chain[2 * i].label = <<labelled("step", data.steps[i])>>
    <3>1. ASSUME NEW s PROVE arrow(s).class = "arrow" /\ arrow(s).label = s
      BY DEF arrow
    <3> QED BY <2>6, <3>1
  <2>9. \A i \in 1 .. n - 1 : chain[2 * i + 1].title = <<>>
    <3>1. Waypoint.title = <<>>
      BY DEF Waypoint
    <3> QED BY <2>7, <3>1
  <2>10. Child(data).object.title = <<data.object>>
    BY <2>2 DEF labelled
  <2>11. Child(data).class = "path" /\ Child(data).chain = chain
    BY <2>2
  <2>12. ShowsPath(Child(data), data)
    BY <2>4, <2>5, <2>8, <2>9, <2>10, <2>11 DEF ShowsPath
  <2> QED BY <1>2, <2>12
<1> QED BY <1>1, <1>2

\* However an output is updated, its widget shows the last payload and nothing
\* else, each path with all its functors in order (renderModel,
\* pathRenderer.ts:20-32, with buildPathNode, pathData.ts:69-97).
THEOREM PathsAreShownWhole == Spec => []PathShownWhole
<1>1. Init => LastChild
  BY DEF Init, LastChild
<1>2. LastChild /\ [Next]_vars => LastChild'
  <2> SUFFICES ASSUME LastChild, [Next]_vars PROVE LastChild'
    OBVIOUS
  <2>1. ASSUME NEW data \in Payloads, Render(data) PROVE LastChild'
    BY <2>1, CellViewAssumption DEF Render, LastChild
  <2>2. CASE UNCHANGED outputVars
    BY <2>2 DEF LastChild, outputVars
  <2>3. CASE SettingsLoad
    BY <2>2, <2>3 DEF SettingsLoad
  <2>4. CASE Highlight
    BY <2>2, <2>4 DEF Highlight, Token, NextLine
  <2>5. CASE AtRest \/ UNCHANGED vars
    BY <2>2, <2>5 DEF AtRest, vars
  <2>6. ASSUME NEW t \in Texts, Type(t) PROVE LastChild'
    BY <2>2, <2>6 DEF Type
  <2> QED BY <2>1, <2>3, <2>4, <2>5, <2>6 DEF Next
<1>3. LastChild => PathShownWhole
  BY ChildShows DEF LastChild, PathShownWhole
<1> QED BY <1>1, <1>2, <1>3, PTL DEF Spec

----------------------------------------------------------------------------
(* The stream and the regular expressions *)

\* Read from p on, a line leaves any class of symbols somewhere, at its end at the
\* latest.
LEMMA EndExists ==
  ASSUME NEW n \in Nat, NEW p \in Nat, p <= n + 1, NEW D
  PROVE  \E q \in p .. n + 1 : (\A r \in p .. q - 1 : r \in D) /\ (q <= n => q \notin D)
<1> DEFINE M == {q \in p .. n + 1 : q = n + 1 \/ q \notin D}
<1>1. M \subseteq 0 .. (n + 1) /\ M # {} /\ n + 1 \in Nat
  <2>1. n + 1 \in M
    OBVIOUS
  <2> QED BY <2>1
<1>2. \E q \in M : \A y \in M : q <= y
  <2> HIDE DEF M
  <2> QED BY <1>1, Least
<1>3. PICK q \in M : \A y \in M : q <= y
  BY <1>2
<1>4. \A r \in p .. q - 1 : r \in D
  BY <1>3
<1> QED BY <1>3, <1>4

\* EndOf, a class of symbols repeated in a regular expression, is where the class is
\* left.
LEMMA EndOfIs ==
  ASSUME NEW line, Len(line) \in Nat, NEW p \in Nat, p <= Len(line) + 1, NEW S
  PROVE  LET q == Lean!EndOf(line, p, S) IN
         /\ q \in p .. Len(line) + 1
         /\ \A r \in p .. q - 1 : line[r] \in S
         /\ q <= Len(line) => line[q] \notin S
<1> DEFINE D == {k \in p .. Len(line) : line[k] \in S}
<1>1. \E q \in p .. Len(line) + 1 : (\A r \in p .. q - 1 : r \in D) /\ (q <= Len(line) => q \notin D)
  <2> HIDE DEF D
  <2> QED BY EndExists
<1> DEFINE P(q) == /\ \A r \in p .. q - 1 : line[r] \in S
                   /\ q <= Len(line) => line[q] \notin S
<1>2. \E q \in p .. Len(line) + 1 : P(q)
  <2>1. PICK q \in p .. Len(line) + 1 : (\A r \in p .. q - 1 : r \in D) /\ (q <= Len(line) => q \notin D)
    BY <1>1
  <2>2. \A r \in p .. q - 1 : line[r] \in S
    BY <2>1
  <2>3. ASSUME q <= Len(line) PROVE line[q] \notin S
    <3>1. q \in p .. Len(line) /\ q \notin D
      BY <2>1, <2>3
    <3> QED BY <3>1
  <2> QED BY <2>2, <2>3
<1>3. Lean!EndOf(line, p, S) = CHOOSE q \in p .. Len(line) + 1 : P(q)
  BY Zenon DEF Lean!EndOf
<1>4. Lean!EndOf(line, p, S) \in p .. Len(line) + 1 /\ P(Lean!EndOf(line, p, S))
  <2> HIDE DEF P
  <2> QED BY <1>2, <1>3
<1> QED BY <1>4, Zenon

\* The two files repeat each other: what one takes of Stream, and every token
\* defined word for word alike, is the same operator.
LEMMA EndOfSame == \A line, p, S : Cas!EndOf(line, p, S) = Lean!EndOf(line, p, S)
BY Zenon DEF Cas!EndOf, Lean!EndOf

\* match(string) is one for both.
LEMMA AfterSame == \A line, p, word : Cas!After(line, p, word) = Lean!After(line, p, word)
BY Zenon DEF Cas!After, Lean!After

\* Two symbols, compared one by one.
LEMMA PairIs ==
  ASSUME NEW line, NEW p \in Nat, NEW s, s = [k \in 1 .. 2 |-> line[k + p - 1]], NEW a, NEW b
  PROVE  s = <<a, b>> <=> line[p] = a /\ line[p + 1] = b
<1>1. s = <<line[p], line[p + 1]>>
  OBVIOUS
<1> QED BY <1>1

\* Three symbols, compared one by one.
LEMMA TripleIs ==
  ASSUME NEW line, NEW p \in Nat, NEW s, s = [k \in 1 .. 3 |-> line[k + p - 1]],
         NEW a, NEW b, NEW c
  PROVE  s = <<a, b, c>> <=> line[p] = a /\ line[p + 1] = b /\ line[p + 2] = c
<1>1. s = <<line[p], line[p + 1], line[p + 2]>>
  OBVIOUS
<1> QED BY <1>1

\* match of one symbol looks at the symbol.
LEMMA AfterOne ==
  ASSUME NEW line \in Seq(STRING), NEW p \in 1 .. Len(line) + 1, NEW a
  PROVE  Lean!After(line, p, <<a>>) = IF p <= Len(line) /\ line[p] = a THEN p + 1 ELSE p
<1>0. Len(line) \in Nat
  OBVIOUS
<1>1. Len(<<a>>) = 1 /\ <<a>>[1] = a
  OBVIOUS
<1>2. ASSUME p <= Len(line) PROVE SubSeq(line, p, p) = <<a>> <=> line[p] = a
  <2> DEFINE sub == SubSeq(line, p, p)
  <2>1. sub = [k \in 1 .. 1 |-> line[k + p - 1]]
    BY <1>0, <1>2
  <2>2. sub = <<line[p]>>
    BY <1>0, <2>1
  <2> QED BY <2>2
<1> QED BY <1>0, <1>1, <1>2 DEF Lean!After

\* match of two symbols looks at both, within the line.
LEMMA AfterTwo ==
  ASSUME NEW line \in Seq(STRING), NEW p \in 1 .. Len(line) + 1, NEW a, NEW b
  PROVE  Lean!After(line, p, <<a, b>>) =
           IF p + 1 <= Len(line) /\ line[p] = a /\ line[p + 1] = b THEN p + 2 ELSE p
<1>0. Len(line) \in Nat
  OBVIOUS
<1>1. Len(<<a, b>>) = 2
  OBVIOUS
<1>2. ASSUME p + 1 <= Len(line)
      PROVE  SubSeq(line, p, p + 1) = <<a, b>> <=> line[p] = a /\ line[p + 1] = b
  <2> DEFINE sub == SubSeq(line, p, p + 1)
  <2>1. sub = [k \in 1 .. 2 |-> line[k + p - 1]]
    BY <1>0, <1>2
  <2>2. p \in Nat
    OBVIOUS
  <2>3. sub = <<a, b>> <=> line[p] = a /\ line[p + 1] = b
    <3> HIDE DEF sub
    <3> QED BY <2>1, <2>2, PairIs
  <2> QED BY <2>3, Zenon
<1> QED BY <1>0, <1>1, <1>2 DEF Lean!After

\* match of three symbols looks at all three, within the line.
LEMMA AfterThree ==
  ASSUME NEW line \in Seq(STRING), NEW p \in 1 .. Len(line) + 1, NEW a, NEW b, NEW c
  PROVE  Lean!After(line, p, <<a, b, c>>) =
           IF p + 2 <= Len(line) /\ line[p] = a /\ line[p + 1] = b /\ line[p + 2] = c
           THEN p + 3 ELSE p
<1>0. Len(line) \in Nat
  OBVIOUS
<1>1. Len(<<a, b, c>>) = 3
  OBVIOUS
<1>2. ASSUME p + 2 <= Len(line)
      PROVE  SubSeq(line, p, p + 2) = <<a, b, c>> <=>
               line[p] = a /\ line[p + 1] = b /\ line[p + 2] = c
  <2> DEFINE sub == SubSeq(line, p, p + 2)
  <2>1. sub = [k \in 1 .. 3 |-> line[k + p - 1]]
    BY <1>0, <1>2
  <2>2. p \in Nat
    OBVIOUS
  <2>3. sub = <<a, b, c>> <=> line[p] = a /\ line[p + 1] = b /\ line[p + 2] = c
    <3> HIDE DEF sub
    <3> QED BY <2>1, <2>2, TripleIs
  <2> QED BY <2>3, Zenon
<1> QED BY <1>0, <1>1, <1>2 DEF Lean!After

\* The order of the rules counts alike for both.
LEMMA FirstSame == \A p, rules : Cas!FirstOf(p, rules) = Lean!FirstOf(p, rules)
BY Zenon DEF Cas!FirstOf, Lean!FirstOf

\* When some rule consumes, the first that does is taken, and none before it does
\* (the chain of early returns in token()).
LEMMA FirstOfIs ==
  ASSUME NEW p \in Nat, NEW rules, NEW n \in Nat, DOMAIN rules = 1 .. n,
         \A i \in 1 .. n : rules[i].end \in Nat, \E i \in 1 .. n : rules[i].end > p
  PROVE  \E i \in 1 .. n : /\ Lean!FirstOf(p, rules) = rules[i] /\ rules[i].end > p
                           /\ \A j \in 1 .. i - 1 : rules[j].end <= p
<1> DEFINE C == {i \in 1 .. n : rules[i].end > p}
<1>1. C \subseteq 0 .. n /\ C # {}
  OBVIOUS
<1>2. \E i \in C : \A j \in C : i <= j
  <2> HIDE DEF C
  <2> QED BY <1>1, Least
<1>3. \E i \in DOMAIN rules : rules[i].end > p /\ \A j \in 1 .. i - 1 : rules[j].end <= p
  <2>1. PICK i \in C : \A j \in C : i <= j
    BY <1>2
  <2>2. i \in 1 .. n /\ rules[i].end > p
    OBVIOUS
  <2>3. ASSUME NEW j \in 1 .. i - 1 PROVE rules[j].end <= p
    <3>1. j \in 1 .. n /\ j \notin C
      BY <2>1, <2>2
    <3>2. rules[j].end \in Nat /\ ~(rules[j].end > p)
      BY <3>1
    <3> QED BY <3>2
  <2>4. i \in DOMAIN rules
    BY <2>2
  <2> QED BY <2>2, <2>3, <2>4
<1>4. Lean!FirstOf(p, rules) =
        rules[CHOOSE i \in DOMAIN rules : rules[i].end > p /\ \A j \in 1 .. i - 1 : rules[j].end <= p]
  BY Zenon DEF Lean!FirstOf
<1> QED BY <1>3, <1>4

\* Words are read alike.
LEMMA WordSame == \A line, p, S, T : Cas!Word(line, p, S, T) = Lean!Word(line, p, S, T)
BY EndOfSame, Zenon DEF Cas!Word, Lean!Word

\* And so are the classes of characters.
LEMMA SetsSame == /\ Cas!Alphabetic = Lean!Alphabetic /\ Cas!Numerals = Lean!Numerals
                  /\ Cas!Digits = Lean!Digits
BY DEF Cas!Alphabetic, Lean!Alphabetic, Cas!Numerals, Lean!Numerals, Cas!Digits, Lean!Digits,
   Cas!Marks, Lean!Marks

\* Numbers are the same in both.
LEMMA NumberSame == \A line, p : Cas!NUMBER(line, p) = Lean!NUMBER(line, p)
BY EndOfSame, SetsSame, Zenon DEF Cas!NUMBER, Lean!NUMBER

\* # commands are the same in both.
LEMMA HashSame == \A line, p : Cas!HASH_COMMAND(line, p) = Lean!HASH_COMMAND(line, p)
BY WordSame, SetsSame, Zenon DEF Cas!HASH_COMMAND, Lean!HASH_COMMAND

\* A character literal stays within the line (CHAR_LITERAL).
LEMMA CharIs ==
  ASSUME NEW line \in Seq(STRING), NEW p \in 1 .. Len(line) + 1
  PROVE  Lean!CHAR_LITERAL(line, p) \in p .. Len(line) + 1
<1>0. Len(line) \in Nat
  OBVIOUS
<1> QED BY <1>0 DEF Lean!CHAR_LITERAL

\* Character literals are the same in both.
LEMMA CharSame == \A line, p : Cas!CHAR_LITERAL(line, p) = Lean!CHAR_LITERAL(line, p)
BY Zenon DEF Cas!CHAR_LITERAL, Lean!CHAR_LITERAL, Cas!IsChar, Lean!IsChar, Cas!Marks, Lean!Marks,
  Cas!Letters, Lean!Letters

\* Strings are the same in both.
LEMMA StringSame == \A line, p : Cas!String(line, p) = Lean!String(line, p)
BY Zenon DEF Cas!String, Lean!String

\* Block comments open alike.
LEMMA OpenerSame == \A line, p : Cas!Opener(line, p) = Lean!Opener(line, p)
BY AfterSame, Zenon DEF Cas!Opener, Lean!Opener

\* One turn of the loop that reads a comment.
CommentStep(line, s) ==
  IF Lean!After(line, s.pos, <<"-", "/">>) > s.pos THEN [pos |-> s.pos + 2, depth |-> s.depth - 1]
  ELSE IF Lean!After(line, s.pos, <<"/", "-">>) > s.pos THEN [pos |-> s.pos + 2, depth |-> s.depth + 1]
  ELSE [pos |-> s.pos + 1, depth |-> s.depth]

\* Inside a comment a turn of the loop advances and stays within the line: a mark
\* is only taken when both of its symbols are there.
LEMMA CommentStepIs ==
  ASSUME NEW line \in Seq(STRING), NEW s \in [pos : 1 .. Len(line) + 1, depth : Nat],
         s.depth # 0, s.pos <= Len(line)
  PROVE  /\ CommentStep(line, s) \in [pos : 1 .. Len(line) + 1, depth : Nat]
         /\ CommentStep(line, s).pos > s.pos
<1>0. Len(line) \in Nat /\ s.pos \in 1 .. Len(line) + 1 /\ s.depth \in Nat
  OBVIOUS
<1>1. Lean!After(line, s.pos, <<"-", "/">>) \in {s.pos, s.pos + 2} \cap (1 .. Len(line) + 1)
  BY <1>0, AfterTwo
<1>2. Lean!After(line, s.pos, <<"/", "-">>) \in {s.pos, s.pos + 2} \cap (1 .. Len(line) + 1)
  BY <1>0, AfterTwo
<1> QED BY <1>0, <1>1, <1>2 DEF CommentStep

\* The loop of tokenBlockComment stops within the line, having advanced when there was
\* something to read; the line's length is turns enough (lean4.ts:139-158, casdsl.ts:113-132).
LEMMA CommentIs ==
  ASSUME NEW line \in Seq(STRING), NEW p \in 1 .. Len(line) + 1, NEW state,
         state.depth \in Nat
  PROVE  LET r == Lean!tokenBlockComment(line, p, state) IN
         /\ r.pos \in p .. Len(line) + 1 /\ r.depth \in Nat
         /\ p <= Len(line) /\ state.depth # 0 => r.pos > p
         /\ r.style \in {"comment", "docComment"}
         /\ r.doc = (state.doc /\ r.depth > 0)
<1> DEFINE N == Len(line)
           V == [pos : 1 .. N + 1, depth : Nat]
           Ended(s) == s.depth = 0 \/ s.pos > N
           On(s) == IF Ended(s) THEN s ELSE CommentStep(line, s)
           b == [pos |-> p, depth |-> state.depth]
           G == [k \in 1 .. N |-> [s \in V |-> On(s)]]
<1>1. N \in Nat /\ b \in V
  OBVIOUS
<1>2. ASSUME NEW s \in V PROVE On(s) \in V /\ On(s).pos >= s.pos /\ (~Ended(s) => On(s).pos > s.pos)
  BY <1>1, CommentStepIs
<1>3. G \in [1 .. N -> [V -> V]]
  <2> HIDE DEF On, N, V
  <2> QED BY <1>2
<1>4. PICK w \in [0 .. N -> V] : Follows(w, N, b, G)
  <2> HIDE DEF N, V, b, G
  <2> QED BY <1>1, <1>3, Recursion
<1>5. ASSUME NEW k \in 1 .. N PROVE w[k - 1] \in V /\ w[k] = On(w[k - 1])
  <2>1. w[k - 1] \in V /\ w[k] = G[k][w[k - 1]]
    <3> HIDE DEF N, G, b, V
    <3> QED BY <1>1, <1>4 DEF Follows
  <2> HIDE DEF N, V, On
  <2> QED BY <2>1
<1>6. w[0] = b
  BY <1>4 DEF Follows
<1> HIDE DEF G
<1> DEFINE F(v) == v = [k \in 0 .. N |-> IF k = 0 THEN b ELSE On(v[k - 1])]
           rest == CHOOSE v : F(v)
<1>7. F(w)
  <2> HIDE DEF On, b, V
  <2> QED BY <1>1, <1>5, <1>6
<1>8. F(rest)
  <2> HIDE DEF F
  <2> QED BY <1>7, Zenon
<1>9. Lean!tokenBlockComment(line, p, state) =
        [pos |-> rest[N].pos, style |-> IF state.doc THEN "docComment" ELSE "comment",
         depth |-> rest[N].depth, doc |-> state.doc /\ rest[N].depth > 0]
  BY Zenon DEF Lean!tokenBlockComment, Lean!StillDoc, CommentStep
<1> HIDE DEF rest
<1>10. \A k \in 0 .. N : rest[k] = IF k = 0 THEN b ELSE On(rest[k - 1])
  BY <1>8, Zenon
<1> HIDE DEF F
<1> DEFINE Good(k) == /\ rest[k] \in V /\ rest[k].pos >= p
                      /\ k > 0 /\ ~Ended(b) => rest[k].pos > p
           S == {k \in 0 .. N : Good(k)}
<1>11. 0 \in S
  BY <1>1, <1>10
<1>12. ASSUME NEW m \in 0 .. N, m < N, m \in S PROVE m + 1 \in S
  <2>1. m + 1 \in 1 .. N /\ m + 1 \in 0 .. N /\ (m + 1) - 1 = m /\ m + 1 # 0
    BY <1>1, <1>12
  <2>2. rest[m + 1] = On(rest[m])
    BY <1>10, <2>1
  <2>3. rest[m] \in V /\ rest[m].pos >= p /\ (m > 0 /\ ~Ended(b) => rest[m].pos > p)
    BY <1>12
  <2>4. m = 0 => rest[m] = b
    BY <1>10
  <2> HIDE DEF On
  <2>5. /\ rest[m + 1] \in V /\ rest[m + 1].pos >= rest[m].pos
        /\ ~Ended(rest[m]) => rest[m + 1].pos > rest[m].pos
    BY <1>2, <2>2, <2>3
  <2>6. Good(m + 1)
    <3>1. rest[m].pos \in Nat /\ rest[m + 1].pos \in Nat /\ b.pos = p
      BY <2>3, <2>5
    <3> HIDE DEF Ended, V, b
    <3> QED BY <1>1, <2>1, <2>3, <2>4, <2>5, <3>1
  <2> HIDE DEF Good
  <2> QED BY <2>1, <2>6
<1>13. N \in S
  <2> HIDE DEF S
  <2>1. 0 .. N \subseteq S
    BY <1>1, <1>11, <1>12, UpTo
  <2> QED BY <1>1, <2>1
<1>14. Good(N)
  BY <1>13
<1> QED BY <1>1, <1>9, <1>14

\* Comments are read alike.
LEMMA CommentSame ==
  \A line, p, state : Cas!tokenBlockComment(line, p, state) = Lean!tokenBlockComment(line, p, state)
BY Zenon DEF Cas!tokenBlockComment, Lean!tokenBlockComment, Lean!StillDoc, Cas!After, Lean!After

\* The escaped symbols are none of the other marks.
LEMMA MarksDiffer ==
  /\ Quote \notin {"-", "/", "'", Blank, "#", ".", "7", "_", "oo", ":", "=", "|", ">"}
  /\ Backslash \notin {"-", "/", "'", Blank, "#", ".", "7", "_", "oo", ":", "=", "|", ">"}
  /\ Quote # Backslash
  /\ Blank \notin {"-", "/", "'", "#", ".", "7", "_", "oo", ":", "=", "|", ">"}
BY Zenon DEF Quote, Backslash, Blank

\* No mark, blank, digit or operator begins a word.
LEMMA StartsIs ==
  /\ \A s \in Starts : s \notin {"-", "/", "'", Blank, "#", ".", "7", "oo", ":", "=", "|", ">",
                                "sup2", "!", "?", "sub0"}
  /\ Quote \notin Starts /\ Backslash \notin Starts
  /\ "_" \notin Lean!Alphabetic
<1>1. \A s \in Starts : s \notin {"-", "/", "'", Blank, "#", ".", "7", "oo", ":", "=", "|", ">",
                                "sup2", "!", "?", "sub0"}
  BY Zenon DEF Starts, Lean!Alphabetic, Lean!Marks, Blank
<1>2. Quote \notin Starts /\ Backslash \notin Starts
  BY Zenon DEF Starts, Lean!Alphabetic, Lean!Marks, Quote, Backslash
<1>3. "_" \notin Lean!Alphabetic
  BY Zenon DEF Lean!Alphabetic, Lean!Marks
<1> QED BY <1>1, <1>2, <1>3

\* A repeated class takes something where it begins.
LEMMA EndOfMoves ==
  ASSUME NEW line \in Seq(STRING), NEW p \in 1 .. Len(line), NEW S
  PROVE  /\ Lean!EndOf(line, p, S) \in p .. Len(line) + 1
         /\ Lean!EndOf(line, p, S) > p <=> line[p] \in S
<1>0. Len(line) \in Nat /\ p \in Nat /\ p <= Len(line) + 1
  OBVIOUS
<1> DEFINE q == Lean!EndOf(line, p, S)
<1>1. /\ q \in p .. Len(line) + 1
      /\ \A r \in p .. q - 1 : line[r] \in S
      /\ q <= Len(line) => line[q] \notin S
  BY <1>0, EndOfIs
<1> HIDE DEF q
<1>2. q > p <=> line[p] \in S
  BY <1>0, <1>1
<1> QED BY <1>1, <1>2 DEF q

\* A word, of S and then T, is as long as it can be (the regular expressions are greedy).
LEMMA WordMoves ==
  ASSUME NEW line \in Seq(STRING), NEW p \in 1 .. Len(line) + 1, NEW S, NEW T
  PROVE  LET q == Lean!Word(line, p, S, T) IN
         /\ q \in p .. Len(line) + 1
         /\ q > p <=> (p <= Len(line) /\ line[p] \in S)
         /\ \A k \in p + 1 .. q - 1 : line[k] \in T
         /\ q > p /\ q <= Len(line) => line[q] \notin T
<1>0. Len(line) \in Nat
  OBVIOUS
<1>1. CASE p <= Len(line) /\ line[p] \in S
  <2>1. Lean!Word(line, p, S, T) = Lean!EndOf(line, p + 1, T)
    BY <1>1 DEF Lean!Word
  <2>2. p + 1 \in Nat /\ p + 1 <= Len(line) + 1
    BY <1>0, <1>1
  <2> DEFINE q == Lean!EndOf(line, p + 1, T)
  <2>3. /\ q \in p + 1 .. Len(line) + 1
        /\ \A r \in p + 1 .. q - 1 : line[r] \in T
        /\ q <= Len(line) => line[q] \notin T
    BY <1>0, <2>2, EndOfIs
  <2> HIDE DEF q
  <2> QED BY <1>0, <1>1, <2>1, <2>3 DEF q
<1>2. CASE ~(p <= Len(line) /\ line[p] \in S)
  <2>1. Lean!Word(line, p, S, T) = p
    BY <1>2 DEF Lean!Word
  <2> QED BY <1>0, <1>2, <2>1
<1> QED BY <1>1, <1>2

\* NUMBER begins with a digit and holds digits and a dot (lean4.ts:154, casdsl.ts:159).
LEMMA NumberMoves ==
  ASSUME NEW line \in Seq(STRING), NEW p \in 1 .. Len(line)
  PROVE  /\ Lean!NUMBER(line, p) > p <=> line[p] \in Lean!Digits
         /\ Lean!NUMBER(line, p) \in p .. Len(line) + 1
         /\ \A k \in p .. Lean!NUMBER(line, p) - 1 : line[k] \in Lean!Digits \cup {"."}
<1> DEFINE q == Lean!EndOf(line, p, Lean!Digits)
           z == Lean!EndOf(line, q + 1, Lean!Digits)
<1>0. Len(line) \in Nat /\ p \in Nat /\ p <= Len(line) + 1
  OBVIOUS
<1>1. q \in p .. Len(line) + 1 /\ (q > p <=> line[p] \in Lean!Digits)
  BY EndOfMoves
<1>2. \A k \in p .. q - 1 : line[k] \in Lean!Digits
  BY <1>0, EndOfIs
<1>3. ASSUME q < Len(line) PROVE /\ z \in q + 1 .. Len(line) + 1
                                   /\ \A k \in q + 1 .. z - 1 : line[k] \in Lean!Digits
  <2> HIDE DEF q
  <2> QED BY <1>0, <1>1, <1>3, EndOfIs
<1>4. Lean!NUMBER(line, p) =
        IF q > p /\ q < Len(line) /\ line[q] = "." /\ line[q + 1] \in Lean!Digits THEN z ELSE q
  BY DEF Lean!NUMBER
<1> HIDE DEF q, z
<1>5. CASE q > p /\ q < Len(line) /\ line[q] = "." /\ line[q + 1] \in Lean!Digits
  <2>1. Lean!NUMBER(line, p) = z
    BY <1>4, <1>5
  <2>2. \A k \in p .. z - 1 : k \in p .. q - 1 \/ k = q \/ k \in q + 1 .. z - 1
    BY <1>0, <1>1, <1>3, <1>5
  <2> QED BY <1>0, <1>1, <1>2, <1>3, <1>5, <2>1, <2>2
<1>6. CASE ~(q > p /\ q < Len(line) /\ line[q] = "." /\ line[q + 1] \in Lean!Digits)
  BY <1>0, <1>1, <1>2, <1>4, <1>6
<1> QED BY <1>5, <1>6

\* HASH_COMMAND begins with # and holds word symbols (lean4.ts:158, casdsl.ts:163).
LEMMA HashMoves ==
  ASSUME NEW line \in Seq(STRING), NEW p \in 1 .. Len(line)
  PROVE  LET q == Lean!HASH_COMMAND(line, p) IN
         /\ q \in p .. Len(line) + 1
         /\ q > p => line[p] = "#" /\ \A k \in p + 1 .. q - 1 : line[k] \in Starts \cup Lean!Numerals
<1> DEFINE S == Lean!Alphabetic \cup {"_"}
           T == Lean!Alphabetic \cup Lean!Numerals \cup {"_"}
           q == Lean!Word(line, p + 1, S, T)
<1>0. Len(line) \in Nat /\ p + 1 \in 1 .. Len(line) + 1
  OBVIOUS
<1>1. /\ q \in p + 1 .. Len(line) + 1 /\ (q > p + 1 => line[p + 1] \in S)
      /\ \A k \in p + 1 + 1 .. q - 1 : line[k] \in T
  <2> HIDE DEF S, T
  <2> QED BY <1>0, WordMoves
<1>2. Lean!HASH_COMMAND(line, p) = IF p <= Len(line) /\ line[p] = "#" THEN (IF q > p + 1 THEN q ELSE p) ELSE p
  BY DEF Lean!HASH_COMMAND
<1>3. S \subseteq Starts \cup Lean!Numerals /\ T \subseteq Starts \cup Lean!Numerals
  BY DEF Starts
<1> HIDE DEF q, S, T
<1>4. ASSUME q > p + 1, NEW k \in p + 1 .. q - 1 PROVE line[k] \in Starts \cup Lean!Numerals
  <2>1. k = p + 1 \/ k \in p + 1 + 1 .. q - 1
    BY <1>0, <1>1
  <2> QED BY <1>1, <1>3, <1>4, <2>1
<1> QED BY <1>0, <1>1, <1>2, <1>4

\* A string begins with its mark and only there, and stays within the line, closed or
\* not (lean4.ts:135-149, casdsl.ts:140-154).
LEMMA StringMoves ==
  ASSUME NEW line \in Seq(STRING), NEW p \in 1 .. Len(line)
  PROVE  Lean!String(line, p) \in p .. Len(line) + 1 /\ (Lean!String(line, p) > p <=> line[p] = Quote)
<1> DEFINE E == CHOOSE e : e = [k \in Nat |-> k > p + 1 /\ line[k - 1] = "\\" /\ ~e[k - 1]]
           quote(k) == line[k] = "\"" /\ ~E[k]
           quotes == {k \in p + 1 .. Len(line) : quote(k)}
           outside == p > Len(line) \/ line[p] # Quote
           first == CHOOSE k \in quotes : \A j \in quotes : k <= j
           end == Lean!String(line, p)
<1>0. Len(line) \in Nat
  OBVIOUS
<1>1. end = IF outside THEN p ELSE IF quotes = {} THEN Len(line) + 1 ELSE 1 + first
  BY Zenon DEF Lean!String, Quote
<1>2. quotes \subseteq 0 .. Len(line) /\ quotes \subseteq p + 1 .. Len(line)
  <2> HIDE DEF quote
  <2> QED BY <1>0
<1> HIDE DEF quotes
<1>3. outside <=> line[p] # Quote
  BY <1>0
<1> HIDE DEF outside
<1>4. ASSUME quotes # {} PROVE first \in quotes
  <2>1. \E k \in quotes : \A j \in quotes : k <= j
    BY <1>0, <1>2, <1>4, Least
  <2> QED BY <2>1
<1> HIDE DEF first
<1>5. quotes # {} => first \in p + 1 .. Len(line)
  BY <1>2, <1>4
<1> HIDE DEF end
<1>6. CASE outside
  <2>1. end = p
    BY <1>1, <1>6
  <2> QED BY <1>0, <1>3, <1>6, <2>1 DEF end
<1>7. CASE ~outside
  <2>1. end = Len(line) + 1 \/ (end = 1 + first /\ quotes # {})
    BY <1>1, <1>7
  <2>2. end \in p + 1 .. Len(line) + 1
    BY <1>0, <1>5, <2>1
  <2> QED BY <1>3, <1>7, <2>2 DEF end
<1> QED BY <1>6, <1>7

\* CHAR_LITERAL begins with an apostrophe.
LEMMA CharMoves ==
  ASSUME NEW line \in Seq(STRING), NEW p \in 1 .. Len(line)
  PROVE  Lean!CHAR_LITERAL(line, p) > p => line[p] = "'"
BY DEF Lean!CHAR_LITERAL

\* The IDENT of each file: where it begins, what it holds and where it ends. That of
\* casdsl.ts begins with no underscore and holds no superscript (casdsl.ts:65-76).
LEMMA IdentMoves ==
  ASSUME NEW line \in Seq(STRING), NEW p \in 1 .. Len(line) + 1
  PROVE  LET q == Lean!IDENT(line, p)
             z == Cas!IDENT(line, p)
         IN /\ q \in p .. Len(line) + 1 /\ (q > p <=> (p <= Len(line) /\ line[p] \in Starts))
            /\ \A k \in p + 1 .. q - 1 : line[k] \in Inner
            /\ q > p /\ q <= Len(line) => line[q] \notin Inner
            /\ z \in p .. Len(line) + 1 /\ (z > p <=> (p <= Len(line) /\ line[p] \in Lean!Alphabetic))
            /\ \A k \in p + 1 .. z - 1 : line[k] \in Inner \ {"sup2"}
            /\ z > p /\ z <= Len(line) => line[z] \notin Inner \ {"sup2"}
<1> DEFINE F == Lean!Alphabetic \cup (Lean!Numerals \ {"sup2"}) \cup {"_", "'", "!", "?"}
<1>1. Lean!IDENT(line, p) = Lean!Word(line, p, Starts, Inner)
  BY Zenon DEF Lean!IDENT, Starts, Inner
<1>2. Cas!IDENT(line, p) = Lean!Word(line, p, Lean!Alphabetic, F)
  BY WordSame, SetsSame, Zenon DEF Cas!IDENT
<1>3. F = Inner \ {"sup2"}
  <2>1. "sup2" \notin Lean!Alphabetic
    BY Zenon DEF Lean!Alphabetic, Lean!Marks
  <2> QED BY <2>1 DEF Inner
<1> HIDE DEF F
<1> QED BY <1>1, <1>2, <1>3, WordMoves

\* match of two symbols.
LEMMA AfterPair ==
  ASSUME NEW line \in Seq(STRING), NEW p \in 1 .. Len(line) + 1, NEW a, NEW b
  PROVE  Lean!After(line, p, <<a, b>>) = IF Pair(line, p, a, b) THEN p + 2 ELSE p
BY AfterTwo DEF Pair

\* match of three symbols.
LEMMA AfterTriple ==
  ASSUME NEW line \in Seq(STRING), NEW p \in 1 .. Len(line) + 1, NEW a, NEW b, NEW c
  PROVE  Lean!After(line, p, <<a, b, c>>) = IF Triple(line, p, a, b, c) THEN p + 3 ELSE p
BY AfterThree DEF Triple

\* One of the LaTeX matches succeeds where its spelling is (casdsl.ts:176-189).
LEMMA LatexIs ==
  ASSUME NEW line \in Seq(STRING), NEW p \in 1 .. Len(line), NEW words
  PROVE  (\E w \in words : Cas!After(line, p, <<Backslash, w>>) > p) <=> Latex(line, p, words)
<1>0. Len(line) \in Nat /\ p \in 1 .. Len(line) + 1
  OBVIOUS
<1>1. \A w : Cas!After(line, p, <<Backslash, w>>) > p <=> Pair(line, p, Backslash, w)
  <2> TAKE w
  <2>1. Cas!After(line, p, <<Backslash, w>>) = IF Pair(line, p, Backslash, w) THEN p + 2 ELSE p
    BY <1>0, AfterSame, AfterPair
  <2> QED BY <1>0, <2>1
<1> QED BY <1>1 DEF Latex, Pair

\* A block comment opens where /- is, as a doc comment or not (lean4.ts:124-133,
\* casdsl.ts:129-138).
LEMMA OpenerIs ==
  ASSUME NEW line \in Seq(STRING), NEW p \in 1 .. Len(line)
  PROVE  LET r == Lean!Opener(line, p) IN
         /\ r.pos \in p .. Len(line) + 1 /\ r.doc \in BOOLEAN
         /\ r.depth = IF Pair(line, p, "/", "-") THEN 1 ELSE 0
         /\ r.depth = 1 => r.pos > p
<1>0. Len(line) \in Nat /\ p \in 1 .. Len(line) + 1 /\ p \in Nat
  OBVIOUS
<1> DEFINE d == Lean!After(line, p, <<"/", "-", "-">>)
           e == Lean!After(line, p, <<"/", "-">>)
<1>1. d = IF Triple(line, p, "/", "-", "-") THEN p + 3 ELSE p
  BY <1>0, AfterTriple
<1>2. e = IF Pair(line, p, "/", "-") THEN p + 2 ELSE p
  BY <1>0, AfterPair
<1>3. /\ Triple(line, p, "/", "-", "-") => Pair(line, p, "/", "-") /\ p + 2 <= Len(line)
      /\ Pair(line, p, "/", "-") => p + 1 <= Len(line)
  BY <1>0 DEF Triple, Pair
<1>4. Lean!Opener(line, p) =
        CASE d > p          -> [pos |-> d, depth |-> 1, doc |-> TRUE]
          [] d = p /\ e > p -> [pos |-> e, depth |-> 1, doc |-> FALSE]
          [] OTHER          -> [pos |-> p, depth |-> 0, doc |-> FALSE]
  BY Zenon DEF Lean!Opener
<1> HIDE DEF d, e
<1> QED BY <1>0, <1>1, <1>2, <1>3, <1>4

----------------------------------------------------------------------------
(* The rules of token(), one by one *)

\* Which rule of lean4.ts is taken at p: the chain of early returns in token(), as the
\* condition of each rule (lean4.ts:116-199).
LEMMA LeanPicks ==
  ASSUME NEW words, NEW line \in Seq(STRING), NEW p \in 1 .. Len(line)
  PROVE  LET c == Lean!Code(words, line, p)
         IN /\ Lit(line, p) => c = LitOf(line, p)
            /\ ~Lit(line, p) => LeanPick(words, line, p, c)
<1> DEFINE ident == Lean!IDENT(line, p)
           name == IF ident = p + 1 THEN line[p] ELSE ""
           next == Lean!IDENT(line, p + 1)
           method == IF Lean!After(line, p, <<".">>) > p THEN next ELSE p
           e1 == Lean!EndOf(line, p, {Blank})
           e2 == IF Lean!After(line, p, <<"-", "-">>) > p THEN Len(line) + 1 ELSE p
           e3 == Lean!String(line, p)
           e4 == Lean!CHAR_LITERAL(line, p)
           e5 == Lean!NUMBER(line, p)
           e6 == Lean!HASH_COMMAND(line, p)
           e8 == IF method > p + 1 THEN method ELSE p
           e9 == Lean!After(line, p, <<":", "=">>)
           e10 == Lean!After(line, p, <<"=", ">">>)
           e11 == Lean!After(line, p, <<"-", ">">>)
           s7 == LeanStyle(words, name)
           R == << [end |-> e1, style |-> "none"], [end |-> e2, style |-> "comment"],
                   [end |-> e3, style |-> "string"], [end |-> e4, style |-> "string"],
                   [end |-> e5, style |-> "number"], [end |-> e6, style |-> "meta"],
                   [end |-> ident, style |-> s7], [end |-> e8, style |-> "methodName"],
                   [end |-> e9, style |-> "operator"], [end |-> e10, style |-> "operator"],
                   [end |-> e11, style |-> "operator"], [end |-> p + 1, style |-> "operator"] >>
           c == Lean!Code(words, line, p)
<1>0. Len(line) \in Nat /\ p \in Nat /\ p \in 1 .. Len(line) + 1 /\ p + 1 \in 1 .. Len(line) + 1
  OBVIOUS
<1>1. c = Lean!FirstOf(p, R)
  BY Zenon DEF Lean!Code, Lean!Rules, LeanStyle, Blank
<1>2. e1 \in p .. Len(line) + 1 /\ (e1 > p <=> line[p] = Blank)
  <2>1. e1 \in p .. Len(line) + 1 /\ (e1 > p <=> line[p] \in {Blank})
    BY EndOfMoves
  <2> QED BY <2>1
<1>3. e2 = IF Dashes(line, p) THEN Len(line) + 1 ELSE p
  BY <1>0, AfterTwo DEF Dashes
<1>4. e3 \in p .. Len(line) + 1 /\ e4 \in p .. Len(line) + 1 /\ (e3 > p <=> line[p] = Quote)
  <2>1. e3 \in p .. Len(line) + 1 /\ e4 \in p .. Len(line) + 1
    BY <1>0, StringMoves, CharIs
  <2>2. e3 > p <=> line[p] = Quote
    BY StringMoves
  <2> QED BY <2>1, <2>2
<1>5. e5 \in p .. Len(line) + 1 /\ (e5 > p <=> line[p] \in Lean!Digits)
      /\ e6 \in p .. Len(line) + 1 /\ (e6 > p => line[p] = "#")
  BY NumberMoves, HashMoves
<1>6. /\ ident \in p .. Len(line) + 1 /\ (ident > p <=> line[p] \in Starts)
      /\ next \in p + 1 .. Len(line) + 1
  <2>1. ident \in p .. Len(line) + 1 /\ (ident > p <=> (p <= Len(line) /\ line[p] \in Starts))
    BY <1>0, IdentMoves
  <2>2. next \in p + 1 .. Len(line) + 1
    BY <1>0, IdentMoves
  <2> HIDE DEF ident
  <2> QED BY <1>0, <2>1, <2>2
<1>7. e8 = IF LeanMethod(line, p) THEN next ELSE p
  <2>1. Lean!After(line, p, <<".">>) = IF p <= Len(line) /\ line[p] = "." THEN p + 1 ELSE p
    BY <1>0, AfterOne
  <2> QED BY <1>0, <1>6, <2>1 DEF LeanMethod
<1>8. /\ e9 = IF Pair(line, p, ":", "=") THEN p + 2 ELSE p
      /\ e10 = IF Pair(line, p, "=", ">") THEN p + 2 ELSE p
      /\ e11 = IF Pair(line, p, "-", ">") THEN p + 2 ELSE p
  BY <1>0, AfterPair
<1>9. s7 = LeanStyle(words, LeanName(line, p))
  BY DEF LeanName
<1> HIDE DEF ident, next, e1, e2, e3, e4, e5, e6, e8, e9, e10, e11, s7, c
<1>10. /\ DOMAIN R = 1 .. 12
       /\ R[1] = [end |-> e1, style |-> "none"] /\ R[2] = [end |-> e2, style |-> "comment"]
       /\ R[3] = [end |-> e3, style |-> "string"] /\ R[4] = [end |-> e4, style |-> "string"]
       /\ R[5] = [end |-> e5, style |-> "number"] /\ R[6] = [end |-> e6, style |-> "meta"]
       /\ R[7] = [end |-> ident, style |-> s7] /\ R[8] = [end |-> e8, style |-> "methodName"]
       /\ R[9] = [end |-> e9, style |-> "operator"] /\ R[10] = [end |-> e10, style |-> "operator"]
       /\ R[11] = [end |-> e11, style |-> "operator"] /\ R[12] = [end |-> p + 1, style |-> "operator"]
  OBVIOUS
<1> HIDE DEF R
<1>20. /\ R[1].end = e1 /\ R[2].end = e2 /\ R[3].end = e3 /\ R[4].end = e4 /\ R[5].end = e5
       /\ R[6].end = e6 /\ R[7].end = ident /\ R[8].end = e8 /\ R[9].end = e9
       /\ R[10].end = e10 /\ R[11].end = e11 /\ R[12].end = p + 1
  BY <1>10
<1>11. \A i \in 1 .. 12 : R[i].end \in Nat
  <2>1. LeanMethod(line, p) => e8 \in Nat
    BY <1>0, <1>6, <1>7
  <2>2. e8 \in Nat /\ e9 \in Nat /\ e10 \in Nat /\ e11 \in Nat /\ e2 \in Nat
    BY <1>0, <1>3, <1>7, <1>8, <2>1
  <2>3. e1 \in Nat /\ e3 \in Nat /\ e4 \in Nat /\ e5 \in Nat /\ e6 \in Nat /\ ident \in Nat
    BY <1>0, <1>2, <1>4, <1>5, <1>6
  <2> SUFFICES ASSUME NEW i \in 1 .. 12 PROVE R[i].end \in Nat
    OBVIOUS
  <2>4. CASE i \in 1 .. 4
    <3>1. i = 1 \/ i = 2 \/ i = 3 \/ i = 4
      BY <2>4
    <3>2. R[1].end \in Nat /\ R[2].end \in Nat /\ R[3].end \in Nat /\ R[4].end \in Nat
      BY <1>0, <1>20, <2>2, <2>3
    <3> QED BY <3>1, <3>2
  <2>5. CASE i \in 5 .. 8
    <3>1. i = 5 \/ i = 6 \/ i = 7 \/ i = 8
      BY <2>5
    <3>2. R[5].end \in Nat /\ R[6].end \in Nat /\ R[7].end \in Nat /\ R[8].end \in Nat
      BY <1>0, <1>20, <2>2, <2>3
    <3> QED BY <3>1, <3>2
  <2>6. CASE i \in 9 .. 12
    <3>1. i = 9 \/ i = 10 \/ i = 11 \/ i = 12
      BY <2>6
    <3>2. R[9].end \in Nat /\ R[10].end \in Nat /\ R[11].end \in Nat /\ R[12].end \in Nat
      BY <1>0, <1>20, <2>2, <2>3
    <3> QED BY <3>1, <3>2
  <2> QED BY <2>4, <2>5, <2>6
<1>12. PICK i \in 1 .. 12 : /\ Lean!FirstOf(p, R) = R[i] /\ R[i].end > p
                            /\ \A j \in 1 .. i - 1 : R[j].end <= p
  <2>1. (\E i \in 1 .. 12 : R[i].end > p) /\ p \in Nat /\ 12 \in Nat
    BY <1>20
  <2> QED BY <1>10, <1>11, <2>1, FirstOfIs
<1>13. c = R[i] /\ R[i].end > p /\ \A j \in 1 .. 12 : j < i => R[j].end <= p
  <2>1. \A j \in 1 .. 12 : j < i => j \in 1 .. i - 1
    OBVIOUS
  <2> QED BY <1>1, <1>12, <2>1
<1>14. /\ i > 1 => line[p] # Blank
       /\ i > 2 => ~Dashes(line, p)
       /\ i > 3 => line[p] # Quote
       /\ i > 4 => e4 <= p
       /\ i > 5 => line[p] \notin Lean!Digits
       /\ i > 6 => e6 = p
       /\ i > 7 => line[p] \notin Starts
       /\ i > 8 => ~LeanMethod(line, p)
       /\ i > 9 => ~Pair(line, p, ":", "=")
       /\ i > 10 => ~Pair(line, p, "=", ">")
       /\ i > 11 => ~Pair(line, p, "-", ">")
  <2>1. ASSUME i > 1 PROVE line[p] # Blank
    <3>1. R[1].end <= p
      BY <1>13, <2>1
    <3>2. e1 <= p
      BY <1>20, <3>1
    <3> QED BY <1>0, <1>2, <3>2
  <2>2. ASSUME i > 2 PROVE ~Dashes(line, p)
    <3>1. R[2].end <= p
      BY <1>13, <2>2
    <3>2. e2 <= p
      BY <1>20, <3>1
    <3> QED BY <1>0, <1>3, <3>2
  <2>3. ASSUME i > 3 PROVE line[p] # Quote
    <3>1. R[3].end <= p
      BY <1>13, <2>3
    <3>2. e3 <= p
      BY <1>20, <3>1
    <3> QED BY <1>0, <1>4, <3>2
  <2>4. ASSUME i > 4 PROVE e4 <= p
    <3>1. R[4].end <= p
      BY <1>13, <2>4
    <3>2. e4 <= p
      BY <1>20, <3>1
    <3> QED BY <1>0, <1>4, <3>2
  <2>5. ASSUME i > 5 PROVE line[p] \notin Lean!Digits
    <3>1. R[5].end <= p
      BY <1>13, <2>5
    <3>2. e5 <= p
      BY <1>20, <3>1
    <3> QED BY <1>0, <1>5, <3>2
  <2>6. ASSUME i > 6 PROVE e6 = p
    <3>1. R[6].end <= p
      BY <1>13, <2>6
    <3>2. e6 <= p
      BY <1>20, <3>1
    <3> QED BY <1>0, <1>5, <3>2
  <2>7. ASSUME i > 7 PROVE line[p] \notin Starts
    <3>1. R[7].end <= p
      BY <1>13, <2>7
    <3>2. ident <= p
      BY <1>20, <3>1
    <3> QED BY <1>0, <1>6, <3>2
  <2>8. ASSUME i > 8 PROVE ~LeanMethod(line, p)
    <3>1. R[8].end <= p
      BY <1>13, <2>8
    <3>2. e8 <= p
      BY <1>20, <3>1
    <3> QED BY <1>0, <1>6, <1>7, <3>2
  <2>9. ASSUME i > 9 PROVE ~Pair(line, p, ":", "=")
    <3>1. R[9].end <= p
      BY <1>13, <2>9
    <3>2. e9 <= p
      BY <1>20, <3>1
    <3> QED BY <1>0, <1>8, <3>2
  <2>10. ASSUME i > 10 PROVE ~Pair(line, p, "=", ">")
    <3>1. R[10].end <= p
      BY <1>13, <2>10
    <3>2. e10 <= p
      BY <1>20, <3>1
    <3> QED BY <1>0, <1>8, <3>2
  <2>11. ASSUME i > 11 PROVE ~Pair(line, p, "-", ">")
    <3>1. R[11].end <= p
      BY <1>13, <2>11
    <3>2. e11 <= p
      BY <1>20, <3>1
    <3> QED BY <1>0, <1>8, <3>2
  <2> QED BY <2>1, <2>2, <2>3, <2>4, <2>5, <2>6, <2>7, <2>8, <2>9, <2>10, <2>11
<1>15. ASSUME Lit(line, p) PROVE c = LitOf(line, p)
  <2>1. Dashes(line, p) => line[p] = "-"
    BY DEF Dashes
  <2>2. e4 > p => line[p] = "'"
    BY CharMoves DEF e4
  <2>3. line[p] \in {"-", Quote, "'"} /\ (Dashes(line, p) \/ line[p] = Quote \/ e4 > p)
    BY <1>15, <2>1, <2>2 DEF Lit, e4
  <2>4. i # 1
    <3>1. line[p] # Blank
      BY <2>3, MarksDiffer
    <3>2. e1 = p
      BY <1>0, <1>2, <3>1
    <3> QED BY <1>0, <1>13, <1>20, <3>2
  <2>5. i <= 4
    <3>1. CASE i > 4
      BY <1>14, <1>0, <1>4, <2>3, <3>1
    <3> QED BY <3>1
  <2>6. CASE i = 2
    <3>1. e2 > p /\ c = [end |-> e2, style |-> "comment"]
      BY <1>10, <1>13, <1>20, <2>6
    <3> QED BY <1>0, <1>3, <3>1 DEF LitOf
  <2>7. CASE i = 3
    <3>1. e3 > p /\ c = [end |-> e3, style |-> "string"]
      BY <1>10, <1>13, <1>20, <2>7
    <3>2. ~Dashes(line, p) /\ line[p] = Quote
      BY <1>4, <1>14, <2>7, <3>1
    <3> QED BY <3>1, <3>2 DEF LitOf, e3
  <2>8. CASE i = 4
    <3>1. c = [end |-> e4, style |-> "string"]
      BY <1>10, <1>13, <2>8
    <3>2. ~Dashes(line, p) /\ line[p] # Quote
      BY <1>14, <2>8
    <3> QED BY <3>1, <3>2 DEF LitOf, e4
  <2> QED BY <2>4, <2>5, <2>6, <2>7, <2>8
<1>16. ASSUME ~Lit(line, p) PROVE LeanPick(words, line, p, c)
  <2>1. ~Dashes(line, p) /\ line[p] # Quote /\ e4 <= p
    BY <1>0, <1>4, <1>16 DEF Lit, e4
  <2>2. i \notin {2, 3, 4}
    <3>1. e2 = p /\ e3 <= p /\ e4 <= p
      BY <1>0, <1>3, <1>4, <2>1
    <3>2. i # 2
      BY <1>0, <1>13, <1>20, <3>1
    <3>3. i # 3
      BY <1>0, <1>4, <1>13, <1>20, <3>1
    <3>4. i # 4
      BY <1>0, <1>4, <1>13, <1>20, <3>1
    <3> QED BY <3>2, <3>3, <3>4
  <2>3. CASE i = 1
    <3>1. c = [end |-> e1, style |-> "none"] /\ e1 > p
      BY <1>10, <1>13, <1>20, <2>3
    <3> QED BY <1>2, <3>1 DEF LeanPick, Common, e1
  <2>5. CASE i = 5
    <3>1. c = [end |-> e5, style |-> "number"] /\ e5 > p
      BY <1>10, <1>13, <1>20, <2>5
    <3> QED BY <1>5, <3>1 DEF LeanPick, Common, e5
  <2>6. CASE i = 6
    <3>1. c = [end |-> e6, style |-> "meta"] /\ e6 > p
      BY <1>10, <1>13, <1>20, <2>6
    <3> QED BY <1>5, <3>1 DEF LeanPick, Common, e6
  <2>7. CASE i = 7
    <3>1. c = [end |-> ident, style |-> s7] /\ ident > p
      BY <1>10, <1>13, <1>20, <2>7
    <3> QED BY <1>6, <1>9, <3>1 DEF LeanPick, ident
  <2>8. CASE i = 8
    <3>1. c = [end |-> e8, style |-> "methodName"] /\ e8 > p
      BY <1>10, <1>13, <1>20, <2>8
    <3>2. LeanMethod(line, p) /\ e8 = next
      BY <1>0, <1>7, <3>1
    <3> QED BY <3>1, <3>2 DEF LeanPick, next
  <2>9. CASE i = 9
    <3>1. c = [end |-> e9, style |-> "operator"] /\ e9 > p
      BY <1>10, <1>13, <1>20, <2>9
    <3>2. Pair(line, p, ":", "=") /\ e9 = p + 2
      BY <1>0, <1>8, <3>1
    <3> QED BY <3>1, <3>2 DEF LeanPick, Common
  <2>10. CASE i = 10
    <3>1. c = [end |-> e10, style |-> "operator"] /\ e10 > p
      BY <1>10, <1>13, <1>20, <2>10
    <3>2. Pair(line, p, "=", ">") /\ e10 = p + 2
      BY <1>0, <1>8, <3>1
    <3> QED BY <3>1, <3>2 DEF LeanPick
  <2>11. CASE i = 11
    <3>1. c = [end |-> e11, style |-> "operator"] /\ e11 > p
      BY <1>10, <1>13, <1>20, <2>11
    <3>2. Pair(line, p, "-", ">") /\ e11 = p + 2
      BY <1>0, <1>8, <3>1
    <3> QED BY <3>1, <3>2 DEF LeanPick, Common
  <2>12. CASE i = 12
    <3>1. c.end = p + 1 /\ c.style = "operator"
      BY <1>10, <1>13, <2>12
    <3>2. line[p] \notin Lean!Digits \cup {Blank} \cup Lean!Alphabetic /\ line[p] # "_"
      <4>1. line[p] \notin Starts /\ line[p] # Blank /\ line[p] \notin Lean!Digits
        BY <1>14, <2>12
      <4> QED BY <4>1 DEF Starts
    <3>3. /\ e6 = p /\ ~LeanMethod(line, p)
          /\ ~Pair(line, p, ":", "=") /\ ~Pair(line, p, "=", ">") /\ ~Pair(line, p, "-", ">")
      BY <1>14, <2>12
    <3> QED BY <3>1, <3>2, <3>3 DEF LeanPick, Single, e6
  <2>13. i = 1 \/ i = 5 \/ i = 6 \/ i = 7 \/ i = 8 \/ i = 9 \/ i = 10 \/ i = 11 \/ i = 12
    BY <2>2
  <2> QED BY <2>3, <2>5, <2>6, <2>7, <2>8, <2>9, <2>10, <2>11, <2>12, <2>13
<1> QED BY <1>15, <1>16 DEF c

\* Which rule of casdsl.ts is taken at p (casdsl.ts:121-234).
LEMMA CasPicks ==
  ASSUME NEW line \in Seq(STRING), NEW p \in 1 .. Len(line)
  PROVE  LET c == Cas!FirstOf(p, Cas!Rules(line, p))
         IN /\ Lit(line, p) => c = LitOf(line, p)
            /\ ~Lit(line, p) => CasPick(line, p, c)
<1> DEFINE ident == Cas!IDENT(line, p)
           name == IF ident = p + 1 THEN line[p] ELSE ""
           next == Cas!IDENT(line, p + 1)
           Ops == {"mapsto", "leq", "in"}
           e1 == Cas!EndOf(line, p, {Blank})
           e2 == IF Cas!After(line, p, <<"-", "-">>) > p THEN Len(line) + 1 ELSE p
           e3 == Cas!String(line, p)
           e4 == Cas!CHAR_LITERAL(line, p)
           e5 == Cas!NUMBER(line, p)
           e6 == Cas!HASH_COMMAND(line, p)
           e7 == Cas!After(line, p, <<"oo">>)
           e8 == IF \E w \in Ops : Cas!After(line, p, <<Backslash, w>>) > p THEN p + 2 ELSE p
           e9 == IF \E w \in Cas!Spelled : Cas!After(line, p, <<Backslash, w>>) > p THEN p + 2 ELSE p
           e11 == IF Cas!After(line, p, <<".">>) > p /\ next > p + 1 THEN next ELSE p
           e12 == Cas!After(line, p, <<":", "=">>)
           e13 == Cas!After(line, p, <<"|", "-", ">">>)
           e14 == Cas!After(line, p, <<"-", ">">>)
           e15 == Cas!After(line, p, <<".", ".", ".">>)
           s10 == CasStyle(name)
           R == << [end |-> e1, style |-> "none"],
                   [end |-> e2, style |-> "comment"],
                   [end |-> e3, style |-> "string"],
                   [end |-> e4, style |-> "string"],
                   [end |-> e5, style |-> "number"],
                   [end |-> e6, style |-> "meta"],
                   [end |-> e7, style |-> "atom"],
                   [end |-> e8, style |-> "operator"],
                   [end |-> e9, style |-> "typeName"],
                   [end |-> ident, style |-> s10],
                   [end |-> e11, style |-> "methodName"],
                   [end |-> e12, style |-> "operator"],
                   [end |-> e13, style |-> "operator"],
                   [end |-> e14, style |-> "operator"],
                   [end |-> e15, style |-> "operator"],
                   [end |-> p + 1, style |-> "operator"] >>
           c == Cas!FirstOf(p, Cas!Rules(line, p))
<1>0. Len(line) \in Nat /\ p \in Nat /\ p \in 1 .. Len(line) + 1 /\ p + 1 \in 1 .. Len(line) + 1
  OBVIOUS
<1>1. c = Lean!FirstOf(p, R)
  BY FirstSame, Zenon DEF Cas!Rules, CasStyle, Blank, Backslash
<1>2. e1 \in p .. Len(line) + 1 /\ (e1 > p <=> line[p] = Blank)
  <2>1. e1 \in p .. Len(line) + 1 /\ (e1 > p <=> line[p] \in {Blank})
    BY EndOfMoves, EndOfSame
  <2> QED BY <2>1
<1>3. e2 = IF Dashes(line, p) THEN Len(line) + 1 ELSE p
  BY <1>0, AfterTwo, AfterSame DEF Dashes
<1>4. e3 \in p .. Len(line) + 1 /\ e4 \in p .. Len(line) + 1 /\ (e3 > p <=> line[p] = Quote)
  <2>1. e3 \in p .. Len(line) + 1 /\ e4 \in p .. Len(line) + 1
    BY <1>0, StringMoves, CharIs, StringSame, CharSame
  <2>2. e3 > p <=> line[p] = Quote
    BY StringMoves, StringSame
  <2> QED BY <2>1, <2>2
<1>5. e5 \in p .. Len(line) + 1 /\ (e5 > p <=> line[p] \in Lean!Digits)
      /\ e6 \in p .. Len(line) + 1 /\ (e6 > p => line[p] = "#")
  BY NumberMoves, HashMoves, NumberSame, HashSame
<1>6. /\ ident \in p .. Len(line) + 1 /\ (ident > p <=> line[p] \in Lean!Alphabetic)
      /\ next \in p + 1 .. Len(line) + 1
  <2>1. ident \in p .. Len(line) + 1 /\ (ident > p <=> (p <= Len(line) /\ line[p] \in Lean!Alphabetic))
    BY <1>0, IdentMoves
  <2>2. next \in p + 1 .. Len(line) + 1
    BY <1>0, IdentMoves
  <2> HIDE DEF ident
  <2> QED BY <1>0, <2>1, <2>2
<1>7. e11 = IF CasMethod(line, p) THEN next ELSE p
  <2>1. Cas!After(line, p, <<".">>) = IF p <= Len(line) /\ line[p] = "." THEN p + 1 ELSE p
    BY <1>0, AfterOne, AfterSame
  <2> QED BY <1>0, <1>6, <2>1 DEF CasMethod
<1>8. /\ e12 = IF Pair(line, p, ":", "=") THEN p + 2 ELSE p
      /\ e13 = IF Triple(line, p, "|", "-", ">") THEN p + 3 ELSE p
      /\ e14 = IF Pair(line, p, "-", ">") THEN p + 2 ELSE p
      /\ e15 = IF Triple(line, p, ".", ".", ".") THEN p + 3 ELSE p
  BY <1>0, AfterPair, AfterTriple, AfterSame
<1>9. s10 = CasStyle(CasName(line, p))
  BY DEF CasName
<1>21. e7 = IF line[p] = "oo" THEN p + 1 ELSE p
  BY <1>0, AfterOne, AfterSame
<1>22. /\ e8 = IF Latex(line, p, Ops) THEN p + 2 ELSE p
       /\ e9 = IF Latex(line, p, Cas!Spelled) THEN p + 2 ELSE p
  <2>1. \A words : (\E w \in words : Cas!After(line, p, <<Backslash, w>>) > p) <=> Latex(line, p, words)
    BY LatexIs
  <2>2. (\E w \in Ops : Cas!After(line, p, <<Backslash, w>>) > p) <=> Latex(line, p, Ops)
    BY <2>1, Zenon
  <2>3. (\E w \in Cas!Spelled : Cas!After(line, p, <<Backslash, w>>) > p) <=> Latex(line, p, Cas!Spelled)
    BY <2>1, Zenon
  <2>4. e8 = IF Latex(line, p, Ops) THEN p + 2 ELSE p
    <3>1. CASE Latex(line, p, Ops)
      BY <2>2, <3>1, Zenon
    <3>2. CASE ~Latex(line, p, Ops)
      BY <2>2, <3>2, Zenon
    <3> QED BY <3>1, <3>2
  <2>5. e9 = IF Latex(line, p, Cas!Spelled) THEN p + 2 ELSE p
    <3>1. CASE Latex(line, p, Cas!Spelled)
      BY <2>3, <3>1, Zenon
    <3>2. CASE ~Latex(line, p, Cas!Spelled)
      BY <2>3, <3>2, Zenon
    <3> QED BY <3>1, <3>2
  <2> QED BY <2>4, <2>5
<1> HIDE DEF ident, next, Ops, e1, e2, e3, e4, e5, e6, e7, e8, e9, e11, e12, e13, e14, e15, s10, c
<1>10. /\ DOMAIN R = 1 .. 16
       /\ R[1] = [end |-> e1, style |-> "none"]
       /\ R[2] = [end |-> e2, style |-> "comment"]
       /\ R[3] = [end |-> e3, style |-> "string"]
       /\ R[4] = [end |-> e4, style |-> "string"]
       /\ R[5] = [end |-> e5, style |-> "number"]
       /\ R[6] = [end |-> e6, style |-> "meta"]
       /\ R[7] = [end |-> e7, style |-> "atom"]
       /\ R[8] = [end |-> e8, style |-> "operator"]
       /\ R[9] = [end |-> e9, style |-> "typeName"]
       /\ R[10] = [end |-> ident, style |-> s10]
       /\ R[11] = [end |-> e11, style |-> "methodName"]
       /\ R[12] = [end |-> e12, style |-> "operator"]
       /\ R[13] = [end |-> e13, style |-> "operator"]
       /\ R[14] = [end |-> e14, style |-> "operator"]
       /\ R[15] = [end |-> e15, style |-> "operator"]
       /\ R[16] = [end |-> p + 1, style |-> "operator"]
  OBVIOUS
<1> HIDE DEF R
<1>20. /\ R[1].end = e1
       /\ R[2].end = e2
       /\ R[3].end = e3
       /\ R[4].end = e4
       /\ R[5].end = e5
       /\ R[6].end = e6
       /\ R[7].end = e7
       /\ R[8].end = e8
       /\ R[9].end = e9
       /\ R[10].end = ident
       /\ R[11].end = e11
       /\ R[12].end = e12
       /\ R[13].end = e13
       /\ R[14].end = e14
       /\ R[15].end = e15
       /\ R[16].end = p + 1
  BY <1>10
<1>11. \A i \in 1 .. 16 : R[i].end \in Nat
  <2>1. CasMethod(line, p) => e11 \in Nat
    BY <1>0, <1>6, <1>7
  <2>2. e7 \in Nat /\ e8 \in Nat /\ e9 \in Nat /\ e11 \in Nat
    BY <1>0, <1>7, <1>21, <1>22, <2>1
  <2>3. e12 \in Nat /\ e13 \in Nat /\ e14 \in Nat /\ e15 \in Nat /\ e2 \in Nat
    BY <1>0, <1>3, <1>8
  <2>4. e1 \in Nat /\ e3 \in Nat /\ e4 \in Nat /\ e5 \in Nat /\ e6 \in Nat /\ ident \in Nat
    BY <1>0, <1>2, <1>4, <1>5, <1>6
  <2> SUFFICES ASSUME NEW i \in 1 .. 16 PROVE R[i].end \in Nat
    OBVIOUS
  <2>5. CASE i \in 1 .. 4
    <3>1. i = 1 \/ i = 2 \/ i = 3 \/ i = 4
      BY <2>5
    <3>2. R[1].end \in Nat /\ R[2].end \in Nat /\ R[3].end \in Nat /\ R[4].end \in Nat
      BY <1>0, <1>20, <2>2, <2>3, <2>4
    <3> QED BY <3>1, <3>2
  <2>6. CASE i \in 5 .. 8
    <3>1. i = 5 \/ i = 6 \/ i = 7 \/ i = 8
      BY <2>6
    <3>2. R[5].end \in Nat /\ R[6].end \in Nat /\ R[7].end \in Nat /\ R[8].end \in Nat
      BY <1>0, <1>20, <2>2, <2>3, <2>4
    <3> QED BY <3>1, <3>2
  <2>7. CASE i \in 9 .. 12
    <3>1. i = 9 \/ i = 10 \/ i = 11 \/ i = 12
      BY <2>7
    <3>2. R[9].end \in Nat /\ R[10].end \in Nat /\ R[11].end \in Nat /\ R[12].end \in Nat
      BY <1>0, <1>20, <2>2, <2>3, <2>4
    <3> QED BY <3>1, <3>2
  <2>8. CASE i \in 13 .. 16
    <3>1. i = 13 \/ i = 14 \/ i = 15 \/ i = 16
      BY <2>8
    <3>2. R[13].end \in Nat /\ R[14].end \in Nat /\ R[15].end \in Nat /\ R[16].end \in Nat
      BY <1>0, <1>20, <2>2, <2>3, <2>4
    <3> QED BY <3>1, <3>2
  <2> QED BY <2>5, <2>6, <2>7, <2>8
<1>12. PICK i \in 1 .. 16 : /\ Lean!FirstOf(p, R) = R[i] /\ R[i].end > p
                            /\ \A j \in 1 .. i - 1 : R[j].end <= p
  <2>1. (\E i \in 1 .. 16 : R[i].end > p) /\ p \in Nat /\ 16 \in Nat
    BY <1>20
  <2> QED BY <1>10, <1>11, <2>1, FirstOfIs
<1>13. c = R[i] /\ R[i].end > p /\ \A j \in 1 .. 16 : j < i => R[j].end <= p
  <2>1. \A j \in 1 .. 16 : j < i => j \in 1 .. i - 1
    OBVIOUS
  <2> QED BY <1>1, <1>12, <2>1
<1>14. /\ i > 1 => line[p] # Blank
       /\ i > 2 => ~Dashes(line, p)
       /\ i > 3 => line[p] # Quote
       /\ i > 4 => e4 <= p
       /\ i > 5 => line[p] \notin Lean!Digits
       /\ i > 6 => e6 = p
       /\ i > 7 => line[p] # "oo"
       /\ i > 10 => line[p] \notin Lean!Alphabetic
       /\ i > 11 => ~CasMethod(line, p)
       /\ i > 12 => ~Pair(line, p, ":", "=")
       /\ i > 13 => ~Triple(line, p, "|", "-", ">")
       /\ i > 14 => ~Pair(line, p, "-", ">")
  <2>1. ASSUME i > 1 PROVE line[p] # Blank
    <3>1. R[1].end <= p
      BY <1>13, <2>1
    <3>2. e1 <= p
      BY <1>20, <3>1
    <3> QED BY <1>0, <1>2, <3>2
  <2>2. ASSUME i > 2 PROVE ~Dashes(line, p)
    <3>1. R[2].end <= p
      BY <1>13, <2>2
    <3>2. e2 <= p
      BY <1>20, <3>1
    <3> QED BY <1>0, <1>3, <3>2
  <2>3. ASSUME i > 3 PROVE line[p] # Quote
    <3>1. R[3].end <= p
      BY <1>13, <2>3
    <3>2. e3 <= p
      BY <1>20, <3>1
    <3> QED BY <1>0, <1>4, <3>2
  <2>4. ASSUME i > 4 PROVE e4 <= p
    <3>1. R[4].end <= p
      BY <1>13, <2>4
    <3>2. e4 <= p
      BY <1>20, <3>1
    <3> QED BY <1>0, <1>4, <3>2
  <2>5. ASSUME i > 5 PROVE line[p] \notin Lean!Digits
    <3>1. R[5].end <= p
      BY <1>13, <2>5
    <3>2. e5 <= p
      BY <1>20, <3>1
    <3> QED BY <1>0, <1>5, <3>2
  <2>6. ASSUME i > 6 PROVE e6 = p
    <3>1. R[6].end <= p
      BY <1>13, <2>6
    <3>2. e6 <= p
      BY <1>20, <3>1
    <3> QED BY <1>0, <1>5, <3>2
  <2>7. ASSUME i > 7 PROVE line[p] # "oo"
    <3>1. R[7].end <= p
      BY <1>13, <2>7
    <3>2. e7 <= p
      BY <1>20, <3>1
    <3> QED BY <1>0, <1>21, <3>2
  <2>10. ASSUME i > 10 PROVE line[p] \notin Lean!Alphabetic
    <3>1. R[10].end <= p
      BY <1>13, <2>10
    <3>2. ident <= p
      BY <1>20, <3>1
    <3> QED BY <1>0, <1>6, <3>2
  <2>11. ASSUME i > 11 PROVE ~CasMethod(line, p)
    <3>1. R[11].end <= p
      BY <1>13, <2>11
    <3>2. e11 <= p
      BY <1>20, <3>1
    <3>3. CasMethod(line, p) => next > p + 1
      BY DEF CasMethod, next
    <3> QED BY <1>0, <1>6, <1>7, <3>2, <3>3
  <2>12. ASSUME i > 12 PROVE ~Pair(line, p, ":", "=")
    <3>1. R[12].end <= p
      BY <1>13, <2>12
    <3>2. e12 <= p
      BY <1>20, <3>1
    <3> QED BY <1>0, <1>8, <3>2
  <2>13. ASSUME i > 13 PROVE ~Triple(line, p, "|", "-", ">")
    <3>1. R[13].end <= p
      BY <1>13, <2>13
    <3>2. e13 <= p
      BY <1>20, <3>1
    <3> QED BY <1>0, <1>8, <3>2
  <2>14. ASSUME i > 14 PROVE ~Pair(line, p, "-", ">")
    <3>1. R[14].end <= p
      BY <1>13, <2>14
    <3>2. e14 <= p
      BY <1>20, <3>1
    <3> QED BY <1>0, <1>8, <3>2
  <2> QED BY <2>1, <2>2, <2>3, <2>4, <2>5, <2>6, <2>7, <2>10, <2>11, <2>12, <2>13, <2>14
<1>15. ASSUME Lit(line, p) PROVE c = LitOf(line, p)
  <2>1. Dashes(line, p) => line[p] = "-"
    BY DEF Dashes
  <2>2. e4 > p => line[p] = "'"
    BY CharMoves, CharSame DEF e4
  <2>3. line[p] \in {"-", Quote, "'"} /\ (Dashes(line, p) \/ line[p] = Quote \/ e4 > p)
    BY <1>15, <2>1, <2>2, CharSame DEF Lit, e4
  <2>4. i # 1
    <3>1. line[p] # Blank
      BY <2>3, MarksDiffer
    <3>2. e1 = p
      BY <1>0, <1>2, <3>1
    <3> QED BY <1>0, <1>13, <1>20, <3>2
  <2>5. i <= 4
    <3>1. CASE i > 4
      BY <1>14, <1>0, <1>4, <2>3, <3>1
    <3> QED BY <3>1
  <2>6. CASE i = 2
    <3>1. e2 > p /\ c = [end |-> e2, style |-> "comment"]
      BY <1>10, <1>13, <1>20, <2>6
    <3> QED BY <1>0, <1>3, <3>1 DEF LitOf
  <2>7. CASE i = 3
    <3>1. e3 > p /\ c = [end |-> e3, style |-> "string"]
      BY <1>10, <1>13, <1>20, <2>7
    <3>2. ~Dashes(line, p) /\ line[p] = Quote
      BY <1>4, <1>14, <2>7, <3>1
    <3> QED BY <3>1, <3>2, StringSame DEF LitOf, e3
  <2>8. CASE i = 4
    <3>1. c = [end |-> e4, style |-> "string"]
      BY <1>10, <1>13, <2>8
    <3>2. ~Dashes(line, p) /\ line[p] # Quote
      BY <1>14, <2>8
    <3> QED BY <3>1, <3>2, CharSame DEF LitOf, e4
  <2> QED BY <2>4, <2>5, <2>6, <2>7, <2>8
<1>16. ASSUME ~Lit(line, p) PROVE CasPick(line, p, c)
  <2>1. ~Dashes(line, p) /\ line[p] # Quote /\ e4 <= p
    BY <1>0, <1>4, <1>16, CharSame DEF Lit, e4
  <2>2. i \notin {2, 3, 4}
    <3>1. e2 = p /\ e3 <= p /\ e4 <= p
      BY <1>0, <1>3, <1>4, <2>1
    <3>2. i # 2
      BY <1>0, <1>13, <1>20, <3>1
    <3>3. i # 3
      BY <1>0, <1>4, <1>13, <1>20, <3>1
    <3>4. i # 4
      BY <1>0, <1>4, <1>13, <1>20, <3>1
    <3> QED BY <3>2, <3>3, <3>4
  <2>11. CASE i = 1
    <3>1. c = [end |-> e1, style |-> "none"] /\ e1 > p
      BY <1>10, <1>13, <1>20, <2>11
    <3> QED BY <1>2, <3>1, EndOfSame DEF CasPick, Common, e1
  <2>15. CASE i = 5
    <3>1. c = [end |-> e5, style |-> "number"] /\ e5 > p
      BY <1>10, <1>13, <1>20, <2>15
    <3> QED BY <1>5, <3>1, NumberSame DEF CasPick, Common, e5
  <2>16. CASE i = 6
    <3>1. c = [end |-> e6, style |-> "meta"] /\ e6 > p
      BY <1>10, <1>13, <1>20, <2>16
    <3> QED BY <1>5, <3>1, HashSame DEF CasPick, Common, e6
  <2>18. CASE i = 8
    <3>1. c = [end |-> e8, style |-> "operator"] /\ e8 > p
      BY <1>10, <1>13, <1>20, <2>18
    <3>2. Latex(line, p, Ops) /\ e8 = p + 2
      BY <1>0, <1>22, <3>1
    <3> QED BY <3>1, <3>2 DEF CasPick, Ops
  <2>19. CASE i = 9
    <3>1. c = [end |-> e9, style |-> "typeName"] /\ e9 > p
      BY <1>10, <1>13, <1>20, <2>19
    <3>2. Latex(line, p, Cas!Spelled) /\ e9 = p + 2
      BY <1>0, <1>22, <3>1
    <3> QED BY <3>1, <3>2 DEF CasPick
  <2>20. CASE i = 10
    <3>1. c = [end |-> ident, style |-> s10] /\ ident > p
      BY <1>10, <1>13, <1>20, <2>20
    <3> QED BY <1>6, <1>9, <3>1 DEF CasPick, ident
  <2>21. CASE i = 11
    <3>1. c = [end |-> e11, style |-> "methodName"] /\ e11 > p
      BY <1>10, <1>13, <1>20, <2>21
    <3>2. CasMethod(line, p) /\ e11 = next
      BY <1>0, <1>7, <3>1
    <3> QED BY <3>1, <3>2 DEF CasPick, next
  <2>22. CASE i = 12
    <3>1. c = [end |-> e12, style |-> "operator"] /\ e12 > p
      BY <1>10, <1>13, <1>20, <2>22
    <3>2. Pair(line, p, ":", "=") /\ e12 = p + 2
      BY <1>0, <1>8, <3>1
    <3> QED BY <3>1, <3>2 DEF CasPick, Common
  <2>23. CASE i = 13
    <3>1. c = [end |-> e13, style |-> "operator"] /\ e13 > p
      BY <1>10, <1>13, <1>20, <2>23
    <3>2. Triple(line, p, "|", "-", ">") /\ e13 = p + 3
      BY <1>0, <1>8, <3>1
    <3> QED BY <3>1, <3>2 DEF CasPick
  <2>24. CASE i = 14
    <3>1. c = [end |-> e14, style |-> "operator"] /\ e14 > p
      BY <1>10, <1>13, <1>20, <2>24
    <3>2. Pair(line, p, "-", ">") /\ e14 = p + 2
      BY <1>0, <1>8, <3>1
    <3> QED BY <3>1, <3>2 DEF CasPick, Common
  <2>25. CASE i = 15
    <3>1. c = [end |-> e15, style |-> "operator"] /\ e15 > p
      BY <1>10, <1>13, <1>20, <2>25
    <3>2. Triple(line, p, ".", ".", ".") /\ e15 = p + 3
      BY <1>0, <1>8, <3>1
    <3> QED BY <3>1, <3>2 DEF CasPick
  <2>17. CASE i = 7
    <3>1. c.end = e7 /\ c.style = "atom" /\ e7 > p
      BY <1>10, <1>13, <1>20, <2>17
    <3>2. line[p] = "oo" /\ e7 = p + 1
      BY <1>0, <1>21, <3>1
    <3>3. line[p] \notin Lean!Digits \cup {Blank} \cup Lean!Alphabetic
      BY <3>2, MarksDiffer, StartsIs DEF Lean!Digits, Starts
    <3>4. /\ ~Pair(line, p, ":", "=") /\ ~Pair(line, p, "-", ">")
          /\ ~Triple(line, p, "|", "-", ">") /\ ~CasMethod(line, p)
      BY <3>2 DEF Pair, Triple, CasMethod
    <3> QED BY <3>1, <3>2, <3>3, <3>4 DEF CasPick, Single
  <2>26. CASE i = 16
    <3>1. c.end = p + 1 /\ c.style = "operator"
      BY <1>10, <1>13, <2>26
    <3>2. line[p] \notin Lean!Digits \cup {Blank} \cup Lean!Alphabetic
      <4>1. line[p] \notin Lean!Alphabetic /\ line[p] # Blank /\ line[p] \notin Lean!Digits
        BY <1>14, <2>26
      <4> QED BY <4>1
    <3>3. /\ e6 = p /\ ~CasMethod(line, p) /\ ~Pair(line, p, ":", "=")
          /\ ~Triple(line, p, "|", "-", ">") /\ ~Pair(line, p, "-", ">") /\ line[p] # "oo"
      BY <1>14, <2>26
    <3> QED BY <3>1, <3>2, <3>3, HashSame DEF CasPick, Single, e6
  <2>3. i \in 1 .. 8 \/ i \in 9 .. 16
    OBVIOUS
  <2>4. i \in 1 .. 8 => i = 1 \/ i = 5 \/ i = 6 \/ i = 7 \/ i = 8
    BY <2>2
  <2>5. i \in 9 .. 16 => i = 9 \/ i = 10 \/ i = 11 \/ i = 12 \/ i = 13 \/ i = 14 \/ i = 15 \/ i = 16
    OBVIOUS
  <2> QED BY <2>3, <2>4, <2>5, <2>11, <2>15, <2>16, <2>17, <2>18, <2>19, <2>20, <2>21, <2>22, <2>23,
             <2>24, <2>25, <2>26
<1> QED BY <1>15, <1>16 DEF c

----------------------------------------------------------------------------
(* What a token of code looks like *)

\* What plain code is left by.
LEMMA NotOpening ==
  ASSUME NEW line \in Seq(STRING), NEW p \in 1 .. Len(line), Opening(line, p)
  PROVE  line[p] \in {"-", "/", "'", Quote} /\ (line[p] = "-" => Dashes(line, p))
<1>1. CASE Dashes(line, p)
  BY <1>1 DEF Dashes
<1>2. CASE line[p] = Quote
  BY <1>2, MarksDiffer
<1>3. CASE Lean!CHAR_LITERAL(line, p) > p
  BY <1>3, CharMoves
<1>4. CASE Pair(line, p, "/", "-")
  BY <1>4 DEF Pair
<1> QED BY <1>1, <1>2, <1>3, <1>4 DEF Opening, Lit

\* No mark is part of a word but the apostrophe.
LEMMA InnerIs ==
  /\ Starts \subseteq Inner /\ Lean!Numerals \subseteq Inner /\ "'" \in Inner /\ "_" \in Inner
  /\ "sup2" \in Lean!Numerals
  /\ \A s \in Inner : s \notin {"-", "/", Blank, "#", ".", ":", "=", "|", ">"}
  /\ Quote \notin Inner /\ Backslash \notin Inner
  /\ \A s \in Starts \cup Lean!Numerals : s \notin {"'", "-", "/", "#", "."}
<1>1. Starts \subseteq Inner /\ Lean!Numerals \subseteq Inner /\ "'" \in Inner /\ "_" \in Inner
  BY DEF Starts, Inner
<1>2. /\ "sup2" \in Lean!Numerals
      /\ \A s \in Lean!Numerals : s \notin {"'", "-", "/", "#", ".", ":", "=", "|", ">"}
  BY DEF Lean!Numerals
<1>3. \A s \in {"7", "sub0", "sup2", "_", "'", "!", "?"} : s # Blank /\ s # Quote /\ s # Backslash
  BY Zenon DEF Blank, Quote, Backslash
<1>4. \A s \in Inner : s \in Starts \/ s \in {"7", "sub0", "sup2", "_", "'", "!", "?"}
  BY DEF Starts, Inner, Lean!Numerals
<1>5. \A s \in Starts : s \notin {"-", "/", "'", Blank, "#", ".", ":", "=", "|", ">"}
  BY StartsIs
<1>6. \A s \in Inner : s \notin {"-", "/", Blank, "#", ".", ":", "=", "|", ">"}
  BY <1>3, <1>4, <1>5
<1>7. Quote \notin Inner /\ Backslash \notin Inner
  BY <1>3, <1>4, StartsIs
<1> QED BY <1>1, <1>2, <1>5, <1>6, <1>7

\* Symbols that are no word and open nothing have a shape of Kind.
LEMMA PlainKind ==
  ASSUME NEW line \in Seq(STRING), NEW p \in 1 .. Len(line), NEW e \in p + 1 .. Len(line) + 1,
         line[p] \notin Starts \cup {"#"},
         \A k \in p + 1 .. e - 1 : line[k] \notin Starts \cup {"#", "-", "/", "'", Quote}
  PROVE  Kind(line, p, e)
<1>1. ASSUME NEW k \in p + 1 .. e - 1 PROVE line[k] \notin Starts \cup {"#"} /\ ~Opening(line, k)
  <2>1. k \in 1 .. Len(line)
    OBVIOUS
  <2> QED BY <2>1, NotOpening
<1> QED BY <1>1 DEF Kind

\* So has an operator of two symbols.
LEMMA PairKind ==
  ASSUME NEW line \in Seq(STRING), NEW p \in 1 .. Len(line), NEW a, NEW b, Pair(line, p, a, b),
         a \in {":", "-", "="}, b \in {"=", ">"}
  PROVE  Kind(line, p, p + 2) /\ p + 2 <= Len(line) + 1
<1>1. p + 1 <= Len(line) /\ line[p] = a /\ line[p + 1] = b
  BY DEF Pair
<1>2. a \notin Starts \cup {"#"}
  BY StartsIs
<1>3. b \notin Starts \cup {"#", "-", "/", "'", Quote}
  BY StartsIs, MarksDiffer
<1>4. p + 2 \in p + 1 .. Len(line) + 1
  BY <1>1
<1>5. \A k \in p + 1 .. (p + 2) - 1 : k = p + 1
  OBVIOUS
<1> QED BY <1>1, <1>2, <1>3, <1>4, <1>5, PlainKind

\* What the rules both files share take is of some Kind.
LEMMA CommonKind ==
  ASSUME NEW line \in Seq(STRING), NEW p \in 1 .. Len(line), NEW r, Common(line, p, r)
  PROVE  Kind(line, p, r.end) /\ r.end \in p + 1 .. Len(line) + 1
<1>0. Len(line) \in Nat /\ p \in Nat
  OBVIOUS
<1>1. CASE line[p] = Blank /\ r.end = Lean!EndOf(line, p, {Blank})
  <2> DEFINE e == Lean!EndOf(line, p, {Blank})
  <2>1. e \in p .. Len(line) + 1 /\ e > p
    BY <1>1, EndOfMoves
  <2>2. \A k \in p .. e - 1 : line[k] \in {Blank}
    BY <1>0, EndOfIs
  <2> HIDE DEF e
  <2>3. e \in p + 1 .. Len(line) + 1
    BY <1>0, <2>1
  <2>4. Blank \notin Starts \cup {"#", "-", "/", "'", Quote}
    BY StartsIs, MarksDiffer
  <2>5. ASSUME NEW k \in p + 1 .. e - 1 PROVE line[k] = Blank
    <3>1. k \in p .. e - 1
      BY <1>0, <2>3
    <3> QED BY <2>2, <3>1
  <2>6. r.end = e
    BY <1>1 DEF e
  <2> QED BY <1>1, <2>3, <2>4, <2>5, <2>6, PlainKind
<1>2. CASE line[p] \in Lean!Digits /\ r.end = Lean!NUMBER(line, p)
  <2> DEFINE e == Lean!NUMBER(line, p)
  <2>1. e \in p .. Len(line) + 1 /\ e > p /\ \A k \in p .. e - 1 : line[k] \in Lean!Digits \cup {"."}
    BY <1>2, NumberMoves
  <2> HIDE DEF e
  <2>3. e \in p + 1 .. Len(line) + 1
    BY <1>0, <2>1
  <2>4. /\ "7" \notin Starts \cup {"#", "-", "/", "'", Quote}
        /\ "." \notin Starts \cup {"#", "-", "/", "'", Quote}
    BY StartsIs, MarksDiffer
  <2>5. ASSUME NEW k \in p + 1 .. e - 1 PROVE line[k] \in {"7", "."}
    <3>1. k \in p .. e - 1
      BY <1>0, <2>3
    <3> QED BY <2>1, <3>1 DEF Lean!Digits
  <2>6. r.end = e /\ line[p] = "7"
    BY <1>2 DEF e, Lean!Digits
  <2> QED BY <2>3, <2>4, <2>5, <2>6, PlainKind
<1>3. CASE line[p] = "#" /\ Lean!HASH_COMMAND(line, p) > p /\ r.end = Lean!HASH_COMMAND(line, p)
  <2>1. r.end \in p .. Len(line) + 1 /\ r.end > p
    BY <1>3, HashMoves
  <2> QED BY <1>0, <1>3, <2>1 DEF Kind
<1>4. CASE Pair(line, p, ":", "=") /\ r.end = p + 2
  BY <1>4, PairKind
<1>5. CASE Pair(line, p, "-", ">") /\ r.end = p + 2
  BY <1>5, PairKind
<1> QED BY <1>1, <1>2, <1>3, <1>4, <1>5 DEF Common

\* The IDENT of either file takes a word.
LEMMA IdentKind ==
  ASSUME NEW line \in Seq(STRING), NEW p \in 1 .. Len(line) + 1
  PROVE  /\ Lean!IDENT(line, p) > p => /\ IsWord(line, p, Lean!IDENT(line, p))
                                       /\ Lean!IDENT(line, p) \in p + 1 .. Len(line) + 1
         /\ Cas!IDENT(line, p) > p => /\ IsWord(line, p, Cas!IDENT(line, p))
                                      /\ Cas!IDENT(line, p) \in p + 1 .. Len(line) + 1
<1> DEFINE q == Lean!IDENT(line, p)
           z == Cas!IDENT(line, p)
<1>0. Len(line) \in Nat /\ p \in Nat
  OBVIOUS
<1>1. /\ q \in p .. Len(line) + 1 /\ (q > p <=> (p <= Len(line) /\ line[p] \in Starts))
      /\ \A k \in p + 1 .. q - 1 : line[k] \in Inner
      /\ q > p /\ q <= Len(line) => line[q] \notin Inner
      /\ z \in p .. Len(line) + 1 /\ (z > p <=> (p <= Len(line) /\ line[p] \in Lean!Alphabetic))
      /\ \A k \in p + 1 .. z - 1 : line[k] \in Inner \ {"sup2"}
      /\ z > p /\ z <= Len(line) => line[z] \notin Inner \ {"sup2"}
  BY IdentMoves
<1> HIDE DEF q, z
<1>2. ASSUME q > p PROVE IsWord(line, p, q) /\ q \in p + 1 .. Len(line) + 1
  BY <1>0, <1>1, <1>2 DEF IsWord
<1>3. ASSUME z > p PROVE IsWord(line, p, z) /\ z \in p + 1 .. Len(line) + 1
  <2>1. line[p] \in Starts /\ p <= Len(line)
    BY <1>1, <1>3 DEF Starts
  <2> QED BY <1>0, <1>1, <1>3, <2>1 DEF IsWord
<1> QED BY <1>2, <1>3 DEF q, z

\* The last rule takes a symbol of some Kind.
LEMMA SingleKind ==
  ASSUME NEW line \in Seq(STRING), NEW p \in 1 .. Len(line), NEW r, Single(line, p, r)
  PROVE  Kind(line, p, r.end) /\ r.end \in p + 1 .. Len(line) + 1
<1>1. r.end = p + 1 /\ (line[p] = "#" => Lean!HASH_COMMAND(line, p) = p) /\ line[p] \notin Lean!Alphabetic
  BY DEF Single
<1>2. r.end \in p + 1 .. Len(line) + 1 /\ \A k \in p + 1 .. r.end - 1 : FALSE
  BY <1>1
<1>3. line[p] \in Starts => line[p] = "_"
  BY <1>1 DEF Starts
<1> QED BY <1>1, <1>2, <1>3 DEF Kind

\* Whatever lean4.ts takes in plain code is of some Kind.
LEMMA LeanKind ==
  ASSUME NEW words, NEW line \in Seq(STRING), NEW p \in 1 .. Len(line), NEW r, LeanPick(words, line, p, r)
  PROVE  Kind(line, p, r.end) /\ r.end \in p + 1 .. Len(line) + 1
<1>0. Len(line) \in Nat /\ p \in Nat /\ p \in 1 .. Len(line) + 1 /\ p + 1 \in 1 .. Len(line) + 1
  OBVIOUS
<1>1. CASE Common(line, p, r)
  BY <1>1, CommonKind
<1>2. CASE line[p] \in Starts /\ r.end = Lean!IDENT(line, p)
  <2>1. Lean!IDENT(line, p) > p
    BY <1>0, <1>2, IdentMoves
  <2> QED BY <1>0, <1>2, <2>1, IdentKind DEF Kind
<1>3. CASE LeanMethod(line, p) /\ r.end = Lean!IDENT(line, p + 1)
  <2>1. line[p] = "." /\ Lean!IDENT(line, p + 1) > p + 1
    BY <1>3 DEF LeanMethod
  <2>2. IsWord(line, p + 1, r.end) /\ r.end \in p + 1 + 1 .. Len(line) + 1
    BY <1>0, <1>3, <2>1, IdentKind
  <2> QED BY <1>0, <2>1, <2>2 DEF Kind
<1>4. CASE Pair(line, p, "=", ">") /\ r.end = p + 2
  BY <1>0, <1>4, PairKind
<1>5. CASE Single(line, p, r)
  BY <1>5, SingleKind
<1>6. \/ Common(line, p, r)
      \/ line[p] \in Starts /\ r.end = Lean!IDENT(line, p)
      \/ LeanMethod(line, p) /\ r.end = Lean!IDENT(line, p + 1)
      \/ Pair(line, p, "=", ">") /\ r.end = p + 2
      \/ Single(line, p, r)
  <2>1. \A e, s : r = [end |-> e, style |-> s] => r.end = e
    OBVIOUS
  <2> QED BY <2>1, Zenon DEF LeanPick
<1> QED BY <1>1, <1>2, <1>3, <1>4, <1>5, <1>6

\* Whatever casdsl.ts takes in plain code is of some Kind.
LEMMA CasKind ==
  ASSUME NEW line \in Seq(STRING), NEW p \in 1 .. Len(line), NEW r, CasPick(line, p, r)
  PROVE  Kind(line, p, r.end) /\ r.end \in p + 1 .. Len(line) + 1
<1>0. Len(line) \in Nat /\ p \in Nat /\ p \in 1 .. Len(line) + 1 /\ p + 1 \in 1 .. Len(line) + 1
  OBVIOUS
<1>1. CASE Common(line, p, r)
  BY <1>1, CommonKind
<1>2. CASE line[p] \in Lean!Alphabetic /\ r.end = Cas!IDENT(line, p)
  <2>1. Cas!IDENT(line, p) > p
    BY <1>0, <1>2, IdentMoves
  <2> QED BY <1>0, <1>2, <2>1, IdentKind DEF Kind
<1>3. CASE CasMethod(line, p) /\ r.end = Cas!IDENT(line, p + 1)
  <2>1. line[p] = "." /\ Cas!IDENT(line, p + 1) > p + 1
    BY <1>3 DEF CasMethod
  <2>2. IsWord(line, p + 1, r.end) /\ r.end \in p + 1 + 1 .. Len(line) + 1
    BY <1>0, <1>3, <2>1, IdentKind
  <2> QED BY <1>0, <2>1, <2>2 DEF Kind
<1>4. CASE (Latex(line, p, {"mapsto", "leq", "in"}) \/ Latex(line, p, Cas!Spelled)) /\ r.end = p + 2
  <2>1. \A s \in {"mapsto", "leq", "in", "NN", "ZZ", "QQ", "RR", "CC"} : s \notin Lean!Marks
    BY Zenon DEF Lean!Marks
  <2>2. /\ line[p] = Backslash /\ p + 1 <= Len(line)
        /\ line[p + 1] \in {"mapsto", "leq", "in", "NN", "ZZ", "QQ", "RR", "CC"}
    BY <1>4 DEF Latex, Cas!Spelled
  <2>3. line[p + 1] \in STRING
    <3>1. p + 1 \in 1 .. Len(line)
      BY <1>0, <2>2
    <3> QED BY <3>1
  <2>4. line[p + 1] \in Starts
    BY <2>1, <2>2, <2>3, Zenon DEF Starts, Lean!Alphabetic
  <2>5. r.end = p + 2 /\ line[p] = Backslash /\ p + 1 <= Len(line)
    BY <1>4, <2>2
  <2>6. r.end \in p + 1 .. Len(line) + 1
    BY <1>0, <2>5
  <2> QED BY <2>4, <2>5, <2>6 DEF Kind
<1>5. CASE Triple(line, p, "|", "-", ">") /\ r.end = p + 3
  <2>1. p + 2 <= Len(line) /\ line[p] = "|" /\ line[p + 1] = "-" /\ line[p + 2] = ">"
    BY <1>5 DEF Triple
  <2>2. /\ line[p] \notin Starts \cup {"#"} /\ "-" \notin Starts \cup {"#"}
        /\ ">" \notin Starts \cup {"#", "-", "/", "'", Quote}
    BY <2>1, StartsIs, MarksDiffer
  <2>3. ~Opening(line, p + 1)
    <3>1. p + 1 \in 1 .. Len(line)
      BY <1>0, <2>1
    <3>2. ~Dashes(line, p + 1)
      BY <1>0, <2>1 DEF Dashes
    <3> QED BY <2>1, <3>1, <3>2, NotOpening
  <2>4. ~Opening(line, p + 2)
    <3>1. p + 2 \in 1 .. Len(line)
      BY <1>0, <2>1
    <3> QED BY <2>1, <2>2, <3>1, NotOpening
  <2>5. \A k \in p + 1 .. (p + 3) - 1 : k = p + 1 \/ k = p + 2
    OBVIOUS
  <2>6. \A k \in p + 1 .. (p + 3) - 1 : line[k] \notin Starts \cup {"#"} /\ ~Opening(line, k)
    BY <2>1, <2>2, <2>3, <2>4, <2>5
  <2> QED BY <1>0, <1>5, <2>1, <2>2, <2>6 DEF Kind
<1>6. CASE Triple(line, p, ".", ".", ".") /\ r.end = p + 3
  <2>1. p + 2 <= Len(line) /\ line[p] = "." /\ line[p + 1] = "." /\ line[p + 2] = "."
    BY <1>6 DEF Triple
  <2>2. "." \notin Starts \cup {"#", "-", "/", "'", Quote}
    BY StartsIs, MarksDiffer
  <2>3. \A k \in p + 1 .. (p + 3) - 1 : k = p + 1 \/ k = p + 2
    OBVIOUS
  <2>4. p + 3 \in p + 1 .. Len(line) + 1
    BY <1>0, <2>1
  <2> QED BY <1>6, <2>1, <2>2, <2>3, <2>4, PlainKind
<1>7. CASE Single(line, p, r)
  BY <1>7, SingleKind
<1> QED BY <1>1, <1>2, <1>3, <1>4, <1>5, <1>6, <1>7 DEF CasPick

\* What lean4.ts takes where no literal begins is painted as code.
LEMMA LeanShade ==
  ASSUME NEW words, NEW line, NEW p, NEW r, LeanPick(words, line, p, r)
  PROVE  Shade(r.style) = "code" /\ r.style \in Styles
<1>1. \/ \E e : r = [end |-> e, style |-> "none"] \/ r = [end |-> e, style |-> "number"]
                \/ r = [end |-> e, style |-> "meta"] \/ r = [end |-> e, style |-> "operator"]
                \/ r = [end |-> e, style |-> "methodName"]
                \/ r = [end |-> e, style |-> LeanStyle(words, LeanName(line, p))]
      \/ r.style = "operator"
  BY Zenon DEF LeanPick, Common
<1>2. r.style \in {"none", "number", "meta", "operator", "methodName", LeanStyle(words, LeanName(line, p))}
  BY <1>1
<1>3. LeanStyle(words, LeanName(line, p)) \in {"invalid", "keyword", "atom", "variableName"}
  BY DEF LeanStyle
<1> HIDE DEF Shade
<1>4. r.style \in Styles /\ r.style \notin {"comment", "docComment", "string"}
  BY <1>2, <1>3 DEF Styles
<1> QED BY <1>4 DEF Shade

\* The same of casdsl.ts.
LEMMA CasShade ==
  ASSUME NEW line, NEW p, NEW r, CasPick(line, p, r)
  PROVE  Shade(r.style) = "code" /\ r.style \in Styles
<1>1. \/ \E e : r = [end |-> e, style |-> "none"] \/ r = [end |-> e, style |-> "number"]
                \/ r = [end |-> e, style |-> "meta"] \/ r = [end |-> e, style |-> "operator"]
                \/ r = [end |-> e, style |-> "methodName"] \/ r = [end |-> e, style |-> "typeName"]
                \/ r = [end |-> e, style |-> CasStyle(CasName(line, p))]
      \/ r.style = IF line[p] = "oo" THEN "atom" ELSE "operator"
  BY Zenon DEF CasPick, Common
<1>2. r.style \in {"none", "number", "meta", "operator", "methodName", "typeName", "atom",
                   CasStyle(CasName(line, p))}
  BY <1>1
<1>3. CasStyle(CasName(line, p)) \in {"keyword", "typeName", "atom", "variableName"}
  BY DEF CasStyle
<1>4. r.style \in Styles /\ r.style \notin {"comment", "docComment", "string"}
  BY <1>2, <1>3 DEF Styles
<1> QED BY <1>4 DEF Shade

\* A pick is its end and its style.
LEMMA PickCopy ==
  ASSUME NEW words, NEW line, NEW p, NEW c
  PROVE  /\ LeanPick(words, line, p, c) => LeanPick(words, line, p, [end |-> c.end, style |-> c.style])
         /\ CasPick(line, p, c) => CasPick(line, p, [end |-> c.end, style |-> c.style])
<1> DEFINE r == [end |-> c.end, style |-> c.style]
<1>1. r.end = c.end /\ r.style = c.style
  OBVIOUS
<1>2. \A e, s : c = [end |-> e, style |-> s] => r = [end |-> e, style |-> s]
  OBVIOUS
<1> HIDE DEF r
<1>3. Common(line, p, c) => Common(line, p, r)
  BY <1>2, Zenon DEF Common
<1>4. Single(line, p, c) => Single(line, p, r)
  BY <1>1, Zenon DEF Single
<1>5. LeanPick(words, line, p, c) => LeanPick(words, line, p, r)
  BY <1>1, <1>2, <1>3, <1>4, Zenon DEF LeanPick
<1>6. CasPick(line, p, c) => CasPick(line, p, r)
  BY <1>1, <1>2, <1>3, <1>4, Zenon DEF CasPick
<1> QED BY <1>5, <1>6 DEF r

----------------------------------------------------------------------------
(* No rule paints a mark as code *)

\* A line comment, a string and a character are within the line and not painted as
\* code.
LEMMA LitRule ==
  ASSUME NEW line \in Seq(STRING), NEW p \in 1 .. Len(line), Lit(line, p)
  PROVE  RuleOK(line, p, LitOf(line, p)) /\ LitOf(line, p).end > p
<1> DEFINE r == LitOf(line, p)
           quoted == Lean!String(line, p)
           char == Lean!CHAR_LITERAL(line, p)
<1>0. Len(line) \in Nat /\ p \in Nat /\ p \in 1 .. Len(line) + 1
  OBVIOUS
<1>1. r = IF Dashes(line, p) THEN [end |-> Len(line) + 1, style |-> "comment"]
          ELSE [end |-> IF line[p] = Quote THEN quoted ELSE char, style |-> "string"]
  BY Zenon DEF LitOf
<1>2. char \in p .. Len(line) + 1 /\ (line[p] = Quote => quoted \in p + 1 .. Len(line) + 1)
  <2>1. char \in p .. Len(line) + 1 /\ quoted \in p .. Len(line) + 1
        /\ (quoted > p <=> line[p] = Quote)
    BY <1>0, CharIs, StringMoves
  <2> HIDE DEF quoted, char
  <2> QED BY <1>0, <2>1
<1>3. Dashes(line, p) \/ line[p] = Quote \/ char > p
  BY DEF Lit
<1> HIDE DEF r, quoted, char
<1>4. r.end \in p + 1 .. Len(line) + 1
  BY <1>0, <1>1, <1>2, <1>3
<1>5. r.style \in {"comment", "string"}
  BY <1>1
<1>6. r.style \in Styles /\ Shade(r.style) # "code"
  BY <1>5 DEF Styles, Shade
<1>7. RuleOK(line, p, r) /\ r.end > p
  BY <1>0, <1>4, <1>6 DEF RuleOK
<1> QED BY <1>7 DEF r

\* Nothing of a Kind runs over a comment mark: -- and /- would have opened before
\* every operator (the order of the rules in both files).
LEMMA KindNoMark ==
  ASSUME NEW line \in Seq(STRING), NEW p \in 1 .. Len(line), NEW e \in p + 1 .. Len(line) + 1,
         Kind(line, p, e), ~Opening(line, p)
  PROVE  NoMark(line, p, e)
<1>0. Len(line) \in Nat /\ p \in Nat
  OBVIOUS
<1>1. \A k : ~Opening(line, k) => ~Opens(line, k)
  BY DEF Opens, Opening, Lit, Dashes, Pair
<1>2. \A k : line[k] \notin {"-", "/"} => ~Opens(line, k)
  BY DEF Opens
<1>3. ASSUME NEW k \in p + 1 .. e - 1 PROVE ~Opens(line, k)
  <2>1. CASE IsWord(line, p, e)
    <3>1. line[k] \in Inner
      BY <2>1 DEF IsWord
    <3> QED BY <1>2, <3>1, InnerIs
  <2>2. CASE IsWord(line, p + 1, e)
    <3>1. k = p + 1 \/ k \in p + 1 + 1 .. e - 1
      BY <1>0
    <3>2. line[p + 1] \in Starts /\ \A j \in p + 1 + 1 .. e - 1 : line[j] \in Inner
      BY <2>2 DEF IsWord
    <3>3. line[k] \in Inner
      BY <3>1, <3>2, InnerIs
    <3> QED BY <1>2, <3>3, InnerIs
  <2>3. CASE e = Lean!HASH_COMMAND(line, p)
    <3>1. e > p => \A j \in p + 1 .. e - 1 : line[j] \in Starts \cup Lean!Numerals
      BY <2>3, HashMoves
    <3>2. line[k] \in Starts \cup Lean!Numerals
      BY <1>0, <3>1
    <3> QED BY <1>2, <3>2, InnerIs
  <2>4. CASE e = p + 2 /\ line[p + 1] \in Starts
    <3>1. k = p + 1
      BY <1>0, <2>4
    <3> QED BY <1>2, <2>4, <3>1, InnerIs
  <2>5. CASE ~Opening(line, k)
    BY <1>1, <2>5
  <2> QED BY <2>1, <2>2, <2>3, <2>4, <2>5 DEF Kind
<1>4. ASSUME NEW k \in p .. e - 1 PROVE ~Opens(line, k)
  <2>1. k = p \/ k \in p + 1 .. e - 1
    BY <1>0
  <2> QED BY <1>1, <1>3, <2>1
<1> QED BY <1>4 DEF NoMark

\* A token of code holds no mark.
LEMMA PickRule ==
  ASSUME NEW line \in Seq(STRING), NEW p \in 1 .. Len(line), ~Opening(line, p), NEW c,
         Kind(line, p, c.end), c.end \in p + 1 .. Len(line) + 1, c.style \in Styles
  PROVE  RuleOK(line, p, c) /\ c.end > p
<1>1. NoMark(line, p, c.end)
  BY KindNoMark
<1>2. c.end \in p .. Len(line) + 1 /\ c.end > p
  OBVIOUS
<1> QED BY <1>1, <1>2 DEF RuleOK

\* Outside comments the rules of lean4.ts paint no mark as code: -- is tried before
\* every operator, and no rule behind it runs over one.  The last rule takes any symbol.
LEMMA LeanCode ==
  ASSUME NEW words, NEW line \in Seq(STRING), NEW p \in 1 .. Len(line), ~Pair(line, p, "/", "-")
  PROVE  LET c == Lean!Code(words, line, p) IN RuleOK(line, p, c) /\ c.end > p
<1> DEFINE c == Lean!Code(words, line, p)
<1>1. /\ Lit(line, p) => c = LitOf(line, p)
      /\ ~Lit(line, p) => LeanPick(words, line, p, c)
  BY LeanPicks
<1> HIDE DEF c
<1>2. CASE Lit(line, p)
  BY <1>1, <1>2, LitRule DEF c
<1>3. CASE ~Lit(line, p)
  <2>1. ~Opening(line, p) /\ LeanPick(words, line, p, c)
    BY <1>1, <1>3 DEF Opening
  <2>2. Kind(line, p, c.end) /\ c.end \in p + 1 .. Len(line) + 1
    BY <2>1, LeanKind
  <2>3. c.style \in Styles
    BY <2>1, LeanShade
  <2> QED BY <2>1, <2>2, <2>3, PickRule DEF c
<1> QED BY <1>2, <1>3

\* The same of casdsl.ts, whose |-> holds a - that begins no mark.
LEMMA CasCode ==
  ASSUME NEW line \in Seq(STRING), NEW p \in 1 .. Len(line), ~Pair(line, p, "/", "-")
  PROVE  LET c == Cas!FirstOf(p, Cas!Rules(line, p)) IN RuleOK(line, p, c) /\ c.end > p
<1> DEFINE c == Cas!FirstOf(p, Cas!Rules(line, p))
<1>1. /\ Lit(line, p) => c = LitOf(line, p)
      /\ ~Lit(line, p) => CasPick(line, p, c)
  BY CasPicks
<1> HIDE DEF c
<1>2. CASE Lit(line, p)
  BY <1>1, <1>2, LitRule DEF c
<1>3. CASE ~Lit(line, p)
  <2>1. ~Opening(line, p) /\ CasPick(line, p, c)
    BY <1>1, <1>3 DEF Opening
  <2>2. Kind(line, p, c.end) /\ c.end \in p + 1 .. Len(line) + 1
    BY <2>1, CasKind
  <2>3. c.style \in Styles
    BY <2>1, CasShade
  <2> QED BY <2>1, <2>2, <2>3, PickRule DEF c
<1> QED BY <1>2, <1>3

\* The token of a comment, begun here or lines before.
LEMMA CommentToken ==
  ASSUME NEW line \in Seq(STRING), NEW p \in 1 .. Len(line), NEW q \in p .. Len(line) + 1,
         NEW state, state.depth \in Nat, state.doc \in BOOLEAN, state.depth # 0, q # p \/ p <= Len(line)
  PROVE  TokenOK(line, p, Lean!tokenBlockComment(line, q, state))
<1> DEFINE r == Lean!tokenBlockComment(line, q, state)
<1> SUFFICES TokenOK(line, p, r)
  OBVIOUS
<1>0. Len(line) \in Nat /\ q \in 1 .. Len(line) + 1
  OBVIOUS
<1>1. /\ r.pos \in q .. Len(line) + 1 /\ r.depth \in Nat
      /\ q <= Len(line) /\ state.depth # 0 => r.pos > q
      /\ r.style \in {"comment", "docComment"}
      /\ r.doc = (state.doc /\ r.depth > 0)
  BY <1>0, CommentIs
<1> HIDE DEF r
<1>2. ParserState(r)
  <2>1. r.doc \in BOOLEAN /\ (r.doc => r.depth > 0)
    BY <1>1, Zenon
  <2> QED BY <1>1, <2>1 DEF ParserState
<1>3. Shade(r.style) # "code" /\ r.style \in Styles
  BY <1>1 DEF Shade, Styles
<1>4. r.pos \in p + 1 .. Len(line) + 1
  BY <1>0, <1>1
<1> QED BY <1>2, <1>3, <1>4 DEF TokenOK

\* Every call of token() of the lean4 parser, with whatever extra keywords.
LEMMA LeanToken ==
  ASSUME NEW extra, NEW line \in Seq(STRING), NEW p \in 1 .. Len(line),
         NEW state, ParserState(state)
  PROVE  TokenOK(line, p, Lean!token(extra, line, p, state))
<1> DEFINE o == Lean!Opener(line, p)
           c == Lean!Code(Lean!CORE_KEYWORDS \cup extra, line, p)
           r == Lean!token(extra, line, p, state)
<1> SUFFICES TokenOK(line, p, r)
  OBVIOUS
<1>1. r = CASE state.depth > 0 -> Lean!tokenBlockComment(line, p, state)
            [] state.depth = 0 /\ o.depth > 0 -> Lean!tokenBlockComment(line, o.pos, o)
            [] OTHER -> [pos |-> c.end, style |-> c.style, depth |-> 0, doc |-> state.doc]
  BY Zenon DEF Lean!token
<1>2. /\ o.pos \in p .. Len(line) + 1 /\ o.doc \in BOOLEAN
      /\ o.depth = IF Pair(line, p, "/", "-") THEN 1 ELSE 0
      /\ o.depth = 1 => o.pos > p
  BY OpenerIs
<1>3. o.depth = 0 => RuleOK(line, p, c) /\ c.end > p
  BY <1>2, LeanCode
<1> HIDE DEF o, c, r
<1>4. CASE state.depth > 0
  <2>1. r = Lean!tokenBlockComment(line, p, state)
    BY <1>1, <1>4
  <2>2. p \in p .. Len(line) + 1 /\ p <= Len(line)
    OBVIOUS
  <2> QED BY <1>4, <2>1, <2>2, CommentToken DEF ParserState
<1>5. CASE state.depth = 0 /\ o.depth > 0
  <2>1. r = Lean!tokenBlockComment(line, o.pos, o)
    BY <1>1, <1>5
  <2>2. o.depth \in Nat /\ o.depth # 0 /\ (o.pos # p \/ p <= Len(line))
    BY <1>2, <1>5
  <2> QED BY <1>2, <2>1, <2>2, CommentToken
<1>6. CASE state.depth = 0 /\ o.depth = 0
  <2>1. r = [pos |-> c.end, style |-> c.style, depth |-> 0, doc |-> state.doc]
    BY <1>1, <1>6
  <2>2. state.doc = FALSE
    BY <1>6 DEF ParserState
  <2>3. c.end \in p + 1 .. Len(line) + 1
    BY <1>3, <1>6 DEF RuleOK
  <2>4. ParserState(r)
    BY <2>1, <2>2 DEF ParserState
  <2> QED BY <1>3, <1>6, <2>1, <2>3, <2>4 DEF TokenOK, RuleOK
<1> QED BY <1>2, <1>4, <1>5, <1>6 DEF ParserState

\* Every call of token() of the casdsl parser.
LEMMA CasToken ==
  ASSUME NEW line \in Seq(STRING), NEW p \in 1 .. Len(line), NEW state, ParserState(state)
  PROVE  TokenOK(line, p, Cas!token(line, p, state))
<1> DEFINE o == Cas!Opener(line, p)
           c == Cas!FirstOf(p, Cas!Rules(line, p))
           r == Cas!token(line, p, state)
<1> SUFFICES TokenOK(line, p, r)
  OBVIOUS
<1>1. r = CASE state.depth > 0 -> Cas!tokenBlockComment(line, p, state)
            [] state.depth = 0 /\ o.depth > 0 -> Cas!tokenBlockComment(line, o.pos, o)
            [] OTHER -> [pos |-> c.end, style |-> c.style, depth |-> 0, doc |-> state.doc]
  BY Zenon DEF Cas!token
<1>2. /\ o.pos \in p .. Len(line) + 1 /\ o.doc \in BOOLEAN
      /\ o.depth = IF Pair(line, p, "/", "-") THEN 1 ELSE 0
      /\ o.depth = 1 => o.pos > p
  BY OpenerIs, OpenerSame
<1>3. o.depth = 0 => RuleOK(line, p, c) /\ c.end > p
  BY <1>2, CasCode
<1> HIDE DEF o, c, r
<1>4. CASE state.depth > 0
  <2>1. r = Lean!tokenBlockComment(line, p, state)
    BY <1>1, <1>4, CommentSame
  <2>2. p \in p .. Len(line) + 1 /\ p <= Len(line)
    OBVIOUS
  <2> QED BY <1>4, <2>1, <2>2, CommentToken DEF ParserState
<1>5. CASE state.depth = 0 /\ o.depth > 0
  <2>1. r = Lean!tokenBlockComment(line, o.pos, o)
    BY <1>1, <1>5, CommentSame
  <2>2. o.depth \in Nat /\ o.depth # 0 /\ (o.pos # p \/ p <= Len(line))
    BY <1>2, <1>5
  <2> QED BY <1>2, <2>1, <2>2, CommentToken
<1>6. CASE state.depth = 0 /\ o.depth = 0
  <2>1. r = [pos |-> c.end, style |-> c.style, depth |-> 0, doc |-> state.doc]
    BY <1>1, <1>6
  <2>2. state.doc = FALSE
    BY <1>6 DEF ParserState
  <2>3. c.end \in p + 1 .. Len(line) + 1
    BY <1>3, <1>6 DEF RuleOK
  <2>4. ParserState(r)
    BY <2>1, <2>2 DEF ParserState
  <2> QED BY <1>3, <1>6, <2>1, <2>3, <2>4 DEF TokenOK, RuleOK
<1> QED BY <1>2, <1>4, <1>5, <1>6 DEF ParserState

\* A parser's state is one of PStates, and that of plain code is one only.
LEMMA PStateIs ==
  /\ \A s \in PStates : ParserState(s)
  /\ \A r : ParserState(r) => StateOf(r) \in PStates
  /\ \A s, t \in PStates : s.depth = 0 /\ t.depth = 0 => s = t
<1>1. \A s \in PStates : ParserState(s)
  BY DEF PStates, ParserState
<1>2. ASSUME NEW r, ParserState(r) PROVE StateOf(r) \in PStates
  BY <1>2 DEF PStates, ParserState, StateOf
<1>3. ASSUME NEW s \in PStates, s.depth = 0 PROVE s = [depth |-> 0, doc |-> FALSE]
  <2>1. s \in [depth : Nat, doc : BOOLEAN] /\ s.doc = FALSE
    BY <1>3 DEF PStates
  <2> QED BY <1>3, <2>1
<1> QED BY <1>1, <1>2, <1>3

\* A call of token() in either editor: in a comment or where one or a literal opens it is
\* that of casdsl.ts, whichever the editor; otherwise it is one of the picks and
\* the state stays.
LEMMA TokenSplits ==
  ASSUME NEW d \in Dialects, NEW words, NEW line \in Seq(STRING), NEW p \in 1 .. Len(line),
         NEW s \in PStates, NEW r \in CallOf(d, words, line, p, s)
  PROVE  /\ r.pos \in p + 1 .. Len(line) + 1 /\ StateOf(r) \in PStates
         /\ s.depth > 0 \/ Opening(line, p) =>
              r = Cas!token(line, p, s) /\ r.style \in {"comment", "docComment", "string"}
         /\ s.depth = 0 /\ ~Opening(line, p) =>
              StateOf(r) = s /\ PickOf(d, words, line, p, [end |-> r.pos, style |-> r.style])
<1> DEFINE o == Lean!Opener(line, p)
           lt(extra) == Lean!token(extra, line, p, s)
           lc(extra) == Lean!Code(Lean!CORE_KEYWORDS \cup extra, line, p)
           ct == Cas!token(line, p, s)
           cc == Cas!FirstOf(p, Cas!Rules(line, p))
           b(q, t) == Lean!tokenBlockComment(line, q, t)
           plain(c) == [pos |-> c.end, style |-> c.style, depth |-> 0, doc |-> s.doc]
<1>0. ParserState(s) /\ s.depth \in Nat
  BY PStateIs DEF ParserState
<1>1. \A extra : lt(extra) =
        CASE s.depth > 0 -> b(p, s)
          [] s.depth = 0 /\ o.depth > 0 -> b(o.pos, o)
          [] OTHER -> plain(lc(extra))
  BY Zenon DEF Lean!token
<1>2. ct = CASE s.depth > 0 -> b(p, s)
             [] s.depth = 0 /\ o.depth > 0 -> b(o.pos, o)
             [] OTHER -> plain(cc)
  BY OpenerSame, CommentSame, Zenon DEF Cas!token
<1>3. o.depth = IF Pair(line, p, "/", "-") THEN 1 ELSE 0
  BY OpenerIs
<1>4. \A extra : /\ Lit(line, p) => lc(extra) = LitOf(line, p)
                 /\ ~Lit(line, p) => LeanPick(Lean!CORE_KEYWORDS \cup extra, line, p, lc(extra))
  BY LeanPicks
<1>5. /\ Lit(line, p) => cc = LitOf(line, p)
      /\ ~Lit(line, p) => CasPick(line, p, cc)
  BY CasPicks
<1>6. (\E extra \in words : d = "lean4" /\ r = lt(extra)) \/ (d # "lean4" /\ r = ct)
  BY Zenon DEF CallOf
<1>7. TokenOK(line, p, r)
  <2>1. \A extra : TokenOK(line, p, lt(extra))
    BY <1>0, LeanToken
  <2>2. TokenOK(line, p, ct)
    BY <1>0, CasToken
  <2> HIDE DEF lt, ct
  <2> QED BY <1>6, <2>1, <2>2
<1>8. r.pos \in p + 1 .. Len(line) + 1 /\ StateOf(r) \in PStates
  BY <1>7, PStateIs DEF TokenOK
<1>9. /\ b(p, s).style \in {"comment", "docComment"}
      /\ Pair(line, p, "/", "-") => b(o.pos, o).style \in {"comment", "docComment"}
  <2>1. p \in 1 .. Len(line) + 1
    OBVIOUS
  <2>2. b(p, s).style \in {"comment", "docComment"}
    BY <1>0, <2>1, CommentIs
  <2>3. o.pos \in p .. Len(line) + 1 /\ o.depth \in {0, 1}
    BY OpenerIs
  <2>4. o.pos \in 1 .. Len(line) + 1 /\ o.depth \in Nat
    BY <2>3
  <2>5. b(o.pos, o).style \in {"comment", "docComment"}
    <3> HIDE DEF o
    <3> QED BY <2>4, CommentIs
  <2> QED BY <2>2, <2>5
<1>10. LitOf(line, p).style \in {"comment", "string"}
  BY DEF LitOf
<1> HIDE DEF o, lt, lc, ct, cc, b
<1>11. ASSUME s.depth > 0 \/ Opening(line, p)
       PROVE  r = ct /\ r.style \in {"comment", "docComment", "string"}
  <2>1. CASE s.depth > 0
    <3>1. \A extra : lt(extra) = b(p, s)
      BY <1>1, <2>1
    <3>2. ct = b(p, s)
      BY <1>2, <2>1
    <3> QED BY <1>6, <1>9, <3>1, <3>2
  <2>2. CASE s.depth = 0 /\ Pair(line, p, "/", "-")
    <3>1. \A extra : lt(extra) = b(o.pos, o)
      BY <1>1, <1>3, <2>2
    <3>2. ct = b(o.pos, o)
      BY <1>2, <1>3, <2>2
    <3> QED BY <1>6, <1>9, <2>2, <3>1, <3>2
  <2>3. CASE s.depth = 0 /\ ~Pair(line, p, "/", "-")
    <3>1. Lit(line, p)
      BY <1>11, <2>3 DEF Opening
    <3>2. \A extra : lt(extra) = plain(LitOf(line, p))
      BY <1>1, <1>3, <1>4, <2>3, <3>1
    <3>3. ct = plain(LitOf(line, p))
      BY <1>2, <1>3, <1>5, <2>3, <3>1
    <3> QED BY <1>6, <1>10, <3>2, <3>3
  <2> QED BY <1>0, <2>1, <2>2, <2>3
<1>12. ASSUME s.depth = 0, ~Opening(line, p)
       PROVE  StateOf(r) = s /\ PickOf(d, words, line, p, [end |-> r.pos, style |-> r.style])
  <2>1. ~Pair(line, p, "/", "-") /\ ~Lit(line, p)
    BY <1>12 DEF Opening
  <2>2. \A extra : lt(extra) = plain(lc(extra))
    BY <1>1, <1>3, <1>12, <2>1
  <2>3. ct = plain(cc)
    BY <1>2, <1>3, <1>12, <2>1
  <2>4. StateOf(r) = s
    <3>1. r.depth = 0
      BY <1>6, <2>2, <2>3
    <3> QED BY <1>8, <1>12, <3>1, PStateIs DEF StateOf
  <2>5. PickOf(d, words, line, p, [end |-> r.pos, style |-> r.style])
    <3>1. CASE d = "lean4"
      <4>1. PICK extra \in words : r = plain(lc(extra))
        BY <1>6, <2>2, <3>1
      <4>2. LeanPick(Lean!CORE_KEYWORDS \cup extra, line, p, lc(extra))
        BY <1>4, <2>1
      <4> DEFINE c == [end |-> r.pos, style |-> r.style]
      <4>3. c.end = lc(extra).end /\ c.style = lc(extra).style
        BY <4>1
      <4>4. c = [end |-> lc(extra).end, style |-> lc(extra).style]
        BY <4>3
      <4>5. LeanPick(Lean!CORE_KEYWORDS \cup extra, line, p, c)
        BY <4>2, <4>4, PickCopy
      <4> HIDE DEF c
      <4>6. PickOf(d, words, line, p, c)
        BY <3>1, <4>5, Zenon DEF PickOf
      <4> QED BY <4>6 DEF c
    <3>2. CASE d # "lean4"
      <4>1. r = plain(cc)
        BY <1>6, <2>3, <3>2
      <4>2. [end |-> r.pos, style |-> r.style] = [end |-> cc.end, style |-> cc.style]
        BY <4>1
      <4>3. CasPick(line, p, [end |-> cc.end, style |-> cc.style])
        BY <1>5, <2>1, PickCopy
      <4> QED BY <3>2, <4>2, <4>3 DEF PickOf
    <3> QED BY <3>1, <3>2
  <2> QED BY <2>4, <2>5
<1> QED BY <1>8, <1>11, <1>12 DEF ct

----------------------------------------------------------------------------
(* The editors *)

\* The text is lines of symbols.
LEMMA TextIs ==
  ASSUME EditInv, text # <<>>
  PROVE  /\ text \in Seq(Seq(STRING)) /\ Len(text) \in Nat /\ DOMAIN text = 1 .. Len(text)
         /\ \A l \in DOMAIN text : text[l] \in Seq(STRING) /\ Len(text[l]) \in Nat
<1>1. text \in Seq(Seq(STRING))
  BY CellViewAssumption DEF EditInv
<1> QED BY <1>1

\* Before something is typed nothing is painted.
LEMMA InitEdit == Init => EditInv
BY DEF Init, EditInv, AtStart

\* A text is typed before the parsers start.
LEMMA TypeEdit ==
  ASSUME NEW t \in Texts, EditInv, text = <<>>, Type(t)
  PROVE  EditInv'
<1>1. t \in Seq(Seq(STRING)) /\ t # <<>>
  BY CellViewAssumption
<1>2. text' = t /\ at' = at /\ paint' = [d \in Dialects |-> [l \in DOMAIN t |-> <<>>]]
  BY DEF Type
<1>3. ASSUME NEW d \in Dialects PROVE EditorOK(d)'
  <2>1. at'[d] = AtStart /\ paint'[d] = [l \in DOMAIN t |-> <<>>]
    BY <1>2 DEF EditInv
  <2>2. Len(t) \in Nat /\ Len(t) # 0 /\ DOMAIN t = 1 .. Len(t)
    BY <1>1
  <2>3. ASSUME NEW l \in DOMAIN t PROVE LineOK(d, l)'
    <3>1. paint'[d][l] = <<>> /\ l \in 1 .. Len(t)
      BY <2>1, <2>2
    <3>2. Extent(AtStart, l)' = 0
      BY <2>2 DEF Extent, AtStart
    <3> QED BY <2>1, <3>1, <3>2 DEF LineOK
  <2>4. ParserState(at[d])'
    BY <2>1 DEF ParserState, AtStart
  <2>5. (Len(text[1]) \in Nat)'
    BY <1>1, <1>2, <2>2
  <2>6. at'[d].line = 1 /\ at'[d].pos = 1
    BY <2>1 DEF AtStart
  <2> QED BY <1>2, <2>1, <2>2, <2>3, <2>4, <2>5, <2>6 DEF EditorOK
<1> QED BY <1>1, <1>2, <1>3 DEF EditInv

\* An editor that has not moved keeps what it shows.
LEMMA EditorSame ==
  ASSUME NEW d, text' = text, at'[d] = at[d], paint'[d] = paint[d], EditorOK(d)
  PROVE  EditorOK(d)'
BY DEF EditorOK, LineOK, Extent, ParserState

\* CodeMirror calls token() within the line, and gets a token that advances.
LEMMA CallTokenOK ==
  ASSUME NEW d \in Dialects, EditInv, Turn(d), at[d].pos <= Len(text[at[d].line]), NEW r \in CallToken(d)
  PROVE  /\ at[d].line \in DOMAIN text /\ at[d].pos \in 1 .. Len(text[at[d].line])
         /\ TokenOK(text[at[d].line], at[d].pos, r)
<1> DEFINE l == at[d].line
           p == at[d].pos
           state == [depth |-> at[d].depth, doc |-> at[d].doc]
<1>1. text # <<>> /\ EditorOK(d) /\ ~Finished(d)
  BY DEF Turn, EditInv
<1>2. Len(text) \in Nat /\ DOMAIN text = 1 .. Len(text)
      /\ \A m \in DOMAIN text : text[m] \in Seq(STRING) /\ Len(text[m]) \in Nat
  BY <1>1, TextIs
<1>3. l \in DOMAIN text
  BY <1>1, <1>2 DEF Finished, EditorOK
<1>4. p \in 1 .. Len(text[l])
  BY <1>1, <1>2, <1>3 DEF EditorOK
<1>5. ParserState(state)
  BY <1>1 DEF EditorOK, ParserState
<1>6. TokenOK(text[l], p, r)
  <2>1. CASE d = "lean4"
    <3>1. PICK extra \in lean : r = Lean!token(extra, text[l], p, state)
      BY <2>1, Zenon DEF CallToken
    <3> HIDE DEF state, l, p
    <3> QED BY <1>2, <1>3, <1>4, <1>5, <3>1, LeanToken
  <2>2. CASE d # "lean4"
    <3>1. r = Cas!token(text[l], p, state)
      BY <2>2, Zenon DEF CallToken
    <3> HIDE DEF state, l, p
    <3> QED BY <1>2, <1>3, <1>4, <1>5, <3>1, CasToken
  <2> QED BY <2>1, <2>2
<1> QED BY <1>3, <1>4, <1>6

\* Where the symbols of two rows are when one is put behind the other.
LEMMA JoinIs ==
  ASSUME NEW S, NEW a \in Seq(S), NEW b \in Seq(S)
  PROVE  /\ a \o b \in Seq(S) /\ Len(a \o b) = Len(a) + Len(b)
         /\ \A k \in 1 .. Len(a) + Len(b) : (a \o b)[k] = IF k <= Len(a) THEN a[k] ELSE b[k - Len(a)]
OBVIOUS

\* The next row of a line, by its parts.
LEMMA LineOKNext ==
  ASSUME NEW d, NEW l, NEW row, NEW n, NEW line,
         paint'[d][l] = row, text'[l] = line, Extent(at[d], l)' = n,
         row \in Seq(Styles), Len(row) = n,
         \A k \in 1 .. n : Shade(row[k]) = "code" => ~Opens(line, k)
  PROVE  LineOK(d, l)'
BY DEF LineOK

\* A token is painted behind what its line shows already.
LEMMA TokenEdit ==
  ASSUME NEW d \in Dialects, EditInv, Token(d)
  PROVE  EditInv' /\ at'[d].pos > at[d].pos
<1> DEFINE l == at[d].line
           p == at[d].pos
<1>1. PICK r \in CallToken(d) :
        LET painted == [k \in 1 .. r.pos - at[d].pos |-> r.style]
        IN /\ at' = [at EXCEPT ![d] = [line |-> @.line, pos |-> r.pos, depth |-> r.depth, doc |-> r.doc]]
           /\ paint' = [paint EXCEPT ![d][at[d].line] = @ \o painted]
  BY Zenon DEF Token
<1> DEFINE painted == [k \in 1 .. r.pos - p |-> r.style]
           new == [line |-> l, pos |-> r.pos, depth |-> r.depth, doc |-> r.doc]
<1>2. l \in DOMAIN text /\ p \in 1 .. Len(text[l]) /\ TokenOK(text[l], p, r)
  BY CallTokenOK DEF Token
<1>3. text # <<>> /\ text' = text
  BY DEF Token, Turn
<1>4. Len(text) \in Nat /\ DOMAIN text = 1 .. Len(text) /\ text[l] \in Seq(STRING) /\ Len(text[l]) \in Nat
  BY <1>2, <1>3, TextIs
<1>5. /\ DOMAIN at' = Dialects /\ DOMAIN paint' = Dialects
      /\ at'[d] = new /\ paint'[d] = [paint[d] EXCEPT ![l] = @ \o painted]
      /\ \A e \in Dialects : e # d => at'[e] = at[e] /\ paint'[e] = paint[e]
  BY <1>1 DEF EditInv
<1>6. EditorOK(d) /\ text \in Texts
  BY <1>3 DEF EditInv
<1>7. r.pos \in p + 1 .. Len(text[l]) + 1 /\ r.style \in Styles /\ ParserState(r)
      /\ (Shade(r.style) = "code" => NoMark(text[l], p, r.pos))
  BY <1>2 DEF TokenOK
<1>8. painted \in Seq(Styles) /\ Len(painted) = r.pos - p
      /\ \A k \in 1 .. r.pos - p : painted[k] = r.style
  BY <1>2, <1>4, <1>7
<1>9. new.line = l /\ new.pos = r.pos /\ ParserState(new)
  BY <1>7 DEF ParserState
<1> HIDE DEF new, painted
<1>10. p \in Nat /\ p > 0 /\ r.pos \in Nat /\ r.pos > p
  <2>1. p \in Nat /\ p > 0
    BY <1>2, <1>4
  <2> HIDE DEF l, p
  <2> QED BY <1>4, <1>7, <2>1
<1>11. ASSUME NEW m \in DOMAIN text, m = l PROVE LineOK(d, m)'
  <2> DEFINE old == paint[d][m]
  <2>1. /\ old \in Seq(Styles) /\ Len(old) = p - 1
        /\ \A k \in 1 .. Len(old) : Shade(old[k]) = "code" => ~Opens(text[l], k)
    <3>1. LineOK(d, m) /\ m \in Nat
      BY <1>2, <1>4, <1>6, <1>11 DEF EditorOK
    <3>2. Extent(at[d], m) = p - 1
      BY <1>11, <3>1 DEF Extent
    <3> QED BY <1>11, <3>1, <3>2 DEF LineOK
  <2>2. paint'[d][m] = old \o painted
    BY <1>2, <1>5, <1>6, <1>11 DEF EditorOK
  <2> HIDE DEF old
  <2>3. /\ old \o painted \in Seq(Styles) /\ Len(old \o painted) = r.pos - 1
        /\ \A k \in 1 .. r.pos - 1 : (old \o painted)[k] = IF k <= p - 1 THEN old[k] ELSE painted[k - (p - 1)]
    <3>1. Len(old) = p - 1 /\ Len(painted) = r.pos - p
      BY <1>8, <2>1
    <3>2. /\ old \o painted \in Seq(Styles) /\ Len(old \o painted) = Len(old) + Len(painted)
          /\ \A k \in 1 .. Len(old) + Len(painted) :
               (old \o painted)[k] = IF k <= Len(old) THEN old[k] ELSE painted[k - Len(old)]
      BY <1>8, <2>1, JoinIs
    <3>3. Len(old) + Len(painted) = r.pos - 1
      <4> HIDE DEF p
      <4> QED BY <1>10, <3>1
    <3> HIDE DEF p
    <3> QED BY <3>1, <3>2, <3>3
  <2>4. ASSUME NEW k \in 1 .. r.pos - 1, Shade((old \o painted)[k]) = "code" PROVE ~Opens(text[l], k)
    <3>1. CASE k <= p - 1
      BY <1>2, <1>4, <2>1, <2>3, <2>4, <3>1
    <3>2. CASE ~(k <= p - 1)
      <4>1. k - (p - 1) \in 1 .. r.pos - p /\ k \in p .. r.pos - 1
        <5> HIDE DEF l, p
        <5> QED BY <1>10, <3>2
      <4>2. Shade(r.style) = "code"
        BY <1>8, <2>3, <2>4, <3>2, <4>1
      <4> QED BY <1>7, <4>1, <4>2 DEF NoMark
    <3> QED BY <3>1, <3>2
  <2>5. Extent(at[d], m)' = r.pos - 1
    <3>1. m \in Nat
      BY <1>4
    <3> QED BY <1>5, <1>9, <1>11, <3>1 DEF Extent
  <2> QED BY <1>3, <1>11, <2>2, <2>3, <2>4, <2>5, LineOKNext
<1>12. ASSUME NEW m \in DOMAIN text, m # l PROVE LineOK(d, m)'
  <2>1. paint'[d][m] = paint[d][m]
    BY <1>5, <1>6, <1>12 DEF EditorOK
  <2>2. Extent(at[d], m)' = Extent(at[d], m)
    BY <1>3, <1>5, <1>9, <1>12 DEF Extent
  <2>3. LineOK(d, m)
    BY <1>6 DEF EditorOK
  <2> HIDE DEF l, p
  <2> QED BY <1>3, <2>1, <2>2, <2>3 DEF LineOK
<1>13. EditorOK(d)'
  <2>1. ParserState(at[d])'
    BY <1>5, <1>9
  <2>2. DOMAIN paint'[d] = DOMAIN text
    BY <1>5, <1>6 DEF EditorOK
  <2>3. ASSUME NEW m \in DOMAIN text PROVE LineOK(d, m)'
    <3>1. CASE m = l
      BY <1>11, <3>1
    <3>2. CASE m # l
      BY <1>12, <3>2
    <3> QED BY <3>1, <3>2
  <2>4. at'[d].line = l /\ at'[d].pos = r.pos
    BY <1>5, <1>9
  <2> HIDE DEF p
  <2> QED BY <1>2, <1>3, <1>4, <1>7, <2>1, <2>2, <2>3, <2>4 DEF EditorOK
<1>14. ASSUME NEW e \in Dialects PROVE EditorOK(e)'
  <2>1. CASE e = d
    BY <1>13, <2>1
  <2>2. CASE e # d
    BY <1>3, <1>5, <2>2, EditorSame DEF EditInv
  <2> QED BY <2>1, <2>2
<1>15. at'[d].pos > at[d].pos
  BY <1>2, <1>4, <1>5, <1>7, <1>9
<1> QED BY <1>3, <1>5, <1>6, <1>14, <1>15 DEF EditInv

\* At the end of a line all of it is painted; the parser's state goes to the next one.
LEMMA NextLineEdit ==
  ASSUME NEW d \in Dialects, EditInv, NextLine(d)
  PROVE  EditInv'
<1> DEFINE l == at[d].line
           new == [at[d] EXCEPT !.line = l + 1, !.pos = 1]
<1>1. text # <<>> /\ text' = text /\ paint' = paint /\ ~Finished(d) /\ at[d].pos > Len(text[l])
  BY DEF NextLine, Turn
<1>2. /\ Len(text) \in Nat /\ DOMAIN text = 1 .. Len(text)
      /\ \A m \in DOMAIN text : text[m] \in Seq(STRING) /\ Len(text[m]) \in Nat
  BY <1>1, TextIs
<1>3. EditorOK(d) /\ text \in Texts
  BY <1>1 DEF EditInv
<1>4. l \in DOMAIN text
  BY <1>1, <1>2, <1>3 DEF Finished, EditorOK
<1>5. /\ DOMAIN at' = Dialects /\ at'[d] = new
      /\ \A e \in Dialects : e # d => at'[e] = at[e]
  BY DEF EditInv, NextLine
<1>6. at[d].pos = Len(text[l]) + 1
  BY <1>1, <1>2, <1>3, <1>4 DEF EditorOK
<1>7. new.line = l + 1 /\ new.pos = 1 /\ ParserState(new)
  BY <1>3 DEF EditorOK, ParserState
<1> HIDE DEF new
<1>8. ASSUME NEW m \in DOMAIN text PROVE LineOK(d, m)'
  <2>1. LineOK(d, m) /\ m \in 1 .. Len(text) /\ l \in 1 .. Len(text)
    BY <1>2, <1>3, <1>4 DEF EditorOK
  <2>2. Extent(at[d], m)' = Extent(at[d], m)
    <3>1. Extent(at[d], m)' = IF m < l + 1 THEN Len(text[m]) ELSE 0
      BY <1>1, <1>5, <1>7 DEF Extent
    <3>2. Extent(at[d], m) = IF m < l THEN Len(text[m]) ELSE IF m = l THEN Len(text[l]) ELSE 0
      BY <1>2, <1>4, <1>6 DEF Extent
    <3> HIDE DEF l
    <3> QED BY <2>1, <3>1, <3>2
  <2> QED BY <1>1, <2>1, <2>2 DEF LineOK
<1>9. EditorOK(d)'
  <2>1. ParserState(at[d])'
    BY <1>5, <1>7
  <2>2. at'[d].line = l + 1 /\ at'[d].pos = 1 /\ l + 1 \in 1 .. Len(text) + 1
    BY <1>2, <1>4, <1>5, <1>7
  <2>3. DOMAIN paint'[d] = DOMAIN text
    BY <1>1, <1>3 DEF EditorOK
  <2> HIDE DEF l
  <2> QED BY <1>1, <1>2, <1>8, <2>1, <2>2, <2>3 DEF EditorOK
<1>10. ASSUME NEW e \in Dialects PROVE EditorOK(e)'
  <2>1. CASE e = d
    BY <1>9, <2>1
  <2>2. CASE e # d
    BY <1>1, <1>5, <2>2, EditorSame DEF EditInv
  <2> QED BY <2>1, <2>2
<1> QED BY <1>1, <1>3, <1>5, <1>10 DEF EditInv

\* Before the settings are read.
LEMMA InitOutput == Init => OutputInv
BY DEF Init, OutputInv

\* The keywords are read once, from the setting or from the default; an output
\* shows one of the payloads.
LEMMA NextOutput == OutputInv /\ [Next]_vars => OutputInv'
<1> SUFFICES ASSUME OutputInv, [Next]_vars PROVE OutputInv'
  OBVIOUS
<1> DEFINE Loaded == {{readKeywords(value)} : value \in Settings \cup {SchemaDefault, NoWords}}
<1>1. lean \in {{}} \cup Loaded /\ shown \in Payloads \cup {NoObject}
  BY DEF OutputInv
<1>2. CASE SettingsLoad
  <2>1. {Lean!DEFAULT_DSL_KEYWORDS} \in Loaded
    <3>1. {readKeywords(NoWords)} \in Loaded
      OBVIOUS
    <3>2. readKeywords(NoWords) = Lean!DEFAULT_DSL_KEYWORDS
      BY DEF readKeywords
    <3> HIDE DEF Loaded
    <3> QED BY <3>1, <3>2
  <2>2. \A value \in Settings \cup {SchemaDefault} : {readKeywords(value)} \in Loaded
    OBVIOUS
  <2>3. shown' = shown
    BY <1>2 DEF SettingsLoad, outputVars
  <2>4. \/ \E value \in Settings \cup {SchemaDefault} : lean' = {readKeywords(value)}
        \/ lean' = {Lean!DEFAULT_DSL_KEYWORDS}
    BY <1>2, Zenon DEF SettingsLoad
  <2>5. lean' \in Loaded
    <3> HIDE DEF Loaded
    <3> QED BY <2>1, <2>2, <2>4
  <2> QED BY <1>1, <2>3, <2>5 DEF OutputInv
<1>3. CASE lean' = lean /\ shown' \in Payloads \cup {NoObject}
  BY <1>1, <1>3 DEF OutputInv
<1>4. CASE Highlight
  <2>1. lean' = lean /\ shown' = shown
    BY <1>4, Zenon DEF Highlight, Token, NextLine, outputVars
  <2> QED BY <1>1, <1>3, <2>1
<1>5. CASE \E t \in Texts : Type(t)
  <2>1. lean' = lean /\ shown' = shown
    BY <1>5, Zenon DEF Type, outputVars
  <2> QED BY <1>1, <1>3, <2>1
<1>6. CASE \E data \in Payloads : Render(data)
  BY <1>1, <1>3, <1>6 DEF Render
<1>7. CASE AtRest \/ UNCHANGED vars
  <2>1. lean' = lean /\ shown' = shown
    BY <1>7, Zenon DEF AtRest, vars, outputVars
  <2> QED BY <1>1, <1>3, <2>1
<1> QED BY <1>2, <1>4, <1>5, <1>6, <1>7, Zenon DEF Next

\* Only the editors' steps touch the editors.
LEMMA NextEdit == EditInv /\ [Next]_vars => EditInv'
<1> SUFFICES ASSUME EditInv, [Next]_vars PROVE EditInv'
  OBVIOUS
<1>1. ASSUME text' = text, at' = at, paint' = paint PROVE EditInv'
  BY <1>1, EditorSame DEF EditInv
<1>2. CASE SettingsLoad \/ AtRest \/ UNCHANGED vars \/ \E data \in Payloads : Render(data)
  <2>1. text' = text /\ at' = at /\ paint' = paint
    BY <1>2, Zenon DEF SettingsLoad, AtRest, Render, vars, editorVars
  <2> QED BY <1>1, <2>1
<1>3. CASE Highlight
  <2>1. PICK d \in Dialects : Token(d) \/ NextLine(d)
    BY <1>3 DEF Highlight
  <2> QED BY <2>1, TokenEdit, NextLineEdit
<1>4. CASE text = <<>> /\ \E t \in Texts : Type(t)
  BY <1>4, TypeEdit
<1> QED BY <1>2, <1>3, <1>4, Zenon DEF Next

\* The invariant of the editors holds throughout.
LEMMA EditsKept == Spec => []EditInv
<1> QED BY InitEdit, NextEdit, PTL DEF Spec

\* A parser's state is a comment's or that of plain code, and an editor has painted
\* what its parser has read, no more and no less: in every text, whatever the settings
\* (lean4.ts:205-222, casdsl.ts:163-193).
THEOREM CellTypes == Spec => []TypeOK
<1>1. EditInv /\ OutputInv => TypeOK
  <2> SUFFICES ASSUME EditInv, OutputInv PROVE TypeOK
    OBVIOUS
  <2>1. ASSUME NEW d \in Dialects
        PROVE  /\ at[d].doc \in BOOLEAN /\ (at[d].doc => at[d].depth > 0)
               /\ text # <<>> => \A l \in DOMAIN text :
                    Len(paint[d][l]) = IF l < at[d].line THEN Len(text[l])
                                       ELSE IF l = at[d].line THEN at[d].pos - 1 ELSE 0
    <3>1. CASE text = <<>>
      <4>1. at[d] = AtStart
        BY <3>1 DEF EditInv
      <4> QED BY <3>1, <4>1 DEF AtStart
    <3>2. CASE text # <<>>
      <4>1. EditorOK(d)
        BY <3>2 DEF EditInv
      <4>2. at[d].doc \in BOOLEAN /\ (at[d].doc => at[d].depth > 0)
        BY <4>1 DEF EditorOK, ParserState
      <4>3. \A l \in DOMAIN text : Len(paint[d][l]) = Extent(at[d], l)
        BY <4>1 DEF EditorOK, LineOK
      <4> QED BY <4>2, <4>3 DEF Extent
    <3> QED BY <3>1, <3>2
  <2> QED BY <2>1 DEF OutputInv, TypeOK
<1>2. Spec => []OutputInv
  BY InitOutput, NextOutput, PTL DEF Spec
<1> QED BY <1>1, <1>2, EditsKept, PTL

\* In every text, in both languages and whatever the settings: no -- and no /- is left
\* among the code, so no text looks like code and is a comment.
THEOREM OpenersSeen == Spec => []OpenersPainted
<1>1. EditInv => OpenersPainted
  <2> SUFFICES ASSUME EditInv, NEW d \in Dialects, NEW l \in 1 .. IF text = <<>> THEN 0 ELSE at[d].line - 1,
                      NEW k \in 1 .. Len(text[l]) - 1,
                      <<text[l][k], text[l][k + 1]>> \in {<<"-", "-">>, <<"/", "-">>}
               PROVE  Shade(paint[d][l][k]) # "code"
    BY DEF OpenersPainted
  <2>1. text # <<>>
    OBVIOUS
  <2>2. EditorOK(d) /\ Len(text) \in Nat /\ DOMAIN text = 1 .. Len(text)
    BY <2>1, TextIs DEF EditInv
  <2>3. at[d].line \in 1 .. Len(text) + 1 /\ l \in 1 .. at[d].line - 1
    BY <2>1, <2>2 DEF EditorOK
  <2>4. l \in DOMAIN text /\ l < at[d].line /\ l \in Nat
    BY <2>2, <2>3
  <2>5. LineOK(d, l) /\ Len(paint[d][l]) = Len(text[l]) /\ Len(text[l]) \in Nat
    BY <2>1, <2>2, <2>4, TextIs DEF EditorOK, LineOK, Extent
  <2>6. Opens(text[l], k)
    <3>1. text[l][k + 1] = "-" /\ text[l][k] \in {"-", "/"}
      OBVIOUS
    <3>2. k + 1 <= Len(text[l])
      BY <2>5
    <3> QED BY <3>1, <3>2 DEF Opens
  <2>7. k \in 1 .. Len(paint[d][l])
    BY <2>5
  <2> QED BY <2>5, <2>6, <2>7 DEF LineOK
<1> QED BY <1>1, EditsKept, PTL

\* Every call of token() that CodeMirror can make advances within the line; it throws at
\* one that does not. It is an invariant, of what the call gives wherever the parser is:
\* a call that ends where it began changes nothing, so no action property would see it.
\* With fairness it is TextsGetPainted.
THEOREM TokensAdvance == Spec => []CallsAdvance
<1>1. EditInv => CallsAdvance
  <2> SUFFICES ASSUME EditInv, NEW d \in Dialects, Turn(d), at[d].pos <= Len(text[at[d].line]),
                      NEW r \in CallToken(d)
               PROVE  r.pos \in at[d].pos + 1 .. Len(text[at[d].line]) + 1
    BY DEF CallsAdvance
  <2> QED BY CallTokenOK DEF TokenOK
<1> QED BY <1>1, EditsKept, PTL

----------------------------------------------------------------------------
(* Where code is left *)

\* A # command is a # and the word behind it, if there is one.
LEMMA HashIs ==
  ASSUME NEW line \in Seq(STRING), NEW p \in 1 .. Len(line), line[p] = "#"
  PROVE  LET q == Lean!HASH_COMMAND(line, p) IN
         IF p + 1 <= Len(line) /\ line[p + 1] \in Starts
         THEN /\ q \in p + 2 .. Len(line) + 1
              /\ \A k \in p + 1 .. q - 1 : line[k] \in Starts \cup Lean!Numerals
              /\ q <= Len(line) => line[q] \notin Starts \cup Lean!Numerals
         ELSE q = p
<1> DEFINE T == Lean!Alphabetic \cup Lean!Numerals \cup {"_"}
           z == Lean!Word(line, p + 1, Starts, T)
           q == Lean!HASH_COMMAND(line, p)
<1>0. Len(line) \in Nat /\ p \in Nat /\ p + 1 \in 1 .. Len(line) + 1 /\ p <= Len(line)
  OBVIOUS
<1>1. /\ z \in p + 1 .. Len(line) + 1 /\ (z > p + 1 <=> p + 1 <= Len(line) /\ line[p + 1] \in Starts)
      /\ \A k \in p + 1 + 1 .. z - 1 : line[k] \in T
      /\ z > p + 1 /\ z <= Len(line) => line[z] \notin T
  <2> HIDE DEF T
  <2> QED BY <1>0, WordMoves
<1>2. q = IF z > p + 1 THEN z ELSE p
  BY <1>0, Zenon DEF Lean!HASH_COMMAND, Starts
<1>3. T = Starts \cup Lean!Numerals
  BY DEF Starts
<1> HIDE DEF z, T, q
<1>4. CASE p + 1 <= Len(line) /\ line[p + 1] \in Starts
  <2>1. z > p + 1 /\ q = z
    BY <1>1, <1>2, <1>4
  <2>2. q \in p + 2 .. Len(line) + 1
    BY <1>0, <1>1, <2>1
  <2>3. ASSUME NEW k \in p + 1 .. q - 1 PROVE line[k] \in Starts \cup Lean!Numerals
    <3>1. k = p + 1 \/ k \in p + 1 + 1 .. z - 1
      BY <1>0, <1>1, <2>1
    <3> QED BY <1>1, <1>3, <1>4, <3>1
  <2> QED BY <1>1, <1>3, <1>4, <2>1, <2>2, <2>3 DEF q
<1>5. CASE ~(p + 1 <= Len(line) /\ line[p + 1] \in Starts)
  <2>1. q = p
    BY <1>0, <1>1, <1>2, <1>5
  <2> QED BY <1>5, <2>1 DEF q
<1> QED BY <1>4, <1>5

\* No token of code holds a # but in front: a # begins a token of its own in both files.
LEMMA KindNoHash ==
  ASSUME NEW line \in Seq(STRING), NEW p \in 1 .. Len(line), NEW e \in p + 1 .. Len(line) + 1,
         Kind(line, p, e), NEW k \in p + 1 .. e - 1
  PROVE  line[k] # "#"
<1>1. CASE IsWord(line, p, e)
  BY <1>1, InnerIs DEF IsWord
<1>2. CASE line[p] = "." /\ p + 1 < e /\ IsWord(line, p + 1, e)
  <2>1. k = p + 1 \/ k \in p + 1 + 1 .. e - 1
    OBVIOUS
  <2> QED BY <1>2, <2>1, InnerIs, StartsIs DEF IsWord
<1>3. CASE line[p] = "#" /\ e = Lean!HASH_COMMAND(line, p)
  <2>1. e # p
    OBVIOUS
  <2>2. line[k] \in Starts \cup Lean!Numerals
    BY <1>3, <2>1, HashIs
  <2> QED BY <2>2, InnerIs
<1>4. CASE line[p] = Backslash /\ e = p + 2 /\ p + 1 <= Len(line) /\ line[p + 1] \in Starts
  <2>1. k = p + 1
    BY <1>4
  <2> QED BY <1>4, <2>1, StartsIs
<1>5. CASE \A j \in p + 1 .. e - 1 : line[j] \notin Starts \cup {"#"} /\ ~Opening(line, j)
  BY <1>5
<1> QED BY <1>1, <1>2, <1>3, <1>4, <1>5 DEF Kind

\* A token of code does not end inside a # command.
LEMMA NoHashAfter ==
  ASSUME NEW line \in Seq(STRING), NEW p \in 1 .. Len(line), NEW e \in p + 1 .. Len(line),
         Kind(line, p, e), NEW y \in 1 .. p, ~InHash(line, y, p)
  PROVE  ~InHash(line, y, e)
<1> SUFFICES ASSUME NEW h \in y .. e - 1, line[h] = "#", line[h + 1] \in Starts,
                    \A k \in h + 1 .. e : line[k] \in Starts \cup Lean!Numerals
             PROVE  FALSE
  BY Zenon DEF InHash
<1>1. CASE h < p
  <2>1. h \in y .. p - 1 /\ \A k \in h + 1 .. p : line[k] \in Starts \cup Lean!Numerals
    BY <1>1
  <2> QED BY <2>1 DEF InHash
<1>2. CASE h = p
  <2>1. line[e] \in Starts \cup Lean!Numerals /\ p + 1 <= Len(line)
    BY <1>2
  <2>2. e = Lean!HASH_COMMAND(line, p) \/ Lean!HASH_COMMAND(line, p) = p
    <3>1. line[p] # "." /\ line[p] \notin Starts /\ line[p] # Backslash
      BY <1>2, StartsIs, MarksDiffer
    <3> QED BY <1>2, <3>1 DEF Kind, IsWord
  <2> QED BY <1>2, <2>1, <2>2, HashIs
<1>3. CASE h > p
  <2>1. h \in p + 1 .. e - 1
    BY <1>3
  <2> QED BY <2>1, KindNoHash
<1> QED BY <1>1, <1>2, <1>3

\* After a token of code a parser may still stand where it does: a token ends inside a
\* word only where CasDsl begins a word of its own.
LEMMA CodePlaced ==
  ASSUME NEW line \in Seq(STRING), NEW p \in 1 .. Len(line), NEW e \in p + 1 .. Len(line) + 1,
         Kind(line, p, e), NEW y \in 1 .. p, Placed(line, y, p)
  PROVE  Placed(line, y, e)
<1> SUFFICES ASSUME e <= Len(line)
             PROVE  /\ ~InHash(line, y, e)
                    /\ InWord(line, y, e) /\ line[e] \in Inner => \E b \in y .. e : Breaks(line, b, e)
  BY Zenon DEF Placed
<1>0. Len(line) \in Nat /\ p \in Nat /\ e \in Nat /\ y \in Nat /\ y <= p /\ p < e /\ p <= Len(line)
  OBVIOUS
<1>1. ~InHash(line, y, p) /\ ~InHash(line, y, e)
  <2>1. ~InHash(line, y, p) /\ e \in p + 1 .. Len(line)
    BY <1>0 DEF Placed
  <2> QED BY <2>1, NoHashAfter
<1>2. ASSUME NEW i \in y .. e - 1, line[i] \in Starts, \A k \in i + 1 .. e - 1 : line[k] \in Inner,
             ~InHash(line, y, i), line[e] \in Inner
      PROVE  \E b \in y .. e : Breaks(line, b, e)
  <2>1. CASE i < p
    <3>1. i \in y .. p - 1 /\ p \in i + 1 .. e - 1 /\ \A k \in i + 1 .. p - 1 : line[k] \in Inner
      BY <1>0, <1>2, <2>1
    <3>2. InWord(line, y, p) /\ line[p] \in Inner
      BY <1>2, <3>1 DEF InWord
    <3>3. PICK b \in y .. p : Breaks(line, b, p)
      BY <1>0, <3>2 DEF Placed
    <3>4. ASSUME NEW k \in b + 1 .. e PROVE line[k] \in Inner
      <4>1. k \in b + 1 .. p \/ k \in i + 1 .. e - 1 \/ k = e
        BY <1>0, <2>1
      <4> QED BY <1>2, <3>3, <4>1 DEF Breaks
    <3>5. line[b] \in {"_", "sup2"} \/ (line[b] = Backslash /\ b + 1 < e)
      <4>1. line[b] \in {"_", "sup2"} \/ (line[b] = Backslash /\ b + 1 < p)
        BY <3>3, Zenon DEF Breaks
      <4>2. b + 1 < p => b + 1 < e
        BY <1>0
      <4> QED BY <4>1, <4>2
    <3>6. b \in y .. e
      BY <1>0
    <3> QED BY <3>4, <3>5, <3>6 DEF Breaks
  <2>2. CASE i >= p
    <3>1. CASE IsWord(line, p, e) \/ IsWord(line, p + 1, e)
      <4>1. line[e] = "sup2"
        BY <1>0, <1>2, <3>1 DEF IsWord
      <4>2. \A k \in e + 1 .. e : FALSE
        BY <1>0
      <4>3. Breaks(line, e, e)
        BY <4>1, <4>2 DEF Breaks
      <4>4. e \in y .. e
        BY <1>0
      <4> QED BY <4>3, <4>4
    <3>2. CASE line[p] = "#" /\ e = Lean!HASH_COMMAND(line, p)
      <4>1. i # p
        BY <1>2, <3>2, StartsIs
      <4>2. /\ line[p + 1] \in Starts
            /\ \A k \in p + 1 .. e - 1 : line[k] \in Starts \cup Lean!Numerals
        BY <1>0, <3>2, HashIs
      <4>3. p \in y .. i - 1 /\ \A k \in p + 1 .. i : line[k] \in Starts \cup Lean!Numerals
        BY <1>0, <2>2, <4>1, <4>2
      <4> QED BY <1>2, <3>2, <4>2, <4>3 DEF InHash
    <3>3. CASE line[p] = Backslash /\ e = p + 2 /\ p + 1 <= Len(line) /\ line[p + 1] \in Starts
      <4>1. line[p + 1] \in Inner
        BY <3>3, InnerIs
      <4>2. ASSUME NEW k \in p + 1 .. e PROVE line[k] \in Inner
        <5>1. k = p + 1 \/ k = e
          BY <1>0, <3>3
        <5> QED BY <1>2, <4>1, <5>1
      <4>3. p \in y .. e /\ p + 1 < e
        BY <1>0, <3>3
      <4> QED BY <3>3, <4>2, <4>3 DEF Breaks
    <3>4. CASE /\ \A k \in p + 1 .. e - 1 : line[k] \notin Starts \cup {"#"} /\ ~Opening(line, k)
               /\ line[p] \in Starts => line[p] = "_" /\ e = p + 1
      <4>1. i = p
        <5>1. i \notin p + 1 .. e - 1
          BY <1>2, <3>4
        <5> QED BY <1>0, <2>2, <5>1
      <4>2. line[p] = "_" /\ e = p + 1
        BY <1>2, <3>4, <4>1
      <4>3. ASSUME NEW k \in p + 1 .. e PROVE line[k] \in Inner
        <5>1. e = p + 1 /\ e \in Nat
          BY <1>0, <4>2
        <5>2. k = e
          BY <5>1
        <5> QED BY <1>2, <5>2
      <4>4. p \in y .. e
        BY <1>0
      <4> QED BY <4>2, <4>3, <4>4 DEF Breaks
    <3> QED BY <3>1, <3>2, <3>3, <3>4 DEF Kind
  <2> QED BY <1>0, <2>1, <2>2
<1> QED BY <1>1, <1>2, Zenon DEF InWord

\* A token of code skips no place where code is left: no rule of either file runs over
\* an opener.
LEMMA CodeMisses ==
  ASSUME NEW line \in Seq(STRING), NEW p \in 1 .. Len(line), NEW e \in p + 1 .. Len(line) + 1,
         Kind(line, p, e), NEW y \in 1 .. p, Placed(line, y, p), ~Opening(line, p)
  PROVE  \A o \in p .. e - 1 : ~Hits(line, y, o)
<1>0. Len(line) \in Nat /\ p \in Nat /\ e \in Nat /\ y \in Nat /\ y <= p /\ p < e /\ p <= Len(line)
  OBVIOUS
<1> SUFFICES ASSUME NEW o \in p + 1 .. e - 1, Opening(line, o), line[o] = "'" => ~InWord(line, y, o)
             PROVE  FALSE
  <2>1. \A o \in p .. e - 1 : o = p \/ o \in p + 1 .. e - 1
    BY <1>0
  <2> QED BY <2>1, Zenon DEF Hits
<1>1. o \in 1 .. Len(line) /\ line[o] \in {"-", "/", "'", Quote}
  <2>1. o \in 1 .. Len(line)
    BY <1>0
  <2> QED BY <2>1, NotOpening
<1>2. ~InHash(line, y, p)
  BY <1>0 DEF Placed
<1>3. CASE IsWord(line, p, e)
  <2>1. line[o] \in Inner /\ line[p] \in Starts /\ \A k \in p + 1 .. o - 1 : line[k] \in Inner
    BY <1>0, <1>3 DEF IsWord
  <2>2. line[o] = "'"
    BY <1>1, <2>1, InnerIs
  <2>3. p \in y .. o - 1
    BY <1>0
  <2> QED BY <1>2, <2>1, <2>2, <2>3 DEF InWord
<1>4. CASE line[p] = "." /\ p + 1 < e /\ IsWord(line, p + 1, e)
  <2>1. line[p + 1] \in Starts
    BY <1>4 DEF IsWord
  <2>2. o \in p + 1 + 1 .. e - 1
    <3>1. o # p + 1
      <4>1. line[p + 1] \notin {"-", "/", "'", Quote}
        BY <2>1, StartsIs
      <4> QED BY <1>1, <4>1
    <3> QED BY <1>0, <3>1
  <2>3. line[o] \in Inner /\ \A k \in p + 1 + 1 .. o - 1 : line[k] \in Inner
    BY <1>0, <1>4, <2>2 DEF IsWord
  <2>4. line[o] = "'"
    BY <1>1, <2>3, InnerIs
  <2>5. p + 1 \in y .. o - 1
    BY <1>0, <2>2
  <2>6. ~InHash(line, y, p + 1)
    <3> SUFFICES ASSUME NEW h \in y .. (p + 1) - 1, line[h] = "#",
                        \A k \in h + 1 .. p + 1 : line[k] \in Starts \cup Lean!Numerals
                 PROVE  FALSE
      BY Zenon DEF InHash
    <3>1. h # p
      BY <1>4
    <3>2. p \in h + 1 .. p + 1
      BY <1>0, <3>1
    <3>3. "." \notin Starts \cup Lean!Numerals
      BY InnerIs
    <3> QED BY <1>4, <3>2, <3>3
  <2> QED BY <2>1, <2>3, <2>4, <2>5, <2>6 DEF InWord
<1>5. CASE line[p] = "#" /\ e = Lean!HASH_COMMAND(line, p)
  <2>1. line[o] \in Starts \cup Lean!Numerals
    BY <1>0, <1>5, HashIs
  <2>2. line[o] # Quote
    BY <2>1, InnerIs
  <2> QED BY <1>1, <2>1, <2>2, InnerIs
<1>6. CASE line[p] = Backslash /\ e = p + 2 /\ p + 1 <= Len(line) /\ line[p + 1] \in Starts
  <2>1. o = p + 1
    BY <1>0, <1>6
  <2> QED BY <1>1, <1>6, <2>1, StartsIs
<1>7. CASE \A k \in p + 1 .. e - 1 : line[k] \notin Starts \cup {"#"} /\ ~Opening(line, k)
  BY <1>7
<1> QED BY <1>3, <1>4, <1>5, <1>6, <1>7 DEF Kind

\* The symbols of a line.
LEMMA SymbolsOf == \A line \in Seq(STRING) : DOMAIN line = 1 .. Len(line)
OBVIOUS

\* A comparable line has no apostrophe in a word that CasDsl has broken.
LEMMA ComparableIs ==
  ASSUME NEW line \in Seq(STRING), Comparable(line), NEW i \in 1 .. Len(line), NEW j \in 1 .. Len(line),
         i < j, line[j] = "'", line[i] \in {"_", "sup2"} \/ (line[i] = Backslash /\ i + 1 < j),
         \A k \in i + 1 .. j - 1 : line[k] \in Inner
  PROVE  FALSE
<1>1. i \in DOMAIN line /\ j \in DOMAIN line
  BY SymbolsOf, Zenon
<1> QED BY <1>1, Zenon DEF Comparable, Backslash, Inner

\* On a comparable line, where a parser leaves code both do.
LEMMA StopHits ==
  ASSUME NEW line \in Seq(STRING), NEW p \in 1 .. Len(line), NEW y \in 1 .. p, Placed(line, y, p),
         Comparable(line), Opening(line, p)
  PROVE  Hits(line, y, p)
<1> SUFFICES ASSUME line[p] = "'", InWord(line, y, p) PROVE FALSE
  BY Zenon DEF Hits
<1>0. Len(line) \in Nat /\ p \in Nat /\ y \in Nat /\ y <= p /\ p <= Len(line) /\ y > 0
  OBVIOUS
<1>1. line[p] \in Inner
  BY InnerIs
<1>2. PICK b \in y .. p : Breaks(line, b, p)
  BY <1>0, <1>1 DEF Placed
<1>3. line[b] \in {"_", "sup2"} \/ (line[b] = Backslash /\ b + 1 < p)
  BY <1>2 DEF Breaks
<1>4. b # p
  BY <1>3, MarksDiffer
<1>5. b \in 1 .. Len(line) /\ b < p
  <2>1. b \in y .. p /\ b # p
    BY <1>4
  <2> QED BY <1>0, <2>1
<1>6. \A k \in b + 1 .. p - 1 : line[k] \in Inner
  <2>1. \A k \in b + 1 .. p : line[k] \in Inner
    BY <1>2, Zenon DEF Breaks
  <2> QED BY <1>0, <2>1
<1> QED BY <1>3, <1>5, <1>6, ComparableIs

\* A set of numbers with a bound has a greatest one.
LEMMA Greatest ==
  ASSUME NEW n \in Nat, NEW D, D \subseteq 0 .. n, D # {}
  PROVE  \E m \in D : \A y \in D : y <= m
<1> DEFINE E == {k \in 0 .. n : n - k \in D}
<1>1. E \subseteq 0 .. n /\ E # {}
  <2>1. PICK x \in D : TRUE
    OBVIOUS
  <2>2. n - x \in E
    BY <2>1
  <2> QED BY <2>2
<1>2. PICK k \in E : \A j \in E : k <= j
  <2> HIDE DEF E
  <2> QED BY <1>1, Least
<1>3. ASSUME NEW y \in D PROVE y <= n - k
  <2>1. n - y \in E
    OBVIOUS
  <2>2. k \in 0 .. n /\ y \in 0 .. n
    OBVIOUS
  <2>3. k <= n - y
    <3> HIDE DEF E
    <3> QED BY <1>2, <2>1
  <2> QED BY <2>2, <2>3
<1>4. n - k \in D
  OBVIOUS
<1> HIDE DEF E
<1> QED BY <1>3, <1>4

----------------------------------------------------------------------------
(* The walk over a line *)

\* At the place where code begins it has not been left.
LEMMA RestsAt ==
  ASSUME NEW line, NEW row, NEW p \in Nat, NEW s
  PROVE  Rests(line, row, p, s, s, p)
<1>1. \A k \in p .. p - 1 : FALSE
  OBVIOUS
<1>2. Placed(line, p, p)
  BY <1>1, Zenon DEF Placed, InHash, InWord
<1> QED BY <1>1, <1>2 DEF Rests

\* A line not read yet.
LEMMA WalkStarts ==
  ASSUME NEW line, NEW row, NEW s \in PStates
  PROVE  Walked(line, s, row, 1, s)
<1> DEFINE Y == {1}
           st == [y \in Y |-> s]
<1>1. Rests(line, row, 1, s, st[1], 1)
  BY RestsAt
<1>2. Y \subseteq 1 .. 1 /\ 1 \in Y /\ st[1] = s /\ \A y \in Y : y = 1
  OBVIOUS
<1> HIDE DEF Y, st
<1>3. Walk(line, s, row, 1, s, Y, st)
  BY <1>1, <1>2 DEF Walk
<1> QED BY <1>3 DEF Walked

\* A jump made is not undone by what is painted later.
LEMMA JumpStays ==
  ASSUME NEW line \in Seq(STRING), NEW p \in 1 .. Len(line), NEW row, NEW new, NEW Y, NEW Z, NEW st, NEW sz,
         Y \subseteq 1 .. p, Y \subseteq Z, \A y \in Y : sz[y] = st[y],
         \A k \in 1 .. p - 1 : new[k] = row[k],
         NEW y \in Y, Jumps(line, row, Y, st, y)
  PROVE  Jumps(line, new, Z, sz, y)
<1> PICK o \in y .. Len(line) :
      LET r == Cas!token(line, o, st[y])
      IN /\ First(line, st[y], y, o)
         /\ r.pos \in Y /\ r.pos > o /\ st[r.pos] = StateOf(r)
         /\ \A k \in y .. o - 1 : Shade(row[k]) = "code"
         /\ \A k \in o .. r.pos - 1 : Shade(row[k]) = Shade(r.style)
  BY Zenon DEF Jumps
<1> DEFINE r == Cas!token(line, o, st[y])
<1>1. /\ First(line, st[y], y, o)
      /\ r.pos \in Y /\ r.pos > o /\ st[r.pos] = StateOf(r)
      /\ \A k \in y .. o - 1 : Shade(row[k]) = "code"
      /\ \A k \in o .. r.pos - 1 : Shade(row[k]) = Shade(r.style)
  OBVIOUS
<1>2. sz[y] = st[y]
  OBVIOUS
<1>3. r = Cas!token(line, o, sz[y])
  BY <1>2
<1> HIDE DEF r
<1>4. r.pos \in 1 .. p /\ y \in 1 .. p
  BY <1>1
<1>5. o < r.pos /\ o \in y .. Len(line)
  BY <1>1
<1>6. Jumps(line, new, Z, sz, y)
  <2>1. \A k \in y .. o - 1 : Shade(new[k]) = "code"
    BY <1>1, <1>4, <1>5
  <2>2. \A k \in o .. r.pos - 1 : Shade(new[k]) = Shade(r.style)
    BY <1>1, <1>4, <1>5
  <2>3. r.pos \in Z /\ sz[r.pos] = StateOf(r)
    BY <1>1
  <2> QED BY <1>1, <1>2, <1>3, <2>1, <2>2, <2>3 DEF Jumps
<1> QED BY <1>6

\* A token of a comment or a literal, which both files take alike.
LEMMA TokenBites ==
  ASSUME NEW line \in Seq(STRING), NEW p \in 1 .. Len(line), NEW s \in PStates,
         s.depth > 0 \/ Opening(line, p)
  PROVE  LET r == Cas!token(line, p, s)
         IN /\ r.pos \in p + 1 .. Len(line) + 1 /\ StateOf(r) \in PStates
            /\ r.style \in {"comment", "docComment", "string"}
<1>1. "casdsl" \in Dialects /\ Cas!token(line, p, s) \in CallOf("casdsl", {}, line, p, s)
  BY DEF Dialects, CallOf
<1> QED BY <1>1, TokenSplits

\* What either editor takes in plain code.
LEMMA PickKind ==
  ASSUME NEW d, NEW words, NEW line \in Seq(STRING), NEW p \in 1 .. Len(line), NEW c,
         PickOf(d, words, line, p, c)
  PROVE  /\ Kind(line, p, c.end) /\ c.end \in p + 1 .. Len(line) + 1
         /\ Shade(c.style) = "code"
<1>1. CASE d = "lean4"
  BY <1>1, LeanKind, LeanShade DEF PickOf
<1>2. CASE d # "lean4"
  BY <1>2, CasKind, CasShade DEF PickOf
<1> QED BY <1>1, <1>2

\* A token of a comment or a literal is the next jump of the walk.
LEMMA WalkBites ==
  ASSUME NEW line \in Seq(STRING), NEW p \in 1 .. Len(line), NEW s \in PStates, NEW s0, NEW row, NEW new,
         Comparable(line), Walked(line, s0, row, p, s), s.depth > 0 \/ Opening(line, p),
         NEW r, r = Cas!token(line, p, s), \A k \in 1 .. p - 1 : new[k] = row[k],
         \A k \in p .. r.pos - 1 : new[k] = r.style
  PROVE  Walked(line, s0, new, r.pos, StateOf(r))
<1> DEFINE e == r.pos
<1>0. Len(line) \in Nat /\ p \in Nat /\ p > 0 /\ p <= Len(line)
  OBVIOUS
<1>1. e \in p + 1 .. Len(line) + 1 /\ StateOf(r) \in PStates
  BY TokenBites
<1>2. PICK Y, st : Walk(line, s0, row, p, s, Y, st)
  BY DEF Walked
<1>3. Y \subseteq 1 .. p /\ 1 \in Y /\ st[1] = s0
      /\ \A y \in Y : st[y] \in PStates /\ (Jumps(line, row, Y, st, y) \/ Rests(line, row, p, s, st[y], y))
  BY <1>2 DEF Walk
<1> DEFINE Z == Y \cup {e}
           sz == [y \in Z |-> IF y = e THEN StateOf(r) ELSE st[y]]
<1>4. e \notin Y /\ Z \subseteq 1 .. e /\ 1 \in Z /\ Y \subseteq Z /\ e \in Z
  <2>1. e \in Nat /\ p < e
    BY <1>0, <1>1
  <2> HIDE DEF e
  <2>2. \A y \in Y : y \in 1 .. p
    BY <1>3
  <2>3. e \notin Y
    BY <1>0, <2>1, <2>2
  <2>4. 1 .. p \subseteq 1 .. e /\ e \in 1 .. e
    BY <1>0, <2>1
  <2> QED BY <1>3, <2>3, <2>4
<1>5. sz[e] = StateOf(r) /\ \A y \in Y : sz[y] = st[y]
  <2> HIDE DEF e
  <2> QED BY <1>4
<1> HIDE DEF sz
<1>6. ASSUME NEW y \in Y PROVE Jumps(line, new, Z, sz, y)
  <2>1. CASE Jumps(line, row, Y, st, y)
    <3> HIDE DEF Z
    <3> QED BY <1>3, <1>4, <1>5, <2>1, JumpStays
  <2>2. CASE Rests(line, row, p, s, st[y], y)
    <3>1. /\ st[y] = s /\ (s.depth > 0 => y = p) /\ Placed(line, y, p)
          /\ \A k \in y .. p - 1 : Shade(row[k]) = "code" /\ ~Hits(line, y, k)
      BY <2>2 DEF Rests
    <3>2. y \in 1 .. p /\ y \in Nat
      BY <1>3
    <3>3. First(line, s, y, p)
      <4>1. CASE s.depth > 0
        BY <3>1, <4>1 DEF First
      <4>2. CASE ~(s.depth > 0)
        <5>1. Hits(line, y, p)
          BY <3>1, <3>2, <4>2, StopHits
        <5> QED BY <3>1, <4>2, <5>1 DEF First
      <4> QED BY <4>1, <4>2
    <3>4. \A k \in y .. p - 1 : Shade(new[k]) = "code"
      BY <1>0, <3>1, <3>2
    <3>5. \A k \in p .. r.pos - 1 : Shade(new[k]) = Shade(r.style)
      OBVIOUS
    <3>6. p \in y .. Len(line) /\ r.pos > p
      BY <1>0, <1>1, <3>2
    <3>7. r.pos \in Z /\ sz[r.pos] = StateOf(r) /\ sz[y] = s
      BY <1>5, <3>1
    <3> QED BY <3>3, <3>4, <3>5, <3>6, <3>7 DEF Jumps
  <2> QED BY <1>3, <2>1, <2>2
<1>7. Rests(line, new, e, StateOf(r), sz[e], e)
  BY <1>0, <1>1, <1>5, RestsAt
<1>8. \A y \in Z : sz[y] \in PStates
  BY <1>1, <1>3, <1>5
<1>9. sz[1] = s0
  BY <1>3, <1>5
<1> HIDE DEF e
<1>10. Walk(line, s0, new, e, StateOf(r), Z, sz)
  BY <1>4, <1>6, <1>7, <1>8, <1>9 DEF Walk
<1> HIDE DEF Z
<1> QED BY <1>10 DEF Walked, e

\* A token of code leaves the walk where it rests.
LEMMA WalkCode ==
  ASSUME NEW line \in Seq(STRING), NEW p \in 1 .. Len(line), NEW s, NEW s0, NEW row, NEW new,
         Walked(line, s0, row, p, s), s.depth = 0, ~Opening(line, p),
         NEW e \in p + 1 .. Len(line) + 1, Kind(line, p, e), \A k \in 1 .. p - 1 : new[k] = row[k],
         \A k \in p .. e - 1 : Shade(new[k]) = "code"
  PROVE  Walked(line, s0, new, e, s)
<1>0. Len(line) \in Nat /\ p \in Nat /\ p > 0 /\ p <= Len(line) /\ e \in Nat /\ p < e
  OBVIOUS
<1>2. PICK Y, st : Walk(line, s0, row, p, s, Y, st)
  BY DEF Walked
<1>3. Y \subseteq 1 .. p /\ 1 \in Y /\ st[1] = s0
      /\ \A y \in Y : st[y] \in PStates /\ (Jumps(line, row, Y, st, y) \/ Rests(line, row, p, s, st[y], y))
  BY <1>2 DEF Walk
<1>4. ASSUME NEW y \in Y PROVE Jumps(line, new, Y, st, y) \/ Rests(line, new, e, s, st[y], y)
  <2>1. CASE Jumps(line, row, Y, st, y)
    BY <1>3, <2>1, JumpStays
  <2>2. CASE Rests(line, row, p, s, st[y], y)
    <3>1. /\ st[y] = s /\ Placed(line, y, p)
          /\ \A k \in y .. p - 1 : Shade(row[k]) = "code" /\ ~Hits(line, y, k)
      BY <2>2 DEF Rests
    <3>2. y \in 1 .. p /\ y \in Nat
      BY <1>3
    <3>3. Placed(line, y, e) /\ \A k \in p .. e - 1 : ~Hits(line, y, k)
      BY <3>1, <3>2, CodePlaced, CodeMisses
    <3>4. \A k \in y .. e - 1 : k \in y .. p - 1 \/ k \in p .. e - 1
      BY <1>0, <3>2
    <3>5. \A k \in y .. p - 1 : new[k] = row[k]
      BY <1>0, <3>2
    <3>6. \A k \in y .. e - 1 : Shade(new[k]) = "code" /\ ~Hits(line, y, k)
      BY <3>1, <3>3, <3>4, <3>5
    <3>7. ~(st[y].depth > 0)
      BY <3>1
    <3> QED BY <3>1, <3>3, <3>6, <3>7 DEF Rests
  <2> QED BY <1>3, <2>1, <2>2
<1>5. Y \subseteq 1 .. e
  BY <1>0, <1>3
<1>6. Walk(line, s0, new, e, s, Y, st)
  BY <1>3, <1>4, <1>5 DEF Walk
<1> QED BY <1>6 DEF Walked

\* Every call of token() goes on with the walk, in both editors.
LEMMA WalkGoesOn ==
  ASSUME NEW d \in Dialects, NEW words, NEW line \in Seq(STRING), NEW p \in 1 .. Len(line),
         NEW s \in PStates, NEW r \in CallOf(d, words, line, p, s), NEW s0, NEW row, NEW new,
         Comparable(line), Walked(line, s0, row, p, s), \A k \in 1 .. p - 1 : new[k] = row[k],
         \A k \in p .. r.pos - 1 : new[k] = r.style
  PROVE  Walked(line, s0, new, r.pos, StateOf(r))
<1>0. /\ r.pos \in p + 1 .. Len(line) + 1 /\ StateOf(r) \in PStates
      /\ s.depth > 0 \/ Opening(line, p) =>
           r = Cas!token(line, p, s) /\ r.style \in {"comment", "docComment", "string"}
      /\ s.depth = 0 /\ ~Opening(line, p) =>
           StateOf(r) = s /\ PickOf(d, words, line, p, [end |-> r.pos, style |-> r.style])
  BY TokenSplits, Zenon
<1>1. s.depth \in Nat
  BY PStateIs DEF ParserState
<1>2. CASE s.depth > 0 \/ Opening(line, p)
  <2>1. r = Cas!token(line, p, s)
    BY <1>0, <1>2
  <2> QED BY <1>2, <2>1, WalkBites
<1>3. CASE s.depth = 0 /\ ~Opening(line, p)
  <2> DEFINE c == [end |-> r.pos, style |-> r.style]
  <2>1. StateOf(r) = s /\ PickOf(d, words, line, p, c)
    BY <1>0, <1>3
  <2>2. c.end = r.pos /\ c.style = r.style
    OBVIOUS
  <2> HIDE DEF c
  <2>3. Kind(line, p, c.end) /\ c.end \in p + 1 .. Len(line) + 1 /\ Shade(c.style) = "code"
    BY <2>1, PickKind
  <2>4. Kind(line, p, r.pos) /\ r.pos \in p + 1 .. Len(line) + 1
        /\ \A k \in p .. r.pos - 1 : Shade(new[k]) = "code"
    BY <2>2, <2>3
  <2>5. Walked(line, s0, new, r.pos, s)
    BY <1>3, <2>4, WalkCode
  <2> QED BY <2>1, <2>5
<1> QED BY <1>1, <1>2, <1>3

\* Two walks over the same line from the same state jump from place to place together:
\* where code is first left depends on the line alone, and so does the token there.
\* At the end the states are equal and so is every shade.
LEMMA WalkEnds ==
  ASSUME NEW line \in Seq(STRING), NEW s0, NEW s, NEW t, NEW row, NEW own,
         Walked(line, s0, row, Len(line) + 1, s), Walked(line, s0, own, Len(line) + 1, t)
  PROVE  s = t /\ \A k \in 1 .. Len(line) : Shade(row[k]) = Shade(own[k])
<1> DEFINE n == Len(line)
<1>0. n \in Nat /\ n + 1 \in Nat
  OBVIOUS
<1> HIDE DEF n
<1>1. PICK Y, st : Walk(line, s0, row, n + 1, s, Y, st)
  BY DEF Walked, n
<1>2. PICK Z, sz : Walk(line, s0, own, n + 1, t, Z, sz)
  BY DEF Walked, n
<1>3. Y \subseteq 1 .. n + 1 /\ 1 \in Y /\ st[1] = s0
      /\ \A y \in Y : st[y] \in PStates
                       /\ (Jumps(line, row, Y, st, y) \/ Rests(line, row, n + 1, s, st[y], y))
  BY <1>1 DEF Walk
<1>4. Z \subseteq 1 .. n + 1 /\ 1 \in Z /\ sz[1] = s0
      /\ \A y \in Z : sz[y] \in PStates
                       /\ (Jumps(line, own, Z, sz, y) \/ Rests(line, own, n + 1, t, sz[y], y))
  BY <1>2 DEF Walk
<1> DEFINE C == {y \in Y \cap Z : st[y] = sz[y] /\ \A k \in 1 .. y - 1 : Shade(row[k]) = Shade(own[k])}
<1>5. C \subseteq 0 .. n + 1 /\ 1 \in C
  <2>1. C \subseteq Y /\ 1 .. n + 1 \subseteq 0 .. n + 1
    BY <1>0
  <2>2. \A k \in 1 .. 1 - 1 : FALSE
    OBVIOUS
  <2>3. 1 \in C
    BY <1>3, <1>4, <2>2
  <2> HIDE DEF C
  <2> QED BY <1>3, <2>1, <2>3
<1>6. PICK m \in C : \A y \in C : y <= m
  <2> HIDE DEF C
  <2> QED BY <1>0, <1>5, Greatest
<1>7. /\ m \in Y /\ m \in Z /\ m \in 1 .. n + 1 /\ m \in Nat /\ st[m] = sz[m]
      /\ \A k \in 1 .. m - 1 : Shade(row[k]) = Shade(own[k])
  BY <1>0, <1>3, <1>6
<1> DEFINE u == st[m]
<1>8. \A k \in 1 .. n : k \in 1 .. m - 1 \/ k \in m .. n
  BY <1>0, <1>7
<1>9. u.depth \in Nat
  BY <1>3, <1>7, PStateIs DEF ParserState
<1> HIDE DEF C
<1>10. ASSUME Jumps(line, row, Y, st, m), Jumps(line, own, Z, sz, m) PROVE FALSE
  <2>1. PICK o \in m .. n :
          LET r == Cas!token(line, o, u)
          IN /\ First(line, u, m, o)
             /\ r.pos \in Y /\ r.pos > o /\ st[r.pos] = StateOf(r)
             /\ \A k \in m .. o - 1 : Shade(row[k]) = "code"
             /\ \A k \in o .. r.pos - 1 : Shade(row[k]) = Shade(r.style)
    BY <1>10, Zenon DEF Jumps, n
  <2>2. PICK a \in m .. n :
          LET r == Cas!token(line, a, u)
          IN /\ First(line, u, m, a)
             /\ r.pos \in Z /\ r.pos > a /\ sz[r.pos] = StateOf(r)
             /\ \A k \in m .. a - 1 : Shade(own[k]) = "code"
             /\ \A k \in a .. r.pos - 1 : Shade(own[k]) = Shade(r.style)
    BY <1>7, <1>10, Zenon DEF Jumps, n
  <2>3. o = a
    <3>0. First(line, u, m, o) /\ First(line, u, m, a)
      BY <2>1, <2>2
    <3>1. CASE u.depth > 0
      BY <3>0, <3>1 DEF First
    <3>2. CASE ~(u.depth > 0)
      <4>1. /\ Hits(line, m, o) /\ \A k \in m .. o - 1 : ~Hits(line, m, k)
            /\ Hits(line, m, a) /\ \A k \in m .. a - 1 : ~Hits(line, m, k)
        BY <3>0, <3>2 DEF First
      <4>2. ~(o < a) /\ ~(a < o)
        BY <1>7, <4>1
      <4> QED BY <1>7, <4>2
    <3> QED BY <3>1, <3>2
  <2> DEFINE r == Cas!token(line, o, u)
  <2>4. /\ r.pos \in Y /\ r.pos > o /\ st[r.pos] = StateOf(r)
        /\ \A k \in m .. o - 1 : Shade(row[k]) = "code"
        /\ \A k \in o .. r.pos - 1 : Shade(row[k]) = Shade(r.style)
    BY <2>1
  <2>5. /\ r.pos \in Z /\ sz[r.pos] = StateOf(r)
        /\ \A k \in m .. o - 1 : Shade(own[k]) = "code"
        /\ \A k \in o .. r.pos - 1 : Shade(own[k]) = Shade(r.style)
    BY <2>2, <2>3
  <2> HIDE DEF r
  <2>6. r.pos \in 1 .. n + 1 /\ o \in Nat /\ m <= o
    <3>1. r.pos \in 1 .. n + 1
      BY <1>3, <2>4
    <3>2. o \in m .. n
      OBVIOUS
    <3> QED BY <1>0, <1>7, <3>1, <3>2
  <2>7. ASSUME NEW k \in 1 .. r.pos - 1 PROVE Shade(row[k]) = Shade(own[k])
    <3>1. k \in 1 .. m - 1 \/ k \in m .. o - 1 \/ k \in o .. r.pos - 1
      BY <1>7, <2>6
    <3> QED BY <1>7, <2>4, <2>5, <3>1
  <2>8. r.pos \in C
    BY <2>4, <2>5, <2>7 DEF C
  <2>9. r.pos > m
    BY <1>7, <2>4, <2>6
  <2> QED BY <1>6, <1>7, <2>6, <2>8, <2>9
<1>11. ASSUME NEW w, NEW x, NEW z, NEW Q, NEW q, NEW v, Jumps(line, w, Q, q, m), q[m] = u,
              Rests(line, x, n + 1, z, u, m)
       PROVE  FALSE
  <2>1. PICK o \in m .. n : First(line, u, m, o)
    BY <1>11, Zenon DEF Jumps, n
  <2>2. (u.depth > 0 => m = n + 1) /\ \A k \in m .. (n + 1) - 1 : ~Hits(line, m, k)
    BY <1>11 DEF Rests
  <2>3. CASE u.depth > 0
    BY <1>0, <1>7, <2>1, <2>2, <2>3
  <2>4. CASE ~(u.depth > 0)
    <3>1. Hits(line, m, o)
      BY <2>1, <2>4 DEF First
    <3> QED BY <1>0, <1>7, <2>2, <3>1
  <2> QED BY <2>3, <2>4
<1>12. Rests(line, row, n + 1, s, u, m) /\ Rests(line, own, n + 1, t, u, m)
  BY <1>3, <1>4, <1>7, <1>10, <1>11
<1>13. s = t /\ \A k \in m .. n : Shade(row[k]) = Shade(own[k])
  BY <1>0, <1>12 DEF Rests
<1> QED BY <1>7, <1>8, <1>13 DEF n

----------------------------------------------------------------------------
(* The styles of the two languages *)

\* With the default keywords a word's style in lean4.ts is that of casdsl.ts
\* (lean4.ts:57-61, 171-173).
LEMMA StyleMirrors ==
  ASSUME NEW extra \in Defaults, NEW name, NEW symbol
  PROVE  Mirrors(CasStyle(name), LeanStyle(Lean!CORE_KEYWORDS \cup extra, name), symbol)
<1> DEFINE words == Lean!CORE_KEYWORDS \cup extra
<1>1. Cas!keywords \subseteq extra /\ extra \subseteq Cas!keywords \cup {"prefer"}
  BY DEF Defaults, SchemaDefault, Lean!DEFAULT_DSL_KEYWORDS, Cas!keywords, Cas!RESERVED_WORDS,
     Cas!NON_RESERVED_KEYWORDS, Cas!COMMAND_WORDS, Lean!Cas!RESERVED_WORDS,
     Lean!Cas!NON_RESERVED_KEYWORDS, Lean!Cas!COMMAND_WORDS
<1>2. Lean!HOLE \notin Cas!keywords
  BY DEF Lean!HOLE, Cas!keywords, Cas!RESERVED_WORDS, Cas!NON_RESERVED_KEYWORDS, Cas!COMMAND_WORDS
<1>3. /\ Cas!CONSTANT_ATOMS = Lean!Cas!CONSTANT_ATOMS /\ Cas!DOMAIN_TOKENS = Lean!Cas!DOMAIN_TOKENS
      /\ \A w \in Cas!CONSTANT_ATOMS \cup Cas!DOMAIN_TOKENS :
           w \notin Lean!CORE_KEYWORDS \cup {Lean!HOLE} \cup Cas!keywords \cup {"prefer"}
  <2>1. Cas!CONSTANT_ATOMS = Lean!Cas!CONSTANT_ATOMS /\ Cas!DOMAIN_TOKENS = Lean!Cas!DOMAIN_TOKENS
    BY DEF Cas!CONSTANT_ATOMS, Lean!Cas!CONSTANT_ATOMS, Cas!DOMAIN_TOKENS, Lean!Cas!DOMAIN_TOKENS
  <2>2. \A w \in Cas!CONSTANT_ATOMS \cup Cas!DOMAIN_TOKENS : w \notin Lean!CORE_KEYWORDS
    BY Zenon DEF Cas!CONSTANT_ATOMS, Cas!DOMAIN_TOKENS, Lean!CORE_KEYWORDS
  <2>3. \A w \in Cas!CONSTANT_ATOMS \cup Cas!DOMAIN_TOKENS : w \notin {Lean!HOLE, "prefer"} \cup Cas!keywords
    BY Zenon DEF Cas!CONSTANT_ATOMS, Cas!DOMAIN_TOKENS, Lean!HOLE, Cas!keywords, Cas!RESERVED_WORDS,
       Cas!NON_RESERVED_KEYWORDS, Cas!COMMAND_WORDS
  <2> QED BY <2>1, <2>2, <2>3
<1>4. CASE name \in Cas!keywords
  <2>1. CasStyle(name) = "keyword"
    <3>1. name \notin Cas!CONSTANT_ATOMS \cup Cas!DOMAIN_TOKENS
      BY <1>3, <1>4
    <3> QED BY <1>4, <3>1 DEF CasStyle
  <2>2. LeanStyle(words, name) = "keyword"
    BY <1>1, <1>2, <1>4 DEF LeanStyle
  <2> QED BY <2>1, <2>2 DEF Mirrors
<1>5. CASE name \in Cas!CONSTANT_ATOMS \cup Cas!DOMAIN_TOKENS
  <2>1. name \notin Cas!keywords /\ name \notin words \cup {Lean!HOLE} /\ name # Lean!HOLE
    BY <1>1, <1>3, <1>5
  <2>2. CasStyle(name) \in {"atom", "typeName"}
    BY <1>5, <2>1 DEF CasStyle
  <2>3. LeanStyle(words, name) = "atom"
    BY <1>3, <1>5, <2>1 DEF LeanStyle
  <2> QED BY <2>2, <2>3 DEF Mirrors
<1>6. CASE name \notin Cas!keywords \cup Cas!CONSTANT_ATOMS \cup Cas!DOMAIN_TOKENS
  <2>1. CasStyle(name) = "variableName"
    BY <1>6 DEF CasStyle
  <2> QED BY <2>1 DEF Mirrors
<1> QED BY <1>4, <1>5, <1>6

\* A plain line has no spelling on which the two differ.
LEMMA PlainIs ==
  ASSUME NEW line \in Seq(STRING), Plain(line), NEW p \in 1 .. Len(line)
  PROVE  line[p] \notin {"_", "sup2", Backslash} /\ ~Triple(line, p, ".", ".", ".")
<1>0. Len(line) \in Nat /\ p \in Nat /\ p \in 1 .. Len(line) + 1
  OBVIOUS
<1>1. line[p] \notin {"_", "sup2", Backslash} /\ Lean!After(line, p, <<".", ".", ".">>) = p
  <2>1. p \in DOMAIN line
    BY SymbolsOf, Zenon
  <2> QED BY <2>1, Zenon DEF Plain, Backslash
<1>2. Lean!After(line, p, <<".", ".", ".">>) = IF Triple(line, p, ".", ".", ".") THEN p + 3 ELSE p
  BY <1>0, AfterTriple
<1>3. ~Triple(line, p, ".", ".", ".")
  <2>1. p + 3 # p
    BY <1>0
  <2> QED BY <1>1, <1>2, <2>1, Zenon
<1> QED BY <1>1, <1>3

\* On a plain line words are the same in both files.
LEMMA IdentPlain ==
  ASSUME NEW line \in Seq(STRING), Plain(line), NEW p \in 1 .. Len(line) + 1
  PROVE  Cas!IDENT(line, p) = Lean!IDENT(line, p)
<1> DEFINE q == Lean!IDENT(line, p)
           z == Cas!IDENT(line, p)
<1>0. Len(line) \in Nat /\ p \in Nat
  OBVIOUS
<1>1. /\ q \in p .. Len(line) + 1 /\ (q > p <=> (p <= Len(line) /\ line[p] \in Starts))
      /\ \A k \in p + 1 .. q - 1 : line[k] \in Inner
      /\ q > p /\ q <= Len(line) => line[q] \notin Inner
      /\ z \in p .. Len(line) + 1 /\ (z > p <=> (p <= Len(line) /\ line[p] \in Lean!Alphabetic))
      /\ \A k \in p + 1 .. z - 1 : line[k] \in Inner \ {"sup2"}
      /\ z > p /\ z <= Len(line) => line[z] \notin Inner \ {"sup2"}
  BY IdentMoves
<1> HIDE DEF q, z
<1>2. \A k \in 1 .. Len(line) : line[k] \notin {"_", "sup2"}
  BY PlainIs
<1>3. q > p <=> z > p
  <2>1. p <= Len(line) => line[p] # "_"
    <3>1. p <= Len(line) => p \in 1 .. Len(line)
      OBVIOUS
    <3> QED BY <1>2, <3>1
  <2> QED BY <1>1, <2>1 DEF Starts
<1>4. CASE q > p
  <2>1. ~(q < z)
    <3> SUFFICES ASSUME q < z PROVE FALSE
      OBVIOUS
    <3>1. q \in p + 1 .. z - 1 /\ q <= Len(line)
      BY <1>0, <1>1, <1>4
    <3> QED BY <1>1, <1>4, <3>1
  <2>2. ~(z < q)
    <3> SUFFICES ASSUME z < q PROVE FALSE
      OBVIOUS
    <3>1. z \in p + 1 .. q - 1 /\ z <= Len(line) /\ z \in 1 .. Len(line)
      BY <1>0, <1>1, <1>3, <1>4
    <3> QED BY <1>1, <1>2, <1>3, <1>4, <3>1
  <2> QED BY <1>0, <1>1, <2>1, <2>2 DEF q, z
<1>5. CASE ~(q > p)
  BY <1>0, <1>1, <1>3, <1>5 DEF q, z
<1> QED BY <1>4, <1>5

\* Where a shared rule succeeds, it is the one taken, in both files.
LEMMA CommonFirst ==
  ASSUME NEW words, NEW line \in Seq(STRING), NEW p \in 1 .. Len(line), HasCommon(line, p), NEW r
  PROVE  /\ LeanPick(words, line, p, r) => Common(line, p, r)
         /\ CasPick(line, p, r) => Common(line, p, r)
<1>1. line[p] \in {Blank, "7", ":", "-", "#"}
  BY DEF HasCommon, Lean!Digits, Pair
<1>2. line[p] \notin Starts \cup {".", "=", "|", Backslash}
  BY <1>1, StartsIs, MarksDiffer
<1>3. line[p] \notin Lean!Alphabetic
  BY <1>2 DEF Starts
<1>4. ~Single(line, p, r)
  <2>1. line[p] = "#" /\ Lean!HASH_COMMAND(line, p) > p => Lean!HASH_COMMAND(line, p) # p
    OBVIOUS
  <2> QED BY <2>1 DEF Single, HasCommon
<1>5. ~LeanMethod(line, p) /\ ~CasMethod(line, p) /\ ~Pair(line, p, "=", ">")
      /\ ~Triple(line, p, "|", "-", ">") /\ ~Triple(line, p, ".", ".", ".")
      /\ ~Latex(line, p, {"mapsto", "leq", "in"}) /\ ~Latex(line, p, Cas!Spelled)
  BY <1>2 DEF LeanMethod, CasMethod, Pair, Triple, Latex
<1>6. LeanPick(words, line, p, r) => Common(line, p, r)
  BY <1>2, <1>4, <1>5, Zenon DEF LeanPick
<1>7. CasPick(line, p, r) => Common(line, p, r)
  BY <1>3, <1>4, <1>5, Zenon DEF CasPick
<1> QED BY <1>6, <1>7

\* At most one of the shared rules succeeds, in one way.
LEMMA CommonSame ==
  ASSUME NEW line \in Seq(STRING), NEW p, NEW r, NEW z, Common(line, p, r), Common(line, p, z)
  PROVE  r = z
<1>1. /\ line[p] = Blank => line[p] \notin Lean!Digits \cup {"#", ":", "-"}
      /\ line[p] \in Lean!Digits => line[p] \notin {"#", ":", "-"}
  BY MarksDiffer DEF Lean!Digits
<1>2. /\ Pair(line, p, ":", "=") => line[p] = ":"
      /\ Pair(line, p, "-", ">") => line[p] = "-"
  BY DEF Pair
<1> QED BY <1>1, <1>2 DEF Common

\* At one position of a plain line the two files take the same and the style is mirrored;
\* but for |->, which lean4.ts reads as | and ->, and =>, which casdsl.ts reads as =
\* and >.
LEMMA PicksMirror ==
  ASSUME NEW extra \in Defaults, NEW line \in Seq(STRING), Plain(line), NEW p \in 1 .. Len(line),
         NEW r, NEW z, LeanPick(Lean!CORE_KEYWORDS \cup extra, line, p, r), CasPick(line, p, z)
  PROVE  \/ z.end = r.end /\ \A k \in p .. r.end - 1 : Mirrors(z.style, r.style, line[k])
         \/ /\ Triple(line, p, "|", "-", ">") /\ r.end = p + 1
            /\ z = [end |-> p + 3, style |-> "operator"]
         \/ /\ Pair(line, p, "=", ">") /\ r.end = p + 2 /\ z.end = p + 1 /\ z.style = "operator"
<1> DEFINE words == Lean!CORE_KEYWORDS \cup extra
<1>0. Len(line) \in Nat /\ p \in Nat /\ p \in 1 .. Len(line) + 1 /\ p + 1 \in 1 .. Len(line) + 1
  OBVIOUS
<1>1. line[p] \notin {"_", "sup2", Backslash} /\ ~Triple(line, p, ".", ".", ".")
  BY PlainIs
<1>2. Cas!IDENT(line, p) = Lean!IDENT(line, p) /\ Cas!IDENT(line, p + 1) = Lean!IDENT(line, p + 1)
  BY <1>0, IdentPlain
<1>3. LeanName(line, p) = CasName(line, p) /\ (LeanMethod(line, p) <=> CasMethod(line, p))
  BY <1>2 DEF LeanName, CasName, LeanMethod, CasMethod
<1>4. CASE HasCommon(line, p)
  <2>1. Common(line, p, r) /\ Common(line, p, z)
    BY <1>4, CommonFirst
  <2>2. r = z
    BY <2>1, CommonSame
  <2>3. r.style \in {"none", "number", "meta", "operator"}
    <3>1. \E e : \/ r = [end |-> e, style |-> "none"] \/ r = [end |-> e, style |-> "number"]
                 \/ r = [end |-> e, style |-> "meta"] \/ r = [end |-> e, style |-> "operator"]
      BY <2>1, Zenon DEF Common
    <3> QED BY <3>1
  <2>4. \A k \in p .. r.end - 1 : Mirrors(z.style, r.style, line[k])
    BY <2>2, <2>3 DEF Mirrors
  <2> QED BY <2>2, <2>4
<1>5. ASSUME ~HasCommon(line, p), NEW x PROVE ~Common(line, p, x)
  BY <1>5, Zenon DEF HasCommon, Common
<1>6. CASE ~HasCommon(line, p) /\ line[p] \in Starts
  <2>1. line[p] \in Lean!Alphabetic
    BY <1>1, <1>6 DEF Starts
  <2>2. line[p] \notin {".", "=", "|"}
    BY <1>6, StartsIs
  <2>3. /\ ~LeanMethod(line, p) /\ ~CasMethod(line, p) /\ ~Pair(line, p, "=", ">")
        /\ ~Triple(line, p, "|", "-", ">") /\ ~Latex(line, p, {"mapsto", "leq", "in"})
        /\ ~Latex(line, p, Cas!Spelled) /\ ~Single(line, p, r) /\ ~Single(line, p, z)
    BY <1>1, <2>1, <2>2 DEF LeanMethod, CasMethod, Pair, Triple, Latex, Single
  <2>4. r = [end |-> Lean!IDENT(line, p), style |-> LeanStyle(words, LeanName(line, p))]
    BY <1>5, <1>6, <2>3, Zenon DEF LeanPick
  <2>5. z = [end |-> Cas!IDENT(line, p), style |-> CasStyle(CasName(line, p))]
    BY <1>1, <1>5, <1>6, <2>3, Zenon DEF CasPick
  <2>6. z.end = r.end /\ z.style = CasStyle(CasName(line, p)) /\ r.style = LeanStyle(words, CasName(line, p))
    BY <1>2, <1>3, <2>4, <2>5
  <2> QED BY <2>6, StyleMirrors
<1>7. CASE LeanMethod(line, p)
  <2>1. line[p] = "." /\ CasMethod(line, p)
    BY <1>3, <1>7 DEF LeanMethod
  <2>2. "." \notin Starts \cup {Blank, Backslash} /\ "." \notin Lean!Alphabetic
    BY StartsIs, MarksDiffer DEF Starts
  <2>3. ~HasCommon(line, p) /\ line[p] \notin Starts /\ line[p] \notin Lean!Alphabetic
    BY <2>1, <2>2 DEF HasCommon, Lean!Digits, Pair
  <2>4. ~Pair(line, p, "=", ">") /\ ~Triple(line, p, "|", "-", ">")
        /\ ~Latex(line, p, {"mapsto", "leq", "in"}) /\ ~Latex(line, p, Cas!Spelled)
    BY <1>1, <2>1 DEF Pair, Triple, Latex
  <2>5. r = [end |-> Lean!IDENT(line, p + 1), style |-> "methodName"]
    BY <1>5, <1>7, <2>3, <2>4, Zenon DEF LeanPick
  <2>6. z = [end |-> Cas!IDENT(line, p + 1), style |-> "methodName"]
    BY <1>1, <1>5, <2>1, <2>3, <2>4, Zenon DEF CasPick
  <2>7. z.end = r.end /\ z.style = "methodName" /\ r.style = "methodName"
    BY <1>2, <2>5, <2>6
  <2> QED BY <2>7 DEF Mirrors
<1>8. CASE ~HasCommon(line, p) /\ line[p] \notin Starts /\ ~LeanMethod(line, p)
  <2>1. line[p] \notin Lean!Alphabetic
    BY <1>8 DEF Starts
  <2>2. \/ Pair(line, p, "=", ">") /\ r = [end |-> p + 2, style |-> "operator"]
        \/ Single(line, p, r) /\ r.style = "operator" /\ ~Pair(line, p, "=", ">")
    BY <1>5, <1>8, Zenon DEF LeanPick
  <2>3. ~Latex(line, p, {"mapsto", "leq", "in"}) /\ ~Latex(line, p, Cas!Spelled)
    BY <1>1 DEF Latex
  <2>4. \/ Triple(line, p, "|", "-", ">") /\ z = [end |-> p + 3, style |-> "operator"]
        \/ Single(line, p, z) /\ z.style = IF line[p] = "oo" THEN "atom" ELSE "operator"
    BY <1>1, <1>3, <1>5, <1>8, <2>1, <2>3, Zenon DEF CasPick
  <2>5. CASE Triple(line, p, "|", "-", ">") /\ z = [end |-> p + 3, style |-> "operator"]
    <3>1. ~Pair(line, p, "=", ">")
      BY <2>5 DEF Triple, Pair
    <3>2. r.end = p + 1
      BY <2>2, <3>1 DEF Single
    <3> QED BY <2>5, <3>2
  <2>6. CASE Single(line, p, z) /\ z.style = IF line[p] = "oo" THEN "atom" ELSE "operator"
    <3>1. z.end = p + 1
      BY <2>6 DEF Single
    <3>2. CASE Pair(line, p, "=", ">")
      <4>1. line[p] = "="
        BY <3>2 DEF Pair
      <4>2. r.end = p + 2 /\ z.style = "operator"
        BY <2>2, <2>6, <3>2, <4>1
      <4> QED BY <3>1, <3>2, <4>2
    <3>3. CASE ~Pair(line, p, "=", ">")
      <4>1. r.end = p + 1 /\ r.style = "operator"
        BY <2>2, <3>3 DEF Single
      <4>2. \A k \in p .. (p + 1) - 1 : k = p
        BY <1>0
      <4>3. \A k \in p .. r.end - 1 : Mirrors(z.style, r.style, line[k])
        BY <2>6, <4>1, <4>2 DEF Mirrors
      <4> QED BY <3>1, <4>1, <4>3
    <3> QED BY <3>2, <3>3
  <2> QED BY <2>4, <2>5, <2>6
<1> QED BY <1>4, <1>6, <1>7, <1>8

\* A line not read yet.
LEMMA TraceStarts ==
  ASSUME NEW d, NEW words, NEW line, NEW row, NEW s \in PStates
  PROVE  Traced(d, words, line, s, row, 1, s)
<1> DEFINE T == {1}
           st == [y \in T |-> s]
<1>1. T \subseteq 1 .. 1 /\ 1 \in T /\ st[1] = s /\ \A y \in T : y = 1
  OBVIOUS
<1> HIDE DEF T, st
<1>2. Trace(d, words, line, s, row, 1, s, T, st)
  BY <1>1 DEF Trace
<1> QED BY <1>2 DEF Traced

\* Every call of token() goes on with the trace.
LEMMA TraceGoesOn ==
  ASSUME NEW d \in Dialects, NEW words, NEW line \in Seq(STRING), NEW p \in 1 .. Len(line),
         NEW s \in PStates, NEW r \in CallOf(d, words, line, p, s), NEW s0, NEW row, NEW new,
         Traced(d, words, line, s0, row, p, s), \A k \in 1 .. p - 1 : new[k] = row[k],
         \A k \in p .. r.pos - 1 : new[k] = r.style
  PROVE  Traced(d, words, line, s0, new, r.pos, StateOf(r))
<1> DEFINE e == r.pos
<1>0. Len(line) \in Nat /\ p \in Nat /\ p > 0 /\ p <= Len(line)
  OBVIOUS
<1>1. e \in p + 1 .. Len(line) + 1 /\ StateOf(r) \in PStates
  BY TokenSplits, Zenon
<1>2. PICK T, st : Trace(d, words, line, s0, row, p, s, T, st)
  BY DEF Traced
<1>3. T \subseteq 1 .. p /\ 1 \in T /\ st[1] = s0
      /\ \A t \in T : st[t] \in PStates /\ ((t = p /\ st[t] = s) \/ Steps(d, words, line, row, T, st, t))
  BY <1>2 DEF Trace
<1> DEFINE Z == T \cup {e}
           sz == [y \in Z |-> IF y = e THEN StateOf(r) ELSE st[y]]
<1>4. e \notin T /\ Z \subseteq 1 .. e /\ 1 \in Z /\ T \subseteq Z /\ e \in Z
  <2>1. e \in Nat /\ p < e
    BY <1>0, <1>1
  <2> HIDE DEF e
  <2>2. \A y \in T : y \in 1 .. p
    BY <1>3
  <2>3. e \notin T
    BY <1>0, <2>1, <2>2
  <2>4. 1 .. p \subseteq 1 .. e /\ e \in 1 .. e
    BY <1>0, <2>1
  <2> QED BY <1>3, <2>3, <2>4
<1>5. sz[e] = StateOf(r) /\ \A y \in T : sz[y] = st[y]
  <2> HIDE DEF e
  <2> QED BY <1>4
<1> HIDE DEF sz
<1>6. ASSUME NEW t \in T PROVE Steps(d, words, line, new, Z, sz, t)
  <2>1. CASE Steps(d, words, line, row, T, st, t)
    <3>1. PICK q \in CallOf(d, words, line, t, st[t]) :
            q.pos \in T /\ st[q.pos] = StateOf(q) /\ \A k \in t .. q.pos - 1 : row[k] = q.style
      BY <2>1, Zenon DEF Steps
    <3>2. q \in CallOf(d, words, line, t, sz[t])
      BY <1>5
    <3>3. q.pos \in 1 .. p /\ t \in 1 .. p
      BY <1>3, <3>1
    <3>4. \A k \in t .. q.pos - 1 : new[k] = q.style
      BY <1>0, <3>1, <3>3
    <3>5. q.pos \in Z /\ sz[q.pos] = StateOf(q) /\ t <= Len(line)
      BY <1>4, <1>5, <2>1, <3>1 DEF Steps
    <3> QED BY <3>2, <3>4, <3>5, Zenon DEF Steps
  <2>2. CASE t = p /\ st[t] = s
    <3>1. r \in CallOf(d, words, line, t, sz[t])
      BY <1>5, <2>2
    <3>2. \A k \in t .. r.pos - 1 : new[k] = r.style
      BY <2>2
    <3>3. r.pos \in Z /\ sz[r.pos] = StateOf(r) /\ t <= Len(line)
      BY <1>0, <1>4, <1>5, <2>2
    <3> QED BY <3>1, <3>2, <3>3, Zenon DEF Steps
  <2> QED BY <1>3, <2>1, <2>2
<1>7. \A y \in Z : sz[y] \in PStates
  BY <1>1, <1>3, <1>5
<1>8. sz[1] = s0
  BY <1>3, <1>5
<1> HIDE DEF e
<1>9. Trace(d, words, line, s0, new, e, StateOf(r), Z, sz)
  BY <1>4, <1>5, <1>6, <1>7, <1>8 DEF Trace
<1> HIDE DEF Z
<1> QED BY <1>9 DEF Traced, e

\* lean4.ts takes the -> of a |-> whole.
LEMMA ArrowPick ==
  ASSUME NEW words, NEW line \in Seq(STRING), NEW p \in 1 .. Len(line), Pair(line, p, "-", ">"), NEW c,
         LeanPick(words, line, p, c)
  PROVE  c.end = p + 2
<1>1. HasCommon(line, p)
  BY DEF HasCommon
<1>2. Common(line, p, c)
  BY <1>1, CommonFirst
<1> DEFINE z == [end |-> p + 2, style |-> "operator"]
<1>3. Common(line, p, z)
  BY Zenon DEF Common
<1>4. c = z
  <2> HIDE DEF z
  <2> QED BY <1>2, <1>3, CommonSame
<1> QED BY <1>4

\* casdsl.ts takes the > of a => alone.
LEMMA AnglePick ==
  ASSUME NEW line \in Seq(STRING), NEW p \in 1 .. Len(line), line[p] = ">", NEW c, CasPick(line, p, c)
  PROVE  c.end = p + 1 /\ c.style = "operator"
<1>1. ">" \notin {Blank, Backslash} /\ ">" \notin Starts
  BY StartsIs, MarksDiffer
<1>2. line[p] \notin Lean!Alphabetic
  BY <1>1 DEF Starts
<1>3. ~Common(line, p, c)
  BY <1>1 DEF Common, Pair, Lean!Digits
<1>4. ~Latex(line, p, {"mapsto", "leq", "in"}) /\ ~Latex(line, p, Cas!Spelled) /\ ~CasMethod(line, p)
      /\ ~Triple(line, p, "|", "-", ">") /\ ~Triple(line, p, ".", ".", ".")
  BY <1>1 DEF Latex, CasMethod, Triple
<1>5. Single(line, p, c) /\ c.style = IF line[p] = "oo" THEN "atom" ELSE "operator"
  BY <1>2, <1>3, <1>4, Zenon DEF CasPick
<1> QED BY <1>5 DEF Single

\* Two traces over a plain line, one of each editor, from the same state: after |-> and
\* => they meet again, so there is no greatest position before the end at which they are
\* together. All styles are mirrored.
LEMMA TraceEnds ==
  ASSUME NEW words \in SUBSET Defaults, NEW line \in Seq(STRING), Plain(line),
         NEW s0, NEW s, NEW t, NEW own, NEW row,
         Traced("lean4", words, line, s0, own, Len(line) + 1, s),
         Traced("casdsl", words, line, s0, row, Len(line) + 1, t)
  PROVE  s = t /\ \A k \in 1 .. Len(line) : Mirrors(row[k], own[k], line[k])
<1> DEFINE n == Len(line)
<1>0. n \in Nat /\ n + 1 \in Nat /\ "lean4" \in Dialects /\ "casdsl" \in Dialects
  BY DEF Dialects
<1> HIDE DEF n
<1>1. PICK T, st : Trace("lean4", words, line, s0, own, n + 1, s, T, st)
  BY DEF Traced, n
<1>2. PICK Z, sz : Trace("casdsl", words, line, s0, row, n + 1, t, Z, sz)
  BY DEF Traced, n
<1>3. /\ T \subseteq 1 .. n + 1 /\ 1 \in T /\ st[1] = s0
      /\ \A y \in T : st[y] \in PStates
                      /\ ((y = n + 1 /\ st[y] = s) \/ Steps("lean4", words, line, own, T, st, y))
  BY <1>1 DEF Trace
<1>4. /\ Z \subseteq 1 .. n + 1 /\ 1 \in Z /\ sz[1] = s0
      /\ \A y \in Z : sz[y] \in PStates
                      /\ ((y = n + 1 /\ sz[y] = t) \/ Steps("casdsl", words, line, row, Z, sz, y))
  BY <1>2 DEF Trace
<1> DEFINE C == {y \in T \cap Z : st[y] = sz[y] /\ \A k \in 1 .. y - 1 : Mirrors(row[k], own[k], line[k])}
<1>5. C \subseteq 0 .. n + 1 /\ 1 \in C
  <2>1. C \subseteq T /\ 1 .. n + 1 \subseteq 0 .. n + 1
    BY <1>0
  <2>2. \A k \in 1 .. 1 - 1 : FALSE
    OBVIOUS
  <2>3. 1 \in C
    BY <1>3, <1>4, <2>2
  <2> HIDE DEF C
  <2> QED BY <1>3, <2>1, <2>3
<1>6. PICK m \in C : \A y \in C : y <= m
  <2> HIDE DEF C
  <2> QED BY <1>0, <1>5, Greatest
<1>7. /\ m \in T /\ m \in Z /\ m \in 1 .. n + 1 /\ m \in Nat /\ st[m] = sz[m]
      /\ \A k \in 1 .. m - 1 : Mirrors(row[k], own[k], line[k])
  BY <1>0, <1>3, <1>6
<1> DEFINE u == st[m]
<1>8. ASSUME NEW e \in T \cap Z, st[e] = sz[e], e > m,
             \A k \in m .. e - 1 : Mirrors(row[k], own[k], line[k])
      PROVE  FALSE
  <2>1. e \in 1 .. n + 1
    BY <1>3
  <2>2. \A k \in 1 .. e - 1 : k \in 1 .. m - 1 \/ k \in m .. e - 1
    BY <1>7, <2>1
  <2>3. e \in C
    BY <1>7, <1>8, <2>2
  <2> HIDE DEF C
  <2> QED BY <1>6, <1>7, <1>8, <2>1, <2>3
<1> HIDE DEF C
<1>9. u \in PStates /\ u.depth \in Nat
  BY <1>3, <1>7, PStateIs DEF ParserState
<1>10. ASSUME m <= n PROVE FALSE
  <2>1. m \in 1 .. Len(line)
    BY <1>7, <1>10 DEF n
  <2>2. PICK r \in CallOf("lean4", words, line, m, u) :
          r.pos \in T /\ st[r.pos] = StateOf(r) /\ \A k \in m .. r.pos - 1 : own[k] = r.style
    <3>1. Steps("lean4", words, line, own, T, st, m)
      BY <1>0, <1>3, <1>7, <1>10
    <3> QED BY <3>1, Zenon DEF Steps
  <2>3. PICK z \in CallOf("casdsl", words, line, m, u) :
          z.pos \in Z /\ sz[z.pos] = StateOf(z) /\ \A k \in m .. z.pos - 1 : row[k] = z.style
    <3>1. Steps("casdsl", words, line, row, Z, sz, m)
      BY <1>0, <1>4, <1>7, <1>10
    <3> QED BY <1>7, <3>1, Zenon DEF Steps
  <2> HIDE DEF u
  <2>4. /\ r.pos \in m + 1 .. Len(line) + 1 /\ StateOf(r) \in PStates
        /\ u.depth > 0 \/ Opening(line, m) =>
             r = Cas!token(line, m, u) /\ r.style \in {"comment", "docComment", "string"}
        /\ u.depth = 0 /\ ~Opening(line, m) =>
             StateOf(r) = u /\ PickOf("lean4", words, line, m, [end |-> r.pos, style |-> r.style])
    BY <1>0, <1>9, <2>1, TokenSplits, Zenon
  <2>5. /\ z.pos \in m + 1 .. Len(line) + 1 /\ StateOf(z) \in PStates
        /\ u.depth > 0 \/ Opening(line, m) =>
             z = Cas!token(line, m, u) /\ z.style \in {"comment", "docComment", "string"}
        /\ u.depth = 0 /\ ~Opening(line, m) =>
             StateOf(z) = u /\ PickOf("casdsl", words, line, m, [end |-> z.pos, style |-> z.style])
    BY <1>0, <1>9, <2>1, TokenSplits, Zenon
  <2>6. CASE u.depth > 0 \/ Opening(line, m)
    <3>1. r = z /\ z.style \in {"comment", "docComment", "string"}
      BY <2>4, <2>5, <2>6
    <3>2. \A k \in m .. r.pos - 1 : Mirrors(row[k], own[k], line[k])
      <4>1. \A k \in m .. r.pos - 1 : row[k] = z.style /\ own[k] = z.style
        BY <2>2, <2>3, <3>1
      <4> QED BY <3>1, <4>1 DEF Mirrors
    <3>3. r.pos > m
      BY <1>7, <2>4
    <3> QED BY <1>8, <2>2, <2>3, <3>1, <3>2, <3>3
  <2>7. CASE u.depth = 0 /\ ~Opening(line, m)
    <3> DEFINE a == [end |-> r.pos, style |-> r.style]
               b == [end |-> z.pos, style |-> z.style]
    <3>1. StateOf(r) = u /\ StateOf(z) = u /\ PickOf("lean4", words, line, m, a)
          /\ PickOf("casdsl", words, line, m, b)
      BY <2>4, <2>5, <2>7
    <3>2. a.end = r.pos /\ a.style = r.style /\ b.end = z.pos /\ b.style = z.style
      OBVIOUS
    <3> HIDE DEF a, b
    <3>3. PICK extra \in words : LeanPick(Lean!CORE_KEYWORDS \cup extra, line, m, a)
      BY <3>1, Zenon DEF PickOf
    <3>4. CasPick(line, m, b)
      BY <3>1 DEF PickOf
    <3>5. \/ b.end = a.end /\ \A k \in m .. a.end - 1 : Mirrors(b.style, a.style, line[k])
          \/ /\ Triple(line, m, "|", "-", ">") /\ a.end = m + 1
             /\ b = [end |-> m + 3, style |-> "operator"]
          \/ /\ Pair(line, m, "=", ">") /\ a.end = m + 2 /\ b.end = m + 1 /\ b.style = "operator"
      BY <2>1, <3>3, <3>4, PicksMirror
    <3>6. CASE b.end = a.end /\ \A k \in m .. a.end - 1 : Mirrors(b.style, a.style, line[k])
      <4>1. r.pos = z.pos /\ r.pos \in T \cap Z /\ st[r.pos] = sz[r.pos]
        BY <2>2, <2>3, <3>1, <3>2, <3>6
      <4>2. r.pos > m
        BY <1>7, <2>4
      <4>3. \A k \in m .. r.pos - 1 : Mirrors(row[k], own[k], line[k])
        BY <2>2, <2>3, <3>2, <3>6, <4>1
      <4> QED BY <1>8, <4>1, <4>2, <4>3
    <3>7. CASE /\ Triple(line, m, "|", "-", ">") /\ a.end = m + 1
               /\ b = [end |-> m + 3, style |-> "operator"]
      <4>1. m + 2 <= n /\ line[m + 1] = "-" /\ line[m + 2] = ">"
        BY <3>7 DEF Triple, n
      <4>2. m + 1 \in 1 .. Len(line) /\ m + 1 # n + 1
        BY <1>0, <1>7, <4>1 DEF n
      <4>3. m + 1 \in T /\ st[m + 1] = u
        BY <2>2, <3>1, <3>2, <3>7
      <4>4. PICK q \in CallOf("lean4", words, line, m + 1, u) :
              q.pos \in T /\ st[q.pos] = StateOf(q) /\ \A k \in m + 1 .. q.pos - 1 : own[k] = q.style
        <5>1. Steps("lean4", words, line, own, T, st, m + 1)
          BY <1>3, <4>2, <4>3
        <5> QED BY <4>3, <5>1, Zenon DEF Steps
      <4>5. ~Opening(line, m + 1) /\ Pair(line, m + 1, "-", ">")
        <5>1. m + 1 + 1 = m + 2 /\ m + 2 <= Len(line)
          BY <1>7, <4>1 DEF n
        <5>2. ~Dashes(line, m + 1) /\ Pair(line, m + 1, "-", ">")
          BY <4>1, <5>1 DEF Dashes, Pair
        <5> QED BY <4>1, <4>2, <5>2, NotOpening
      <4>6. StateOf(q) = u /\ PickOf("lean4", words, line, m + 1, [end |-> q.pos, style |-> q.style])
        BY <1>0, <1>9, <2>7, <4>2, <4>5, TokenSplits, Zenon
      <4> DEFINE c == [end |-> q.pos, style |-> q.style]
      <4>7. c.end = q.pos
        OBVIOUS
      <4>8. PickOf("lean4", words, line, m + 1, c)
        BY <4>6
      <4> HIDE DEF c
      <4>9. \E x \in words : LeanPick(Lean!CORE_KEYWORDS \cup x, line, m + 1, c)
        BY <4>8, Zenon DEF PickOf
      <4>10. q.pos = m + 3
        <5>1. c.end = m + 1 + 2
          BY <4>2, <4>5, <4>9, ArrowPick
        <5> QED BY <1>7, <4>7, <5>1
      <4>11. z.pos = m + 3 /\ z.style = "operator"
        BY <3>2, <3>7
      <4>12. m + 3 \in T \cap Z /\ st[m + 3] = sz[m + 3] /\ m + 3 > m
        BY <1>7, <2>3, <3>1, <4>4, <4>6, <4>10, <4>11
      <4>13. \A k \in m .. (m + 3) - 1 : Mirrors(row[k], own[k], line[k])
        <5>1. \A k \in m .. (m + 3) - 1 : row[k] = "operator"
          BY <2>3, <4>11
        <5> QED BY <5>1 DEF Mirrors
      <4> QED BY <1>8, <4>12, <4>13
    <3>8. CASE Pair(line, m, "=", ">") /\ a.end = m + 2 /\ b.end = m + 1 /\ b.style = "operator"
      <4>1. m + 1 <= n /\ line[m + 1] = ">"
        BY <3>8 DEF Pair, n
      <4>2. m + 1 \in 1 .. Len(line) /\ m + 1 # n + 1
        BY <1>0, <1>7, <4>1 DEF n
      <4>3. m + 1 \in Z /\ sz[m + 1] = u
        BY <2>3, <3>1, <3>2, <3>8
      <4>4. PICK q \in CallOf("casdsl", words, line, m + 1, u) :
              q.pos \in Z /\ sz[q.pos] = StateOf(q) /\ \A k \in m + 1 .. q.pos - 1 : row[k] = q.style
        <5>1. Steps("casdsl", words, line, row, Z, sz, m + 1)
          BY <1>4, <4>2, <4>3
        <5> QED BY <4>3, <5>1, Zenon DEF Steps
      <4>5. ~Opening(line, m + 1)
        BY <4>1, <4>2, MarksDiffer, NotOpening
      <4>6. StateOf(q) = u /\ PickOf("casdsl", words, line, m + 1, [end |-> q.pos, style |-> q.style])
        BY <1>0, <1>9, <2>7, <4>2, <4>5, TokenSplits, Zenon
      <4> DEFINE c == [end |-> q.pos, style |-> q.style]
      <4>7. c.end = q.pos /\ c.style = q.style
        OBVIOUS
      <4>8. PickOf("casdsl", words, line, m + 1, c)
        BY <4>6
      <4> HIDE DEF c
      <4>9. CasPick(line, m + 1, c)
        BY <4>8 DEF PickOf
      <4>10. q.pos = m + 2 /\ q.style = "operator"
        <5>1. c.end = m + 1 + 1 /\ c.style = "operator"
          BY <4>1, <4>2, <4>9, AnglePick
        <5> QED BY <1>7, <4>7, <5>1
      <4>11. r.pos = m + 2
        BY <3>2, <3>8
      <4>12. m + 2 \in T \cap Z /\ st[m + 2] = sz[m + 2] /\ m + 2 > m
        BY <1>7, <2>2, <3>1, <4>4, <4>6, <4>10, <4>11
      <4>13. \A k \in m .. (m + 2) - 1 : Mirrors(row[k], own[k], line[k])
        <5>1. row[m] = "operator" /\ row[m + 1] = "operator"
          <6>1. m \in m .. z.pos - 1 /\ m + 1 \in m + 1 .. q.pos - 1
            BY <1>7, <3>2, <3>8, <4>10
          <6> QED BY <2>3, <3>2, <3>8, <4>4, <4>10, <6>1
        <5>2. \A k \in m .. (m + 2) - 1 : k = m \/ k = m + 1
          BY <1>7
        <5>3. \A k \in m .. (m + 2) - 1 : row[k] = "operator"
          BY <5>1, <5>2
        <5> QED BY <5>3 DEF Mirrors
      <4> QED BY <1>8, <4>12, <4>13
    <3> QED BY <3>5, <3>6, <3>7, <3>8
  <2> QED BY <1>9, <2>6, <2>7 DEF u
<1>11. m = n + 1
  BY <1>0, <1>7, <1>10
<1>12. s = t
  <2>1. ~Steps("lean4", words, line, own, T, st, m) /\ ~Steps("casdsl", words, line, row, Z, sz, m)
    BY <1>0, <1>11 DEF Steps, n
  <2> QED BY <1>3, <1>4, <1>7, <2>1
<1> QED BY <1>0, <1>7, <1>11, <1>12 DEF n

----------------------------------------------------------------------------
(* What has been read of a text *)

\* A line not read yet.
LEMMA ReadStarts ==
  ASSUME NEW d, NEW words, NEW line, NEW row, NEW s \in PStates
  PROVE  Read(d, words, line, s, row, 1, s)
BY TraceStarts, WalkStarts DEF Read

\* A call of token() reads on.
LEMMA ReadGoesOn ==
  ASSUME NEW d \in Dialects, NEW words, NEW line \in Seq(STRING), NEW p \in 1 .. Len(line),
         NEW s \in PStates, NEW r \in CallOf(d, words, line, p, s), NEW s0, NEW row, NEW new,
         Read(d, words, line, s0, row, p, s), \A k \in 1 .. p - 1 : new[k] = row[k],
         \A k \in p .. r.pos - 1 : new[k] = r.style
  PROVE  Read(d, words, line, s0, new, r.pos, StateOf(r))
<1>1. Traced(d, words, line, s0, row, p, s)
  BY Zenon DEF Read
<1>2. Traced(d, words, line, s0, new, r.pos, StateOf(r))
  BY <1>1, TraceGoesOn
<1>3. ASSUME Comparable(line) PROVE Walked(line, s0, new, r.pos, StateOf(r))
  <2>1. Walked(line, s0, row, p, s)
    BY <1>3, Zenon DEF Read
  <2> QED BY <1>3, <2>1, WalkGoesOn
<1> QED BY <1>2, <1>3, Zenon DEF Read

\* Before anything is typed.
LEMMA InitRead == Init => ReadInv
<1> SUFFICES ASSUME Init PROVE ReadInv
  OBVIOUS
<1>1. text = <<>> /\ \A d \in Dialects : at[d] = [line |-> 1, pos |-> 1, depth |-> 0, doc |-> FALSE]
  BY DEF Init
<1> QED BY <1>1 DEF ReadInv

\* A text typed after the settings are loaded; nothing of it has been read.
LEMMA TypeRead ==
  ASSUME NEW t \in Texts, EditInv, ReadInv, text = <<>>, lean # {}, Type(t)
  PROVE  ReadInv'
<1>1. t \in Seq(Seq(STRING)) /\ t # <<>>
  BY CellViewAssumption
<1>2. text' = t /\ at' = at /\ lean' = lean
  BY DEF Type
<1>3. ASSUME NEW d \in Dialects PROVE \E h : History(d, h)'
  <2>1. at'[d] = AtStart
    BY <1>2 DEF EditInv
  <2>2. Len(t) \in Nat /\ Len(t) # 0
    BY <1>1
  <2>3. at'[d].line = 1 /\ at'[d].pos = 1 /\ StateOf(at'[d]) = Begun /\ ~(1 > Len(t))
    BY <2>1, <2>2 DEF AtStart, StateOf, Begun
  <2>4. Begun \in PStates
    BY DEF Begun, PStates
  <2> DEFINE h == [l \in {1} |-> Begun]
  <2>5. h[1] = Begun
    OBVIOUS
  <2> HIDE DEF h
  <2>6. Read(d, lean', text'[1], h[1], paint'[d][1], 1, Begun)
    BY <2>4, <2>5, ReadStarts
  <2>7. History(d, h)'
    BY <1>2, <2>3, <2>5, <2>6 DEF History
  <2> QED BY <2>7
<1> QED BY <1>2, <1>3 DEF ReadInv

\* An editor that has not moved keeps its history.
LEMMA HistorySame ==
  ASSUME NEW d \in Dialects, NEW h, History(d, h), lean' = lean, text' = text,
         at'[d] = at[d], paint'[d] = paint[d]
  PROVE  History(d, h)'
BY DEF History

\* A call of token() extends the history of its editor (CodeMirror calls it at the
\* position where the last call ended).
LEMMA TokenRead ==
  ASSUME NEW d \in Dialects, EditInv, ReadInv, Token(d)
  PROVE  ReadInv'
<1> DEFINE l == at[d].line
           p == at[d].pos
           s == StateOf(at[d])
<1>1. PICK r \in CallToken(d) :
        LET painted == [k \in 1 .. r.pos - at[d].pos |-> r.style]
        IN /\ at' = [at EXCEPT ![d] = [line |-> @.line, pos |-> r.pos, depth |-> r.depth, doc |-> r.doc]]
           /\ paint' = [paint EXCEPT ![d][at[d].line] = @ \o painted]
  BY Zenon DEF Token
<1> DEFINE painted == [k \in 1 .. r.pos - p |-> r.style]
           new == [line |-> l, pos |-> r.pos, depth |-> r.depth, doc |-> r.doc]
<1>2. l \in DOMAIN text /\ p \in 1 .. Len(text[l]) /\ TokenOK(text[l], p, r)
  BY CallTokenOK DEF Token
<1>3. text # <<>> /\ text' = text /\ lean' = lean
  BY DEF Token, Turn
<1>4. Len(text) \in Nat /\ DOMAIN text = 1 .. Len(text) /\ text[l] \in Seq(STRING) /\ Len(text[l]) \in Nat
  BY <1>2, <1>3, TextIs
<1>5. /\ at'[d] = new /\ paint'[d] = [paint[d] EXCEPT ![l] = @ \o painted]
      /\ \A e \in Dialects : e # d => at'[e] = at[e] /\ paint'[e] = paint[e]
  BY <1>1 DEF EditInv
<1>6. EditorOK(d) /\ DOMAIN paint[d] = DOMAIN text
  BY <1>3 DEF EditInv, EditorOK
<1>7. s \in PStates /\ r \in CallOf(d, lean, text[l], p, s)
  <2>1. s \in PStates
    BY <1>6, PStateIs DEF EditorOK
  <2>2. r \in CallOf(d, lean, text[l], p, s)
    BY Zenon DEF CallToken, CallOf, StateOf
  <2> QED BY <2>1, <2>2
<1>8. r.pos \in p + 1 .. Len(text[l]) + 1 /\ r.style \in Styles
  BY <1>2 DEF TokenOK
<1> DEFINE old == paint[d][l]
<1>9. old \in Seq(Styles) /\ Len(old) = p - 1
  <2>1. LineOK(d, l) /\ l \in Nat
    BY <1>2, <1>4, <1>6 DEF EditorOK
  <2>2. Extent(at[d], l) = p - 1
    BY <2>1 DEF Extent
  <2> QED BY <2>1, <2>2 DEF LineOK
<1>10. painted \in Seq(Styles) /\ Len(painted) = r.pos - p /\ \A k \in 1 .. r.pos - p : painted[k] = r.style
  BY <1>2, <1>4, <1>8
<1>11. new.line = l /\ new.pos = r.pos /\ StateOf(new) = StateOf(r)
       /\ new = [line |-> new.line, pos |-> new.pos, depth |-> new.depth, doc |-> new.doc]
  BY DEF StateOf
<1> HIDE DEF painted, new, old
<1>12. p \in Nat /\ p > 0 /\ r.pos \in Nat /\ r.pos > p /\ l \in Nat /\ l > 0 /\ l <= Len(text)
  <2>1. p \in Nat /\ p > 0 /\ l \in Nat /\ l > 0 /\ l <= Len(text)
    BY <1>2, <1>4
  <2> HIDE DEF l, p
  <2> QED BY <1>4, <1>8, <2>1
<1>13. paint'[d][l] = old \o painted
  BY <1>2, <1>5, <1>6 DEF old
<1>14. /\ \A k \in 1 .. p - 1 : (old \o painted)[k] = old[k]
       /\ \A k \in p .. r.pos - 1 : (old \o painted)[k] = r.style
  <2>1. \A k \in 1 .. Len(old) + Len(painted) :
          (old \o painted)[k] = IF k <= Len(old) THEN old[k] ELSE painted[k - Len(old)]
    BY <1>9, <1>10, JoinIs
  <2> HIDE DEF p
  <2>2. Len(old) + Len(painted) = r.pos - 1
    BY <1>9, <1>10, <1>12
  <2>3. ASSUME NEW k \in 1 .. p - 1 PROVE (old \o painted)[k] = old[k]
    <3>1. k \in 1 .. r.pos - 1 /\ k <= p - 1
      BY <1>12
    <3> QED BY <1>9, <2>1, <2>2, <3>1
  <2>4. ASSUME NEW k \in p .. r.pos - 1 PROVE (old \o painted)[k] = r.style
    <3>1. k \in 1 .. r.pos - 1 /\ ~(k <= p - 1) /\ k - (p - 1) \in 1 .. r.pos - p
      BY <1>12
    <3> QED BY <1>9, <1>10, <2>1, <2>2, <3>1
  <2> QED BY <2>3, <2>4
<1>15. ASSUME NEW h, History(d, h) PROVE History(d, h)'
  <2>1. Read(d, lean, text[l], h[l], old, p, s)
    BY <1>12, <1>15 DEF History, old
  <2>2. Read(d, lean, text[l], h[l], old \o painted, r.pos, StateOf(r))
    <3>1. text[l] \in Seq(STRING) /\ p \in 1 .. Len(text[l])
      BY <1>2, <1>4
    <3> HIDE DEF l, p, s
    <3> DEFINE line == text[l]
               base == h[l]
               row == old \o painted
    <3>2. /\ line \in Seq(STRING) /\ p \in 1 .. Len(line) /\ s \in PStates
          /\ r \in CallOf(d, lean, line, p, s) /\ Read(d, lean, line, base, old, p, s)
          /\ \A k \in 1 .. p - 1 : row[k] = old[k]
          /\ \A k \in p .. r.pos - 1 : row[k] = r.style
      BY <1>7, <1>14, <2>1, <3>1
    <3> HIDE DEF line, base, row
    <3>3. Read(d, lean, line, base, row, r.pos, StateOf(r))
      BY <3>2, ReadGoesOn, Zenon
    <3> QED BY <3>3 DEF line, base, row
  <2>3. \A m \in 1 .. l - 1 : paint'[d][m] = paint[d][m]
    BY <1>5, <1>12
  <2>4. at'[d].line = l /\ at'[d].pos = r.pos /\ StateOf(at'[d]) = StateOf(r)
    BY <1>5, <1>11
  <2>5. h[1] = Begun /\ \A m \in 1 .. l - 1 :
          Read(d, lean, text[m], h[m], paint[d][m], Len(text[m]) + 1, h[m + 1])
    BY <1>15 DEF History
  <2>6. ~(l > Len(text))
    BY <1>4, <1>12
  <2> HIDE DEF l, p, s
  <2> QED BY <1>3, <1>13, <2>2, <2>3, <2>4, <2>5, <2>6 DEF History
<1>16. ASSUME NEW e \in Dialects PROVE \E h : History(e, h)'
  <2>1. PICK h : History(e, h)
    BY <1>3 DEF ReadInv
  <2>2. CASE e = d
    BY <1>15, <2>1, <2>2
  <2>3. CASE e # d
    <3>1. History(e, h)'
      BY <1>3, <1>5, <2>1, <2>3, HistorySame
    <3> QED BY <3>1
  <2> QED BY <2>2, <2>3
<1>17. ASSUME NEW e \in Dialects
       PROVE  at'[e] = [line |-> at'[e].line, pos |-> at'[e].pos, depth |-> at'[e].depth, doc |-> at'[e].doc]
  <2>1. CASE e = d
    BY <1>5, <1>11, <2>1
  <2>2. CASE e # d
    BY <1>5, <2>2 DEF ReadInv
  <2> QED BY <2>1, <2>2
<1>18. lean' # {}
  BY <1>3 DEF ReadInv
<1> QED BY <1>16, <1>17, <1>18 DEF ReadInv

\* At the end of a line its state becomes that at the start of the next.
LEMMA NextLineRead ==
  ASSUME NEW d \in Dialects, EditInv, ReadInv, NextLine(d)
  PROVE  ReadInv'
<1> DEFINE l == at[d].line
           s == StateOf(at[d])
           new == [at[d] EXCEPT !.line = l + 1, !.pos = 1]
<1>1. /\ text # <<>> /\ text' = text /\ paint' = paint /\ lean' = lean
      /\ ~Finished(d) /\ at[d].pos > Len(text[l])
  BY DEF NextLine, Turn
<1>2. /\ Len(text) \in Nat /\ DOMAIN text = 1 .. Len(text)
      /\ \A m \in DOMAIN text : text[m] \in Seq(STRING) /\ Len(text[m]) \in Nat
  BY <1>1, TextIs
<1>3. EditorOK(d)
  BY <1>1 DEF EditInv
<1>4. l \in 1 .. Len(text) /\ l \in Nat
  BY <1>1, <1>2, <1>3 DEF Finished, EditorOK
<1>5. at'[d] = new /\ \A e \in Dialects : e # d => at'[e] = at[e]
  BY DEF EditInv, NextLine
<1>6. at[d].pos = Len(text[l]) + 1
  BY <1>1, <1>2, <1>3, <1>4 DEF EditorOK
<1>7. s \in PStates
  BY <1>3, PStateIs DEF EditorOK
<1>8. /\ new.line = l + 1 /\ new.pos = 1 /\ StateOf(new) = s
      /\ new = [line |-> new.line, pos |-> new.pos, depth |-> new.depth, doc |-> new.doc]
  <2>1. at[d] = [line |-> at[d].line, pos |-> at[d].pos, depth |-> at[d].depth, doc |-> at[d].doc]
    BY DEF ReadInv
  <2>2. new = [line |-> l + 1, pos |-> 1, depth |-> at[d].depth, doc |-> at[d].doc]
    <3> DEFINE mid == [at[d] EXCEPT !.line = l + 1]
    <3>1. mid = [line |-> l + 1, pos |-> at[d].pos, depth |-> at[d].depth, doc |-> at[d].doc]
      BY <2>1
    <3>2. new = [mid EXCEPT !.pos = 1]
      OBVIOUS
    <3> HIDE DEF mid, new
    <3> QED BY <3>1, <3>2
  <2> HIDE DEF new
  <2> QED BY <2>2 DEF StateOf
<1> HIDE DEF new
<1>9. ASSUME NEW h, History(d, h) PROVE \E g : History(d, g)'
  <2> DEFINE g == [m \in 1 .. l + 1 |-> IF m = l + 1 THEN s ELSE h[m]]
  <2>1. g[l + 1] = s /\ \A m \in 1 .. l : g[m] = h[m]
    BY <1>4
  <2> HIDE DEF g
  <2>2. /\ h[1] = Begun
        /\ \A m \in 1 .. l - 1 : Read(d, lean, text[m], h[m], paint[d][m], Len(text[m]) + 1, h[m + 1])
        /\ Read(d, lean, text[l], h[l], paint[d][l], Len(text[l]) + 1, s)
    BY <1>2, <1>4, <1>6, <1>9 DEF History
  <2> HIDE DEF s
  <2>3. ASSUME NEW m \in 1 .. l
        PROVE  Read(d, lean, text[m], g[m], paint[d][m], Len(text[m]) + 1, g[m + 1])
    <3>1. CASE m = l
      BY <1>4, <2>1, <2>2, <3>1
    <3>2. CASE m # l
      <4>1. m \in 1 .. l - 1 /\ m + 1 \in 1 .. l
        BY <1>4, <3>2
      <4> QED BY <2>1, <2>2, <4>1
    <3> QED BY <3>1, <3>2
  <2>4. Read(d, lean, text[l + 1], g[l + 1], paint[d][l + 1], 1, s)
    BY <1>7, <2>1, ReadStarts
  <2>5. g[1] = Begun
    BY <1>4, <2>1, <2>2
  <2>6. at'[d].line = l + 1 /\ at'[d].pos = 1 /\ StateOf(at'[d]) = s /\ (l + 1) - 1 = l
    BY <1>4, <1>5, <1>8
  <2> HIDE DEF l
  <2>7. \A m \in 1 .. at'[d].line - 1 :
          Read(d, lean', text'[m], g[m], paint'[d][m], Len(text'[m]) + 1, g[m + 1])
    BY <1>1, <2>3, <2>6
  <2>8. ASSUME NEW x, x = g PROVE History(d, x)'
    <3>1. g[at'[d].line] = StateOf(at'[d])
      BY <2>1, <2>6
    <3>2. Read(d, lean', text'[at'[d].line], g[at'[d].line], paint'[d][at'[d].line], at'[d].pos,
               StateOf(at'[d]))
      BY <1>1, <2>4, <2>6
    <3>3. IF at'[d].line > Len(text') THEN g[at'[d].line] = StateOf(at'[d])
          ELSE Read(d, lean', text'[at'[d].line], g[at'[d].line], paint'[d][at'[d].line], at'[d].pos,
                    StateOf(at'[d]))
      BY <3>1, <3>2
    <3>4. /\ x[1] = Begun
          /\ \A m \in 1 .. at'[d].line - 1 :
               Read(d, lean', text'[m], x[m], paint'[d][m], Len(text'[m]) + 1, x[m + 1])
          /\ IF at'[d].line > Len(text') THEN x[at'[d].line] = StateOf(at'[d])
             ELSE Read(d, lean', text'[at'[d].line], x[at'[d].line], paint'[d][at'[d].line], at'[d].pos,
                       StateOf(at'[d]))
      BY <2>5, <2>7, <2>8, <3>3
    <3> QED BY <3>4, Zenon DEF History
  <2> QED BY <2>8
<1>10. ASSUME NEW e \in Dialects PROVE \E h : History(e, h)'
  <2>1. PICK h : History(e, h)
    BY <1>1 DEF ReadInv
  <2>2. CASE e = d
    BY <1>9, <2>1, <2>2
  <2>3. CASE e # d
    <3>1. History(e, h)'
      BY <1>1, <1>5, <2>1, <2>3, HistorySame
    <3> QED BY <3>1
  <2> QED BY <2>2, <2>3
<1>11. ASSUME NEW e \in Dialects
       PROVE  at'[e] = [line |-> at'[e].line, pos |-> at'[e].pos, depth |-> at'[e].depth, doc |-> at'[e].doc]
  <2>1. CASE e = d
    BY <1>5, <1>8, <2>1
  <2>2. CASE e # d
    BY <1>5, <2>2 DEF ReadInv
  <2> QED BY <2>1, <2>2
<1>12. lean' # {}
  BY <1>1 DEF ReadInv
<1> QED BY <1>10, <1>11, <1>12 DEF ReadInv

\* No step undoes a history.
LEMMA NextRead == EditInv /\ ReadInv /\ [Next]_vars => ReadInv'
<1> SUFFICES ASSUME EditInv, ReadInv, [Next]_vars PROVE ReadInv'
  OBVIOUS
<1>1. CASE SettingsLoad \/ \E data \in Payloads : Render(data)
  <2>1. text' = text /\ at' = at
    BY <1>1, Zenon DEF SettingsLoad, Render, editorVars
  <2>2. text = <<>>
    <3>1. CASE SettingsLoad
      <4>1. lean = {}
        BY <3>1 DEF SettingsLoad
      <4> QED BY <4>1 DEF ReadInv
    <3>2. CASE \E data \in Payloads : Render(data)
      BY <3>2 DEF Render
    <3> QED BY <1>1, <3>1, <3>2
  <2> QED BY <2>1, <2>2 DEF ReadInv
<1>2. CASE AtRest \/ UNCHANGED vars
  <2>1. text' = text /\ at' = at /\ paint' = paint /\ lean' = lean
    BY <1>2, Zenon DEF AtRest, vars, editorVars
  <2>2. ASSUME NEW d \in Dialects, NEW h, History(d, h) PROVE History(d, h)'
    BY <2>1, <2>2, HistorySame
  <2> QED BY <2>1, <2>2 DEF ReadInv
<1>3. CASE Highlight
  <2>1. PICK d \in Dialects : Token(d) \/ NextLine(d)
    BY <1>3 DEF Highlight
  <2> QED BY <2>1, TokenRead, NextLineRead
<1>4. CASE text = <<>> /\ lean # {} /\ \E t \in Texts : Type(t)
  BY <1>4, TypeRead
<1> QED BY <1>1, <1>2, <1>3, <1>4, Zenon DEF Next

\* Both invariants hold throughout.
LEMMA ReadsKept == Spec => [](EditInv /\ ReadInv)
<1>1. Init => EditInv /\ ReadInv
  BY InitEdit, InitRead
<1>2. EditInv /\ ReadInv /\ [Next]_vars => EditInv' /\ ReadInv'
  BY NextEdit, NextRead
<1> QED BY <1>1, <1>2, PTL DEF Spec

\* When all is painted both parsers are behind the text, each with its history.
LEMMA BothRead ==
  ASSUME EditInv, ReadInv, Painted
  PROVE  /\ text \in Seq(Seq(STRING)) /\ Len(text) \in Nat /\ DOMAIN text = 1 .. Len(text)
         /\ \A d \in Dialects :
              /\ at[d] = [line |-> Len(text) + 1, pos |-> 1, depth |-> at[d].depth, doc |-> at[d].doc]
              /\ \E h : /\ h[1] = Begun /\ h[Len(text) + 1] = StateOf(at[d])
                        /\ \A l \in 1 .. Len(text) :
                             Read(d, lean, text[l], h[l], paint[d][l], Len(text[l]) + 1, h[l + 1])
<1>1. text # <<>> /\ \A d \in Dialects : at[d].line > Len(text)
  BY DEF Painted, Finished
<1>2. text \in Seq(Seq(STRING)) /\ Len(text) \in Nat /\ DOMAIN text = 1 .. Len(text)
  BY <1>1, TextIs
<1>3. ASSUME NEW d \in Dialects
      PROVE  /\ at[d] = [line |-> Len(text) + 1, pos |-> 1, depth |-> at[d].depth, doc |-> at[d].doc]
             /\ \E h : /\ h[1] = Begun /\ h[Len(text) + 1] = StateOf(at[d])
                       /\ \A l \in 1 .. Len(text) :
                            Read(d, lean, text[l], h[l], paint[d][l], Len(text[l]) + 1, h[l + 1])
  <2>1. EditorOK(d) /\ at[d].line > Len(text)
    BY <1>1 DEF EditInv
  <2>2. at[d].line \in 1 .. Len(text) + 1
        /\ at[d].pos \in 1 .. (IF at[d].line <= Len(text) THEN Len(text[at[d].line]) ELSE 0) + 1
    BY <2>1 DEF EditorOK
  <2>3. at[d].line = Len(text) + 1
    BY <1>2, <2>1, <2>2
  <2>4. at[d].pos = 1
    BY <1>2, <2>1, <2>2, <2>3
  <2>5. at[d] = [line |-> at[d].line, pos |-> at[d].pos, depth |-> at[d].depth, doc |-> at[d].doc]
    BY DEF ReadInv
  <2>6. PICK h : History(d, h)
    BY <1>1 DEF ReadInv
  <2>7. (Len(text) + 1) - 1 = Len(text)
    BY <1>2
  <2>8. /\ h[1] = Begun /\ h[Len(text) + 1] = StateOf(at[d])
        /\ \A l \in 1 .. Len(text) :
             Read(d, lean, text[l], h[l], paint[d][l], Len(text[l]) + 1, h[l + 1])
    BY <2>1, <2>3, <2>6, <2>7 DEF History
  <2> QED BY <2>3, <2>4, <2>5, <2>8
<1> QED BY <1>2, <1>3

\* Histories that begin alike stay alike, line by line, as long as the lines are steady.
LEMMA LinesAgree ==
  ASSUME NEW n \in Nat, NEW g, NEW h, g[1] = h[1], NEW S, Steady(n, g, h, S)
  PROVE  Alike(n, g, h, S)
<1> DEFINE U == {k \in 0 .. n : 1 .. k \subseteq S => g[k + 1] = h[k + 1]}
<1>1. 0 \in U
  OBVIOUS
<1>2. ASSUME NEW m \in 0 .. n, m < n, m \in U PROVE m + 1 \in U
  <2>1. m + 1 \in 0 .. n /\ m + 1 \in 1 .. n /\ 1 .. m \subseteq 1 .. m + 1 /\ m + 1 \in 1 .. m + 1
    BY <1>2
  <2>2. 1 .. m \subseteq S => g[m + 1] = h[m + 1]
    BY <1>2
  <2>3. 1 .. m + 1 \subseteq S => g[m + 1 + 1] = h[m + 1 + 1]
    BY <2>1, <2>2 DEF Steady
  <2> QED BY <2>1, <2>3
<1>3. 0 .. n \subseteq U
  <2> HIDE DEF U
  <2> QED BY <1>1, <1>2, UpTo
<1>4. ASSUME NEW l \in 1 .. n + 1, 1 .. l - 1 \subseteq S PROVE g[l] = h[l]
  <2>1. l - 1 \in 0 .. n /\ (l - 1) + 1 = l
    OBVIOUS
  <2>2. l - 1 \in U
    BY <1>3, <2>1
  <2> QED BY <1>4, <2>1, <2>2
<1> QED BY <1>4 DEF Alike

\* In every text and whatever the settings: where CasDsl is not meant to differ, the two
\* tokenizers agree on what is a comment, a doc comment or a string, over all lines, and
\* end in the same state ("Mirrors casdsl.ts").
THEOREM DialectsRead == Spec => []DialectsAgree
<1>1. EditInv /\ ReadInv => DialectsAgree
  <2> SUFFICES ASSUME EditInv, ReadInv, Painted
               PROVE  /\ \A l \in DOMAIN text : (\A m \in 1 .. l : Comparable(text[m])) =>
                           \A k \in DOMAIN text[l] :
                             Shade(paint["lean4"][l][k]) = Shade(paint["casdsl"][l][k])
                      /\ (\A l \in DOMAIN text : Comparable(text[l])) => at["lean4"] = at["casdsl"]
    BY Zenon DEF DialectsAgree
  <2> DEFINE n == Len(text)
             S == {l \in 1 .. n : Comparable(text[l])}
  <2>1. /\ text \in Seq(Seq(STRING)) /\ n \in Nat /\ DOMAIN text = 1 .. n
        /\ "lean4" \in Dialects /\ "casdsl" \in Dialects
    BY BothRead DEF Dialects
  <2>2. \A l \in 1 .. n : text[l] \in Seq(STRING) /\ DOMAIN text[l] = 1 .. Len(text[l])
    <3>1. \A l \in 1 .. n : text[l] \in Seq(STRING)
      BY <2>1
    <3> QED BY <3>1, SymbolsOf
  <2>3. PICK g : /\ g[1] = Begun /\ g[n + 1] = StateOf(at["lean4"])
                 /\ \A l \in 1 .. n : Read("lean4", lean, text[l], g[l], paint["lean4"][l],
                                           Len(text[l]) + 1, g[l + 1])
    BY <2>1, BothRead
  <2>4. PICK h : /\ h[1] = Begun /\ h[n + 1] = StateOf(at["casdsl"])
                 /\ \A l \in 1 .. n : Read("casdsl", lean, text[l], h[l], paint["casdsl"][l],
                                           Len(text[l]) + 1, h[l + 1])
    BY <2>1, BothRead
  <2>5. /\ at["lean4"] = [line |-> n + 1, pos |-> 1, depth |-> at["lean4"].depth, doc |-> at["lean4"].doc]
        /\ at["casdsl"] = [line |-> n + 1, pos |-> 1, depth |-> at["casdsl"].depth, doc |-> at["casdsl"].doc]
    BY <2>1, BothRead
  <2>6. ASSUME NEW l \in 1 .. n, l \in S, g[l] = h[l]
        PROVE  /\ g[l + 1] = h[l + 1]
               /\ \A k \in 1 .. Len(text[l]) : Shade(paint["lean4"][l][k]) = Shade(paint["casdsl"][l][k])
    <3>1. Walked(text[l], g[l], paint["lean4"][l], Len(text[l]) + 1, g[l + 1])
      BY <2>3, <2>6 DEF Read
    <3>2. Walked(text[l], g[l], paint["casdsl"][l], Len(text[l]) + 1, h[l + 1])
      BY <2>4, <2>6 DEF Read
    <3> QED BY <2>2, <3>1, <3>2, WalkEnds
  <2>7. \A l \in 1 .. n + 1 : 1 .. l - 1 \subseteq S => g[l] = h[l]
    <3> HIDE DEF S, n
    <3>1. Steady(n, g, h, S)
      BY <2>6 DEF Steady
    <3>2. n \in Nat /\ g[1] = h[1]
      BY <2>1, <2>3, <2>4
    <3>3. Alike(n, g, h, S)
      BY <3>1, <3>2, LinesAgree
    <3> QED BY <3>3, Zenon DEF Alike
  <2> HIDE DEF n
  <2>8. ASSUME NEW l \in 1 .. n, \A m \in 1 .. l : Comparable(text[m]),
               NEW k \in DOMAIN text[l]
        PROVE  Shade(paint["lean4"][l][k]) = Shade(paint["casdsl"][l][k])
    <3>1. 1 .. l \subseteq S /\ l \in 1 .. n + 1 /\ 1 .. l - 1 \subseteq S /\ l \in S
      BY <2>1, <2>8
    <3>2. g[l] = h[l]
      BY <2>7, <3>1
    <3> QED BY <2>2, <2>6, <3>1, <3>2
  <2>9. ASSUME \A l \in 1 .. n : Comparable(text[l]) PROVE at["lean4"] = at["casdsl"]
    <3>1. n + 1 \in 1 .. n + 1 /\ 1 .. (n + 1) - 1 \subseteq S
      BY <2>1, <2>9
    <3>2. StateOf(at["lean4"]) = StateOf(at["casdsl"])
      BY <2>3, <2>4, <2>7, <3>1
    <3>3. at["lean4"].depth = at["casdsl"].depth /\ at["lean4"].doc = at["casdsl"].doc
      BY <3>2 DEF StateOf
    <3> QED BY <2>5, <3>3
  <2> QED BY <2>1, <2>8, <2>9
<1> QED BY <1>1, ReadsKept, PTL

\* With the default keywords, or a setting that cannot be read: in the lean4 editor the
\* keywords of a CasDsl cell are keywords and its constants and domains atoms, in every
\* text (lean4.ts:57-61, 171-173).
THEOREM KeywordsRead == Spec => []KeywordsMirrored
<1>1. EditInv /\ ReadInv => KeywordsMirrored
  <2> SUFFICES ASSUME EditInv, ReadInv, Painted, lean \subseteq Defaults,
                      NEW l \in DOMAIN text, \A m \in 1 .. l : Plain(text[m]), NEW k \in DOMAIN text[l]
               PROVE  Mirrors(paint["casdsl"][l][k], paint["lean4"][l][k], text[l][k])
    BY Zenon DEF KeywordsMirrored, Mirrors, Defaults
  <2> DEFINE n == Len(text)
             S == {m \in 1 .. n : Plain(text[m])}
  <2>1. /\ text \in Seq(Seq(STRING)) /\ n \in Nat /\ DOMAIN text = 1 .. n
        /\ "lean4" \in Dialects /\ "casdsl" \in Dialects
    BY BothRead DEF Dialects
  <2>2. \A m \in 1 .. n : text[m] \in Seq(STRING) /\ DOMAIN text[m] = 1 .. Len(text[m])
    <3>1. \A m \in 1 .. n : text[m] \in Seq(STRING)
      BY <2>1
    <3> QED BY <3>1, SymbolsOf
  <2>3. PICK g : /\ g[1] = Begun
                 /\ \A m \in 1 .. n : Read("lean4", lean, text[m], g[m], paint["lean4"][m],
                                           Len(text[m]) + 1, g[m + 1])
    BY <2>1, BothRead
  <2>4. PICK h : /\ h[1] = Begun
                 /\ \A m \in 1 .. n : Read("casdsl", lean, text[m], h[m], paint["casdsl"][m],
                                           Len(text[m]) + 1, h[m + 1])
    BY <2>1, BothRead
  <2>5. ASSUME NEW m \in 1 .. n, m \in S, g[m] = h[m]
        PROVE  /\ g[m + 1] = h[m + 1]
               /\ \A j \in 1 .. Len(text[m]) :
                    Mirrors(paint["casdsl"][m][j], paint["lean4"][m][j], text[m][j])
    <3>1. Traced("lean4", lean, text[m], g[m], paint["lean4"][m], Len(text[m]) + 1, g[m + 1])
      BY <2>3, Zenon DEF Read
    <3>2. Traced("casdsl", lean, text[m], g[m], paint["casdsl"][m], Len(text[m]) + 1, h[m + 1])
      BY <2>4, <2>5, Zenon DEF Read
    <3>3. Plain(text[m]) /\ lean \in SUBSET Defaults /\ text[m] \in Seq(STRING)
      BY <2>2, <2>5
    <3>4. Traced("casdsl", lean, text[m], g[m], paint["casdsl"][m], Len(text[m]) + 1, h[m + 1])
      BY <2>5, <3>2
    <3> DEFINE line == text[m]
               row == paint["casdsl"][m]
               own == paint["lean4"][m]
               base == g[m]
               s == g[m + 1]
               t == h[m + 1]
    <3>5. /\ lean \in SUBSET Defaults /\ line \in Seq(STRING) /\ Plain(line)
          /\ Traced("lean4", lean, line, base, own, Len(line) + 1, s)
          /\ Traced("casdsl", lean, line, base, row, Len(line) + 1, t)
      BY <3>1, <3>3, <3>4
    <3> HIDE DEF line, row, own, base, s, t
    <3>6. s = t /\ \A j \in 1 .. Len(line) : Mirrors(row[j], own[j], line[j])
      BY <3>5, TraceEnds, Zenon
    <3> QED BY <3>6 DEF line, row, own, s, t
  <2>6. \A m \in 1 .. n + 1 : 1 .. m - 1 \subseteq S => g[m] = h[m]
    <3> HIDE DEF S, n
    <3>1. Steady(n, g, h, S)
      BY <2>5 DEF Steady
    <3>2. n \in Nat /\ g[1] = h[1]
      BY <2>1, <2>3, <2>4
    <3>3. Alike(n, g, h, S)
      BY <3>1, <3>2, LinesAgree
    <3> QED BY <3>3, Zenon DEF Alike
  <2>7. 1 .. l \subseteq S /\ l \in 1 .. n + 1 /\ 1 .. l - 1 \subseteq S /\ l \in S /\ l \in 1 .. n
    <3>1. l \in 1 .. n /\ l \in 1 .. n + 1 /\ 1 .. l \subseteq 1 .. n
      BY <2>1
    <3>2. 1 .. l \subseteq S
      BY <3>1
    <3>3. 1 .. l - 1 \subseteq 1 .. l /\ l \in 1 .. l
      BY <3>1
    <3> HIDE DEF S
    <3> QED BY <3>1, <3>2, <3>3
  <2> HIDE DEF n
  <2>8. g[l] = h[l]
    BY <2>6, <2>7
  <2> QED BY <2>2, <2>5, <2>7, <2>8
<1> QED BY <1>1, ReadsKept, PTL
============================================================================
