------------------------------ MODULE CellView ------------------------------
(***************************************************************************)
(* What the JupyterLab plugins show of a cell: its text, painted by the    *)
(* highlighter of the language it is in (index.ts, lean4.ts, casdsl.ts),   *)
(* and the transport path of its output (pathRenderer.ts, pathData.ts).    *)
(*                                                                         *)
(* The same text is shown in two editors, one of each language.  A step of *)
(* an editor is one call of the parser's token(), which CodeMirror repeats *)
(* to the end of every line, carrying the parser's state to the next one.  *)
(***************************************************************************)
EXTENDS PathView, FiniteSets

CONSTANTS
  Texts,       \* texts of a cell: non-empty sequences of lines
  Payloads,    \* outputs of the path MIME type
  Settings     \* values of dslKeywords: sets of words, or NoWords
CONSTANT NoWords  \* a value that is no array of strings

ASSUME CellViewAssumption ==
  /\ Payloads \subseteq Payload \cup {NoObject} /\ NoObject \notin Payload
  /\ Texts \subseteq Seq(Seq(STRING)) \ {<<>>}

Lean == INSTANCE Lean4
Cas  == INSTANCE CasDsl

VARIABLES
  lean,         \* extra keywords of the lean4 language; {} while unregistered
  text,         \* <<>> until something is typed
  at, paint,    \* per editor: line, position and state of its parser; styles
  widget, shown \* children of the output's widget; payload rendered last

editorVars  == <<text, at, paint>>
outputVars  == <<widget, shown>>
vars == <<lean, editorVars, outputVars>>

Dialects == {"lean4", "casdsl"}

\* schema/language.json: the value of a setting that was never touched.
SchemaDefault ==
  {"dx", "Spec", "lim_", "map", "to", "is", "and", "O", "dt", "span_QQ", "let", "assert", "in",
   "prefer"}

Init ==
  /\ lean = {}
  /\ text = <<>> /\ paint = [d \in Dialects |-> <<>>]
  /\ at = [d \in Dialects |-> [line |-> 1, pos |-> 1, depth |-> 0, doc |-> FALSE]]
  /\ widget = <<>> /\ shown = NoObject

----------------------------------------------------------------------------
(* index.ts *)

readKeywords(value) == IF value # NoWords THEN value ELSE Lean!DEFAULT_DSL_KEYWORDS

\* settings.load resolves or rejects, and the language is registered, once for
\* the page: a later change of the setting waits for a reload.
SettingsLoad ==
  /\ lean = {}
  /\ \/ \E value \in Settings \cup {SchemaDefault} : lean' = {readKeywords(value)}
     \/ lean' = {Lean!DEFAULT_DSL_KEYWORDS}
  /\ UNCHANGED <<editorVars, outputVars>>

----------------------------------------------------------------------------
(* The editors *)

\* Text in a lean4 editor stays plain until the language is there.  Editors and
\* output do not meet: each is explored without the other.
Type(t) ==
  /\ text' = t
  /\ paint' = [d \in Dialects |-> [l \in DOMAIN t |-> <<>>]]
  /\ UNCHANGED <<lean, at, outputVars>>

Finished(d) == at[d].line > Len(text)

\* The editors do not meet: one order of their steps stands for all.
Turn(d) == text # <<>> /\ ~Finished(d) /\ (d = "casdsl" => Finished("lean4"))

CallToken(d) ==
  LET line  == text[at[d].line]
      state == [depth |-> at[d].depth, doc |-> at[d].doc]
  IN IF d = "lean4" THEN {Lean!token(extra, line, at[d].pos, state) : extra \in lean}
     ELSE {Cas!token(line, at[d].pos, state)}

Token(d) ==
  /\ Turn(d) /\ at[d].pos <= Len(text[at[d].line])
  /\ \E r \in CallToken(d) :
       LET painted == [k \in 1 .. r.pos - at[d].pos |-> r.style]
       IN /\ at' = [at EXCEPT ![d] = [line |-> @.line, pos |-> r.pos, depth |-> r.depth, doc |-> r.doc]]
          /\ paint' = [paint EXCEPT ![d][at[d].line] = @ \o painted]
  /\ UNCHANGED <<lean, text, outputVars>>

NextLine(d) ==
  /\ Turn(d) /\ at[d].pos > Len(text[at[d].line])
  /\ at' = [at EXCEPT ![d].line = @ + 1, ![d].pos = 1]
  /\ UNCHANGED <<lean, text, paint, outputVars>>

----------------------------------------------------------------------------
(* The output *)

Child(data) == IF IsPath(data) THEN buildPathNode(data) ELSE buildFallbackNode(data)

\* renderModel, each time the output is updated.
Render(data) ==
  /\ text = <<>>
  /\ widget' = <<Child(data)>> /\ shown' = data
  /\ UNCHANGED <<lean, editorVars>>

----------------------------------------------------------------------------
Highlight == \E d \in Dialects : Token(d) \/ NextLine(d)

AtRest == text # <<>> /\ (\A d \in Dialects : Finished(d)) /\ UNCHANGED vars

Next ==
  \/ SettingsLoad \/ Highlight \/ AtRest
  \/ text = <<>> /\ lean # {} /\ widget = <<>> /\ \E t \in Texts : Type(t)
  \/ \E data \in Payloads : Render(data)

Spec == Init /\ [][Next]_vars

\* CodeMirror goes on to the end of the text.
FairSpec == Spec /\ WF_vars(Highlight)

----------------------------------------------------------------------------
(* Properties *)

TypeOK ==
  /\ lean \in {{}} \cup {{readKeywords(value)} : value \in Settings \cup {SchemaDefault, NoWords}}
  /\ \A d \in Dialects :
       /\ at[d].doc \in BOOLEAN /\ (at[d].doc => at[d].depth > 0)
       /\ text # <<>> => \A l \in DOMAIN text :
            Len(paint[d][l]) = IF l < at[d].line THEN Len(text[l])
                               ELSE IF l = at[d].line THEN at[d].pos - 1 ELSE 0
  /\ shown \in Payloads \cup {NoObject}

Shade(style) == IF style \in {"comment", "docComment", "string"} THEN style ELSE "code"

\* Where the languages are meant to differ (casdsl.ts:65-76, 173-189): behind an
\* underscore, a superscript or a LaTeX spelling CasDsl begins a word of its own,
\* so that an apostrophe after it may open a character literal.
Comparable(line) ==
  ~ \E i, j \in DOMAIN line :
      /\ i < j /\ line[j] = "'"
      /\ line[i] \in {"_", "sup2"} \/ (line[i] = "\\" /\ i + 1 < j)
      /\ \A k \in i + 1 .. j - 1 :
           line[k] \in Lean!Alphabetic \cup Lean!Numerals \cup {"_", "'", "!", "?"}

Painted == text # <<>> /\ \A d \in Dialects : Finished(d)

\* The two tokenizers are copies of each other ("Mirrors casdsl.ts"): whatever the
\* text, they agree on what is a comment, a doc comment or a string, also over
\* lines, and so end in the same state.
DialectsAgree ==
  Painted =>
    /\ \A l \in DOMAIN text : (\A m \in 1 .. l : Comparable(text[m])) =>
         \A k \in DOMAIN text[l] :
           Shade(paint["lean4"][l][k]) = Shade(paint["casdsl"][l][k])
    /\ (\A l \in DOMAIN text : Comparable(text[l])) => at["lean4"] = at["casdsl"]

\* No line without the spellings on which the two differ.
Plain(line) ==
  /\ \A k \in DOMAIN line : line[k] \notin {"_", "sup2", "\\"}
  /\ \A k \in DOMAIN line : Lean!After(line, k, <<".", ".", ".">>) = k

\* A CasDsl cell in the lean4 editor looks as it would in its own: with the
\* default setting, and with one that cannot be read, its keywords are keywords
\* and its constants and domains atoms (lean4.ts:57-61, 171-173).
KeywordsMirrored ==
  Painted /\ lean \subseteq {SchemaDefault, Lean!DEFAULT_DSL_KEYWORDS} =>
    \A l \in DOMAIN text : (\A m \in 1 .. l : Plain(text[m])) =>
      \A k \in DOMAIN text[l] :
        LET cas == paint["casdsl"][l][k]
            own == paint["lean4"][l][k]
        IN /\ cas \in {"keyword", "number", "meta", "methodName"} => own = cas
           /\ cas \in {"atom", "typeName"} /\ text[l][k] # "oo" => own = "atom"

\* No text looks like code and is a comment: a mark that opens one is never left
\* among the code, whatever operators and literals surround it.
OpenersPainted ==
  \A d \in Dialects : \A l \in 1 .. IF text = <<>> THEN 0 ELSE at[d].line - 1 :
    \A k \in 1 .. Len(text[l]) - 1 :
      <<text[l][k], text[l][k + 1]>> \in {<<"-", "-">>, <<"/", "-">>} =>
        Shade(paint[d][l][k]) # "code"

\* The chain names the source, every functor in order, and the target, and makes
\* nothing up in between.
ShowsPath(child, path) ==
  LET chain == child.chain
      n     == Len(path.steps)
  IN /\ child.class = "path" /\ child.object.title = <<path.object>>
     /\ Len(chain) = 2 * (IF n = 0 THEN 1 ELSE n) + 1
     /\ chain[1].title = <<path.source>> /\ chain[Len(chain)].title = <<path.target>>
     /\ \A i \in 1 .. n : /\ chain[2 * i].class = "arrow"
                          /\ chain[2 * i].label = <<labelled("step", path.steps[i])>>
     /\ \A i \in 1 .. n - 1 : chain[2 * i + 1].title = <<>>

\* However often an output is updated, and with whatever, its widget shows the
\* last payload and nothing else: the chain of a path, or else the payload itself.
PathShownWhole ==
  widget # <<>> =>
    /\ Len(widget) = 1
    /\ IF IsPath(shown) THEN ShowsPath(widget[1], shown)
       ELSE widget[1].class = "fallback" /\ widget[1].json = shown

\* The tokenizer advances with every call, which CodeMirror insists on: every
\* text is painted to its end.
TextsGetPainted == text # <<>> ~> Painted
=============================================================================
