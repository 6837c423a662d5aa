------------------------------ MODULE PathView ------------------------------
(***************************************************************************)
(* The renderer of transport paths: pathData.ts and the widget of          *)
(* pathRenderer.ts.  A payload is a record of four fields.  A name is the  *)
(* sequence of its dotted components, the last of them "" when it ends in  *)
(* a dot; a field that is no string, or an array that is none of strings,  *)
(* is NotAString.  A payload that is no object at all is NoObject.         *)
(***************************************************************************)
EXTENDS Integers, Sequences

CONSTANTS Names, NotAString, NoObject

ASSUME PathAssumption ==
  /\ \A n \in Names : n \in Seq(STRING) /\ n # <<>>
  /\ NotAString \notin Names

Fields  == Names \cup {NotAString}
Payload == [object : Fields, source : Fields, target : Fields, steps : Seq(Fields) \cup {NotAString}]
Path    == [object : Names, source : Names, target : Names, steps : Seq(Names)]

isStringArray(v) == v # NotAString /\ \A i \in DOMAIN v : v[i] # NotAString

\* parsePath: whether the payload is a path.
IsPath(data) ==
  /\ data # NoObject
  /\ NotAString \notin {data.object, data.source, data.target}
  /\ isStringArray(data.steps)

\* The last component, and the whole name when that is empty.
shortName(name) ==
  LET last == name[Len(name)]
  IN IF last = "" THEN name ELSE <<last>>

\* A span: its text, and the full name as its title.
labelled(cls, full) == [class |-> cls, text |-> shortName(full), title |-> <<full>>]

\* Above the glyph the step, if there is one.
arrow(step) == [class |-> "arrow", label |-> step]

Waypoint == [class |-> "waypoint", text |-> <<"dot">>, title |-> <<>>]

\* Mutant: as many waypoints as functors.
BetweenTrailing(path) ==
  LET n == Len(path.steps)
  IN IF n = 0 THEN <<arrow(<<>>)>>
     ELSE [k \in 1 .. 2 * n |->
             IF k % 2 = 0 THEN Waypoint ELSE arrow(<<labelled("step", path.steps[(k + 1) \div 2])>>)]

\* The functors, and between successive ones an anonymous object.
Between(path) ==
  LET n == Len(path.steps)
  IN IF n = 0 THEN <<arrow(<<>>)>>
     ELSE [k \in 1 .. 2 * n - 1 |->
             IF k % 2 = 0 THEN Waypoint ELSE arrow(<<labelled("step", path.steps[(k + 1) \div 2])>>)]

Chain(path) ==
  <<labelled("node", path.source)>> \o Between(path) \o <<labelled("node", path.target)>>

buildPathNode(path) ==
  [class |-> "path", object |-> labelled("object", path.object), chain |-> Chain(path)]

buildFallbackNode(data) == [class |-> "fallback", json |-> data]
=============================================================================
