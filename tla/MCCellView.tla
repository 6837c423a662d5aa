----------------------------- MODULE MCCellView -----------------------------
(* Instances of CellView for TLC. *)
EXTENDS CellView

CONSTANTS Other, Nothing, Malformed

Lines(symbols, n) == UNION {[1 .. k -> symbols] : k \in 0 .. n}

\* Comments over two lines; comments among literals; every symbol with every
\* other; what the two languages read differently.
TwoLines   == {<<l, m>> : l, m \in Lines({"-", "/", "\""}, 3)}
Literals   == Lines({"-", "/", "\"", "\\", "'"}, 4) \cup [1 .. 5 -> {"-", "\"", "\\", "'"}]
Everything == Lines({"-", "/", ">", "|", ".", "'", "7", "#", "_", "sup2", "\\", "oo", ":", "=", " ",
                     "in", "i", "bbN", "foo", "NN", "sorry", "show"}, 2)
Operators  == Lines({"_", "sup2", "'", "|", "-", ">", ".", "in", "\\"}, 3)
Words      == {<<".", w>> : w \in Lean!CORE_KEYWORDS} \cup {<<w>> : w \in Cas!keywords \cup {"prefer"}}
                \cup {<<w>> : w \in Cas!CONSTANT_ATOMS \cup Cas!DOMAIN_TOKENS}

SampleTexts == TwoLines \cup {<<l>> : l \in Literals \cup Everything \cup Operators \cup Words}

SampleNames == {<<"Nb", "Graph">>, <<"G">>, <<"Nb", "">>, <<"">>}
SampleSteps == UNION {[1 .. k -> {<<"Nb", "">>, <<"G">>, Other}] : k \in 0 .. 3} \cup {Other}
SamplePayloads ==
  [object : {<<"G">>, Other}, source : {<<"Nb", "Graph">>}, target : {<<"">>, Other},
   steps : SampleSteps] \cup {Nothing}

SampleSettings == {{"foo", "i"}, Malformed}
=============================================================================
