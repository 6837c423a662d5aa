------------------------------ MODULE MCKernel ------------------------------
(* Instances of Kernel for TLC. *)
EXTENDS Kernel

CONSTANTS c1, c2, i, a, b, blank

Cell(c, src) == [id |-> c, source |-> src]

\* A notebook, an edit of its first cell, a move, an insertion seen backwards
\* (the first cell alone) and a cell made blank.
Edits ==
  {<<Cell(c1, a), Cell(c2, b)>>, <<Cell(c1, b), Cell(c2, b)>>,
   <<Cell(c2, b), Cell(c1, a)>>, <<Cell(c1, a)>>, <<Cell(c1, blank), Cell(c2, b)>>}

OneEdit == {<<Cell(c1, a), Cell(c2, b)>>, <<Cell(c1, b), Cell(c2, b)>>}
NoDocs  == {}
AnyDocs == {<<>>, <<Cell(c1, a)>>, <<Cell(c1, i)>>}

OneInit == {i}
NoInit  == {}

None       == {}
Everything == AllSurprises
Diverging  == {"query_divergence"}
Replaying  == {"query_divergence", "recovery_timeout"}
Striking   == {"restore_interrupt"}
============================================================================
