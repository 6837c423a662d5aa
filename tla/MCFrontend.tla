----------------------------- MODULE MCFrontend -----------------------------
(* Instances of Frontend for TLC. *)
EXTENDS Frontend

CONSTANTS c1, a, b

A(id, type, src) == [id |-> id, type |-> type, source |-> src]

\* A notebook, an edit of its cell, that cell turned to markdown.
AsSaved == <<A(c1, "code", a)>>
OneCell == {<<A(c1, "code", a)>>, <<A(c1, "code", b)>>, <<A(c1, "markdown", b)>>}
============================================================================
