------------------------------ MODULE MCWorker ------------------------------
(* Instances of Worker for TLC. *)
EXTENDS Worker

CONSTANTS r1, r2, a, b, c

TwoSpin == {b, c}
OneDeaf == {c}
None    == {}

Exec     == {"execute"}
ExecRead == {"execute", "inspect"}
Serving  == {"execute", "query", "save_session", "load_session", "unsupported",
             "malformed"}
============================================================================
