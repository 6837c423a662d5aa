------------------------------ MODULE KernelDocInv ------------------------------
(***************************************************************************)
(* Inductive strengthenings of Kernel's properties in document mode, for   *)
(* KernelDocProofs: `JobInv` with the types and `StaleInv`, which hold of  *)
(* every kernel, and `PrefixInv`, which holds of those that `DocOnly`      *)
(* describes.                                                              *)
(***************************************************************************)
EXTENDS Kernel

NoCells == \A c \in Cells : cellState[c] = NoState

\* Where a job is, and what its steps so far have established: it has a kind
\* that gets there, its cell is visible with the source that is to run, and
\* until the bootstrap is over no cell has run.
JobInv ==
  /\ IF pc \in {"idle", "stopped"} THEN job = NoJob ELSE job \in Job
  /\ pc \notin {"idle", "stopped", "query"} => job.kind # "is_complete"
  /\ pc \in {"repl", "save"} => Executing
  /\ pc \in {"prefix", "run"} => job.kind = "cell"
  /\ job.kind = "cell" => InDoc(job.cell) /\ doc[Position(job.cell)].source = job.code
  /\ pc \notin {"idle", "ensure", "init", "stopped"} => started
  /\ pc = "init" \/ (~started /\ pc # "stopped") => NoCells
  /\ \A m, n \in DOMAIN doc : doc[m].id = doc[n].id => m = n

\* The types, part by part.
BootType ==
  started \in BOOLEAN /\ base \in Nat /\ initError \in BOOLEAN
DocType ==
  /\ comm \in BOOLEAN /\ doc \in Seq(DocCell)
  /\ cellState \in [Cells -> CellState \cup {NoState}]
  /\ status \in SUBSET [fresh : SUBSET Cells, stale : SUBSET Cells]
ClientType ==
  ledger \in State /\ kept \in State /\ todo \in State /\ snapshot \in Nat
WorkerType ==
  /\ owned \in BOOLEAN /\ alive \in BOOLEAN /\ (alive => owned)
  /\ snaps \in Seq(State) /\ current \in Nat
  /\ IF alive THEN current < Len(snaps) ELSE snaps = <<>>
  /\ late \in Seq([parent : Nat, code : Codes])
CacheType ==
  saved \in SUBSET State /\ key \in SUBSET [ledger : State, state : State]
JobType ==
  /\ pc \in {"idle", "ensure", "init", "restore", "check", "replay", "dispatch",
             "prefix", "run", "repl", "save", "query", "stopped"}
  /\ job \in Job \cup {NoJob}
PastType ==
  /\ shown \in [Cells -> SUBSET State] /\ acked \in State /\ struck \in BOOLEAN
  /\ cut \in BOOLEAN
  /\ inputs \in 0 .. MaxInputs /\ faults \in 0 .. MaxFaults
Types == BootType /\ DocType /\ ClientType /\ WorkerType /\ CacheType /\ JobType /\ PastType

\* What is stale now was stale in the last broadcast, in the middle of a job too.
StaleInv ==
  /\ status # {} => comm
  /\ \A s \in status : StatusNow.stale \subseteq s.stale

----------------------------------------------------------------------------
(* Fresh cells *)

\* A notebook that is never without cells, and recoveries without the two faults
\* that leave a worker half restored.  Where a session cache and an init cell
\* meet, nothing runs outside the notebook: a restored session has another base.
DocOnly ==
  /\ <<>> \notin Docs
  /\ "recovery_timeout" \notin Surprises /\ "query_divergence" \notin Surprises
  /\ CacheOn => InitCell = {} \/ "console" \notin Kinds

\* Without an init cell, or when it failed, cells build on the empty session;
\* otherwise on the first snapshot, which is the init cell's: it is the first in
\* the ledger, so that a replay makes it again.
BaseOf(sources) ==
  IF initError \/ InitCell = {} THEN base = 0
  ELSE base = 1 /\ sources # <<>> /\ sources[1] = CHOOSE c \in InitCell : TRUE

Untouched == alive => snaps = << <<>> >> /\ snapshot = 0 /\ late = <<>>

\* A new worker has one snapshot, the empty session, until something runs on it;
\* the cells that a replay has run so far are in the ledger again, the rest of
\* the old one is still to do.
RootInv == alive => Known(0) /\ StateAt(0) = <<>>

RebootInv ==
  /\ pc = "init" => base = 0 /\ ~initError /\ Untouched
  /\ pc \in {"restore", "check"} => Untouched

ReplayInv ==
  pc = "replay" =>
    /\ alive => Known(snapshot)
    /\ kept = ledger \o todo
    /\ ledger = <<>> => Untouched
    /\ alive /\ ledger # <<>> /\ base = 1 => Known(1) /\ StateAt(1) = <<ledger[1]>>

\* Outside a recovery the base is what the init cell has made of that session.
ReadyInv ==
  alive /\ started /\ pc \notin {"init", "restore", "check", "replay"} =>
    Known(base) /\ (initError \/ StateAt(base) = InitState)

BaseInv == RootInv /\ RebootInv /\ ReplayInv /\ ReadyInv

\* While no document has come the kernel is in REPL mode: the ledger begins with
\* the init cell, no cell is on record.
BootLedger ==
  /\ pc = "init" \/ (pc \in {"ensure", "idle"} /\ ~started) => ledger = <<>>
  /\ pc = "init" /\ started => doc # <<>>

ReplDoc ==
  /\ pc \in {"restore", "check", "replay"} => doc = <<>>
  /\ doc = <<>> => NoCells

ReplBase ==
  doc = <<>> /\ started /\ pc # "init" => BaseOf(IF pc = "replay" THEN kept ELSE ledger)

\* No cell runs after the init cell failed.
ErrorInv ==
  /\ pc \in {"prefix", "run", "repl", "save"} => ~initError
  /\ initError => NoCells

\* What the session cache holds was saved by a cell outside the notebook.
KindInv ==
  /\ pc \notin {"idle", "stopped"} => job.kind \in Kinds
  /\ pc \in {"repl", "save"} => job.kind = "console"
  /\ CacheOn /\ "console" \notin Kinds => key = {}

LedgerInv == BootLedger /\ ReplDoc /\ ReplBase /\ ErrorInv /\ KindInv

\* What an entry of cellState says of the worker that is running: its snapshot
\* is that of its parent with the entry's source.
Holds(st) ==
  /\ Known(st.snapshot) /\ Known(st.parent)
  /\ StateAt(st.snapshot) = Append(StateAt(st.parent), st.source)

CellsInv ==
  /\ alive => \A c \in Cells : cellState[c] # NoState => Holds(cellState[c])
  /\ pc = "stopped" /\ ~started /\ alive => NoCells

PrefixInv == BaseInv /\ LedgerInv /\ CellsInv
================================================================================
