------------------------------- MODULE KernelInv -------------------------------
(***************************************************************************)
(* Inductive strengthenings of Kernel's REPL-mode properties, for          *)
(* KernelProofs.  They hold of a kernel without a document, whatever       *)
(* faults its recoveries meet.                                             *)
(***************************************************************************)
EXTENDS Kernel

ReplOnly == Docs = {}

Working == {"ensure", "init", "restore", "check", "replay", "dispatch"}

\* Without a comm the document stays empty and no job has a cell.
ModeInv ==
  /\ doc = <<>> /\ comm = FALSE
  /\ pc \in Working \cup {"idle", "repl", "save", "query", "stopped"}
  /\ pc \in Working => job.kind \in {"console", "query"}
  /\ pc \in {"repl", "save"} => job.kind = "console"
  /\ pc \in {"idle", "stopped"} => job = NoJob
  /\ job.kind = "console" => job.code \in Codes

ClientInv ==
  /\ snaps \in Seq(State) /\ snapshot \in Nat /\ current \in Nat
  /\ late \in Seq([parent : Nat, code : Codes])
  /\ ledger \in State /\ kept \in State /\ todo \in State
  /\ alive => owned

\* The client's snapshot stands for the sources in `sources`, or for what a
\* replay that was cut has left of them.
Stands(sources)  == alive => Known(snapshot) /\ StateAt(snapshot) = sources
Follows(sources) == alive => Known(snapshot) /\ Renders(StateAt(snapshot), sources)

\* What the snapshot stands for, at each point of the bootstrap, the recovery
\* and the job.  A worker that is alive between two jobs has been replayed
\* whole, unless `cut` records the way out of a recovery that left it alive.
LedgerInv ==
  /\ pc \in {"ensure", "dispatch", "idle", "repl", "query", "save"} => Follows(ledger)
  /\ pc \in {"init", "restore", "check"} => Stands(<<>>)
  /\ pc = "replay" => Stands(ledger) /\ kept = ledger \o todo
  /\ pc = "save" => late = <<>> /\ (alive => current = snapshot)
  /\ pc \in {"restore", "check", "replay", "dispatch", "repl", "save",
             "query"} => started
  /\ pc = "init" => ~started
  /\ ~started /\ pc \in {"ensure", "idle", "init"} => ledger = <<>>
  /\ ~started /\ pc \in {"ensure", "idle"} => ~alive

\* key.txt is only ever written for a state that renders its ledger.
CacheInv ==
  /\ saved \in SUBSET State
  /\ \A s, t \in saved : s = t
  /\ \A k \in key : Renders(k.state, k.ledger)

ReplInv == ModeInv /\ ClientInv /\ LedgerInv /\ CacheInv

\* An acknowledged cell is in the ledger, or in the copy that a replay puts back.
AckedInv ==
  /\ acked \in State
  /\ pc = "replay" => IsSubsequence(acked, kept)
  /\ pc = "save" => IsSubsequence(Append(acked, job.code), ledger)
  /\ pc \notin {"replay", "save"} => IsSubsequence(acked, ledger)

\* The job that an escalated interrupt struck is over.
StruckInv == struck => pc \in {"idle", "stopped"}
================================================================================
