------------------------------ MODULE Session -------------------------------
(***************************************************************************)
(* What a Lean session promises its client, without tasks, queues, tokens  *)
(* or pipes: each request takes effect and is answered in one step.  A     *)
(* cell is committed whole, as a new and newest snapshot on the parent it  *)
(* named, or it leaves no trace; a death may take the last answer with it, *)
(* never the agreement of the earlier ones with the snapshots.             *)
(***************************************************************************)
EXTENDS Integers, Sequences

CONSTANTS Rids, Codes

VARIABLES snapshots, current, disk, answers, alive
vars == <<snapshots, current, disk, answers, alive>>

WholeStates == Seq([code : Codes, whole : {TRUE}])

\* What an earlier session may have saved: nothing, or one state.
Saved(d) == d = <<>> \/ (Len(d) = 1 /\ d[1] \in WholeStates)

Init ==
  /\ snapshots = <<[parent |-> -1, state |-> <<>>]>>
  /\ current = 0
  /\ Saved(disk)
  /\ answers = <<>>
  /\ alive = TRUE

Answer(rid, op, status, snap) ==
  answers' = Append(answers,
    [rid |-> rid, op |-> op, status |-> status, snapshot |-> snap])

\* A new snapshot is the newest and becomes the current one.
Push(parent, state) ==
  /\ snapshots' = Append(snapshots, [parent |-> parent, state |-> state])
  /\ current' = Len(snapshots)

Execute(rid, parent, code) ==
  /\ parent < Len(snapshots)
  /\ Push(parent, Append(snapshots[parent + 1].state, [code |-> code, whole |-> TRUE]))
  /\ Answer(rid, "execute", "ok", Len(snapshots))
  /\ UNCHANGED disk

\* A cell that fails or is cancelled echoes its parent.
Fail(rid, parent, status) ==
  /\ parent < Len(snapshots)
  /\ Answer(rid, "execute", status, parent)
  /\ UNCHANGED <<snapshots, current, disk>>

Restore(rid) ==
  /\ disk # <<>>
  /\ Push(-1, disk[1])
  /\ Answer(rid, "load_session", "ok", Len(snapshots))
  /\ UNCHANGED disk

Save(rid) ==
  /\ disk' \in {disk, <<snapshots[current + 1].state>>}
  /\ Answer(rid, "save_session", "ok", current)
  /\ UNCHANGED <<snapshots, current>>

\* Queries and analyses are answered from the current snapshot.
Read(rid, op) ==
  /\ Answer(rid, op, "ok", current)
  /\ UNCHANGED <<snapshots, current, disk>>

\* A request the session cannot serve names no snapshot.
Reject(rid, op, status) ==
  /\ Answer(rid, op, status, -1)
  /\ UNCHANGED <<snapshots, current, disk>>

Die ==
  /\ alive' = FALSE
  /\ answers' \in {answers, SubSeq(answers, 1, Len(answers) - 1)}
  /\ UNCHANGED <<snapshots, current, disk>>

Serve(rid) ==
  \/ \E c \in Codes, p \in 0 .. Len(snapshots) : Execute(rid, p, c)
  \/ \E p \in 0 .. Len(snapshots), s \in {"error", "cancelled"} : Fail(rid, p, s)
  \/ Restore(rid) \/ Save(rid)
  \/ \E op \in {"query", "inspect"} : Read(rid, op)
  \/ \E op \in {"execute", "load_session", "malformed"} : Reject(rid, op, "error")
  \/ Reject(rid, "unsupported", "unsupported")

Next == alive /\ (Die \/ (alive' = TRUE /\ \E rid \in Rids : Serve(rid)))

Spec == Init /\ [][Next]_vars
============================================================================
