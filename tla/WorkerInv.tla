----------------------------- MODULE WorkerInv ------------------------------
(* Inductive strengthenings of Worker's safety properties, for WorkerProofs. *)
EXTENDS Worker

Handling == {"handle", "elab", "publish", "decide", "leave", "analyse", "write"}

\* What the main task knows at each control point about its request, the
\* snapshot it elaborates on and the reply it has built.
ControlInv ==
  /\ pc \in Handling => cur \in Request
  /\ pc \in {"elab", "publish", "decide"} =>
       cur \in ExecuteFrame /\ Known(cur.parent)
  /\ pc \in {"leave", "write"} => rep \in Reply /\ rep.rid = cur.rid
  /\ current < Len(snapshots)

\* Only a cancel frame of the client makes its way into a token.
CancelInv ==
  /\ \A i \in 1..Len(reqPipe) :
       reqPipe[i].op = "cancel" => reqPipe[i].rid \in cancels
  /\ held \subseteq cancels
  /\ tokens \subseteq cancels
  /\ pc \in {"leave", "write"} /\ rep.status = "cancelled" => rep.rid \in cancels
  /\ CancelHitsOwnRequest

\* A cell that was cut short has its token set, and no step clears a token of
\* the request being served: the reading that precedes the commit finds it.
AtomicInv ==
  /\ pc \in {"publish", "decide"} /\ elab = "aborted" => cur.rid \in tokens
  /\ CellsAreWhole

\* While no task outlives its cell, what is in the sink, and in the copies made
\* of it on the way to the reply, was emitted for the request being served.
Local(r) == r.outputs \subseteq {r.rid} /\ (r.status = "error" => r.outputs = {})

OutputsInv ==
  /\ pc = "elab" => sink \subseteq {cur.rid}
  /\ pc = "publish" => outs \subseteq {cur.rid}
  /\ pc = "decide" => publ \subseteq {cur.rid} /\ (elab = "errors" => publ = {})
  /\ pc \in {"leave", "write"} => Local(rep)
  /\ OutputsRequestLocal

\* Served requests, then the queue, then the pipe, make up what was sent, in
\* order: the next request the reader finds is the next one in `sent`.
Served == Len(replies) + (IF pc \in Handling THEN 1 ELSE 0)

Piped(i) == i \in 1..Len(reqPipe) /\ reqPipe[i].op \in AllOps

OrderAhead ==
  /\ Served + Len(queue) <= Len(sent)
  /\ \A i \in 1..Len(queue) : queue[i].rid = sent[Served + i]
  /\ \A n \in Served + Len(queue) + 1 .. Len(sent) :
       \E i \in 1..Len(reqPipe) : Piped(i) /\ reqPipe[i].rid = sent[n]
  /\ \A i \in 1..Len(reqPipe) : Piped(i) =>
       \E n \in Served + Len(queue) + 1 .. Len(sent) : reqPipe[i].rid = sent[n]
  /\ \A i, j \in 1..Len(reqPipe) : Piped(i) /\ Piped(j) /\ i < j =>
       \A m, n \in 1..Len(sent) :
         reqPipe[i].rid = sent[m] /\ reqPipe[j].rid = sent[n] => m < n

OrderInv ==
  /\ \A m, n \in 1..Len(sent) : sent[m] = sent[n] => m = n
  /\ RepliesInOrder
  /\ pc \in Handling => Served <= Len(sent) /\ cur.rid = sent[Served]
  /\ Alive => OrderAhead
============================================================================
