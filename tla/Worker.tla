------------------------------- MODULE Worker -------------------------------
(***************************************************************************)
(* The Lean worker process (worker/Worker.lean): a dedicated reader task   *)
(* takes frames from the request pipe, queues ordinary requests and acts   *)
(* on cancel frames out of band; the main task serves the queue one        *)
(* request at a time against a DAG of immutable snapshots.                 *)
(*                                                                         *)
(* The two tasks share the queue, the in-flight slot and the cancellation  *)
(* tokens, so every access to these is a step of its own.  The session and *)
(* the output sink belong to the main task (and to tasks spawned by cells).*)
(*                                                                         *)
(* A cell is an element of Codes; elaborating it on a state appends it.    *)
(* A Lean `Option` is a set with at most one element.  Request ids are     *)
(* unique: the client counts them up and a worker has one client.          *)
(***************************************************************************)
EXTENDS Integers, Sequences, FiniteSets

CONSTANTS
  Rids,          \* request ids the client may use, each at most once
  Codes,         \* cell sources
  Spin,          \* cells that never end of themselves
  Deaf,          \* cells of Spin that reach no cancellation checkpoint
  ParentIds,     \* values of parent_snapshot a client may send
  Ops,           \* request kinds the client sends
  TasksOutlive   \* whether a task spawned by a cell may emit output later

AllOps == {"execute", "inspect", "query", "save_session", "load_session",
           "unsupported", "malformed"}

ASSUME WorkerAssumption ==
  /\ Spin \subseteq Codes /\ Deaf \subseteq Spin
  /\ ParentIds \subseteq Nat
  /\ Ops \subseteq AllOps
  /\ TasksOutlive \in BOOLEAN

VARIABLES
  reqPipe, reqClosed,       \* the request pipe: frames, write end closed
  reader, held,             \* reader task; the token it is about to set
  queue,                    \* CloseableChannel between the two tasks
  inflight, tokens,         \* in-flight execute; requests whose token is set
  pc, cur, rep,             \* main task: control, request, reply being built
  elab, sink, outs, publ,   \* elaboration result, output sink and two copies
  snapshots, current, disk, \* the session, and the saved session cache
  replies,                  \* frames written to the reply pipe
  sent, cancels             \* history: ordinary requests, cancel frames sent

chanVars    == <<reqPipe, reqClosed, sent, cancels>>
readerVars  == <<reader, held>>
sessionVars == <<snapshots, current, disk>>
elabVars    == <<elab, sink, outs, publ>>
vars == <<reqPipe, reqClosed, reader, held, queue, inflight, tokens, pc, cur,
          rep, elab, sink, outs, publ, snapshots, current, disk, replies,
          sent, cancels>>

----------------------------------------------------------------------------
(* Data *)

ExecuteFrame == [op : {"execute"}, rid : Rids, code : Codes, parent : Nat]
InspectFrame == [op : {"inspect"}, rid : Rids, code : Codes]
PlainFrame   == [op : AllOps \ {"execute", "inspect"}, rid : Rids]
Request      == ExecuteFrame \cup InspectFrame \cup PlainFrame
CancelFrame  == [op : {"cancel"}, rid : Rids]
Torn         == [op |-> "torn"]
Frame        == Request \cup CancelFrame \cup {Torn}

\* An elaborated cell; whole = FALSE stands for a candidate that an error or
\* a cancellation left without some of the cell's commands.
Cell     == [code : Codes, whole : BOOLEAN]
State    == Seq(Cell)
Snapshot == [parent : Nat \cup {-1}, state : State]

Reply == [rid : Rids, op : AllOps, snapshot : Nat \cup {-1}, outputs : SUBSET Rids,
          status : {"ok", "error", "cancelled", "unsupported"}]

Prelude == [parent |-> -1, state |-> <<>>]

\* Snapshot ids are array indices, so they start at 0.
Known(id)  == id < Len(snapshots)
SnapAt(id) == snapshots[id + 1]

ReplyTo(req, status, snap, outputs) ==
  [rid |-> req.rid, op |-> req.op, status |-> status, snapshot |-> snap,
   outputs |-> outputs]

\* What the client may write next: a fresh id on an ordinary request.
Requests ==
  {f \in [op : Ops \cap {"execute"}, rid : Rids, code : Codes, parent : ParentIds]
         \cup [op : Ops \cap {"inspect"}, rid : Rids, code : Codes]
         \cup [op : Ops \ {"execute", "inspect"}, rid : Rids] :
     \A i \in 1..Len(sent) : sent[i] # f.rid}

\* The session cache outlives a worker: nothing, or what an earlier one saved.
SavedBefore == {<<>>} \cup {<< <<[code |-> c, whole |-> TRUE]>> >> : c \in Codes}

\* Between requests the locals of handleRequest and handleExecute are gone.
NoRequest == [op |-> "none"]
NoReply   == [op |-> "none"]
NoLocals  == cur' = NoRequest /\ rep' = NoReply /\ elab' = "clean" /\ outs' = {} /\ publ' = {}

Init ==
  /\ reqPipe = <<>> /\ reqClosed = FALSE
  /\ reader = "reading" /\ held = {}
  /\ queue = <<>>
  /\ inflight = {} /\ tokens = {}
  /\ pc = "recv" /\ cur = NoRequest /\ rep = NoReply
  /\ elab = "clean" /\ sink = {} /\ outs = {} /\ publ = {}
  /\ snapshots = <<Prelude>> /\ current = 0 /\ disk \in SavedBefore
  /\ replies = <<>>
  /\ sent = <<>> /\ cancels = {}

----------------------------------------------------------------------------
(* The client's end of the request pipe *)

ClientSends(f) ==
  /\ ~reqClosed
  /\ reqPipe' = Append(reqPipe, f)
  /\ sent' = Append(sent, f.rid)
  /\ UNCHANGED <<reqClosed, cancels, readerVars, queue, inflight, tokens, pc,
                 cur, rep, elabVars, sessionVars, replies>>

\* The client cancels a request it has sent, at most once.
ClientCancels(rid) ==
  /\ ~reqClosed
  /\ \E i \in 1..Len(sent) : sent[i] = rid
  /\ rid \notin cancels
  /\ reqPipe' = Append(reqPipe, [op |-> "cancel", rid |-> rid])
  /\ cancels' = cancels \cup {rid}
  /\ UNCHANGED <<reqClosed, sent, readerVars, queue, inflight, tokens, pc,
                 cur, rep, elabVars, sessionVars, replies>>

\* shutdown() closes the pipe; a client that dies in a write leaves a torn frame.
ClientCloses ==
  /\ ~reqClosed
  /\ reqClosed' = TRUE
  /\ reqPipe' \in {reqPipe, Append(reqPipe, Torn)}
  /\ UNCHANGED <<sent, cancels, readerVars, queue, inflight, tokens, pc,
                 cur, rep, elabVars, sessionVars, replies>>

----------------------------------------------------------------------------
(* The reader task *)

Alive == pc \notin {"exited", "dead"}

Reading == Alive /\ reader = "reading" /\ held = {}

ReaderQueues ==
  /\ Reading /\ reqPipe # <<>>
  /\ Head(reqPipe).op \in AllOps
  /\ queue' = Append(queue, Head(reqPipe))
  /\ reqPipe' = Tail(reqPipe)
  /\ UNCHANGED <<reqClosed, sent, cancels, readerVars, inflight, tokens, pc,
                 cur, rep, elabVars, sessionVars, replies>>

\* Mutant: the reader sets the token of whatever is in flight.
ReaderTakesAnyCancel ==
  /\ Reading /\ reqPipe # <<>>
  /\ Head(reqPipe).op = "cancel"
  /\ held' = inflight
  /\ reqPipe' = Tail(reqPipe)
  /\ UNCHANGED <<reqClosed, sent, cancels, reader, queue, inflight, tokens,
                 pc, cur, rep, elabVars, sessionVars, replies>>

\* inflight.get, compared with the frame's id: no match, no effect.
ReaderTakesCancel ==
  /\ Reading /\ reqPipe # <<>>
  /\ Head(reqPipe).op = "cancel"
  /\ held' = inflight \cap {Head(reqPipe).rid}
  /\ reqPipe' = Tail(reqPipe)
  /\ UNCHANGED <<reqClosed, sent, cancels, reader, queue, inflight, tokens,
                 pc, cur, rep, elabVars, sessionVars, replies>>

\* tk.set: the main task may have moved on since the slot was read.
ReaderSetsToken ==
  /\ Alive /\ reader = "reading" /\ held # {}
  /\ tokens' = tokens \cup held
  /\ held' = {}
  /\ UNCHANGED <<chanVars, reader, queue, inflight, pc, cur, rep, elabVars,
                 sessionVars, replies>>

\* Mutant: the queue is closed on clean EOF only, not in a `finally`.
ReaderStopsOnEofOnly ==
  /\ Reading
  /\ reqPipe = <<>> /\ reqClosed
  /\ reader' = "closed"
  /\ UNCHANGED <<chanVars, held, queue, inflight, tokens, pc, cur, rep,
                 elabVars, sessionVars, replies>>

\* Clean EOF, or an exception on a torn frame: `finally` closes the queue.
ReaderStops ==
  /\ Reading
  /\ \/ reqPipe = <<>> /\ reqClosed
     \/ reqPipe # <<>> /\ Head(reqPipe).op = "torn"
  /\ reader' = "closed"
  /\ UNCHANGED <<chanVars, held, queue, inflight, tokens, pc, cur, rep,
                 elabVars, sessionVars, replies>>

----------------------------------------------------------------------------
(* The main task *)

\* Mutant: the request stays in the queue.
MainPeeks ==
  /\ pc = "recv" /\ queue # <<>>
  /\ cur' = Head(queue)
  /\ pc' = "handle"
  /\ UNCHANGED <<chanVars, readerVars, queue, inflight, tokens, rep, elabVars,
                 sessionVars, replies>>

\* Mutant: a closed queue is not drained.
MainReceivesWhileOpen ==
  /\ pc = "recv" /\ queue # <<>> /\ reader = "reading"
  /\ cur' = Head(queue)
  /\ queue' = Tail(queue)
  /\ pc' = "handle"
  /\ UNCHANGED <<chanVars, readerVars, inflight, tokens, rep, elabVars,
                 sessionVars, replies>>


MainReceives ==
  /\ pc = "recv" /\ queue # <<>>
  /\ cur' = Head(queue)
  /\ queue' = Tail(queue)
  /\ pc' = "handle"
  /\ UNCHANGED <<chanVars, readerVars, inflight, tokens, rep, elabVars,
                 sessionVars, replies>>

\* A closed queue is drained before recv answers none.
MainExits ==
  /\ pc = "recv" /\ queue = <<>> /\ reader = "closed"
  /\ pc' = "exited"
  /\ UNCHANGED <<chanVars, readerVars, queue, inflight, tokens, cur, rep,
                 elabVars, sessionVars, replies>>

\* handleRequest "execute" up to processCell: token, in-flight slot, parent
\* lookup, and the sink cleared of leftovers.
BeginExecute ==
  /\ pc = "handle" /\ cur.op = "execute"
  /\ inflight' = {cur.rid}
  /\ IF Known(cur.parent)
     THEN pc' = "elab" /\ sink' = {} /\ UNCHANGED rep
     ELSE pc' = "leave" /\ rep' = ReplyTo(cur, "error", -1, {}) /\ UNCHANGED sink
  /\ UNCHANGED <<chanVars, readerVars, queue, tokens, cur, elab, outs, publ,
                 sessionVars, replies>>

EmitOutput ==
  /\ pc \in {"elab", "analyse"}
  /\ sink' = sink \cup {cur.rid}
  /\ UNCHANGED <<chanVars, readerVars, queue, inflight, tokens, pc, cur, rep,
                 elab, outs, publ, sessionVars, replies>>

\* A task that a finished cell spawned calls emitOutput.
LateOutput(rid) ==
  /\ TasksOutlive /\ Alive
  /\ \E i \in 1..Len(replies) : replies[i].rid = rid /\ replies[i].op = "execute"
  /\ sink' = sink \cup {rid}
  /\ UNCHANGED <<chanVars, readerVars, queue, inflight, tokens, pc, cur, rep,
                 elab, outs, publ, sessionVars, replies>>

\* Mutant: the token is not passed to the elaborator.
EndElaborationUncancelled(result) ==
  /\ pc = "elab" /\ result # "aborted" /\ cur.code \notin Spin
  /\ elab' = result
  /\ outs' = sink
  /\ sink' = {}
  /\ pc' = "publish"
  /\ UNCHANGED <<chanVars, readerVars, queue, inflight, tokens, cur, rep, publ,
                 sessionVars, replies>>

\* processCell returns and the outputs are drained: at a checkpoint that finds
\* the token set, or of itself.  Errors may be logged in any case; an interrupt
\* is not logged, so an aborted cell may look clean.
EndElaboration(result) ==
  /\ pc = "elab"
  /\ \/ cur.rid \in tokens /\ cur.code \notin Deaf
     \/ result # "aborted" /\ cur.code \notin Spin
  /\ elab' = result
  /\ outs' = sink
  /\ sink' = {}
  /\ pc' = "publish"
  /\ UNCHANGED <<chanVars, readerVars, queue, inflight, tokens, cur, rep, publ,
                 sessionVars, replies>>

\* Mutant: a failed cell's outputs are published.
PublishFailed ==
  /\ pc = "publish"
  /\ publ' = IF cur.rid \in tokens THEN {} ELSE outs
  /\ pc' = "decide"
  /\ UNCHANGED <<chanVars, readerVars, queue, inflight, tokens, cur, rep, elab,
                 sink, outs, sessionVars, replies>>

\* The first reading of the token: whether outputs are published.
DecidePublish ==
  /\ pc = "publish"
  /\ publ' = IF elab = "errors" \/ cur.rid \in tokens THEN {} ELSE outs
  /\ pc' = "decide"
  /\ UNCHANGED <<chanVars, readerVars, queue, inflight, tokens, cur, rep, elab,
                 sink, outs, sessionVars, replies>>

\* The second reading of the token: cancelled, failed or committed.
ReplyCancelled ==
  /\ pc = "decide" /\ cur.rid \in tokens
  /\ rep' = ReplyTo(cur, "cancelled", cur.parent, publ)
  /\ pc' = "leave"
  /\ UNCHANGED <<chanVars, readerVars, queue, inflight, tokens, cur, elabVars,
                 sessionVars, replies>>

ReplyError ==
  /\ pc = "decide" /\ cur.rid \notin tokens /\ elab = "errors"
  /\ rep' = ReplyTo(cur, "error", cur.parent, publ)
  /\ pc' = "leave"
  /\ UNCHANGED <<chanVars, readerVars, queue, inflight, tokens, cur, elabVars,
                 sessionVars, replies>>

Committable == pc = "decide" /\ cur.rid \notin tokens /\ elab # "errors"

Candidate(parent) ==
  [parent |-> parent,
   state  |-> Append(SnapAt(cur.parent).state,
                     [code |-> cur.code, whole |-> elab = "clean"])]

CommitAs(newSnapshots) ==
  /\ snapshots' = newSnapshots
  /\ current' = Len(snapshots)
  /\ rep' = ReplyTo(cur, "ok", Len(snapshots), publ)
  /\ pc' = "leave"
  /\ UNCHANGED <<chanVars, readerVars, queue, inflight, tokens, cur, elabVars,
                 disk, replies>>

\* Mutant: the token is not read again before the commit.
CommitCancelled ==
  /\ pc = "decide" /\ elab # "errors"
  /\ CommitAs(Append(snapshots, Candidate(cur.parent)))

\* Mutant: the new snapshot is recorded under the current one.
CommitUnderCurrent ==
  Committable /\ CommitAs(Append(snapshots, Candidate(current)))

\* Mutant: the candidate replaces its parent.
CommitInPlace ==
  /\ Committable
  /\ CommitAs([snapshots EXCEPT ![cur.parent + 1] = Candidate(cur.parent)])

Commit == Committable /\ CommitAs(Append(snapshots, Candidate(cur.parent)))

\* handleExecute has returned: inflight.set none.
LeaveExecute ==
  /\ pc = "leave"
  /\ inflight' = {}
  /\ pc' = "write"
  /\ UNCHANGED <<chanVars, readerVars, queue, tokens, cur, rep, elabVars,
                 sessionVars, replies>>

\* inspect elaborates the cell for analysis, without a token.
BeginInspect ==
  /\ pc = "handle" /\ cur.op = "inspect"
  /\ pc' = "analyse"
  /\ UNCHANGED <<chanVars, readerVars, queue, inflight, tokens, cur, rep,
                 elabVars, sessionVars, replies>>

EndInspect ==
  /\ pc = "analyse" /\ cur.code \notin Spin
  /\ sink' = {}
  /\ rep' = ReplyTo(cur, "ok", current, {})
  /\ pc' = "write"
  /\ UNCHANGED <<chanVars, readerVars, queue, inflight, tokens, cur, elab, outs,
                 publ, sessionVars, replies>>

\* is_complete, complete and describe read the current snapshot.
AnswerQuery ==
  /\ pc = "handle" /\ cur.op = "query"
  /\ rep' = IF Known(current) THEN ReplyTo(cur, "ok", current, {})
                              ELSE ReplyTo(cur, "error", -1, {})
  /\ pc' = "write"
  /\ UNCHANGED <<chanVars, readerVars, queue, inflight, tokens, cur, elabVars,
                 sessionVars, replies>>

\* An unknown op, or a request without a field it needs.
Refuse ==
  /\ pc = "handle" /\ cur.op \in {"unsupported", "malformed"}
  /\ rep' = ReplyTo(cur, IF cur.op = "malformed" THEN "error" ELSE "unsupported",
                    -1, {})
  /\ pc' = "write"
  /\ UNCHANGED <<chanVars, readerVars, queue, inflight, tokens, cur, elabVars,
                 sessionVars, replies>>

\* Mutant: save_session answers a status of its own.
SaveSessionSaved ==
  /\ pc = "handle" /\ cur.op = "save_session"
  /\ disk' \in {disk, <<SnapAt(current).state>>}
  /\ rep' = ReplyTo(cur, "saved", current, {})
  /\ pc' = "write"
  /\ UNCHANGED <<chanVars, readerVars, queue, inflight, tokens, cur, elabVars,
                 snapshots, current, replies>>

\* save_session answers ok, whether the state could be saved or was refused.
SaveSession ==
  /\ pc = "handle" /\ cur.op = "save_session"
  /\ disk' \in {disk, <<SnapAt(current).state>>}
  /\ rep' = ReplyTo(cur, "ok", current, {})
  /\ pc' = "write"
  /\ UNCHANGED <<chanVars, readerVars, queue, inflight, tokens, cur, elabVars,
                 snapshots, current, replies>>

\* Mutant: the restored snapshot does not become the current one.
LoadSessionAside ==
  /\ pc = "handle" /\ cur.op = "load_session"
  /\ disk # <<>>
  /\ snapshots' = Append(snapshots, [parent |-> -1, state |-> disk[1]])
  /\ rep' = ReplyTo(cur, "ok", Len(snapshots), {})
  /\ pc' = "write"
  /\ UNCHANGED <<chanVars, readerVars, queue, inflight, tokens, cur, elabVars,
                 current, disk, replies>>

\* load_session pushes the saved state as a root of its own, or misses.
LoadSession ==
  /\ pc = "handle" /\ cur.op = "load_session"
  /\ disk # <<>>
  /\ snapshots' = Append(snapshots, [parent |-> -1, state |-> disk[1]])
  /\ current' = Len(snapshots)
  /\ rep' = ReplyTo(cur, "ok", Len(snapshots), {})
  /\ pc' = "write"
  /\ UNCHANGED <<chanVars, readerVars, queue, inflight, tokens, cur, elabVars,
                 disk, replies>>

LoadMisses ==
  /\ pc = "handle" /\ cur.op = "load_session"
  /\ rep' = ReplyTo(cur, "error", -1, {})
  /\ pc' = "write"
  /\ UNCHANGED <<chanVars, readerVars, queue, inflight, tokens, cur, elabVars,
                 sessionVars, replies>>

WriteReply ==
  /\ pc = "write"
  /\ replies' = Append(replies, rep)
  /\ pc' = "recv"
  /\ NoLocals
  /\ UNCHANGED <<chanVars, readerVars, queue, inflight, tokens, sink,
                 sessionVars>>

\* SIGKILL, a stack overflow or an uncaught exception, at any moment.
Die ==
  /\ Alive
  /\ pc' = "dead" /\ reader' = "closed" /\ held' = {}
  /\ queue' = <<>> /\ inflight' = {} /\ tokens' = {} /\ sink' = {}
  /\ NoLocals
  /\ UNCHANGED <<chanVars, sessionVars, replies>>

Gone == ~Alive /\ UNCHANGED vars

----------------------------------------------------------------------------
Client ==
  \/ \E f \in Requests : ClientSends(f)
  \/ \E rid \in Rids : ClientCancels(rid)
  \/ ClientCloses

Reader == ReaderQueues \/ ReaderTakesCancel \/ ReaderSetsToken \/ ReaderStops

Execute ==
  \/ BeginExecute
  \/ \E result \in {"clean", "errors", "aborted"} : EndElaboration(result)
  \/ DecidePublish \/ ReplyCancelled \/ ReplyError \/ Commit \/ LeaveExecute

Serve ==
  \/ BeginInspect \/ EndInspect \/ AnswerQuery \/ Refuse
  \/ SaveSession \/ LoadSession \/ LoadMisses

Main == MainReceives \/ MainExits \/ Execute \/ Serve \/ WriteReply

Emit == EmitOutput \/ \E rid \in Rids : LateOutput(rid)

Next == Client \/ Reader \/ Main \/ Emit \/ Die \/ Gone

Spec == Init /\ [][Next]_vars

\* Both tasks are operating-system threads that keep running; an elaboration
\* that may end does, one of Deaf never (an interpreted #eval loop).  Nothing is
\* assumed of the client, not even that it kills after its grace window.
FairSpec == Spec /\ WF_vars(Reader) /\ WF_vars(Main)

----------------------------------------------------------------------------
(* Properties *)

TypeOK ==
  /\ reqPipe \in Seq(Frame) /\ reqClosed \in BOOLEAN
  /\ reader \in {"reading", "closed"}
  /\ held \in SUBSET Rids /\ inflight \in SUBSET Rids /\ tokens \in SUBSET Rids
  /\ queue \in Seq(Request)
  /\ pc \in {"recv", "handle", "elab", "publish", "decide", "leave", "analyse",
             "write", "exited", "dead"}
  /\ cur \in Request \cup {NoRequest} /\ rep \in Reply \cup {NoReply}
  /\ elab \in {"clean", "errors", "aborted"}
  /\ sink \in SUBSET Rids /\ outs \in SUBSET Rids /\ publ \in SUBSET Rids
  /\ snapshots \in Seq(Snapshot) /\ current \in Nat
  /\ disk \in Seq(State)
  /\ replies \in Seq(Reply)
  /\ sent \in Seq(Rids) /\ cancels \in SUBSET Rids

\* Every reply belongs to the request sent at the same place in the order: no
\* request is skipped, answered twice or overtaken, whatever the reader does
\* with the cancel frames between them (readerLoop and mainLoop).
RepliesInOrder ==
  /\ Len(replies) <= Len(sent)
  /\ \A i \in 1..Len(replies) : replies[i].rid = sent[i]

\* A request is answered "cancelled" only when the client asked for its own
\* cancellation: a cancel that races the end of another execute, or a token
\* read before that execute left the in-flight slot, cancels nothing else.
CancelHitsOwnRequest ==
  \A i \in 1..Len(replies) :
     replies[i].status = "cancelled" => replies[i].rid \in cancels

Whole(state) == \A j \in 1..Len(state) : state[j].whole

\* Cell atomicity: no snapshot holds a cell that failed or was cut short by a
\* cancellation, and none is saved (handleExecute, docs/protocol.md `execute`).
CellsAreWhole ==
  /\ \A i \in 1..Len(snapshots) : Whole(snapshots[i].state)
  /\ \A i \in 1..Len(disk) : Whole(disk[i])

\* The snapshots form a DAG of persistent values: a parent is older than its
\* child, which is the parent's state and one cell more, and the current
\* snapshot exists, so that "invalid current snapshot" is never answered.
SnapshotDag ==
  /\ current < Len(snapshots)
  /\ \A i \in 1..Len(snapshots) :
       LET s == snapshots[i] IN
         s.parent # -1 =>
           /\ s.parent < i - 1
           /\ s.state # <<>>
           /\ SubSeq(s.state, 1, Len(s.state) - 1) = SnapAt(s.parent).state

\* A committed snapshot is never changed or dropped: an id that a client holds
\* names the same state for the life of the worker.
SnapshotsArePersistent ==
  [][/\ Len(snapshots') >= Len(snapshots)
     /\ \A i \in 1..Len(snapshots) : snapshots'[i] = snapshots[i]]_snapshots

\* The outputs of a reply were emitted for that very request, and a failed
\* cell shows none (the drains around processCell, and the inspect op's).
OutputsRequestLocal ==
  \A i \in 1..Len(replies) :
    /\ replies[i].outputs \subseteq {replies[i].rid}
    /\ replies[i].status = "error" => replies[i].outputs = {}

\* "on error or cancel, discard any prefix emitOutput bundles"
\* (Worker.lean:106-109): a cancelled reply carries no outputs.
CancelledShowsNothing ==
  \A i \in 1..Len(replies) :
    replies[i].status = "cancelled" => replies[i].outputs = {}

\* The worker is a Session whose requests are atomic: an answer and its effect
\* on the snapshots happen together, in the step that builds the reply.
Answered == IF pc \in {"leave", "write"} THEN Append(replies, rep) ELSE replies

NoOutputs(r) == [rid |-> r.rid, op |-> r.op, status |-> r.status,
                 snapshot |-> r.snapshot]

Abstract == INSTANCE Session WITH
  answers <- [i \in 1..Len(Answered) |-> NoOutputs(Answered[i])],
  alive   <- pc # "dead"

RefinesSession == Abstract!Spec

Spinning == pc \in {"elab", "analyse"} /\ cur.code \in Spin

\* Every request is answered as long as the worker lives, unless it waits on a
\* cell that does not end of itself.
EveryRequestAnswered ==
  \A n \in 1..Cardinality(Rids) :
    Len(sent) >= n ~> (Len(replies) >= n \/ ~Alive \/ Spinning)

\* Cooperative cancellation: a cancel that finds its execute in flight ends a
\* cell that would run for ever, without the kill, provided that the cell reaches
\* a checkpoint (docs/protocol.md `cancel`; the cells of Deaf wait for the kill).
CancelEndsElaboration ==
  \A rid \in Rids :
    (held = {rid} /\ pc = "elab" /\ cur.rid = rid /\ cur.code \notin Deaf)
      ~> (pc # "elab" \/ cur.rid # rid)

\* Once the request pipe is closed, or torn by a dying client, the worker
\* drains its queue and exits: none is left orphaned (readerTask's finally).
ClosedPipeEndsWorker ==
  reqClosed ~> (~Alive \/ Spinning)
============================================================================
