------------------------------- MODULE Kernel -------------------------------
(***************************************************************************)
(* The Jupyter adapter: kernel.py and document.py (document mode: visible  *)
(* cells, their snapshots, the fresh/stale broadcast), worker/client.py    *)
(* and worker/cache.py (REPL mode: replay ledger, session cache, recovery  *)
(* of a dead worker), over the worker as module Session describes it.      *)
(*                                                                         *)
(* The adapter is one thread: a job, that is a request of the notebook, is *)
(* served to its end before the next.  What moves on its own is the worker *)
(* (it dies, or goes on with a request the client gave up on) and the user *)
(* (interrupts).  Each request to the worker is one step here: what        *)
(* happens inside one is the subject of module Worker.                     *)
(*                                                                         *)
(* A source is an element of Codes or Blank; the state it is elaborated to *)
(* is the sequence of the sources elaborated so far.  Elaboration may fail *)
(* at any time: a cell may depend on the world.  A Python None or a        *)
(* missing file is the empty set.                                          *)
(***************************************************************************)
EXTENDS Integers, Sequences

CONSTANTS
  Cells,       \* cell ids
  Codes,       \* sources that are not blank
  Blank,       \* a source of white space
  InitCell,    \* the kernelspec's init cell: at most one source
  Docs,        \* documents the frontend may send
  Kinds,       \* kinds of jobs
  CacheOn,     \* whether there is a session cache (none under bubblewrap)
  Surprises,   \* see below
  MaxInputs,   \* bound on jobs and document messages
  MaxFaults    \* bound on deaths, escalated interrupts and timeouts

\* "cell" is an execute_request for a cell of the document, "console" one
\* without; "query" is complete or inspect.
JobKinds == {"cell", "console", "query", "is_complete"}

\* Faults in the middle of a recovery that the adapter does not survive whole:
\* a replayed cell that fails or is cancelled while a query recovers; a timeout
\* of the init cell or of a replayed cell; an escalated interrupt of the
\* restore.  Runs without them say what holds otherwise.
AllSurprises == {"query_divergence", "recovery_timeout", "restore_interrupt"}

Sources  == Codes \cup {Blank}
DocCell  == [id : Cells, source : Sources]

ASSUME KernelAssumption ==
  /\ Blank \notin Codes
  /\ InitCell \subseteq Codes /\ \A x, y \in InitCell : x = y
  /\ Docs \subseteq Seq(DocCell)
  /\ \A d \in Docs : \A m, n \in DOMAIN d : d[m].id = d[n].id => m = n
  /\ Kinds \subseteq JobKinds
  /\ CacheOn \in BOOLEAN
  /\ Surprises \subseteq AllSurprises
  /\ MaxInputs \in Nat /\ MaxFaults \in Nat

VARIABLES
  started, base, initError,            \* _started, base_snapshot, _init_error
  comm, doc, cellState, status,        \* document session; the last broadcast
  ledger, snapshot, owned,             \* client: ledger, snapshot, proc
  kept, todo,                          \* locals of restart_and_replay
  alive, snaps, current, late,         \* worker; requests it was left alone with
  saved, key,                          \* cache_dir: saved session, key.txt
  pc, job,                             \* the thread: where it is, the job
  shown, acked, struck, cut,           \* history: outputs, replies, kills, stumps
  inputs, faults                       \* counters for the bounds

bootVars   == <<started, base, initError>>
docVars    == <<comm, doc, cellState, status>>
clientVars == <<ledger, snapshot, kept, todo>>
workerVars == <<owned, alive, snaps, current, late>>
cacheVars  == <<saved, key>>
pastVars   == <<shown, acked, struck, cut>>
counters   == <<inputs, faults>>
vars == <<started, base, initError, comm, doc, cellState, status, ledger,
          snapshot, owned, kept, todo, alive, snaps, current, late, saved,
          key, pc, job, shown, acked, struck, cut, inputs, faults>>

----------------------------------------------------------------------------
(* Data *)

State     == Seq(Codes)
CellState == [source : Codes, snapshot : Nat, parent : Nat]
NoState   == [source |-> Blank]
NoJob     == [kind |-> "none"]
Job       == [kind : {"cell"}, cell : Cells, code : Codes]
               \cup [kind : {"console"}, code : Codes]
               \cup [kind : {"query", "is_complete"}]
Executing == job.kind \in {"cell", "console"}
NotShown  == {}

Init ==
  /\ started = FALSE /\ base = 0 /\ initError = FALSE
  /\ comm = FALSE /\ doc = <<>> /\ cellState = [c \in Cells |-> NoState]
  /\ status = {}
  /\ ledger = <<>> /\ snapshot = 0 /\ kept = <<>> /\ todo = <<>>
  /\ owned = FALSE /\ alive = FALSE /\ snaps = <<>> /\ current = 0 /\ late = <<>>
  /\ saved = {} /\ key = {}
  /\ pc = "idle" /\ job = NoJob
  /\ shown = [c \in Cells |-> NotShown] /\ acked = <<>> /\ struck = FALSE /\ cut = FALSE
  /\ inputs = 0 /\ faults = 0

----------------------------------------------------------------------------
(* The document: which cells are fresh *)

Reusable(c, parent) ==
  LET st == cellState[c.id] IN
    st # NoState /\ st.source = c.source /\ st.parent = parent

\* The walk of _ensure_prefix and of broadcast_status over the visible cells:
\* after k cells, the snapshot reached and whether a cell was not reusable.
Walk ==
  LET w[k \in 0 .. Len(doc)] ==
        IF k = 0 THEN [parent |-> base, broken |-> FALSE]
        ELSE LET c == doc[k] IN
          IF c.source = Blank THEN w[k - 1]
          ELSE IF ~w[k - 1].broken /\ Reusable(c, w[k - 1].parent)
               THEN [parent |-> cellState[c.id].snapshot, broken |-> FALSE]
               ELSE [parent |-> w[k - 1].parent, broken |-> TRUE]
  IN w

Nonblank == {k \in 1 .. Len(doc) : doc[k].source # Blank}

StatusNow ==
  LET w == Walk IN
    [fresh |-> {doc[k].id : k \in {n \in Nonblank : ~w[n].broken}},
     stale |-> {doc[k].id : k \in {n \in Nonblank :
                  w[n].broken /\ cellState[doc[n].id] # NoState}}]

\* broadcast_status, on the state the step leaves behind.
Broadcast == status' = IF comm /\ doc' # <<>> THEN {StatusNow'} ELSE status

Position(cell) == CHOOSE k \in 1 .. Len(doc) : doc[k].id = cell
InDoc(cell)    == \E k \in 1 .. Len(doc) : doc[k].id = cell

\* The first cell above the job's that must be elaborated again.
Upstream == CHOOSE k \in Nonblank : Walk[k].broken /\ ~Walk[k - 1].broken
PrefixFresh == ~Walk[Position(job.cell) - 1].broken

----------------------------------------------------------------------------
(* The worker, as the client finds it *)

\* The worker gets to the request only after those the client gave up on.
Serving == owned /\ alive /\ late = <<>>

StateAt(id) == snaps[id + 1]
Known(id)   == id < Len(snaps)

\* The execute request that the thread has sent, in any of its guises.
Requested ==
  CASE pc = "init"   -> [parent |-> snapshot, code |-> CHOOSE c \in InitCell : TRUE]
    [] pc = "replay" -> [parent |-> snapshot, code |-> Head(todo)]
    [] pc = "prefix" -> [parent |-> Walk[Upstream - 1].parent, code |-> doc[Upstream].source]
    [] pc = "run"    -> [parent |-> Walk[Position(job.cell) - 1].parent, code |-> job.code]
    [] pc = "repl"   -> [parent |-> snapshot, code |-> job.code]

\* The thread is in _request, for an execute or a query.
Asking ==
  \/ pc = "init" /\ InitCell # {}
  \/ pc = "replay" /\ todo # <<>>
  \/ pc = "prefix" /\ ~PrefixFresh
  \/ pc \in {"run", "repl", "query"}

\* status "ok": the candidate is committed and the client follows.
Elaborated ==
  /\ Serving /\ Known(Requested.parent)
  /\ snaps' = Append(snaps, Append(StateAt(Requested.parent), Requested.code))
  /\ current' = Len(snaps) /\ snapshot' = Len(snaps)
  /\ UNCHANGED <<owned, alive, late>>

\* status "error" or "cancelled": no trace.
Rejected == Serving /\ Known(Requested.parent) /\ UNCHANGED <<workerVars, snapshot>>

\* Mutant: proc is forgotten and its group left running.
KillForgets ==
  /\ owned' = FALSE /\ UNCHANGED <<alive, snaps, current, late>>

Kill ==
  /\ owned' = FALSE /\ alive' = FALSE /\ snaps' = <<>> /\ current' = 0 /\ late' = <<>>

Started ==
  /\ owned' = TRUE /\ alive' = TRUE /\ snaps' = << <<>> >> /\ current' = 0
  /\ late' = <<>> /\ snapshot' = 0

\* SIGKILL, a stack overflow, the OOM killer; proc is not reaped yet.
WorkerDies ==
  /\ alive /\ faults < MaxFaults
  /\ alive' = FALSE /\ snaps' = <<>> /\ current' = 0 /\ late' = <<>>
  /\ faults' = faults + 1
  /\ UNCHANGED <<owned, bootVars, docVars, clientVars, cacheVars, pc, job,
                 pastVars, inputs>>

\* An execute that timed out ends, with or without a commit.
LateEnds ==
  /\ late # <<>>
  /\ late' = Tail(late)
  /\ \/ /\ Known(Head(late).parent)
        /\ snaps' = Append(snaps, Append(StateAt(Head(late).parent), Head(late).code))
        /\ current' = Len(snaps)
     \/ UNCHANGED <<snaps, current>>
  /\ UNCHANGED <<owned, alive, bootVars, docVars, clientVars, cacheVars, pc,
                 job, pastVars, counters>>

----------------------------------------------------------------------------
(* Inputs *)

CommOpen ==
  /\ pc = "idle" /\ Docs # {} /\ ~comm
  /\ comm' = TRUE
  /\ UNCHANGED <<bootVars, doc, cellState, status, clientVars, workerVars,
                 cacheVars, pc, job, pastVars, counters>>

\* The panel that showed the last status is gone.
CommClose ==
  /\ pc = "idle" /\ comm
  /\ comm' = FALSE /\ status' = {}
  /\ UNCHANGED <<bootVars, doc, cellState, clientVars, workerVars,
                 cacheVars, pc, job, pastVars, counters>>

\* Mutant: the status is not sent again when the document changes.
CommMessageQuiet(d) ==
  /\ pc = "idle" /\ comm /\ inputs < MaxInputs /\ d # doc
  /\ doc' = d
  /\ inputs' = inputs + 1
  /\ UNCHANGED <<bootVars, comm, cellState, status, clientVars, workerVars,
                 cacheVars, pc, job, pastVars, faults>>

\* A "document" message replaces order and sources.
CommMessage(d) ==
  /\ pc = "idle" /\ comm /\ inputs < MaxInputs /\ d # doc
  /\ doc' = d
  /\ inputs' = inputs + 1
  /\ UNCHANGED <<bootVars, comm, cellState, clientVars, workerVars,
                 cacheVars, pc, job, pastVars, faults>>
  /\ Broadcast

\* The extension sends the document before each execution, so a cell's code is
\* its visible source (document.ts, executionScheduled).  The frontend clears
\* the cell's outputs.
Jobs ==
  {j \in Job :
     /\ j.kind \in Kinds
     /\ j.kind = "cell" =>
          InDoc(j.cell) /\ doc[Position(j.cell)].source = j.code}

BeginJob(j) ==
  /\ pc = "idle" /\ inputs < MaxInputs
  /\ job' = j
  /\ pc' = IF j.kind = "is_complete" THEN "query" ELSE "ensure"
  /\ j.kind = "is_complete" => started
  /\ shown' = IF j.kind = "cell" THEN [shown EXCEPT ![j.cell] = NotShown] ELSE shown
  /\ struck' = FALSE
  /\ inputs' = inputs + 1
  /\ UNCHANGED <<bootVars, docVars, clientVars, workerVars, cacheVars, acked,
                 cut, faults>>

\* do_shutdown: the worker goes, and the cache with it.
Shutdown ==
  /\ pc = "idle"
  /\ IF started THEN Kill ELSE UNCHANGED workerVars
  /\ started' = FALSE /\ saved' = {} /\ key' = {}
  /\ pc' = "stopped"
  /\ UNCHANGED <<base, initError, docVars, clientVars, job, pastVars, counters>>

Stopped == pc = "stopped" /\ UNCHANGED vars

----------------------------------------------------------------------------
(* How a job ends *)

Idle == pc' = "idle" /\ job' = NoJob /\ kept' = <<>> /\ todo' = <<>>

\* Mutant: the ledger is not put back.
UnwindForgetful == Idle /\ ledger' = ledger

\* restart_and_replay's `except BaseException` puts the ledger back.
Unwind == Idle /\ ledger' = IF pc = "replay" THEN kept ELSE ledger

\* Mutant: nobody reaps the worker.
RaiseDiedUnreaped == UNCHANGED workerVars /\ Unwind

\* WorkerDied reaches the handler: do_execute reaps the worker and so does a
\* bootstrap that fails; the query handlers only report it.
RaiseDied ==
  /\ IF Executing \/ ~started THEN Kill ELSE UNCHANGED workerVars
  /\ Unwind

\* Mutant: the reply is awaited without probing the worker.
RequestDiesOnWrite ==
  /\ Asking
  /\ ~owned
  /\ RaiseDied
  /\ UNCHANGED <<bootVars, docVars, snapshot, cacheVars, pastVars, counters>>

\* A request to a worker that is gone, found by the write or the read.
RequestDies ==
  /\ Asking
  /\ ~alive
  /\ RaiseDied
  /\ UNCHANGED <<bootVars, docVars, snapshot, cacheVars, pastVars, counters>>

\* Mutant: the job is tried again on a fresh worker.
RequestInterruptedRetried ==
  /\ pc \in {"run", "repl"}
  /\ owned /\ faults < MaxFaults
  /\ faults' = faults + 1
  /\ Kill
  /\ struck' = TRUE
  /\ pc' = "ensure"
  /\ UNCHANGED <<bootVars, docVars, clientVars, job, cacheVars, shown, acked, cut,
                 inputs>>

\* An interrupt whose cancellation was not acknowledged within CANCEL_GRACE:
\* the client has killed the worker, WorkerInterrupted goes up.
RequestInterrupted ==
  /\ Asking
  /\ owned /\ faults < MaxFaults
  /\ faults' = faults + 1
  /\ Kill /\ Unwind
  /\ struck' = TRUE
  /\ UNCHANGED <<bootVars, docVars, snapshot, cacheVars, shown, acked, cut, inputs>>

\* TimeoutError: only a bootstrap reaps the worker; otherwise the execute goes
\* on without its client, also when it is the one of a replayed cell.
RequestTimesOut ==
  /\ Asking
  /\ pc \in {"init", "replay"} => ~started \/ "recovery_timeout" \in Surprises
  /\ owned /\ alive /\ faults < MaxFaults
  /\ faults' = faults + 1
  /\ IF ~started THEN Kill
     ELSE /\ late' = IF pc = "query" THEN late ELSE Append(late, Requested)
          /\ UNCHANGED <<owned, alive, snaps, current>>
  /\ cut' = (cut \/ pc = "replay")
  /\ Unwind
  /\ UNCHANGED <<bootVars, docVars, snapshot, cacheVars, shown, acked, struck, inputs>>

\* A reply without the fields of an execute reply fails validation: uncaught.
ReplyInvalid ==
  /\ Asking /\ pc # "query"
  /\ Serving /\ ~Known(Requested.parent)
  /\ Unwind
  /\ UNCHANGED <<bootVars, docVars, snapshot, workerVars, cacheVars, pastVars,
                 counters>>

\* KeyboardInterrupt outside a request: do_execute kills the worker.  A save
\* may be interrupted with the new files written and key.txt old, or torn.
InterruptedOutside ==
  /\ Executing /\ pc # "idle" /\ faults < MaxFaults
  /\ faults' = faults + 1
  /\ Kill /\ Unwind
  /\ struck' = TRUE
  /\ IF pc = "save"
     THEN saved' \in {saved, IF Serving THEN {StateAt(current)} ELSE {}} /\ key' \in {key, {}}
     ELSE UNCHANGED cacheVars
  /\ UNCHANGED <<bootVars, docVars, snapshot, shown, acked, cut, inputs>>

----------------------------------------------------------------------------
(* _ensure_worker *)

Continue(where) ==
  pc' = where /\ UNCHANGED <<job, pastVars, counters>>

EnsureRunning ==
  /\ pc = "ensure" /\ started /\ owned /\ alive
  /\ Continue("dispatch")
  /\ UNCHANGED <<bootVars, docVars, clientVars, workerVars, cacheVars>>

EnsureFirst ==
  /\ pc = "ensure" /\ ~started /\ ~owned
  /\ Started
  /\ base' = 0 /\ initError' = FALSE
  /\ Continue("init")
  /\ UNCHANGED <<started, docVars, ledger, kept, todo, cacheVars>>

\* Mutant: the cell states of the dead worker are kept.
RestartDocKeepingCells ==
  /\ pc = "ensure" /\ started /\ ~alive /\ doc # <<>>
  /\ Started
  /\ ledger' = <<>>
  /\ base' = 0 /\ initError' = FALSE
  /\ Continue("init")
  /\ UNCHANGED <<started, docVars, kept, todo, cacheVars>>

\* Document mode: restart_fresh, cell states dropped, init cell again.
RestartDoc ==
  /\ pc = "ensure" /\ started /\ ~alive /\ doc # <<>>
  /\ Started
  /\ ledger' = <<>>
  /\ cellState' = [c \in Cells |-> NoState]
  /\ base' = 0 /\ initError' = FALSE
  /\ Continue("init")
  /\ UNCHANGED <<started, comm, doc, status, kept, todo, cacheVars>>

\* REPL mode: restart_and_replay.
RestartRepl ==
  /\ pc = "ensure" /\ started /\ ~alive /\ doc = <<>>
  /\ Started
  /\ Continue("restore")
  /\ UNCHANGED <<bootVars, docVars, ledger, kept, todo, cacheVars>>

\* start() fails: worker not built, READY_TIMEOUT, protocol mismatch, death.
StartFails ==
  /\ pc = "ensure" /\ ~alive /\ faults < MaxFaults
  /\ faults' = faults + 1
  /\ Kill
  /\ ledger' = IF started /\ doc # <<>> THEN <<>> ELSE ledger
  /\ Idle
  /\ UNCHANGED <<bootVars, docVars, snapshot, cacheVars, pastVars, inputs>>

InitAbsent ==
  /\ pc = "init" /\ InitCell = {}
  /\ started' = TRUE
  /\ Continue("dispatch")
  /\ UNCHANGED <<base, initError, docVars, clientVars, workerVars, cacheVars>>

InitOk ==
  /\ pc = "init" /\ InitCell # {}
  /\ Elaborated
  /\ ledger' = Append(ledger, Requested.code)
  /\ base' = Len(snaps)
  /\ started' = TRUE
  /\ Continue("dispatch")
  /\ UNCHANGED <<initError, docVars, kept, todo, cacheVars>>

InitFails ==
  /\ pc = "init" /\ InitCell # {}
  /\ Rejected
  /\ initError' = TRUE
  /\ started' = TRUE
  /\ Continue("dispatch")
  /\ UNCHANGED <<base, docVars, ledger, kept, todo, cacheVars>>

----------------------------------------------------------------------------
(* restart_and_replay, after its start *)

\* Mutant: the digests of the files are compared, the ledger is not.
KeyMatchesAnyLedger ==
  CacheOn /\ key # {} /\ \E s \in saved, k \in key : k.state = s

\* The recorded descriptor is that of the ledger and of the files.
KeyMatches == CacheOn /\ key # {} /\ \E s \in saved : key = {[ledger |-> ledger, state |-> s]}

RestoreMisses ==
  /\ pc = "restore" /\ ~KeyMatches
  /\ Continue("check")
  /\ UNCHANGED <<bootVars, docVars, clientVars, workerVars, cacheVars>>

\* load_session makes the saved state a new, current root.
Restore ==
  /\ pc = "restore" /\ KeyMatches /\ Serving
  /\ \E s \in saved : snaps' = Append(snaps, s)
  /\ current' = Len(snaps) /\ snapshot' = Len(snaps)
  /\ Continue("dispatch")
  /\ UNCHANGED <<bootVars, docVars, ledger, kept, todo, owned, alive, late, cacheVars>>

RestoreRefused ==
  /\ pc = "restore" /\ KeyMatches /\ Serving
  /\ Continue("check")
  /\ UNCHANGED <<bootVars, docVars, clientVars, workerVars, cacheVars>>

\* WorkerDied or TimeoutError: the worker is discarded before the replay.
RestoreFails ==
  /\ pc = "restore" /\ KeyMatches
  /\ \/ ~alive /\ UNCHANGED faults
     \/ alive /\ faults < MaxFaults /\ faults' = faults + 1
  /\ Kill
  /\ pc' = "check"
  /\ UNCHANGED <<bootVars, docVars, clientVars, cacheVars, job, pastVars, inputs>>

\* WorkerInterrupted is a WorkerDied: it is caught just the same.
RestoreInterrupted ==
  /\ pc = "restore" /\ KeyMatches /\ "restore_interrupt" \in Surprises
  /\ owned /\ faults < MaxFaults
  /\ faults' = faults + 1
  /\ Kill
  /\ struck' = TRUE
  /\ pc' = "check"
  /\ UNCHANGED <<bootVars, docVars, clientVars, cacheVars, job, shown, acked, cut,
                 inputs>>

\* ledger, self.ledger = self.ledger, []
SetAside == kept' = ledger /\ todo' = ledger /\ ledger' = <<>>

ReplayBegins ==
  /\ pc = "check" /\ alive
  /\ SetAside
  /\ Continue("replay")
  /\ UNCHANGED <<bootVars, docVars, snapshot, workerVars, cacheVars>>

\* The worker was discarded: a second start() before the replay.
ReplayRestarts ==
  /\ pc = "check" /\ ~alive /\ ~owned
  /\ SetAside
  /\ Started
  /\ Continue("replay")
  /\ UNCHANGED <<bootVars, docVars, cacheVars>>

\* The second start() fails, or its assertion does: the worker died on its own
\* and proc is still there.  In the second case the exception is not caught.
RestartFails ==
  /\ pc = "check" /\ ~alive
  /\ \/ owned /\ UNCHANGED <<faults, workerVars>>
     \/ ~owned /\ faults < MaxFaults /\ faults' = faults + 1 /\ UNCHANGED workerVars
  /\ Idle
  /\ UNCHANGED <<bootVars, docVars, ledger, snapshot, cacheVars, pastVars, inputs>>

ReplayCell ==
  /\ pc = "replay" /\ todo # <<>>
  /\ Elaborated
  /\ ledger' = Append(ledger, Head(todo))
  /\ todo' = Tail(todo)
  /\ Continue("replay")
  /\ UNCHANGED <<bootVars, docVars, kept, cacheVars>>

\* "replay diverged": the cell failed, or was cancelled.
ReplayDiverges ==
  /\ pc = "replay" /\ todo # <<>>
  /\ Executing \/ "query_divergence" \in Surprises
  /\ Serving /\ Known(Requested.parent)
  /\ cut' = (cut \/ ~Executing)
  /\ RaiseDied
  /\ UNCHANGED <<bootVars, docVars, snapshot, cacheVars, shown, acked, struck, counters>>

ReplayEnds ==
  /\ pc = "replay" /\ todo = <<>>
  /\ kept' = <<>>
  /\ Continue("dispatch")
  /\ UNCHANGED <<bootVars, docVars, ledger, snapshot, todo, workerVars, cacheVars>>

----------------------------------------------------------------------------
(* The job itself *)

RefuseInitError ==
  /\ pc = "dispatch" /\ initError
  /\ Idle
  /\ UNCHANGED <<bootVars, docVars, ledger, snapshot, workerVars, cacheVars,
                 pastVars, counters>>

\* do_execute picks the mode by whether the cell is in the document, and takes
\* the request's code for the cell's source.
Dispatch ==
  /\ pc = "dispatch" /\ ~initError
  /\ IF job.kind = "cell" /\ InDoc(job.cell)
     THEN /\ doc' = [doc EXCEPT ![Position(job.cell)].source = job.code]
          /\ Continue("prefix")
     ELSE /\ Continue(IF job.kind = "query" THEN "query" ELSE "repl")
          /\ UNCHANGED doc
  /\ UNCHANGED <<bootVars, comm, cellState, status, clientVars, workerVars, cacheVars>>

Record(cell, code) ==
  cellState' = [cellState EXCEPT ![cell] =
    [source |-> code, snapshot |-> Len(snaps), parent |-> Requested.parent]]

RerunUpstream ==
  /\ pc = "prefix" /\ ~PrefixFresh
  /\ Elaborated
  /\ Record(doc[Upstream].id, doc[Upstream].source)
  /\ Continue("prefix")
  /\ UNCHANGED <<bootVars, comm, doc, status, ledger, kept, todo, cacheVars>>

\* UpstreamError, without a broadcast.
UpstreamFails ==
  /\ pc = "prefix" /\ ~PrefixFresh
  /\ Rejected
  /\ Idle
  /\ UNCHANGED <<bootVars, docVars, ledger, cacheVars, pastVars, counters>>

PrefixDone ==
  /\ pc = "prefix" /\ PrefixFresh
  /\ Continue("run")
  /\ UNCHANGED <<bootVars, docVars, clientVars, workerVars, cacheVars>>

RunCell ==
  /\ pc = "run"
  /\ Elaborated
  /\ Record(job.cell, job.code)
  /\ shown' = [shown EXCEPT ![job.cell] = {Append(StateAt(Requested.parent), job.code)}]
  /\ Idle
  /\ UNCHANGED <<bootVars, comm, doc, ledger, cacheVars, acked, struck, cut,
                 counters>>
  /\ Broadcast

\* An error or cancelled reply: broadcast, and the error published.
CellFails ==
  /\ pc = "run"
  /\ Rejected
  /\ Idle
  /\ UNCHANGED <<bootVars, comm, doc, cellState, ledger, cacheVars, pastVars, counters>>
  /\ Broadcast

RunRepl ==
  /\ pc = "repl"
  /\ Elaborated
  /\ ledger' = Append(ledger, job.code)
  /\ Continue("save")
  /\ UNCHANGED <<bootVars, docVars, kept, todo, cacheVars>>

ReplFails ==
  /\ pc = "repl"
  /\ Rejected
  /\ Idle
  /\ UNCHANGED <<bootVars, docVars, ledger, cacheVars, pastVars, counters>>

ReplyOk ==
  /\ Idle
  /\ acked' = Append(acked, job.code)
  /\ UNCHANGED <<bootVars, docVars, ledger, snapshot, shown, cut, inputs>>

\* save_session of the client, with the worker's answer: saved, or refused.
SaveAnswered ==
  /\ pc = "save" /\ CacheOn /\ Serving
  /\ \/ saved' = {StateAt(current)} /\ key' = {[ledger |-> ledger, state |-> StateAt(current)]}
     \/ saved' = saved /\ key' = {}
  /\ ReplyOk
  /\ UNCHANGED <<workerVars, struck, faults>>

\* No cache; or the worker died, timed out or was killed by an interrupt: the
\* files may be new, old or torn, key.txt is what it was.
SaveSkipped ==
  /\ pc = "save"
  /\ \/ ~CacheOn /\ UNCHANGED <<saved, workerVars, struck, faults>>
     \/ /\ CacheOn /\ ~alive
        /\ saved' \in {saved, {}}
        /\ UNCHANGED <<workerVars, struck, faults>>
     \/ /\ CacheOn /\ alive /\ faults < MaxFaults
        /\ saved' \in {saved, {}, {StateAt(current)}}
        /\ faults' = faults + 1
        /\ \/ Kill /\ struck' = TRUE
           \/ UNCHANGED <<workerVars, struck>>
  /\ ReplyOk
  /\ UNCHANGED key

\* complete, inspect or is_complete, answered from the current snapshot.
AnswerQuery ==
  /\ pc = "query"
  /\ Serving
  /\ Idle
  /\ UNCHANGED <<bootVars, docVars, ledger, snapshot, workerVars, cacheVars,
                 pastVars, counters>>

----------------------------------------------------------------------------
Input ==
  \/ CommOpen \/ CommClose
  \/ \E d \in Docs : CommMessage(d)
  \/ \E j \in Jobs : BeginJob(j)
  \/ Shutdown

Ensure ==
  \/ EnsureRunning \/ EnsureFirst \/ RestartDoc \/ RestartRepl \/ StartFails
  \/ InitAbsent \/ InitOk \/ InitFails

Recover ==
  \/ RestoreMisses \/ Restore \/ RestoreRefused \/ RestoreFails
  \/ RestoreInterrupted \/ ReplayBegins \/ ReplayRestarts \/ RestartFails
  \/ ReplayCell \/ ReplayDiverges \/ ReplayEnds

Serve ==
  \/ RefuseInitError \/ Dispatch \/ RerunUpstream \/ UpstreamFails \/ PrefixDone
  \/ RunCell \/ CellFails \/ RunRepl \/ ReplFails
  \/ SaveAnswered \/ SaveSkipped \/ AnswerQuery

Raise == RequestDies \/ RequestInterrupted \/ RequestTimesOut \/ ReplyInvalid

Thread == Ensure \/ Recover \/ Serve \/ Raise

Next == Input \/ Thread \/ InterruptedOutside \/ WorkerDies \/ LateEnds \/ Stopped

Spec == Init /\ [][Next]_vars

\* The thread goes on while it can, and so does a worker with its requests.
FairSpec == Spec /\ WF_vars(Thread) /\ WF_vars(LateEnds)

----------------------------------------------------------------------------
(* Properties *)

TypeOK ==
  /\ started \in BOOLEAN /\ base \in Nat /\ initError \in BOOLEAN
  /\ comm \in BOOLEAN /\ doc \in Seq(DocCell)
  /\ cellState \in [Cells -> CellState \cup {NoState}]
  /\ status \in SUBSET [fresh : SUBSET Cells, stale : SUBSET Cells]
  /\ ledger \in State /\ kept \in State /\ todo \in State /\ snapshot \in Nat
  /\ owned \in BOOLEAN /\ alive \in BOOLEAN /\ (alive => owned)
  /\ snaps \in Seq(State) /\ current \in Nat
  /\ IF alive THEN current < Len(snaps) ELSE snaps = <<>>
  /\ late \in Seq([parent : Nat, code : Codes])
  /\ saved \in SUBSET State /\ key \in SUBSET [ledger : State, state : State]
  /\ pc \in {"idle", "ensure", "init", "restore", "check", "replay", "dispatch",
             "prefix", "run", "repl", "save", "query", "stopped"}
  /\ job \in Job \cup {NoJob}
  /\ shown \in [Cells -> SUBSET State] /\ acked \in State /\ struck \in BOOLEAN
  /\ cut \in BOOLEAN
  /\ inputs \in 0 .. MaxInputs /\ faults \in 0 .. MaxFaults

InitState == IF InitCell = {} THEN <<>> ELSE <<CHOOSE c \in InitCell : TRUE>>

\* Elaborating the visible notebook through its k-th cell, from nothing.
Visible(k) ==
  LET v[n \in 0 .. Len(doc)] ==
        IF n = 0 THEN InitState
        ELSE IF doc[n].source = Blank THEN v[n - 1]
        ELSE Append(v[n - 1], doc[n].source)
  IN v[k]

FreshState(k) == StateAt(cellState[doc[k].id].snapshot)

\* "cell i's snapshot equals elaborating the visible prefix through i": for
\* every cell that counts as fresh, whatever was edited, moved, run, timed out
\* or killed before (_ensure_prefix and the document branch of _ensure_worker).
FreshIsVisiblePrefix ==
  alive => \A k \in Nonblank : ~Walk[k].broken =>
    Known(cellState[doc[k].id].snapshot) /\ FreshState(k) = Visible(k)

\* A cell that an edit, a move or a re-run above it invalidated is marked: what
\* is stale between two jobs was stale in the last broadcast, also after jobs
\* that ended without one (UpstreamError, WorkerDied, Interrupted).
NoHiddenStaleness ==
  pc = "idle" => \A s \in status : StatusNow.stale \subseteq s.stale

\* Outputs "always correspond to the source shown above them" (README.md:11-12):
\* the output displayed under a cell that is reported fresh is what the visible
\* prefix yields.
FreshOutputsCorrect ==
  pc = "idle" => \A s \in status, k \in 1 .. Len(doc) :
    doc[k].id \in s.fresh => shown[doc[k].id] \subseteq {Visible(k)}

\* In REPL mode a cell is elaborated on the state that the ledger describes:
\* the next restart must not have "report[ed] success over a half-empty
\* environment" (client.py:278-282).
ReplStateIsLedger ==
  pc = "repl" /\ alive => Known(snapshot) /\ StateAt(snapshot) = ledger

IsSubsequence(s, t) ==
  \E f \in [1 .. Len(s) -> 1 .. Len(t)] :
    /\ \A m, n \in 1 .. Len(s) : m < n => f[m] < f[n]
    /\ \A n \in 1 .. Len(s) : s[n] = t[f[n]]

\* What a worker may hold of the ledger: all of it and nothing else, unless a
\* replay was once left halfway with its worker alive; then some of its cells,
\* in their order, and still nothing else.
Renders(state, sources) ==
  IsSubsequence(state, sources) /\ (~cut => state = sources)

\* In REPL mode a cell is elaborated on a state that renders the ledger, after
\* any number of deaths, restores, replays, timeouts and interrupts: no foreign
\* cell and none twice; and a cell is missing only where a replay was cut
\* (restart_and_replay; a timed-out execute that commits late).
ReplStateFromLedger ==
  pc = "repl" /\ alive => Known(snapshot) /\ Renders(StateAt(snapshot), ledger)

\* A session restored from the cache is the one a replay of the ledger would
\* have rebuilt, or what a stump saved under that ledger's key
\* (_cache_descriptor, _try_restore_session).
RestoreRendersLedger ==
  [][pc = "restore" /\ pc' = "dispatch" =>
       Renders(snaps'[snapshot' + 1], ledger)]_vars

\* A REPL cell that was answered "ok" stays in the ledger, whatever interrupts a
\* recovery halfway (restart_and_replay's `except BaseException`).
AckedCellsKept == pc = "idle" => IsSubsequence(acked, ledger)

\* "recovery paths must never auto-restart" on an escalated interrupt
\* (errors.py:18-21): in the job it struck, no worker is started any more.
NoRestartAfterInterrupt == [][struck /\ struck' /\ alive' => alive]_vars

\* Every job ends: no order of deaths, interrupts and timeouts makes a recovery
\* or the revalidation of a prefix go round for ever.
EveryJobEnds == pc \notin {"idle", "stopped"} ~> pc = "idle"
============================================================================
