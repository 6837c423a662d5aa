# A formal model of the Lean Jupyter kernel

This directory holds a TLA+ model of `lean-jupyter-kernel`: the Lean worker
process, the Python kernel adapter that drives it, and the JupyterLab plugins
that show the notebook, with the failures they are written to survive. TLC
checks the model on small instances; the safety properties of the worker, of the
adapter in both its modes, of the session cache, of the document plugin, of the
highlighters and of the rendering of paths are also proved with TLAPS, for any
number of requests, cells, panels, faults and texts.

Paths below are relative to `src/`.

## 1. The system

A notebook is served by three processes and a plugin.

| Part | Source | State it keeps | Operations |
| --- | --- | --- | --- |
| **Worker** | `worker/Worker.lean`, `worker/Worker/{Output,Protocol}.lean` | request queue, in-flight slot, cancellation tokens, output sink; append-only array of snapshots and the current one | `execute`, `inspect`, `is_complete`, `complete`, `describe`, `save_session`, `load_session`, `cancel` |
| Cell elaboration | `worker/Worker/Frontend.lean` | none between cells | `processCell`, `classifyInput` |
| Session cache, worker side | `worker/Worker/SessionCache.lean` | olean, scope and head file of a saved session; import generation | save, load |
| Queries | `worker/Worker/Query.lean` | none | completion, inspection, name resolution |
| **Kernel adapter** | `nbdsl_kernel/nbdsl_kernel/{kernel,handlers,rendering,protocol}.py` | `_started`, `base_snapshot`, `_init_error` | `do_execute`, `do_complete`, `do_inspect`, `do_is_complete`, `do_shutdown`, `_ensure_worker`, `_ensure_prefix` |
| **Document session** | `nbdsl_kernel/nbdsl_kernel/document.py` | the comm, the document, a state per cell | `comm_open`, `comm_msg`, `comm_close`, `broadcast_status` |
| **Worker client** | `nbdsl_kernel/nbdsl_kernel/worker/client.py` | the process, replay ledger, client snapshot, pending replies | `start`, `request`, `execute`, cancellation, `kill`, `restart_fresh`, `restart_and_replay` |
| **Session cache, client side** | `nbdsl_kernel/nbdsl_kernel/worker/cache.py` | `key.txt` | `save_session`, `_try_restore_session` |
| Frame decoder | `nbdsl_kernel/nbdsl_kernel/worker/frames.py` | byte buffer | `_fill`, `read_frame` |
| **Document plugin** | `jupyterlab_nbdsl/src/{document,documentMessage,staleStatus}.ts` | per notebook panel: comm, debounce timer, `restarting`; the class of each cell | document streaming, stale marks, restart, kernel switch |
| Highlighters | `jupyterlab_nbdsl/src/{lean4,casdsl,index}.ts` | comment depth and kind, carried from line to line; the extra keywords | `token`, `readKeywords`, registration |
| Path renderer | `jupyterlab_nbdsl/src/{pathData,pathRenderer}.ts` | the children of an output's widget | `parsePath`, `buildPathNode`, `renderModel` |
| DSL | `dsls/nbdsl/` | registries of environment extensions | `resolvePath`, macros, elaborators |
| Installer, release scripts | `nbdsl_kernel/nbdsl_kernel/install.py`, `scripts/` | none | text to text |

How they interact:

* The frontend talks to the adapter by Jupyter messages (execute, complete,
  inspect, is_complete, interrupt, shutdown) and by a comm on which it sends
  the ordered document and receives which cells are fresh or stale.
* The adapter is a single thread. A request of the notebook is served to its
  end before the next one; the user can break in with an interrupt only.
* The client and the worker share two pipes of length-prefixed frames. There is
  one client per worker. `cancel` frames overtake the queue: the worker's
  reader task acts on them while the main task elaborates.
* The plugin sends the document on its comm whenever a timer fires after an
  edit, and at once before an execution, after a kernel switch and when a
  restarted kernel is idle. Document and execution share the shell channel,
  statuses and kernel status the iopub channel; each keeps its order, and the
  two do not keep theirs with each other.
* Worker and client share a cache directory: the worker writes the session
  files, the client writes `key.txt` last, and reads it first.

What is hard here:

* **Two tasks in the worker** share the queue, the in-flight slot and the
  tokens without a lock around the pair "read the slot, set the token".
* **Cancellation is cooperative** and races the end of the cell, the reading of
  its outputs and its commit.
* **Snapshot ids are small numbers** that a fresh worker hands out again. The
  adapter caches them per cell, across edits, moves, deaths and restarts.
* **Every wait can end in five ways**: a reply, a Python-side timeout (the
  worker goes on), an interrupt acknowledged, an interrupt escalated to a kill,
  a death. Recoveries are made of such waits and can be hit by the same faults.
* **Two execution modes** share one worker, one ledger and one snapshot.
* **The plugin learns late** of restarts and of closed comms: it sends documents
  to processes that do not know its comm and gets statuses that are out of date.
* **Two tokenizers** are copies of each other and must stay so; a keyword list is
  kept in three files.
* **The session cache** is several files in a directory that outlives workers.

What makes each part correct:

* Worker: replies in request order; a cancel only hits its own request; a cell
  is committed whole or not at all; committed snapshots never change; outputs
  appear only under the cell that emitted them; a closed pipe ends the process.
* Adapter, document mode: a cell reported or treated as fresh stands for the
  elaboration of the visible prefix through it; what is stale is marked.
* Adapter and client, REPL mode: a cell runs on the state the ledger describes,
  and nothing foreign or double ever gets into it; an acknowledged cell stays in
  the ledger; a restored session is the replayed one; after an escalated interrupt
  nothing is restarted within that job.
* Both: every job ends.
* Document plugin: the kernel has the document before the execution that relies
  on it; every edit arrives; when nothing is under way the kernel has the shown
  notebook and the marks are its last word.
* Highlighters: every text is painted to its end, comments are seen as comments,
  and both languages agree on what is comment, string or code. Renderer: the
  last payload whole, and nothing else.

## 2. Modules

```
Session  <--refines--  Worker  --EXTENDED BY-->  MCWorker            (TLC)
                          \------EXTENDED BY-->  WorkerInv -> WorkerProofs -> SessionProofs (TLAPS)
Kernel   --EXTENDED BY-->  MCKernel                                  (TLC)
         |-EXTENDED BY-->  KernelInv -> KernelProofs                 (TLAPS)
         \-EXTENDED BY-->  KernelDocInv -> KernelDocProofs           (TLAPS)
SessionCache --EXTENDED BY-->  MCSessionCache                        (TLC)
             \-EXTENDED BY-->  SessionCacheInv -> SessionCacheProofs (TLAPS)
Frontend --EXTENDED BY-->  MCFrontend                                (TLC)
         \-EXTENDED BY-->  FrontendInv -> FrontendProofs             (TLAPS)
Stream -> CasDsl -> Lean4 --\
                   PathView --> CellView --> MCCellView              (TLC)
                                         \-> CellViewInv -> CellViewProofs (TLAPS)
RecursionProofs: lemmas that KernelDocProofs, FrontendProofs and
                 CellViewProofs use                                  (TLAPS)
```

### `Worker` -- `worker/Worker.lean`, `worker/Worker/Output.lean`, `Frontend.lean`

One step per access to the state the two tasks share.

| Model | Code |
| --- | --- |
| `reqPipe`, `reqClosed` | stdin of the worker, as frames; `torn` is a frame cut by a dying client |
| `reader`, `held` | `readerLoop`; `held` is the token it has found in the slot and not yet set |
| `queue` | the `CloseableChannel` between the tasks |
| `inflight`, `tokens` | the in-flight slot (at most one id) and the ids whose token is set |
| `pc`, `cur`, `rep` | `mainLoop`, `handleRequest`, `handleExecute`: control point, request, reply |
| `elab`, `sink`, `outs`, `publ` | what `processCell` returned; the `emitOutput` sink; the drained bundle; what is published of it |
| `snapshots`, `current` | `Session` |
| `disk` | the state the session cache holds |
| `sent`, `cancels` | history: what the client has written |

`ReaderTakesCancel` reads the slot and `ReaderSetsToken` sets the token: the
main task may move in between. `DecidePublish` and
`ReplyCancelled / ReplyError / Commit` are the two separate readings of the
token (Worker.lean:111 and :116). `EndElaboration` may end clean, with errors,
or cut short; the last only with the token set, and a cut-short cell may carry no
error message at all (an interrupt is not logged), so that only the token tells
it from a complete one. A cell of `Spin` does not end by itself: a cancellation
ends it where it reaches a checkpoint, and a cell of `Deaf`, an interpreted loop
that reaches none (docs/protocol.md, `cancel`), is ended by the client's kill.
`LateOutput` is a task spawned by a finished cell that still calls
`emitOutput`. `Die` may happen at any step.

Abstracted: a cell's meaning (a state is the sequence of the cells elaborated),
messages and info trees, what queries answer, JSON.

### `Session`

What a worker promises with no task, queue, token or pipe in sight: each
request takes effect and is answered in one step. `Worker!Abstract` is the
refinement mapping: an answer counts from the step that builds it, which is the
step that changes the session. `Die` may take the answer that was built and
not written.

### `Kernel` -- the adapter, the document session, the client, the cache

`pc` is where the thread stands; one step per request to the worker and per
stretch of Python between two requests.

| Model | Code |
| --- | --- |
| `started`, `base`, `initError` | `_started`, `base_snapshot`, `_init_error` |
| `comm`, `doc`, `cellState`, `status` | `DocumentSession`; the last broadcast |
| `ledger`, `snapshot`, `owned` | `WorkerClient.ledger`, `.snapshot`, `.proc is not None` |
| `kept`, `todo` | locals of `restart_and_replay` |
| `alive`, `snaps`, `current` | the worker process and its session |
| `late` | execute requests that timed out and that the worker still works on |
| `saved`, `key` | the session files and `key.txt`, with the digests as the state they digest |
| `shown`, `acked`, `struck`, `cut` | history: the output under each cell, the REPL cells answered ok, whether an escalated interrupt hit the current job, whether a replay was ever left halfway with its worker alive |

`Walk` is the walk over the visible cells that `_ensure_prefix`
(kernel.py:167-204) and `broadcast_status` (document.py:56-86) both do.
`Ensure` is `_ensure_worker` with `_run_init_cell`; `Recover` is
`restart_and_replay` with `_try_restore_session`; `Serve` is the body of
`do_execute` and of the query handlers; `Raise` are the ways out by an
exception. `WorkerDies`, `LateEnds` and `InterruptedOutside` are what happens
to the thread from outside. `RequestTimesOut` and `ReplayDiverges` can hit each cell
of a replay: only `do_execute` kills the worker for a divergence (kernel.py:235-241),
and nobody for a timeout, so that a query, or any timeout, may leave a worker that has
part of the ledger. `cut` records it.

A document's cells have different ids (`KernelAssumption`): a notebook's ids are
unique, and document.py:28-29 keeps sources and states in dicts by id.

The worker inside `Kernel` is the one `Session` describes: an `execute` commits
on the parent it names, or leaves no trace. `Worker` is checked to implement
that description.

### `SessionCache` -- `worker/Worker/SessionCache.lean`, `worker/cache.py`

The cache directory of a console session, which `Kernel` and `Worker` take in one
step, file by file.

| Model | Code |
| --- | --- |
| `ledger`, `snap` | `WorkerClient.ledger`; the state that `.snapshot` names |
| `asked` | what the thread waits for, or does next |
| `olean`, `scope`, `head`, `key` | `<gen>.olean` by its generation, `scope.json`, `module.txt`, `key.txt` |
| `alive`, `cur`, `queue` | the worker, its current state, the requests it has not answered |
| `writing` | how far `SessionCache.save` has come |
| `cut`, `stands` | history: whether a replay was left halfway with its worker alive; the cells behind the last one acknowledged |

An environment is the set of its cells, each with its number: in the oleans that
it imports, and its own. `freshModule` counts the modules of the chain imported
so far, as the code does, and saves may go wrong anywhere: each file is first
emptied, then written (`WritesOlean`, `WritesScope`, `WritesHead`), a worker may
die between any two steps, and a save whose client has timed out goes on while
the client runs the next cell. Executes and saves wait in one queue, as in
`Worker`. What `importModules` brings in is `Chain`, the least set closed under
the imports of the files there are; a chain with a gap, a cycle, or a cell
declared twice is a miss, as is any exception of `load`. A digest is the content
of the file.

A replay goes cell by cell, as in client.py:283-293: `ReplaysCell` sends the next one
on the snapshot of the one before, `Commits` takes its answer, `ReplayEnds` closes it.
It may stop at any cell: by a death, by a cell that diverges (`ReplayDiverges`: an
execute kills the worker, a query keeps it), or by a deadline (`TimesOut`), which nobody
answers with a kill. The client then has the whole ledger again and the worker part of
it; the next cell runs on that part, is acknowledged, saved, and gets a key with the
whole ledger. `ledger` is the list set aside for the replay, which is the client's again
however it ends.

### `Frontend` -- the document plugin, its kernel connection, the comm's other end

A handler of the browser's event loop is one step; so is the handling of one
message by the kernel.

| Model | Code |
| --- | --- |
| `cells`, `loaded` | the notebook's shared model; `context.ready` |
| `panel`, `comm`, `timer`, `restarting` | a `NotebookPanel` and the locals of `track()` |
| `marks` | the cells whose node has `STALE_CLASS` |
| `live`, `opened` | JupyterLab's comms that are not disposed; how many each panel has created |
| `kind`, `up`, `greeted` | the kernel: of nbdsl, another or none; whether the process runs and has been idle |
| `comms`, `kdoc`, `last` | `DocumentSession`: `_doc_comms`, the document, the stale cells of the last broadcast |
| `shell`, `iopub` | the messages under way to and from the kernel, in order |
| `incarnation`, `seen` | history: the kernel processes started, and the last one the panels know of |

`Send` is `send()` of a set of panels in any order, as one signal reaches every
panel on the session. `Run` is the whole of `executionScheduled` and the
`execute_request` that JupyterLab dispatches after it. `UserRestarts` and
`ServerRestarts` differ in when the panels learn of it: at once, or by a status
on iopub that has to get through, with an "idle" of the old process possibly in
between. A process that dies takes any prefix of the shell channel with it.
Which cells are stale is `Kernel`'s subject: a broadcast here names any of the
document's. JupyterLab, ipykernel and jupyter_client are modelled as the plugin
and the kernel use them.

### `Stream`, `CasDsl`, `Lean4`, `PathView`, `CellView` -- what is shown of a cell

`CasDsl!token` and `Lean4!token` are one call of the tokenizers: `Rules` is the
chain of `stream.match` in the order of the code, each with the position it
would end at; the first that consumes is taken. `Stream` is what they use of
CodeMirror and of regular expressions; a line is a sequence of symbols, and a
word of the keyword lists is one symbol (see the module's comment). `CellView`
puts the same text in an editor of each language and lets them run, token by
token and line by line; `readKeywords` and the registration of index.ts decide
the keywords of the lean4 one. `PathView` has the payloads of the path MIME type
and the nodes built for them; `Render` is `renderModel` on one widget, again and
again. Editors and output do not meet, so that runs explore them one at a time.

### `MCWorker`, `MCKernel`, `MCSessionCache`, `MCFrontend`, `MCCellView`

Small sets for TLC: notebooks with their edits, cells that spin; texts and
payloads.

### `WorkerInv`, `KernelInv`, `KernelDocInv`, `SessionCacheInv`, `FrontendInv`, `CellViewInv` and the `...Proofs` modules

The inductive invariants and the proofs (section 4); `RecursionProofs` has the
lemmas about recursion over a sequence.

## 3. Runs

| Run | Instance | Question |
| --- | --- | --- |
| `WorkerSession` | 2 requests of every kind, parents 0 and 1, surviving tasks, a saved session or none at the start | Are snapshots a DAG of whole cells, immutable, and does the worker implement `Session`? |
| `WorkerLive` | 2 requests, execute and inspect, a cell that ends only by a cancellation and one only by a kill | Do replies keep the order, do cancels hit only their own request, do outputs stay with their cell; is every request answered, does a cancel that lands end a cell that reaches a checkpoint, does a closed pipe end the worker? |
| `WorkerCancelledOutputs` | 2 executes | Violated: a cancelled reply can carry outputs (finding 1) |
| `KernelDoc` | 2 cells, 5 documents (edit, move, insertion, blank cell), init cell, 6 inputs, 2 faults | Do fresh cells stand for the visible prefix, and is what is stale marked? |
| `KernelRepl` | console cells and queries, no init cell, session cache, 4 inputs, 3 faults, also within a replay | Do cells run on the ledger's state, or in its order on what a replay left of it; do acknowledged cells stay, does a restore give what the replay would? |
| `KernelAny` | 1 cell, its edit and an empty document, console cells, queries, init cell, cache, every surprise, 4 inputs, 2 faults | Does every job end, is staleness never hidden? |
| `SessionCache` | 4 cells of 2 sources, 4 deaths, timeouts or interrupts, replays that diverge | Does a matching key load what the last cell left, whatever was torn; is a recovered session the ledger's, or in its order what a replay left of it; do generations only import older ones and stay as they are while mapped? |
| `Frontend` | one panel, one cell with an edit and a change of type, kernels with and without the comm target, 3 events | Does an execution find its document, does every edit arrive, does what settles agree? |
| `CellView` | about 4,700 texts in both editors, 2 settings, 165 payloads in any order | Is every text painted, is no comment missed, do the two languages agree, is a path shown whole? |
| `KernelStump` | REPL mode, a replay that diverges inside a query | Violated: a cell runs on part of the ledger (finding 2) |
| `KernelFreshOutputs` | document mode, one edit, no fault at all | Violated: a fresh cell under an old output (finding 3) |
| `KernelInterruptedRestore` | an escalated interrupt during `load_session` | Violated: the job starts another worker (finding 4) |

**Bounds.** Two requests are the least for a cancel of one execute to arrive
in the next one, for a reply to overtake another, and for outputs or a token to
leak; order, cancels and outputs are proved for any number (section 4). Two parents
give a chain, a branch and an unknown parent. In `Kernel`, two cells
give one prefix cell and one that depends on it, which is all that the reuse rule
relates (a cell and the snapshot reached above it); six inputs are: open document,
run both cells, edit, run, and one more. `MaxFaults`
counts deaths, escalated interrupts, timeouts and failed starts; three let a
recovery be hit, recovered, and hit again. `MaxInputs` and `MaxFaults` only
bound the inputs: every step the program takes by itself is unbounded. A run
that has used up its inputs can still shut down, and `Stopped` and `Gone` are
the final states, so no run switches the deadlock check off.

In `SessionCache`, four cells and four faults let a session be saved, recovered
from the cache, saved under the next generation, torn there, replayed, saved
under generation 0 again, and recovered once more; or a replay be left halfway, a cell
run on what is there, its save torn or keyed, and recovered. The run has some 2.6
million states and takes a good minute.

In `Frontend` an event is an edit, an execution, a closing, a kernel switch, a
crash or a restart. Three are the least for an edit, a restart and an execution
to race, or for two restarts around an edit; one panel is enough for these, since
panels share only the kernel (two panels with one event each were explored as
well and hold the same properties; the theorems cover any number). One cell
suffices where order within the document plays no role: `Document` keeps the
notebook's order by definition.

The texts of `CellView` are: two lines of up to three marks that open, close and
nest comments and strings; one line of up to five marks of strings, escapes and
character literals; every pair of 22 symbols, which has one of each kind of token;
up to three of the symbols on which the languages differ; and every word of every
list. A comment needs two marks and a nested one four, so that three on each of
two lines give a nested comment carried over. The paths have up to three steps,
the least with two waypoints.

**Fairness.** `Worker!FairSpec` has weak fairness of the reader and of the main
task: both are operating-system threads (`IO.asTask` with a dedicated thread,
and the main thread) that neither wait on a lock nor poll. That an elaboration
which may end does end is part of it. What may not end, a cell of `Spin` whose token
is not set and a cell of `Deaf` in any case, is left out of the fairness and named in
the properties: `CancelEndsElaboration` speaks of cells that reach a checkpoint, and
for the others there is the client's grace window and its kill (client.py:314-323),
of which no liveness is claimed. Nothing is assumed of the client. `Kernel!FairSpec` has weak
fairness of the thread, whose waits are slices of a poll with a deadline and a
probe of the process (frames.py:56-69), and of a worker that goes on with
timed-out requests (each is bounded by its own elaboration). Nothing is
assumed of faults, interrupts or the user. `Frontend!FairSpec` has weak fairness
of the browser's event loop, whose handlers and timers all get their turn, and
of the server: a running kernel handles its messages and is idle once, and the
restarter, which polls, finds a dead process. Edits, runs, switches and crashes
are free. `CellView!FairSpec` has weak fairness of highlighting: CodeMirror calls
`token` to the end of the text.

**Restrictions of single runs.** What the checked properties do not survive is
named, not hidden:

* `Surprises` names three faults: `query_divergence`, a replayed cell that diverges
  while a *query* recovers; `recovery_timeout`, a timeout of a recovery's own request;
  `restore_interrupt`, an escalated interrupt of the restore. `KernelAny` has all of
  them and `KernelDoc` none. In document mode a timeout of the init cell leaves
  `base_snapshot` 0 with the worker running, so the next cells run without the init
  cell. `KernelRepl` has the first two, and its properties say what they leave: they
  may cost cells of the *session* (finding 2), never of the ledger. The third is
  finding 4.
* The documents of `KernelDoc` are not empty. With an empty document a recovery
  takes the REPL branch and keeps the per-cell states; when cells come back
  their old ids count as fresh in the new worker (kernel.py:148).
* `KernelRepl` has no init cell (the theorems of section 4 hold with one, and
  `KernelAny` has one) and never opens a document. A REPL cell run after document cells
  builds on the client's snapshot, a document state, and goes into the ledger
  and the cache (kernel.py:266). After a cache restore `base_snapshot` names a
  snapshot of another worker (kernel.py:127).
* `SessionCache` has one console session without documents, and no cell is run
  before the last save is answered or given up, as the thread is one. After
  `restart_fresh` (document mode) the ledger starts over while the files stay: a
  replayed or fresh worker writes generation 0 again, under a head that may
  still say 1, and a ledger that happens to come back to an old one would match
  the key of a mixture. With an action that empties the ledger
  `MatchingKeyLoadsLastCell` fails; the two modes in one session are the same
  restriction as in `KernelRepl`. An init cell is in the ledger from the start.
* `TasksOutlive` is false where outputs are the question: a task that outlives
  its cell can emit into the next cell's bundle, for there is one sink
  (Output.lean:27).
* `Jobs` assumes what the plugin arranges: the document reaches the kernel
  before the execution, so a cell's code is its visible source. `Frontend` shows
  it (`DocumentBeforeExecution`), for every execution sent to the process that
  handles it. Between a crash and the news of it the plugin sends to a process
  that is gone: the document is then ignored by the next one, whose comms are
  others, and the execution runs as at a console (document.ts:82, document.py:41).
* `SettledInAgreement` leaves out notebooks without code cells: the kernel
  sends no status for an empty document (document.py:59) and a mark may stay.
* `DialectsAgree` compares lines up to the first on which the languages are
  meant to differ (casdsl.ts:65-76, 173-189): `Comparable` names it.
  `KeywordsMirrored` is about the default setting, on lines without underscore,
  superscript, backslash and ellipsis.

### Findings

1. **A cancelled reply with outputs** (`WorkerCancelledOutputs`).
   `handleExecute` reads the token for the outputs (Worker.lean:111) and again
   for the status (:116); the reader may set it in between. The comment at
   :106-109 promises the outputs are discarded on cancel.
2. **A stump after a query's recovery** (`KernelStump`). `complete` or
   `inspect` finds the worker dead and replays; a replayed cell fails; the
   handler reports it and leaves the new worker alive with part of the ledger
   (handlers.py:42). The next execute finds a running worker. The comment at
   client.py:278-282 names exactly this as what must not happen. A replayed cell
   that runs into its deadline leaves the same, in a query (handlers.py:42) and in an
   execute (kernel.py:215-243 does not catch `TimeoutError`). The cells are back
   with the next worker that replays the ledger, but not if the next one loads the
   cache: a cell run on the stump is saved with a key that names the whole ledger.
   `Renders` in `Kernel` and `SessionCache` says what is still true then.
3. **Fresh, under an old output** (`KernelFreshOutputs`). Running a cell re-runs
   an edited cell above it without publishing its reply; that cell is then
   reported fresh while the screen shows what its old source printed
   (kernel.py:194). README.md:11-12 says that outputs always correspond to the
   source above them.
4. **A restart after an escalated interrupt** (`KernelInterruptedRestore`).
   `WorkerInterrupted` is a `WorkerDied`, and the restore catches the latter
   (cache.py:104): the job goes on to start a worker and run the cell the user
   interrupted. errors.py:18-21 says recovery paths must never do so.

### Remarks on wording

Read while modelling, and of no consequence for the checked properties:

* SessionCache.lean:28-29 says that each save writes the next free generation and
  the chain stays intact. A worker that recovered by replay has imported none and
  writes generation 0 again, which the olean of generation 1 imports. It is
  harmless in a console session: the ledger has then grown beyond the key
  (`MatchingKeyLoadsLastCell`).
* lean4.ts:171-173 says constants and domains "are atoms in casdsl.ts"; CasDsl
  paints domains as type names (casdsl.ts:199). `KeywordsMirrored` takes both.
* casdsl.ts:19-22 says that literals follow Lean's lexical rules; a string that
  goes on over lines is one in Lean, while both tokenizers end it with the line.
  A character outside the 16-bit range between quotes is no literal for them:
  `CHAR_LITERAL` has no `u` flag.
* After `_`, a superscript or `\NN` an apostrophe can open a character literal in
  CasDsl, where Lean 4 still reads an identifier; `...x` is a method for Lean 4
  and an ellipsis with an identifier for CasDsl.

## 4. Proofs

`WorkerProofs` proves, for any sets of requests, cells and parents, any number
of cancels and any moment of death:

| Theorem | States | Inductive invariant |
| --- | --- | --- |
| `TypeCorrect` | `Spec => []TypeOK` | `TypeInv` = `TypeOK` and `ControlInv` |
| `CancelSafe` | `Spec => []CancelHitsOwnRequest` | `CancelInv` |
| `AtomicCells` | `Spec => []CellsAreWhole` | `AtomicInv` |
| `Persistent` | `Spec => SnapshotsArePersistent` | `TypeInv` suffices |
| `DagCorrect` | `Spec => []SnapshotDag` | itself, with `TypeInv` |
| `OrderCorrect` | `Spec => []RepliesInOrder` | `OrderInv` |
| `OutputsLocal` | without surviving tasks, `Spec => []OutputsRequestLocal` | `OutputsInv` |

But for `TasksOutlive = FALSE` in the last one, the only assumption is
`WorkerAssumption` (`Spin` is a set of cells with `Deaf` among them, parents are
naturals, `Ops` are known kinds); TLC evaluates it on every run.

Why the strengthenings are needed:

* `ControlInv`. The type of a new snapshot depends on the request being an
  execute with a parent that exists, which was established several steps ago.
* `CancelInv`. A reply says "cancelled" because a token is set; a token is set
  because the reader held it; it held it because a cancel frame named the
  in-flight id. Each link has its conjunct, back to the client's `cancels`.
* `AtomicInv`. A cut-short candidate may look clean. What saves it is that
  its token was set when it was cut short and that nothing but a death clears a token, so
  the second reading finds it.
* `OutputsInv` follows an output from the sink to the drained copy, to what is
  published of it and into the reply.
* `OrderInv`. What was sent is the concatenation of what is answered, the one
  request being served, the queue, and the ordinary requests in the pipe, with
  cancel and torn frames strewn among the last. `OrderAhead` says so by
  positions rather than by filtering the pipe: a filtered sequence is
  defined by recursion, and nothing could be proved of it by induction. It is
  guarded by `Alive`, as a death drops the queue.

Each step lemma (`TypeStep`, `CancelStep`, `AtomicStep`, `DagStep`,
`OrderStep`, `OutputsStep`) has one case per action; the long cases of the order proof are
lemmas of their own.

`SessionProofs` proves `WorkerImplementsSession`, `Spec => RefinesSession`, under
`WorkerAssumption` alone: initial states map to initial states (`RefinesInit`),
and every step is a step of `Session` or a stutter (`RefinesStep`). The mapped
answers are the replies written, and the one built and not yet written, without
their outputs; so the step that builds a reply is the one that answers
(`AnswersCurrent`) and `WriteReply` is a stutter. Three invariants carry it:
`TypeInv`, for the parent that a candidate is built on and the reply's fields;
`AtomicInv`, since `Session` commits whole cells only and a cell cut short would
commit with `whole = FALSE` were its token unread; and `AnalyseInv`, that what is
analysed is an `inspect`. A death takes the answer that was built and not
written, the last one (`ShownDrop`).

`KernelProofs` proves, of the adapter, for any cells, with or without an init
cell and a cache, and any number of deaths, interrupts and timeouts:

| Theorem | States | Inductive invariant |
| --- | --- | --- |
| `RunsOnLedger` | `ReplOnly`, `Spec => []ReplStateFromLedger` | `ReplInv` |
| `RestoreFaithful` | `ReplOnly`, `Spec => RestoreRendersLedger` | `ReplInv` |
| `NothingLost` | `ReplOnly`, `Spec => []AckedCellsKept` | `AckedInv`, with `ReplInv` |
| `InterruptIsFinal` | without `restore_interrupt`, in both modes, `Spec => NoRestartAfterInterrupt` | `StruckInv` |

`ReplOnly` says that no document is ever opened, and nothing of the faults: the
theorems have timeouts of replayed cells and divergences in a query's recovery.
`Renders(state, sources)` is what they say of a state: it is the sources themselves
as long as no replay was left halfway with its worker alive (`cut`), and some of them in
their order afterwards: no foreign cell, none twice, none out of order. The constants'
assumption is `KernelAssumption`, evaluated by TLC on every run.

* `LedgerInv` says what the client's snapshot stands for at *each* control
  point: nothing right after a start, the cells replayed so far during a replay,
  and what renders the ledger at a job and *between* jobs whenever the worker lives.
  The last is what makes it inductive, for an idle kernel whose worker runs starts
  the next job without a recovery. It holds because every way out of a recovery
  finishes it, leaves the worker dead, or is one that `cut` records: then the cells
  replayed so far are the first of the ledger that the client takes back.
  `kept = ledger \o todo` ties the three lists of a replay, so that the ledger is
  whole when the list runs out. A timed-out execute that commits later only appends
  to the snapshots. A cell that runs on a stump comes last in the state and last in
  the ledger, so that a subsequence remains one.
* `CacheInv` does not say that the saved files match the ledger (after a torn
  save they do not). It says that a key only vouches for a state that renders its
  ledger, which holds because a save happens right after a cell, when nothing is
  late and the worker's current snapshot is the client's.
* `AckedInv` follows a cell from the commit (`save`) to the reply and through
  the copy that a replay keeps.
* `StruckInv`: the job an escalated interrupt strikes is over in the same step.

The proofs of `CacheStep`, `RestoreStep`, `ModeStep`, `AckedStep` and
`StruckStep` go group by group (`Input`, `Ensure`, `Recover`, `Serve`, `Raise`)
and treat alone the actions that matter; `ClientStep` and `LedgerStep` go action
by action.

`KernelDocProofs` proves the rest of the adapter's safety, with documents, for
any cells and documents, any number of inputs and faults:

| Theorem | States | Inductive invariant |
| --- | --- | --- |
| `KernelTypes` | `Spec => []TypeOK` | `Types` with `JobInv` (`KernelJobs`) |
| `NothingStaleHidden` | `Spec => []NoHiddenStaleness` | `StaleInv`, with `Types` and `JobInv` |
| `FreshOnPrefix` | `DocOnly`, `Spec => []FreshIsVisiblePrefix` | `PrefixInv`, with `Types` and `JobInv` |

The first two hold of every kernel: in both modes and with all the surprises.
`DocOnly` is what `FreshIsVisiblePrefix` needs, and section 3 says what goes wrong
without: no empty document, no timeout of a recovery's own request, no replay that
diverges inside a query; and if there are a session cache and an init cell, no
console cells, since after a restore `base_snapshot` names another worker's
snapshot. A kernel with console cells and documents, or with cache and console
cells, is within it.

* `JobInv` is what the steps of a job have established when it has come to `pc`.
  That the executed cell is in the document with the source that is run
  (kernel.py:251-255) is needed where that source goes into the cell's state
  (:261).
* `StaleInv`: no cell is stale that the last broadcast did not call stale, in the
  middle of a job too. Between two broadcasts only the walk changes a cell's state,
  and it runs the first cell that is not fresh. `RerunWalk` shows that the walk
  finds all that it found and possibly more; `RerunStale` is the consequence for
  what is stale. An edit broadcasts at once, a lost worker clears all states.
* `PrefixInv` says what each cell's entry stands for. `CellsInv`: the snapshot of an
  entry is that of its parent with the entry's source behind it. With that, a walk
  from the base over fresh cells gathers their sources one by one, and the snapshot
  of the last stands for the sources of the prefix. It is inductive because a fresh
  worker, which hands the ids out again, always comes with an empty `cellState`
  (`restart_fresh`), and because a timed-out execute that commits late only appends.
* `BaseInv` is about `base_snapshot`: after the bootstrap it names the init cell's
  snapshot, and after a replay in which the init cell was the first of the ledger
  the number 1 names it again (`ReplayInv`). `LedgerInv` keeps apart the kernels to
  which a document has come and those to which none has.

The walk over the cells and the prefix of their sources are recursive functions, and
what holds of them for every document is an induction over the positions.
`RecursionProofs` has it without the library's induction theorems, whose operator
parameters the provers cannot instantiate. The library states well-foundedness of
the subsets of a finite set for *sets*, so that a set of positions that is not empty
has a least member (`Least`), and what holds at 0 and goes on holds up to n (`UpTo`),
where "what holds" is the set of positions at which it does. `Recursion` builds a
function that satisfies the recursive equations, from which follows that the function
which the definition chooses satisfies them.

`SessionCacheProofs` proves, of the cache of a console session, for any number of
cells, deaths, timeouts and interrupts, from `SessionCacheAssumption`:

| Theorem | States |
| --- | --- |
| `RecoveryFaithful` | `Spec => []ConsoleStateFromLedger` |
| `KeyVouches` | `Spec => []MatchingKeyLoadsLastCell` |
| `GenerationsDescend` | `Spec => []ImportsDescend` |
| `ImportsKept` | `Spec => MappedOleansKept` |
| `CacheTypes` | `Spec => []TypeOK` |

All five follow from `CacheInv`:

* `Linked` and `SoundOn` make the count of the imported modules a fresh name.
  Generation g imports g - 1 and nothing else, and a state's chain is 0 to g - 1
  with no gap, so that its length is not one of its members. `StatesInv` says it
  of every state a running worker may be asked about, the parents of queued
  cells among them, and that all stand on the same chain: a worker loads at most
  once, before anything else.
* `ReplayInv`: a replay has brought back the first cells of the ledger and waits for
  the next. So wherever it is left, what the worker has renders the ledger (`LedgerInv`),
  and a cell run on it goes last in both.
* `KeyInv` is why a key can be trusted without a lock on the directory. From the
  commit until the save is over, late or not, no key has the ledger's hash: the
  ledger grew with the commit. So files may only be torn while the key is older
  than the ledger, and a key of the ledger's own length has whole files:
  `LedgerSaved` says of what, the state that the last acknowledged cell left
  (`stands`). It is not that of the snapshot, for a replay may since have been left
  halfway, and not always that of the ledger, for that cell may have run on such a rest.
* `SaveInv` follows a save through its six steps, `QueueInv` says that what the
  client waits for is alone in the queue, so that the state saved is the client's.

That a chain is imported whole (`ChainIsWhole`) is an induction over the
generations. It is done by a minimal element: of the generations missing from a
closed set, the youngest (`Youngest`, from the library's theorem on finite
subsets) is imported by one that is in the set.

`FrontendProofs` proves, of the plugin, for any number of panels, cells, edits,
executions, crashes, restarts, kernel switches and comms:

| Theorem | States | Inductive invariant |
| --- | --- | --- |
| `FrontendTypes` | `Spec => []TypeOK` | `Types` |
| `DocumentIsFirst` | `Spec => []DocumentBeforeExecution` | `ExecutionInv` (`FrontendInvariance`) |
| `SettledAgrees` | `Spec => []SettledInAgreement` | `SettleInv`, with `Types` and `ExecutionInv` |

The assumption is `FrontendAssumption`. An execution is served correctly because
of two things sent long before. `Executions` says of every execution in the shell
channel that was sent to the running process that the message before it is its
document, or that it is at the head and the kernel has it: messages are lost from
the front only, so a document cannot be lost without its execution being of an
older process. The kernel takes the document only if it knows the comm, which is
`CommsKnown`: while no restart has gone unnoticed, a comm that a panel holds and
that is alive is known to the kernel, or its opening is in the channel. `Comms`,
`Processes`, `Requests` and `Signals` are the types they need, with: nothing speaks
of a process that does not exist yet.

`SettledInAgreement` is about the states in which nothing is under way, so it says
nothing about how they come about. `Agreement` is what every state satisfies: a
panel that is shown has the document still to send (its timer runs, or it waits
for an "idle" that is bound to come: `Settling`), or has sent it by a comm that the
kernel knows or will know, with nothing older behind it (`Underway`), or has been
answered, and its marks are the kernel's last word or a status under way makes
them so (`Agreed`, `Shown`). With no timer and empty channels only the last is left.

* `Agreement` can only be claimed while the panels know of the process that runs
  (`seen = incarnation`). Why it is true again when they learn of a new one is
  `Notices`: as long as they have not learned of it, its "restarting" is still to be
  sent or is in the channel, it is the last one there, and the first "idle" of the
  new process comes behind it. So a panel that starts to wait for an "idle" gets
  one, and of the right process.
* A status that has been overtaken does no harm because `Shown` asks of all the
  statuses behind the one that will paint last; statuses are painted in the order in
  which they were sent.
* `Views` ties the notebook and the comms to the panels, `NoClose` says that a kernel
  with the comm target never closes one.

The step proofs go action by action; `SendStep` says once what `Send` does to
`ExecutionInv`, and the lemmas on `Send`, `Answer` and `Drop` what they do to
the parts of `Agreement`. `Document` is a recursive function over the notebook;
that it is a sequence of code cells goes through `RecursionProofs`.

### Highlighters and outputs

`CellViewProofs` assumes `PathAssumption` and `CellViewAssumption` (a text is lines of
symbols).

`PathsAreShownWhole`, `Spec => []PathShownWhole`, holds for any payload and number of
steps and updates. `ChainParts` places the row of functors and waypoints between
the endpoints, `ChildShows` reads the odd and even positions off it, and
`LastChild` is the invariant: the widget is the child of the last payload, alone.

`CellTypes`, `OpenersSeen` and `TokensAdvance` are about every text and every keyword
setting: an editor has painted what its parser has read; no `--` and no `/-` is
painted as code; every call of `token()` advances. The last is an invariant
(`CallsAdvance`), of what a call gives wherever the parser is: a call that ends where it
began changes no variable, and an action property would pass over it as a stutter.

* The lemmas go from the stream to the token: `EndOfIs`, `AfterTwo` and their like
  say what a regular expression takes; `FirstOfIs` that of the rules the first that
  consumes is taken; `CommentIs` that the loop over a comment stops within the line
  (its recursion goes through `RecursionProofs`). The rules that both files repeat
  are shown equal (the `...Same` lemmas) and treated once.
* `LeanPicks` and `CasPicks` say once which rule of a file is taken where, with its end
  and its style: `LitOf` at a line comment, a string or a character, `LeanPick` and
  `CasPick` anywhere else. All that is proved of a token of code starts from there.
* `KindNoMark` is what makes `OpenersPainted` true: whatever either file takes as code
  has a shape (`Kind`) in which no `--` and no `/-` is, since both are tried before all
  operators, and no class of symbols that a rule repeats has a `-` or `/` in it.
* `TokenOK` says it of a token, `LineOK` of a painted row, and `EditInv` of the editors,
  also of a line that is painted in part.

`DialectsRead`, `Spec => []DialectsAgree`, and `KeywordsRead`, `Spec =>
[]KeywordsMirrored`, compare the two tokenizers, which do not stop at the same places:
each editor is painted by itself, in any order with the other. So the invariant,
`ReadInv`, says of one editor alone how what it shows came about, in a form that two
editors can be compared by once both are done. It is a history: a state for the start of
every line, and for each line what led from its state to the next.

* For `DialectsAgree` that is a *walk* (`Walked`): the positions at which code or a
  comment begins, each leading to the next. Where code that begins at y is left,
  `Hits` tells from the line and y alone: where a literal or a comment opens, unless it
  is an apostrophe in a word. The parser is there at all because no token of code runs
  over an opener (`CodeMisses`), and on a comparable line no word is broken in front of
  an apostrophe (`StopHits`). The token there is the same in both files
  (`TokenSplits`). So two walks from the same state go through the same positions, and
  end in the same state with the same shades (`WalkEnds`).
* `Placed` is what makes it inductive: a parser that has read code from y does not
  stand in the middle of a word or a `#` command, or if it does, the symbol at which
  CasDsl breaks a word is in between. It is needed since `x'` and `#ab'` are read
  differently: the first is a word, and the second ends before the apostrophe, which may
  open a character.
* For `KeywordsMirrored` it is the calls themselves (`Traced`). On a plain line both files
  take the same at the same position, and the style is mirrored, but for `|->` and
  `=>` (`PicksMirror`); behind these they meet again. Thus of the positions at which
  both have been called, the styles before them mirrored, the greatest is the end of
  the line (`TraceEnds`).
* `LinesAgree` goes from line to line, as far as the lines are comparable, or plain.

TLC does not check `ReadInv` on a run: it quantifies over histories and walks. It checks
the two properties, and that the definitions of the picks are right is proved.

Every safety property of the passing runs is a theorem, those of `Kernel` that need
one with the hypothesis given above. Model-checked only: liveness
(`EveryRequestAnswered`, `CancelEndsElaboration`, `ClosedPipeEndsWorker`,
`EveryJobEnds`, `EditsArrive`, `TextsGetPainted`), as fairness and `ENABLED` are out of
the prover's reach.

## 5. Not modelled

* Cell elaboration itself, `classifyInput`, diagnostics: Lean's own parser and
  elaborator decide; only the outcomes matter here.
* Executable lookup and the bubblewrap command line: no state. That `start()`
  may fail is in `Kernel`.
* Installer and release scripts: text to text.
* Of the highlighters: hexadecimal and binary literals, LaTeX spellings that go on
  in a longer word, colours; of the renderer: class names, glyphs, and the rank
  by which JupyterLab prefers it to `text/plain`.
* DSL macros and elaborators: Lean declarations with no protocol.
* Of the session cache: that the scope survives its JSON and a module its olean.
* Partly: the frame decoder (its verdicts are in `Kernel`), queries (their effect
  on the session).

## 6. Plan

Done: `Worker`, `Session`, `Kernel`, `SessionCache`, `Frontend` and `CellView`, with the
proofs of all their safety properties.

Left, in this order; each module is written without recursive operators where
something is to be proved of it.

1. `WorkerClient` over `Worker`'s reply stream at the grain of frames: timeouts,
   stray replies in `_pending`, the grace window, late commits (client.py,
   frames.py). Properties: a reply is delivered to the request it answers; the
   client's snapshot and the worker's agree when nothing is late; and the
   decoder never loses its place except by an interrupt between the read and
   the append.
2. `Registry`: `resolvePath` against a reference definition of shortest paths.
