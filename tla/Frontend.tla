------------------------------ MODULE Frontend ------------------------------
(***************************************************************************)
(* The document plugin of JupyterLab: document.ts with documentMessage.ts  *)
(* and staleStatus.ts.  Each panel that shows the notebook streams the     *)
(* code cells to the kernel and paints the cells that the kernel reports   *)
(* stale.  Around it, as far as the plugin uses them: JupyterLab's kernel  *)
(* connection, and the comm handlers of the kernel (document.py).          *)
(*                                                                         *)
(* A handler of the browser's event loop is one step.  The two directions  *)
(* of the kernel connection are FIFO sequences; a comm_open travels with   *)
(* the document that follows it in the same handler.  Which cells are      *)
(* stale is the subject of module Kernel: here, any of the document's.     *)
(*                                                                         *)
(* A null of the code is the empty set.                                    *)
(***************************************************************************)
EXTENDS Integers, Sequences, FiniteSets

CONSTANTS
  Panels,      \* notebook panels: views of one notebook, on one kernel session
  Ids,         \* cell ids
  Sources,
  File,        \* contents of the notebook's file
  Notebooks,   \* contents that edits lead to
  Kinds,       \* kernels the session may be switched to
  MaxEvents    \* bound on edits, executions, closings, crashes, restarts,
               \* kernel switches

Cell     == [id : Ids, type : {"code", "markdown"}, source : Sources]
CodeCell == [id : Ids, source : Sources]

\* "other" is a kernel without an nbdsl_document target, "none" no kernel.
AllKinds == {"nbdsl", "other", "none"}

ASSUME FrontendAssumption ==
  /\ IsFiniteSet(Panels)
  /\ Notebooks \subseteq Seq(Cell) /\ File \in Notebooks
  /\ \A n \in Notebooks : \A i, j \in DOMAIN n : n[i].id = n[j].id => i = j
  /\ Kinds \subseteq AllKinds
  /\ MaxEvents \in Nat

VARIABLES
  cells,                               \* the notebook; <<>> until it is loaded
  loaded,                              \* context.ready
  panel,                               \* "absent", "tracked", "ready", "closed"
  comm, timer, restarting,             \* locals of track(), per panel
  marks,                               \* per panel, the cells with STALE_CLASS
  live, opened,                        \* comms not disposed; comms created
  kind, up, greeted,                   \* kernel: what, running, was idle once
  comms, kdoc, last,                   \* its DocumentSession; stale last sent
  shell, iopub,                        \* to the kernel, from the kernel
  incarnation, seen,                   \* history: kernel processes, as started
                                       \* and as the panels have noticed
  events                               \* counter for the bound

notebookVars == <<cells, loaded>>
panelVars    == <<panel, comm, timer, restarting, marks>>
commVars     == <<live, opened>>
kernelVars   == <<kind, up, greeted, comms, kdoc, last>>
vars == <<cells, loaded, panel, comm, timer, restarting, marks, live, opened,
          kind, up, greeted, comms, kdoc, last, shell, iopub, incarnation,
          seen, events>>

\* The n-th comm a panel creates; its onMsg paints that panel.
Comm == Panels \X Nat

\* What travels to the kernel, and back.
Request ==
  [type : {"document"}, comm : Comm, opens : BOOLEAN, cells : Seq(CodeCell)]
    \cup [type : {"execute"}, id : Ids, doc : Seq(CodeCell), to : Nat]
Signal ==
  [type : {"idle"}] \cup [type : {"restarting"}, of : Nat] \cup [type : {"close"}, comm : Comm]
    \cup [type : {"status"}, comm : Comm, stale : SUBSET Ids]

Init ==
  /\ cells = <<>> /\ loaded = FALSE
  /\ panel = [p \in Panels |-> "absent"]
  /\ comm = [p \in Panels |-> {}] /\ timer = [p \in Panels |-> FALSE]
  /\ restarting = [p \in Panels |-> FALSE] /\ marks = [p \in Panels |-> {}]
  /\ live = {} /\ opened = [p \in Panels |-> 0]
  /\ kind \in AllKinds /\ up = TRUE /\ greeted = FALSE
  /\ comms = {} /\ kdoc = <<>> /\ last = {}
  /\ shell = <<>> /\ iopub = <<>>
  /\ incarnation = 0 /\ seen = 0
  /\ events = 0

----------------------------------------------------------------------------
(* What is sent *)

CellIds(doc) == {doc[k].id : k \in DOMAIN doc}

\* Mutant: the cells go out as the notebook has them.
DocumentUntrimmed == SelectSeq(cells, LAMBDA c : c.type = "code")

\* buildDocumentMessage: the code cells, in the notebook's order.
Document ==
  LET out[n \in 0 .. Len(cells)] ==
        IF n = 0 THEN <<>>
        ELSE IF cells[n].type = "code"
             THEN Append(out[n - 1], [id |-> cells[n].id, source |-> cells[n].source])
             ELSE out[n - 1]
  IN out[Len(cells)]

DocMsg(c, first)   == [type |-> "document", comm |-> c, opens |-> first, cells |-> Document]
ExecMsg(id)        == [type |-> "execute", id |-> id, doc |-> Document, to |-> seen]

\* The orders in which one signal may reach the panels of S.
Orders(S) == {s \in [1 .. Cardinality(S) -> S] : \A p \in S : \E i \in DOMAIN s : s[i] = p}

\* send() of each panel of S, when the panels hold the comms `held`, of which
\* `open` are not disposed: no model or no kernel, nothing; a comm that is null
\* or disposed is created and opened.  The messages go between `before` and
\* `after`.
Send(S, k, held, open, before, after) ==
  LET Senders == {p \in S : panel[p] \in {"tracked", "ready"} /\ k # "none"}
      Opening == {p \in Senders : held[p] \cap open = {}}
      New(p)  == <<p, opened[p] + 1>>
      Used(p) == IF p \in Opening THEN New(p) ELSE CHOOSE c \in held[p] \cap open : TRUE
  IN /\ comm' = [p \in Panels |-> IF p \in Senders THEN {Used(p)} ELSE held[p]]
     /\ live' = open \cup {New(p) : p \in Opening}
     /\ opened' = [p \in Panels |-> IF p \in Opening THEN opened[p] + 1 ELSE opened[p]]
     /\ \E order \in Orders(Senders) :
          shell' = before \o [i \in DOMAIN order |-> DocMsg(Used(order[i]), order[i] \in Opening)]
                          \o after

NoTimer(S) == [p \in Panels |-> IF p \in S THEN FALSE ELSE timer[p]]
NoComm     == [p \in Panels |-> {}]

----------------------------------------------------------------------------
(* Handlers of the plugin *)

\* The contents arrive; sharedModel.changed is not connected yet.
Load ==
  /\ ~loaded
  /\ loaded' = TRUE /\ cells' = File
  /\ UNCHANGED <<panelVars, commVars, kernelVars, shell, iopub, incarnation, seen, events>>

\* widgetAdded: track(panel).
PanelOpens(p) ==
  /\ panel[p] = "absent"
  /\ panel' = [panel EXCEPT ![p] = "tracked"]
  /\ UNCHANGED <<notebookVars, comm, timer, restarting, marks, commVars, kernelVars,
                 shell, iopub, incarnation, seen, events>>

\* context.ready: connect to the model's changes, sendNow.
PanelReady(p) ==
  /\ loaded /\ panel[p] = "tracked"
  /\ panel' = [panel EXCEPT ![p] = "ready"]
  /\ timer' = NoTimer({p})
  /\ Send({p}, kind, comm, live, shell, <<>>)
  /\ UNCHANGED <<notebookVars, restarting, marks, kernelVars, iopub, incarnation, seen, events>>

\* disposed: the comm is dropped, not closed.  The slots stay connected to the
\* session and to the model, which other views keep alive.
PanelCloses(p) ==
  /\ panel[p] = "ready" /\ events < MaxEvents
  /\ panel' = [panel EXCEPT ![p] = "closed"]
  /\ timer' = NoTimer({p})
  /\ comm' = [comm EXCEPT ![p] = {}]
  /\ marks' = [marks EXCEPT ![p] = {}]
  /\ events' = events + 1
  /\ UNCHANGED <<notebookVars, restarting, commVars, kernelVars, shell, iopub, incarnation, seen>>

\* sharedModel.changed: a text edit, an insertion, deletion, move or change of
\* type restarts the debounce timer of every panel.  A cell that is new or has
\* another type is a new widget, without the class.
Edit(n) ==
  /\ loaded /\ n # cells /\ events < MaxEvents
  /\ cells' = n
  /\ timer' = [p \in Panels |-> timer[p] \/ panel[p] \in {"ready", "closed"}]
  /\ marks' = [p \in Panels |->
       {id \in marks[p] : \E i \in DOMAIN n, j \in DOMAIN cells :
          n[i].id = id /\ cells[j].id = id /\ n[i].type = cells[j].type}]
  /\ events' = events + 1
  /\ UNCHANGED <<loaded, panel, comm, restarting, commVars, kernelVars, shell, iopub,
                 incarnation, seen>>

\* DEBOUNCE_MS after the last change: send.
TimerFires(p) ==
  /\ timer[p]
  /\ timer' = NoTimer({p})
  /\ Send({p}, kind, comm, live, shell, <<>>)
  /\ UNCHANGED <<notebookVars, panel, restarting, marks, kernelVars, iopub, incarnation, seen,
                 events>>

\* Mutant: the execution does not flush the pending change.
RunUnflushed(p, k) ==
  /\ panel[p] = "ready" /\ cells[k].type = "code" /\ events < MaxEvents
  /\ shell' = IF kind = "none" THEN shell ELSE Append(shell, ExecMsg(cells[k].id))
  /\ events' = events + 1
  /\ UNCHANGED <<notebookVars, panelVars, commVars, kernelVars, iopub, incarnation, seen>>

\* executionScheduled: sendNow of the panel that runs the cell, then JupyterLab
\* dispatches the execute_request, if there is a kernel.
Run(p, k) ==
  /\ panel[p] = "ready" /\ cells[k].type = "code" /\ events < MaxEvents
  /\ timer' = NoTimer({p})
  /\ Send({p}, kind, comm, live, shell,
          IF kind = "none" THEN <<>> ELSE <<ExecMsg(cells[k].id)>>)
  /\ events' = events + 1
  /\ UNCHANGED <<notebookVars, panel, restarting, marks, kernelVars, iopub, incarnation, seen>>

\* A kernel process without comms, document or cell states.
NewKernel ==
  /\ incarnation' = incarnation + 1
  /\ greeted' = FALSE /\ comms' = {} /\ kdoc' = <<>> /\ last' = {}

\* kernelChanged, after JupyterLab has replaced the connection: sendNow.
ChangeKernel(k) ==
  /\ events < MaxEvents /\ (k = "none" => kind # "none")
  /\ kind' = k /\ up' = TRUE /\ NewKernel /\ seen' = incarnation + 1
  /\ timer' = NoTimer(Panels)
  /\ Send(Panels, k, NoComm, {}, <<>>, <<>>)
  /\ iopub' = <<>>
  /\ events' = events + 1
  /\ UNCHANGED <<notebookVars, panel, restarting, marks>>

\* What of the messages under way survives the process they were sent to.
Surviving == {SubSeq(shell, n, Len(shell)) : n \in 1 .. Len(shell) + 1}

\* statusChanged, "restarting" or "autorestarting": the comm is dropped; the
\* connection disposes of its comms.
Restarting ==
  /\ comm' = NoComm
  /\ restarting' = [p \in Panels |-> panel[p] # "absent"]
  /\ live' = {}
  /\ UNCHANGED opened

\* The user restarts the kernel: the status changes at once, messages sent from
\* now on wait for the new process.  An "idle" of the old one may still come.
UserRestarts ==
  /\ kind # "none" /\ events < MaxEvents
  /\ up' = TRUE /\ NewKernel /\ seen' = incarnation + 1
  /\ Restarting
  /\ shell' \in Surviving
  /\ iopub' \in {<<>>, <<[type |-> "idle"]>>}
  /\ events' = events + 1
  /\ UNCHANGED <<notebookVars, panel, timer, marks, kind>>

\* The status of a restart by the server reaches the panels.
RestartArrives ==
  /\ iopub # <<>> /\ Head(iopub).type = "restarting"
  /\ seen' = Head(iopub).of
  /\ Restarting
  /\ iopub' = Tail(iopub)
  /\ UNCHANGED <<notebookVars, panel, timer, marks, kernelVars, shell, incarnation, events>>

\* Mutant: the document is not sent again to the restarted kernel.
IdleArrivesUnsent ==
  /\ iopub # <<>> /\ Head(iopub).type = "idle"
  /\ restarting' = [p \in Panels |-> FALSE]
  /\ iopub' = Tail(iopub)
  /\ UNCHANGED <<notebookVars, panel, comm, timer, marks, commVars, shell, kernelVars, incarnation,
                 seen, events>>

\* statusChanged, "idle": the first one after a restart is answered by sendNow.
IdleArrives ==
  /\ iopub # <<>> /\ Head(iopub).type = "idle"
  /\ LET Back == {p \in Panels : restarting[p]}
     IN timer' = NoTimer(Back) /\ Send(Back, kind, comm, live, shell, <<>>)
  /\ restarting' = [p \in Panels |-> FALSE]
  /\ iopub' = Tail(iopub)
  /\ UNCHANGED <<notebookVars, panel, marks, kernelVars, incarnation, seen, events>>

\* Mutant: cells lose the class only when the message calls them fresh.
PaintedKeeping(old, stale) == (old \cup stale) \cap CellIds(cells)

\* computeStaleClassUpdates over the widgets there are: the stale cells get the
\* class, every other cell loses it.
Painted(old, stale) == stale \cap CellIds(cells)

IsStatus(msg) == msg.type = "status"

\* onMsg of a comm: applyStatus, on the panel it was created for.
StatusArrives ==
  /\ iopub # <<>> /\ IsStatus(Head(iopub))
  /\ LET c == Head(iopub).comm IN
       marks' = IF c \in live /\ panel[c[1]] # "closed"
                THEN [marks EXCEPT ![c[1]] = Painted(@, Head(iopub).stale)]
                ELSE marks
  /\ iopub' = Tail(iopub)
  /\ UNCHANGED <<notebookVars, panel, comm, timer, restarting, commVars, kernelVars, shell,
                 incarnation, seen, events>>

\* comm_close: the connection disposes of the comm.
CloseArrives ==
  /\ iopub # <<>> /\ Head(iopub).type = "close"
  /\ live' = live \ {Head(iopub).comm}
  /\ iopub' = Tail(iopub)
  /\ UNCHANGED <<notebookVars, panelVars, opened, kernelVars, shell, incarnation, seen, events>>

----------------------------------------------------------------------------
(* The kernel and its server *)

\* broadcast_status: any of the document's cells may be stale; every comm that
\* was ever opened gets the message.
Broadcast ==
  IF kdoc' = <<>> THEN UNCHANGED <<last, iopub>>
  ELSE /\ last' \in SUBSET CellIds(kdoc')
       /\ \E order \in Orders(comms') :
            iopub' = iopub \o [i \in DOMAIN order |->
                                 [type |-> "status", comm |-> order[i], stale |-> last']]

Handling(type) == up /\ kind # "none" /\ shell # <<>> /\ Head(shell).type = type

\* comm_open and comm_msg of DocumentSession.
DocumentHandled ==
  /\ Handling("document") /\ kind = "nbdsl"
  /\ LET m == Head(shell) IN
       /\ comms' = IF m.opens THEN comms \cup {m.comm} ELSE comms
       /\ IF m.comm \in comms' THEN kdoc' = m.cells /\ Broadcast
          ELSE UNCHANGED <<kdoc, last, iopub>>
  /\ shell' = Tail(shell)
  /\ UNCHANGED <<notebookVars, panelVars, commVars, kind, up, greeted, incarnation, seen, events>>

\* A kernel without the target closes the comm again.
DocumentRefused ==
  /\ Handling("document") /\ kind = "other"
  /\ iopub' = IF Head(shell).opens
              THEN Append(iopub, [type |-> "close", comm |-> Head(shell).comm]) ELSE iopub
  /\ shell' = Tail(shell)
  /\ UNCHANGED <<notebookVars, panelVars, commVars, kernelVars, incarnation, seen, events>>

\* do_execute: a cell of the document runs on its prefix, and the status is
\* broadcast unless the run ends before; any other cell runs as at a console.
ExecuteHandled ==
  /\ Handling("execute")
  /\ \/ kind = "nbdsl" /\ Head(shell).id \in CellIds(kdoc)
        /\ UNCHANGED <<comms, kdoc>> /\ Broadcast
     \/ UNCHANGED <<comms, kdoc, last, iopub>>
  /\ shell' = Tail(shell)
  /\ UNCHANGED <<notebookVars, panelVars, commVars, kind, up, greeted, incarnation, seen, events>>

\* The first "idle" of a process, after JupyterLab's kernel_info_request.
KernelIdle ==
  /\ up /\ kind # "none" /\ ~greeted
  /\ greeted' = TRUE
  /\ iopub' = Append(iopub, [type |-> "idle"])
  /\ UNCHANGED <<notebookVars, panelVars, commVars, kind, up, comms, kdoc, last, shell,
                 incarnation, seen, events>>

\* The process dies and nobody knows yet.
KernelDies ==
  /\ up /\ kind # "none" /\ events < MaxEvents
  /\ up' = FALSE /\ NewKernel
  /\ shell' \in Surviving
  /\ events' = events + 1
  /\ UNCHANGED <<notebookVars, panelVars, commVars, kind, iopub, seen>>

\* Jupyter's restarter finds it dead, says so and starts another on the same ports.
ServerRestarts ==
  /\ ~up
  /\ up' = TRUE
  /\ iopub' = Append(iopub, [type |-> "restarting", of |-> incarnation])
  /\ UNCHANGED <<notebookVars, panelVars, commVars, kind, greeted, comms, kdoc, last, shell,
                 incarnation, seen, events>>

----------------------------------------------------------------------------
User ==
  \/ Load
  \/ \E n \in Notebooks : Edit(n)
  \/ \E p \in Panels : PanelOpens(p) \/ PanelCloses(p) \/ \E k \in DOMAIN cells : Run(p, k)
  \/ \E k \in Kinds : ChangeKernel(k)
  \/ UserRestarts

Browser ==
  \/ \E p \in Panels : PanelReady(p) \/ TimerFires(p)
  \/ RestartArrives \/ IdleArrives \/ StatusArrives \/ CloseArrives

Server == DocumentHandled \/ DocumentRefused \/ ExecuteHandled \/ KernelIdle \/ ServerRestarts

\* Everything under way has been dealt with and the user leaves it at that.
AtRest ==
  /\ events = MaxEvents /\ iopub = <<>> /\ (kind # "none" => shell = <<>>)
  /\ \A p \in Panels : ~timer[p] /\ panel[p] \in {"ready", "closed"}
  /\ UNCHANGED vars

Next == User \/ Browser \/ Server \/ KernelDies \/ AtRest

Spec == Init /\ [][Next]_vars

\* Neither the event loop nor the kernel nor its restarter stops for ever.
FairSpec == Spec /\ WF_vars(Browser) /\ WF_vars(Server)

----------------------------------------------------------------------------
(* Properties *)

TypeOK ==
  /\ cells \in Seq(Cell) /\ loaded \in BOOLEAN
  /\ panel \in [Panels -> {"absent", "tracked", "ready", "closed"}]
  /\ comm \in [Panels -> SUBSET Comm] /\ \A p \in Panels : Cardinality(comm[p]) <= 1
  /\ timer \in [Panels -> BOOLEAN] /\ restarting \in [Panels -> BOOLEAN]
  /\ marks \in [Panels -> SUBSET Ids]
  /\ live \subseteq Comm /\ opened \in [Panels -> Nat]
  /\ kind \in AllKinds /\ up \in BOOLEAN /\ greeted \in BOOLEAN
  /\ comms \subseteq Comm /\ kdoc \in Seq(CodeCell) /\ last \subseteq Ids
  /\ shell \in Seq(Request) /\ iopub \in Seq(Signal)
  /\ incarnation \in Nat /\ seen \in Nat
  /\ events \in 0 .. MaxEvents

\* "this comm_msg reaches the shell channel first and the kernel has fresh
\* sources by the time it handles the execution" (document.ts:114-117): when
\* the kernel comes to an execution that was sent to this very process, its
\* document is the notebook as it was when the cell was run.
DocumentBeforeExecution ==
  Handling("execute") /\ kind = "nbdsl" /\ Head(shell).to = incarnation
    => kdoc = Head(shell).doc

Ready == {p \in Panels : panel[p] = "ready"}

\* Nothing is under way between panels and kernel.
Quiet ==
  /\ shell = <<>> /\ iopub = <<>> /\ up /\ greeted
  /\ \A p \in Ready : ~timer[p]

\* When the traffic settles, the kernel has the notebook that is shown and every
\* view shows what the kernel said last, however edits, restarts, switches and
\* late statuses were interleaved.  A notebook without code cells is left out:
\* the kernel then sends no status (document.py:59).
SettledInAgreement ==
  Quiet /\ kind = "nbdsl" /\ Document # <<>> =>
    \A p \in Ready : kdoc = Document /\ marks[p] = last \cap CellIds(cells)

\* Every edit gets to the kernel in the end, whatever it is that was restarted
\* or switched before the debounce timer fired (sendDebounced, "idle").
EditsArrive == <>[](kind = "nbdsl" /\ Ready # {} => kdoc = Document)
============================================================================
