------------------------------ MODULE FrontendInv ------------------------------
(***************************************************************************)
(* Inductive strengthenings of Frontend's properties, for FrontendProofs:  *)
(* `ExecutionInv` of DocumentBeforeExecution, `SettleInv` of               *)
(* SettledInAgreement.                                                     *)
(***************************************************************************)
EXTENDS Frontend

(* The types, part by part *)

NotebookType == cells \in Seq(Cell) /\ loaded \in BOOLEAN
PanelType ==
  /\ panel \in [Panels -> {"absent", "tracked", "ready", "closed"}]
  /\ timer \in [Panels -> BOOLEAN] /\ restarting \in [Panels -> BOOLEAN]
  /\ marks \in [Panels -> SUBSET Ids]
CommType ==
  /\ comm \in [Panels -> SUBSET Comm] /\ \A p \in Panels : Cardinality(comm[p]) <= 1
  /\ live \subseteq Comm /\ opened \in [Panels -> Nat]
KernelType ==
  /\ kind \in AllKinds /\ up \in BOOLEAN /\ greeted \in BOOLEAN
  /\ comms \subseteq Comm /\ kdoc \in Seq(CodeCell) /\ last \subseteq Ids
ChannelType == shell \in Seq(Request) /\ iopub \in Seq(Signal)
CountType   == incarnation \in Nat /\ seen \in Nat /\ events \in 0 .. MaxEvents
Types == NotebookType /\ PanelType /\ CommType /\ KernelType /\ ChannelType /\ CountType

----------------------------------------------------------------------------
(* Executions *)

IsSeq(s) ==
  /\ Len(s) \in Nat
  /\ DOMAIN s = 1 .. Len(s)
  /\ s = [i \in 1 .. Len(s) |-> s[i]]

\* One of the first n messages to the kernel opens c.
Opened(c, n) ==
  \E j \in 1 .. n : shell[j].type = "document" /\ shell[j].opens /\ shell[j].comm = c

Comms == IsFiniteSet(comms)

\* Nothing speaks of a process that does not exist yet.
Processes == incarnation \in Nat /\ seen \in Nat /\ seen <= incarnation

Requests ==
  /\ IsSeq(shell)
  /\ \A i \in 1 .. Len(shell) :
       shell[i].type = "execute" => shell[i].to \in Nat /\ shell[i].to <= incarnation

Signals ==
  /\ IsSeq(iopub)
  /\ \A i \in 1 .. Len(iopub) :
       iopub[i].type = "restarting" => iopub[i].of \in Nat /\ iopub[i].of <= incarnation

\* The i-th message to the kernel follows a document it will accept, whose
\* cells are the notebook at the time.
Preceded(i) ==
  IF i = 1 THEN kdoc = shell[1].doc
  ELSE /\ shell[i - 1].type = "document"
       /\ shell[i - 1].cells = shell[i].doc
       /\ shell[i - 1].comm \in comms \/ Opened(shell[i - 1].comm, i - 1)

\* Executions sent to the process that runs now.
Executions ==
  kind = "nbdsl" =>
    \A i \in 1 .. Len(shell) :
      shell[i].type = "execute" /\ shell[i].to = incarnation => Preceded(i)

\* While no restart has gone unnoticed, the kernel knows the comms the panels
\* would use, or will when it comes to a message under way.
CommsKnown ==
  kind = "nbdsl" /\ seen = incarnation =>
    \A p \in Panels : \A c \in comm[p] \cap live : c \in comms \/ Opened(c, Len(shell))

ExecutionInv ==
  Comms /\ Processes /\ Requests /\ Signals /\ Executions /\ CommsKnown

----------------------------------------------------------------------------
(* Agreement *)

\* A panel that is shown has its notebook, and holds a comm of its own.
Views ==
  /\ \A p \in Panels : panel[p] \in {"ready", "closed"} => loaded
  /\ \A p \in Panels : \A c \in comm[p] : c[1] = p

\* The panels have noticed the process that runs now, or are about to: the server
\* has still to restart it, or its announcement is under way.  That one is the
\* last, and the first "idle" of the process comes after it.
Notices ==
  /\ IF seen = incarnation
     THEN up /\ \A i \in 1 .. Len(iopub) : iopub[i].type # "restarting"
     ELSE ~up \/ \E i \in 1 .. Len(iopub) : iopub[i].type = "restarting" /\ iopub[i].of = incarnation
  /\ ~up => ~greeted
  /\ \A i \in 1 .. Len(iopub) : iopub[i].type = "restarting" /\ iopub[i].of = incarnation =>
       /\ up /\ \A j \in i + 1 .. Len(iopub) : iopub[j].type # "restarting"
       /\ ~greeted \/ \E j \in i + 1 .. Len(iopub) : iopub[j].type = "idle"

\* A kernel with the target closes no comm.
NoClose == kind = "nbdsl" => \A i \in 1 .. Len(iopub) : iopub[i].type # "close"

\* p sends the document at the next "idle".
Settling(p) ==
  restarting[p] /\ (~greeted \/ \E i \in 1 .. Len(iopub) : iopub[i].type = "idle")

\* From the n-th message to the kernel on, every document is the notebook's.
CurrentFrom(n) ==
  \A i \in n .. Len(shell) : shell[i].type = "document" => shell[i].cells = Document

\* A document is on its way by c, the kernel will accept it, and it is the
\* notebook, as are those behind it.
Underway(c) ==
  \E i \in 1 .. Len(shell) :
    /\ shell[i].type = "document" /\ shell[i].comm = c
    /\ c \in comms \/ Opened(c, i)
    /\ CurrentFrom(i)

Paints(m, p) == m.type = "status" /\ m.comm \in live /\ m.comm[1] = p

\* p shows what the kernel said last, or will when a status under way has
\* painted it; those behind it say the same.
Shown(p) ==
  \E i \in 0 .. Len(iopub) :
    /\ IF i = 0 THEN marks[p] = last \cap CellIds(cells) ELSE Paints(iopub[i], p)
    /\ \A j \in 1 .. Len(iopub) : j >= i /\ Paints(iopub[j], p) => iopub[j].stale = last

\* The kernel has the notebook, will be sent nothing else, and answers by c.
Agreed(p, c) ==
  /\ c \in comms /\ kdoc = Document /\ CurrentFrom(1)
  /\ Document # <<>> => Shown(p)

\* Whatever has happened, a panel that is shown still has the document to send,
\* or has sent it, or has been answered.
Agreement ==
  kind = "nbdsl" /\ seen = incarnation =>
    \A p \in Panels : panel[p] = "ready" =>
      timer[p] \/ Settling(p) \/ \E c \in comm[p] \cap live : Underway(c) \/ Agreed(p, c)

SettleInv == Views /\ Notices /\ NoClose /\ Agreement
================================================================================
