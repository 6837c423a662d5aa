----------------------------- MODULE KernelDocProofs -----------------------------
(***************************************************************************)
(* Theorems about Kernel: the types of its variables and the marks of      *)
(* stale cells, in every mode and whatever goes wrong, and what a fresh    *)
(* cell stands for, in document mode.  For every value of the constants:   *)
(* any notebook, any edits of it, any number of runs, deaths, interrupts   *)
(* and timeouts at any point.                                              *)
(***************************************************************************)
EXTENDS KernelDocInv, RecursionProofs

----------------------------------------------------------------------------
(* The walk over the cells *)

Place == [parent : Nat, broken : BOOLEAN]

\* One step of the walk: at cell c, coming from p.
Onward(c, p) ==
  IF c.source = Blank THEN p
  ELSE IF ~p.broken /\ Reusable(c, p.parent)
       THEN [parent |-> cellState[c.id].snapshot, broken |-> FALSE]
       ELSE [parent |-> p.parent, broken |-> TRUE]

WalkIs ==
  /\ Walk \in [0 .. Len(doc) -> Place]
  /\ Walk[0] = [parent |-> base, broken |-> FALSE]
  /\ \A k \in 1 .. Len(doc) : Walk[k] = Onward(doc[k], Walk[k - 1])

\* The walk satisfies the equations that define it.
LEMMA WalkDef == BootType /\ DocType => WalkIs
<1> SUFFICES ASSUME BootType, DocType PROVE WalkIs
  OBVIOUS
<1> DEFINE N == Len(doc)
           b == [parent |-> base, broken |-> FALSE]
           G == [k \in 1 .. N |-> [p \in Place |-> Onward(doc[k], p)]]
<1>1. N \in Nat /\ b \in Place
  BY DEF BootType, DocType, Place
<1>2. ASSUME NEW k \in 1 .. N, NEW p \in Place PROVE Onward(doc[k], p) \in Place
  <2>1. doc[k].id \in Cells
    <3>1. doc[k] \in DocCell
      BY DEF DocType
    <3> QED BY <3>1 DEF DocCell
  <2>2. CASE Reusable(doc[k], p.parent)
    <3>1. cellState[doc[k].id] \in CellState
      BY <2>1, <2>2 DEF Reusable, DocType
    <3> QED BY <3>1 DEF CellState, Place, Onward
  <2>3. CASE ~Reusable(doc[k], p.parent)
    BY <2>3 DEF Place, Onward
  <2> QED BY <2>2, <2>3
<1>3. G \in [1 .. N -> [Place -> Place]]
  BY <1>2
<1>4. PICK w \in [0 .. N -> Place] : Follows(w, N, b, G)
  <2> HIDE DEF N, b, G
  <2> QED BY <1>1, <1>3, Recursion
<1>5. ASSUME NEW k \in 1 .. N PROVE w[k - 1] \in Place /\ w[k] = Onward(doc[k], w[k - 1])
  <2>1. w[k - 1] \in Place /\ w[k] = G[k][w[k - 1]]
    <3> HIDE DEF N, G, b
    <3> QED BY <1>1, <1>4 DEF Follows
  <2> QED BY <2>1
<1>6. w[0] = b
  BY <1>4 DEF Follows
<1> HIDE DEF G, b
<1>7. \E v : v = [k \in 0 .. N |-> IF k = 0 THEN b ELSE Onward(doc[k], v[k - 1])]
  <2>1. w = [k \in 0 .. N |-> IF k = 0 THEN b ELSE Onward(doc[k], w[k - 1])]
    BY <1>1, <1>5, <1>6
  <2> QED BY <2>1
<1>8. Walk = [k \in 0 .. N |-> IF k = 0 THEN b ELSE Onward(doc[k], Walk[k - 1])]
  BY <1>7, Zenon DEF Walk, Onward, N, b
<1>9. \A k \in 0 .. N : Walk[k] = IF k = 0 THEN b ELSE Onward(doc[k], Walk[k - 1])
  BY <1>8, Zenon
<1>10. Walk = w
  <2> DEFINE S == {k \in 0 .. N : Walk[k] = w[k]}
  <2>1. 0 \in S
    BY <1>1, <1>6, <1>9
  <2>2. ASSUME NEW m \in 0 .. N, m < N, m \in S PROVE m + 1 \in S
    <3>1. m + 1 \in 1 .. N /\ m + 1 \in 0 .. N /\ (m + 1) - 1 = m /\ m + 1 # 0
      BY <1>1, <2>2
    <3>2. w[m + 1] = Onward(doc[m + 1], w[m])
      BY <1>5, <3>1
    <3>3. Walk[m + 1] = Onward(doc[m + 1], Walk[m])
      BY <1>9, <3>1
    <3> QED BY <2>2, <3>1, <3>2, <3>3
  <2>3. 0 .. N \subseteq S
    <3> HIDE DEF S
    <3> QED BY <1>1, <2>1, <2>2, UpTo
  <2> QED BY <1>4, <1>8, <2>3
<1> QED BY <1>4, <1>5, <1>6, <1>10 DEF WalkIs, b

\* The types of what it meets.
LEMMA WalkType ==
  ASSUME BootType, DocType
  PROVE  /\ Len(doc) \in Nat /\ \A k \in 1 .. Len(doc) : doc[k] \in DocCell
         /\ \A k \in 0 .. Len(doc) : Walk[k].parent \in Nat /\ Walk[k].broken \in BOOLEAN
<1>1. Len(doc) \in Nat /\ \A k \in 1 .. Len(doc) : doc[k] \in DocCell
  BY DEF DocType
<1>2. Walk \in [0 .. Len(doc) -> Place]
  BY WalkDef DEF WalkIs
<1>3. ASSUME NEW k \in 0 .. Len(doc) PROVE Walk[k].parent \in Nat /\ Walk[k].broken \in BOOLEAN
  <2>1. Walk[k] \in Place
    BY <1>2
  <2> QED BY <2>1 DEF Place
<1> QED BY <1>1, <1>3

\* Once broken, always broken.
LEMMA BrokenStays ==
  ASSUME BootType, DocType, NEW m \in 0 .. Len(doc), Walk[m].broken,
         NEW n \in 0 .. Len(doc), m <= n
  PROVE  Walk[n].broken
<1> DEFINE N == Len(doc)
           S == {k \in 0 .. N : m <= k => Walk[k].broken}
<1>1. N \in Nat /\ WalkIs
  BY WalkDef DEF DocType
<1>2. 0 \in S
  BY <1>1
<1>3. ASSUME NEW k \in 0 .. N, k < N, k \in S PROVE k + 1 \in S
  <2>1. k + 1 \in 1 .. N /\ k + 1 \in 0 .. N /\ (k + 1) - 1 = k
    BY <1>1, <1>3
  <2>2. Walk[k + 1] = Onward(doc[k + 1], Walk[k])
    BY <1>1, <2>1 DEF WalkIs
  <2>3. Walk[k].broken => Walk[k + 1].broken
    BY <2>2 DEF Onward
  <2>4. m <= k + 1 => m <= k \/ m = k + 1
    BY <1>1
  <2> QED BY <1>3, <2>1, <2>3, <2>4
<1>4. 0 .. N \subseteq S
  <2> HIDE DEF S
  <2> QED BY <1>1, <1>2, <1>3, UpTo
<1> QED BY <1>4

\* Where the walk is broken, Upstream is the first cell that broke it.
LEMMA UpstreamIs ==
  ASSUME BootType, DocType, NEW p \in 0 .. Len(doc), Walk[p].broken
  PROVE  /\ Upstream \in Nonblank /\ Upstream \in 1 .. p
         /\ Walk[Upstream].broken /\ ~Walk[Upstream - 1].broken
<1> DEFINE N == Len(doc)
           D == {k \in 0 .. N : Walk[k].broken}
<1>1. N \in Nat /\ WalkIs
  BY WalkDef DEF DocType
<1>2. PICK k \in D : \A y \in D : k <= y
  <2>1. D \subseteq 0 .. N /\ D # {}
    OBVIOUS
  <2> HIDE DEF D, N
  <2> QED BY <1>1, <2>1, Least
<1>3. k # 0
  BY <1>1, <1>2 DEF WalkIs
<1>4. k \in 1 .. N /\ k - 1 \in 0 .. N /\ ~(k <= k - 1)
  BY <1>1, <1>2, <1>3
<1>5. ~Walk[k - 1].broken
  BY <1>2, <1>4
<1>6. doc[k].source # Blank
  <2>1. Walk[k] = Onward(doc[k], Walk[k - 1])
    BY <1>1, <1>4 DEF WalkIs
  <2> QED BY <1>2, <1>5, <2>1 DEF Onward
<1>7. k \in Nonblank /\ Walk[k].broken
  BY <1>2, <1>4, <1>6 DEF Nonblank
<1>8. Upstream \in Nonblank /\ Walk[Upstream].broken /\ ~Walk[Upstream - 1].broken
  BY <1>5, <1>7, Zenon DEF Upstream
<1>9. Upstream \in 1 .. N /\ Upstream - 1 \in 0 .. N
  BY <1>1, <1>8 DEF Nonblank
<1>10. Upstream <= p
  <2> SUFFICES ASSUME ~(Upstream <= p) PROVE FALSE
    OBVIOUS
  <2>1. p <= Upstream - 1
    BY <1>1, <1>9
  <2> QED BY <1>8, <1>9, <2>1, BrokenStays
<1> QED BY <1>8, <1>9, <1>10

----------------------------------------------------------------------------
(* Requests to the worker *)

\* A visible cell is where Position says.
LEMMA PositionIs ==
  ASSUME NEW c, InDoc(c)
  PROVE  Position(c) \in 1 .. Len(doc) /\ doc[Position(c)].id = c
BY DEF InDoc, Position

\* A job has what its kind says.
LEMMA JobIs ==
  ASSUME JobInv, pc \notin {"idle", "stopped"}
  PROVE  /\ job \in Job /\ job.kind \in JobKinds
         /\ job.kind = "cell" => job.cell \in Cells
         /\ Executing => job.code \in Codes
BY DEF JobInv, Job, JobKinds, Executing

\* The request the thread has sent.
LEMMA RequestedType ==
  ASSUME Types, JobInv, Asking, pc # "query"
  PROVE  Requested \in [parent : Nat, code : Codes]
<1> USE DEF Types
<1>1. CASE pc = "init"
  <2>1. Requested = [parent |-> snapshot, code |-> CHOOSE c \in InitCell : TRUE]
    BY <1>1 DEF Requested
  <2>2. (CHOOSE c \in InitCell : TRUE) \in Codes
    BY <1>1, KernelAssumption DEF Asking
  <2> QED BY <2>1, <2>2 DEF ClientType
<1>2. CASE pc = "replay"
  <2>1. Requested = [parent |-> snapshot, code |-> Head(todo)]
    BY <1>2 DEF Requested
  <2>2. Head(todo) \in Codes
    BY <1>2, HeadTailProperties DEF Asking, ClientType, State
  <2> QED BY <2>1, <2>2 DEF ClientType
<1>3. CASE pc = "prefix"
  <2>1. Requested = [parent |-> Walk[Upstream - 1].parent, code |-> doc[Upstream].source]
    BY <1>3 DEF Requested
  <2> DEFINE p == Position(job.cell) - 1
  <2>2. p \in 0 .. Len(doc) /\ Walk[p].broken
    <3>1. Position(job.cell) \in 1 .. Len(doc)
      BY <1>3, PositionIs DEF JobInv
    <3>2. Walk[p].broken
      BY <1>3 DEF Asking, PrefixFresh
    <3> QED BY <3>1, <3>2, WalkType
  <2> HIDE DEF p
  <2>3. Upstream \in Nonblank /\ Upstream \in 1 .. p
    BY <2>2, UpstreamIs
  <2>4. Upstream \in 1 .. Len(doc) /\ Upstream - 1 \in 0 .. Len(doc) /\ doc[Upstream].source # Blank
    BY <2>2, <2>3, WalkType DEF Nonblank
  <2>5. doc[Upstream].source \in Codes
    <3>1. doc[Upstream] \in DocCell
      BY <2>4, WalkType
    <3> QED BY <2>4, <3>1 DEF DocCell, Sources
  <2>6. Walk[Upstream - 1].parent \in Nat
    BY <2>4, WalkType
  <2> QED BY <2>1, <2>5, <2>6
<1>4. CASE pc = "run"
  <2>1. Requested = [parent |-> Walk[Position(job.cell) - 1].parent, code |-> job.code]
    BY <1>4 DEF Requested
  <2>2. Position(job.cell) \in 1 .. Len(doc) /\ job.code \in Codes
    BY <1>4, PositionIs, JobIs DEF JobInv, Executing
  <2>3. Position(job.cell) - 1 \in 0 .. Len(doc)
    BY <2>2, WalkType
  <2>4. Walk[Position(job.cell) - 1].parent \in Nat
    BY <2>3, WalkType
  <2> QED BY <2>1, <2>2, <2>4
<1>5. CASE pc = "repl"
  <2>1. Requested = [parent |-> snapshot, code |-> job.code]
    BY <1>5 DEF Requested
  <2>2. job.code \in Codes
    BY <1>5, JobIs DEF JobInv
  <2> QED BY <2>1, <2>2 DEF ClientType
<1> QED BY <1>1, <1>2, <1>3, <1>4, <1>5 DEF Asking

\* The state it is elaborated to when the worker answers ok.
LEMMA StateOf ==
  ASSUME WorkerType, NEW id \in Nat, Known(id), NEW c \in Codes
  PROVE  /\ StateAt(id) \in State /\ Append(StateAt(id), c) \in State
         /\ Len(snaps) \in Nat
<1>1. id + 1 \in 1 .. Len(snaps)
  BY DEF Known, WorkerType
<1>2. StateAt(id) \in State
  BY <1>1, ElementOfSeq DEF StateAt, WorkerType
<1> QED BY <1>2 DEF State, WorkerType

\* A commit adds one snapshot.
LEMMA ElaboratedType ==
  ASSUME Types, JobInv, Asking, pc # "query", Elaborated
  PROVE  /\ WorkerType' /\ snapshot' \in Nat /\ Len(snaps) \in Nat
         /\ Requested.parent \in Nat /\ Requested.code \in Codes
         /\ Append(StateAt(Requested.parent), Requested.code) \in State
<1>1. Requested.parent \in Nat /\ Requested.code \in Codes
  BY RequestedType
<1>2. Append(StateAt(Requested.parent), Requested.code) \in State /\ Len(snaps) \in Nat
  BY <1>1, StateOf DEF Elaborated, Types
<1>3. snaps' \in Seq(State) /\ Len(snaps') = Len(snaps) + 1
  BY <1>2, AppendProperties DEF Elaborated, Types, WorkerType
<1>4. WorkerType'
  BY <1>2, <1>3 DEF Elaborated, Serving, Types, WorkerType
<1> QED BY <1>1, <1>2, <1>4 DEF Elaborated

\* A new worker has one snapshot.
LEMMA StartedType == ASSUME Started PROVE WorkerType' /\ snapshot' \in Nat
<1>1. << <<>> >> \in Seq(State) /\ Len(<< <<>> >>) = 1
  BY DEF State
<1> QED BY <1>1 DEF Started, WorkerType

\* A killed worker has none.
LEMMA KilledType == ASSUME Kill PROVE WorkerType'
<1>1. owned' \in BOOLEAN /\ alive' \in BOOLEAN /\ ~alive'
  BY DEF Kill
<1> QED BY <1>1 DEF Kill, WorkerType

\* The types of what a step leaves alone are kept.
LEMMA KeptWorker == ASSUME WorkerType, UNCHANGED workerVars PROVE WorkerType'
<1>1. owned' = owned /\ alive' = alive /\ snaps' = snaps /\ current' = current /\ late' = late
  BY Zenon DEF workerVars
<1>2. owned' \in BOOLEAN /\ alive' \in BOOLEAN /\ (alive' => owned')
  BY <1>1, Zenon DEF WorkerType
<1>3. CASE alive
  BY <1>1, <1>2, <1>3 DEF WorkerType
<1>4. CASE ~alive
  BY <1>1, <1>2, <1>4 DEF WorkerType
<1> QED BY <1>3, <1>4

----------------------------------------------------------------------------
(* Types *)

\* The types of what a step leaves alone are kept.
LEMMA KeptBoot == ASSUME BootType, UNCHANGED bootVars PROVE BootType'
<1>1. started' = started /\ base' = base /\ initError' = initError
  BY Zenon DEF bootVars
<1> QED BY <1>1, Zenon DEF BootType

\* Who writes the variables of the bootstrap.
LEMMA BootFrame ==
  ASSUME [Next]_vars
  PROVE  \/ UNCHANGED bootVars
         \/ Shutdown \/ EnsureFirst \/ RestartDoc \/ InitAbsent \/ InitOk \/ InitFails
<1> USE DEF bootVars, docVars, clientVars, workerVars, cacheVars, pastVars, counters
<1>1. ASSUME Input, ~Shutdown PROVE UNCHANGED bootVars
  BY <1>1 DEF Input, CommOpen, CommClose, CommMessage, BeginJob
<1>2. ASSUME Ensure, ~EnsureFirst, ~RestartDoc, ~InitOk, ~InitAbsent, ~InitFails
      PROVE UNCHANGED bootVars
  BY <1>2 DEF Ensure, EnsureRunning, RestartRepl, StartFails
<1>3. ASSUME Recover PROVE UNCHANGED bootVars
  BY <1>3 DEF Recover, RestoreMisses, Restore, RestoreRefused, RestoreFails,
    RestoreInterrupted, ReplayBegins, ReplayRestarts, RestartFails, ReplayCell,
    ReplayDiverges, ReplayEnds
<1>4. ASSUME Serve PROVE UNCHANGED bootVars
  BY <1>4 DEF Serve, RefuseInitError, Dispatch, RerunUpstream, UpstreamFails,
    PrefixDone, RunCell, CellFails, RunRepl, ReplFails, SaveAnswered, SaveSkipped,
    AnswerQuery, ReplyOk
<1>5. ASSUME Raise PROVE UNCHANGED bootVars
  BY <1>5 DEF Raise, RequestDies, RequestInterrupted, RequestTimesOut, ReplyInvalid
<1>6. ASSUME InterruptedOutside \/ WorkerDies \/ LateEnds \/ Stopped \/ UNCHANGED vars
      PROVE UNCHANGED bootVars
  BY <1>6 DEF InterruptedOutside, WorkerDies, LateEnds, Stopped, vars
<1> QED BY <1>1, <1>2, <1>3, <1>4, <1>5, <1>6 DEF Next, Thread

\* Their types.
LEMMA BootStep ==
  ASSUME Types, JobInv, [Next]_vars
  PROVE  BootType'
<1> BootType /\ WorkerType
  BY DEF Types
<1>1. ASSUME InitOk PROVE BootType'
  <2>1. base' = Len(snaps) /\ started' = TRUE /\ initError' = initError
    BY <1>1, Zenon DEF InitOk
  <2>2. initError' \in BOOLEAN
    BY <2>1, Zenon DEF BootType
  <2> QED BY <2>1, <2>2 DEF WorkerType, BootType
<1>2. ASSUME Shutdown \/ InitAbsent \/ InitFails PROVE BootType'
  <2>1. base' = base /\ started' \in BOOLEAN /\ initError' \in BOOLEAN
    BY <1>2, Zenon DEF Shutdown, InitAbsent, InitFails, BootType
  <2> QED BY <2>1 DEF BootType
<1>3. ASSUME EnsureFirst \/ RestartDoc PROVE BootType'
  <2>1. base' = 0 /\ started' \in BOOLEAN /\ initError' \in BOOLEAN
    BY <1>3, Zenon DEF EnsureFirst, RestartDoc, BootType
  <2> QED BY <2>1 DEF BootType
<1> QED BY <1>1, <1>2, <1>3, BootFrame, KeptBoot

\* A status names cells.
LEMMA StatusType ==
  ASSUME doc \in Seq(DocCell)
  PROVE  StatusNow \in [fresh : SUBSET Cells, stale : SUBSET Cells]
<1>1. ASSUME NEW k \in Nonblank PROVE doc[k].id \in Cells
  <2>1. doc[k] \in DocCell
    BY DEF Nonblank
  <2> QED BY <2>1 DEF DocCell
<1> QED BY <1>1 DEF StatusNow

\* The types of what a step leaves alone are kept.
LEMMA BroadcastType ==
  ASSUME DocType, doc' \in Seq(DocCell), Broadcast
  PROVE  status' \in SUBSET [fresh : SUBSET Cells, stale : SUBSET Cells]
<1>1. (doc \in Seq(DocCell) => StatusNow \in [fresh : SUBSET Cells, stale : SUBSET Cells])'
  BY StatusType, PTL
<1> QED BY <1>1 DEF Broadcast, DocType

\* The entry of a cell that ran.
LEMMA RecordType ==
  ASSUME Types, JobInv, Asking, pc # "query", Elaborated, NEW c \in Cells,
         NEW s \in Codes, Record(c, s)
  PROVE  cellState' \in [Cells -> CellState \cup {NoState}]
<1> DEFINE st == [source |-> s, snapshot |-> Len(snaps), parent |-> Requested.parent]
<1>1. st \in CellState
  BY ElaboratedType DEF CellState
<1>2. cellState' = [cellState EXCEPT ![c] = st]
  BY DEF Record
<1> HIDE DEF st
<1> QED BY <1>1, <1>2 DEF Types, DocType

\* The cell that a prefix is re-run from.
LEMMA UpstreamCell ==
  ASSUME Types, JobInv, pc = "prefix", ~PrefixFresh
  PROVE  /\ Asking /\ Upstream \in Nonblank /\ Upstream \in 1 .. Len(doc)
         /\ Walk[Upstream].broken /\ ~Walk[Upstream - 1].broken
         /\ doc[Upstream].id \in Cells /\ doc[Upstream].source \in Codes
<1>1. Asking
  BY DEF Asking
<1> DEFINE p == Position(job.cell) - 1
<1>2. p \in 0 .. Len(doc) /\ Walk[p].broken
  <2>1. Position(job.cell) \in 1 .. Len(doc)
    BY PositionIs DEF JobInv
  <2>2. Walk[p].broken
    BY DEF PrefixFresh
  <2> QED BY <2>1, <2>2, WalkType DEF Types
<1> HIDE DEF p
<1>3. /\ Upstream \in Nonblank /\ Upstream \in 1 .. p
      /\ Walk[Upstream].broken /\ ~Walk[Upstream - 1].broken
  BY <1>2, UpstreamIs DEF Types
<1>4. Upstream \in 1 .. Len(doc) /\ doc[Upstream].source # Blank
  BY <1>2, <1>3, WalkType DEF Nonblank, Types
<1>5. doc[Upstream] \in DocCell
  BY <1>4, WalkType DEF Types
<1> QED BY <1>1, <1>3, <1>4, <1>5 DEF DocCell, Sources

\* The types of what a step leaves alone are kept.
LEMMA KeptDoc == ASSUME DocType, UNCHANGED docVars PROVE DocType'
<1>1. comm' = comm /\ doc' = doc /\ cellState' = cellState /\ status' = status
  BY Zenon DEF docVars
<1> QED BY <1>1, Zenon DEF DocType

\* The document's variables are left alone by all but a few steps.
LEMMA DocFrame ==
  ASSUME [Next]_vars
  PROVE  \/ UNCHANGED docVars
         \/ CommOpen \/ CommClose \/ (\E d \in Docs : CommMessage(d)) \/ RestartDoc
         \/ Dispatch \/ RerunUpstream \/ RunCell \/ CellFails
<1> USE DEF bootVars, docVars, clientVars, workerVars, cacheVars, pastVars, counters
<1>1. ASSUME Input, ~CommOpen, ~CommClose, ~(\E d \in Docs : CommMessage(d))
      PROVE  UNCHANGED docVars
  BY <1>1 DEF Input, BeginJob, Shutdown
<1>2. ASSUME Ensure, ~RestartDoc PROVE UNCHANGED docVars
  BY <1>2 DEF Ensure, EnsureRunning, EnsureFirst, RestartRepl, StartFails, InitAbsent,
    InitOk, InitFails
<1>3. ASSUME Recover PROVE UNCHANGED docVars
  BY <1>3 DEF Recover, RestoreMisses, Restore, RestoreRefused, RestoreFails,
    RestoreInterrupted, ReplayBegins, ReplayRestarts, RestartFails, ReplayCell,
    ReplayDiverges, ReplayEnds
<1>4. ASSUME Serve, ~Dispatch, ~RerunUpstream, ~RunCell, ~CellFails PROVE UNCHANGED docVars
  BY <1>4 DEF Serve, RefuseInitError, UpstreamFails, PrefixDone, RunRepl, ReplFails,
    SaveAnswered, SaveSkipped, AnswerQuery, ReplyOk
<1>5. ASSUME Raise PROVE UNCHANGED docVars
  BY <1>5 DEF Raise, RequestDies, RequestInterrupted, RequestTimesOut, ReplyInvalid
<1>6. ASSUME InterruptedOutside \/ WorkerDies \/ LateEnds \/ Stopped \/ UNCHANGED vars
      PROVE UNCHANGED docVars
  BY <1>6 DEF InterruptedOutside, WorkerDies, LateEnds, Stopped, vars
<1> QED BY <1>1, <1>2, <1>3, <1>4, <1>5, <1>6 DEF Next, Thread

\* The document already has the source that the job runs: Dispatch changes none.
LEMMA DispatchKeeps == ASSUME DocType, JobInv, Dispatch PROVE doc' = doc
<1>1. CASE job.kind = "cell" /\ InDoc(job.cell)
  <2>1. doc[Position(job.cell)].source = job.code /\ Position(job.cell) \in 1 .. Len(doc)
    BY <1>1, PositionIs DEF JobInv
  <2>2. doc[Position(job.cell)] \in DocCell
    BY <2>1 DEF DocType
  <2>3. [doc[Position(job.cell)] EXCEPT !.source = job.code] = doc[Position(job.cell)]
    BY <2>1, <2>2 DEF DocCell
  <2>4. doc' = [doc EXCEPT ![Position(job.cell)].source = job.code]
    BY <1>1 DEF Dispatch
  <2>5. doc' = [doc EXCEPT ![Position(job.cell)] = [doc[Position(job.cell)] EXCEPT !.source = job.code]]
    BY <2>4
  <2> QED BY <2>1, <2>3, <2>5 DEF DocType
<1>2. CASE ~(job.kind = "cell" /\ InDoc(job.cell))
  BY <1>2 DEF Dispatch
<1> QED BY <1>1, <1>2

\* The types of the document session.
LEMMA DocStep ==
  ASSUME Types, JobInv, [Next]_vars
  PROVE  DocType'
<1> USE DEF docVars
<1> DocType
  BY DEF Types
<1>1. ASSUME CommOpen \/ CommClose PROVE DocType'
  <2>1. comm' \in BOOLEAN /\ doc' = doc /\ cellState' = cellState
        /\ (status' = status \/ status' = {})
    BY <1>1, Zenon DEF CommOpen, CommClose
  <2> QED BY <2>1 DEF DocType
<1>2. ASSUME NEW d \in Docs, CommMessage(d) PROVE DocType'
  <2>1. comm' = comm /\ doc' = d /\ cellState' = cellState /\ Broadcast
    BY <1>2, Zenon DEF CommMessage
  <2>2. d \in Seq(DocCell)
    BY KernelAssumption
  <2>3. comm' \in BOOLEAN
    BY <2>1, Zenon DEF DocType
  <2> QED BY <2>1, <2>2, <2>3, BroadcastType DEF DocType
<1>3. ASSUME RestartDoc PROVE DocType'
  <2>1. comm' = comm /\ doc' = doc /\ status' = status /\ cellState' = [c \in Cells |-> NoState]
    BY <1>3, Zenon DEF RestartDoc
  <2>2. comm' \in BOOLEAN
    BY <2>1, Zenon DEF DocType
  <2> QED BY <2>1, <2>2 DEF DocType
<1>4. ASSUME Dispatch PROVE DocType'
  <2>1. comm' = comm /\ status' = status /\ cellState' = cellState
    BY <1>4, Zenon DEF Dispatch
  <2> QED BY <1>4, <2>1, DispatchKeeps, KeptDoc
<1>5. ASSUME RerunUpstream PROVE DocType'
  <2>1. comm' = comm /\ status' = status /\ doc' = doc
    BY <1>5, Zenon DEF RerunUpstream
  <2>2. cellState' \in [Cells -> CellState \cup {NoState}]
    BY <1>5, UpstreamCell, RecordType DEF RerunUpstream
  <2>3. comm' \in BOOLEAN
    BY <2>1, Zenon DEF DocType
  <2> QED BY <2>1, <2>2, <2>3 DEF DocType
<1>6. ASSUME RunCell PROVE DocType'
  <2>1. comm' = comm /\ doc' = doc /\ Broadcast
    BY <1>6, Zenon DEF RunCell
  <2>2. cellState' \in [Cells -> CellState \cup {NoState}]
    <3>1. Asking /\ pc # "query" /\ job.cell \in Cells /\ job.code \in Codes
      BY <1>6, JobIs DEF RunCell, Asking, JobInv, Executing
    <3> QED BY <1>6, <3>1, RecordType DEF RunCell
  <2>3. comm' \in BOOLEAN
    BY <2>1, Zenon DEF DocType
  <2>4. doc' \in Seq(DocCell)
    BY <2>1 DEF DocType
  <2> QED BY <2>1, <2>2, <2>3, <2>4, BroadcastType DEF DocType
<1>7. ASSUME CellFails PROVE DocType'
  <2>1. comm' = comm /\ doc' = doc /\ cellState' = cellState /\ Broadcast
    BY <1>7, Zenon DEF CellFails
  <2>2. comm' \in BOOLEAN
    BY <2>1, Zenon DEF DocType
  <2>3. doc' \in Seq(DocCell)
    BY <2>1 DEF DocType
  <2> QED BY <2>1, <2>2, <2>3, BroadcastType DEF DocType
<1> QED BY <1>1, <1>2, <1>3, <1>4, <1>5, <1>6, <1>7, DocFrame, KeptDoc

\* The types of what a step leaves alone are kept.
LEMMA KeptClient ==
  ASSUME ClientType, UNCHANGED clientVars
  PROVE  ClientType'
BY DEF ClientType, clientVars

\* The types of the client.
LEMMA ClientStep ==
  ASSUME Types, JobInv, [Next]_vars
  PROVE  ClientType'
<1> USE DEF bootVars, docVars, clientVars, workerVars, cacheVars, pastVars, counters
<1> ClientType
  BY DEF Types
<1> <<>> \in State
  BY DEF State
<1>1. ASSUME Input PROVE ClientType'
  BY <1>1, KeptClient DEF Input, CommOpen, CommClose, CommMessage, BeginJob, Shutdown
<1>2. ASSUME EnsureFirst \/ RestartDoc \/ RestartRepl PROVE ClientType'
  <2>1. snapshot' \in Nat
    BY <1>2, StartedType DEF EnsureFirst, RestartDoc, RestartRepl
  <2>2. (ledger' = ledger \/ ledger' = <<>>) /\ kept' = kept /\ todo' = todo
    BY <1>2, Zenon DEF EnsureFirst, RestartDoc, RestartRepl
  <2> QED BY <2>1, <2>2 DEF ClientType
<1>3. ASSUME EnsureRunning \/ StartFails \/ InitAbsent \/ InitFails PROVE ClientType'
  <2>1. /\ ledger' = ledger \/ ledger' = <<>>
        /\ snapshot' = snapshot
        /\ (kept' = kept \/ kept' = <<>>) /\ (todo' = todo \/ todo' = <<>>)
    BY <1>3 DEF EnsureRunning, StartFails, InitAbsent, InitFails, Rejected, Idle
  <2> QED BY <2>1 DEF ClientType
<1>4. ASSUME InitOk PROVE ClientType'
  <2>1. Asking /\ pc # "query" /\ Elaborated
    BY <1>4 DEF InitOk, Asking
  <2>2. Append(ledger, Requested.code) \in State /\ snapshot' \in Nat
    BY <2>1, ElaboratedType DEF ClientType, State
  <2> QED BY <1>4, <2>2 DEF InitOk, ClientType
<1>5. ASSUME RestoreMisses \/ RestoreRefused \/ RestoreFails \/ RestoreInterrupted
        \/ RestartFails \/ ReplayEnds
      PROVE ClientType'
  <2>1. /\ ledger' = ledger /\ snapshot' = snapshot
        /\ (kept' = kept \/ kept' = <<>>) /\ (todo' = todo \/ todo' = <<>>)
    BY <1>5 DEF RestoreMisses, RestoreRefused, RestoreFails, RestoreInterrupted,
      RestartFails, ReplayEnds, Idle
  <2> QED BY <2>1 DEF ClientType
<1>6. ASSUME Restore PROVE ClientType'
  BY <1>6 DEF Restore, ClientType, Types, WorkerType
<1>7. ASSUME ReplayBegins \/ ReplayRestarts PROVE ClientType'
  <2>1. snapshot' \in Nat
    BY <1>7, StartedType DEF ReplayBegins, ReplayRestarts, ClientType
  <2>2. ledger' = <<>> /\ kept' = ledger /\ todo' = ledger
    BY <1>7, Zenon DEF ReplayBegins, ReplayRestarts, SetAside
  <2> QED BY <2>1, <2>2 DEF ClientType
<1>8. ASSUME ReplayCell PROVE ClientType'
  <2>1. Asking /\ pc # "query" /\ Elaborated
    BY <1>8 DEF ReplayCell, Asking
  <2>2. snapshot' \in Nat
    BY <2>1, ElaboratedType
  <2>3. Head(todo) \in Codes /\ Tail(todo) \in State
    BY <1>8, HeadTailProperties DEF ReplayCell, ClientType, State
  <2>4. Append(ledger, Head(todo)) \in State
    BY <2>3 DEF ClientType, State
  <2> QED BY <1>8, <2>2, <2>3, <2>4 DEF ReplayCell, ClientType
<1>9. ASSUME RequestDies \/ RequestInterrupted \/ RequestTimesOut \/ ReplyInvalid
        \/ ReplayDiverges \/ InterruptedOutside
      PROVE ClientType'
  <2>1. Unwind /\ snapshot' = snapshot
    BY <1>9 DEF RequestDies, RequestInterrupted, RequestTimesOut, ReplyInvalid,
      ReplayDiverges, InterruptedOutside, RaiseDied
  <2> QED BY <2>1 DEF Unwind, Idle, ClientType
<1>10. ASSUME RefuseInitError \/ Dispatch \/ UpstreamFails \/ PrefixDone
         \/ CellFails \/ ReplFails \/ AnswerQuery
       PROVE ClientType'
  <2>1. /\ ledger' = ledger /\ snapshot' = snapshot
        /\ (kept' = kept \/ kept' = <<>>) /\ (todo' = todo \/ todo' = <<>>)
    BY <1>10 DEF RefuseInitError, Dispatch, UpstreamFails, PrefixDone, CellFails, ReplFails,
      AnswerQuery, Rejected, Idle
  <2> QED BY <2>1 DEF ClientType
<1>11. ASSUME RerunUpstream \/ RunCell PROVE ClientType'
  <2>1. Asking /\ pc # "query" /\ Elaborated
    BY <1>11 DEF RerunUpstream, RunCell, Asking
  <2>2. snapshot' \in Nat
    BY <2>1, ElaboratedType
  <2>3. /\ ledger' = ledger
        /\ (kept' = kept \/ kept' = <<>>) /\ (todo' = todo \/ todo' = <<>>)
    BY <1>11 DEF RerunUpstream, RunCell, Idle
  <2> QED BY <2>2, <2>3 DEF ClientType
<1>12. ASSUME RunRepl PROVE ClientType'
  <2>1. Asking /\ pc # "query" /\ Elaborated /\ job.code \in Codes
    BY <1>12, JobIs DEF RunRepl, Asking, JobInv
  <2>2. snapshot' \in Nat /\ Append(ledger, job.code) \in State
    BY <2>1, ElaboratedType DEF ClientType, State
  <2> QED BY <1>12, <2>2 DEF RunRepl, ClientType
<1>13. ASSUME SaveAnswered \/ SaveSkipped PROVE ClientType'
  <2>1. ledger' = ledger /\ snapshot' = snapshot /\ kept' = <<>> /\ todo' = <<>>
    BY <1>13 DEF SaveAnswered, SaveSkipped, ReplyOk, Idle
  <2> QED BY <2>1 DEF ClientType
<1>14. ASSUME WorkerDies \/ LateEnds \/ Stopped \/ UNCHANGED vars PROVE ClientType'
  BY <1>14, KeptClient DEF WorkerDies, LateEnds, Stopped, vars
<1> QED BY <1>1, <1>2, <1>3, <1>4, <1>5, <1>6, <1>7, <1>8, <1>9, <1>10, <1>11, <1>12,
  <1>13, <1>14 DEF Next, Thread, Ensure, Recover, Serve, Raise

\* What a step may do to the worker, and to what it was left alone with.
LEMMA WorkerFrame ==
  ASSUME [Next]_vars
  PROVE  \/ UNCHANGED workerVars \/ Kill
         \/ EnsureFirst \/ RestartDoc \/ RestartRepl \/ ReplayRestarts
         \/ WorkerDies \/ LateEnds \/ Restore \/ RequestTimesOut
         \/ Asking /\ pc # "query" /\ Elaborated
<1> USE DEF workerVars
<1>1. ASSUME Input PROVE UNCHANGED workerVars \/ Kill
  BY <1>1 DEF Input, CommOpen, CommClose, CommMessage, BeginJob, Shutdown
<1>2. ASSUME Ensure, ~InitOk, ~EnsureFirst, ~RestartDoc, ~RestartRepl
      PROVE  UNCHANGED workerVars \/ Kill
  BY <1>2 DEF Ensure, EnsureRunning, StartFails, InitAbsent, InitFails, Rejected
<1>3. ASSUME Recover, ~Restore, ~ReplayCell, ~ReplayRestarts PROVE UNCHANGED workerVars \/ Kill
  BY <1>3 DEF Recover, RestoreMisses, RestoreRefused, RestoreFails, RestoreInterrupted,
    ReplayBegins, RestartFails, ReplayDiverges, ReplayEnds, RaiseDied
<1>4. ASSUME InitOk \/ ReplayCell \/ RerunUpstream \/ RunCell \/ RunRepl
      PROVE  Asking /\ pc # "query" /\ Elaborated
  BY <1>4 DEF InitOk, ReplayCell, RerunUpstream, RunCell, RunRepl, Asking
<1>5. ASSUME Serve, ~RerunUpstream, ~RunCell, ~RunRepl PROVE UNCHANGED workerVars \/ Kill
  BY <1>5 DEF Serve, RefuseInitError, Dispatch, UpstreamFails, PrefixDone, CellFails,
    ReplFails, SaveAnswered, SaveSkipped, AnswerQuery, Rejected, ReplyOk
<1>6. ASSUME Raise, ~RequestTimesOut PROVE UNCHANGED workerVars \/ Kill
  BY <1>6 DEF Raise, RequestDies, RequestInterrupted, ReplyInvalid, RaiseDied
<1>7. ASSUME InterruptedOutside \/ Stopped \/ UNCHANGED vars PROVE UNCHANGED workerVars \/ Kill
  BY <1>7 DEF InterruptedOutside, Stopped, vars
<1> QED BY <1>1, <1>2, <1>3, <1>4, <1>5, <1>6, <1>7 DEF Next, Thread

\* The steps that start a worker.
LEMMA StartedIs ==
  ASSUME EnsureFirst \/ RestartDoc \/ RestartRepl \/ ReplayRestarts
  PROVE  Started
BY DEF EnsureFirst, RestartDoc, RestartRepl, ReplayRestarts

\* A late execute commits, or not.
LEMMA LateType ==
  ASSUME WorkerType, LateEnds
  PROVE  /\ WorkerType' /\ owned' = owned /\ alive' = alive
         /\ \/ snaps' = snaps
            \/ \E s \in State : snaps' = Append(snaps, s)
<1>1. /\ owned' = owned /\ alive' = alive /\ late # <<>> /\ late' = Tail(late)
      /\ \/ /\ Known(Head(late).parent)
            /\ snaps' = Append(snaps, Append(StateAt(Head(late).parent), Head(late).code))
            /\ current' = Len(snaps)
         \/ snaps' = snaps /\ current' = current
  BY Zenon DEF LateEnds
<1>2. Head(late) \in [parent : Nat, code : Codes] /\ late' \in Seq([parent : Nat, code : Codes])
  BY <1>1, HeadTailProperties DEF WorkerType
<1>3. owned' \in BOOLEAN /\ alive' \in BOOLEAN /\ (alive' => owned')
  BY <1>1, Zenon DEF WorkerType
<1>4. CASE /\ Known(Head(late).parent)
           /\ snaps' = Append(snaps, Append(StateAt(Head(late).parent), Head(late).code))
           /\ current' = Len(snaps)
  <2> DEFINE p == Head(late).parent  c == Head(late).code  s == Append(StateAt(p), c)
  <2>1. p \in Nat /\ c \in Codes
    BY <1>2
  <2> HIDE DEF p, c
  <2>2. s \in State /\ Len(snaps) \in Nat
    BY <1>4, <2>1, StateOf DEF p, c
  <2>3. snaps' = Append(snaps, s)
    BY <1>4 DEF p, c
  <2> HIDE DEF s
  <2>4. snaps' \in Seq(State) /\ Len(snaps') = Len(snaps) + 1
    BY <2>2, <2>3, AppendProperties DEF WorkerType
  <2>5. alive
    BY <1>4, <2>1 DEF p, Known, WorkerType
  <2>6. WorkerType'
    <3>1. alive' /\ current' \in Nat /\ current' < Len(snaps')
      BY <1>1, <1>4, <2>2, <2>4, <2>5
    <3> QED BY <1>2, <1>3, <2>4, <3>1 DEF WorkerType
  <2> QED BY <1>1, <2>2, <2>3, <2>6
<1>5. CASE snaps' = snaps /\ current' = current
  <2>1. CASE alive
    BY <1>1, <1>2, <1>3, <1>5, <2>1 DEF WorkerType
  <2>2. CASE ~alive
    BY <1>1, <1>2, <1>3, <1>5, <2>2 DEF WorkerType
  <2> QED BY <1>1, <1>5, <2>1, <2>2
<1> QED BY <1>1, <1>4, <1>5

\* A timeout leaves the worker alone with the request, or kills it.
LEMMA TimeoutType ==
  ASSUME Types, JobInv, RequestTimesOut
  PROVE  /\ WorkerType' /\ alive
         /\ \/ ~started /\ Kill
            \/ /\ started /\ owned' = owned /\ alive' = alive /\ snaps' = snaps
               /\ current' = current
<1>1. /\ alive /\ owned /\ Asking
      /\ \/ ~started /\ Kill
         \/ /\ started
            /\ late' = IF pc = "query" THEN late ELSE Append(late, Requested)
            /\ owned' = owned /\ alive' = alive /\ snaps' = snaps /\ current' = current
  BY DEF RequestTimesOut
<1>2. CASE Kill /\ ~started
  BY <1>1, <1>2, KilledType
<1>3. CASE /\ started
           /\ late' = IF pc = "query" THEN late ELSE Append(late, Requested)
           /\ owned' = owned /\ alive' = alive /\ snaps' = snaps /\ current' = current
  <2>1. late' \in Seq([parent : Nat, code : Codes])
    <3>1. CASE pc = "query"
      BY <1>3, <3>1 DEF Types, WorkerType
    <3>2. CASE pc # "query"
      BY <1>1, <1>3, <3>2, RequestedType DEF Types, WorkerType
    <3> QED BY <3>1, <3>2
  <2>2. alive' /\ owned' /\ alive' \in BOOLEAN /\ owned' \in BOOLEAN
    BY <1>1, <1>3, Zenon DEF Types, WorkerType
  <2>3. WorkerType'
    BY <1>1, <1>3, <2>1, <2>2 DEF Types, WorkerType
  <2> QED BY <1>1, <1>3, <2>3
<1> QED BY <1>1, <1>2, <1>3

\* A restored session is one more snapshot.
LEMMA RestoreType ==
  ASSUME Types, Restore
  PROVE  /\ WorkerType' /\ owned' = owned /\ alive' = alive
         /\ \E s \in State : snaps' = Append(snaps, s)
<1>1. PICK s \in saved : snaps' = Append(snaps, s)
  BY DEF Restore
<1>2. s \in State
  BY DEF Types, CacheType
<1>3. /\ current' = Len(snaps) /\ owned' = owned /\ alive' = alive /\ late' = late
      /\ owned /\ alive
  BY DEF Restore, Serving
<1>4. snaps' \in Seq(State) /\ Len(snaps') = Len(snaps) + 1 /\ Len(snaps) \in Nat
  BY <1>1, <1>2, AppendProperties DEF Types, WorkerType
<1>5. WorkerType'
  BY <1>3, <1>4 DEF Types, WorkerType
<1> QED BY <1>1, <1>2, <1>3, <1>5

\* The types of the worker.
LEMMA WorkerStep ==
  ASSUME Types, JobInv, [Next]_vars
  PROVE  WorkerType'
<1> WorkerType
  BY DEF Types
<1>1. ASSUME WorkerDies PROVE WorkerType'
  <2>1. owned' = owned /\ alive' = FALSE /\ snaps' = <<>> /\ current' = 0 /\ late' = <<>>
    BY <1>1, Zenon DEF WorkerDies
  <2>2. owned' \in BOOLEAN /\ alive' \in BOOLEAN /\ ~alive'
    BY <2>1, Zenon DEF WorkerType
  <2> QED BY <2>1, <2>2 DEF WorkerType
<1> QED BY <1>1, WorkerFrame, KeptWorker, KilledType, StartedIs, StartedType, LateType, RestoreType,
  TimeoutType, ElaboratedType

\* The types of what a step leaves alone are kept.
LEMMA KeptCache == ASSUME CacheType, UNCHANGED cacheVars PROVE CacheType'
BY DEF CacheType, cacheVars

\* The state that a worker which answers would save.
LEMMA CurrentState == ASSUME WorkerType, alive PROVE StateAt(current) \in State
<1>1. current + 1 \in 1 .. Len(snaps)
  BY DEF WorkerType
<1> QED BY <1>1, ElementOfSeq DEF StateAt, WorkerType

\* The types of the session cache.
LEMMA CacheStep ==
  ASSUME Types, JobInv, [Next]_vars
  PROVE  CacheType'
<1> USE DEF bootVars, docVars, clientVars, workerVars, cacheVars, pastVars, counters
<1> CacheType /\ WorkerType /\ ClientType
  BY DEF Types
<1>1. ASSUME Shutdown PROVE CacheType'
  BY <1>1 DEF Shutdown, CacheType
<1>2. ASSUME SaveAnswered PROVE CacheType'
  <2>1. StateAt(current) \in State
    BY <1>2, CurrentState DEF SaveAnswered, Serving
  <2>2. \/ saved' = {StateAt(current)} /\ key' = {[ledger |-> ledger, state |-> StateAt(current)]}
        \/ saved' = saved /\ key' = {}
    BY <1>2 DEF SaveAnswered
  <2> QED BY <2>1, <2>2 DEF CacheType, ClientType
<1>3. ASSUME SaveSkipped PROVE CacheType'
  <2>1. key' = key /\ (saved' \in {saved, {}} \/ (alive /\ saved' \in {saved, {}, {StateAt(current)}}))
    BY <1>3 DEF SaveSkipped
  <2>2. alive => StateAt(current) \in State
    BY CurrentState
  <2> QED BY <2>1, <2>2 DEF CacheType
<1>4. ASSUME InterruptedOutside PROVE CacheType'
  <2>1. CASE pc = "save"
    <3>1. key' \in {key, {}} /\ saved' \in {saved, IF Serving THEN {StateAt(current)} ELSE {}}
      BY <1>4, <2>1 DEF InterruptedOutside
    <3>2. Serving => StateAt(current) \in State
      BY CurrentState DEF Serving
    <3> QED BY <3>1, <3>2 DEF CacheType
  <2>2. CASE pc # "save"
    BY <1>4, <2>2, KeptCache DEF InterruptedOutside
  <2> QED BY <2>1, <2>2
<1>5. ASSUME Input, ~Shutdown PROVE UNCHANGED cacheVars
  BY <1>5 DEF Input, CommOpen, CommClose, CommMessage, BeginJob
<1>6. ASSUME Ensure PROVE UNCHANGED cacheVars
  BY <1>6 DEF Ensure, EnsureRunning, EnsureFirst, RestartDoc, RestartRepl, StartFails,
    InitAbsent, InitOk, InitFails
<1>7. ASSUME Recover PROVE UNCHANGED cacheVars
  BY <1>7 DEF Recover, RestoreMisses, Restore, RestoreRefused, RestoreFails,
    RestoreInterrupted, ReplayBegins, ReplayRestarts, RestartFails, ReplayCell,
    ReplayDiverges, ReplayEnds
<1>8. ASSUME Serve, ~SaveAnswered, ~SaveSkipped PROVE UNCHANGED cacheVars
  BY <1>8 DEF Serve, RefuseInitError, Dispatch, RerunUpstream, UpstreamFails,
    PrefixDone, RunCell, CellFails, RunRepl, ReplFails, AnswerQuery
<1>9. ASSUME Raise PROVE UNCHANGED cacheVars
  BY <1>9 DEF Raise, RequestDies, RequestInterrupted, RequestTimesOut, ReplyInvalid
<1>10. ASSUME WorkerDies \/ LateEnds \/ Stopped \/ UNCHANGED vars PROVE UNCHANGED cacheVars
  BY <1>10 DEF WorkerDies, LateEnds, Stopped, vars
<1>11. \/ UNCHANGED cacheVars
       \/ Shutdown \/ SaveAnswered \/ SaveSkipped \/ InterruptedOutside
  BY <1>5, <1>6, <1>7, <1>8, <1>9, <1>10 DEF Next, Thread
<1> QED BY <1>1, <1>2, <1>3, <1>4, <1>11, KeptCache

\* No job is no job of any kind.
LEMMA NoJobIs == NoJob.kind = "none" /\ NoJob \notin Job
BY DEF NoJob, Job

\* What the steps do to the thread: it begins a job, goes on with it, or ends it.
LEMMA JobFrame ==
  ASSUME JobInv, [Next]_vars
  PROVE  \/ UNCHANGED <<pc, job>>
         \/ \E j \in Jobs : BeginJob(j)
         \/ Shutdown
         \/ pc \notin {"idle", "stopped"} /\ Idle
         \/ /\ job' = job
            /\ \/ pc = "ensure" /\ pc' = "init" /\ (RestartDoc \/ ~started)
               \/ pc = "ensure" /\ pc' = "dispatch" /\ started
               \/ pc = "ensure" /\ pc' = "restore" /\ started /\ doc = <<>>
               \/ pc = "init" /\ pc' = "dispatch" /\ started'
               \/ pc = "restore" /\ pc' \in {"check", "dispatch"}
               \/ pc = "check" /\ pc' = "replay"
               \/ pc = "replay" /\ pc' \in {"replay", "dispatch"}
               \/ Dispatch
               \/ pc = "prefix" /\ pc' \in {"prefix", "run"}
               \/ pc = "repl" /\ pc' = "save"
<1> USE DEF bootVars, docVars, clientVars, workerVars, cacheVars, pastVars, counters
<1>1. ASSUME CommOpen \/ CommClose \/ \E d \in Docs : CommMessage(d) PROVE UNCHANGED <<pc, job>>
  BY <1>1 DEF CommOpen, CommClose, CommMessage
<1>2. ASSUME Ensure
      PROVE  \/ /\ job' = job
                /\ \/ pc = "ensure" /\ pc' = "init" /\ (RestartDoc \/ ~started)
                   \/ pc = "ensure" /\ pc' = "dispatch" /\ started
                   \/ pc = "ensure" /\ pc' = "restore" /\ started /\ doc = <<>>
                   \/ pc = "init" /\ pc' = "dispatch" /\ started'
             \/ pc = "ensure" /\ Idle
  BY <1>2 DEF Ensure, EnsureRunning, EnsureFirst, RestartDoc, RestartRepl, StartFails,
    InitAbsent, InitOk, InitFails, Continue
<1>3. ASSUME Recover
      PROVE  \/ /\ job' = job
                /\ \/ pc = "restore" /\ pc' \in {"check", "dispatch"}
                   \/ pc = "check" /\ pc' = "replay"
                   \/ pc = "replay" /\ pc' \in {"replay", "dispatch"}
             \/ pc \in {"check", "replay"} /\ Idle
  BY <1>3 DEF Recover, RestoreMisses, Restore, RestoreRefused, RestoreFails,
    RestoreInterrupted, ReplayBegins, ReplayRestarts, RestartFails, ReplayCell,
    ReplayDiverges, ReplayEnds, Continue, Unwind, RaiseDied
<1>4. ASSUME Serve, ~Dispatch
      PROVE  \/ /\ job' = job
                /\ \/ pc = "prefix" /\ pc' \in {"prefix", "run"}
                   \/ pc = "repl" /\ pc' = "save"
             \/ pc \notin {"idle", "stopped"} /\ Idle
  BY <1>4 DEF Serve, RefuseInitError, RerunUpstream, UpstreamFails, PrefixDone, RunCell,
    CellFails, RunRepl, ReplFails, SaveAnswered, SaveSkipped, AnswerQuery, Continue, ReplyOk
<1>5. ASSUME Dispatch PROVE job' = job
  BY <1>5 DEF Dispatch, Continue
<1>6. ASSUME Raise PROVE pc \notin {"idle", "stopped"} /\ Idle
  BY <1>6 DEF Raise, RequestDies, RequestInterrupted, RequestTimesOut, ReplyInvalid, Asking,
    Unwind, RaiseDied
<1>7. ASSUME InterruptedOutside PROVE pc \notin {"idle", "stopped"} /\ Idle
  BY <1>7, NoJobIs DEF InterruptedOutside, Unwind, Executing, JobInv
<1>8. ASSUME WorkerDies \/ LateEnds \/ Stopped \/ UNCHANGED vars PROVE UNCHANGED <<pc, job>>
  BY <1>8 DEF WorkerDies, LateEnds, Stopped, vars
<1> QED BY <1>1, <1>2, <1>3, <1>4, <1>5, <1>6, <1>7, <1>8 DEF Next, Thread, Input

\* The notebook changes between jobs only, by what the frontend sends.
LEMMA DocKept ==
  ASSUME DocType, JobInv, [Next]_vars
  PROVE  doc' = doc \/ (pc = "idle" /\ UNCHANGED <<pc, job>> /\ \E d \in Docs : doc' = d)
<1>1. ASSUME NEW d \in Docs, CommMessage(d)
      PROVE  pc = "idle" /\ UNCHANGED <<pc, job>> /\ doc' = d
  BY <1>1 DEF CommMessage
<1>2. ASSUME CommOpen \/ CommClose \/ RestartDoc \/ RerunUpstream \/ RunCell \/ CellFails
      PROVE  doc' = doc
  BY <1>2 DEF CommOpen, CommClose, RestartDoc, RerunUpstream, RunCell, CellFails
<1>3. ASSUME UNCHANGED docVars PROVE doc' = doc
  BY <1>3 DEF docVars
<1> QED BY <1>1, <1>2, <1>3, DocFrame, DispatchKeeps

\* Entries are made by the two steps that run a cell, and dropped by RestartDoc.
LEMMA CellsFrame ==
  ASSUME [Next]_vars
  PROVE  cellState' = cellState \/ RestartDoc \/ RerunUpstream \/ RunCell
<1>1. ASSUME CommOpen \/ CommClose \/ (\E d \in Docs : CommMessage(d)) \/ Dispatch \/ CellFails
      PROVE  cellState' = cellState
  BY <1>1 DEF CommOpen, CommClose, CommMessage, Dispatch, CellFails
<1>2. ASSUME UNCHANGED docVars PROVE cellState' = cellState
  BY <1>2 DEF docVars
<1> QED BY <1>1, <1>2, DocFrame

\* A restart in document mode drops every entry.
LEMMA RestartDocClears == ASSUME RestartDoc PROVE NoCells' /\ pc = "ensure" /\ pc' = "init"
BY DEF RestartDoc, NoCells, Continue

\* Who writes _started.
LEMMA StartedFrame ==
  ASSUME [Next]_vars
  PROVE  \/ started' = started
         \/ Shutdown
         \/ pc = "init" /\ pc' = "dispatch" /\ started' = TRUE
<1>1. ASSUME EnsureFirst \/ RestartDoc PROVE started' = started
  BY <1>1 DEF EnsureFirst, RestartDoc
<1>2. ASSUME InitAbsent \/ InitOk \/ InitFails
      PROVE  pc = "init" /\ pc' = "dispatch" /\ started' = TRUE
  BY <1>2 DEF InitAbsent, InitOk, InitFails, Continue
<1>3. ASSUME UNCHANGED bootVars PROVE started' = started
  BY <1>3 DEF bootVars
<1> QED BY <1>1, <1>2, <1>3, BootFrame

\* What a shutdown writes, and leaves alone.
LEMMA ShutdownIs ==
  ASSUME Shutdown
  PROVE  pc = "idle" /\ pc' = "stopped" /\ job' = job /\ started' = FALSE
         /\ doc' = doc /\ cellState' = cellState
BY DEF Shutdown, docVars

\* What the beginning of a job writes.
LEMMA BeginIs ==
  ASSUME NEW j \in Jobs, BeginJob(j)
  PROVE  /\ pc = "idle" /\ job' = j /\ j \in Job /\ doc' = doc /\ cellState' = cellState
         /\ started' = started /\ status' = status
         /\ IF j.kind = "is_complete" THEN pc' = "query" /\ started ELSE pc' = "ensure"
         /\ j.kind = "cell" => InDoc(j.cell) /\ doc[Position(j.cell)].source = j.code
         /\ j.kind \in Kinds
<1>1. doc' = doc /\ cellState' = cellState /\ started' = started /\ status' = status
  BY Zenon DEF BeginJob, docVars, bootVars
<1> QED BY <1>1 DEF BeginJob, Jobs

\* Where a job goes once there is a worker.
LEMMA DispatchIs ==
  ASSUME Dispatch
  PROVE  /\ pc = "dispatch" /\ job' = job /\ ~initError /\ cellState' = cellState
         /\ IF job.kind = "cell" /\ InDoc(job.cell) THEN pc' = "prefix"
            ELSE IF job.kind = "query" THEN pc' = "query" ELSE pc' = "repl"
BY DEF Dispatch, Continue

\* A shutdown is the end.
LEMMA StoppedStays == ASSUME JobInv, [Next]_vars, pc = "stopped" PROVE pc' = "stopped"
BY JobFrame, BeginIs, ShutdownIs, DispatchIs DEF Idle

\* A job's place and kind go together.
LEMMA JobPlace ==
  ASSUME JobInv, [Next]_vars
  PROVE  /\ IF pc' \in {"idle", "stopped"} THEN job' = NoJob ELSE job' \in Job
         /\ pc' \notin {"idle", "stopped", "query"} => job'.kind # "is_complete"
         /\ pc' \in {"repl", "save"} => job'.kind \in {"cell", "console"}
         /\ pc' \in {"prefix", "run"} => job'.kind = "cell"
<1> DEFINE Goal ==
         /\ IF pc' \in {"idle", "stopped"} THEN job' = NoJob ELSE job' \in Job
         /\ pc' \notin {"idle", "stopped", "query"} => job'.kind # "is_complete"
         /\ pc' \in {"repl", "save"} => job'.kind \in {"cell", "console"}
         /\ pc' \in {"prefix", "run"} => job'.kind = "cell"
<1> SUFFICES Goal
  OBVIOUS
<1>1. CASE UNCHANGED <<pc, job>>
  BY <1>1 DEF JobInv, Executing
<1>2. ASSUME NEW j \in Jobs, BeginJob(j) PROVE Goal
  BY <1>2, BeginIs
<1>3. CASE Shutdown
  BY <1>3, ShutdownIs DEF JobInv
<1>4. CASE Idle
  BY <1>4 DEF Idle
<1>5. CASE Dispatch
  <2>1. job \in Job /\ job.kind # "is_complete"
    BY <1>5, DispatchIs DEF JobInv
  <2>2. job.kind \in {"cell", "console", "query"}
    BY <2>1 DEF Job
  <2> QED BY <1>5, <2>1, <2>2, DispatchIs
<1>6. CASE /\ job' = job
           /\ \/ pc = "ensure" /\ pc' \in {"init", "dispatch", "restore"}
              \/ pc = "init" /\ pc' = "dispatch"
              \/ pc = "restore" /\ pc' \in {"check", "dispatch"}
              \/ pc = "check" /\ pc' = "replay"
              \/ pc = "replay" /\ pc' \in {"replay", "dispatch"}
              \/ pc = "prefix" /\ pc' \in {"prefix", "run"}
              \/ pc = "repl" /\ pc' = "save"
  BY <1>6 DEF JobInv, Executing
<1> HIDE DEF Goal
<1>7. (\E j \in Jobs : BeginJob(j)) => Goal
  BY <1>2
<1> QED BY <1>1, <1>3, <1>4, <1>5, <1>6, <1>7, JobFrame

\* The cell of a job is visible, with the source that is to run.
LEMMA JobCell ==
  ASSUME Types, JobInv, [Next]_vars
  PROVE  (job.kind = "cell" => InDoc(job.cell) /\ doc[Position(job.cell)].source = job.code)'
<1>1. CASE \E j \in Jobs : BeginJob(j)
  <2>1. PICK j \in Jobs : BeginJob(j)
    BY <1>1
  <2>2. job' = j /\ doc' = doc /\ (j.kind = "cell" => InDoc(j.cell) /\ doc[Position(j.cell)].source = j.code)
    BY <2>1, BeginIs
  <2> QED BY <2>2, Zenon DEF InDoc, Position
<1>2. CASE job' = job /\ doc' = doc
  BY <1>2, Zenon DEF JobInv, InDoc, Position
<1>3. CASE job' = NoJob
  BY <1>3, NoJobIs
<1>4. CASE pc = "idle" /\ job' = job
  BY <1>4, NoJobIs DEF JobInv
<1>5. job' = job \/ job' = NoJob \/ \E j \in Jobs : BeginJob(j)
  BY JobFrame, ShutdownIs, DispatchIs DEF Idle
<1>6. doc' = doc \/ (pc = "idle" /\ job' = job)
  BY DocKept DEF Types
<1> QED BY <1>1, <1>2, <1>3, <1>4, <1>5, <1>6

\* Past the bootstrap the adapter has started; before, no cell has run.
LEMMA JobStarted ==
  ASSUME JobInv, [Next]_vars
  PROVE  pc' \notin {"idle", "ensure", "init", "stopped"} => started'
<1>1. CASE \E j \in Jobs : BeginJob(j)
  BY <1>1, BeginIs
<1>2. CASE pc = "init" /\ pc' = "dispatch" /\ started' = TRUE
  BY <1>2
<1>3. CASE Shutdown
  BY <1>3, ShutdownIs
<1>4. CASE started' = started /\ ~(\E j \in Jobs : BeginJob(j)) /\ ~Shutdown
  BY <1>4, JobFrame, DispatchIs DEF Idle, JobInv
<1> QED BY <1>1, <1>2, <1>3, <1>4, StartedFrame

\* Until the bootstrap is over no cell is on record.
LEMMA JobClean ==
  ASSUME JobInv, [Next]_vars
  PROVE  pc' = "init" \/ (~started' /\ pc' # "stopped") => NoCells'
<1> SUFFICES ASSUME pc' = "init" \/ (~started' /\ pc' # "stopped") PROVE NoCells'
  OBVIOUS
<1>1. CASE RestartDoc
  BY <1>1, RestartDocClears
<1>2. CASE RerunUpstream \/ RunCell
  <2>1. pc \in {"prefix", "run"} /\ pc' \in {"prefix", "idle"} /\ started' = started
    BY <1>2 DEF RerunUpstream, RunCell, Continue, Idle, bootVars
  <2> QED BY <2>1 DEF JobInv
<1>3. CASE cellState' = cellState /\ ~RestartDoc
  <2>1. NoCells => NoCells'
    BY <1>3, Zenon DEF NoCells
  <2>2. pc = "init" \/ (~started /\ pc # "stopped")
    BY <1>3, JobFrame, StartedFrame, ShutdownIs, BeginIs, DispatchIs, StoppedStays
      DEF Idle, JobInv
  <2> QED BY <2>1, <2>2 DEF JobInv
<1> QED BY <1>1, <1>2, <1>3, CellsFrame

\* No id is twice in a notebook.
LEMMA UniqueIds ==
  ASSUME Types, JobInv, [Next]_vars
  PROVE  (\A m, n \in DOMAIN doc : doc[m].id = doc[n].id => m = n)'
<1>1. CASE doc' = doc
  BY <1>1 DEF JobInv
<1>2. ASSUME NEW d \in Docs, doc' = d PROVE (\A m, n \in DOMAIN doc : doc[m].id = doc[n].id => m = n)'
  BY <1>2, KernelAssumption
<1> QED BY <1>1, <1>2, DocKept DEF Types

\* Together.
LEMMA JobStep == ASSUME Types, JobInv, [Next]_vars PROVE JobInv'
BY JobPlace, JobCell, JobStarted, JobClean, UniqueIds DEF JobInv, Executing

\* The types of the thread.
LEMMA JobTypeStep ==
  ASSUME JobInv, JobType, [Next]_vars
  PROVE  JobType'
<1> DEFINE Places == {"idle", "ensure", "init", "restore", "check", "replay", "dispatch",
                      "prefix", "run", "repl", "save", "query", "stopped"}
<1>1. pc' \in Places
  BY JobFrame, BeginIs, ShutdownIs, DispatchIs DEF Idle, JobType
<1>2. job' \in Job \cup {NoJob}
  <2>1. IF pc' \in {"idle", "stopped"} THEN job' = NoJob ELSE job' \in Job
    BY JobPlace
  <2> QED BY <2>1
<1> QED BY <1>1, <1>2 DEF JobType

\* The types of what a step leaves alone are kept.
LEMMA KeptPast == ASSUME PastType, UNCHANGED <<pastVars, counters>> PROVE PastType'
<1>1. shown' = shown /\ acked' = acked /\ struck' = struck /\ cut' = cut /\ inputs' = inputs /\ faults' = faults
  BY Zenon DEF pastVars, counters
<1> QED BY <1>1, Zenon DEF PastType

\* An execute replies with the outputs of its code on its parent's state.
LEMMA ShownType ==
  ASSUME Types, JobInv, RunCell
  PROVE  shown' \in [Cells -> SUBSET State]
<1> DEFINE s == Append(StateAt(Requested.parent), job.code)
<1>1. Asking /\ pc # "query" /\ Elaborated /\ job.cell \in Cells /\ Requested.code = job.code
  BY JobIs DEF RunCell, Asking, JobInv, Requested
<1>2. s \in State
  BY <1>1, ElaboratedType
<1>3. shown' = [shown EXCEPT ![job.cell] = {s}]
  BY DEF RunCell
<1> HIDE DEF s
<1> QED BY <1>2, <1>3 DEF Types, PastType

\* The counters stay within their bounds.
LEMMA Counted ==
  ASSUME PastType
  PROVE  /\ inputs < MaxInputs => inputs + 1 \in 0 .. MaxInputs
         /\ faults < MaxFaults => faults + 1 \in 0 .. MaxFaults
BY KernelAssumption DEF PastType

\* The counters of the bounds.
LEMMA CountersStep ==
  ASSUME PastType, [Next]_vars
  PROVE  inputs' \in 0 .. MaxInputs /\ faults' \in 0 .. MaxFaults
<1> USE DEF bootVars, docVars, clientVars, workerVars, cacheVars, pastVars, counters
<1> inputs \in 0 .. MaxInputs /\ faults \in 0 .. MaxFaults
  BY DEF PastType
<1>1. ASSUME Input PROVE faults' = faults /\ (inputs' = inputs \/ (inputs < MaxInputs /\ inputs' = inputs + 1))
  BY <1>1 DEF Input, CommOpen, CommClose, CommMessage, BeginJob, Shutdown
<1>2. ASSUME Ensure PROVE inputs' = inputs /\ (faults' = faults \/ (faults < MaxFaults /\ faults' = faults + 1))
  BY <1>2 DEF Ensure, EnsureRunning, EnsureFirst, RestartDoc, RestartRepl, StartFails,
    InitAbsent, InitOk, InitFails, Continue
<1>3. ASSUME Recover PROVE inputs' = inputs /\ (faults' = faults \/ (faults < MaxFaults /\ faults' = faults + 1))
  BY <1>3 DEF Recover, RestoreMisses, Restore, RestoreRefused, RestoreFails,
    RestoreInterrupted, ReplayBegins, ReplayRestarts, RestartFails, ReplayCell,
    ReplayDiverges, ReplayEnds, Continue
<1>4. ASSUME Serve PROVE inputs' = inputs /\ (faults' = faults \/ (faults < MaxFaults /\ faults' = faults + 1))
  BY <1>4 DEF Serve, RefuseInitError, Dispatch, RerunUpstream, UpstreamFails,
    PrefixDone, RunCell, CellFails, RunRepl, ReplFails, SaveAnswered, SaveSkipped,
    AnswerQuery, ReplyOk, Continue
<1>5. ASSUME Raise PROVE inputs' = inputs /\ (faults' = faults \/ (faults < MaxFaults /\ faults' = faults + 1))
  BY <1>5 DEF Raise, RequestDies, RequestInterrupted, RequestTimesOut, ReplyInvalid
<1>6. ASSUME InterruptedOutside \/ WorkerDies \/ LateEnds \/ Stopped \/ UNCHANGED vars
      PROVE inputs' = inputs /\ (faults' = faults \/ (faults < MaxFaults /\ faults' = faults + 1))
  BY <1>6 DEF InterruptedOutside, WorkerDies, LateEnds, Stopped, vars
<1> QED BY <1>1, <1>2, <1>3, <1>4, <1>5, <1>6, Counted DEF Next, Thread

\* The history: outputs change when a cell is begun or run, replies when a REPL
\* cell ends.
LEMMA HistoryFrame ==
  ASSUME [Next]_vars
  PROVE  /\ shown' = shown \/ (\E j \in Jobs : BeginJob(j)) \/ RunCell
         /\ acked' = acked \/ (pc = "save" /\ acked' = Append(acked, job.code))
         /\ struck' = struck \/ struck' \in BOOLEAN
<1> USE DEF bootVars, docVars, clientVars, workerVars, cacheVars, pastVars, counters
<1> DEFINE Same == shown' = shown /\ acked' = acked /\ (struck' = struck \/ struck' \in BOOLEAN)
<1>1. ASSUME Input, ~(\E j \in Jobs : BeginJob(j)) PROVE Same
  BY <1>1 DEF Input, CommOpen, CommClose, CommMessage, Shutdown
<1>2. ASSUME Ensure PROVE Same
  BY <1>2 DEF Ensure, EnsureRunning, EnsureFirst, RestartDoc, RestartRepl, StartFails,
    InitAbsent, InitOk, InitFails, Continue
<1>3. ASSUME Recover PROVE Same
  BY <1>3 DEF Recover, RestoreMisses, Restore, RestoreRefused, RestoreFails,
    RestoreInterrupted, ReplayBegins, ReplayRestarts, RestartFails, ReplayCell,
    ReplayDiverges, ReplayEnds, Continue
<1>4. ASSUME Serve, ~RunCell, ~SaveAnswered, ~SaveSkipped PROVE Same
  BY <1>4 DEF Serve, RefuseInitError, Dispatch, RerunUpstream, UpstreamFails,
    PrefixDone, CellFails, RunRepl, ReplFails, AnswerQuery, Continue
<1>5. ASSUME Raise PROVE Same
  BY <1>5 DEF Raise, RequestDies, RequestInterrupted, RequestTimesOut, ReplyInvalid
<1>6. ASSUME InterruptedOutside \/ WorkerDies \/ LateEnds \/ Stopped \/ UNCHANGED vars PROVE Same
  BY <1>6 DEF InterruptedOutside, WorkerDies, LateEnds, Stopped, vars
<1>7. ASSUME NEW j \in Jobs, BeginJob(j) PROVE acked' = acked /\ struck' \in BOOLEAN
  BY <1>7 DEF BeginJob
<1>8. ASSUME RunCell PROVE acked' = acked /\ struck' = struck
  BY <1>8 DEF RunCell
<1>9. ASSUME SaveAnswered \/ SaveSkipped
      PROVE  /\ pc = "save" /\ shown' = shown /\ acked' = Append(acked, job.code)
             /\ struck' = struck \/ struck' \in BOOLEAN
  BY <1>9 DEF SaveAnswered, SaveSkipped, ReplyOk
<1> QED BY <1>1, <1>2, <1>3, <1>4, <1>5, <1>6, <1>7, <1>8, <1>9 DEF Next, Thread

\* A replay that is given up with its worker alive is noted.
LEMMA CutFrame ==
  ASSUME [Next]_vars
  PROVE  cut' = cut \/ cut' \in BOOLEAN
<1> USE DEF bootVars, docVars, clientVars, workerVars, cacheVars, pastVars, counters
<1>1. ASSUME Input PROVE cut' = cut
  BY <1>1 DEF Input, CommOpen, CommClose, CommMessage, BeginJob, Shutdown
<1>2. ASSUME Ensure PROVE cut' = cut
  BY <1>2 DEF Ensure, EnsureRunning, EnsureFirst, RestartDoc, RestartRepl, StartFails,
    InitAbsent, InitOk, InitFails, Continue
<1>3. ASSUME Recover, ~ReplayDiverges PROVE cut' = cut
  BY <1>3 DEF Recover, RestoreMisses, Restore, RestoreRefused, RestoreFails,
    RestoreInterrupted, ReplayBegins, ReplayRestarts, RestartFails, ReplayCell,
    ReplayEnds, Continue
<1>4. ASSUME Serve PROVE cut' = cut
  BY <1>4 DEF Serve, RefuseInitError, Dispatch, RerunUpstream, UpstreamFails,
    PrefixDone, RunCell, CellFails, RunRepl, ReplFails, SaveAnswered, SaveSkipped,
    AnswerQuery, ReplyOk, Continue
<1>5. ASSUME Raise, ~RequestTimesOut PROVE cut' = cut
  BY <1>5 DEF Raise, RequestDies, RequestInterrupted, ReplyInvalid
<1>6. ASSUME InterruptedOutside \/ WorkerDies \/ LateEnds \/ Stopped \/ UNCHANGED vars
      PROVE  cut' = cut
  BY <1>6 DEF InterruptedOutside, WorkerDies, LateEnds, Stopped, vars
<1>7. ASSUME ReplayDiverges PROVE cut' \in BOOLEAN
  <2>1. cut' = (cut \/ ~Executing)
    BY <1>7 DEF ReplayDiverges
  <2> QED BY <2>1
<1>8. ASSUME RequestTimesOut PROVE cut' \in BOOLEAN
  <2>1. cut' = (cut \/ pc = "replay")
    BY <1>8 DEF RequestTimesOut
  <2> QED BY <2>1
<1> QED BY <1>1, <1>2, <1>3, <1>4, <1>5, <1>6, <1>7, <1>8 DEF Next, Thread

\* The types of the history.
LEMMA PastStep ==
  ASSUME Types, JobInv, [Next]_vars
  PROVE  PastType'
<1> PastType
  BY DEF Types
<1>1. shown' \in [Cells -> SUBSET State]
  <2>1. ASSUME NEW j \in Jobs, BeginJob(j) PROVE shown' \in [Cells -> SUBSET State]
    <3>1. shown' = IF j.kind = "cell" THEN [shown EXCEPT ![j.cell] = NotShown] ELSE shown
      BY <2>1 DEF BeginJob
    <3> QED BY <3>1 DEF PastType, NotShown
  <2> QED BY <2>1, HistoryFrame, ShownType DEF PastType
<1>2. acked' \in State
  <2>1. pc = "save" => job.code \in Codes
    BY JobIs DEF JobInv
  <2> QED BY <2>1, HistoryFrame DEF PastType, State
<1>3. struck' \in BOOLEAN
  <2>1. struck \in BOOLEAN
    BY DEF PastType
  <2> QED BY <2>1, HistoryFrame, Zenon
<1>4. cut' \in BOOLEAN
  <2>1. cut \in BOOLEAN
    BY DEF PastType
  <2> QED BY <2>1, CutFrame, Zenon
<1> QED BY <1>1, <1>2, <1>3, <1>4, CountersStep DEF PastType

\* Together.
LEMMA TypesStep == ASSUME Types, JobInv, [Next]_vars PROVE Types' /\ JobInv'
<1> JobType /\ PastType
  BY DEF Types
<1> QED BY BootStep, DocStep, ClientStep, WorkerStep, CacheStep, JobTypeStep, PastStep, JobStep
  DEF Types

\* The initial state.
LEMMA TypesInit == Init => Types /\ JobInv
<1> SUFFICES ASSUME Init PROVE Types /\ JobInv
  OBVIOUS
<1> USE DEF Init
<1>0. <<>> \in State /\ <<>> \in Seq(DocCell) /\ <<>> \in Seq(State)
      /\ <<>> \in Seq([parent : Nat, code : Codes]) /\ DOMAIN <<>> = {}
  BY DEF State
<1>1. BootType
  BY DEF BootType
<1>2. DocType
  BY <1>0 DEF DocType
<1>3. ClientType
  BY <1>0 DEF ClientType
<1>4. WorkerType
  BY <1>0 DEF WorkerType
<1>5. CacheType
  BY DEF CacheType
<1>6. JobType
  BY DEF JobType
<1>7. PastType
  <2>1. shown = [c \in Cells |-> {}] /\ acked = <<>> /\ struck = FALSE /\ cut = FALSE
        /\ inputs = 0 /\ faults = 0
    BY DEF NotShown
  <2>2. 0 \in 0 .. MaxInputs /\ 0 \in 0 .. MaxFaults
    BY KernelAssumption
  <2>3. shown \in [Cells -> SUBSET State]
    BY <2>1
  <2> HIDE DEF Init
  <2> QED BY <1>0, <2>1, <2>2, <2>3 DEF PastType
<1>8. JobInv
  BY <1>0, NoJobIs DEF JobInv, NoCells
<1> QED BY <1>1, <1>2, <1>3, <1>4, <1>5, <1>6, <1>7, <1>8 DEF Types

\* Types is TypeOK, part by part.
LEMMA TypesAre == Types <=> TypeOK
BY DEF Types, TypeOK, BootType, DocType, ClientType, WorkerType, CacheType, JobType, PastType

\* The types hold, and with them where a job can be and what has been
\* established by then: in every mode, whatever dies, times out or is
\* interrupted.
THEOREM KernelJobs == Spec => [](Types /\ JobInv)
<1>1. Types /\ JobInv /\ [Next]_vars => (Types /\ JobInv)'
  BY TypesStep
<1> QED BY <1>1, TypesInit, PTL DEF Spec

\* Type correctness of the adapter, in every mode and with every fault.
THEOREM KernelTypes == Spec => []TypeOK
BY KernelJobs, TypesAre, PTL

----------------------------------------------------------------------------
(* No staleness is hidden *)

\* One step of the walk, spelled out.
LEMMA WalkNext ==
  ASSUME BootType, DocType, NEW k \in 1 .. Len(doc)
  PROVE  /\ doc[k].source = Blank => Walk[k] = Walk[k - 1]
         /\ doc[k].source # Blank /\ ~Walk[k - 1].broken /\ Reusable(doc[k], Walk[k - 1].parent) =>
              Walk[k] = [parent |-> cellState[doc[k].id].snapshot, broken |-> FALSE]
         /\ doc[k].source # Blank /\ ~(~Walk[k - 1].broken /\ Reusable(doc[k], Walk[k - 1].parent)) =>
              Walk[k] = [parent |-> Walk[k - 1].parent, broken |-> TRUE]
BY WalkDef DEF WalkIs, Onward

\* The status depends on the base, the notebook and the cells' entries only.
LEMMA StatusKept ==
  ASSUME base' = base, doc' = doc, cellState' = cellState
  PROVE  StatusNow' = StatusNow
<1>1. Walk' = Walk
  BY SMT DEF Walk, Reusable
<1>2. Nonblank' = Nonblank
  BY DEF Nonblank
<1> QED BY <1>1, <1>2, Zenon DEF StatusNow

\* Without entries nothing is stale.
LEMMA NoneStale ==
  ASSUME DocType, NoCells \/ doc = <<>>
  PROVE  StatusNow.stale = {}
<1>1. ASSUME NEW k \in Nonblank PROVE cellState[doc[k].id] = NoState
  <2>1. k \in 1 .. Len(doc) /\ doc # <<>>
    BY DEF Nonblank
  <2>2. doc[k] \in DocCell
    BY <2>1 DEF DocType
  <2> QED BY <2>1, <2>2 DEF NoCells, DocCell
<1> QED BY <1>1 DEF StatusNow

\* The worker has elaborated the first cell that could not be reused: the walk
\* gets past it, and up to it is as it was.
LEMMA RerunWalk ==
  ASSUME Types, JobInv, Types', RerunUpstream
  PROVE  /\ \A k \in 0 .. Upstream - 1 : Walk'[k] = Walk[k]
         /\ Walk'[Upstream] = [parent |-> Len(snaps), broken |-> FALSE]
<1> DEFINE N == Len(doc)
           u == Upstream
           st == [source |-> doc[u].source, snapshot |-> Len(snaps), parent |-> Walk[u - 1].parent]
<1>1. /\ N \in Nat /\ u \in 1 .. N /\ doc[u].id \in Cells /\ doc[u].source # Blank
      /\ ~Walk[u - 1].broken /\ Asking
  BY UpstreamCell, WalkType DEF RerunUpstream, Types, Nonblank
<1>2. doc' = doc /\ base' = base
  BY DEF RerunUpstream, bootVars
<1>3. cellState' = [cellState EXCEPT ![doc[u].id] = st]
  <2>1. Requested.parent = Walk[u - 1].parent
    BY DEF RerunUpstream, Requested
  <2> QED BY <2>1 DEF RerunUpstream, Record
<1>4. cellState'[doc[u].id] = st /\ \A c \in Cells : c # doc[u].id => cellState'[c] = cellState[c]
  BY <1>1, <1>3 DEF Types, DocType
<1>5. WalkIs /\ WalkIs'
  <2>1. (BootType /\ DocType => WalkIs)'
    BY WalkDef, PTL
  <2> QED BY <2>1, WalkDef DEF Types
<1>6. Walk[0] = [parent |-> base, broken |-> FALSE] /\ Walk'[0] = [parent |-> base, broken |-> FALSE]
  BY <1>2, <1>5 DEF WalkIs
<1>7. ASSUME NEW k \in 1 .. N
      PROVE  /\ Walk[k] = Onward(doc[k], Walk[k - 1])
             /\ Walk'[k] = IF doc[k].source = Blank THEN Walk'[k - 1]
                           ELSE IF /\ ~Walk'[k - 1].broken
                                   /\ cellState'[doc[k].id] # NoState
                                   /\ cellState'[doc[k].id].source = doc[k].source
                                   /\ cellState'[doc[k].id].parent = Walk'[k - 1].parent
                                THEN [parent |-> cellState'[doc[k].id].snapshot, broken |-> FALSE]
                                ELSE [parent |-> Walk'[k - 1].parent, broken |-> TRUE]
  BY <1>2, <1>5 DEF WalkIs, Onward, Reusable
<1> DEFINE S == {k \in 0 .. N : k <= u - 1 => Walk'[k] = Walk[k]}
<1>8. 0 .. N \subseteq S
  <2>1. 0 \in S
    BY <1>1, <1>6
  <2>2. ASSUME NEW m \in 0 .. N, m < N, m \in S PROVE m + 1 \in S
    <3>1. m + 1 \in 1 .. N /\ m + 1 \in 0 .. N /\ (m + 1) - 1 = m
      BY <1>1, <2>2
    <3> SUFFICES ASSUME m + 1 <= u - 1 PROVE Walk'[m + 1] = Walk[m + 1]
      BY <3>1
    <3>2. Walk'[m] = Walk[m]
      BY <1>1, <2>2
    <3>3. doc[m + 1].id # doc[u].id
      <4>1. m + 1 # u /\ m + 1 \in DOMAIN doc /\ u \in DOMAIN doc
        BY <1>1, <3>1 DEF Types, DocType
      <4> QED BY <4>1 DEF JobInv
    <3>4. doc[m + 1].id \in Cells
      <4>1. doc[m + 1] \in DocCell
        BY <3>1 DEF Types, DocType
      <4> QED BY <4>1 DEF DocCell
    <3>5. cellState'[doc[m + 1].id] = cellState[doc[m + 1].id]
      BY <1>4, <3>3, <3>4
    <3> HIDE DEF N, S, u
    <3> QED BY <1>7, <3>1, <3>2, <3>5 DEF Onward, Reusable
  <2> HIDE DEF S
  <2> QED BY <1>1, <2>1, <2>2, UpTo
<1>9. \A k \in 0 .. u - 1 : Walk'[k] = Walk[k]
  <2>1. \A k \in 0 .. u - 1 : k \in 0 .. N /\ k <= u - 1
    BY <1>1
  <2> QED BY <1>8, <2>1
<1>10. Walk'[u] = [parent |-> Len(snaps), broken |-> FALSE]
  <2>1. Walk'[u - 1] = Walk[u - 1]
    BY <1>1, <1>9
  <2>2. st # NoState /\ st.source = doc[u].source /\ st.parent = Walk[u - 1].parent
        /\ st.snapshot = Len(snaps)
    BY <1>1 DEF NoState
  <2> HIDE DEF st, u, N
  <2> QED BY <1>1, <1>4, <1>7, <2>1, <2>2
<1> QED BY <1>9, <1>10

\* So what is stale after it was stale before.
LEMMA RerunStale ==
  ASSUME Types, JobInv, Types', RerunUpstream
  PROVE  StatusNow'.stale \subseteq StatusNow.stale
<1> DEFINE N == Len(doc)
           u == Upstream
<1>1. /\ N \in Nat /\ u \in 1 .. N /\ doc[u].id \in Cells
      /\ Walk[u].broken /\ ~Walk[u - 1].broken
  BY UpstreamCell, WalkType DEF RerunUpstream, Types
<1>2. doc' = doc /\ Nonblank' = Nonblank
  BY DEF RerunUpstream, Nonblank
<1>3. \A c \in Cells : c # doc[u].id => cellState'[c] = cellState[c]
  BY DEF RerunUpstream, Record, Types, DocType
<1>4. ASSUME NEW n \in Nonblank, Walk'[n].broken, cellState'[doc[n].id] # NoState
      PROVE  Walk[n].broken /\ cellState[doc[n].id] # NoState
  <2>1. n \in 1 .. N
    BY DEF Nonblank
  <2>2. ~(n < u)
    <3> SUFFICES ASSUME n < u PROVE FALSE
      OBVIOUS
    <3>1. n \in 0 .. u - 1 /\ n \in 0 .. N /\ u - 1 \in 0 .. N /\ n <= u - 1
      BY <1>1, <2>1
    <3>2. Walk[n].broken
      BY <1>4, <3>1, RerunWalk
    <3> QED BY <1>1, <3>1, <3>2, BrokenStays DEF Types
  <2>3. n # u
    BY <1>4, RerunWalk
  <2>4. u \in 0 .. N /\ n \in 0 .. N /\ u <= n
    BY <1>1, <2>1, <2>2
  <2>5. Walk[n].broken
    BY <1>1, <2>4, BrokenStays DEF Types
  <2>6. doc[n].id # doc[u].id
    <3>1. n \in DOMAIN doc /\ u \in DOMAIN doc
      BY <1>1, <2>1 DEF Types, DocType
    <3> QED BY <2>3, <3>1 DEF JobInv
  <2>7. doc[n].id \in Cells
    <3>1. doc[n] \in DocCell
      BY <2>1 DEF Types, DocType
    <3> QED BY <3>1 DEF DocCell
  <2> QED BY <1>3, <1>4, <2>5, <2>6, <2>7
<1>5. StatusNow.stale = {doc[k].id : k \in {n \in Nonblank : Walk[n].broken /\ cellState[doc[n].id] # NoState}}
  BY DEF StatusNow
<1>6. StatusNow'.stale = {doc[k].id : k \in {n \in Nonblank : Walk'[n].broken /\ cellState'[doc[n].id] # NoState}}
  BY <1>2 DEF StatusNow
<1> HIDE DEF N, u
<1> QED BY <1>4, <1>5, <1>6

\* The base is set by the steps that start afresh and by the init cell.
LEMMA BaseFrame ==
  ASSUME [Next]_vars
  PROVE  /\ base' = base \/ EnsureFirst \/ RestartDoc \/ InitOk
         /\ initError' = initError \/ EnsureFirst \/ RestartDoc \/ InitFails
<1>1. ASSUME Shutdown \/ InitAbsent PROVE base' = base /\ initError' = initError
  BY <1>1, Zenon DEF Shutdown, InitAbsent
<1>2. ASSUME InitOk PROVE initError' = initError
  BY <1>2, Zenon DEF InitOk
<1>3. ASSUME InitFails PROVE base' = base
  BY <1>3, Zenon DEF InitFails
<1>4. ASSUME UNCHANGED bootVars PROVE base' = base /\ initError' = initError
  BY <1>4, Zenon DEF bootVars
<1> QED BY <1>1, <1>2, <1>3, <1>4, BootFrame, Zenon

\* What a step does to what is stale.
LEMMA StaleFrame ==
  ASSUME Types, JobInv, [Next]_vars
  PROVE  \/ UNCHANGED <<base, doc, cellState>> /\ (status' = {} \/ (status' = status /\ (comm => comm')))
         \/ comm' = comm /\ Broadcast
         \/ NoCells' /\ status' = status /\ comm' = comm
         \/ RerunUpstream
<1>1. base' = base \/ EnsureFirst \/ RestartDoc \/ InitOk
  BY BaseFrame
<1>2. ASSUME EnsureFirst \/ RestartDoc \/ InitOk
      PROVE  NoCells' /\ status' = status /\ comm' = comm
  <2>1. ASSUME EnsureFirst \/ InitOk PROVE cellState' = cellState /\ NoCells /\ status' = status /\ comm' = comm
    BY <2>1 DEF EnsureFirst, InitOk, JobInv, docVars
  <2>2. ASSUME RestartDoc PROVE NoCells' /\ status' = status /\ comm' = comm
    BY <2>2 DEF RestartDoc, NoCells
  <2>3. cellState' = cellState /\ NoCells => NoCells'
    BY Zenon DEF NoCells
  <2> QED BY <1>2, <2>1, <2>2, <2>3
<1>3. ASSUME base' = base, CommOpen \/ CommClose
      PROVE  UNCHANGED <<base, doc, cellState>> /\ (status' = {} \/ (status' = status /\ comm'))
  BY <1>3 DEF CommOpen, CommClose
<1>4. ASSUME (\E d \in Docs : CommMessage(d)) \/ RunCell \/ CellFails PROVE comm' = comm /\ Broadcast
  BY <1>4 DEF CommMessage, RunCell, CellFails
<1>5. ASSUME base' = base, Dispatch
      PROVE  UNCHANGED <<base, doc, cellState>> /\ status' = status /\ comm' = comm
  <2>1. cellState' = cellState /\ status' = status /\ comm' = comm
    BY <1>5, Zenon DEF Dispatch
  <2> QED BY <1>5, <2>1, DispatchKeeps DEF Types
<1>6. ASSUME base' = base, UNCHANGED docVars
      PROVE  UNCHANGED <<base, doc, cellState>> /\ status' = status /\ comm' = comm
  BY <1>6 DEF docVars
<1> QED BY <1>1, <1>2, <1>3, <1>4, <1>5, <1>6, DocFrame

\* Together: the last broadcast names all that is stale, after every step.
LEMMA StaleStep ==
  ASSUME Types, JobInv, StaleInv, Types', JobInv', [Next]_vars
  PROVE  StaleInv'
<1>1. CASE UNCHANGED <<base, doc, cellState>> /\ (status' = {} \/ (status' = status /\ (comm => comm')))
  <2>1. StatusNow' = StatusNow
    BY <1>1, StatusKept
  <2>2. CASE status' = {}
    BY <2>2 DEF StaleInv
  <2>3. CASE status' = status /\ (comm => comm')
    <3>1. status # {} => comm'
      BY <2>3 DEF StaleInv
    <3>2. \A s \in status : StatusNow'.stale \subseteq s.stale
      BY <2>1 DEF StaleInv
    <3> QED BY <2>3, <3>1, <3>2 DEF StaleInv
  <2> QED BY <1>1, <2>2, <2>3
<1>2. CASE comm' = comm /\ Broadcast
  <2>1. CASE comm /\ doc' # <<>>
    <3>1. status' = {StatusNow'} /\ comm'
      BY <1>2, <2>1 DEF Broadcast
    <3> QED BY <3>1 DEF StaleInv
  <2>2. CASE ~comm
    <3>1. status' = {}
      BY <1>2, <2>2 DEF Broadcast, StaleInv
    <3> QED BY <3>1 DEF StaleInv
  <2>3. CASE comm /\ doc' = <<>>
    <3>1. (DocType /\ doc = <<>> => StatusNow.stale = {})'
      BY NoneStale, PTL
    <3>2. StatusNow'.stale = {}
      BY <2>3, <3>1 DEF Types
    <3> QED BY <1>2, <2>3, <3>2 DEF StaleInv
  <2> QED BY <2>1, <2>2, <2>3
<1>3. CASE NoCells' /\ status' = status /\ comm' = comm
  <2>1. (DocType /\ NoCells => StatusNow.stale = {})'
    BY NoneStale, PTL
  <2>2. StatusNow'.stale = {}
    BY <1>3, <2>1 DEF Types
  <2>3. status' # {} => comm'
    BY <1>3 DEF StaleInv
  <2> QED BY <2>2, <2>3 DEF StaleInv
<1>4. CASE RerunUpstream
  <2>1. StatusNow'.stale \subseteq StatusNow.stale
    BY <1>4, RerunStale
  <2>2. status' = status /\ comm' = comm
    BY <1>4 DEF RerunUpstream
  <2>3. status' # {} => comm'
    BY <2>2 DEF StaleInv
  <2>4. \A s \in status' : StatusNow.stale \subseteq s.stale
    BY <2>2 DEF StaleInv
  <2> QED BY <2>1, <2>3, <2>4 DEF StaleInv
<1> QED BY <1>1, <1>2, <1>3, <1>4, StaleFrame

\* A cell that was invalidated is marked: what is stale now was stale in the
\* last broadcast, in every mode and after jobs that ended without one
\* (_ensure_prefix raising UpstreamError, WorkerDied, Interrupted).
THEOREM NothingStaleHidden == Spec => []NoHiddenStaleness
<1>1. Init => Types /\ JobInv /\ StaleInv
  <2>1. Init => StaleInv
    BY DEF Init, StaleInv
  <2> QED BY <2>1, TypesInit
<1>2. Types /\ JobInv /\ StaleInv /\ [Next]_vars => (Types /\ JobInv /\ StaleInv)'
  BY TypesStep, StaleStep
<1>3. StaleInv => NoHiddenStaleness
  BY DEF StaleInv, NoHiddenStaleness
<1> QED BY <1>1, <1>2, <1>3, PTL DEF Spec

----------------------------------------------------------------------------
(* Fresh cells: what the invariant says of one state *)

\* One more source.
Ahead(c, s) == IF c.source = Blank THEN s ELSE Append(s, c.source)

\* Visible satisfies the equations that define it.
LEMMA VisibleDef ==
  ASSUME DocType
  PROVE  /\ Visible(0) = InitState
         /\ \A k \in 1 .. Len(doc) : Visible(k) = Ahead(doc[k], Visible(k - 1))
<1> DEFINE N == Len(doc)
           G == [k \in 1 .. N |-> [s \in State |-> Ahead(doc[k], s)]]
<1>1. N \in Nat /\ InitState \in State
  <2>1. (CHOOSE c \in InitCell : TRUE) \in Codes \/ InitCell = {}
    BY KernelAssumption
  <2> QED BY <2>1 DEF InitState, State, DocType
<1>2. ASSUME NEW k \in 1 .. N, NEW s \in State PROVE Ahead(doc[k], s) \in State
  <2>1. doc[k] \in DocCell
    BY DEF DocType
  <2> QED BY <2>1 DEF DocCell, Sources, Ahead, State
<1>3. G \in [1 .. N -> [State -> State]]
  BY <1>2
<1>4. PICK w \in [0 .. N -> State] : Follows(w, N, InitState, G)
  <2> HIDE DEF N, G
  <2> QED BY <1>1, <1>3, Recursion
<1>5. ASSUME NEW k \in 1 .. N PROVE w[k - 1] \in State /\ w[k] = Ahead(doc[k], w[k - 1])
  <2>1. w[k - 1] \in State /\ w[k] = G[k][w[k - 1]]
    <3> HIDE DEF N, G
    <3> QED BY <1>1, <1>4 DEF Follows
  <2> QED BY <2>1
<1>6. w[0] = InitState
  BY <1>4 DEF Follows
<1> HIDE DEF G
<1>7. \E v : v = [k \in 0 .. N |-> IF k = 0 THEN InitState ELSE Ahead(doc[k], v[k - 1])]
  <2>1. w = [k \in 0 .. N |-> IF k = 0 THEN InitState ELSE Ahead(doc[k], w[k - 1])]
    BY <1>1, <1>5, <1>6
  <2> QED BY <2>1
<1>8. PICK v : /\ v = [k \in 0 .. N |-> IF k = 0 THEN InitState ELSE Ahead(doc[k], v[k - 1])]
               /\ \A k : Visible(k) = v[k]
  BY <1>7, Zenon DEF Visible, Ahead, N
<1>9. \A k \in 0 .. N : v[k] = IF k = 0 THEN InitState ELSE Ahead(doc[k], v[k - 1])
  BY <1>8, Zenon
<1>10. Visible(0) = InitState
  <2>1. 0 \in 0 .. N
    BY <1>1
  <2>2. v[0] = InitState
    BY <1>9, <2>1, Zenon
  <2> QED BY <1>8, <2>2, Zenon
<1>11. ASSUME NEW k \in 1 .. N PROVE Visible(k) = Ahead(doc[k], Visible(k - 1))
  <2>1. k \in 0 .. N /\ k # 0
    BY <1>1
  <2>2. v[k] = Ahead(doc[k], v[k - 1])
    BY <1>9, <2>1, Zenon
  <2> QED BY <1>8, <2>2, Zenon
<1> QED BY <1>10, <1>11

\* When the worker is up and some cell is on record, the base is what the init
\* cell makes of a fresh session.
LEMMA BaseReady ==
  ASSUME JobInv, PrefixInv, alive, ~NoCells
  PROVE  Known(base) /\ StateAt(base) = InitState
<1>1. ~initError /\ doc # <<>> /\ started /\ pc \notin {"init", "restore", "check", "replay"}
  BY DEF JobInv, PrefixInv, LedgerInv, ReplDoc, ErrorInv, CellsInv
<1> QED BY <1>1 DEF PrefixInv, BaseInv, ReadyInv

\* Up to the first cell that must run again, the walk is at the snapshot of what
\* is visible so far.
LEMMA WalkVisible ==
  ASSUME Types, JobInv, PrefixInv, alive, ~NoCells,
         NEW k \in 0 .. Len(doc), ~Walk[k].broken
  PROVE  Known(Walk[k].parent) /\ StateAt(Walk[k].parent) = Visible(k)
<1> DEFINE N == Len(doc)
           At(m) == Known(Walk[m].parent) /\ StateAt(Walk[m].parent) = Visible(m)
           S == {m \in 0 .. N : ~Walk[m].broken => At(m)}
<1> BootType /\ DocType
  BY DEF Types
<1>1. N \in Nat
  BY WalkType
<1>2. 0 \in S
  <2>1. Walk[0].parent = base
    BY WalkDef DEF WalkIs
  <2> QED BY <1>1, <2>1, BaseReady, VisibleDef
<1>3. ASSUME NEW m \in 0 .. N, m < N, m \in S PROVE m + 1 \in S
  <2>1. m + 1 \in 1 .. N /\ m + 1 \in 0 .. N /\ (m + 1) - 1 = m /\ m <= m + 1
    BY <1>1, <1>3
  <2> SUFFICES ASSUME ~Walk[m + 1].broken PROVE At(m + 1)
    BY <2>1
  <2>2. At(m)
    <3>1. ~Walk[m].broken
      BY <2>1, BrokenStays
    <3> QED BY <1>3, <3>1
  <2>3. Visible(m + 1) = Ahead(doc[m + 1], Visible(m))
    BY <2>1, VisibleDef
  <2>4. CASE doc[m + 1].source = Blank
    <3>1. Walk[m + 1] = Walk[m]
      BY <2>1, <2>4, WalkNext
    <3> QED BY <2>2, <2>3, <2>4, <3>1 DEF Ahead
  <2>5. CASE doc[m + 1].source # Blank
    <3> DEFINE c == doc[m + 1]  st == cellState[c.id]
    <3>1. Reusable(c, Walk[m].parent) /\ Walk[m + 1].parent = st.snapshot
      <4>1. CASE ~(~Walk[m].broken /\ Reusable(c, Walk[m].parent))
        <5>1. Walk[m + 1] = [parent |-> Walk[(m + 1) - 1].parent, broken |-> TRUE]
          <6>1. (m + 1) - 1 = m
            BY <2>1
          <6> QED BY <2>1, <2>5, <4>1, <6>1, WalkNext, Zenon
        <5> QED BY <5>1
      <4>2. CASE ~Walk[m].broken /\ Reusable(c, Walk[m].parent)
        <5>1. Walk[m + 1] = [parent |-> st.snapshot, broken |-> FALSE]
          <6>1. (m + 1) - 1 = m
            BY <2>1
          <6> QED BY <2>1, <2>5, <4>2, <6>1, WalkNext, Zenon
        <5> QED BY <4>2, <5>1
      <4> QED BY <4>1, <4>2, Zenon
    <3>2. c.id \in Cells
      <4>1. c \in DocCell
        BY <2>1, WalkType
      <4> QED BY <4>1 DEF DocCell
    <3>3. st # NoState /\ st.source = c.source /\ st.parent = Walk[m].parent
      BY <3>1 DEF Reusable
    <3>4. Known(st.snapshot) /\ StateAt(st.snapshot) = Append(StateAt(st.parent), st.source)
      BY <3>2, <3>3 DEF PrefixInv, CellsInv, Holds
    <3> QED BY <2>2, <2>3, <2>5, <3>1, <3>3, <3>4 DEF Ahead
  <2> QED BY <2>4, <2>5
<1>4. 0 .. N \subseteq S
  <2> HIDE DEF S
  <2> QED BY <1>1, <1>2, <1>3, UpTo
<1> QED BY <1>4

\* So a cell that counts as fresh stands for the visible prefix.
LEMMA PrefixIsFresh ==
  ASSUME Types, JobInv, PrefixInv
  PROVE  FreshIsVisiblePrefix
<1> SUFFICES ASSUME alive, NEW k \in Nonblank, ~Walk[k].broken
             PROVE  Known(cellState[doc[k].id].snapshot) /\ FreshState(k) = Visible(k)
  BY DEF FreshIsVisiblePrefix
<1> BootType /\ DocType
  BY DEF Types
<1>1. k \in 1 .. Len(doc) /\ k \in 0 .. Len(doc) /\ doc[k].source # Blank
  BY DEF Nonblank
<1>2. Reusable(doc[k], Walk[k - 1].parent) /\ Walk[k].parent = cellState[doc[k].id].snapshot
  <2>1. CASE ~(~Walk[k - 1].broken /\ Reusable(doc[k], Walk[k - 1].parent))
    <3>1. Walk[k] = [parent |-> Walk[k - 1].parent, broken |-> TRUE]
      BY <1>1, <2>1, WalkNext, Zenon
    <3> QED BY <3>1
  <2>2. CASE ~Walk[k - 1].broken /\ Reusable(doc[k], Walk[k - 1].parent)
    <3>1. Walk[k] = [parent |-> cellState[doc[k].id].snapshot, broken |-> FALSE]
      BY <1>1, <2>2, WalkNext, Zenon
    <3> QED BY <2>2, <3>1
  <2> QED BY <2>1, <2>2, Zenon
<1>3. ~NoCells
  <2>1. doc[k] \in DocCell
    BY <1>1, WalkType
  <2> QED BY <1>2, <2>1 DEF NoCells, Reusable, DocCell
<1> QED BY <1>1, <1>2, <1>3, WalkVisible DEF FreshState

----------------------------------------------------------------------------
(* Fresh cells: what a step does to the worker's snapshots *)

\* The worker is gone, is as it was, has one more snapshot, or is a new one.
LEMMA Fate ==
  ASSUME Types, JobInv, [Next]_vars, alive'
  PROVE  \/ alive /\ snaps' = snaps
         \/ alive /\ \E s \in State : snaps' = Append(snaps, s)
         \/ EnsureFirst \/ RestartDoc \/ RestartRepl \/ ReplayRestarts
<1>1. CASE UNCHANGED workerVars
  BY <1>1, Zenon DEF workerVars
<1>2. CASE Kill \/ WorkerDies
  BY <1>2 DEF Kill, WorkerDies
<1>3. CASE LateEnds
  <2>1. alive' = alive
    BY <1>3, LateType DEF Types
  <2>2. alive
    BY <2>1, Zenon
  <2> QED BY <1>3, <2>2, LateType DEF Types
<1>4. CASE Restore
  <2>1. alive
    BY <1>4 DEF Restore, Serving
  <2> QED BY <1>4, <2>1, RestoreType
<1>5. CASE RequestTimesOut
  BY <1>5, TimeoutType DEF Kill
<1>6. CASE Asking /\ pc # "query" /\ Elaborated
  <2>1. alive /\ snaps' = Append(snaps, Append(StateAt(Requested.parent), Requested.code))
    BY <1>6 DEF Elaborated, Serving
  <2> QED BY <1>6, <2>1, ElaboratedType
<1> QED BY <1>1, <1>2, <1>3, <1>4, <1>5, <1>6, WorkerFrame

\* Known and StateAt, of an unprimed id, on the snapshots a step leaves.
KnownNext(id)   == id < Len(snaps')
NextStateAt(id) == snaps'[id + 1]

\* What is known stays known.
LEMMA Grown ==
  ASSUME WorkerType, NEW s, snaps' = Append(snaps, s), s \in State
  PROVE  /\ \A id \in Nat : Known(id) => KnownNext(id) /\ NextStateAt(id) = StateAt(id)
         /\ KnownNext(Len(snaps)) /\ NextStateAt(Len(snaps)) = s
<1>1. snaps \in Seq(State) /\ Len(snaps) \in Nat
  BY DEF WorkerType
<1>2. Len(snaps') = Len(snaps) + 1 /\ snaps'[Len(snaps) + 1] = s
  BY <1>1
<1>3. ASSUME NEW id \in Nat, Known(id) PROVE KnownNext(id) /\ NextStateAt(id) = StateAt(id)
  <2>1. id + 1 \in 1 .. Len(snaps)
    BY <1>1, <1>3 DEF Known
  <2>2. snaps'[id + 1] = snaps[id + 1]
    BY <1>1, <2>1
  <2> QED BY <1>1, <1>2, <2>1, <2>2 DEF Known, StateAt, KnownNext, NextStateAt
<1> QED BY <1>1, <1>2, <1>3 DEF Known, StateAt, KnownNext, NextStateAt

\* What a new worker knows.
LEMMA FreshSnaps ==
  ASSUME Started
  PROVE  KnownNext(0) /\ NextStateAt(0) = <<>> /\ Untouched'
BY DEF Started, KnownNext, NextStateAt, Untouched

\* While the worker serves on, its snapshots say what they said.
LEMMA KnownKept ==
  ASSUME Types, JobInv, [Next]_vars, alive', ~EnsureFirst, ~RestartDoc, ~RestartRepl, ~ReplayRestarts
  PROVE  alive /\ \A id \in Nat : Known(id) => KnownNext(id) /\ NextStateAt(id) = StateAt(id)
<1>1. alive /\ (snaps' = snaps \/ \E s \in State : snaps' = Append(snaps, s))
  BY Fate
<1>2. CASE snaps' = snaps
  BY <1>1, <1>2 DEF Known, StateAt, KnownNext, NextStateAt
<1>3. CASE \E s \in State : snaps' = Append(snaps, s)
  BY <1>1, <1>3, Grown DEF Types
<1> QED BY <1>1, <1>2, <1>3

----------------------------------------------------------------------------
(* Fresh cells: the cells' entries *)

\* The entry of a cell that ran says what the worker has made of it.
LEMMA RecordIs ==
  ASSUME Types, JobInv, Asking, pc # "query", Elaborated,
         NEW c \in Cells, Record(c, Requested.code)
  PROVE  LET st == cellState'[c] IN
           /\ KnownNext(st.snapshot) /\ KnownNext(st.parent)
           /\ NextStateAt(st.snapshot) = Append(NextStateAt(st.parent), st.source)
<1> DEFINE p == Requested.parent  s == Requested.code
           st == [source |-> s, snapshot |-> Len(snaps), parent |-> p]
<1>1. /\ p \in Nat /\ s \in Codes /\ Append(StateAt(p), s) \in State /\ Known(p)
      /\ snaps' = Append(snaps, Append(StateAt(p), s))
  BY ElaboratedType DEF Elaborated
<1>2. cellState'[c] = st
  BY DEF Record, Types, DocType
<1> HIDE DEF p, s
<1>3. /\ KnownNext(p) /\ NextStateAt(p) = StateAt(p)
      /\ KnownNext(Len(snaps)) /\ NextStateAt(Len(snaps)) = Append(StateAt(p), s)
  BY <1>1, Grown DEF Types
<1> QED BY <1>2, <1>3 DEF Known, StateAt, KnownNext, NextStateAt

\* What the entries say stays true of the worker that runs.
LEMMA CellsStep ==
  ASSUME Types, JobInv, PrefixInv, Types', JobInv', [Next]_vars
  PROVE  CellsInv'
<1>1. ASSUME alive', NEW c \in Cells, cellState'[c] # NoState
      PROVE  LET st == cellState'[c] IN
               /\ KnownNext(st.snapshot) /\ KnownNext(st.parent)
               /\ NextStateAt(st.snapshot) = Append(NextStateAt(st.parent), st.source)
  <2>1. CASE cellState'[c] = cellState[c]
    <3> DEFINE st == cellState[c]
    <3>1. st \in CellState
      BY <1>1, <2>1 DEF Types, DocType
    <3>2. st.snapshot \in Nat /\ st.parent \in Nat
      BY <3>1 DEF CellState
    <3>3. ~NoCells
      BY <1>1, <2>1 DEF NoCells
    <3>4. ~EnsureFirst /\ ~RestartDoc /\ ~RestartRepl /\ ~ReplayRestarts
      <4>1. EnsureFirst => NoCells
        BY DEF EnsureFirst, JobInv
      <4>2. RestartDoc => cellState'[c] = NoState
        BY DEF RestartDoc
      <4>3. RestartRepl \/ ReplayRestarts => doc = <<>>
        BY DEF RestartRepl, ReplayRestarts, PrefixInv, LedgerInv, ReplDoc, ErrorInv
      <4>4. doc = <<>> => NoCells
        BY DEF PrefixInv, LedgerInv, ReplDoc, ErrorInv
      <4> QED BY <1>1, <3>3, <4>1, <4>2, <4>3, <4>4
    <3>5. alive /\ \A id \in Nat : Known(id) => KnownNext(id) /\ NextStateAt(id) = StateAt(id)
      BY <1>1, <3>4, KnownKept
    <3>6. Known(st.snapshot) /\ Known(st.parent)
          /\ StateAt(st.snapshot) = Append(StateAt(st.parent), st.source)
      BY <1>1, <2>1, <3>5 DEF PrefixInv, CellsInv, Holds
    <3> HIDE DEF st
    <3>7. /\ KnownNext(st.snapshot) /\ KnownNext(st.parent)
          /\ NextStateAt(st.snapshot) = Append(NextStateAt(st.parent), st.source)
      BY <3>2, <3>5, <3>6
    <3> QED BY <2>1, <3>7 DEF st
  <2>2. CASE cellState'[c] # cellState[c]
    <3>1. ~(cellState' = cellState) /\ ~RestartDoc
      BY <1>1, <2>2 DEF RestartDoc
    <3>2. CASE RerunUpstream
      <4>1. /\ Asking /\ pc # "query" /\ Elaborated /\ doc[Upstream].id \in Cells
            /\ Record(doc[Upstream].id, Requested.code)
        BY <3>2, UpstreamCell DEF RerunUpstream, Requested
      <4>2. c = doc[Upstream].id
        BY <2>2, <4>1 DEF Record, Types, DocType
      <4> QED BY <4>1, <4>2, RecordIs
    <3>3. CASE RunCell
      <4>1. /\ Asking /\ pc # "query" /\ Elaborated /\ job.cell \in Cells
            /\ Record(job.cell, Requested.code)
        BY <3>3, JobIs DEF RunCell, Requested, Asking, JobInv
      <4>2. c = job.cell
        BY <2>2, <4>1 DEF Record, Types, DocType
      <4> QED BY <4>1, <4>2, RecordIs
    <3> QED BY <3>1, <3>2, <3>3, CellsFrame
  <2> QED BY <2>1, <2>2
<1>2. ASSUME pc' = "stopped", ~started', alive' PROVE NoCells'
  <2>1. ~RestartDoc /\ ~RerunUpstream /\ ~RunCell
    BY <1>2 DEF RestartDoc, RerunUpstream, RunCell, Continue, Idle
  <2>2. cellState' = cellState
    BY <2>1, CellsFrame
  <2>3. NoCells
    <3>1. CASE Shutdown
      <4>1. ~started
        BY <1>2, <3>1 DEF Shutdown, Kill
      <4> QED BY <3>1, <4>1 DEF Shutdown, JobInv
    <3>2. CASE ~Shutdown
      <4>1. pc = "stopped"
        BY <1>2, <3>2, JobFrame, BeginIs, DispatchIs DEF Idle
      <4>2. ~EnsureFirst /\ ~RestartRepl /\ ~ReplayRestarts
        BY <4>1 DEF EnsureFirst, RestartRepl, ReplayRestarts
      <4>3. alive
        BY <1>2, <2>1, <4>2, KnownKept
      <4>4. ~started
        BY <1>2, <3>2, <4>1, StartedFrame
      <4> QED BY <4>1, <4>3, <4>4 DEF PrefixInv, CellsInv
    <3> QED BY <3>1, <3>2
  <2> QED BY <2>2, <2>3, Zenon DEF NoCells
<1>3. ASSUME alive', NEW c \in Cells, cellState'[c] # NoState PROVE Holds(cellState[c])'
  BY <1>1, <1>3 DEF Holds, Known, StateAt, KnownNext, NextStateAt
<1>4. (alive => \A c \in Cells : cellState[c] # NoState => Holds(cellState[c]))'
  BY <1>3, Zenon DEF NoState
<1>5. (pc = "stopped" /\ ~started /\ alive => NoCells)'
  BY <1>2, Zenon
<1> QED BY <1>4, <1>5, Zenon DEF CellsInv

----------------------------------------------------------------------------
(* Fresh cells: the base *)

\* What leads into a recovery, and what goes on while it waits.
LEMMA Enters ==
  ASSUME [Next]_vars, pc' # pc
  PROVE  /\ pc' = "init" => EnsureFirst \/ RestartDoc
         /\ pc' = "restore" => RestartRepl
         /\ pc' = "check" => RestoreMisses \/ RestoreRefused \/ RestoreFails \/ RestoreInterrupted
         /\ pc' = "replay" => ReplayBegins \/ ReplayRestarts
<1> DEFINE Goal ==
         /\ pc' = "init" => EnsureFirst \/ RestartDoc
         /\ pc' = "restore" => RestartRepl
         /\ pc' = "check" => RestoreMisses \/ RestoreRefused \/ RestoreFails \/ RestoreInterrupted
         /\ pc' = "replay" => ReplayBegins \/ ReplayRestarts
<1> SUFFICES Goal
  OBVIOUS
<1>1. CASE Input
  BY <1>1 DEF Input, CommOpen, CommClose, CommMessage, BeginJob, Shutdown
<1>2. CASE Ensure
  BY <1>2 DEF Ensure, EnsureRunning, EnsureFirst, RestartDoc, RestartRepl, StartFails,
    InitAbsent, InitOk, InitFails, Continue, Idle
<1>3. CASE Recover
  BY <1>3 DEF Recover, RestoreMisses, Restore, RestoreRefused, RestoreFails,
    RestoreInterrupted, ReplayBegins, ReplayRestarts, RestartFails, ReplayCell,
    ReplayDiverges, ReplayEnds, Continue, RaiseDied, Unwind, Idle
<1>4. CASE Serve
  BY <1>4 DEF Serve, RefuseInitError, Dispatch, RerunUpstream, UpstreamFails, PrefixDone,
    RunCell, CellFails, RunRepl, ReplFails, SaveAnswered, SaveSkipped, AnswerQuery,
    Continue, ReplyOk, Idle
<1>5. CASE Raise
  BY <1>5 DEF Raise, RequestDies, RequestInterrupted, RequestTimesOut, ReplyInvalid,
    RaiseDied, Unwind, Idle
<1>6. CASE InterruptedOutside \/ WorkerDies \/ LateEnds \/ Stopped \/ UNCHANGED vars
  BY <1>6 DEF InterruptedOutside, Unwind, Idle, WorkerDies, LateEnds, Stopped, vars
<1> HIDE DEF Goal
<1> QED BY <1>1, <1>2, <1>3, <1>4, <1>5, <1>6 DEF Next, Thread

\* Where a step stays in a recovery.
LEMMA Waits ==
  ASSUME [Next]_vars, pc' = pc, pc \in {"init", "restore", "check", "replay"}
  PROVE  WorkerDies \/ LateEnds \/ UNCHANGED vars \/ (pc = "replay" /\ ReplayCell)
<1>1. ~Input
  BY DEF Input, CommOpen, CommClose, CommMessage, BeginJob, Shutdown
<1>2. ~Ensure
  BY DEF Ensure, EnsureRunning, EnsureFirst, RestartDoc, RestartRepl, StartFails,
    InitAbsent, InitOk, InitFails, Continue, Idle
<1>3. Recover => pc = "replay" /\ ReplayCell
  BY DEF Recover, RestoreMisses, Restore, RestoreRefused, RestoreFails,
    RestoreInterrupted, ReplayBegins, ReplayRestarts, RestartFails, ReplayCell,
    ReplayDiverges, ReplayEnds, Continue, RaiseDied, Unwind, Idle
<1>4. ~Serve
  BY DEF Serve, RefuseInitError, Dispatch, RerunUpstream, UpstreamFails, PrefixDone,
    RunCell, CellFails, RunRepl, ReplFails, SaveAnswered, SaveSkipped, AnswerQuery
<1>5. ~Raise /\ ~InterruptedOutside /\ ~Stopped
  BY DEF Raise, RequestDies, RequestInterrupted, RequestTimesOut, ReplyInvalid,
    RaiseDied, Unwind, Idle, InterruptedOutside, Stopped
<1> QED BY <1>1, <1>2, <1>3, <1>4, <1>5 DEF Next, Thread

\* What leads out of one with a worker that runs.
LEMMA Leaves ==
  ASSUME DocOnly, Types, JobInv, BaseInv, [Next]_vars, alive',
         pc \in {"init", "restore", "check", "replay"},
         pc' \notin {"init", "restore", "check", "replay"}
  PROVE  InitAbsent \/ InitOk \/ InitFails \/ Restore \/ ReplayEnds
<1>1. ~Input
  BY DEF Input, CommOpen, CommClose, CommMessage, BeginJob, Shutdown
<1>2. Ensure => InitAbsent \/ InitOk \/ InitFails
  BY DEF Ensure, EnsureRunning, EnsureFirst, RestartDoc, RestartRepl, StartFails
<1>3. ~ReplayDiverges
  BY DEF ReplayDiverges, DocOnly, RaiseDied, Kill
<1>4. ~RestartFails
  BY DEF RestartFails, workerVars
<1>5. Recover => Restore \/ ReplayEnds
  BY <1>3, <1>4 DEF Recover, RestoreMisses, RestoreRefused, RestoreFails,
    RestoreInterrupted, ReplayBegins, ReplayRestarts, ReplayCell, Continue
<1>6. ~Serve
  BY DEF Serve, RefuseInitError, Dispatch, RerunUpstream, UpstreamFails, PrefixDone,
    RunCell, CellFails, RunRepl, ReplFails, SaveAnswered, SaveSkipped, AnswerQuery
<1>7. ~RequestDies
  BY DEF RequestDies, RaiseDied, Kill, workerVars
<1>8. ~RequestInterrupted /\ ~InterruptedOutside
  BY DEF RequestInterrupted, InterruptedOutside, Kill
<1>9. ~RequestTimesOut
  <2>1. pc \in {"restore", "check"} => ~Asking
    BY DEF Asking
  <2>2. RequestTimesOut => ~started
    BY <2>1 DEF RequestTimesOut, DocOnly
  <2> QED BY <2>2 DEF RequestTimesOut, Kill
<1>10. ~ReplyInvalid
  <2> SUFFICES ASSUME ReplyInvalid PROVE FALSE
    OBVIOUS
  <2>1. pc \in {"init", "replay"} /\ alive /\ ~Known(Requested.parent)
    BY DEF ReplyInvalid, Asking, Serving
  <2>2. Requested.parent = snapshot
    BY <2>1 DEF Requested
  <2>3. Known(snapshot)
    BY <2>1 DEF BaseInv, RootInv, RebootInv, ReplayInv, Untouched
  <2> QED BY <2>1, <2>2, <2>3
<1>11. ~WorkerDies /\ ~LateEnds /\ ~Stopped /\ ~(UNCHANGED vars)
  BY DEF WorkerDies, LateEnds, Stopped, vars
<1> QED BY <1>1, <1>2, <1>5, <1>6, <1>7, <1>8, <1>9, <1>10, <1>11 DEF Next, Thread, Raise

\* The first snapshot of every worker is the empty session.
LEMMA RootStep ==
  ASSUME Types, JobInv, RootInv, [Next]_vars
  PROVE  RootInv'
<1> SUFFICES ASSUME alive' PROVE KnownNext(0) /\ NextStateAt(0) = <<>>
  BY DEF RootInv, Known, StateAt, KnownNext, NextStateAt
<1>1. CASE EnsureFirst \/ RestartDoc \/ RestartRepl \/ ReplayRestarts
  BY <1>1, StartedIs, FreshSnaps
<1>2. CASE ~(EnsureFirst \/ RestartDoc \/ RestartRepl \/ ReplayRestarts)
  BY <1>2, KnownKept DEF RootInv
<1> QED BY <1>1, <1>2

\* An untouched worker that does nothing but die stays untouched.
LEMMA UntouchedKept ==
  ASSUME WorkerType, Untouched, WorkerDies \/ LateEnds \/ UNCHANGED vars
  PROVE  Untouched'
<1>1. CASE WorkerDies
  BY <1>1 DEF WorkerDies, Untouched
<1>2. CASE LateEnds
  <2>1. alive' = alive /\ late # <<>>
    BY <1>2 DEF LateEnds
  <2> QED BY <2>1, Zenon DEF Untouched
<1>3. CASE UNCHANGED vars
  BY <1>3, Zenon DEF vars, Untouched
<1> QED BY <1>1, <1>2, <1>3

\* The steps of a worker on its own leave the adapter alone.
LEMMA AloneKeeps ==
  ASSUME WorkerDies \/ LateEnds \/ UNCHANGED vars
  PROVE  UNCHANGED <<bootVars, docVars, clientVars, cacheVars, pc, job>>
<1> QED BY DEF WorkerDies, LateEnds, vars, bootVars, docVars, clientVars, cacheVars

\* A worker just started is untouched.
LEMMA RebootStep ==
  ASSUME Types, JobInv, BaseInv, [Next]_vars
  PROVE  RebootInv'
<1>1. CASE pc' \notin {"init", "restore", "check"}
  BY <1>1 DEF RebootInv
<1>2. CASE pc' = pc /\ pc \in {"init", "restore", "check"}
  <2>1. WorkerDies \/ LateEnds \/ UNCHANGED vars
    BY <1>2, Waits
  <2>2. Untouched'
    BY <1>2, <2>1, UntouchedKept DEF BaseInv, RebootInv, Types
  <2>3. base' = base /\ initError' = initError
    BY <2>1, AloneKeeps, Zenon DEF bootVars
  <2>4. pc = "init" => base' = 0 /\ ~initError'
    BY <2>3, Zenon DEF BaseInv, RebootInv
  <2> QED BY <1>2, <2>2, <2>4 DEF RebootInv
<1>3. CASE pc' # pc /\ pc' = "init"
  <2>1. Started /\ base' = 0 /\ initError' = FALSE
    BY <1>3, Enters DEF EnsureFirst, RestartDoc
  <2> QED BY <1>3, <2>1, FreshSnaps DEF RebootInv
<1>4. CASE pc' # pc /\ pc' = "restore"
  <2>1. Started
    BY <1>4, Enters DEF RestartRepl
  <2> QED BY <1>4, <2>1, FreshSnaps DEF RebootInv
<1>5. CASE pc' # pc /\ pc' = "check"
  <2>1. ASSUME RestoreMisses \/ RestoreRefused PROVE Untouched'
    <3>1. pc = "restore" /\ alive' = alive /\ snaps' = snaps /\ snapshot' = snapshot /\ late' = late
      BY <2>1, Zenon DEF RestoreMisses, RestoreRefused, workerVars, clientVars
    <3>2. Untouched
      BY <3>1 DEF BaseInv, RebootInv
    <3> QED BY <3>1, <3>2, Zenon DEF Untouched
  <2>2. ASSUME RestoreFails \/ RestoreInterrupted PROVE Untouched'
    BY <2>2 DEF RestoreFails, RestoreInterrupted, Kill, Untouched
  <2> QED BY <1>5, <2>1, <2>2, Enters DEF RebootInv
<1> QED BY <1>1, <1>2, <1>3, <1>4, <1>5

\* A replayed cell is moved from the list to the ledger.
LEMMA ReplayCellKeeps ==
  ASSUME Types, JobInv, BaseInv, ReplayCell
  PROVE  ReplayInv'
<1> DEFINE h == Head(todo)
<1>1. /\ pc = "replay" /\ todo # <<>> /\ Asking /\ Elaborated /\ ledger' = Append(ledger, h)
      /\ todo' = Tail(todo) /\ kept' = kept /\ base' = base
  BY DEF ReplayCell, Asking, bootVars
<1>2. /\ ledger \in State /\ todo \in State /\ kept = ledger \o todo /\ alive /\ Known(snapshot)
      /\ snapshot \in Nat /\ Len(snaps) \in Nat /\ base \in Nat
  BY <1>1 DEF Types, ClientType, WorkerType, BootType, BaseInv, ReplayInv, Elaborated, Serving
<1>3. Requested = [parent |-> snapshot, code |-> h]
  BY <1>1 DEF Requested
<1>4. /\ snaps' = Append(snaps, Append(StateAt(snapshot), h)) /\ snapshot' = Len(snaps)
      /\ Append(StateAt(snapshot), h) \in State
  BY <1>1, <1>3, ElaboratedType DEF Elaborated
<1>5. /\ \A id \in Nat : Known(id) => KnownNext(id) /\ NextStateAt(id) = StateAt(id)
      /\ KnownNext(Len(snaps)) /\ NextStateAt(Len(snaps)) = Append(StateAt(snapshot), h)
  BY <1>4, Grown DEF Types
<1>6. h \in Codes /\ ledger' # <<>> /\ kept' = ledger' \o todo'
  <2>1. h \in Codes /\ todo' \in Seq(Codes)
    BY <1>1, <1>2, HeadTailProperties DEF State
  <2>2. todo = <<h>> \o todo'
    BY <1>1, <1>2, <2>1 DEF State
  <2>3. ledger' = ledger \o <<h>> /\ ledger' # <<>>
    BY <1>1, <1>2, <2>1, AppendIsConcat DEF State
  <2>4. (ledger \o <<h>>) \o todo' = ledger \o (<<h>> \o todo')
    BY <1>2, <2>1, ConcatAssociative DEF State
  <2> HIDE DEF h
  <2> QED BY <1>1, <1>2, <2>1, <2>2, <2>3, <2>4
<1>7. ASSUME base = 1 PROVE KnownNext(1) /\ NextStateAt(1) = <<ledger'[1]>>
  <2>1. CASE ledger = <<>>
    <3>1. snaps = << <<>> >> /\ snapshot = 0
      BY <1>1, <1>2, <2>1 DEF BaseInv, ReplayInv, Untouched
    <3>2. Len(snaps) = 1 /\ StateAt(snapshot) = <<>>
      BY <3>1 DEF StateAt
    <3>3. ledger'[1] = h /\ Append(<<>>, h) = <<h>>
      BY <1>1, <1>6, <2>1
    <3> QED BY <1>5, <3>2, <3>3
  <2>2. CASE ledger # <<>>
    <3>1. Known(1) /\ StateAt(1) = <<ledger[1]>>
      BY <1>1, <1>2, <1>7, <2>2 DEF BaseInv, ReplayInv
    <3>2. ledger'[1] = ledger[1]
      BY <1>1, <1>2, <1>6, <2>2 DEF State
    <3> QED BY <1>5, <3>1, <3>2
  <2> QED BY <2>1, <2>2
<1>8. KnownNext(snapshot')
  BY <1>4, <1>5
<1> HIDE DEF h
<1> QED BY <1>1, <1>6, <1>7, <1>8 DEF ReplayInv, Known, StateAt, KnownNext, NextStateAt

\* A replay keeps its lists together.
LEMMA ReplayStep ==
  ASSUME Types, JobInv, BaseInv, [Next]_vars
  PROVE  ReplayInv'
<1>1. CASE pc' # "replay"
  BY <1>1 DEF ReplayInv
<1>2. CASE pc' = "replay" /\ pc = "replay" /\ (WorkerDies \/ LateEnds \/ UNCHANGED vars)
  <2>1. /\ ledger' = ledger /\ kept' = kept /\ todo' = todo /\ snapshot' = snapshot /\ base' = base
    BY <1>2, AloneKeeps DEF clientVars, bootVars
  <2>2. kept' = ledger' \o todo'
    BY <1>2, <2>1 DEF BaseInv, ReplayInv
  <2>3. ledger' = <<>> => Untouched'
    BY <1>2, <2>1, UntouchedKept DEF BaseInv, ReplayInv, Types
  <2>4. ASSUME alive' PROVE KnownNext(snapshot)
    <3>1. alive /\ \A id \in Nat : Known(id) => KnownNext(id) /\ NextStateAt(id) = StateAt(id)
      BY <1>2, <2>4, KnownKept DEF EnsureFirst, RestartDoc, RestartRepl, ReplayRestarts
    <3> QED BY <1>2, <3>1 DEF BaseInv, ReplayInv, Types, ClientType
  <2>5. ASSUME alive', ledger # <<>>, base = 1 PROVE KnownNext(1) /\ NextStateAt(1) = <<ledger[1]>>
    <3>1. alive /\ \A id \in Nat : Known(id) => KnownNext(id) /\ NextStateAt(id) = StateAt(id)
      BY <1>2, <2>5, KnownKept DEF EnsureFirst, RestartDoc, RestartRepl, ReplayRestarts
    <3> QED BY <1>2, <2>5, <3>1 DEF BaseInv, ReplayInv
  <2> QED BY <1>2, <2>1, <2>2, <2>3, <2>4, <2>5
    DEF ReplayInv, Known, StateAt, KnownNext, NextStateAt
<1>3. CASE pc' = "replay" /\ pc = "replay" /\ ReplayCell
  BY <1>3, ReplayCellKeeps
<1>4. CASE pc' = "replay" /\ pc # "replay"
  <2>1. pc = "check" /\ kept' = ledger /\ todo' = ledger /\ ledger' = <<>> /\ Untouched
    BY <1>4, Enters DEF ReplayBegins, ReplayRestarts, SetAside, BaseInv, RebootInv
  <2>2. kept' = ledger' \o todo'
    BY <2>1 DEF Types, ClientType, State
  <2>3. Untouched' /\ (alive' => KnownNext(snapshot'))
    <3>1. CASE ReplayBegins
      <4>1. alive' = alive /\ snaps' = snaps /\ snapshot' = snapshot /\ late' = late
        BY <3>1, Zenon DEF ReplayBegins, workerVars
      <4>2. Untouched'
        BY <2>1, <4>1, Zenon DEF Untouched
      <4>3. alive' => snaps' = << <<>> >> /\ snapshot' = 0
        BY <4>2, Zenon DEF Untouched
      <4> QED BY <4>2, <4>3 DEF KnownNext
    <3>2. CASE ReplayRestarts
      <4>1. Started
        BY <3>2 DEF ReplayRestarts
      <4> QED BY <4>1, FreshSnaps DEF Started
    <3> QED BY <1>4, <3>1, <3>2, Enters
  <2> QED BY <2>1, <2>2, <2>3 DEF ReplayInv, Known, KnownNext
<1> QED BY <1>1, <1>2, <1>3, <1>4, Waits

\* Where a bootstrap or a recovery ends, the base is ready.
LEMMA ReadyLeaves ==
  ASSUME DocOnly, Types, JobInv, PrefixInv, [Next]_vars, alive', started',
         pc \in {"init", "restore", "check", "replay"},
         pc' \notin {"init", "restore", "check", "replay"}
  PROVE  KnownNext(base') /\ (initError' \/ NextStateAt(base') = InitState)
<1> BaseInv
  BY DEF PrefixInv
<1>1. ~EnsureFirst /\ ~RestartDoc /\ ~RestartRepl /\ ~ReplayRestarts
  BY DEF EnsureFirst, RestartDoc, RestartRepl, ReplayRestarts, Continue
<1>2. alive /\ \A id \in Nat : Known(id) => KnownNext(id) /\ NextStateAt(id) = StateAt(id)
  BY <1>1, KnownKept
<1>3. KnownNext(0) /\ NextStateAt(0) = <<>>
  BY <1>2 DEF BaseInv, RootInv
<1>4. CASE InitAbsent
  <2>1. base' = 0 /\ InitCell = {}
    BY <1>4 DEF InitAbsent, BaseInv, RebootInv
  <2> QED BY <1>3, <2>1 DEF InitState
<1>5. CASE InitOk
  <2> DEFINE c == CHOOSE x \in InitCell : TRUE
  <2>1. /\ pc = "init" /\ InitCell # {} /\ Elaborated /\ base' = Len(snaps) /\ Asking
        /\ snaps = << <<>> >> /\ snapshot = 0
    BY <1>2, <1>5 DEF InitOk, Asking, BaseInv, RebootInv, Untouched
  <2>2. Requested = [parent |-> snapshot, code |-> c]
    BY <2>1 DEF Requested
  <2>3. Len(snaps) = 1 /\ StateAt(0) = <<>> /\ Append(<<>>, c) = <<c>>
    BY <2>1 DEF StateAt
  <2> HIDE DEF c
  <2>4. snaps' = Append(snaps, <<c>>)
    BY <2>1, <2>2, <2>3 DEF Elaborated
  <2>5. <<c>> \in State
    BY <2>1, <2>2, <2>3, ElaboratedType DEF Elaborated
  <2>6. KnownNext(base') /\ NextStateAt(base') = <<c>>
    BY <2>1, <2>4, <2>5, Grown DEF Types
  <2> QED BY <2>1, <2>6 DEF InitState, c
<1>6. CASE InitFails
  <2>1. base' = 0 /\ initError' = TRUE
    BY <1>6 DEF InitFails, BaseInv, RebootInv
  <2> QED BY <1>3, <2>1
<1>7. CASE Restore
  <2>1. pc = "restore" /\ KeyMatches /\ base' = base /\ initError' = initError
    BY <1>7, Zenon DEF Restore, bootVars
  <2>2. InitCell = {}
    BY <2>1 DEF KeyMatches, DocOnly, PrefixInv, LedgerInv, KindInv
  <2>3. started /\ doc = <<>>
    BY <2>1 DEF JobInv, PrefixInv, LedgerInv, ReplDoc
  <2>4. base = 0
    BY <2>1, <2>2, <2>3 DEF PrefixInv, LedgerInv, ReplBase, BaseOf
  <2> QED BY <1>3, <2>1, <2>2, <2>4 DEF InitState
<1>8. CASE ReplayEnds
  <2>1. /\ pc = "replay" /\ todo = <<>> /\ base' = base
        /\ initError' = initError
    BY <1>8, Zenon DEF ReplayEnds, bootVars
  <2>2. started /\ doc = <<>>
    BY <2>1 DEF JobInv, PrefixInv, LedgerInv, ReplDoc
  <2>3. kept = ledger
    BY <2>1 DEF BaseInv, ReplayInv, Types, ClientType, State
  <2>4. BaseOf(ledger)
    BY <2>1, <2>2, <2>3 DEF PrefixInv, LedgerInv, ReplBase
  <2>5. CASE initError
    <3>1. base = 0
      BY <2>4, <2>5 DEF BaseOf
    <3> QED BY <1>3, <2>1, <2>5, <3>1
  <2>6. CASE ~initError /\ InitCell = {}
    <3>1. base = 0
      BY <2>4, <2>6 DEF BaseOf
    <3> QED BY <1>3, <2>1, <2>6, <3>1 DEF InitState
  <2>7. CASE ~initError /\ InitCell # {}
    <3>1. base = 1 /\ ledger # <<>> /\ ledger[1] = CHOOSE c \in InitCell : TRUE
      BY <2>4, <2>7 DEF BaseOf
    <3>2. Known(1) /\ StateAt(1) = InitState
      BY <1>2, <2>1, <2>7, <3>1 DEF BaseInv, ReplayInv, InitState
    <3> QED BY <1>2, <2>1, <3>1, <3>2
  <2> QED BY <2>5, <2>6, <2>7
<1> QED BY <1>4, <1>5, <1>6, <1>7, <1>8, Leaves

\* Outside a recovery the base is ready.
LEMMA ReadyStep ==
  ASSUME DocOnly, Types, JobInv, PrefixInv, [Next]_vars
  PROVE  ReadyInv'
<1> SUFFICES ASSUME alive', started', pc' \notin {"init", "restore", "check", "replay"}
             PROVE  KnownNext(base') /\ (initError' \/ NextStateAt(base') = InitState)
  BY DEF ReadyInv, Known, StateAt, KnownNext, NextStateAt, InitState
<1>1. CASE pc \in {"init", "restore", "check", "replay"}
  BY <1>1, ReadyLeaves
<1>2. CASE pc \notin {"init", "restore", "check", "replay"}
  <2>1. ~EnsureFirst /\ ~RestartDoc /\ ~RestartRepl /\ ~ReplayRestarts /\ ~InitOk /\ ~InitFails
    BY <1>2 DEF EnsureFirst, RestartDoc, RestartRepl, ReplayRestarts, Continue, InitOk, InitFails
  <2>2. alive /\ \A id \in Nat : Known(id) => KnownNext(id) /\ NextStateAt(id) = StateAt(id)
    BY <2>1, KnownKept
  <2>3. started
    BY <1>2, StartedFrame, ShutdownIs
  <2>4. base' = base /\ initError' = initError
    BY <2>1, BaseFrame, Zenon
  <2>5. Known(base) /\ (initError \/ StateAt(base) = InitState)
    BY <1>2, <2>2, <2>3 DEF PrefixInv, BaseInv, ReadyInv
  <2>6. base \in Nat
    BY DEF Types, BootType
  <2> QED BY <2>2, <2>4, <2>5, <2>6
<1> QED BY <1>1, <1>2

\* The base, together.
LEMMA BaseStep ==
  ASSUME DocOnly, Types, JobInv, PrefixInv, [Next]_vars
  PROVE  BaseInv'
<1> BaseInv
  BY DEF PrefixInv
<1>1. RootInv'
  BY RootStep DEF BaseInv
<1> QED BY <1>1, RebootStep, ReplayStep, ReadyStep DEF BaseInv

----------------------------------------------------------------------------
(* Fresh cells: the ledger, the cells on record and the cache *)

\* Who writes the ledger.
LEMMA LedgerFrame ==
  ASSUME [Next]_vars
  PROVE  \/ ledger' = ledger
         \/ RestartDoc \/ (doc # <<>> /\ pc = "ensure" /\ pc' = "idle" /\ ledger' = <<>>)
         \/ InitOk \/ RunRepl
         \/ (pc = "check" /\ pc' = "replay") \/ (pc = "replay" /\ pc' = "replay")
         \/ (pc = "replay" /\ pc' = "idle" /\ ledger' = kept)
<1> USE DEF bootVars, docVars, clientVars, workerVars, cacheVars, pastVars, counters
<1>1. ASSUME Input PROVE ledger' = ledger
  BY <1>1 DEF Input, CommOpen, CommClose, CommMessage, BeginJob, Shutdown
<1>2. ASSUME Ensure, ~RestartDoc, ~InitOk
      PROVE  ledger' = ledger \/ (doc # <<>> /\ pc = "ensure" /\ pc' = "idle" /\ ledger' = <<>>)
  BY <1>2 DEF Ensure, EnsureRunning, EnsureFirst, RestartRepl, StartFails, InitAbsent,
    InitFails, Idle
<1>3. ASSUME Recover
      PROVE  \/ ledger' = ledger
             \/ (pc = "check" /\ pc' = "replay") \/ (pc = "replay" /\ pc' = "replay")
             \/ (pc = "replay" /\ pc' = "idle" /\ ledger' = kept)
  BY <1>3 DEF Recover, RestoreMisses, Restore, RestoreRefused, RestoreFails,
    RestoreInterrupted, ReplayBegins, ReplayRestarts, RestartFails, ReplayCell,
    ReplayDiverges, ReplayEnds, Continue, RaiseDied, Unwind, Idle
<1>4. ASSUME Serve, ~RunRepl PROVE ledger' = ledger
  BY <1>4 DEF Serve, RefuseInitError, Dispatch, RerunUpstream, UpstreamFails, PrefixDone,
    RunCell, CellFails, ReplFails, SaveAnswered, SaveSkipped, AnswerQuery, ReplyOk
<1>5. ASSUME Raise \/ InterruptedOutside
      PROVE  ledger' = ledger \/ (pc = "replay" /\ pc' = "idle" /\ ledger' = kept)
  BY <1>5 DEF Raise, RequestDies, RequestInterrupted, RequestTimesOut, ReplyInvalid,
    InterruptedOutside, RaiseDied, Unwind, Idle
<1>6. ASSUME WorkerDies \/ LateEnds \/ Stopped \/ UNCHANGED vars PROVE ledger' = ledger
  BY <1>6 DEF WorkerDies, LateEnds, Stopped, vars
<1> QED BY <1>1, <1>2, <1>3, <1>4, <1>5, <1>6 DEF Next, Thread

\* A replay that does not come to its end puts the ledger back.
LEMMA ReplayLeaves ==
  ASSUME [Next]_vars, pc = "replay", pc' # "replay", ~ReplayEnds
  PROVE  ledger' = kept
<1>1. ~Input
  BY DEF Input, CommOpen, CommClose, CommMessage, BeginJob, Shutdown
<1>2. ~Ensure
  BY DEF Ensure, EnsureRunning, EnsureFirst, RestartDoc, RestartRepl, StartFails,
    InitAbsent, InitOk, InitFails
<1>3. ASSUME Recover PROVE ledger' = kept
  BY <1>3 DEF Recover, RestoreMisses, Restore, RestoreRefused, RestoreFails,
    RestoreInterrupted, ReplayBegins, ReplayRestarts, RestartFails, ReplayCell,
    ReplayDiverges, Continue, RaiseDied, Unwind
<1>4. ~Serve
  BY DEF Serve, RefuseInitError, Dispatch, RerunUpstream, UpstreamFails, PrefixDone,
    RunCell, CellFails, RunRepl, ReplFails, SaveAnswered, SaveSkipped, AnswerQuery
<1>5. ASSUME Raise \/ InterruptedOutside PROVE ledger' = kept
  BY <1>5 DEF Raise, RequestDies, RequestInterrupted, RequestTimesOut, ReplyInvalid,
    InterruptedOutside, RaiseDied, Unwind
<1>6. ~WorkerDies /\ ~LateEnds /\ ~Stopped /\ ~(UNCHANGED vars)
  BY DEF WorkerDies, LateEnds, Stopped, vars
<1> QED BY <1>1, <1>2, <1>3, <1>4, <1>5, <1>6 DEF Next, Thread

\* The descriptor is written by a save, and dropped by it or by a shutdown.
LEMMA KeyFrame ==
  ASSUME [Next]_vars, pc # "save"
  PROVE  key' = key \/ key' = {}
<1> USE DEF bootVars, docVars, clientVars, workerVars, cacheVars, pastVars, counters
<1>1. ASSUME Input PROVE key' = key \/ key' = {}
  BY <1>1 DEF Input, CommOpen, CommClose, CommMessage, BeginJob, Shutdown
<1>2. ASSUME Ensure PROVE key' = key
  BY <1>2 DEF Ensure, EnsureRunning, EnsureFirst, RestartDoc, RestartRepl, StartFails,
    InitAbsent, InitOk, InitFails
<1>3. ASSUME Recover PROVE key' = key
  BY <1>3 DEF Recover, RestoreMisses, Restore, RestoreRefused, RestoreFails,
    RestoreInterrupted, ReplayBegins, ReplayRestarts, RestartFails, ReplayCell,
    ReplayDiverges, ReplayEnds
<1>4. ASSUME Serve PROVE key' = key
  BY <1>4 DEF Serve, RefuseInitError, Dispatch, RerunUpstream, UpstreamFails, PrefixDone,
    RunCell, CellFails, RunRepl, ReplFails, SaveAnswered, SaveSkipped, AnswerQuery
<1>5. ASSUME Raise \/ InterruptedOutside PROVE key' = key
  BY <1>5 DEF Raise, RequestDies, RequestInterrupted, RequestTimesOut, ReplyInvalid,
    InterruptedOutside
<1>6. ASSUME WorkerDies \/ LateEnds \/ Stopped \/ UNCHANGED vars PROVE key' = key
  BY <1>6 DEF WorkerDies, LateEnds, Stopped, vars
<1> QED BY <1>1, <1>2, <1>3, <1>4, <1>5, <1>6 DEF Next, Thread

\* The ledger is empty until the bootstrap is over.
LEMMA BootLedgerStep ==
  ASSUME Types, JobInv, PrefixInv, [Next]_vars
  PROVE  BootLedger'
<1>1. ASSUME pc' = "init" PROVE ledger' = <<>> /\ (started' => doc' # <<>>)
  <2>1. CASE pc = "init"
    <3>1. UNCHANGED <<bootVars, docVars, clientVars>>
      BY <1>1, <2>1, Waits, AloneKeeps
    <3>2. ledger' = ledger /\ started' = started /\ doc' = doc
      BY <3>1, Zenon DEF bootVars, docVars, clientVars
    <3> QED BY <2>1, <3>2 DEF PrefixInv, LedgerInv, BootLedger
  <2>2. CASE EnsureFirst
    BY <2>2 DEF EnsureFirst, PrefixInv, LedgerInv, BootLedger
  <2>3. CASE RestartDoc
    BY <2>3 DEF RestartDoc
  <2> QED BY <1>1, <2>1, <2>2, <2>3, Enters
<1>2. ASSUME pc' \in {"ensure", "idle"}, ~started' PROVE ledger' = <<>>
  <2>1. ~started /\ pc # "stopped"
    <3>1. ~Shutdown /\ pc # "stopped"
      BY <1>2, ShutdownIs, StoppedStays
    <3>2. started' = started
      BY <1>2, <3>1, StartedFrame, Zenon
    <3> QED BY <1>2, <3>1, <3>2, Zenon
  <2>2. pc \in {"idle", "ensure", "init"}
    BY <2>1 DEF JobInv
  <2>3. ~InitOk /\ ~RunRepl /\ ~RestartDoc
    BY <1>2, <2>1 DEF InitOk, RunRepl, RestartDoc, Continue
  <2>4. ledger' = ledger \/ ledger' = <<>>
    BY <2>2, <2>3, LedgerFrame
  <2> QED BY <2>1, <2>2, <2>4 DEF PrefixInv, LedgerInv, BootLedger
<1> QED BY <1>1, <1>2 DEF BootLedger

\* Replays belong to a session without a document.
LEMMA ReplDocStep ==
  ASSUME DocOnly, Types, JobInv, PrefixInv, [Next]_vars
  PROVE  ReplDoc'
<1>1. ASSUME pc' \in {"restore", "check", "replay"} PROVE doc' = <<>>
  <2>1. pc \in {"restore", "check", "replay"} \/ doc = <<>>
    BY <1>1, JobFrame, BeginIs, ShutdownIs, DispatchIs DEF Idle
  <2>2. doc = <<>> /\ pc # "idle"
    <3>1. pc \in {"restore", "check", "replay"} \/ pc = "ensure"
      BY <1>1, JobFrame, BeginIs, ShutdownIs, DispatchIs DEF Idle
    <3> QED BY <2>1, <3>1 DEF PrefixInv, LedgerInv, ReplDoc
  <2> QED BY <2>2, DocKept DEF Types
<1>2. ASSUME doc' = <<>> PROVE NoCells'
  <2>1. doc = <<>> /\ NoCells
    BY <1>2, DocKept DEF DocOnly, Types, PrefixInv, LedgerInv, ReplDoc
  <2>2. CASE RestartDoc
    BY <2>2, RestartDocClears
  <2>3. ~RerunUpstream /\ ~RunCell
    <3>1. pc \notin {"prefix", "run"}
      BY <2>1 DEF JobInv, InDoc
    <3> QED BY <3>1 DEF RerunUpstream, RunCell
  <2>4. CASE cellState' = cellState
    BY <2>1, <2>4, Zenon DEF NoCells
  <2> QED BY <2>2, <2>3, <2>4, CellsFrame
<1> QED BY <1>1, <1>2 DEF ReplDoc

\* One more cell at the end leaves what the ledger begins with.
LEMMA BaseOfLonger ==
  ASSUME NEW s \in State, BaseOf(s), NEW c
  PROVE  BaseOf(Append(s, c))
<1>1. CASE initError \/ InitCell = {}
  BY <1>1 DEF BaseOf
<1>2. CASE ~(initError \/ InitCell = {})
  <2>1. s # <<>> /\ Append(s, c) # <<>> /\ Append(s, c)[1] = s[1]
    BY <1>2 DEF BaseOf, State
  <2> QED BY <1>2, <2>1 DEF BaseOf
<1> QED BY <1>1, <1>2

\* The base is of the ledger as long as neither changes.
LEMMA BaseOfKept ==
  ASSUME NEW s, BaseOf(s), base' = base, initError' = initError, NEW t, t = s
  PROVE  IF initError' \/ InitCell = {} THEN base' = 0
         ELSE base' = 1 /\ t # <<>> /\ t[1] = CHOOSE c \in InitCell : TRUE
BY Zenon DEF BaseOf

\* While no document has come the base is that of the ledger.
LEMMA ReplBaseStep ==
  ASSUME DocOnly, Types, JobInv, PrefixInv, [Next]_vars
  PROVE  ReplBase'
<1> DEFINE X == IF pc' = "replay" THEN kept' ELSE ledger'
<1> SUFFICES ASSUME doc' = <<>>, started', pc' # "init"
             PROVE  IF initError' \/ InitCell = {} THEN base' = 0
                    ELSE base' = 1 /\ X # <<>> /\ X[1] = CHOOSE c \in InitCell : TRUE
  BY DEF ReplBase, BaseOf
<1>1. doc = <<>>
  BY DocKept DEF DocOnly, Types
<1>2. CASE pc = "init"
  <2>1. ~started /\ ledger = <<>> /\ base = 0 /\ ~initError /\ Untouched
    BY <1>1, <1>2 DEF PrefixInv, LedgerInv, BootLedger, BaseInv, RebootInv
  <2>2. InitAbsent \/ InitOk \/ InitFails
    <3>1. ~Shutdown
      BY <1>2 DEF Shutdown
    <3> QED BY <2>1, <3>1, BootFrame DEF bootVars, EnsureFirst, RestartDoc
  <2>3. CASE InitAbsent
    BY <2>1, <2>3 DEF InitAbsent
  <2>4. CASE InitFails
    BY <2>1, <2>4 DEF InitFails
  <2>5. CASE InitOk
    <3> DEFINE c == CHOOSE x \in InitCell : TRUE
    <3>1. /\ alive /\ base' = Len(snaps) /\ pc' = "dispatch"
          /\ ledger' = Append(ledger, Requested.code)
      BY <2>5 DEF InitOk, Elaborated, Serving, Continue
    <3>2. Requested.code = c
      BY <1>2 DEF Requested
    <3>3. base' = 1
      BY <2>1, <3>1 DEF Untouched
    <3>4. ledger' # <<>> /\ ledger'[1] = c
      BY <2>1, <3>1, <3>2
    <3>5. initError' = initError /\ InitCell # {}
      BY <2>5, Zenon DEF InitOk
    <3> QED BY <2>1, <3>1, <3>3, <3>4, <3>5
  <2> QED BY <2>2, <2>3, <2>4, <2>5
<1>3. CASE pc # "init"
  <2>1. started /\ ~Shutdown
    BY <1>3, StartedFrame, ShutdownIs
  <2>2. BaseOf(IF pc = "replay" THEN kept ELSE ledger)
    BY <1>1, <1>3, <2>1 DEF PrefixInv, LedgerInv, ReplBase
  <2>3. ~EnsureFirst /\ ~RestartDoc /\ ~InitOk /\ ~InitFails
    BY <1>1, <1>3, <2>1 DEF EnsureFirst, RestartDoc, InitOk, InitFails
  <2>4. base' = base /\ initError' = initError
    BY <2>3, BaseFrame, Zenon
  <2>5. CASE pc = "replay"
    <3>1. BaseOf(kept)
      BY <2>2, <2>5
    <3>2. X = kept
      <4>1. CASE pc' = "replay"
        <5>1. kept' = kept
          <6>1. CASE ReplayCell
            BY <6>1 DEF ReplayCell
          <6>2. CASE WorkerDies \/ LateEnds \/ UNCHANGED vars
            BY <6>2, AloneKeeps DEF clientVars
          <6> QED BY <2>5, <4>1, <6>1, <6>2, Waits
        <5> QED BY <4>1, <5>1
      <4>2. CASE pc' # "replay"
        <5>1. ledger' = kept
          <6>1. CASE ReplayEnds
            BY <2>5, <6>1 DEF ReplayEnds, PrefixInv, BaseInv, ReplayInv, Types, ClientType, State
          <6>2. CASE ~ReplayEnds
            BY <2>5, <4>2, <6>2, ReplayLeaves
          <6> QED BY <6>1, <6>2
        <5> QED BY <4>2, <5>1
      <4> QED BY <4>1, <4>2
    <3> HIDE DEF X
    <3> QED BY <2>4, <3>1, <3>2, BaseOfKept, Zenon
  <2>6. CASE pc # "replay" /\ pc' = "replay"
    <3>1. X = ledger
      BY <2>6, Enters DEF ReplayBegins, ReplayRestarts, SetAside
    <3>2. BaseOf(ledger)
      BY <2>2, <2>6
    <3> HIDE DEF X
    <3> QED BY <2>4, <3>1, <3>2, BaseOfKept, Zenon
  <2>7. CASE pc # "replay" /\ pc' # "replay"
    <3>1. BaseOf(ledger) /\ X = ledger'
      BY <2>2, <2>7
    <3>2. CASE ledger' = ledger
      <4>1. X = ledger
        BY <3>1, <3>2
      <4> HIDE DEF X
      <4> QED BY <2>4, <3>1, <4>1, BaseOfKept, Zenon
    <3>3. CASE RunRepl
      <4>1. X = Append(ledger, job.code)
        BY <3>1, <3>3 DEF RunRepl
      <4>2. BaseOf(Append(ledger, job.code))
        BY <3>1, BaseOfLonger DEF Types, ClientType
      <4> HIDE DEF X
      <4> QED BY <2>4, <4>1, <4>2, BaseOfKept, Zenon
    <3> QED BY <1>1, <2>3, <2>7, <3>2, <3>3, LedgerFrame
  <2> QED BY <2>5, <2>6, <2>7
<1> QED BY <1>2, <1>3

\* After a failed init cell nothing runs.
LEMMA ErrorStep ==
  ASSUME Types, JobInv, PrefixInv, [Next]_vars
  PROVE  ErrorInv'
<1>1. ASSUME pc' \in {"prefix", "run", "repl", "save"} PROVE ~initError'
  <2>1. pc \in {"dispatch", "prefix", "run", "repl", "save"}
    BY <1>1, JobFrame, BeginIs, ShutdownIs, DispatchIs DEF Idle
  <2>2. ~initError
    <3>1. pc = "dispatch" => ~initError
      BY <1>1, JobFrame, BeginIs, ShutdownIs, DispatchIs DEF Idle
    <3> QED BY <2>1, <3>1 DEF PrefixInv, LedgerInv, ErrorInv
  <2>3. ~EnsureFirst /\ ~RestartDoc /\ ~InitFails
    BY <2>1 DEF EnsureFirst, RestartDoc, InitFails
  <2>4. initError' = initError
    BY <2>3, BaseFrame, Zenon
  <2> QED BY <2>2, <2>4, Zenon
<1>2. ASSUME initError' PROVE NoCells'
  <2>1. ~EnsureFirst /\ ~RestartDoc
    BY <1>2 DEF EnsureFirst, RestartDoc
  <2>2. CASE InitFails
    BY <2>2, Zenon DEF InitFails, JobInv, docVars, NoCells
  <2>3. CASE ~InitFails
    <3>1. initError
      BY <1>2, <2>1, <2>3, BaseFrame, Zenon
    <3>2. NoCells /\ pc \notin {"prefix", "run"}
      BY <3>1 DEF PrefixInv, LedgerInv, ErrorInv
    <3>3. cellState' = cellState
      BY <2>1, <3>2, CellsFrame DEF RerunUpstream, RunCell
    <3> QED BY <3>2, <3>3, Zenon DEF NoCells
  <2> QED BY <2>2, <2>3
<1> QED BY <1>1, <1>2 DEF ErrorInv

\* Only console cells are saved.
LEMMA KindStep ==
  ASSUME Types, JobInv, PrefixInv, JobInv', [Next]_vars
  PROVE  KindInv'
<1>1. ASSUME pc' \notin {"idle", "stopped"} PROVE job'.kind \in Kinds
  <2>1. CASE \E j \in Jobs : BeginJob(j)
    BY <2>1, BeginIs
  <2>2. CASE job' = job /\ pc \notin {"idle", "stopped"}
    BY <2>2 DEF PrefixInv, LedgerInv, KindInv
  <2> QED BY <1>1, <2>1, <2>2, JobFrame, ShutdownIs, DispatchIs DEF Idle
<1>2. ASSUME pc' \in {"repl", "save"} PROVE job'.kind = "console"
  <2>1. CASE pc = "dispatch" /\ Dispatch
    <3>1. job' = job /\ ~(job.kind = "cell" /\ InDoc(job.cell)) /\ pc' = "repl"
      BY <1>2, <2>1, DispatchIs
    <3> QED BY <2>1, <3>1 DEF JobInv, Executing
  <2>2. CASE pc \in {"repl", "save"} /\ job' = job
    BY <2>2 DEF PrefixInv, LedgerInv, KindInv
  <2> QED BY <1>2, <2>1, <2>2, JobFrame, BeginIs, ShutdownIs, DispatchIs DEF Idle
<1>3. ASSUME CacheOn, "console" \notin Kinds PROVE key' = {}
  <2>1. key = {}
    BY <1>3 DEF PrefixInv, LedgerInv, KindInv
  <2>2. pc # "save"
    BY <1>3 DEF PrefixInv, LedgerInv, KindInv
  <2>3. key' = key \/ key' = {}
    BY <2>2, KeyFrame
  <2> QED BY <2>1, <2>3
<1> QED BY <1>1, <1>2, <1>3 DEF KindInv

\* The ledger, together.
LEMMA LedgerStep ==
  ASSUME DocOnly, Types, JobInv, PrefixInv, JobInv', [Next]_vars
  PROVE  LedgerInv'
BY BootLedgerStep, ReplDocStep, ReplBaseStep, ErrorStep, KindStep DEF LedgerInv

\* Every step.
LEMMA PrefixStep ==
  ASSUME DocOnly, Types, JobInv, PrefixInv, Types', JobInv', [Next]_vars
  PROVE  PrefixInv'
BY BaseStep, LedgerStep, CellsStep DEF PrefixInv

\* The initial state.
LEMMA PrefixInit == ASSUME Init PROVE PrefixInv
<1> USE DEF Init
<1>1. BaseInv
  BY DEF BaseInv, RootInv, RebootInv, ReplayInv, ReadyInv
<1>2. NoCells
  BY DEF NoCells
<1>3. LedgerInv
  BY <1>2 DEF LedgerInv, BootLedger, ReplDoc, ReplBase, ErrorInv, KindInv
<1>4. CellsInv
  BY DEF CellsInv
<1> QED BY <1>1, <1>3, <1>4 DEF PrefixInv

\* "cell i's snapshot equals elaborating the visible prefix through i", for every
\* cell that counts as fresh: for any notebook and any edits, moves, runs,
\* failures, deaths, interrupts and timeouts, in the sessions DocOnly describes
\* (_ensure_prefix and the document branch of _ensure_worker).
THEOREM FreshOnPrefix == ASSUME DocOnly PROVE Spec => []FreshIsVisiblePrefix
<1>1. Init => Types /\ JobInv /\ PrefixInv
  BY TypesInit, PrefixInit
<1>2. Types /\ JobInv /\ PrefixInv /\ [Next]_vars => (Types /\ JobInv /\ PrefixInv)'
  BY TypesStep, PrefixStep
<1>3. Types /\ JobInv /\ PrefixInv => FreshIsVisiblePrefix
  BY PrefixIsFresh
<1> QED BY <1>1, <1>2, <1>3, PTL DEF Spec
================================================================================
