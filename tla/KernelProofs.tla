----------------------------- MODULE KernelProofs -----------------------------
(***************************************************************************)
(* Theorems about Kernel in REPL mode, for every value of its constants:   *)
(* any cells, with or without an init cell and a session cache, any number *)
(* of deaths, interrupts and timeouts at any point, also of a recovery.    *)
(***************************************************************************)
EXTENDS KernelInv, SequenceTheorems, TLAPS

----------------------------------------------------------------------------
(* The mode *)

\* Without documents the kernel stays in REPL mode.
LEMMA ModeStep ==
  ASSUME ReplOnly, ModeInv, [Next]_vars
  PROVE  ModeInv'
<1> USE DEF ReplOnly, ModeInv, Working, NoJob, bootVars, docVars, clientVars,
            workerVars, cacheVars, pastVars, counters
<1>1. ASSUME NEW j \in Jobs, BeginJob(j) PROVE ModeInv'
  <2>1. j.kind # "cell"
    BY DEF Jobs, InDoc
  <2>2. j.kind \in {"console", "query", "is_complete"} /\ (j.kind = "console" => j.code \in Codes)
    BY <2>1 DEF Jobs, Job
  <2> QED BY <1>1, <2>2 DEF BeginJob
<1>2. ASSUME Input PROVE ModeInv'
  BY <1>1, <1>2 DEF Input, CommOpen, CommClose, CommMessage, Shutdown
<1>3. ASSUME Ensure PROVE ModeInv'
  BY <1>3 DEF Ensure, EnsureRunning, EnsureFirst, RestartDoc, RestartRepl, StartFails,
    InitAbsent, InitOk, InitFails, Continue, Idle
<1>4. ASSUME Recover PROVE ModeInv'
  BY <1>4 DEF Recover, RestoreMisses, Restore, RestoreRefused, RestoreFails,
    RestoreInterrupted, ReplayBegins, ReplayRestarts, RestartFails, ReplayCell,
    ReplayDiverges, ReplayEnds, Continue, Idle, Unwind, RaiseDied
<1>5. ASSUME Serve PROVE ModeInv'
  BY <1>5 DEF Serve, RefuseInitError, Dispatch, RerunUpstream, UpstreamFails,
    PrefixDone, RunCell, CellFails, RunRepl, ReplFails, SaveAnswered, SaveSkipped,
    AnswerQuery, Continue, Idle, ReplyOk
<1>6. ASSUME Raise PROVE ModeInv'
  BY <1>6 DEF Raise, RequestDies, RequestInterrupted, RequestTimesOut, ReplyInvalid,
    Idle, Unwind, RaiseDied
<1>7. ASSUME InterruptedOutside PROVE ModeInv'
  BY <1>7 DEF InterruptedOutside, Idle, Unwind
<1>8. ASSUME WorkerDies \/ LateEnds \/ Stopped \/ UNCHANGED vars PROVE ModeInv'
  BY <1>8 DEF WorkerDies, LateEnds, Stopped, vars
<1> QED BY <1>2, <1>3, <1>4, <1>5, <1>6, <1>7, <1>8 DEF Next, Thread

----------------------------------------------------------------------------
(* Requests to the worker *)

\* The request the thread has sent, when there is no document.
LEMMA RequestedRepl ==
  ASSUME ReplInv, Asking, pc # "query"
  PROVE  /\ Requested.parent = snapshot
         /\ Requested.code \in Codes
         /\ Requested \in [parent : Nat, code : Codes]
         /\ pc = "replay" => Requested.code = Head(todo)
         /\ pc = "repl" => Requested.code = job.code
<1>1. CASE pc = "init"
  <2>1. (CHOOSE c \in InitCell : TRUE) \in Codes
    BY <1>1, KernelAssumption DEF Asking
  <2>2. Requested = [parent |-> snapshot, code |-> CHOOSE c \in InitCell : TRUE]
    BY <1>1 DEF Requested
  <2> QED BY <1>1, <2>1, <2>2 DEF ReplInv, ClientInv
<1>2. CASE pc = "replay"
  <2>1. Head(todo) \in Codes
    BY <1>2, HeadTailProperties DEF Asking, ReplInv, ClientInv, State
  <2>2. Requested = [parent |-> snapshot, code |-> Head(todo)]
    BY <1>2 DEF Requested
  <2> QED BY <1>2, <2>1, <2>2 DEF ReplInv, ClientInv
<1>3. CASE pc = "repl"
  <2>1. Requested = [parent |-> snapshot, code |-> job.code]
    BY <1>3 DEF Requested
  <2> QED BY <1>3, <2>1 DEF ReplInv, ClientInv, ModeInv
<1> QED BY <1>1, <1>2, <1>3 DEF Asking, ReplInv, ModeInv, Working

\* A cell that is answered ok: the client's snapshot is its parent's state and the cell.
LEMMA ElaboratedRepl ==
  ASSUME ReplInv, Asking, pc # "query", Elaborated
  PROVE  /\ snaps' \in Seq(State) /\ snapshot' \in Nat /\ current' = snapshot'
         /\ alive /\ alive' /\ owned' /\ late = <<>> /\ late' = <<>>
         /\ Known(snapshot)'
         /\ StateAt(snapshot)' = Append(StateAt(snapshot), Requested.code)
<1>1. Requested.parent = snapshot /\ Requested.code \in Codes
  BY RequestedRepl
<1>2. StateAt(snapshot) \in State
  BY <1>1, ElementOfSeq DEF Elaborated, Known, StateAt, ReplInv, ClientInv
<1>3. Append(StateAt(snapshot), Requested.code) \in State
  BY <1>1, <1>2 DEF State
<1>4. /\ snaps' \in Seq(State) /\ Len(snaps') = Len(snaps) + 1 /\ Len(snaps) \in Nat
      /\ snaps'[Len(snaps) + 1] = Append(StateAt(snapshot), Requested.code)
  BY <1>1, <1>3, AppendProperties DEF Elaborated, ReplInv, ClientInv
<1> QED BY <1>4 DEF Elaborated, Serving, Known, StateAt

\* A worker that has just started, and one that is gone.
LEMMA StartedRepl ==
  ASSUME Started
  PROVE  /\ snaps' \in Seq(State) /\ snapshot' \in Nat /\ current' \in Nat
         /\ alive' /\ owned' /\ late' = <<>>
         /\ Known(snapshot)' /\ StateAt(snapshot)' = <<>>
<1>1. <<>> \in State
  BY DEF State
<1>2. << <<>> >> \in Seq(State)
  BY <1>1
<1> QED BY <1>2 DEF Started, Known, StateAt

LEMMA KilledRepl ==
  ASSUME Kill
  PROVE  /\ snaps' \in Seq(State) /\ current' \in Nat
         /\ alive' = FALSE /\ late' = <<>>
  BY DEF Kill

----------------------------------------------------------------------------
(* Subsequences *)

\* A subsequence and its sequence may grow by the same element...
LEMMA SubsequenceAppend ==
  ASSUME NEW s \in State, NEW t \in State, NEW c \in Codes, IsSubsequence(s, t)
  PROVE  IsSubsequence(Append(s, c), Append(t, c))
<1>1. PICK f \in [1 .. Len(s) -> 1 .. Len(t)] :
        /\ \A m, n \in 1 .. Len(s) : m < n => f[m] < f[n]
        /\ \A n \in 1 .. Len(s) : s[n] = t[f[n]]
  BY DEF IsSubsequence
<1> DEFINE u == Append(s, c)  v == Append(t, c)
           g == [n \in 1 .. Len(u) |-> IF n = Len(s) + 1 THEN Len(t) + 1 ELSE f[n]]
<1>2. /\ Len(u) = Len(s) + 1 /\ Len(s) \in Nat
      /\ Len(v) = Len(t) + 1 /\ Len(t) \in Nat
      /\ \A n \in 1 .. Len(s) : u[n] = s[n]
      /\ \A n \in 1 .. Len(t) : v[n] = t[n]
      /\ u[Len(s) + 1] = c /\ v[Len(t) + 1] = c
  BY AppendProperties DEF State
<1> HIDE DEF u, v
<1>3. g \in [1 .. Len(u) -> 1 .. Len(v)]
  BY <1>1, <1>2
<1>4. ASSUME NEW m \in 1 .. Len(u), NEW n \in 1 .. Len(u), m < n
      PROVE  g[m] < g[n]
  <2>1. m \in 1 .. Len(s) /\ g[m] = f[m] /\ f[m] \in 1 .. Len(t)
    BY <1>1, <1>2, <1>4
  <2>2. CASE n = Len(s) + 1
    BY <1>2, <2>1, <2>2
  <2>3. CASE n \in 1 .. Len(s)
    BY <1>1, <1>2, <1>4, <2>1, <2>3
  <2> QED BY <1>2, <2>2, <2>3
<1>5. ASSUME NEW n \in 1 .. Len(u)
      PROVE  u[n] = v[g[n]]
  <2>1. CASE n = Len(s) + 1
    <3>1. g[n] = Len(t) + 1
      BY <2>1
    <3> QED BY <1>2, <2>1, <3>1
  <2>2. CASE n \in 1 .. Len(s)
    <3>1. g[n] = f[n] /\ f[n] \in 1 .. Len(t) /\ s[n] = t[f[n]]
      BY <1>1, <1>2, <2>2
    <3> QED BY <1>2, <2>2, <3>1
  <2> QED BY <1>2, <2>1, <2>2
<1>6. IsSubsequence(u, v)
  BY <1>3, <1>4, <1>5 DEF IsSubsequence
<1> QED BY <1>6 DEF u, v

\* ... the sequence may grow alone ...
LEMMA SubsequenceMore ==
  ASSUME NEW s \in State, NEW t \in State, NEW c \in Codes, IsSubsequence(s, t)
  PROVE  IsSubsequence(s, Append(t, c))
<1>1. PICK f \in [1 .. Len(s) -> 1 .. Len(t)] :
        /\ \A m, n \in 1 .. Len(s) : m < n => f[m] < f[n]
        /\ \A n \in 1 .. Len(s) : s[n] = t[f[n]]
  BY DEF IsSubsequence
<1> DEFINE v == Append(t, c)
<1>2. /\ Len(v) = Len(t) + 1 /\ Len(t) \in Nat
      /\ \A n \in 1 .. Len(t) : v[n] = t[n]
  BY AppendProperties DEF State
<1> HIDE DEF v
<1>3. f \in [1 .. Len(s) -> 1 .. Len(v)] /\ \A n \in 1 .. Len(s) : s[n] = v[f[n]]
  BY <1>1, <1>2
<1>4. IsSubsequence(s, v)
  BY <1>1, <1>3 DEF IsSubsequence
<1> QED BY <1>4 DEF v

\* ... and the subsequence may lose its last element.
LEMMA SubsequencePrefix ==
  ASSUME NEW s \in State, NEW t \in State, NEW c \in Codes, IsSubsequence(Append(s, c), t)
  PROVE  IsSubsequence(s, t)
<1> DEFINE u == Append(s, c)
<1>1. PICK f \in [1 .. Len(u) -> 1 .. Len(t)] :
        /\ \A m, n \in 1 .. Len(u) : m < n => f[m] < f[n]
        /\ \A n \in 1 .. Len(u) : u[n] = t[f[n]]
  BY DEF IsSubsequence
<1>2. Len(u) = Len(s) + 1 /\ Len(s) \in Nat /\ \A n \in 1 .. Len(s) : u[n] = s[n]
  BY AppendProperties DEF State
<1> HIDE DEF u
<1> DEFINE g == [n \in 1 .. Len(s) |-> f[n]]
<1>3. g \in [1 .. Len(s) -> 1 .. Len(t)]
  BY <1>1, <1>2
<1>4. /\ \A m, n \in 1 .. Len(s) : m < n => g[m] < g[n]
      /\ \A n \in 1 .. Len(s) : s[n] = t[g[n]]
  BY <1>1, <1>2
<1> QED BY <1>3, <1>4 DEF IsSubsequence

\* Nothing is a subsequence of nothing.
LEMMA EmptySubsequence == IsSubsequence(<<>>, <<>>)
<1> DEFINE f == [n \in 1 .. 0 |-> n]
<1>1. f \in [1 .. Len(<<>>) -> 1 .. Len(<<>>)]
  OBVIOUS
<1>2. 1 .. Len(<<>>) = {}
  OBVIOUS
<1> QED BY <1>1, <1>2 DEF IsSubsequence

\* A sequence is a subsequence of itself ...
LEMMA SubsequenceSelf ==
  ASSUME NEW s \in State
  PROVE  IsSubsequence(s, s)
<1> DEFINE f == [n \in 1 .. Len(s) |-> n]
<1>1. f \in [1 .. Len(s) -> 1 .. Len(s)]
  OBVIOUS
<1>2. /\ \A m, n \in 1 .. Len(s) : m < n => f[m] < f[n]
      /\ \A n \in 1 .. Len(s) : s[n] = s[f[n]]
  OBVIOUS
<1> QED BY <1>1, <1>2 DEF IsSubsequence

\* ... and of each sequence that it begins.
LEMMA SubsequenceBegins ==
  ASSUME NEW s \in State, NEW t \in State
  PROVE  IsSubsequence(s, s \o t)
<1> DEFINE f == [n \in 1 .. Len(s) |-> n]  v == s \o t
<1>1. Len(s) \in Nat /\ Len(v) >= Len(s) /\ Len(v) \in Nat /\ \A n \in 1 .. Len(s) : v[n] = s[n]
  BY DEF State
<1> HIDE DEF v
<1>2. f \in [1 .. Len(s) -> 1 .. Len(v)]
  BY <1>1
<1>3. /\ \A m, n \in 1 .. Len(s) : m < n => f[m] < f[n]
      /\ \A n \in 1 .. Len(s) : s[n] = v[f[n]]
  BY <1>1
<1>4. IsSubsequence(s, v)
  BY <1>2, <1>3 DEF IsSubsequence
<1> QED BY <1>4 DEF v

----------------------------------------------------------------------------
(* The ledger and the worker's state *)

\* The variables of client and worker keep their types.
LEMMA ClientStep ==
  ASSUME ReplOnly, ReplInv, [Next]_vars
  PROVE  ClientInv'
<1> USE DEF ClientInv, bootVars, docVars, clientVars, workerVars, cacheVars, pastVars,
            counters
<1>1. ASSUME CommOpen PROVE ClientInv'
  BY <1>1 DEF CommOpen, ReplOnly, ReplInv, ModeInv, Working
<1>2. ASSUME CommClose PROVE ClientInv'
  BY <1>2 DEF CommClose, ReplOnly, ReplInv, ModeInv, Working
<1>3. ASSUME NEW d \in Docs, CommMessage(d) PROVE ClientInv'
  BY <1>3 DEF CommMessage, ReplOnly, ReplInv, ModeInv, Working
<1>4. ASSUME NEW j \in Jobs, BeginJob(j) PROVE ClientInv'
  BY <1>4 DEF ReplInv, BeginJob
<1>5. ASSUME Shutdown PROVE ClientInv'
  <2>1. Kill \/ UNCHANGED workerVars
    BY <1>5, Zenon DEF ReplInv, Shutdown
  <2>2. CASE Kill
    BY <1>5, <2>2, KilledRepl DEF Shutdown, ReplInv
  <2>3. CASE UNCHANGED workerVars
    BY <1>5, <2>3 DEF Shutdown, ReplInv
  <2> QED BY <2>1, <2>2, <2>3
<1>6. ASSUME EnsureRunning PROVE ClientInv'
  BY <1>6 DEF ReplInv, EnsureRunning, Continue
<1>7. ASSUME EnsureFirst PROVE ClientInv'
  BY <1>7, StartedRepl DEF ReplInv, EnsureFirst, Continue
<1>8. ASSUME RestartDoc PROVE ClientInv'
  BY <1>8 DEF RestartDoc, ReplOnly, ReplInv, ModeInv, Working
<1>9. ASSUME RestartRepl PROVE ClientInv'
  BY <1>9, StartedRepl DEF ReplInv, RestartRepl, Continue
<1>10. ASSUME StartFails PROVE ClientInv'
  BY <1>10, KilledRepl DEF ReplInv, StartFails, Idle, State
<1>11. ASSUME InitAbsent PROVE ClientInv'
  BY <1>11 DEF ReplInv, InitAbsent, Continue
<1>12. ASSUME InitOk PROVE ClientInv'
  <2>1. Asking /\ pc # "query" /\ Elaborated
    BY <1>12 DEF ReplInv, InitOk, Asking
  <2>2. Requested.code \in Codes
    BY <2>1, RequestedRepl
  <2>3. Append(ledger, Requested.code) \in State
    BY <2>2 DEF ReplInv, ClientInv, State
  <2> QED BY <1>12, <2>1, ElaboratedRepl, <2>3 DEF InitOk, Continue, ReplInv
<1>13. ASSUME InitFails PROVE ClientInv'
  BY <1>13 DEF ReplInv, InitFails, Continue, Rejected
<1>14. ASSUME RestoreMisses PROVE ClientInv'
  BY <1>14 DEF ReplInv, RestoreMisses, Continue
<1>15. ASSUME Restore PROVE ClientInv'
  <2>1. PICK s \in saved : snaps' = Append(snaps, s)
    BY <1>15 DEF ReplInv, Restore
  <2>2. s \in State
    BY DEF ReplInv, CacheInv
  <2>3. snaps' \in Seq(State) /\ Len(snaps) \in Nat
    BY <2>1, <2>2 DEF ReplInv, ClientInv
  <2> QED BY <1>15, <2>3 DEF Restore, Continue, Serving, ReplInv
<1>16. ASSUME RestoreRefused PROVE ClientInv'
  BY <1>16 DEF ReplInv, RestoreRefused, Continue
<1>17. ASSUME RestoreFails PROVE ClientInv'
  BY <1>17, KilledRepl DEF ReplInv, RestoreFails
<1>18. ASSUME RestoreInterrupted PROVE ClientInv'
  BY <1>18, KilledRepl DEF ReplInv, RestoreInterrupted
<1>19. ASSUME ReplayBegins PROVE ClientInv'
  BY <1>19 DEF ReplInv, ReplayBegins, Continue, SetAside, State
<1>20. ASSUME ReplayRestarts PROVE ClientInv'
  BY <1>20, StartedRepl DEF ReplInv, ReplayRestarts, Continue, SetAside, State
<1>21. ASSUME RestartFails PROVE ClientInv'
  BY <1>21 DEF ReplInv, RestartFails, Idle, State
<1>22. ASSUME ReplayCell PROVE ClientInv'
  <2>1. Asking /\ pc # "query" /\ Elaborated
    BY <1>22 DEF ReplInv, ReplayCell, Asking
  <2>2. Requested.code \in Codes
    BY <2>1, RequestedRepl
  <2>3. Append(ledger, Head(todo)) \in State /\ Tail(todo) \in State
    BY <2>1, <2>2, RequestedRepl, <1>22, HeadTailProperties DEF ReplayCell, ReplInv, ClientInv, State
  <2> QED BY <1>22, <2>1, ElaboratedRepl, <2>3 DEF ReplayCell, Continue, ReplInv
<1>23. ASSUME ReplayDiverges PROVE ClientInv'
  <2>1. Kill \/ UNCHANGED workerVars
    BY <1>23, Zenon DEF ReplInv, ReplayDiverges, RaiseDied
  <2>2. CASE Kill
    BY <1>23, <2>2, KilledRepl DEF ReplayDiverges, RaiseDied, Idle, Unwind, State, ReplInv
  <2>3. CASE UNCHANGED workerVars
    BY <1>23, <2>3 DEF ReplayDiverges, RaiseDied, Idle, Unwind, State, ReplInv
  <2> QED BY <2>1, <2>2, <2>3
<1>24. ASSUME ReplayEnds PROVE ClientInv'
  BY <1>24 DEF ReplInv, ReplayEnds, Continue, State
<1>25. ASSUME RefuseInitError PROVE ClientInv'
  BY <1>25 DEF ReplInv, RefuseInitError, Idle, State
<1>26. ASSUME Dispatch PROVE ClientInv'
  BY <1>26 DEF ReplInv, Dispatch, Continue
<1>27. ASSUME RerunUpstream PROVE ClientInv'
  BY <1>27 DEF RerunUpstream, ReplOnly, ReplInv, ModeInv, Working
<1>28. ASSUME UpstreamFails PROVE ClientInv'
  BY <1>28 DEF UpstreamFails, ReplOnly, ReplInv, ModeInv, Working
<1>29. ASSUME PrefixDone PROVE ClientInv'
  BY <1>29 DEF PrefixDone, ReplOnly, ReplInv, ModeInv, Working
<1>30. ASSUME RunCell PROVE ClientInv'
  BY <1>30 DEF RunCell, ReplOnly, ReplInv, ModeInv, Working
<1>31. ASSUME CellFails PROVE ClientInv'
  BY <1>31 DEF CellFails, ReplOnly, ReplInv, ModeInv, Working
<1>32. ASSUME RunRepl PROVE ClientInv'
  <2>1. Asking /\ pc # "query" /\ Elaborated
    BY <1>32 DEF ReplInv, RunRepl, Asking
  <2>2. Requested.code \in Codes
    BY <2>1, RequestedRepl
  <2>3. Append(ledger, job.code) \in State
    BY <2>1, <2>2, RequestedRepl, <1>32 DEF RunRepl, ReplInv, ClientInv, State
  <2> QED BY <1>32, <2>1, ElaboratedRepl, <2>3 DEF RunRepl, Continue, ReplInv
<1>33. ASSUME ReplFails PROVE ClientInv'
  BY <1>33 DEF ReplInv, ReplFails, Idle, Rejected, State
<1>34. ASSUME SaveAnswered PROVE ClientInv'
  BY <1>34 DEF ReplInv, SaveAnswered, Idle, ReplyOk, State
<1>35. ASSUME SaveSkipped PROVE ClientInv'
  <2>1. Kill \/ UNCHANGED workerVars
    BY <1>35, Zenon DEF ReplInv, SaveSkipped
  <2>2. CASE Kill
    BY <1>35, <2>2, KilledRepl DEF SaveSkipped, Idle, ReplyOk, State, ReplInv
  <2>3. CASE UNCHANGED workerVars
    BY <1>35, <2>3 DEF SaveSkipped, Idle, ReplyOk, State, ReplInv
  <2> QED BY <2>1, <2>2, <2>3
<1>36. ASSUME AnswerQuery PROVE ClientInv'
  BY <1>36 DEF ReplInv, AnswerQuery, Idle, State
<1>37. ASSUME RequestDies PROVE ClientInv'
  <2>1. Kill \/ UNCHANGED workerVars
    BY <1>37, Zenon DEF ReplInv, RequestDies, RaiseDied
  <2>2. CASE Kill
    BY <1>37, <2>2, KilledRepl DEF RequestDies, RaiseDied, Idle, Unwind, State, ReplInv
  <2>3. CASE UNCHANGED workerVars
    BY <1>37, <2>3 DEF RequestDies, RaiseDied, Idle, Unwind, State, ReplInv
  <2> QED BY <2>1, <2>2, <2>3
<1>38. ASSUME RequestInterrupted PROVE ClientInv'
  BY <1>38, KilledRepl DEF ReplInv, RequestInterrupted, Idle, Unwind, State
<1>39. ASSUME RequestTimesOut PROVE ClientInv'
  <2>1. \/ Kill
        \/ /\ UNCHANGED <<owned, alive, snaps, current>>
           /\ late' = late \/ (pc # "query" /\ late' = Append(late, Requested))
    BY <1>39 DEF ReplInv, RequestTimesOut
  <2>2. CASE Kill
    BY <1>39, <2>2, KilledRepl DEF RequestTimesOut, Idle, Unwind, ReplInv, State
  <2>3. CASE UNCHANGED <<owned, alive, snaps, current>> /\ late' = late
    BY <1>39, <2>3 DEF RequestTimesOut, Idle, Unwind, ReplInv, State
  <2>4. CASE UNCHANGED <<owned, alive, snaps, current>> /\ pc # "query" /\ late' = Append(late, Requested)
    <3>1. Requested \in [parent : Nat, code : Codes]
      BY <1>39, <2>4, RequestedRepl DEF RequestTimesOut
    <3>2. late' \in Seq([parent : Nat, code : Codes])
      BY <2>4, <3>1 DEF ReplInv
    <3> QED BY <1>39, <2>4, <3>2 DEF RequestTimesOut, Idle, Unwind, ReplInv, State
  <2> QED BY <2>1, <2>2, <2>3, <2>4
<1>40. ASSUME ReplyInvalid PROVE ClientInv'
  BY <1>40 DEF ReplInv, ReplyInvalid, Idle, Unwind, State
<1>41. ASSUME InterruptedOutside PROVE ClientInv'
  BY <1>41, KilledRepl DEF ReplInv, InterruptedOutside, Idle, Unwind, State
<1>42. ASSUME WorkerDies PROVE ClientInv'
  BY <1>42 DEF ReplInv, WorkerDies
<1>43. ASSUME LateEnds PROVE ClientInv'
  <2>1. Tail(late) \in Seq([parent : Nat, code : Codes]) /\ Head(late) \in [parent : Nat, code : Codes]
    BY <1>43, HeadTailProperties DEF LateEnds, ReplInv, ClientInv
  <2>2. ASSUME Known(Head(late).parent),
               snaps' = Append(snaps, Append(StateAt(Head(late).parent), Head(late).code))
        PROVE  snaps' \in Seq(State) /\ Len(snaps) \in Nat
    <3>1. StateAt(Head(late).parent) \in State
      BY <2>1, <2>2, ElementOfSeq DEF Known, StateAt, ReplInv, ClientInv
    <3>2. Append(StateAt(Head(late).parent), Head(late).code) \in State
      BY <2>1, <3>1 DEF State
    <3> QED BY <2>2, <3>2 DEF ReplInv, ClientInv
  <2> QED BY <1>43, <2>1, <2>2 DEF LateEnds, ReplInv
<1>44. ASSUME Stopped PROVE ClientInv'
  BY <1>44 DEF ReplInv, Stopped, vars
<1>45. CASE UNCHANGED vars
  BY <1>45 DEF ReplInv, vars
<1> QED
  BY <1>1, <1>2, <1>3, <1>4, <1>5, <1>6, <1>7, <1>8, <1>9, <1>10, <1>11, <1>12, <1>13,
    <1>14, <1>15, <1>16, <1>17, <1>18, <1>19, <1>20, <1>21, <1>22, <1>23, <1>24, <1>25,
    <1>26, <1>27, <1>28, <1>29, <1>30, <1>31, <1>32, <1>33, <1>34, <1>35, <1>36, <1>37,
    <1>38, <1>39, <1>40, <1>41, <1>42, <1>43, <1>44, <1>45
  DEF Next, Input, Thread, Ensure, Recover, Serve, Raise

\* One cell replayed is one cell less to replay.
LEMMA HeadMoves ==
  ASSUME NEW s \in State, NEW t \in State, t # <<>>
  PROVE  s \o t = Append(s, Head(t)) \o Tail(t)
<1>1. /\ Head(t) \in Codes /\ Tail(t) \in State /\ Append(s, Head(t)) \in State
  BY HeadTailProperties DEF State
<1> DEFINE u == Append(s, Head(t)) \o Tail(t)
<1>2. /\ s \o t \in State /\ u \in State
  BY <1>1 DEF State
<1>3. Len(s \o t) = Len(u)
  BY <1>1 DEF State
<1>4. \A n \in 1 .. Len(s \o t) : (s \o t)[n] = u[n]
  BY <1>1 DEF State
<1> HIDE DEF u
<1>5. s \o t = u
  BY <1>2, <1>3, <1>4, SeqEqual DEF State
<1> QED BY <1>5 DEF u

\* What a replay that is given up leaves in the worker is part of the ledger.
LEMMA StumpFollows ==
  ASSUME ReplInv, pc = "replay", alive
  PROVE  Known(snapshot) /\ IsSubsequence(StateAt(snapshot), kept)
<1>1. StateAt(snapshot) = ledger /\ Known(snapshot) /\ kept = ledger \o todo
  BY DEF ReplInv, LedgerInv, Stands
<1>2. IsSubsequence(ledger, ledger \o todo)
  BY SubsequenceBegins DEF ReplInv, ClientInv
<1> QED BY <1>1, <1>2

\* Each step leaves the snapshot standing for what LedgerInv says.
LEMMA LedgerStep ==
  ASSUME ReplOnly, ReplInv, [Next]_vars
  PROVE  LedgerInv'
<1> USE DEF LedgerInv, ModeInv, Working, Stands, Follows, Renders, NoJob, bootVars, docVars, clientVars,
            workerVars, cacheVars, pastVars, counters
<1>1. ASSUME CommOpen PROVE LedgerInv'
  BY <1>1 DEF CommOpen, ReplOnly, ReplInv, ModeInv, Working
<1>2. ASSUME CommClose PROVE LedgerInv'
  BY <1>2 DEF CommClose, ReplOnly, ReplInv, ModeInv, Working
<1>3. ASSUME NEW d \in Docs, CommMessage(d) PROVE LedgerInv'
  BY <1>3 DEF CommMessage, ReplOnly, ReplInv, ModeInv, Working
<1>4. ASSUME NEW j \in Jobs, BeginJob(j) PROVE LedgerInv'
  BY <1>4 DEF ReplInv, BeginJob, Known, StateAt
<1>5. ASSUME Shutdown PROVE LedgerInv'
  <2>1. Kill \/ UNCHANGED workerVars
    BY <1>5, Zenon DEF ReplInv, Shutdown
  <2>2. CASE Kill
    BY <1>5, <2>2, KilledRepl DEF Shutdown, ReplInv
  <2>3. CASE UNCHANGED workerVars
    BY <1>5, <2>3 DEF Shutdown, ReplInv
  <2> QED BY <2>1, <2>2, <2>3
<1>6. ASSUME EnsureRunning PROVE LedgerInv'
  BY <1>6 DEF ReplInv, EnsureRunning, Continue, Known, StateAt
<1>7. ASSUME EnsureFirst PROVE LedgerInv'
  BY <1>7, StartedRepl DEF ReplInv, EnsureFirst, Continue
<1>8. ASSUME RestartDoc PROVE LedgerInv'
  BY <1>8 DEF RestartDoc, ReplOnly, ReplInv, ModeInv, Working
<1>9. ASSUME RestartRepl PROVE LedgerInv'
  BY <1>9, StartedRepl DEF ReplInv, RestartRepl, Continue
<1>10. ASSUME StartFails PROVE LedgerInv'
  BY <1>10, KilledRepl DEF ReplInv, StartFails, Idle
<1>11. ASSUME InitAbsent PROVE LedgerInv'
  BY <1>11, EmptySubsequence DEF ReplInv, InitAbsent, Continue, Known, StateAt
<1>12. ASSUME InitOk PROVE LedgerInv'
  <2>1. Asking /\ pc # "query" /\ Elaborated
    BY <1>12 DEF ReplInv, InitOk, Asking
  <2>2. /\ alive /\ alive' /\ late' = <<>> /\ Known(snapshot)' /\ current' = snapshot'
        /\ StateAt(snapshot)' = Append(StateAt(snapshot), Requested.code)
    BY <2>1, ElaboratedRepl
  <2>3. ledger = StateAt(snapshot) /\ StateAt(snapshot)' = ledger'
    BY <1>12, <2>1, <2>2 DEF InitOk, ReplInv
  <2>4. IsSubsequence(ledger', ledger')
    <3>1. ledger' = Append(ledger, Requested.code) /\ Requested.code \in Codes
      BY <1>12, <2>1, RequestedRepl DEF InitOk
    <3>2. ledger' \in State
      BY <3>1 DEF ReplInv, ClientInv, State
    <3> QED BY <3>2, SubsequenceSelf
  <2> QED BY <1>12, <2>2, <2>3, <2>4 DEF InitOk, Continue, ReplInv
<1>13. ASSUME InitFails PROVE LedgerInv'
  BY <1>13, EmptySubsequence DEF ReplInv, InitFails, Continue, Rejected, Known, StateAt
<1>14. ASSUME RestoreMisses PROVE LedgerInv'
  BY <1>14 DEF ReplInv, RestoreMisses, Continue, Known, StateAt
<1>15. ASSUME Restore PROVE LedgerInv'
  <2>1. PICK s \in saved : snaps' = Append(snaps, s)
    BY <1>15 DEF ReplInv, Restore
  <2>2. Renders(s, ledger) /\ s \in State
    BY <1>15 DEF Restore, KeyMatches, ReplInv, CacheInv
  <2>3. /\ Len(snaps') = Len(snaps) + 1 /\ Len(snaps) \in Nat
        /\ snaps'[Len(snaps) + 1] = s
    BY <2>1, <2>2, AppendProperties DEF ReplInv, ClientInv
  <2>4. Known(snapshot)' /\ StateAt(snapshot)' = s /\ UNCHANGED <<ledger, cut>>
    BY <1>15, <2>3 DEF Restore, Continue, Known, StateAt
  <2>5. Follows(ledger)'
    BY <2>2, <2>4
  <2> QED BY <1>15, <2>5 DEF Restore, Continue, ReplInv
<1>16. ASSUME RestoreRefused PROVE LedgerInv'
  BY <1>16 DEF ReplInv, RestoreRefused, Continue, Known, StateAt
<1>17. ASSUME RestoreFails PROVE LedgerInv'
  BY <1>17, KilledRepl DEF ReplInv, RestoreFails
<1>18. ASSUME RestoreInterrupted PROVE LedgerInv'
  BY <1>18, KilledRepl DEF ReplInv, RestoreInterrupted
<1>19. ASSUME ReplayBegins PROVE LedgerInv'
  BY <1>19 DEF ReplInv, ReplayBegins, Continue, SetAside, Known, StateAt
<1>20. ASSUME ReplayRestarts PROVE LedgerInv'
  BY <1>20, StartedRepl DEF ReplInv, ReplayRestarts, Continue, SetAside
<1>21. ASSUME RestartFails PROVE LedgerInv'
  BY <1>21 DEF ReplInv, RestartFails, Idle, Known, StateAt
<1>22. ASSUME ReplayCell PROVE LedgerInv'
  <2>1. Asking /\ pc # "query" /\ Elaborated
    BY <1>22 DEF ReplInv, ReplayCell, Asking
  <2>2. /\ alive /\ alive' /\ late' = <<>> /\ Known(snapshot)' /\ current' = snapshot'
        /\ StateAt(snapshot)' = Append(StateAt(snapshot), Requested.code)
    BY <2>1, ElaboratedRepl
  <2>3. ledger = StateAt(snapshot)
    BY <1>22, <2>2 DEF ReplayCell, ReplInv
  <2>4. ledger \o todo = Append(ledger, Head(todo)) \o Tail(todo)
    BY <1>22, HeadMoves DEF ReplayCell, ReplInv, ClientInv
  <2> QED BY <1>22, <2>1, <2>2, <2>3, <2>4, RequestedRepl DEF ReplayCell, Continue, ReplInv
<1>23. ASSUME ReplayDiverges PROVE LedgerInv'
  <2>1. CASE Executing
    <3>1. Kill
      BY <1>23, <2>1 DEF ReplayDiverges, RaiseDied
    <3> QED BY <1>23, <3>1, KilledRepl DEF ReplayDiverges, RaiseDied, Idle, Unwind, ReplInv
  <2>2. CASE ~Executing
    <3>1. UNCHANGED <<alive, snaps, snapshot>> /\ cut' = TRUE
      BY <1>23, <2>2 DEF ReplayDiverges, RaiseDied, ReplInv
    <3>2. ledger' = kept /\ pc' = "idle" /\ started' = started
      BY <1>23 DEF ReplayDiverges, RaiseDied, Idle, Unwind
    <3>3. Follows(ledger)'
      BY <1>23, <3>1, <3>2, StumpFollows DEF ReplayDiverges, ReplInv, Known, StateAt
    <3> QED BY <1>23, <3>2, <3>3 DEF ReplayDiverges, ReplInv
  <2> QED BY <2>1, <2>2
<1>24. ASSUME ReplayEnds PROVE LedgerInv'
  BY <1>24, SubsequenceSelf DEF ReplInv, ClientInv, ReplayEnds, Continue, Known, StateAt
<1>25. ASSUME RefuseInitError PROVE LedgerInv'
  BY <1>25 DEF ReplInv, RefuseInitError, Idle, Known, StateAt
<1>26. ASSUME Dispatch PROVE LedgerInv'
  BY <1>26 DEF ReplInv, Dispatch, Continue, Known, StateAt
<1>27. ASSUME RerunUpstream PROVE LedgerInv'
  BY <1>27 DEF RerunUpstream, ReplOnly, ReplInv, ModeInv, Working
<1>28. ASSUME UpstreamFails PROVE LedgerInv'
  BY <1>28 DEF UpstreamFails, ReplOnly, ReplInv, ModeInv, Working
<1>29. ASSUME PrefixDone PROVE LedgerInv'
  BY <1>29 DEF PrefixDone, ReplOnly, ReplInv, ModeInv, Working
<1>30. ASSUME RunCell PROVE LedgerInv'
  BY <1>30 DEF RunCell, ReplOnly, ReplInv, ModeInv, Working
<1>31. ASSUME CellFails PROVE LedgerInv'
  BY <1>31 DEF CellFails, ReplOnly, ReplInv, ModeInv, Working
<1>32. ASSUME RunRepl PROVE LedgerInv'
  <2>1. Asking /\ pc # "query" /\ Elaborated
    BY <1>32 DEF ReplInv, RunRepl, Asking
  <2>2. /\ alive /\ alive' /\ late' = <<>> /\ Known(snapshot)' /\ current' = snapshot'
        /\ StateAt(snapshot)' = Append(StateAt(snapshot), Requested.code)
    BY <2>1, ElaboratedRepl
  <2>3. Renders(StateAt(snapshot), ledger) /\ StateAt(snapshot) \in State
    BY <1>32, <2>2, ElementOfSeq DEF RunRepl, ReplInv, ClientInv, Known, StateAt
  <2>4. Requested.code = job.code /\ job.code \in Codes
    BY <1>32, <2>1, RequestedRepl DEF RunRepl
  <2>5. IsSubsequence(Append(StateAt(snapshot), job.code), Append(ledger, job.code))
    BY <2>3, <2>4, SubsequenceAppend DEF ReplInv, ClientInv
  <2>6. ledger' = Append(ledger, job.code) /\ cut' = cut
    BY <1>32 DEF RunRepl, Continue
  <2>7. Follows(ledger)'
    BY <2>2, <2>3, <2>4, <2>5, <2>6
  <2> QED BY <1>32, <2>2, <2>7 DEF RunRepl, Continue, ReplInv
<1>33. ASSUME ReplFails PROVE LedgerInv'
  BY <1>33 DEF ReplInv, ReplFails, Idle, Rejected, Known, StateAt
<1>34. ASSUME SaveAnswered PROVE LedgerInv'
  BY <1>34 DEF ReplInv, SaveAnswered, Idle, ReplyOk, Known, StateAt
<1>35. ASSUME SaveSkipped PROVE LedgerInv'
  <2>1. Kill \/ UNCHANGED workerVars
    BY <1>35, Zenon DEF ReplInv, SaveSkipped
  <2>2. CASE Kill
    BY <1>35, <2>2, KilledRepl DEF SaveSkipped, Idle, ReplyOk, Known, StateAt, ReplInv
  <2>3. CASE UNCHANGED workerVars
    BY <1>35, <2>3 DEF SaveSkipped, Idle, ReplyOk, Known, StateAt, ReplInv
  <2> QED BY <2>1, <2>2, <2>3
<1>36. ASSUME AnswerQuery PROVE LedgerInv'
  BY <1>36 DEF ReplInv, AnswerQuery, Idle, Known, StateAt
<1>37. ASSUME RequestDies PROVE LedgerInv'
  <2>1. Kill \/ UNCHANGED workerVars
    BY <1>37, Zenon DEF ReplInv, RequestDies, RaiseDied
  <2>2. CASE Kill
    BY <1>37, <2>2, KilledRepl DEF RequestDies, RaiseDied, Asking, Idle, Unwind, Known, StateAt, ReplInv
  <2>3. CASE UNCHANGED workerVars
    BY <1>37, <2>3 DEF RequestDies, RaiseDied, Asking, Idle, Unwind, Known, StateAt, ReplInv
  <2> QED BY <2>1, <2>2, <2>3
<1>38. ASSUME RequestInterrupted PROVE LedgerInv'
  BY <1>38, KilledRepl DEF ReplInv, Asking, RequestInterrupted, Idle, Unwind
<1>39. ASSUME RequestTimesOut PROVE LedgerInv'
  <2>1. CASE ~started
    BY <1>39, <2>1, KilledRepl DEF RequestTimesOut, Idle, Unwind, Asking, ReplInv
  <2>2. CASE started
    <3>1. UNCHANGED <<alive, snaps, snapshot, started>> /\ pc' = "idle"
      BY <1>39, <2>2 DEF RequestTimesOut, Idle, Unwind
    <3>2. CASE pc = "replay"
      <4>1. ledger' = kept /\ cut' = TRUE
        BY <1>39, <3>2 DEF RequestTimesOut, Unwind
      <4>2. Follows(ledger)'
        BY <3>1, <3>2, <4>1, StumpFollows DEF ReplInv, Known, StateAt
      <4> QED BY <2>2, <3>1, <4>2
    <3>3. CASE pc # "replay"
      <4>1. ledger' = ledger /\ (cut => cut')
        BY <1>39, <3>3 DEF RequestTimesOut, Unwind
      <4>2. pc \in {"repl", "query"}
        BY <1>39, <2>2, <3>3 DEF RequestTimesOut, Asking, ReplInv
      <4> QED BY <2>2, <3>1, <4>1, <4>2 DEF ReplInv, Known, StateAt
    <3> QED BY <3>2, <3>3
  <2> QED BY <2>1, <2>2
<1>40. ASSUME ReplyInvalid PROVE LedgerInv'
  <2>1. Requested.parent = snapshot /\ alive
    BY <1>40, RequestedRepl DEF ReplInv, ReplyInvalid, Serving
  <2> QED BY <1>40, <2>1 DEF ReplyInvalid, Asking, ReplInv
<1>41. ASSUME InterruptedOutside PROVE LedgerInv'
  BY <1>41, KilledRepl DEF ReplInv, Executing, InterruptedOutside, Idle, Unwind
<1>42. ASSUME WorkerDies PROVE LedgerInv'
  BY <1>42 DEF ReplInv, WorkerDies, Known, StateAt
<1>43. ASSUME LateEnds PROVE LedgerInv'
  <2>1. CASE UNCHANGED <<snaps, current>>
    BY <1>43, <2>1 DEF LateEnds, Known, StateAt, ReplInv
  <2>2. CASE /\ Known(Head(late).parent)
             /\ snaps' = Append(snaps, Append(StateAt(Head(late).parent), Head(late).code))
    <3>1. Head(late) \in [parent : Nat, code : Codes]
      BY <1>43, HeadTailProperties DEF LateEnds, ReplInv, ClientInv
    <3>2. StateAt(Head(late).parent) \in State
      BY <2>2, <3>1, ElementOfSeq DEF Known, StateAt, ReplInv, ClientInv
    <3>3. Append(StateAt(Head(late).parent), Head(late).code) \in State
      BY <3>1, <3>2 DEF State
    <3>4. Len(snaps') > Len(snaps) /\ \A n \in 1 .. Len(snaps) : snaps'[n] = snaps[n]
      BY <2>2, <3>3, AppendProperties DEF ReplInv, ClientInv
    <3>5. Known(snapshot) => Known(snapshot)' /\ StateAt(snapshot)' = StateAt(snapshot)
      BY <1>43, <3>4 DEF LateEnds, Known, StateAt, ReplInv, ClientInv
    <3> QED BY <1>43, <3>5 DEF LateEnds, ReplInv
  <2> QED BY <1>43, <2>1, <2>2 DEF LateEnds
<1>44. ASSUME Stopped PROVE LedgerInv'
  BY <1>44 DEF ReplInv, Stopped, vars
<1>45. CASE UNCHANGED vars
  BY <1>45 DEF ReplInv, vars, Known, StateAt
<1> QED
  BY <1>1, <1>2, <1>3, <1>4, <1>5, <1>6, <1>7, <1>8, <1>9, <1>10, <1>11, <1>12, <1>13,
    <1>14, <1>15, <1>16, <1>17, <1>18, <1>19, <1>20, <1>21, <1>22, <1>23, <1>24, <1>25,
    <1>26, <1>27, <1>28, <1>29, <1>30, <1>31, <1>32, <1>33, <1>34, <1>35, <1>36, <1>37,
    <1>38, <1>39, <1>40, <1>41, <1>42, <1>43, <1>44, <1>45
  DEF Next, Input, Thread, Ensure, Recover, Serve, Raise

----------------------------------------------------------------------------
(* The session cache *)

\* A cut is never forgotten.
LEMMA CutStays ==
  ASSUME [Next]_vars, cut
  PROVE  cut'
<1> USE DEF pastVars
<1>1. ASSUME Input PROVE cut'
  BY <1>1 DEF Input, CommOpen, CommClose, CommMessage, BeginJob, Shutdown
<1>2. ASSUME Ensure PROVE cut'
  BY <1>2 DEF Ensure, EnsureRunning, EnsureFirst, RestartDoc, RestartRepl, StartFails,
    InitAbsent, InitOk, InitFails, Continue
<1>3. ASSUME Recover PROVE cut'
  BY <1>3 DEF Recover, RestoreMisses, Restore, RestoreRefused, RestoreFails,
    RestoreInterrupted, ReplayBegins, ReplayRestarts, RestartFails, ReplayCell,
    ReplayDiverges, ReplayEnds, Continue
<1>4. ASSUME Serve PROVE cut'
  BY <1>4 DEF Serve, RefuseInitError, Dispatch, RerunUpstream, UpstreamFails,
    PrefixDone, RunCell, CellFails, RunRepl, ReplFails, SaveAnswered, SaveSkipped,
    AnswerQuery, Continue, ReplyOk
<1>5. ASSUME Raise PROVE cut'
  BY <1>5 DEF Raise, RequestDies, RequestInterrupted, RequestTimesOut, ReplyInvalid
<1>6. ASSUME InterruptedOutside \/ WorkerDies \/ LateEnds \/ Stopped \/ UNCHANGED vars
      PROVE  cut'
  BY <1>6 DEF InterruptedOutside, WorkerDies, LateEnds, Stopped, vars
<1> QED BY <1>1, <1>2, <1>3, <1>4, <1>5, <1>6 DEF Next, Thread

\* What key.txt vouches for renders its ledger.
LEMMA CacheStep ==
  ASSUME ReplOnly, ReplInv, [Next]_vars
  PROVE  CacheInv'
<1> USE DEF ReplInv, CacheInv, bootVars, docVars, clientVars, workerVars, cacheVars,
            pastVars, counters
<1>1. ASSUME Input PROVE UNCHANGED cacheVars \/ (saved' = {} /\ key' = {})
  BY <1>1 DEF Input, CommOpen, CommClose, CommMessage, BeginJob, Shutdown
<1>2. ASSUME Ensure PROVE UNCHANGED cacheVars
  BY <1>2 DEF Ensure, EnsureRunning, EnsureFirst, RestartDoc, RestartRepl, StartFails,
    InitAbsent, InitOk, InitFails
<1>3. ASSUME Recover PROVE UNCHANGED cacheVars
  BY <1>3 DEF Recover, RestoreMisses, Restore, RestoreRefused, RestoreFails,
    RestoreInterrupted, ReplayBegins, ReplayRestarts, RestartFails, ReplayCell,
    ReplayDiverges, ReplayEnds
<1>4. ASSUME Serve PROVE UNCHANGED cacheVars \/ SaveAnswered \/ SaveSkipped
  BY <1>4 DEF Serve, RefuseInitError, Dispatch, RerunUpstream, UpstreamFails,
    PrefixDone, RunCell, CellFails, RunRepl, ReplFails, AnswerQuery
<1>5. ASSUME Raise PROVE UNCHANGED cacheVars
  BY <1>5 DEF Raise, RequestDies, RequestInterrupted, RequestTimesOut, ReplyInvalid
<1>6. ASSUME WorkerDies \/ LateEnds \/ Stopped \/ UNCHANGED vars PROVE UNCHANGED cacheVars
  BY <1>6 DEF WorkerDies, LateEnds, Stopped, vars
<1>7. ASSUME SaveAnswered PROVE CacheInv'
  <2>1. Renders(StateAt(current), ledger) /\ StateAt(current) \in State
    BY <1>7, ElementOfSeq
    DEF SaveAnswered, Serving, LedgerInv, Follows, ClientInv, Known, StateAt
  <2>2. cut' = cut
    BY <1>7 DEF SaveAnswered, ReplyOk
  <2>3. saved' = saved \/ saved' = {StateAt(current)}
    BY <1>7 DEF SaveAnswered
  <2>4. key' = {} \/ key' = {[ledger |-> ledger, state |-> StateAt(current)]}
    BY <1>7 DEF SaveAnswered
  <2> QED BY <2>1, <2>2, <2>3, <2>4 DEF Renders
<1>8. ASSUME SaveSkipped PROVE CacheInv'
  <2>1. alive => StateAt(current) \in State
    BY <1>8, ElementOfSeq DEF SaveSkipped, LedgerInv, Follows, ClientInv, Known, StateAt
  <2> QED BY <1>8, <2>1, CutStays DEF SaveSkipped, Renders
<1>9. ASSUME InterruptedOutside PROVE CacheInv'
  <2>1. pc = "save" /\ Serving => StateAt(current) \in State
    BY ElementOfSeq DEF Serving, LedgerInv, Follows, ClientInv, Known, StateAt
  <2>2. saved' \in {saved, {}} \/ (\E s \in State : saved' = {s})
    BY <1>9, <2>1 DEF InterruptedOutside
  <2>3. key' \in {key, {}}
    BY <1>9 DEF InterruptedOutside
  <2> QED BY <2>2, <2>3, CutStays DEF Renders
<1>10. CASE UNCHANGED cacheVars \/ (saved' = {} /\ key' = {})
  BY <1>10, CutStays DEF Renders
<1> QED
  BY <1>1, <1>2, <1>3, <1>4, <1>5, <1>6, <1>7, <1>8, <1>9, <1>10 DEF Next, Thread

\* Only Restore goes from the restore to the job.
LEMMA RestoreStep ==
  ASSUME ReplInv, [Next]_vars, pc = "restore", pc' = "dispatch"
  PROVE  Renders(snaps'[snapshot' + 1], ledger)
<1>1. ~Input
  BY DEF Input, CommOpen, CommClose, CommMessage, BeginJob, Shutdown
<1>2. ~Ensure
  BY DEF Ensure, EnsureRunning, EnsureFirst, RestartDoc, RestartRepl, StartFails,
    InitAbsent, InitOk, InitFails, Continue, Idle
<1>3. ASSUME Recover PROVE Restore
  BY <1>3 DEF Recover, RestoreMisses, RestoreRefused, RestoreFails, RestoreInterrupted,
    ReplayBegins, ReplayRestarts, RestartFails, ReplayCell, ReplayDiverges, ReplayEnds,
    Continue, Idle, Unwind, RaiseDied
<1>4. ~Serve
  BY DEF Serve, RefuseInitError, Dispatch, RerunUpstream, UpstreamFails, PrefixDone,
    RunCell, CellFails, RunRepl, ReplFails, SaveAnswered, SaveSkipped, AnswerQuery,
    Continue, Idle, ReplyOk
<1>5. ~Raise
  BY DEF Asking, Raise, RequestDies, RequestInterrupted, RequestTimesOut, ReplyInvalid,
    Idle, Unwind, RaiseDied
<1>6. ~(InterruptedOutside \/ WorkerDies \/ LateEnds \/ Stopped \/ UNCHANGED vars)
  BY DEF InterruptedOutside, Idle, Unwind, WorkerDies, LateEnds, Stopped, vars
<1>7. ASSUME Restore PROVE Renders(snaps'[snapshot' + 1], ledger)
  <2>1. PICK s \in saved : snaps' = Append(snaps, s)
    BY <1>7 DEF Restore
  <2>2. Renders(s, ledger) /\ s \in State
    BY <1>7 DEF Restore, KeyMatches, ReplInv, CacheInv
  <2> QED BY <1>7, <2>1, <2>2, AppendProperties DEF Restore, ReplInv, ClientInv
<1> QED BY <1>1, <1>2, <1>3, <1>4, <1>5, <1>6, <1>7 DEF Next, Thread

----------------------------------------------------------------------------
(* Acknowledged cells *)

\* No step loses an acknowledged cell.
LEMMA AckedStep ==
  ASSUME ReplOnly, ReplInv, AckedInv, [Next]_vars
  PROVE  AckedInv'
<1> USE DEF ReplInv, AckedInv, bootVars, docVars, clientVars, workerVars, cacheVars,
            pastVars, counters
<1>1. ASSUME InitOk PROVE AckedInv'
  <2>1. Requested.code \in Codes
    BY <1>1, RequestedRepl DEF InitOk, Asking
  <2>2. IsSubsequence(acked, Append(ledger, Requested.code))
    BY <1>1, <2>1, SubsequenceMore DEF InitOk, ReplInv, ClientInv
  <2> QED BY <1>1, <2>2 DEF InitOk, Continue
<1>2. ASSUME ReplayEnds PROVE AckedInv'
  <2>1. ledger = kept
    BY <1>2, ConcatEmptySeq DEF ReplayEnds, ReplInv, ClientInv, LedgerInv, State
  <2> QED BY <1>2, <2>1 DEF ReplayEnds, Continue
<1>3. ASSUME RunRepl PROVE AckedInv'
  <2>1. job.code \in Codes
    BY <1>3 DEF RunRepl, ReplInv, ModeInv
  <2>2. IsSubsequence(Append(acked, job.code), Append(ledger, job.code))
    BY <1>3, <2>1, SubsequenceAppend DEF RunRepl, ReplInv, ClientInv
  <2> QED BY <1>3, <2>2 DEF RunRepl, Continue
<1>4. ASSUME SaveAnswered PROVE AckedInv'
  <2>1. Append(acked, job.code) \in State
    BY <1>4 DEF SaveAnswered, ReplInv, ModeInv, State
  <2> QED BY <1>4, <2>1 DEF SaveAnswered, ReplyOk, Idle
<1>5. ASSUME SaveSkipped PROVE AckedInv'
  <2>1. Append(acked, job.code) \in State
    BY <1>5 DEF SaveSkipped, ReplInv, ModeInv, State
  <2> QED BY <1>5, <2>1 DEF SaveSkipped, ReplyOk, Idle
<1>6. ASSUME Input PROVE AckedInv'
  BY <1>6
  DEF Input, CommOpen, CommClose, CommMessage, BeginJob, Shutdown, ReplOnly, ModeInv,
    Working
<1>7. ASSUME Ensure PROVE AckedInv'
  BY <1>7, <1>1
  DEF Ensure, EnsureRunning, EnsureFirst, RestartDoc, RestartRepl, StartFails,
    InitAbsent, InitFails, Continue, Idle, ModeInv, ReplOnly, Working
<1>8. ASSUME Recover PROVE AckedInv'
  BY <1>8, <1>2
  DEF Recover, RestoreMisses, Restore, RestoreRefused, RestoreFails, RestoreInterrupted,
    ReplayBegins, ReplayRestarts, RestartFails, ReplayCell, ReplayDiverges, Continue,
    Idle, Unwind, RaiseDied, SetAside
<1>9. ASSUME Serve PROVE AckedInv'
  BY <1>9, <1>3, <1>4, <1>5
  DEF Serve, RefuseInitError, Dispatch, RerunUpstream, UpstreamFails, PrefixDone,
    RunCell, CellFails, ReplFails, AnswerQuery, Continue, Idle, ReplOnly, ModeInv,
    Working
<1>10. ASSUME Raise PROVE AckedInv'
  BY <1>10
  DEF Raise, RequestDies, RequestInterrupted, RequestTimesOut, ReplyInvalid, Idle,
    Unwind, RaiseDied, Asking
<1>11. ASSUME InterruptedOutside PROVE AckedInv'
  <2>1. pc = "save" => IsSubsequence(acked, ledger)
    BY SubsequencePrefix DEF ReplInv, ModeInv, ClientInv
  <2> QED BY <1>11, <2>1 DEF InterruptedOutside, Idle, Unwind
<1>12. ASSUME LateEnds PROVE AckedInv'
  BY <1>12 DEF LateEnds
<1>13. ASSUME WorkerDies \/ Stopped \/ UNCHANGED vars PROVE AckedInv'
  BY <1>13 DEF WorkerDies, Stopped, vars
<1> QED BY <1>6, <1>7, <1>8, <1>9, <1>10, <1>11, <1>12, <1>13 DEF Next, Thread

----------------------------------------------------------------------------
(* Interrupts *)

\* A job that was struck is over in the same step, and workers start in others.
LEMMA StruckStep ==
  ASSUME "restore_interrupt" \notin Surprises, StruckInv, [Next]_vars
  PROVE  StruckInv' /\ (struck /\ struck' /\ alive' => alive)
<1> USE DEF StruckInv, bootVars, docVars, clientVars, workerVars, cacheVars, pastVars,
            counters
<1>1. ASSUME Input PROVE struck' => struck /\ pc' \in {"idle", "stopped"}
  BY <1>1 DEF Input, CommOpen, CommClose, CommMessage, BeginJob, Shutdown
<1>2. ASSUME Input PROVE alive' => alive
  BY <1>2 DEF Input, CommOpen, CommClose, CommMessage, BeginJob, Shutdown, Kill
<1>3. ASSUME Ensure PROVE ~struck /\ ~struck'
  BY <1>3 DEF Ensure, EnsureRunning, EnsureFirst, RestartDoc, RestartRepl, StartFails,
    InitAbsent, InitOk, InitFails, Continue, Idle
<1>4. ASSUME Recover PROVE ~struck /\ ~struck'
  BY <1>4 DEF Recover, RestoreMisses, Restore, RestoreRefused, RestoreFails,
    RestoreInterrupted, ReplayBegins, ReplayRestarts, RestartFails, ReplayCell,
    ReplayDiverges, ReplayEnds, Continue, Idle, Unwind, RaiseDied
<1>5. ASSUME Serve PROVE ~struck /\ (struck' => pc' = "idle")
  BY <1>5 DEF Serve, RefuseInitError, Dispatch, RerunUpstream, UpstreamFails,
    PrefixDone, RunCell, CellFails, RunRepl, ReplFails, SaveAnswered, SaveSkipped,
    AnswerQuery, Continue, Idle, ReplyOk
<1>6. ASSUME Raise PROVE ~struck /\ (struck' => pc' = "idle")
  BY <1>6 DEF Asking, Raise, RequestDies, RequestInterrupted, RequestTimesOut,
    ReplyInvalid, Idle, Unwind, RaiseDied
<1>7. ASSUME InterruptedOutside PROVE pc' = "idle" /\ alive' = FALSE
  BY <1>7 DEF InterruptedOutside, Idle, Unwind, Kill
<1>8. ASSUME WorkerDies \/ LateEnds \/ Stopped \/ UNCHANGED vars
      PROVE  UNCHANGED <<pc, struck>> /\ (alive' => alive)
  BY <1>8 DEF WorkerDies, LateEnds, Stopped, vars
<1>9. CASE Input
  BY <1>1, <1>2, <1>9
<1>10. CASE Thread
  BY <1>3, <1>4, <1>5, <1>6, <1>10 DEF Thread
<1>11. CASE InterruptedOutside
  BY <1>7, <1>11
<1>12. CASE WorkerDies \/ LateEnds \/ Stopped \/ UNCHANGED vars
  BY <1>8, <1>12
<1> QED BY <1>9, <1>10, <1>11, <1>12 DEF Next

----------------------------------------------------------------------------
(* Theorems *)

\* The invariant holds at the start.
LEMMA ReplInit == Init => ReplInv
<1> SUFFICES ASSUME Init PROVE ReplInv
  OBVIOUS
<1>1. <<>> \in State /\ <<>> \in Seq(State) /\ <<>> \in Seq([parent : Nat, code : Codes])
  BY DEF State
<1>2. ModeInv
  BY DEF Init, ModeInv, Working, NoJob
<1>3. ClientInv
  BY <1>1 DEF Init, ClientInv
<1>4. LedgerInv
  BY DEF Init, LedgerInv, Stands, Follows
<1>5. CacheInv
  BY DEF Init, CacheInv
<1> QED BY <1>2, <1>3, <1>4, <1>5 DEF ReplInv

\* It holds always: each part is kept by each step, given the others.
LEMMA ReplAlways ==
  ASSUME ReplOnly
  PROVE  Spec => []ReplInv
<1>1. ASSUME ReplInv, [Next]_vars PROVE ReplInv'
  BY <1>1, ModeStep, ClientStep, LedgerStep, CacheStep DEF ReplInv
<1> QED BY ReplInit, <1>1, PTL DEF Spec

\* A REPL cell is elaborated on a state that renders the ledger: the whole of it
\* after any number of deaths, restores, replays, timeouts and interrupts, and a
\* part of it only after a replay that was cut with its worker alive
\* (restart_and_replay, RunRepl).
THEOREM RunsOnLedger ==
  ASSUME ReplOnly
  PROVE  Spec => []ReplStateFromLedger
<1>1. ReplInv => ReplStateFromLedger
  BY DEF ReplInv, LedgerInv, Follows, ReplStateFromLedger
<1> QED BY <1>1, ReplAlways, PTL

\* A session restored from the cache renders the ledger in the same sense,
\* whatever files and key.txt a killed, refused or torn save left (cache.py).
THEOREM RestoreFaithful ==
  ASSUME ReplOnly
  PROVE  Spec => RestoreRendersLedger
<1>1. ASSUME ReplInv, [Next]_vars
      PROVE  [pc = "restore" /\ pc' = "dispatch" =>
                Renders(snaps'[snapshot' + 1], ledger)]_vars
  BY <1>1, RestoreStep
<1> QED BY <1>1, ReplAlways, PTL DEF Spec, RestoreRendersLedger

\* A REPL cell answered ok is in the ledger between any two jobs, however the
\* recoveries in between ended (restart_and_replay's `except BaseException`).
THEOREM NothingLost ==
  ASSUME ReplOnly
  PROVE  Spec => []AckedCellsKept
<1>1. Init => AckedInv
  BY EmptySubsequence DEF Init, AckedInv, State
<1>2. ASSUME ReplInv, AckedInv, [Next]_vars PROVE AckedInv'
  BY <1>2, AckedStep
<1>3. AckedInv => AckedCellsKept
  BY DEF AckedInv, AckedCellsKept
<1> QED BY <1>1, <1>2, <1>3, ReplAlways, PTL DEF Spec

\* In the job that an escalated interrupt struck, no worker is started any more,
\* in both modes, as long as it does not strike the restore of a session.
THEOREM InterruptIsFinal ==
  ASSUME "restore_interrupt" \notin Surprises
  PROVE  Spec => NoRestartAfterInterrupt
<1>1. Init => StruckInv
  BY DEF Init, StruckInv
<1>2. ASSUME StruckInv, [Next]_vars
      PROVE  StruckInv' /\ [struck /\ struck' /\ alive' => alive]_vars
  BY <1>2, StruckStep
<1> QED BY <1>1, <1>2, PTL DEF Spec, NoRestartAfterInterrupt
===============================================================================
