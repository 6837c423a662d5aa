---------------------------- MODULE SessionCache ----------------------------
(***************************************************************************)
(* The session cache of a console session, file by file                    *)
(* (worker/Worker/SessionCache.lean, worker/cache.py): after every commit  *)
(* the worker writes an olean, the scope and the name of the olean, one    *)
(* after the other, and the client then a key with the ledger and the      *)
(* digests of the three.  A worker may die between any two steps and may   *)
(* go on with a save its client has given up.                              *)
(*                                                                         *)
(* A Lean environment is the set of what its cells declared, numbered in   *)
(* their order: in the oleans it imports and on its own.  A digest is the  *)
(* content; a file that is missing, or cut short by a death, holds nothing *)
(* that a digest or an import accepts: it is as one never written.         *)
(***************************************************************************)
EXTENDS Integers, Sequences, FiniteSets

CONSTANTS
  Codes,       \* cell sources
  MaxCells,    \* bound on the ledger
  MaxFaults    \* bound on deaths, timeouts and interrupts

ASSUME SessionCacheAssumption == MaxCells \in Nat /\ MaxFaults \in Nat

VARIABLES
  ledger, snap,          \* the client: committed cells, its snapshot's state
  asked,                 \* what the kernel's thread waits for or does next
  key,                   \* key.txt, a set of at most one descriptor
  olean, scope, head,    \* <gen>.olean, scope.json, module.txt
  alive, cur, queue,     \* the worker: its current state, requests not answered
  writing,               \* how far its save has come
  cut,                   \* history: a replay was left halfway, its worker alive
  stands,                \* history: the cells behind the last one acknowledged
  faults

clientVars == <<ledger, snap, asked>>
fileVars   == <<olean, scope, head>>
workerVars == <<alive, cur, queue, writing>>
pastVars   == <<cut, stands>>
vars == <<ledger, snap, asked, key, olean, scope, head, alive, cur, queue,
          writing, cut, stands, faults>>

----------------------------------------------------------------------------
(* Data *)

Numbered == Nat \X Codes

\* An elaborated state: the cache module it imports, the modules in the whole
\* chain of imports, their cells, its own cells, and those that shaped its scope.
State == [from : SUBSET Nat, base : SUBSET Nat, past : SUBSET Numbered,
          own : SUBSET Numbered, scope : Seq(Codes)]

Module == [imports : SUBSET Nat, own : SUBSET Numbered]

Cells(codes) == {<<i, codes[i]>> : i \in 1..Len(codes)}

Fresh(codes) ==
  [from |-> {}, base |-> {}, past |-> {}, own |-> Cells(codes), scope |-> codes]

Whole(s) == s.past \cup s.own

Extend(s, code) ==
  [s EXCEPT !.own = @ \cup {<<Len(s.scope) + 1, code>>}, !.scope = Append(@, code)]

Request == [op : {"execute"}, late : BOOLEAN, code : Codes, parent : State]
             \cup [op : {"save", "load"}, late : BOOLEAN]

\* Mutant: every save takes the same name.
OneModule(s) == 0

\* The name to save under: the length of the chain already imported.
freshModule(s) == Cardinality(s.base)

Without(g) == [h \in DOMAIN olean \ {g} |-> olean[h]]

With(g, module) ==
  [h \in DOMAIN olean \cup {g} |-> IF h = g THEN module ELSE olean[h]]

\* What importing a generation brings in: the least set that is closed under
\* the imports of the files there are.
Names(g) == {g} \cup DOMAIN olean \cup UNION {olean[h].imports : h \in DOMAIN olean}

UnderImports(S) == \A h \in S \cap DOMAIN olean : olean[h].imports \subseteq S

Chain(g) ==
  {h \in Names(g) : \A S \in SUBSET Names(g) : g \in S /\ UnderImports(S) => h \in S}

\* Every file of the chain is there, none imports itself, however far away, and
\* nothing is declared twice.
Importable(g) ==
  /\ Chain(g) \subseteq DOMAIN olean
  /\ \A h \in Chain(g) : \A i \in olean[h].imports : h \notin Chain(i)
  /\ \A h, i \in Chain(g) : h # i => olean[h].own \cap olean[i].own = {}

Imported(g) == UNION {olean[h].own : h \in Chain(g)}

\* The state that load rebuilds from the files.
Loaded(g, tag) ==
  [from |-> {g}, base |-> Chain(g), past |-> Imported(g), own |-> {}, scope |-> tag]

Readable == head # {} /\ scope # {} /\ head \subseteq DOMAIN olean

\* _ledger_key with the head and the digests of its olean and of the scope.
Descriptor ==
  [ledger |-> ledger, head |-> head, olean |-> {olean[g] : g \in head}, scope |-> scope]

Matches == Readable /\ key = {Descriptor}

\* An init cell joins the ledger and is not saved.
Init ==
  /\ \E codes \in {<<>>} \cup {<<c>> : c \in Codes} :
       ledger = codes /\ stands = codes /\ snap = Fresh(codes) /\ cur = Fresh(codes)
  /\ asked = "nothing" /\ key = {}
  /\ olean = [g \in {} |-> {}] /\ scope = {} /\ head = {}
  /\ alive = TRUE /\ queue = <<>> /\ writing = 0
  /\ cut = FALSE /\ faults = 0

----------------------------------------------------------------------------
(* The kernel's thread *)

RunsCell(code) ==
  /\ asked = "nothing" /\ alive
  /\ Len(ledger) < MaxCells
  /\ asked' = "execute"
  /\ queue' = Append(queue, [op |-> "execute", late |-> FALSE, code |-> code, parent |-> snap])
  /\ UNCHANGED <<ledger, snap, key, fileVars, alive, cur, writing, faults, pastVars>>

\* restart_and_replay up to the decision: a key that matches is worth a load.
Restarts ==
  /\ asked = "nothing" /\ ~alive
  /\ alive' = TRUE /\ cur' = Fresh(<<>>) /\ snap' = Fresh(<<>>)
  /\ IF Matches
     THEN asked' = "load" /\ queue' = <<[op |-> "load", late |-> FALSE]>>
     ELSE asked' = "replay" /\ queue' = <<>>
  /\ UNCHANGED <<ledger, key, fileVars, writing, faults, pastVars>>

\* The worker died under load_session or was killed for its timeout: another
\* one is started, for the replay.
LoadLost ==
  /\ asked = "load" /\ ~alive
  /\ alive' = TRUE /\ cur' = Fresh(<<>>) /\ snap' = Fresh(<<>>)
  /\ asked' = "replay"
  /\ UNCHANGED <<ledger, key, fileVars, queue, writing, faults, pastVars>>

\* The ledger is replayed cell by cell, each on the snapshot of the one before,
\* and nothing is saved on the way.  `ledger` is the list that is set aside for
\* the replay and is the client's again after it, however it ends.
ReplaysCell ==
  /\ asked = "replay" /\ alive /\ queue = <<>>
  /\ Len(snap.scope) < Len(ledger)
  /\ queue' = <<[op |-> "execute", late |-> FALSE,
                code |-> ledger[Len(snap.scope) + 1], parent |-> snap]>>
  /\ UNCHANGED <<clientVars, key, fileVars, alive, cur, writing, faults, pastVars>>

ReplayEnds ==
  /\ asked = "replay" /\ alive /\ queue = <<>>
  /\ Len(snap.scope) = Len(ledger)
  /\ asked' = "nothing"
  /\ UNCHANGED <<ledger, snap, key, fileVars, workerVars, faults, pastVars>>

NoWorker == alive' = FALSE /\ queue' = <<>> /\ cur' = Fresh(<<>>) /\ writing' = 0

\* A replayed cell fails: do_execute kills the worker; a query reports the error
\* and leaves it running with the cells replayed so far.
ReplayDiverges ==
  /\ asked = "replay" /\ alive /\ queue # <<>>
  /\ asked' = "nothing"
  /\ \/ NoWorker /\ cut' = cut
     \/ queue' = Tail(queue) /\ cut' = TRUE /\ UNCHANGED <<alive, cur, writing>>
  /\ UNCHANGED <<ledger, snap, key, fileVars, faults, stands>>

\* Mutant: the key is written although the save was not answered.
TimesOutWithKey ==
  /\ asked \in {"execute", "save", "replay"} /\ alive
  /\ faults < MaxFaults
  /\ faults' = faults + 1
  /\ asked' = IF asked = "save" /\ Readable THEN "key" ELSE "nothing"
  /\ queue' = [i \in 1..Len(queue) |-> [queue[i] EXCEPT !.late = TRUE]]
  /\ cut' = (cut \/ asked = "replay")
  /\ UNCHANGED <<ledger, snap, key, fileVars, alive, cur, writing, stands>>

\* The client gives up; the worker does not.  Nobody catches the timeout of a
\* replayed cell, nor an interrupt between two of them in a query's recovery:
\* the worker keeps part of the ledger.
TimesOut ==
  /\ asked \in {"execute", "save", "replay"} /\ alive
  /\ faults < MaxFaults
  /\ faults' = faults + 1
  /\ asked' = "nothing"
  /\ queue' = [i \in 1..Len(queue) |-> [queue[i] EXCEPT !.late = TRUE]]
  /\ cut' = (cut \/ asked = "replay")
  /\ UNCHANGED <<ledger, snap, key, fileVars, alive, cur, writing, stands>>

WritesKey ==
  /\ asked = "key"
  /\ key' = {Descriptor}
  /\ asked' = "nothing"
  /\ UNCHANGED <<ledger, snap, fileVars, workerVars, faults, pastVars>>

\* An interrupt before key.txt is written or within: it stays, or is cut
\* short, and do_execute kills the worker.
KeyInterrupted ==
  /\ asked = "key"
  /\ faults < MaxFaults
  /\ faults' = faults + 1
  /\ key' \in {key, {}}
  /\ asked' = "nothing"
  /\ NoWorker
  /\ UNCHANGED <<ledger, snap, fileVars, pastVars>>

\* do_shutdown: the worker is closed, or killed, and the directory removed.
Shutdown ==
  /\ asked = "nothing"
  /\ asked' = "closed"
  /\ key' = {} /\ olean' = [g \in {} |-> {}] /\ scope' = {} /\ head' = {}
  /\ NoWorker
  /\ UNCHANGED <<ledger, snap, faults, pastVars>>

Ended == asked = "closed" /\ UNCHANGED vars

----------------------------------------------------------------------------
(* The worker *)

Serving(op) == alive /\ queue # <<>> /\ Head(queue).op = op

\* Whoever still waits for the reply goes on to `next`.
Answer(next) ==
  /\ queue' = Tail(queue)
  /\ asked' = IF Head(queue).late THEN asked ELSE next

\* A commit the client hears of joins the ledger and is saved, a replayed cell
\* is back in it; one the client has given up on only becomes the worker's
\* current state.
Commits ==
  LET r == Head(queue)  s == Extend(r.parent, r.code) IN
  /\ Serving("execute")
  /\ cur' = s
  /\ \/ /\ r.late
        /\ queue' = Tail(queue)
        /\ UNCHANGED <<clientVars, stands>>
     \/ /\ ~r.late /\ asked = "replay"
        /\ snap' = s
        /\ queue' = Tail(queue)
        /\ UNCHANGED <<ledger, asked, stands>>
     \/ /\ ~r.late /\ asked = "execute"
        /\ snap' = s /\ stands' = s.scope
        /\ ledger' = Append(ledger, r.code)
        /\ asked' = "save"
        /\ queue' = Append(Tail(queue), [op |-> "save", late |-> FALSE])
  /\ UNCHANGED <<key, fileVars, alive, writing, faults, cut>>

\* A cell that fails or is cancelled is not saved.
Fails ==
  /\ Serving("execute") /\ asked # "replay"
  /\ Answer("nothing")
  /\ UNCHANGED <<ledger, snap, key, fileVars, alive, cur, writing, faults, pastVars>>

Saving(stage) == Serving("save") /\ writing = stage /\ writing' = stage + 1

\* Each file is opened, which empties it, and then written.
WritesOlean ==
  LET g == freshModule(cur) IN
  /\ \/ Saving(0) /\ olean' = Without(g)
     \/ Saving(1) /\ olean' = With(g, [imports |-> cur.from, own |-> cur.own])
  /\ UNCHANGED <<clientVars, key, scope, head, alive, cur, queue, faults, pastVars>>

WritesScope ==
  /\ \/ Saving(2) /\ scope' = {}
     \/ Saving(3) /\ scope' = {cur.scope}
  /\ UNCHANGED <<clientVars, key, olean, head, alive, cur, queue, faults, pastVars>>

WritesHead ==
  /\ \/ Saving(4) /\ head' = {}
     \/ Saving(5) /\ head' = {freshModule(cur)}
  /\ UNCHANGED <<clientVars, key, olean, scope, alive, cur, queue, faults, pastVars>>

\* Mutant: the next save goes on where this one stopped.
AnswersSaveUnreset ==
  /\ Serving("save") /\ writing = 6
  /\ writing' = writing + 1
  /\ Answer("key")
  /\ UNCHANGED <<ledger, snap, key, fileVars, alive, cur, faults, pastVars>>

AnswersSave ==
  /\ Serving("save") /\ writing = 6
  /\ writing' = 0
  /\ Answer("key")
  /\ UNCHANGED <<ledger, snap, key, fileVars, alive, cur, faults, pastVars>>

\* Open scopes, variables, a syntax-valued option: the key is dropped.
RefusesSave ==
  /\ Serving("save") /\ writing = 0
  /\ key' = IF Head(queue).late THEN key ELSE {}
  /\ Answer("nothing")
  /\ UNCHANGED <<ledger, snap, fileVars, alive, cur, writing, faults, pastVars>>

\* Mutant: the client does not take the restored snapshot's id over.
LoadsAside ==
  /\ Serving("load") /\ Readable
  /\ \E g \in head, tag \in scope : Importable(g) /\ cur' = Loaded(g, tag)
  /\ Answer("nothing")
  /\ UNCHANGED <<ledger, snap, key, fileVars, alive, writing, faults, pastVars>>

Loads ==
  /\ Serving("load") /\ Readable
  /\ \E g \in head, tag \in scope :
       /\ Importable(g)
       /\ cur' = Loaded(g, tag) /\ snap' = Loaded(g, tag)
  /\ Answer("nothing")
  /\ UNCHANGED <<ledger, key, fileVars, alive, writing, faults, pastVars>>

\* Any exception of load is a miss, and the same worker replays.
LoadMisses ==
  /\ Serving("load")
  /\ Answer("replay")
  /\ UNCHANGED <<ledger, snap, key, fileVars, alive, cur, writing, faults, pastVars>>

\* A death, or a kill by the client, at any moment.  Under load_session the
\* recovery goes on; a save is given up; the others end their job.
Dies ==
  /\ alive
  /\ faults < MaxFaults
  /\ faults' = faults + 1
  /\ asked' = IF asked \in {"execute", "save", "replay"} THEN "nothing" ELSE asked
  /\ NoWorker
  /\ UNCHANGED <<ledger, snap, key, fileVars, pastVars>>

----------------------------------------------------------------------------
Client == \/ \E c \in Codes : RunsCell(c)
          \/ Restarts \/ LoadLost \/ ReplaysCell \/ ReplayEnds
          \/ ReplayDiverges \/ TimesOut \/ WritesKey \/ KeyInterrupted \/ Shutdown

Worker == \/ Commits \/ Fails
          \/ WritesOlean \/ WritesScope \/ WritesHead \/ AnswersSave \/ RefusesSave
          \/ Loads \/ LoadMisses

Next == Client \/ Worker \/ Dies \/ Ended

Spec == Init /\ [][Next]_vars

----------------------------------------------------------------------------
(* Properties *)

TypeOK ==
  /\ ledger \in Seq(Codes) /\ snap \in State
  /\ asked \in {"nothing", "execute", "save", "key", "load", "replay", "closed"}
  /\ \A k \in key : k.ledger \in Seq(Codes)
  /\ DOMAIN olean \subseteq Nat /\ \A g \in DOMAIN olean : olean[g] \in Module
  /\ scope \subseteq Seq(Codes) /\ head \subseteq Nat
  /\ alive \in BOOLEAN /\ cur \in State /\ queue \in Seq(Request)
  /\ writing \in 0..6
  /\ cut \in BOOLEAN /\ stands \in Seq(Codes)
  /\ faults \in 0..MaxFaults

IsSubsequence(s, t) ==
  \E f \in [1..Len(s) -> 1..Len(t)] :
    /\ \A m, n \in 1..Len(s) : m < n => f[m] < f[n]
    /\ \A n \in 1..Len(s) : s[n] = t[f[n]]

\* What a worker may hold of the ledger: all of it, unless a replay was left
\* halfway with its worker alive; then some of its cells, in their order.
Renders(codes) == IsSubsequence(codes, ledger) /\ (~cut => codes = ledger)

\* However a worker was brought back, from the cache or by replay, the state
\* the next cell builds on renders the ledger, and its environment and its
\* scope are of the same cells (restart_and_replay).
ConsoleStateFromLedger ==
  alive /\ asked \in {"nothing", "execute", "save", "key"} =>
    Renders(snap.scope) /\ Whole(snap) = Cells(snap.scope)

\* A key that matches names files of one and the same save: whatever deaths and
\* abandoned saves came between, they load, and what they load is the state the
\* last acknowledged cell left, which renders the ledger (_cache_descriptor,
\* SessionCache.save).
MatchingKeyLoadsLastCell ==
  Matches => \A g \in head, tag \in scope :
    /\ Importable(g) /\ Imported(g) = Cells(tag)
    /\ tag = stands /\ Renders(tag)

\* A generation imports only older ones, so that no import goes on forever, on
\* the second recovery or any later one (freshModule).
ImportsDescend ==
  \A g \in DOMAIN olean : \A i \in olean[g].imports : i < g

\* A running worker never writes to an olean that it has imported and mapped
\* into memory.
MappedOleansKept ==
  [][alive /\ alive' => \A g \in cur.base \cap DOMAIN olean :
       g \in DOMAIN olean' /\ olean'[g] = olean[g]]_vars
=============================================================================
