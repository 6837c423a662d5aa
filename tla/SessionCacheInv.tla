-------------------------- MODULE SessionCacheInv ---------------------------
(* The inductive strengthening of SessionCache's properties, for the proofs. *)
EXTENDS SessionCache

\* Generation g imports g - 1 and nothing else: its name is the length of the
\* chain that its state had imported.
Linked(files) ==
  /\ DOMAIN files \subseteq Nat
  /\ \A g \in DOMAIN files :
       files[g] \in Module /\ files[g].imports = IF g = 0 THEN {} ELSE {g - 1}

\* No two of these generations declare the same.
Apart(S, files) ==
  \A h, i \in S : h # i => files[h].own \cap files[i].own = {}

Declared(S, files) == UNION {files[h].own : h \in S}

\* A state stands on the files it was loaded from, which hold its older cells.
SoundOn(s, files) ==
  LET g == freshModule(s) IN
  /\ s \in State /\ g \in Nat
  /\ s.base = 0 .. g - 1
  /\ s.from = IF g = 0 THEN {} ELSE {g - 1}
  /\ s.base \subseteq DOMAIN files
  /\ s.past = Declared(s.base, files) /\ Apart(s.base, files)
  /\ Whole(s) = Cells(s.scope)
  /\ \A e \in s.past, f \in s.own : e[1] < f[1]

\* All the states a running worker is asked about stand on the same files: it
\* loads at most once, before anything else.
StatesInv ==
  alive =>
    /\ SoundOn(cur, olean) /\ SoundOn(snap, olean) /\ snap.base = cur.base
    /\ \A i \in 1..Len(queue) : queue[i].op = "execute" =>
         SoundOn(queue[i].parent, olean) /\ queue[i].parent.base = cur.base

LedgerInv ==
  /\ Renders(stands)
  /\ alive /\ asked \in {"nothing", "execute", "save", "key"} => Renders(snap.scope)
  /\ asked = "save" => snap.scope = stands

\* t goes on where s ends.
Begins(s, t) == Len(s) <= Len(t) /\ \A i \in 1..Len(s) : s[i] = t[i]

\* A replay has brought back the first cells of the ledger and is at the next.
ReplayInv ==
  /\ asked = "load" => snap.scope = <<>>
  /\ asked = "replay" =>
       /\ alive /\ Begins(snap.scope, ledger)
       /\ queue # <<>> => /\ Len(queue) = 1 /\ ~queue[1].late /\ queue[1].op = "execute"
                         /\ Len(snap.scope) < Len(ledger)
                         /\ queue[1].code = ledger[Len(snap.scope) + 1]

Awaited == IF asked = "replay" THEN "execute" ELSE asked

\* What is not late in the queue is last in it, and the client waits for it.
QueueInv ==
  /\ ~alive => queue = <<>>
  /\ asked \in {"key", "closed"} => queue = <<>>
  /\ \A i \in 1..Len(queue) :
       /\ queue[i].op = "load" => asked = "load"
       /\ ~queue[i].late =>
            /\ i = Len(queue) /\ queue[i].op = Awaited
            /\ queue[i].op = "execute" => queue[i].parent = snap
  /\ asked \in {"save", "load"} /\ alive => Len(queue) = 1 /\ ~queue[1].late
  /\ asked = "save" => alive /\ cur = snap

\* The three files are those of one save, of all that the last cell stands on.
LedgerSaved ==
  \E g \in Nat :
    /\ head = {g} /\ scope = {stands}
    /\ 0..g \subseteq DOMAIN olean /\ Apart(0..g, olean)
    /\ Declared(0..g, olean) = Cells(stands)

\* A key with the ledger's own hash was written after the last save began.
KeyInv ==
  /\ \A k \in key : k.ledger \in Seq(Codes) /\ Len(k.ledger) <= Len(ledger)
  /\ (asked \in {"save", "key"} \/ \E i \in 1..Len(queue) : queue[i].op = "save") =>
       \A k \in key : Len(k.ledger) < Len(ledger)
  /\ \A k \in key : k.ledger = ledger => LedgerSaved
  /\ asked \in {"key", "load"} => LedgerSaved

\* How far the save being served has come.
SaveInv ==
  LET g == freshModule(cur) IN
  /\ writing > 0 => Serving("save")
  /\ writing >= 2 => g \in DOMAIN olean /\ olean[g] = [imports |-> cur.from, own |-> cur.own]
  /\ writing >= 4 => scope = {cur.scope}
  /\ writing >= 6 => head = {g}

CacheInv ==
  /\ TypeOK /\ Linked(olean)
  /\ StatesInv /\ LedgerInv /\ ReplayInv /\ QueueInv /\ KeyInv /\ SaveInv
=============================================================================
