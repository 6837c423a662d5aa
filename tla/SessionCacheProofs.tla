------------------------- MODULE SessionCacheProofs -------------------------
(***************************************************************************)
(* The session cache of a console session: a key that matches loads the    *)
(* ledger, and no file that is in use is written, for any number of cells, *)
(* deaths, timeouts and interrupts.                                        *)
(***************************************************************************)
EXTENDS SessionCacheInv, FiniteSetTheorems, SequenceTheorems,
        WellFoundedInduction, TLAPS

----------------------------------------------------------------------------
(* Generations *)

\* A set of generations that is not empty has a youngest one.
LEMMA Youngest ==
  ASSUME NEW g \in Nat, NEW D, D \subseteq 0..g, D # {}
  PROVE  \E m \in D : \A y \in D : y <= m
<1> DEFINE From(x) == x..g
           F == {From(x) : x \in D}
<1>1. IsFiniteSet(0..g) /\ IsWellFoundedOn(StrictSubsetOrdering(0..g), SUBSET (0..g))
  <2>1. IsFiniteSet(0..g)
    BY FS_Interval
  <2> QED BY <2>1, FS_FiniteSubsetsOfFinite, FS_StrictSubsetOrderingWellFounded
<1>2. F \subseteq SUBSET (0..g) /\ F # {}
  <2>1. \A x \in D : From(x) \subseteq 0..g
    OBVIOUS
  <2> HIDE DEF From
  <2> QED BY <2>1
<1>3. PICK X \in F : \A Y \in F : <<Y, X>> \notin StrictSubsetOrdering(0..g)
  <2> HIDE DEF F
  <2> QED BY <1>1, <1>2, WFMin, Zenon
<1>4. PICK m \in D : X = From(m)
  OBVIOUS
<1>5. ASSUME NEW y \in D, y > m PROVE FALSE
  <2>1. From(y) \subseteq From(m) /\ m \in From(m) /\ m \notin From(y)
    BY <1>5
  <2>2. From(y) \in F /\ From(m) \in F
    OBVIOUS
  <2>3. From(y) \in SUBSET (0..g) /\ From(m) \in SUBSET (0..g) /\ From(y) # From(m)
    BY <1>2, <2>1, <2>2
  <2> HIDE DEF From, F
  <2> QED BY <1>3, <1>4, <2>1, <2>2, <2>3 DEF StrictSubsetOrdering
<1> QED BY <1>5

\* A set that holds g and is closed under imports holds the whole chain.
LEMMA DownToZero ==
  ASSUME NEW g \in Nat, Linked(olean), 0..g \subseteq DOMAIN olean,
         NEW S, g \in S, UnderImports(S)
  PROVE  0..g \subseteq S
<1> DEFINE D == 0..g \ S
<1> SUFFICES ASSUME D # {} PROVE FALSE
  OBVIOUS
<1>1. PICK m \in D : \A y \in D : y <= m
  <2> HIDE DEF D
  <2>1. D \subseteq 0..g BY DEF D
  <2> QED BY <2>1, Youngest
<1>2. m \in 0..g /\ m # g /\ m + 1 \in 0..g /\ m + 1 \in S
  BY <1>1
<1>3. m + 1 \in DOMAIN olean /\ m \in olean[m + 1].imports
  <2> DEFINE n == m + 1
  <2>1. n \in DOMAIN olean /\ n # 0 /\ n - 1 = m
    BY <1>2
  <2> HIDE DEF n
  <2>2. olean[n].imports = {n - 1}
    BY <2>1 DEF Linked
  <2> QED BY <2>1, <2>2 DEF n
<1> QED BY <1>1, <1>2, <1>3 DEF UnderImports

LEMMA ChainIsWhole ==
  ASSUME NEW g \in Nat, Linked(olean), 0..g \subseteq DOMAIN olean
  PROVE  Chain(g) = 0..g
<1>1. ASSUME NEW h \in DOMAIN olean
      PROVE  h \in Nat /\ olean[h].imports = IF h = 0 THEN {} ELSE {h - 1}
  BY DEF Linked
<1>2. 0..g \subseteq Names(g)
  BY DEF Names
<1>3. UnderImports(0..g)
  <2> SUFFICES ASSUME NEW h \in 0..g, h \in DOMAIN olean
              PROVE  olean[h].imports \subseteq 0..g
    BY DEF UnderImports
  <2>1. CASE h = 0
    BY <1>1, <2>1
  <2>2. CASE h # 0
    <3>1. h - 1 \in 0..g
      BY <2>2
    <3>2. olean[h].imports = {h - 1}
      BY <1>1, <2>2
    <3> QED BY <3>1, <3>2
  <2> QED BY <2>1, <2>2
<1>4. Chain(g) \subseteq 0..g
  BY <1>2, <1>3 DEF Chain
<1>5. ASSUME NEW h \in 0..g PROVE h \in Chain(g)
  BY <1>2, <1>5, DownToZero DEF Chain
<1> QED BY <1>4, <1>5

\* The whole chain can be imported when no two of its modules declare the same.
LEMMA ChainImports ==
  ASSUME NEW g \in Nat, Linked(olean), 0..g \subseteq DOMAIN olean, Apart(0..g, olean)
  PROVE  /\ Chain(g) = 0..g /\ Importable(g)
         /\ Imported(g) = Declared(0..g, olean)
<1>1. Chain(g) = 0..g
  BY ChainIsWhole
<1>2. ASSUME NEW h \in 0..g, NEW i \in olean[h].imports PROVE h \notin Chain(i)
  <2>1. h \in DOMAIN olean /\ h \in Nat /\ i \in Nat /\ i = h - 1
    <3>1. h \in DOMAIN olean /\ h \in Nat
      OBVIOUS
    <3>2. olean[h].imports = IF h = 0 THEN {} ELSE {h - 1}
      BY <3>1 DEF Linked
    <3>3. CASE h = 0
      BY <1>2, <3>2, <3>3
    <3>4. CASE h # 0
      BY <1>2, <3>1, <3>2, <3>4
    <3> QED BY <3>3, <3>4
  <2>2. 0..i \subseteq DOMAIN olean
    BY <2>1
  <2>3. Chain(i) = 0..i
    BY <2>1, <2>2, ChainIsWhole
  <2> QED BY <2>1, <2>3
<1> QED BY <1>1, <1>2 DEF Importable, Imported, Declared, Apart
----------------------------------------------------------------------------
(* States *)

LEMMA CellsType ==
  ASSUME NEW q \in Seq(Codes)
  PROVE  /\ Cells(q) \subseteq Numbered
         /\ \A e \in Cells(q) : e[1] <= Len(q)
<1>1. Len(q) \in Nat /\ \A i \in 1..Len(q) : q[i] \in Codes
  BY LenProperties, ElementOfSeq
<1> QED BY <1>1 DEF Cells, Numbered

\* A cell more has the next number.
LEMMA CellsAppend ==
  ASSUME NEW q \in Seq(Codes), NEW c \in Codes
  PROVE  Cells(Append(q, c)) = Cells(q) \cup {<<Len(q) + 1, c>>}
<1>1. /\ Len(q) \in Nat /\ Len(Append(q, c)) = Len(q) + 1
      /\ \A i \in 1..Len(q) : Append(q, c)[i] = q[i]
      /\ Append(q, c)[Len(q) + 1] = c
  BY LenProperties, AppendProperties
<1>2. 1..Len(q) + 1 = 1..Len(q) \cup {Len(q) + 1}
  BY <1>1
<1> QED BY <1>1, <1>2 DEF Cells

LEMMA Length ==
  ASSUME NEW s, NEW g \in Nat, s.base = 0 .. g - 1
  PROVE  freshModule(s) = g
<1>1. Cardinality(0 .. g - 1) = g
  BY FS_Interval
<1> QED BY <1>1 DEF freshModule

LEMMA FreshSound ==
  ASSUME NEW q \in Seq(Codes), NEW files
  PROVE  SoundOn(Fresh(q), files) /\ Fresh(q).base = {} /\ Fresh(q).scope = q /\ Fresh(q) \in State
<1> DEFINE s == Fresh(q)
<1>1. /\ s \in State /\ s.base = {} /\ s.from = {} /\ s.past = {} /\ s.own = Cells(q)
      /\ s.scope = q
  BY CellsType DEF Fresh, State
<1>2. freshModule(s) = 0
  BY <1>1, FS_EmptySet DEF freshModule
<1> HIDE DEF s
<1>3. s.base = 0 .. 0 - 1
  BY <1>1
<1>4. Declared(s.base, files) = {} /\ Apart(s.base, files)
  BY <1>1 DEF Declared, Apart
<1>5. Whole(s) = Cells(s.scope)
  BY <1>1 DEF Whole
<1> QED BY <1>1, <1>2, <1>3, <1>4, <1>5 DEF SoundOn, s

LEMMA ExtendSound ==
  ASSUME NEW files, NEW s, SoundOn(s, files), NEW c \in Codes
  PROVE  /\ SoundOn(Extend(s, c), files) /\ Extend(s, c) \in State
         /\ Extend(s, c).base = s.base /\ Extend(s, c).scope = Append(s.scope, c)
<1> DEFINE t == Extend(s, c)
<1>1. s \in State /\ s.scope \in Seq(Codes) /\ Len(s.scope) \in Nat
  BY LenProperties DEF SoundOn, State
<1>2. <<Len(s.scope) + 1, c>> \in Numbered /\ Append(s.scope, c) \in Seq(Codes)
  BY <1>1, AppendProperties DEF Numbered
<1>3. /\ t \in State /\ t.base = s.base /\ t.from = s.from /\ t.past = s.past
      /\ t.own = s.own \cup {<<Len(s.scope) + 1, c>>}
      /\ t.scope = Append(s.scope, c)
  BY <1>1, <1>2 DEF Extend, State
<1> HIDE DEF t
<1>4. freshModule(t) = freshModule(s)
  BY <1>3 DEF freshModule
<1>5. Whole(t) = Cells(t.scope)
  <2>1. Whole(s) = Cells(s.scope)
    BY DEF SoundOn
  <2>2. Whole(t) = Whole(s) \cup {<<Len(s.scope) + 1, c>>}
    BY <1>3 DEF Whole
  <2> QED BY <1>1, <1>3, <2>1, <2>2, CellsAppend
<1>6. \A e \in t.past, f \in t.own : e[1] < f[1]
  <2> SUFFICES ASSUME NEW e \in t.past, NEW f \in t.own PROVE e[1] < f[1]
    OBVIOUS
  <2>1. CASE f \in s.own
    BY <1>3, <2>1 DEF SoundOn
  <2>2. CASE f = <<Len(s.scope) + 1, c>>
    <3>1. e \in Cells(s.scope)
      BY <1>3 DEF SoundOn, Whole
    <3>2. e \in Numbered /\ e[1] <= Len(s.scope)
      BY <1>1, <3>1, CellsType
    <3>3. e[1] \in Nat
      BY <3>2 DEF Numbered
    <3>4. f[1] = Len(s.scope) + 1
      BY <2>2
    <3> QED BY <1>1, <3>2, <3>3, <3>4
  <2> QED BY <1>3, <2>1, <2>2
<1>7. t \in State /\ t.base = s.base /\ t.from = s.from /\ t.past = s.past
  BY <1>3
<1>8. SoundOn(t, files)
  BY <1>4, <1>5, <1>6, <1>7 DEF SoundOn
<1> QED BY <1>3, <1>8 DEF t

LEMMA LoadedSound ==
  ASSUME NEW g \in Nat, NEW tag \in Seq(Codes), Linked(olean),
         0..g \subseteq DOMAIN olean, Apart(0..g, olean), Declared(0..g, olean) = Cells(tag)
  PROVE  /\ SoundOn(Loaded(g, tag), olean) /\ Loaded(g, tag) \in State
         /\ Loaded(g, tag).scope = tag
<1> DEFINE s == Loaded(g, tag)
<1>1. Chain(g) = 0..g /\ Imported(g) = Cells(tag)
  BY ChainImports
<1>2. /\ s.base = 0..g /\ s.from = {g} /\ s.past = Cells(tag) /\ s.own = {}
      /\ s.scope = tag /\ s \in State
  BY <1>1, CellsType DEF Loaded, State
<1> HIDE DEF s
<1>3. s.base = 0 .. (g + 1) - 1
  BY <1>2
<1>4. freshModule(s) = g + 1
  BY <1>3, Length
<1>5. Whole(s) = Cells(s.scope)
  BY <1>2 DEF Whole
<1>6. s.from = IF g + 1 = 0 THEN {} ELSE {(g + 1) - 1}
  BY <1>2
<1>7. SoundOn(s, olean)
  BY <1>2, <1>3, <1>4, <1>5, <1>6 DEF SoundOn
<1> QED BY <1>2, <1>7 DEF s

\* A state rests on its own files only.
LEMMA SoundFrame ==
  ASSUME NEW files, NEW newer, NEW s, SoundOn(s, files),
         s.base \subseteq DOMAIN newer, \A h \in s.base : newer[h] = files[h]
  PROVE  SoundOn(s, newer)
<1>1. Declared(s.base, newer) = Declared(s.base, files)
  BY DEF Declared
<1>2. Apart(s.base, newer)
  BY DEF Apart, SoundOn
<1> QED BY <1>1, <1>2 DEF SoundOn
----------------------------------------------------------------------------
(* Requests *)

LEMMA RequestType ==
  ASSUME NEW r \in Request
  PROVE  /\ r.op \in {"execute", "save", "load"} /\ r.late \in BOOLEAN
         /\ r.op = "execute" => r.code \in Codes /\ r.parent \in State
  BY DEF Request

LEMMA Pushed ==
  ASSUME NEW q \in Seq(Request), NEW r \in Request
  PROVE  /\ Append(q, r) \in Seq(Request) /\ Append(q, r) # <<>>
         /\ Len(q) \in Nat /\ Len(Append(q, r)) = Len(q) + 1
         /\ \A i \in 1..Len(q) : Append(q, r)[i] = q[i]
         /\ Append(q, r)[Len(q) + 1] = r
         /\ q # <<>> => Head(Append(q, r)) = Head(q)
<1>1. /\ Append(q, r) \in Seq(Request) /\ Append(q, r) # <<>>
      /\ Len(q) \in Nat /\ Len(Append(q, r)) = Len(q) + 1
      /\ \A i \in 1..Len(q) : Append(q, r)[i] = q[i]
      /\ Append(q, r)[Len(q) + 1] = r
  BY LenProperties, AppendProperties
<1>2. ASSUME q # <<>> PROVE Head(Append(q, r)) = Head(q)
  <2>1. Len(q) >= 1
    BY <1>2, <1>1, EmptySeq
  <2>2. Head(Append(q, r)) = Append(q, r)[1] /\ Head(q) = q[1]
    BY <1>1, <1>2, HeadTailProperties
  <2> QED BY <1>1, <2>1, <2>2
<1> QED BY <1>1, <1>2

LEMMA Popped ==
  ASSUME NEW q \in Seq(Request), q # <<>>
  PROVE  /\ Head(q) = q[1] /\ Head(q) \in Request /\ Len(q) \in Nat /\ Len(q) >= 1
         /\ Tail(q) \in Seq(Request) /\ Len(Tail(q)) = Len(q) - 1
         /\ \A i \in 1..Len(Tail(q)) : i + 1 \in 1..Len(q) /\ Tail(q)[i] = q[i + 1]
         /\ Len(q) = 1 => Tail(q) = <<>>
<1>1. /\ Head(q) = q[1] /\ Head(q) \in Request /\ Len(q) \in Nat /\ Len(q) >= 1
  BY HeadTailProperties, LenProperties, EmptySeq
<1>2. /\ Tail(q) \in Seq(Request) /\ Len(Tail(q)) = Len(q) - 1
      /\ \A i \in 1..Len(Tail(q)) : Tail(q)[i] = q[i + 1]
  BY HeadTailProperties
<1>3. ASSUME Len(q) = 1 PROVE Tail(q) = <<>>
  <2>1. Len(Tail(q)) = 0
    BY <1>2, <1>3
  <2> QED BY <1>2, <2>1, EmptySeq
<1> QED BY <1>1, <1>2, <1>3

\* Whoever waits for the request being served waits for nothing else.
LEMMA AwaitedIsAlone ==
  ASSUME TypeOK, QueueInv, queue # <<>>, ~Head(queue).late
  PROVE  Len(queue) = 1 /\ Tail(queue) = <<>> /\ Awaited = Head(queue).op
<1>1. queue \in Seq(Request)
  BY DEF TypeOK
<1>2. Head(queue) = queue[1] /\ 1 \in 1..Len(queue) /\ (Len(queue) = 1 => Tail(queue) = <<>>)
  BY <1>1, Popped
<1> QED BY <1>2 DEF QueueInv

LEMMA EmptyQueue == <<>> \in Seq(Request) /\ Len(<<>>) = 0 /\ 1..Len(<<>>) = {}
  OBVIOUS

----------------------------------------------------------------------------
(* What a worker holds of the ledger *)

\* A sequence is a subsequence of each one that it begins ...
LEMMA BeginningOf ==
  ASSUME NEW s \in Seq(Codes), NEW t \in Seq(Codes), Begins(s, t)
  PROVE  IsSubsequence(s, t) /\ (Len(s) = Len(t) => s = t)
<1> DEFINE f == [n \in 1..Len(s) |-> n]
<1>1. Len(s) \in Nat /\ Len(t) \in Nat /\ Len(s) <= Len(t) /\ \A i \in 1..Len(s) : s[i] = t[i]
  BY LenProperties DEF Begins
<1>2. f \in [1..Len(s) -> 1..Len(t)]
  BY <1>1
<1>3. /\ \A m, n \in 1..Len(s) : m < n => f[m] < f[n]
      /\ \A n \in 1..Len(s) : s[n] = t[f[n]]
  BY <1>1
<1>4. IsSubsequence(s, t)
  BY <1>2, <1>3 DEF IsSubsequence
<1>5. ASSUME Len(s) = Len(t) PROVE s = t
  BY <1>1, <1>5, SeqEqual
<1> QED BY <1>4, <1>5

\* ... and both may grow by the same element.
LEMMA SubsequenceAppend ==
  ASSUME NEW s \in Seq(Codes), NEW t \in Seq(Codes), NEW c \in Codes, IsSubsequence(s, t)
  PROVE  IsSubsequence(Append(s, c), Append(t, c))
<1>1. PICK f \in [1..Len(s) -> 1..Len(t)] :
        /\ \A m, n \in 1..Len(s) : m < n => f[m] < f[n]
        /\ \A n \in 1..Len(s) : s[n] = t[f[n]]
  BY DEF IsSubsequence
<1> DEFINE u == Append(s, c)
           v == Append(t, c)
           g == [n \in 1..Len(u) |-> IF n \in 1..Len(s) THEN f[n] ELSE Len(v)]
<1>2. /\ Len(u) = Len(s) + 1 /\ Len(s) \in Nat /\ Len(v) = Len(t) + 1 /\ Len(t) \in Nat
      /\ \A n \in 1..Len(s) : u[n] = s[n]
      /\ \A n \in 1..Len(t) : v[n] = t[n]
      /\ u[Len(u)] = c /\ v[Len(v)] = c
  BY LenProperties, AppendProperties
<1> HIDE DEF u, v
<1>3. /\ \A n \in 1..Len(s) : g[n] = f[n] /\ f[n] \in 1..Len(t)
      /\ g[Len(u)] = Len(v)
      /\ \A n \in 1..Len(u) : n \in 1..Len(s) \/ n = Len(u)
  <2>1. \A n \in 1..Len(s) : f[n] \in 1..Len(t)
    BY <1>1
  <2>2. \A n \in 1..Len(s) : n \in 1..Len(u)
    BY <1>2
  <2>3. Len(u) \in 1..Len(u) /\ Len(u) \notin 1..Len(s)
    BY <1>2
  <2>4. \A n \in 1..Len(u) : n \in 1..Len(s) \/ n = Len(u)
    BY <1>2
  <2> QED BY <2>1, <2>2, <2>3, <2>4
<1>4. g \in [1..Len(u) -> 1..Len(v)]
  BY <1>1, <1>2
<1> HIDE DEF g
<1>5. ASSUME NEW m \in 1..Len(u), NEW n \in 1..Len(u), m < n
      PROVE  g[m] < g[n]
  <2>1. m \in 1..Len(s) /\ g[m] = f[m] /\ f[m] \in 1..Len(t)
    BY <1>2, <1>3, <1>5
  <2>2. CASE n = Len(u)
    BY <1>2, <1>3, <2>1, <2>2
  <2>3. CASE n \in 1..Len(s)
    BY <1>1, <1>3, <1>5, <2>1, <2>3
  <2> QED BY <1>3, <2>2, <2>3
<1>6. ASSUME NEW n \in 1..Len(u)
      PROVE  u[n] = v[g[n]]
  <2>1. CASE n \in 1..Len(s)
    BY <1>1, <1>2, <1>3, <2>1
  <2>2. CASE n = Len(u)
    BY <1>2, <1>3, <2>2
  <2> QED BY <1>3, <2>1, <2>2
<1>7. IsSubsequence(u, v)
  BY <1>4, <1>5, <1>6 DEF IsSubsequence
<1> QED BY <1>7 DEF u, v

LEMMA RendersSelf ==
  ASSUME NEW s \in Seq(Codes), s = ledger
  PROVE  Renders(s)
<1>1. Begins(s, s)
  BY LenProperties DEF Begins
<1>2. IsSubsequence(s, s)
  BY <1>1, BeginningOf
<1> QED BY <1>2 DEF Renders

----------------------------------------------------------------------------
(* What is not disturbed *)

\* `cut` is never taken back, and a shorter state than the ledger stays one.
LEMMA LedgerFrame ==
  ASSUME LedgerInv, UNCHANGED <<ledger, stands>>, cut => cut',
         asked' = "save" => snap'.scope = stands,
         alive' /\ asked' \in {"nothing", "execute", "save", "key"} => Renders(snap'.scope)
  PROVE  LedgerInv'
<1>1. IsSubsequence(stands, ledger) /\ (~cut => stands = ledger)
  BY DEF LedgerInv, Renders
<1> HIDE DEF IsSubsequence
<1>2. Renders(stands)'
  BY <1>1 DEF Renders
<1>3. ASSUME alive' /\ asked' \in {"nothing", "execute", "save", "key"} PROVE Renders(snap.scope)'
  <2>1. IsSubsequence(snap'.scope, ledger) /\ (~cut => snap'.scope = ledger)
    BY <1>3 DEF Renders
  <2> QED BY <2>1 DEF Renders
<1> HIDE DEF Renders
<1> QED BY <1>2, <1>3 DEF LedgerInv

\* No replay and no load is under way.
LEMMA ReplayFrame ==
  ASSUME asked' \notin {"load", "replay"}
  PROVE  ReplayInv'
  BY DEF ReplayInv

LEMMA SavedFrame ==
  ASSUME LedgerSaved, UNCHANGED <<stands, fileVars>>
  PROVE  LedgerSaved'
  BY DEF LedgerSaved, fileVars

LEMMA KeyFrame ==
  ASSUME KeyInv, UNCHANGED <<ledger, stands, key, fileVars>>,
         (asked' \in {"save", "key"} \/ \E i \in 1..Len(queue') : queue'[i].op = "save")
           => asked \in {"save", "key"} \/ \E i \in 1..Len(queue) : queue[i].op = "save",
         asked' \in {"key", "load"} => LedgerSaved
  PROVE  KeyInv'
<1>1. LedgerSaved => LedgerSaved'
  BY SavedFrame
<1>2. \A k \in key : k.ledger \in Seq(Codes) /\ Len(k.ledger) <= Len(ledger)
  BY DEF KeyInv
<1>3. (asked' \in {"save", "key"} \/ \E i \in 1..Len(queue') : queue'[i].op = "save")
        => \A k \in key : Len(k.ledger) < Len(ledger)
  BY DEF KeyInv
<1>4. \A k \in key : k.ledger = ledger => LedgerSaved
  BY DEF KeyInv
<1> HIDE DEF LedgerSaved
<1> QED BY <1>1, <1>2, <1>3, <1>4 DEF KeyInv

\* A worker that was just started.
LEMMA StartedFrame ==
  ASSUME cur' = Fresh(<<>>), snap' = Fresh(<<>>), \A i \in 1..Len(queue') : queue'[i].op # "execute"
  PROVE  StatesInv'
<1>1. <<>> \in Seq(Codes)
  BY EmptySeq
<1>2. SoundOn(Fresh(<<>>), olean') /\ Fresh(<<>>).base = {}
  BY <1>1, FreshSound
<1> QED BY <1>2 DEF StatesInv

LEMMA StartedReplay ==
  ASSUME ledger' \in Seq(Codes), snap' = Fresh(<<>>), alive', asked' = "replay" => queue' = <<>>
  PROVE  ReplayInv'
<1>1. snap'.scope = <<>> /\ Len(<<>>) = 0 /\ 1..Len(<<>>) = {}
  BY EmptyQueue DEF Fresh
<1>2. Begins(snap.scope, ledger)'
  BY <1>1, LenProperties DEF Begins
<1> QED BY <1>1, <1>2 DEF ReplayInv

LEMMA FreshType == Fresh(<<>>) \in State
<1>1. <<>> \in Seq(Codes)
  BY EmptySeq
<1> QED BY <1>1, FreshSound

\* A worker that is gone.
LEMMA GoneFrame ==
  ASSUME TypeOK, LedgerInv, NoWorker, UNCHANGED <<ledger, pastVars>>, asked' # "save"
  PROVE  /\ StatesInv' /\ LedgerInv' /\ SaveInv'
         /\ cur' \in State /\ alive' \in BOOLEAN /\ queue' \in Seq(Request) /\ writing' \in 0..6
         /\ ~alive' /\ queue' = <<>> /\ 1..Len(queue') = {}
<1>1. StatesInv' /\ LedgerInv' /\ SaveInv'
  <2>1. ~alive' /\ writing' = 0
    BY DEF NoWorker
  <2>2. LedgerInv'
    BY <2>1, LedgerFrame DEF pastVars
  <2> QED BY <2>1, <2>2 DEF StatesInv, SaveInv
<1>2. ~alive' /\ alive' \in BOOLEAN
  BY DEF NoWorker
<1>3. queue' = <<>> /\ cur' \in State /\ writing' \in 0..6
  BY FreshType DEF NoWorker
<1>4. queue' \in Seq(Request) /\ 1..Len(queue') = {}
  BY <1>3, EmptyQueue
<1> QED BY <1>1, <1>2, <1>3, <1>4

----------------------------------------------------------------------------
(* The kernel's thread *)

LEMMA RunsCellStep ==
  ASSUME CacheInv, NEW code \in Codes, RunsCell(code)
  PROVE  CacheInv'
<1> DEFINE r == [op |-> "execute", late |-> FALSE, code |-> code, parent |-> snap]
<1>1. r \in Request
  BY DEF CacheInv, TypeOK, Request
<1>2. /\ queue \in Seq(Request) /\ queue' = Append(queue, r) /\ alive
      /\ asked = "nothing" /\ asked' = "execute"
      /\ UNCHANGED <<ledger, snap, key, fileVars, alive, cur, writing, faults, pastVars>>
  BY DEF CacheInv, TypeOK, RunsCell
<1>3. /\ queue' \in Seq(Request) /\ queue' # <<>>
      /\ Len(queue) \in Nat /\ Len(queue') = Len(queue) + 1
      /\ \A i \in 1..Len(queue) : queue'[i] = queue[i]
      /\ queue'[Len(queue) + 1] = r
      /\ queue # <<>> => Head(queue') = Head(queue)
  BY <1>1, <1>2, Pushed
<1>4. r.op = "execute" /\ r.late = FALSE /\ r.parent = snap
  OBVIOUS
<1> HIDE DEF r
<1>5. \A i \in 1..Len(queue') : i \in 1..Len(queue) \/ i = Len(queue) + 1
  BY <1>3
<1>6. \A i \in 1..Len(queue) : queue[i] \in Request /\ queue[i].op \in {"execute", "save", "load"}
  BY <1>2, ElementOfSeq, RequestType
<1>7. TypeOK'
  BY <1>2, <1>3 DEF CacheInv, TypeOK, fileVars, pastVars
<1>8. Linked(olean)'
  BY <1>2 DEF CacheInv, Linked, fileVars
<1>9. StatesInv'
  <2>1. SoundOn(cur, olean) /\ SoundOn(snap, olean) /\ snap.base = cur.base
    BY <1>2 DEF CacheInv, StatesInv
  <2>2. ASSUME NEW i \in 1..Len(queue'), queue'[i].op = "execute"
        PROVE  SoundOn(queue'[i].parent, olean) /\ queue'[i].parent.base = cur.base
    <3>1. CASE i \in 1..Len(queue)
      BY <1>2, <1>3, <2>2, <3>1 DEF CacheInv, StatesInv
    <3>2. CASE i = Len(queue) + 1
      BY <1>3, <1>4, <2>1, <3>2
    <3> QED BY <1>5, <3>1, <3>2
  <2> QED BY <1>2, <2>1, <2>2 DEF StatesInv, fileVars
<1>10. LedgerInv' /\ ReplayInv'
  BY <1>2, LedgerFrame, ReplayFrame DEF CacheInv, LedgerInv, pastVars
<1>11. QueueInv'
  <2>1. ASSUME NEW i \in 1..Len(queue)
        PROVE  queue[i].late /\ queue[i].op # "load"
    BY <1>2, <1>6 DEF CacheInv, QueueInv, Awaited
  <2>2. ASSUME NEW i \in 1..Len(queue')
        PROVE  /\ queue'[i].op = "load" => asked' = "load"
               /\ ~queue'[i].late =>
                    /\ i = Len(queue') /\ queue'[i].op = asked'
                    /\ queue'[i].op = "execute" => queue'[i].parent = snap'
    BY <1>2, <1>3, <1>4, <1>5, <2>1
  <2> QED BY <1>2, <2>2 DEF QueueInv, Awaited
<1>12. KeyInv'
  <2>1. (\E i \in 1..Len(queue') : queue'[i].op = "save") => \E i \in 1..Len(queue) : queue[i].op = "save"
    BY <1>3, <1>4, <1>5
  <2> QED BY <1>2, <2>1, KeyFrame DEF CacheInv, pastVars
<1>13. SaveInv'
  BY <1>2, <1>3 DEF CacheInv, SaveInv, Serving, fileVars
<1> QED BY <1>7, <1>8, <1>9, <1>10, <1>11, <1>12, <1>13 DEF CacheInv

LEMMA RestartsStep ==
  ASSUME CacheInv, Restarts
  PROVE  CacheInv'
<1> DEFINE r == [op |-> "load", late |-> FALSE]
<1>1. r \in Request /\ <<r>> \in Seq(Request) /\ Len(<<r>>) = 1 /\ <<r>>[1] = r
  BY DEF Request
<1>2. /\ ~alive /\ alive' = TRUE /\ cur' = Fresh(<<>>) /\ snap' = Fresh(<<>>)
      /\ UNCHANGED <<ledger, key, fileVars, writing, faults, pastVars>>
      /\ asked' = "load" \/ asked' = "replay"
      /\ asked' = "load" => queue' = <<r>> /\ key = {Descriptor}
      /\ asked' = "replay" => queue' = <<>>
  BY DEF Restarts, Matches
<1>3. r.op = "load" /\ r.late = FALSE
  OBVIOUS
<1> HIDE DEF r
<1>4. /\ queue' \in Seq(Request)
      /\ \A i \in 1..Len(queue') : /\ i = 1 /\ Len(queue') = 1 /\ asked' = "load"
                                   /\ queue'[i].op = "load" /\ queue'[i].late = FALSE
  <2>1. CASE asked' = "load"
    <3>1. queue' = <<r>>
      BY <1>2, <2>1
    <3>2. Len(queue') = 1 /\ queue'[1] = r
      BY <1>1, <3>1
    <3> QED BY <1>1, <1>3, <2>1, <3>1, <3>2
  <2>2. CASE asked' = "replay"
    BY <1>2, <2>2, EmptyQueue
  <2> QED BY <1>2, <2>1, <2>2
<1>5. TypeOK'
  BY <1>2, <1>4, FreshType DEF CacheInv, TypeOK, fileVars, pastVars
<1>6. Linked(olean)'
  BY <1>2 DEF CacheInv, Linked, fileVars
<1>7. StatesInv'
  BY <1>2, <1>4, StartedFrame
<1>8. LedgerInv' /\ ReplayInv'
  <2>1. LedgerInv'
    BY <1>2, LedgerFrame DEF CacheInv, pastVars
  <2>2. ledger' \in Seq(Codes)
    BY <1>2 DEF CacheInv, TypeOK
  <2> QED BY <1>2, <2>1, <2>2, StartedReplay
<1>9. QueueInv'
  <2>1. asked' = "load" => Len(queue') = 1 /\ ~queue'[1].late
    BY <1>1, <1>2, <1>3
  <2> QED BY <1>2, <1>4, <2>1 DEF QueueInv, Awaited
<1>10. KeyInv'
  <2>1. ASSUME asked' = "load" PROVE LedgerSaved
    <3>1. Descriptor \in key /\ Descriptor.ledger = ledger
      BY <1>2, <2>1 DEF Descriptor
    <3> QED BY <3>1 DEF CacheInv, KeyInv
  <2> QED BY <1>2, <1>4, <2>1, KeyFrame DEF CacheInv, pastVars
<1>11. SaveInv'
  <2>1. writing = 0
    BY <1>2 DEF CacheInv, SaveInv, Serving, TypeOK
  <2> QED BY <1>2, <2>1 DEF SaveInv
<1> QED BY <1>5, <1>6, <1>7, <1>8, <1>9, <1>10, <1>11 DEF CacheInv

LEMMA LoadLostStep ==
  ASSUME CacheInv, LoadLost
  PROVE  CacheInv'
<1>1. /\ ~alive /\ alive' = TRUE /\ cur' = Fresh(<<>>) /\ snap' = Fresh(<<>>)
      /\ asked' = "replay" /\ queue' = queue
      /\ UNCHANGED <<ledger, key, fileVars, writing, faults, pastVars>>
  BY DEF LoadLost
<1>2. queue = <<>> /\ 1..Len(queue') = {}
  BY <1>1, EmptyQueue DEF CacheInv, QueueInv
<1>3. TypeOK'
  BY <1>1, FreshType DEF CacheInv, TypeOK, fileVars, pastVars
<1>4. Linked(olean)'
  BY <1>1 DEF CacheInv, Linked, fileVars
<1>5. StatesInv'
  BY <1>1, <1>2, StartedFrame
<1>6. LedgerInv' /\ ReplayInv' /\ QueueInv'
  <2>1. LedgerInv'
    BY <1>1, LedgerFrame DEF CacheInv, pastVars
  <2>2. ledger' \in Seq(Codes) /\ queue' = <<>>
    BY <1>1, <1>2 DEF CacheInv, TypeOK
  <2>3. ReplayInv'
    BY <1>1, <2>2, StartedReplay
  <2> QED BY <1>1, <1>2, <2>1, <2>3 DEF QueueInv
<1>7. KeyInv'
  BY <1>1, <1>2, KeyFrame DEF CacheInv, pastVars
<1>8. SaveInv'
  <2>1. writing = 0
    BY <1>1 DEF CacheInv, SaveInv, Serving, TypeOK
  <2> QED BY <1>1, <2>1 DEF SaveInv
<1> QED BY <1>3, <1>4, <1>5, <1>6, <1>7, <1>8 DEF CacheInv

\* Where a replay stands.
LEMMA ReplayFacts ==
  ASSUME CacheInv, asked = "replay"
  PROVE  /\ ledger \in Seq(Codes) /\ snap \in State /\ snap.scope \in Seq(Codes)
         /\ Len(ledger) \in Nat /\ Len(snap.scope) \in Nat /\ alive
         /\ Begins(snap.scope, ledger) /\ IsSubsequence(snap.scope, ledger)
         /\ Len(snap.scope) = Len(ledger) => snap.scope = ledger
<1>1. /\ ledger \in Seq(Codes) /\ snap \in State /\ snap.scope \in Seq(Codes)
      /\ Len(ledger) \in Nat /\ Len(snap.scope) \in Nat
  BY LenProperties DEF CacheInv, TypeOK, State
<1>2. alive /\ Begins(snap.scope, ledger)
  BY DEF CacheInv, ReplayInv
<1> QED BY <1>1, <1>2, BeginningOf

\* A replay that is left halfway leaves the first cells of the ledger.
LEMMA LedgerCut ==
  ASSUME CacheInv, asked = "replay", cut' = TRUE, asked' = "nothing",
         UNCHANGED <<ledger, snap, stands>>
  PROVE  LedgerInv'
<1>1. IsSubsequence(snap.scope, ledger) /\ IsSubsequence(stands, ledger)
  BY ReplayFacts DEF CacheInv, LedgerInv, Renders
<1> HIDE DEF IsSubsequence
<1>2. Renders(stands)' /\ Renders(snap.scope)'
  BY <1>1 DEF Renders
<1> HIDE DEF Renders
<1> QED BY <1>2 DEF LedgerInv

LEMMA ReplaysCellStep ==
  ASSUME CacheInv, ReplaysCell
  PROVE  CacheInv'
<1> DEFINE r == [op |-> "execute", late |-> FALSE,
                 code |-> ledger[Len(snap.scope) + 1], parent |-> snap]
<1>1. /\ asked = "replay" /\ alive /\ queue = <<>> /\ Len(snap.scope) < Len(ledger)
      /\ queue' = <<r>>
      /\ UNCHANGED <<clientVars, key, fileVars, alive, cur, writing, faults, pastVars>>
  BY DEF ReplaysCell
<1>2. /\ snap \in State /\ ledger[Len(snap.scope) + 1] \in Codes
      /\ Begins(snap.scope, ledger)
  BY <1>1, ReplayFacts, ElementOfSeq
<1>3. r \in Request
  BY <1>2 DEF Request
<1>4. r.op = "execute" /\ r.late = FALSE /\ r.parent = snap /\ r.code = ledger[Len(snap.scope) + 1]
  OBVIOUS
<1> HIDE DEF r
<1>5. /\ queue' \in Seq(Request) /\ Len(queue') = 1 /\ queue'[1] = r
      /\ \A i \in 1..Len(queue') : i = 1
  BY <1>1, <1>3
<1>6. asked' = "replay" /\ snap' = snap /\ ledger' = ledger
  BY <1>1 DEF clientVars
<1>7. TypeOK'
  BY <1>1, <1>5, <1>6 DEF CacheInv, TypeOK, fileVars, pastVars
<1>8. Linked(olean)'
  BY <1>1 DEF CacheInv, Linked, fileVars
<1>9. StatesInv'
  BY <1>1, <1>4, <1>5, <1>6 DEF CacheInv, StatesInv, fileVars
<1>10. LedgerInv'
  BY <1>1, <1>6, LedgerFrame DEF CacheInv, pastVars
<1>11. ReplayInv' /\ QueueInv'
  BY <1>1, <1>2, <1>4, <1>5, <1>6 DEF ReplayInv, QueueInv, Awaited
<1>12. KeyInv'
  BY <1>1, <1>4, <1>5, <1>6, KeyFrame DEF CacheInv, pastVars
<1>13. SaveInv'
  <2>1. writing = 0
    BY <1>1 DEF CacheInv, SaveInv, Serving, TypeOK
  <2> QED BY <1>1, <2>1 DEF SaveInv
<1> QED BY <1>7, <1>8, <1>9, <1>10, <1>11, <1>12, <1>13 DEF CacheInv

LEMMA ReplayEndsStep ==
  ASSUME CacheInv, ReplayEnds
  PROVE  CacheInv'
<1>1. /\ asked = "replay" /\ alive /\ queue = <<>> /\ asked' = "nothing"
      /\ Len(snap.scope) = Len(ledger)
      /\ UNCHANGED <<ledger, snap, key, fileVars, workerVars, faults, pastVars>>
  BY DEF ReplayEnds
<1>2. snap.scope = ledger /\ snap.scope \in Seq(Codes)
  BY <1>1, ReplayFacts
<1>3. queue' = queue /\ 1..Len(queue) = {}
  BY <1>1, EmptyQueue DEF workerVars
<1>4. TypeOK'
  BY <1>1 DEF CacheInv, TypeOK, fileVars, workerVars, pastVars
<1>5. Linked(olean)'
  BY <1>1 DEF CacheInv, Linked, fileVars
<1>6. StatesInv'
  BY <1>1 DEF CacheInv, StatesInv, fileVars, workerVars
<1>7. LedgerInv' /\ ReplayInv'
  <2>1. Renders(snap'.scope)
    BY <1>1, <1>2, RendersSelf
  <2> QED BY <1>1, <2>1, LedgerFrame, ReplayFrame DEF CacheInv, pastVars
<1>8. QueueInv'
  BY <1>1, <1>3 DEF QueueInv
<1>9. KeyInv'
  BY <1>1, <1>3, KeyFrame DEF CacheInv, pastVars
<1>10. SaveInv'
  BY <1>1 DEF CacheInv, SaveInv, Serving, fileVars, workerVars
<1> QED BY <1>4, <1>5, <1>6, <1>7, <1>8, <1>9, <1>10 DEF CacheInv

LEMMA ReplayDivergesStep ==
  ASSUME CacheInv, ReplayDiverges
  PROVE  CacheInv'
<1>1. /\ asked = "replay" /\ queue # <<>> /\ asked' = "nothing"
      /\ UNCHANGED <<ledger, snap, key, fileVars, faults, stands>>
      /\ \/ NoWorker /\ cut' = cut
         \/ queue' = Tail(queue) /\ cut' = TRUE /\ UNCHANGED <<alive, cur, writing>>
  BY DEF ReplayDiverges
<1>2. Linked(olean)' /\ ReplayInv'
  BY <1>1, ReplayFrame DEF CacheInv, Linked, fileVars
<1>3. CASE NoWorker /\ cut' = cut
  <2>1. /\ StatesInv' /\ LedgerInv' /\ SaveInv'
        /\ cur' \in State /\ alive' \in BOOLEAN /\ queue' \in Seq(Request) /\ writing' \in 0..6
        /\ ~alive' /\ queue' = <<>> /\ 1..Len(queue') = {}
    BY <1>1, <1>3, GoneFrame DEF CacheInv, pastVars
  <2>2. TypeOK'
    BY <1>1, <1>3, <2>1 DEF CacheInv, TypeOK, fileVars, pastVars
  <2>3. QueueInv'
    BY <1>1, <2>1 DEF QueueInv
  <2>4. KeyInv'
    BY <1>1, <2>1, KeyFrame DEF CacheInv
  <2> QED BY <1>2, <2>1, <2>2, <2>3, <2>4 DEF CacheInv
<1>4. CASE queue' = Tail(queue) /\ cut' = TRUE /\ UNCHANGED <<alive, cur, writing>>
  <2>1. queue \in Seq(Request) /\ Len(queue) = 1 /\ queue[1].op = "execute"
    BY <1>1 DEF CacheInv, TypeOK, ReplayInv
  <2>2. queue' = <<>> /\ 1..Len(queue') = {} /\ queue' \in Seq(Request) /\ Head(queue) = queue[1]
    BY <1>1, <1>4, <2>1, Popped, EmptyQueue
  <2>3. TypeOK'
    BY <1>1, <1>4, <2>2 DEF CacheInv, TypeOK, fileVars, pastVars
  <2>4. StatesInv'
    BY <1>1, <1>4, <2>2 DEF CacheInv, StatesInv, fileVars
  <2>5. LedgerInv'
    BY <1>1, <1>4, LedgerCut DEF CacheInv
  <2>6. QueueInv'
    BY <1>1, <2>2 DEF QueueInv
  <2>7. KeyInv'
    BY <1>1, <2>2, KeyFrame DEF CacheInv
  <2>8. SaveInv'
    <3>1. writing = 0
      BY <2>1, <2>2 DEF CacheInv, SaveInv, Serving, TypeOK
    <3> QED BY <1>4, <3>1 DEF SaveInv
  <2> QED BY <1>2, <2>3, <2>4, <2>5, <2>6, <2>7, <2>8 DEF CacheInv
<1> QED BY <1>1, <1>3, <1>4

\* Whatever is late keeps its place.
Late(q) == [i \in 1..Len(q) |-> [q[i] EXCEPT !.late = TRUE]]

LEMMA LateQueue ==
  ASSUME NEW q \in Seq(Request)
  PROVE  /\ Late(q) \in Seq(Request) /\ Len(Late(q)) = Len(q)
         /\ q # <<>> => Late(q) # <<>> /\ Head(Late(q)).op = Head(q).op
         /\ \A i \in 1..Len(q) : Late(q)[i].late = TRUE /\ Late(q)[i].op = q[i].op
         /\ \A i \in 1..Len(q) :
              q[i].op = "execute" => Late(q)[i].parent = q[i].parent
<1> DEFINE n == Late(q)
<1>1. Len(q) \in Nat /\ \A i \in 1..Len(q) : q[i] \in Request
  BY LenProperties, ElementOfSeq
<1>2. ASSUME NEW r \in Request
      PROVE  /\ [r EXCEPT !.late = TRUE] \in Request
             /\ [r EXCEPT !.late = TRUE].late = TRUE /\ [r EXCEPT !.late = TRUE].op = r.op
             /\ r.op = "execute" => [r EXCEPT !.late = TRUE].parent = r.parent
  <2>1. CASE r \in [op : {"execute"}, late : BOOLEAN, code : Codes, parent : State]
    BY <2>1 DEF Request
  <2>2. CASE r \in [op : {"save", "load"}, late : BOOLEAN]
    BY <2>2 DEF Request
  <2> QED BY <2>1, <2>2 DEF Request
<1>3. \A i \in 1..Len(q) : /\ n[i] \in Request /\ n[i].late = TRUE /\ n[i].op = q[i].op
                           /\ q[i].op = "execute" => n[i].parent = q[i].parent
  BY <1>1, <1>2 DEF Late
<1>4. n \in Seq(Request) /\ Len(n) = Len(q)
  <2>1. n = [i \in 1..Len(q) |-> n[i]]
    BY DEF Late
  <2> HIDE DEF n
  <2> QED BY <1>1, <1>3, <2>1, IsASeq, LenProperties
<1> HIDE DEF n
<1>5. ASSUME q # <<>> PROVE n # <<>> /\ Head(n).op = Head(q).op
  <2>1. Head(q) = q[1] /\ Len(q) >= 1
    BY <1>5, Popped
  <2>2. n # <<>>
    BY <1>4, <2>1, EmptySeq
  <2>3. Head(n) = n[1]
    BY <1>4, <2>2, Popped
  <2> QED BY <1>1, <1>3, <2>1, <2>2, <2>3
<1> QED BY <1>3, <1>4, <1>5 DEF n

LEMMA TimesOutStep ==
  ASSUME CacheInv, TimesOut
  PROVE  CacheInv'
<1>1. /\ asked \in {"execute", "save", "replay"} /\ asked' = "nothing" /\ alive
      /\ faults < MaxFaults /\ faults' = faults + 1
      /\ queue' = [i \in 1..Len(queue) |-> [queue[i] EXCEPT !.late = TRUE]]
      /\ cut' = (cut \/ asked = "replay")
      /\ UNCHANGED <<ledger, snap, key, fileVars, alive, cur, writing, stands>>
  BY DEF TimesOut
<1>2. /\ queue \in Seq(Request) /\ queue' \in Seq(Request) /\ Len(queue') = Len(queue)
      /\ queue # <<>> => queue' # <<>> /\ Head(queue').op = Head(queue).op
      /\ \A i \in 1..Len(queue) : queue'[i].late = TRUE /\ queue'[i].op = queue[i].op
      /\ \A i \in 1..Len(queue) : queue[i].op = "execute" => queue'[i].parent = queue[i].parent
  <2>1. queue \in Seq(Request)
    BY DEF CacheInv, TypeOK
  <2>2. queue' = Late(queue)
    BY <1>1 DEF Late
  <2> QED BY <2>1, <2>2, LateQueue
<1>3. TypeOK'
  <2>1. faults' \in 0..MaxFaults
    BY <1>1, SessionCacheAssumption DEF CacheInv, TypeOK
  <2> QED BY <1>1, <1>2, <2>1 DEF CacheInv, TypeOK, fileVars, pastVars
<1>4. Linked(olean)'
  BY <1>1 DEF CacheInv, Linked, fileVars
<1>5. StatesInv'
  BY <1>1, <1>2 DEF CacheInv, StatesInv, fileVars
<1>6. LedgerInv' /\ ReplayInv'
  <2>1. ASSUME asked = "replay" PROVE LedgerInv'
    <3>1. cut' = TRUE
      BY <1>1, <2>1
    <3> QED BY <1>1, <2>1, <3>1, LedgerCut
  <2>2. ASSUME asked # "replay" PROVE LedgerInv'
    <3>1. cut => cut'
      BY <1>1
    <3> QED BY <1>1, <2>2, <3>1, LedgerFrame DEF CacheInv, LedgerInv
  <2> QED BY <1>1, <2>1, <2>2, ReplayFrame
<1>7. QueueInv'
  BY <1>1, <1>2 DEF CacheInv, QueueInv
<1>8. KeyInv'
  BY <1>1, <1>2, KeyFrame DEF CacheInv, pastVars
<1>9. SaveInv'
  BY <1>1, <1>2 DEF CacheInv, SaveInv, Serving, fileVars
<1> QED BY <1>3, <1>4, <1>5, <1>6, <1>7, <1>8, <1>9 DEF CacheInv

LEMMA WritesKeyStep ==
  ASSUME CacheInv, WritesKey
  PROVE  CacheInv'
<1>1. /\ asked = "key" /\ asked' = "nothing" /\ key' = {Descriptor}
      /\ UNCHANGED <<ledger, snap, fileVars, workerVars, faults, pastVars>>
  BY DEF WritesKey
<1>2. Descriptor.ledger = ledger /\ ledger \in Seq(Codes) /\ Len(ledger) \in Nat
  BY LenProperties DEF Descriptor, CacheInv, TypeOK
<1> HIDE DEF Descriptor
<1>3. queue = <<>> /\ 1..Len(queue) = {}
  BY <1>1, EmptyQueue DEF CacheInv, QueueInv
<1>4. TypeOK'
  BY <1>1, <1>2 DEF CacheInv, TypeOK, fileVars, workerVars, pastVars
<1>5. Linked(olean)'
  BY <1>1 DEF CacheInv, Linked, fileVars
<1>6. StatesInv'
  BY <1>1 DEF CacheInv, StatesInv, fileVars, workerVars
<1>7. LedgerInv' /\ ReplayInv' /\ QueueInv'
  <2>1. LedgerInv' /\ ReplayInv'
    BY <1>1, LedgerFrame, ReplayFrame DEF CacheInv, LedgerInv, workerVars, pastVars
  <2> QED BY <1>1, <1>3, <2>1 DEF CacheInv, QueueInv, workerVars
<1>8. KeyInv'
  <2>1. LedgerSaved'
    BY <1>1, SavedFrame DEF CacheInv, pastVars, KeyInv
  <2>2. queue' = queue
    BY <1>1 DEF workerVars
  <2> HIDE DEF LedgerSaved
  <2> QED BY <1>1, <1>2, <1>3, <2>1, <2>2 DEF KeyInv
<1>9. SaveInv'
  BY <1>1 DEF CacheInv, SaveInv, Serving, fileVars, workerVars
<1> QED BY <1>4, <1>5, <1>6, <1>7, <1>8, <1>9 DEF CacheInv

LEMMA KeyInterruptedStep ==
  ASSUME CacheInv, KeyInterrupted
  PROVE  CacheInv'
<1>1. /\ asked = "key" /\ asked' = "nothing" /\ key' \in {key, {}}
      /\ faults < MaxFaults /\ faults' = faults + 1
      /\ NoWorker /\ UNCHANGED <<ledger, snap, fileVars, pastVars>>
  BY DEF KeyInterrupted
<1>2. /\ StatesInv' /\ LedgerInv' /\ SaveInv'
      /\ cur' \in State /\ alive' \in BOOLEAN /\ queue' \in Seq(Request) /\ writing' \in 0..6
      /\ ~alive' /\ queue' = <<>> /\ 1..Len(queue') = {}
  BY <1>1, GoneFrame DEF CacheInv, pastVars
<1>3. TypeOK'
  <2>1. faults' \in 0..MaxFaults
    BY <1>1, SessionCacheAssumption DEF CacheInv, TypeOK
  <2> QED BY <1>1, <1>2, <2>1 DEF CacheInv, TypeOK, fileVars, pastVars
<1>4. Linked(olean)'
  BY <1>1 DEF CacheInv, Linked, fileVars
<1>5. QueueInv' /\ ReplayInv'
  BY <1>1, <1>2, ReplayFrame DEF QueueInv
<1>6. KeyInv'
  <2>1. LedgerSaved'
    BY <1>1, SavedFrame DEF CacheInv, pastVars, KeyInv
  <2> HIDE DEF LedgerSaved
  <2> QED BY <1>1, <1>2, <2>1 DEF CacheInv, KeyInv
<1> QED BY <1>2, <1>3, <1>4, <1>5, <1>6 DEF CacheInv

LEMMA ShutdownStep ==
  ASSUME CacheInv, Shutdown
  PROVE  CacheInv'
<1>1. /\ asked' = "closed" /\ key' = {} /\ olean' = [g \in {} |-> {}] /\ scope' = {} /\ head' = {}
      /\ NoWorker /\ UNCHANGED <<ledger, snap, faults, pastVars>>
  BY DEF Shutdown
<1>2. /\ StatesInv' /\ LedgerInv' /\ SaveInv'
      /\ cur' \in State /\ alive' \in BOOLEAN /\ queue' \in Seq(Request) /\ writing' \in 0..6
      /\ ~alive' /\ queue' = <<>> /\ 1..Len(queue') = {}
  BY <1>1, GoneFrame DEF CacheInv, pastVars
<1>3. TypeOK' /\ Linked(olean)'
  BY <1>1, <1>2 DEF CacheInv, TypeOK, Linked, pastVars
<1>4. QueueInv' /\ ReplayInv' /\ KeyInv'
  BY <1>1, <1>2, ReplayFrame DEF QueueInv, KeyInv
<1> QED BY <1>2, <1>3, <1>4 DEF CacheInv

LEMMA DiesStep ==
  ASSUME CacheInv, Dies
  PROVE  CacheInv'
<1>1. /\ asked' = IF asked \in {"execute", "save", "replay"} THEN "nothing" ELSE asked
      /\ faults < MaxFaults /\ faults' = faults + 1
      /\ NoWorker /\ UNCHANGED <<ledger, snap, key, fileVars, pastVars>>
  BY DEF Dies
<1>2. /\ StatesInv' /\ LedgerInv' /\ SaveInv'
      /\ cur' \in State /\ alive' \in BOOLEAN /\ queue' \in Seq(Request) /\ writing' \in 0..6
      /\ ~alive' /\ queue' = <<>> /\ 1..Len(queue') = {}
  BY <1>1, GoneFrame DEF CacheInv, pastVars
<1>3. TypeOK'
  <2>1. faults' \in 0..MaxFaults
    BY <1>1, SessionCacheAssumption DEF CacheInv, TypeOK
  <2> QED BY <1>1, <1>2, <2>1 DEF CacheInv, TypeOK, fileVars, pastVars
<1>4. Linked(olean)'
  BY <1>1 DEF CacheInv, Linked, fileVars
<1>5. QueueInv' /\ ReplayInv'
  BY <1>1, <1>2 DEF CacheInv, QueueInv, ReplayInv
<1>6. KeyInv'
  <2>1. asked' \in {"key", "load"} => LedgerSaved
    BY <1>1 DEF CacheInv, KeyInv
  <2>2. asked' \in {"save", "key"} => asked \in {"save", "key"}
    BY <1>1
  <2> QED BY <1>1, <1>2, <2>1, <2>2, KeyFrame DEF CacheInv, pastVars
<1> QED BY <1>2, <1>3, <1>4, <1>5, <1>6 DEF CacheInv

----------------------------------------------------------------------------
(* The worker *)

LEMMA HeadFacts ==
  ASSUME TypeOK, QueueInv, ReplayInv, queue # <<>>
  PROVE  /\ Head(queue) = queue[1] /\ Head(queue) \in Request /\ 1 \in 1..Len(queue)
         /\ Tail(queue) \in Seq(Request) /\ Len(queue) \in Nat /\ Len(Tail(queue)) = Len(queue) - 1
         /\ \A i \in 1..Len(Tail(queue)) : i + 1 \in 1..Len(queue) /\ Tail(queue)[i] = queue[i + 1]
         /\ Head(queue).late => asked \in {"nothing", "execute"}
         /\ asked = "replay" => ~Head(queue).late /\ Head(queue).op = "execute"
         /\ ~Head(queue).late => /\ Awaited = Head(queue).op
                                 /\ Tail(queue) = <<>> /\ 1..Len(Tail(queue)) = {}
<1>1. queue \in Seq(Request)
  BY DEF TypeOK
<1>2. /\ Head(queue) = queue[1] /\ Head(queue) \in Request /\ 1 \in 1..Len(queue)
      /\ Tail(queue) \in Seq(Request) /\ Len(queue) \in Nat /\ Len(Tail(queue)) = Len(queue) - 1
      /\ \A i \in 1..Len(Tail(queue)) : i + 1 \in 1..Len(queue) /\ Tail(queue)[i] = queue[i + 1]
  BY <1>1, Popped
<1>5. asked = "replay" => ~Head(queue).late /\ Head(queue).op = "execute"
  BY <1>2 DEF ReplayInv
<1>3. ASSUME Head(queue).late PROVE asked \in {"nothing", "execute"}
  <2>1. alive /\ asked \notin {"key", "replay", "closed"}
    BY <1>3, <1>5 DEF QueueInv
  <2>2. asked \notin {"save", "load"}
    BY <1>2, <1>3, <2>1 DEF QueueInv
  <2> QED BY <2>1, <2>2 DEF TypeOK
<1>4. ASSUME ~Head(queue).late
      PROVE  Awaited = Head(queue).op /\ Tail(queue) = <<>> /\ 1..Len(Tail(queue)) = {}
  BY <1>4, AwaitedIsAlone, EmptyQueue
<1> QED BY <1>2, <1>3, <1>4, <1>5

LEMMA AnswerFacts ==
  ASSUME TypeOK, QueueInv, ReplayInv, alive, queue # <<>>, asked # "replay", NEW next \in {"nothing", "key", "replay"},
         Answer(next)
  PROVE  /\ queue' \in Seq(Request) /\ asked' \in {"nothing", "execute", next}
         /\ \A i \in 1..Len(queue') : i + 1 \in 1..Len(queue) /\ queue'[i] = queue[i + 1]
         /\ Head(queue).late => asked' = asked
         /\ ~Head(queue).late => asked' = next /\ 1..Len(queue') = {} /\ asked = Head(queue).op
         /\ UNCHANGED <<alive, snap>> => QueueInv'
<1>1. /\ queue' = Tail(queue)
      /\ Head(queue).late => asked' = asked
      /\ ~Head(queue).late => asked' = next
  BY DEF Answer
<1>2. /\ queue' \in Seq(Request) /\ Len(queue) \in Nat /\ Len(queue') = Len(queue) - 1
      /\ \A i \in 1..Len(queue') : i + 1 \in 1..Len(queue) /\ queue'[i] = queue[i + 1]
      /\ Head(queue).late => asked \in {"nothing", "execute"}
      /\ ~Head(queue).late => /\ asked = Head(queue).op
                              /\ queue' = <<>> /\ 1..Len(queue') = {}
  BY <1>1, HeadFacts DEF Awaited
<1>3. ASSUME UNCHANGED <<alive, snap>> PROVE QueueInv'
  <2>1. CASE ~Head(queue).late
    BY <1>1, <1>2, <1>3, <2>1 DEF QueueInv
  <2>2. CASE Head(queue).late
    <3>1. asked' = asked /\ asked' \in {"nothing", "execute"}
      BY <1>1, <1>2, <2>2
    <3>2. ASSUME NEW i \in 1..Len(queue')
          PROVE  /\ queue'[i].op # "load"
                 /\ ~queue'[i].late =>
                      /\ i = Len(queue') /\ queue'[i].op = asked'
                      /\ queue'[i].op = "execute" => queue'[i].parent = snap'
      <4>1. i + 1 \in 1..Len(queue) /\ queue'[i] = queue[i + 1]
        BY <1>2
      <4>2. /\ queue[i + 1].op # "load"
            /\ ~queue[i + 1].late =>
                 /\ i + 1 = Len(queue) /\ queue[i + 1].op = asked
                 /\ queue[i + 1].op = "execute" => queue[i + 1].parent = snap
        BY <3>1, <4>1 DEF QueueInv, Awaited
      <4> QED BY <1>2, <1>3, <3>1, <4>1, <4>2
    <3> QED BY <1>3, <3>1, <3>2 DEF QueueInv, Awaited
  <2> QED BY <2>1, <2>2
<1> QED BY <1>1, <1>2, <1>3

\* An answer that changes neither states nor files.
LEMMA AnswerFrame ==
  ASSUME CacheInv, alive, queue # <<>>, asked # "replay", NEW next \in {"nothing", "key", "replay"}, Answer(next),
         UNCHANGED <<ledger, snap, fileVars, alive, cur, faults, pastVars>>, writing' = 0,
         next = "replay" \/ Head(queue).op # "load"
  PROVE  /\ Linked(olean)' /\ StatesInv' /\ LedgerInv' /\ QueueInv' /\ SaveInv'
         /\ next # "replay" => ReplayInv'
         /\ (\A k \in key' : k.ledger \in Seq(Codes)) => TypeOK'
<1>1. TypeOK /\ QueueInv /\ ReplayInv
  BY DEF CacheInv
<1>2. /\ queue' \in Seq(Request) /\ asked' \in {"nothing", "execute", next}
      /\ \A i \in 1..Len(queue') : i + 1 \in 1..Len(queue) /\ queue'[i] = queue[i + 1]
      /\ Head(queue).late => asked' = asked
      /\ ~Head(queue).late => asked' = next /\ asked = Head(queue).op
      /\ QueueInv'
  BY <1>1, AnswerFacts
<1>3. Linked(olean)'
  BY DEF CacheInv, Linked, fileVars
<1>4. StatesInv'
  BY <1>2 DEF CacheInv, StatesInv, fileVars
<1>5. LedgerInv'
  <2>1. Head(queue).op \in {"execute", "save", "load"}
    BY <1>1, HeadFacts, RequestType
  <2>2. CASE Head(queue).late
    BY <1>2, <2>2, LedgerFrame DEF CacheInv, LedgerInv, pastVars
  <2>3. CASE ~Head(queue).late
    BY <1>2, <2>1, <2>3, LedgerFrame DEF CacheInv, LedgerInv, pastVars
  <2> QED BY <2>2, <2>3
<1>8. ASSUME next # "replay" PROVE ReplayInv'
  <2>1. asked' # "load"
    BY <1>2, <1>8
  <2> QED BY <1>2, <1>8, <2>1, ReplayFrame
<1>6. SaveInv'
  BY DEF SaveInv
<1>7. ASSUME \A k \in key' : k.ledger \in Seq(Codes) PROVE TypeOK'
  BY <1>1, <1>2, <1>7 DEF TypeOK, fileVars, pastVars
<1> QED BY <1>2, <1>3, <1>4, <1>5, <1>6, <1>7, <1>8

LEMMA FailsStep ==
  ASSUME CacheInv, Fails
  PROVE  CacheInv'
<1>1. /\ alive /\ queue # <<>> /\ Head(queue).op = "execute" /\ asked # "replay" /\ Answer("nothing")
      /\ UNCHANGED <<ledger, snap, key, fileVars, alive, cur, writing, faults, pastVars>>
  BY DEF Fails, Serving
<1>2. writing' = 0
  BY <1>1 DEF CacheInv, SaveInv, Serving, TypeOK
<1>3. \A k \in key' : k.ledger \in Seq(Codes)
  BY <1>1 DEF CacheInv, TypeOK
<1>4. TypeOK' /\ Linked(olean)' /\ StatesInv' /\ LedgerInv' /\ ReplayInv' /\ QueueInv' /\ SaveInv'
  BY <1>1, <1>2, <1>3, AnswerFrame
<1>5. KeyInv'
  <2>1. /\ asked' \in {"nothing", "execute"}
        /\ \A i \in 1..Len(queue') : i + 1 \in 1..Len(queue) /\ queue'[i] = queue[i + 1]
    BY <1>1, AnswerFacts DEF CacheInv
  <2> QED BY <1>1, <2>1, KeyFrame DEF CacheInv, pastVars
<1> QED BY <1>4, <1>5 DEF CacheInv

LEMMA LoadMissesStep ==
  ASSUME CacheInv, LoadMisses
  PROVE  CacheInv'
<1>1. /\ alive /\ queue # <<>> /\ Head(queue).op = "load" /\ Answer("replay")
      /\ UNCHANGED <<ledger, snap, key, fileVars, alive, cur, writing, faults, pastVars>>
  BY DEF LoadMisses, Serving
<1>6. asked # "replay"
  BY <1>1, HeadFacts DEF CacheInv
<1>2. writing' = 0
  BY <1>1 DEF CacheInv, SaveInv, Serving, TypeOK
<1>3. \A k \in key' : k.ledger \in Seq(Codes)
  BY <1>1 DEF CacheInv, TypeOK
<1>4. TypeOK' /\ Linked(olean)' /\ StatesInv' /\ LedgerInv' /\ QueueInv' /\ SaveInv'
  BY <1>1, <1>2, <1>3, <1>6, AnswerFrame
<1>5. KeyInv'
  <2>1. /\ asked' \in {"nothing", "execute", "replay"}
        /\ \A i \in 1..Len(queue') : i + 1 \in 1..Len(queue) /\ queue'[i] = queue[i + 1]
    BY <1>1, <1>6, AnswerFacts DEF CacheInv
  <2> QED BY <1>1, <2>1, KeyFrame DEF CacheInv, pastVars
<1>7. ReplayInv'
  <2>1. asked = "load" /\ ~Head(queue).late
    BY <1>1, HeadFacts DEF CacheInv, QueueInv
  <2>2. asked' = "replay" /\ queue' = <<>> /\ snap'.scope = <<>> /\ alive' /\ ledger' \in Seq(Codes)
    BY <1>1, <2>1, HeadFacts DEF Answer, CacheInv, ReplayInv, TypeOK
  <2>3. Begins(snap.scope, ledger)'
    BY <2>2, EmptyQueue, LenProperties DEF Begins
  <2> QED BY <2>2, <2>3 DEF ReplayInv
<1> QED BY <1>4, <1>5, <1>7 DEF CacheInv

LEMMA RefusesSaveStep ==
  ASSUME CacheInv, RefusesSave
  PROVE  CacheInv'
<1>1. /\ alive /\ queue # <<>> /\ Head(queue).op = "save" /\ Answer("nothing")
      /\ writing = 0 /\ key' \in {key, {}}
      /\ UNCHANGED <<ledger, snap, fileVars, alive, cur, writing, faults, pastVars>>
  BY DEF RefusesSave, Serving
<1>6. asked # "replay"
  BY <1>1, HeadFacts DEF CacheInv
<1>2. \A k \in key' : k \in key /\ k.ledger \in Seq(Codes)
  BY <1>1 DEF CacheInv, TypeOK
<1>3. TypeOK' /\ Linked(olean)' /\ StatesInv' /\ LedgerInv' /\ ReplayInv' /\ QueueInv' /\ SaveInv'
  BY <1>1, <1>2, <1>6, AnswerFrame
<1>4. KeyInv'
  <2>1. /\ asked' \in {"nothing", "execute"}
        /\ \A i \in 1..Len(queue') : i + 1 \in 1..Len(queue) /\ queue'[i] = queue[i + 1]
    BY <1>1, <1>6, AnswerFacts DEF CacheInv
  <2>2. LedgerSaved => LedgerSaved'
    BY <1>1, SavedFrame DEF pastVars
  <2>3. (\E i \in 1..Len(queue') : queue'[i].op = "save") => \E i \in 1..Len(queue) : queue[i].op = "save"
    BY <2>1
  <2> HIDE DEF LedgerSaved
  <2> QED BY <1>1, <1>2, <2>1, <2>2, <2>3 DEF CacheInv, KeyInv
<1> QED BY <1>3, <1>4 DEF CacheInv

\* The three files at the end of a save that the client waits for.
LEMMA SavedAtEnd ==
  ASSUME CacheInv, Serving("save"), writing = 6, ~Head(queue).late
  PROVE  LedgerSaved
<1> DEFINE g == freshModule(cur)
<1>1. asked = "save" /\ cur = snap /\ alive
  BY AwaitedIsAlone DEF CacheInv, QueueInv, Serving, Awaited
<1>2. /\ SoundOn(cur, olean) /\ cur.scope = stands
  BY <1>1 DEF CacheInv, StatesInv, LedgerInv
<1>3. /\ g \in DOMAIN olean /\ olean[g] = [imports |-> cur.from, own |-> cur.own]
      /\ scope = {cur.scope} /\ head = {g}
  <2>1. writing >= 2 /\ writing >= 4 /\ writing >= 6
    OBVIOUS
  <2> QED BY <2>1 DEF CacheInv, SaveInv
<1>4. /\ g \in Nat /\ cur.base = 0 .. g - 1 /\ cur.base \subseteq DOMAIN olean
      /\ cur.past = Declared(cur.base, olean) /\ Apart(cur.base, olean)
      /\ Whole(cur) = Cells(cur.scope) /\ cur \in State
      /\ \A e \in cur.past, f \in cur.own : e[1] < f[1]
  BY <1>2 DEF SoundOn
<1> HIDE DEF g
<1>5. 0..g = cur.base \cup {g} /\ g \notin cur.base
  BY <1>4
<1>6. olean[g].own = cur.own
  BY <1>3
<1>7. Declared(0..g, olean) = Cells(stands)
  <2>1. Declared(0..g, olean) = Declared(cur.base, olean) \cup cur.own
    BY <1>5, <1>6 DEF Declared
  <2> QED BY <1>2, <1>4, <2>1 DEF Whole
<1>8. Apart(0..g, olean)
  <2>1. ASSUME NEW h \in cur.base PROVE olean[h].own \cap cur.own = {}
    <3>1. olean[h].own \subseteq cur.past
      BY <1>4 DEF Declared
    <3>2. ASSUME NEW e \in cur.past \cap cur.own PROVE FALSE
      <4>1. e[1] < e[1] /\ e[1] \in Nat
        BY <1>4 DEF State, Numbered
      <4> QED BY <4>1
    <3> QED BY <3>1, <3>2
  <2> QED BY <1>4, <1>5, <1>6, <2>1 DEF Apart
<1>9. 0..g \subseteq DOMAIN olean
  BY <1>3, <1>4, <1>5
<1> QED BY <1>2, <1>3, <1>4, <1>7, <1>8, <1>9 DEF LedgerSaved

LEMMA AnswersSaveStep ==
  ASSUME CacheInv, AnswersSave
  PROVE  CacheInv'
<1>1. /\ alive /\ queue # <<>> /\ Head(queue).op = "save" /\ Answer("key")
      /\ writing = 6 /\ writing' = 0 /\ Serving("save")
      /\ UNCHANGED <<ledger, snap, key, fileVars, alive, cur, faults, pastVars>>
  BY DEF AnswersSave, Serving
<1>6. asked # "replay"
  BY <1>1, HeadFacts DEF CacheInv
<1>2. \A k \in key' : k.ledger \in Seq(Codes)
  BY <1>1 DEF CacheInv, TypeOK
<1>3. TypeOK' /\ Linked(olean)' /\ StatesInv' /\ LedgerInv' /\ ReplayInv' /\ QueueInv' /\ SaveInv'
  BY <1>1, <1>2, <1>6, AnswerFrame
<1>4. KeyInv'
  <2>1. /\ asked' \in {"nothing", "execute", "key"}
        /\ \A i \in 1..Len(queue') : i + 1 \in 1..Len(queue) /\ queue'[i] = queue[i + 1]
        /\ Head(queue).late => asked' = asked
        /\ Head(queue) = queue[1] /\ 1 \in 1..Len(queue)
    BY <1>1, <1>6, AnswerFacts, HeadFacts DEF CacheInv
  <2>2. asked' = "key" => LedgerSaved
    <3>1. CASE Head(queue).late
      BY <1>1, <2>1, <3>1 DEF CacheInv, KeyInv
    <3>2. CASE ~Head(queue).late
      BY <1>1, <3>2, SavedAtEnd
    <3> QED BY <3>1, <3>2
  <2>3. \E i \in 1..Len(queue) : queue[i].op = "save"
    BY <1>1, <2>1
  <2> QED BY <1>1, <2>1, <2>2, <2>3, KeyFrame DEF CacheInv, pastVars
<1> QED BY <1>3, <1>4 DEF CacheInv

LEMMA LoadsStep ==
  ASSUME CacheInv, Loads
  PROVE  CacheInv'
<1>1. /\ alive /\ queue # <<>> /\ Head(queue).op = "load" /\ Answer("nothing")
      /\ UNCHANGED <<ledger, key, fileVars, alive, writing, faults, pastVars>>
      /\ TypeOK /\ QueueInv /\ ReplayInv
  BY DEF Loads, Serving, CacheInv
<1>2. asked = "load" /\ ~Head(queue).late
  BY <1>1, HeadFacts DEF QueueInv
<1>3. asked' = "nothing" /\ 1..Len(queue') = {} /\ queue' = <<>>
  BY <1>1, <1>2, HeadFacts DEF Answer
<1>4. PICK g \in head, tag \in scope : cur' = Loaded(g, tag) /\ snap' = Loaded(g, tag)
  BY DEF Loads
<1>5. LedgerSaved
  BY <1>2 DEF CacheInv, KeyInv
<1>6. tag = stands /\ SoundOn(Loaded(g, tag), olean) /\ Loaded(g, tag) \in State /\ Loaded(g, tag).scope = tag
  <2>1. /\ g \in Nat /\ tag = stands /\ 0..g \subseteq DOMAIN olean /\ Apart(0..g, olean)
        /\ Declared(0..g, olean) = Cells(tag) /\ tag \in Seq(Codes)
    BY <1>1, <1>4, <1>5 DEF LedgerSaved, TypeOK
  <2> QED BY <2>1, LoadedSound DEF CacheInv
<1>7. TypeOK'
  BY <1>1, <1>3, <1>4, <1>6, EmptyQueue DEF TypeOK, fileVars, pastVars
<1>8. Linked(olean)'
  BY <1>1 DEF CacheInv, Linked, fileVars
<1>9. StatesInv'
  BY <1>1, <1>3, <1>4, <1>6 DEF StatesInv, fileVars
<1>10. LedgerInv' /\ ReplayInv' /\ QueueInv'
  <2>1. Renders(snap'.scope)
    BY <1>4, <1>6 DEF CacheInv, LedgerInv
  <2>2. LedgerInv' /\ ReplayInv'
    BY <1>1, <1>3, <2>1, LedgerFrame, ReplayFrame DEF CacheInv, pastVars
  <2> QED BY <1>1, <1>3, <1>4, <2>2 DEF QueueInv
<1>11. KeyInv'
  BY <1>1, <1>3, KeyFrame DEF CacheInv, pastVars
<1>12. SaveInv'
  <2>1. writing = 0
    BY <1>1 DEF CacheInv, SaveInv, Serving, TypeOK
  <2> QED BY <1>1, <2>1 DEF SaveInv
<1> QED BY <1>7, <1>8, <1>9, <1>10, <1>11, <1>12 DEF CacheInv

\* While a save is served no key has the ledger's hash.
LEMMA SavingFacts ==
  ASSUME CacheInv, Serving("save")
  PROVE  /\ alive /\ asked \notin {"key", "load", "replay"}
         /\ \A k \in key : Len(k.ledger) < Len(ledger) /\ k.ledger # ledger
<1>1. alive /\ queue # <<>> /\ Head(queue).op = "save" /\ TypeOK /\ QueueInv /\ ReplayInv /\ KeyInv
  BY DEF Serving, CacheInv
<1>2. Head(queue) = queue[1] /\ 1 \in 1..Len(queue)
  BY <1>1, HeadFacts
<1>3. asked \notin {"key", "load", "replay"}
  <2>1. asked # "replay"
    BY <1>1, HeadFacts
  <2>2. asked # "key"
    BY <1>1 DEF QueueInv
  <2>3. asked = "load" => Awaited = "load" /\ Len(queue) = 1 /\ ~queue[1].late
    BY <1>1 DEF QueueInv, Awaited
  <2>4. ~queue[1].late => queue[1].op = Awaited
    BY <1>1, <1>2 DEF QueueInv
  <2> QED BY <1>1, <1>2, <2>1, <2>2, <2>3, <2>4
<1>4. \A k \in key : Len(k.ledger) < Len(ledger)
  BY <1>1, <1>2 DEF KeyInv
<1>5. Len(ledger) \in Nat
  BY <1>1, LenProperties DEF TypeOK
<1> QED BY <1>1, <1>3, <1>4, <1>5

\* What a save does to a file concerns no state and no key.
LEMMA FileWritten ==
  ASSUME CacheInv, Serving("save"), UNCHANGED <<clientVars, key, alive, cur, queue, faults, pastVars>>
  PROVE  LedgerInv' /\ ReplayInv' /\ QueueInv' /\ KeyInv'
<1>1. /\ alive /\ asked \notin {"key", "load", "replay"}
      /\ \A k \in key : Len(k.ledger) < Len(ledger) /\ k.ledger # ledger
  BY SavingFacts
<1>2. LedgerInv' /\ ReplayInv' /\ QueueInv'
  <2>1. LedgerInv' /\ ReplayInv'
    BY <1>1, LedgerFrame, ReplayFrame DEF CacheInv, LedgerInv, clientVars, pastVars
  <2> QED BY <2>1 DEF CacheInv, QueueInv, Awaited, clientVars
<1>3. \A k \in key : k.ledger \in Seq(Codes) /\ Len(k.ledger) <= Len(ledger)
  BY DEF CacheInv, KeyInv
<1>4. ledger' = ledger /\ asked' = asked /\ key' = key /\ queue' = queue
  BY DEF clientVars
<1> HIDE DEF LedgerSaved
<1> QED BY <1>1, <1>2, <1>3, <1>4 DEF KeyInv

LEMMA WritesOleanStep ==
  ASSUME CacheInv, WritesOlean
  PROVE  CacheInv'
<1> DEFINE g == freshModule(cur)
           m == [imports |-> cur.from, own |-> cur.own]
<1>1. /\ Serving("save") /\ alive
      /\ UNCHANGED <<clientVars, key, scope, head, alive, cur, queue, faults, pastVars>>
      /\ \/ writing = 0 /\ writing' = 1 /\ olean' = Without(g)
         \/ writing = 1 /\ writing' = 2 /\ olean' = With(g, m)
  BY DEF WritesOlean, Saving, Serving
<1>2. /\ g \in Nat /\ cur.base = 0 .. g - 1 /\ cur.base \subseteq DOMAIN olean /\ cur \in State
      /\ cur.from = IF g = 0 THEN {} ELSE {g - 1}
  BY <1>1 DEF CacheInv, StatesInv, SoundOn
<1>3. m \in Module /\ m.imports = IF g = 0 THEN {} ELSE {g - 1}
  BY <1>2 DEF State, Module
<1>4. m = [imports |-> cur.from, own |-> cur.own]
  OBVIOUS
<1> HIDE DEF g, m
<1>5. /\ DOMAIN olean' \subseteq DOMAIN olean \cup {g}
      /\ \A h \in DOMAIN olean : h # g => h \in DOMAIN olean' /\ olean'[h] = olean[h]
      /\ g \in DOMAIN olean' => olean'[g] = m /\ writing' = 2
      /\ writing' = 2 => g \in DOMAIN olean' /\ olean'[g] = m
      /\ writing' \in 1..2
  <2>1. CASE writing = 0
    BY <1>1, <2>1 DEF Without
  <2>2. CASE writing = 1
    BY <1>1, <2>2 DEF With
  <2> QED BY <1>1, <2>1, <2>2
<1>6. Linked(olean)'
  <2>1. ASSUME NEW h \in DOMAIN olean'
        PROVE  /\ h \in Nat /\ olean'[h] \in Module
               /\ olean'[h].imports = IF h = 0 THEN {} ELSE {h - 1}
    <3>1. CASE h = g
      BY <1>2, <1>3, <1>5, <3>1
    <3>2. CASE h # g
      BY <1>5, <3>2 DEF CacheInv, Linked
    <3> QED BY <3>1, <3>2
  <2> QED BY <2>1 DEF Linked
<1>7. TypeOK'
  <2>1. DOMAIN olean' \subseteq Nat /\ \A h \in DOMAIN olean' : olean'[h] \in Module
    BY <1>6 DEF Linked
  <2>2. writing' \in 0..6
    BY <1>5
  <2> QED BY <1>1, <2>1, <2>2 DEF CacheInv, TypeOK, clientVars, pastVars
<1>8. StatesInv'
  <2>1. ASSUME NEW s, SoundOn(s, olean), s.base = cur.base
        PROVE  SoundOn(s, olean')
    <3>1. \A h \in s.base : h \in DOMAIN olean /\ h # g
      BY <1>2, <2>1
    <3>2. s.base \subseteq DOMAIN olean' /\ \A h \in s.base : olean'[h] = olean[h]
      BY <1>5, <3>1
    <3> QED BY <2>1, <3>2, SoundFrame
  <2>2. SoundOn(cur, olean) /\ SoundOn(snap, olean) /\ snap.base = cur.base
    BY <1>1 DEF CacheInv, StatesInv
  <2>3. \A i \in 1..Len(queue) : queue[i].op = "execute" =>
          SoundOn(queue[i].parent, olean) /\ queue[i].parent.base = cur.base
    BY <1>1 DEF CacheInv, StatesInv
  <2>4. snap' = snap /\ cur' = cur /\ queue' = queue
    BY <1>1 DEF clientVars
  <2>5. SoundOn(cur, olean') /\ SoundOn(snap, olean')
    BY <2>1, <2>2
  <2>6. \A i \in 1..Len(queue) : queue[i].op = "execute" => SoundOn(queue[i].parent, olean')
    BY <2>1, <2>3
  <2> QED BY <2>2, <2>3, <2>4, <2>5, <2>6 DEF StatesInv
<1>9. LedgerInv' /\ ReplayInv' /\ QueueInv' /\ KeyInv'
  BY <1>1, FileWritten
<1>10. SaveInv'
  <2>1. Serving("save")' /\ cur' = cur /\ freshModule(cur') = g
    BY <1>1 DEF Serving, g
  <2>2. ~(writing' >= 4) /\ ~(writing' >= 6) /\ (writing' >= 2 => writing' = 2)
    BY <1>5
  <2> QED BY <1>4, <1>5, <2>1, <2>2 DEF SaveInv
<1> QED BY <1>6, <1>7, <1>8, <1>9, <1>10 DEF CacheInv

LEMMA WritesScopeStep ==
  ASSUME CacheInv, WritesScope
  PROVE  CacheInv'
<1>1. /\ Serving("save") /\ alive
      /\ UNCHANGED <<clientVars, key, olean, head, alive, cur, queue, faults, pastVars>>
      /\ \/ writing = 2 /\ writing' = 3 /\ scope' = {}
         \/ writing = 3 /\ writing' = 4 /\ scope' = {cur.scope}
  BY DEF WritesScope, Saving, Serving
<1>2. TypeOK'
  <2>1. scope' \subseteq Seq(Codes)
    BY <1>1 DEF CacheInv, TypeOK, State, pastVars
  <2>2. writing' \in 0..6
    BY <1>1
  <2> QED BY <1>1, <2>1, <2>2 DEF CacheInv, TypeOK, clientVars, pastVars
<1>3. Linked(olean)' /\ StatesInv'
  BY <1>1 DEF CacheInv, Linked, StatesInv, clientVars
<1>4. LedgerInv' /\ ReplayInv' /\ QueueInv' /\ KeyInv'
  BY <1>1, FileWritten
<1>5. SaveInv'
  <2>1. Serving("save")' /\ cur' = cur /\ olean' = olean
    BY <1>1 DEF Serving
  <2>2. /\ freshModule(cur) \in DOMAIN olean
        /\ olean[freshModule(cur)] = [imports |-> cur.from, own |-> cur.own]
    BY <1>1 DEF CacheInv, SaveInv
  <2>3. ~(writing' >= 6) /\ (writing' >= 4 => scope' = {cur.scope})
    BY <1>1
  <2> QED BY <2>1, <2>2, <2>3 DEF SaveInv
<1> QED BY <1>2, <1>3, <1>4, <1>5 DEF CacheInv

LEMMA WritesHeadStep ==
  ASSUME CacheInv, WritesHead
  PROVE  CacheInv'
<1>1. /\ Serving("save") /\ alive
      /\ UNCHANGED <<clientVars, key, olean, scope, alive, cur, queue, faults, pastVars>>
      /\ \/ writing = 4 /\ writing' = 5 /\ head' = {}
         \/ writing = 5 /\ writing' = 6 /\ head' = {freshModule(cur)}
  BY DEF WritesHead, Saving, Serving
<1>2. TypeOK'
  <2>1. head' \subseteq Nat
    BY <1>1 DEF CacheInv, StatesInv, SoundOn
  <2>2. writing' \in 0..6
    BY <1>1
  <2> QED BY <1>1, <2>1, <2>2 DEF CacheInv, TypeOK, clientVars, pastVars
<1>3. Linked(olean)' /\ StatesInv'
  BY <1>1 DEF CacheInv, Linked, StatesInv, clientVars
<1>4. LedgerInv' /\ ReplayInv' /\ QueueInv' /\ KeyInv'
  BY <1>1, FileWritten
<1>5. SaveInv'
  <2>1. Serving("save")' /\ cur' = cur /\ olean' = olean /\ scope' = scope
    BY <1>1 DEF Serving
  <2>2. /\ freshModule(cur) \in DOMAIN olean
        /\ olean[freshModule(cur)] = [imports |-> cur.from, own |-> cur.own]
        /\ scope = {cur.scope}
    BY <1>1 DEF CacheInv, SaveInv
  <2>3. writing' >= 6 => head' = {freshModule(cur)}
    BY <1>1
  <2> QED BY <2>1, <2>2, <2>3 DEF SaveInv
<1> QED BY <1>2, <1>3, <1>4, <1>5 DEF CacheInv

LEMMA CommitsStep ==
  ASSUME CacheInv, Commits
  PROVE  CacheInv'
<1> DEFINE p == Head(queue).parent
           c == Head(queue).code
           s == Extend(p, c)
           r == [op |-> "save", late |-> FALSE]
<1>1. /\ alive /\ queue # <<>> /\ Head(queue).op = "execute" /\ cur' = s
      /\ UNCHANGED <<key, fileVars, alive, writing, faults, cut>>
      /\ TypeOK /\ QueueInv /\ ReplayInv /\ KeyInv
      /\ \/ /\ Head(queue).late
            /\ queue' = Tail(queue) /\ UNCHANGED <<clientVars, stands>>
         \/ /\ ~Head(queue).late /\ asked = "replay"
            /\ snap' = s /\ queue' = Tail(queue) /\ UNCHANGED <<ledger, asked, stands>>
         \/ /\ ~Head(queue).late /\ asked = "execute"
            /\ snap' = s /\ stands' = s.scope /\ ledger' = Append(ledger, c)
            /\ asked' = "save" /\ queue' = Append(Tail(queue), r)
  BY DEF Commits, Serving, CacheInv
<1>2. /\ Head(queue) = queue[1] /\ Head(queue) \in Request /\ 1 \in 1..Len(queue)
      /\ Tail(queue) \in Seq(Request) /\ Len(queue) \in Nat /\ Len(Tail(queue)) = Len(queue) - 1
      /\ \A i \in 1..Len(Tail(queue)) : i + 1 \in 1..Len(queue) /\ Tail(queue)[i] = queue[i + 1]
      /\ Head(queue).late => asked \in {"nothing", "execute"}
      /\ ~Head(queue).late => Awaited = "execute" /\ Tail(queue) = <<>>
  BY <1>1, HeadFacts
<1>3. c \in Codes /\ SoundOn(p, olean) /\ p.base = cur.base
  BY <1>1, <1>2, RequestType DEF CacheInv, StatesInv
<1>4. /\ SoundOn(s, olean) /\ s \in State /\ s.base = cur.base /\ s.scope = Append(p.scope, c)
  BY <1>3, ExtendSound
<1>5. /\ ~Head(queue).late => p = snap
      /\ ~Head(queue).late /\ asked = "execute" => Renders(snap.scope)
  BY <1>1, <1>2 DEF CacheInv, QueueInv, LedgerInv
<1>6. writing = 0
  BY <1>1 DEF CacheInv, SaveInv, Serving, TypeOK
<1>7. r \in Request /\ r.op = "save" /\ r.late = FALSE
  BY DEF Request
<1> HIDE DEF p, c, s, r
<1>8. Linked(olean)' /\ SaveInv'
  <2>1. Linked(olean)'
    BY <1>1 DEF CacheInv, Linked, fileVars
  <2>2. writing' = 0
    BY <1>1, <1>6
  <2> QED BY <2>1, <2>2 DEF SaveInv
<1>9. \A i \in 1..Len(queue) : queue[i].op = "execute" =>
        SoundOn(queue[i].parent, olean) /\ queue[i].parent.base = cur.base
  BY <1>1 DEF CacheInv, StatesInv
<1>10. CASE Head(queue).late
  <2>1. /\ queue' = Tail(queue) /\ ledger' = ledger /\ snap' = snap /\ asked' = asked
        /\ stands' = stands
    BY <1>1, <1>10 DEF clientVars
  <2>2. /\ \A i \in 1..Len(queue') : i + 1 \in 1..Len(queue) /\ queue'[i] = queue[i + 1]
        /\ Len(queue') = Len(queue) - 1
    BY <1>2, <2>1
  <2>3. TypeOK'
    BY <1>1, <1>2, <1>4, <2>1 DEF TypeOK, fileVars
  <2>4. StatesInv'
    <3>1. SoundOn(snap, olean) /\ snap.base = cur.base
      BY <1>1 DEF CacheInv, StatesInv
    <3> QED BY <1>1, <1>4, <1>9, <2>1, <2>2, <3>1 DEF StatesInv, fileVars
  <2>5. LedgerInv' /\ ReplayInv'
    BY <1>1, <1>2, <1>10, <2>1, LedgerFrame, ReplayFrame DEF CacheInv, LedgerInv
  <2>6. QueueInv'
    <3>1. ASSUME NEW i \in 1..Len(queue')
          PROVE  /\ queue'[i].op # "load"
                 /\ ~queue'[i].late =>
                      /\ i = Len(queue') /\ queue'[i].op = asked'
                      /\ queue'[i].op = "execute" => queue'[i].parent = snap'
      <4>1. i + 1 \in 1..Len(queue) /\ queue'[i] = queue[i + 1]
        BY <2>2
      <4>2. /\ queue[i + 1].op # "load"
            /\ ~queue[i + 1].late =>
                 /\ i + 1 = Len(queue) /\ queue[i + 1].op = asked
                 /\ queue[i + 1].op = "execute" => queue[i + 1].parent = snap
        BY <1>1, <1>2, <1>10, <4>1 DEF QueueInv, Awaited
      <4>3. i + 1 = Len(queue) => i = Len(queue')
        <5>1. Len(queue') = Len(queue) - 1 /\ Len(queue) \in Nat
          BY <1>2, <2>2
        <5>2. i \in Int
          BY <5>1
        <5> QED BY <5>1, <5>2
      <4> QED BY <2>1, <4>1, <4>2, <4>3
    <3> QED BY <1>1, <1>2, <1>10, <2>1, <3>1 DEF QueueInv, Awaited
  <2>7. KeyInv'
    BY <1>1, <1>2, <1>10, <2>1, <2>2, KeyFrame
  <2> QED BY <1>8, <2>3, <2>4, <2>5, <2>6, <2>7 DEF CacheInv
<1>11. CASE ~Head(queue).late /\ asked = "replay"
  <2>1. /\ snap' = s /\ queue' = <<>> /\ ledger' = ledger /\ stands' = stands
        /\ asked' = "replay" /\ cut' = cut /\ 1..Len(queue') = {} /\ queue' \in Seq(Request)
    BY <1>1, <1>2, <1>11, EmptyQueue
  <2>2. TypeOK'
    BY <1>1, <1>4, <2>1 DEF TypeOK, fileVars
  <2>3. StatesInv'
    BY <1>1, <1>4, <2>1 DEF StatesInv, fileVars
  <2>4. LedgerInv'
    BY <2>1, LedgerFrame DEF CacheInv
  <2>5. ReplayInv'
    <3>1. c = ledger[Len(snap.scope) + 1] /\ Len(snap.scope) < Len(ledger)
      BY <1>1, <1>2, <1>11 DEF ReplayInv, c
    <3>2. /\ Begins(snap.scope, ledger) /\ snap.scope \in Seq(Codes)
          /\ Len(snap.scope) \in Nat /\ Len(ledger) \in Nat
      BY <1>11, ReplayFacts
    <3>3. s.scope = Append(snap.scope, c)
      BY <1>4, <1>5, <1>11
    <3> DEFINE t == s.scope
    <3>4. /\ Len(t) = Len(snap.scope) + 1 /\ t[Len(snap.scope) + 1] = c
          /\ \A i \in 1..Len(snap.scope) : t[i] = snap.scope[i]
      BY <1>3, <3>2, <3>3, AppendProperties
    <3> HIDE DEF t
    <3>5. Begins(t, ledger)
      <4>1. Len(t) <= Len(ledger)
        BY <3>1, <3>2, <3>4
      <4>2. ASSUME NEW i \in 1..Len(t) PROVE t[i] = ledger[i]
        <5>1. i \in 1..Len(snap.scope) \/ i = Len(snap.scope) + 1
          BY <3>2, <3>4
        <5> QED BY <3>1, <3>2, <3>4, <5>1 DEF Begins
      <4> QED BY <4>1, <4>2 DEF Begins
    <3>6. Begins(snap.scope, ledger)'
      BY <2>1, <3>5 DEF t, Begins
    <3> QED BY <1>1, <2>1, <3>6 DEF ReplayInv
  <2>6. QueueInv'
    BY <2>1 DEF QueueInv
  <2>7. KeyInv'
    BY <1>1, <2>1, KeyFrame
  <2> QED BY <1>8, <2>2, <2>3, <2>4, <2>5, <2>6, <2>7 DEF CacheInv
<1>12. CASE ~Head(queue).late /\ asked = "execute"
  <2>1. /\ snap' = s /\ ledger' = Append(ledger, c) /\ asked' = "save" /\ stands' = s.scope
        /\ s.scope = Append(snap.scope, c) /\ cut' = cut
    BY <1>1, <1>4, <1>5, <1>12
  <2>2. queue' \in Seq(Request) /\ Len(queue') = 1 /\ queue'[1] = r
    <3>1. queue' = Append(<<>>, r)
      BY <1>1, <1>2, <1>12
    <3>2. <<>> \in Seq(Request) /\ Len(<<>>) = 0
      BY EmptyQueue
    <3> QED BY <1>7, <3>1, <3>2, Pushed
  <2>3. \A i \in 1..Len(queue') : i = 1 /\ queue'[i].op = "save" /\ queue'[i].late = FALSE
    BY <1>7, <2>2
  <2>4. /\ ledger \in Seq(Codes) /\ ledger' \in Seq(Codes) /\ snap.scope \in Seq(Codes)
        /\ s.scope \in Seq(Codes) /\ Len(ledger) \in Nat /\ Len(ledger') = Len(ledger) + 1
    BY <1>1, <1>3, <1>4, <2>1, LenProperties, AppendProperties DEF TypeOK, State
  <2>5. TypeOK'
    BY <1>1, <1>4, <2>1, <2>2, <2>4 DEF TypeOK, fileVars
  <2>6. StatesInv'
    BY <1>1, <1>4, <2>1, <2>3 DEF StatesInv, fileVars
  <2>7. LedgerInv' /\ ReplayInv'
    <3>1. IsSubsequence(snap.scope, ledger) /\ (~cut => snap.scope = ledger)
      BY <1>5, <1>12 DEF Renders
    <3>2. IsSubsequence(s.scope, ledger')
      BY <1>3, <2>1, <2>4, <3>1, SubsequenceAppend
    <3>3. ~cut => s.scope = ledger'
      BY <2>1, <3>1
    <3> HIDE DEF IsSubsequence
    <3>4. Renders(stands)' /\ Renders(snap.scope)'
      BY <2>1, <3>2, <3>3 DEF Renders
    <3> HIDE DEF Renders
    <3>5. LedgerInv'
      BY <2>1, <3>4 DEF LedgerInv
    <3> QED BY <2>1, <3>5, ReplayFrame
  <2>8. QueueInv'
    BY <1>1, <2>1, <2>2, <2>3 DEF QueueInv, Awaited
  <2>9. KeyInv'
    <3>1. ASSUME NEW k \in key
          PROVE  k.ledger \in Seq(Codes) /\ Len(k.ledger) < Len(ledger') /\ k.ledger # ledger'
      <4>1. k.ledger \in Seq(Codes) /\ Len(k.ledger) <= Len(ledger) /\ Len(k.ledger) \in Nat
        BY <1>1, LenProperties DEF KeyInv
      <4> QED BY <2>4, <4>1
    <3>2. \A k \in key : Len(k.ledger) <= Len(ledger')
      BY <3>1, <2>4, LenProperties
    <3> HIDE DEF LedgerSaved
    <3> QED BY <1>1, <2>1, <3>1, <3>2 DEF KeyInv
  <2> QED BY <1>8, <2>5, <2>6, <2>7, <2>8, <2>9 DEF CacheInv
<1> QED BY <1>1, <1>10, <1>11, <1>12

----------------------------------------------------------------------------
(* Theorems *)

LEMMA CacheInit == Init => CacheInv
<1> SUFFICES ASSUME Init PROVE CacheInv
  OBVIOUS
<1>1. /\ asked = "nothing" /\ key = {} /\ olean = [g \in {} |-> {}] /\ scope = {} /\ head = {}
      /\ alive = TRUE /\ queue = <<>> /\ writing = 0 /\ cut = FALSE /\ faults = 0
  BY DEF Init
<1>2. PICK codes \in {<<>>} \cup {<<c>> : c \in Codes} :
        ledger = codes /\ stands = codes /\ snap = Fresh(codes) /\ cur = Fresh(codes)
  BY DEF Init
<1>3. codes \in Seq(Codes)
  <2>1. <<>> \in Seq(Codes) /\ \A c \in Codes : <<c>> \in Seq(Codes)
    BY EmptySeq
  <2> QED BY <1>2, <2>1
<1>4. /\ SoundOn(Fresh(codes), olean) /\ Fresh(codes).base = {} /\ Fresh(codes).scope = codes
      /\ Fresh(codes) \in State
  BY <1>3, FreshSound
<1>5. queue \in Seq(Request) /\ 1..Len(queue) = {}
  BY <1>1, EmptyQueue
<1>6. TypeOK
  <2>1. cut \in BOOLEAN /\ alive \in BOOLEAN
    BY <1>1
  <2>2. ledger \in Seq(Codes) /\ stands \in Seq(Codes) /\ snap \in State /\ cur \in State
    BY <1>2, <1>3, <1>4
  <2>3. DOMAIN olean = {} /\ scope = {} /\ head = {} /\ key = {}
    BY <1>1
  <2>4. writing \in 0..6 /\ faults \in 0..MaxFaults /\ asked = "nothing"
    BY <1>1, SessionCacheAssumption
  <2> QED BY <1>5, <2>1, <2>2, <2>3, <2>4 DEF TypeOK
<1>7. Linked(olean)
  BY <1>1 DEF Linked
<1>8. StatesInv /\ LedgerInv /\ ReplayInv /\ QueueInv
  <2>1. Renders(codes)
    BY <1>2, <1>3, RendersSelf
  <2> QED BY <1>1, <1>2, <1>4, <1>5, <2>1 DEF StatesInv, LedgerInv, ReplayInv, QueueInv
<1>9. KeyInv /\ SaveInv
  BY <1>1 DEF KeyInv, SaveInv
<1> QED BY <1>6, <1>7, <1>8, <1>9 DEF CacheInv

LEMMA CacheStutter ==
  ASSUME CacheInv, UNCHANGED vars
  PROVE  CacheInv'
<1>1. TypeOK' /\ Linked(olean)' /\ StatesInv'
  BY DEF CacheInv, TypeOK, Linked, StatesInv, vars
<1>2. LedgerInv' /\ ReplayInv' /\ QueueInv'
  <2>1. LedgerInv'
    BY LedgerFrame DEF CacheInv, LedgerInv, vars
  <2> QED BY <2>1 DEF CacheInv, ReplayInv, Begins, QueueInv, Awaited, vars
<1>3. KeyInv'
  BY KeyFrame DEF CacheInv, pastVars, KeyInv, vars, fileVars
<1>4. SaveInv'
  BY DEF CacheInv, SaveInv, Serving, vars
<1> QED BY <1>1, <1>2, <1>3, <1>4 DEF CacheInv

LEMMA CacheStep ==
  ASSUME CacheInv, [Next]_vars
  PROVE  CacheInv'
<1>1. CASE Client
  BY <1>1, RunsCellStep, RestartsStep, LoadLostStep, ReplaysCellStep, ReplayEndsStep,
     ReplayDivergesStep, TimesOutStep, WritesKeyStep, KeyInterruptedStep, ShutdownStep DEF Client
<1>2. CASE Worker
  BY <1>2, CommitsStep, FailsStep, WritesOleanStep, WritesScopeStep, WritesHeadStep,
     AnswersSaveStep, RefusesSaveStep, LoadsStep, LoadMissesStep DEF Worker
<1>3. CASE Dies
  BY <1>3, DiesStep
<1>4. CASE Ended \/ UNCHANGED vars
  BY <1>4, CacheStutter DEF Ended
<1> QED BY <1>1, <1>2, <1>3, <1>4 DEF Next

\* The invariant holds (SessionCache.lean, cache.py, client.py).
THEOREM CacheInvariance == Spec => []CacheInv
<1>1. Init => CacheInv
  BY CacheInit
<1>2. ASSUME CacheInv, [Next]_vars PROVE CacheInv'
  BY <1>2, CacheStep
<1> QED BY <1>1, <1>2, PTL DEF Spec

\* The client, the files and the worker keep to their types.
THEOREM CacheTypes == Spec => []TypeOK
<1>1. CacheInv => TypeOK
  BY DEF CacheInv
<1> QED BY <1>1, CacheInvariance, PTL

\* However a worker was brought back, the next cell builds on the whole ledger,
\* or, once a replay was cut, on some of its cells in their order; environment
\* and scope are of the same cells (restart_and_replay).
THEOREM RecoveryFaithful == Spec => []ConsoleStateFromLedger
<1>1. CacheInv => ConsoleStateFromLedger
  BY DEF CacheInv, StatesInv, LedgerInv, SoundOn, ConsoleStateFromLedger
<1> QED BY <1>1, CacheInvariance, PTL

\* A key that matches is one of a whole save of the last acknowledged cell's
\* state, stump or not: a load cannot miss or yield a mixture
\* (_cache_descriptor, SessionCache.save).
THEOREM KeyVouches == Spec => []MatchingKeyLoadsLastCell
<1>1. ASSUME CacheInv, Matches, NEW g \in head, NEW tag \in scope
      PROVE  /\ Importable(g) /\ Imported(g) = Cells(tag)
             /\ tag = stands /\ Renders(tag)
  <2>1. Descriptor \in key /\ Descriptor.ledger = ledger
    BY <1>1 DEF Matches, Descriptor
  <2>2. LedgerSaved
    BY <1>1, <2>1 DEF CacheInv, KeyInv
  <2>3. /\ g \in Nat /\ tag = stands /\ 0..g \subseteq DOMAIN olean /\ Apart(0..g, olean)
        /\ Declared(0..g, olean) = Cells(stands)
    BY <2>2 DEF LedgerSaved
  <2>4. Renders(tag)
    BY <1>1, <2>3 DEF CacheInv, LedgerInv
  <2> QED BY <1>1, <2>3, <2>4, ChainImports DEF CacheInv
<1>2. CacheInv => MatchingKeyLoadsLastCell
  BY <1>1 DEF MatchingKeyLoadsLastCell
<1> QED BY <1>2, CacheInvariance, PTL

\* A generation only imports older ones, over any number of recoveries
\* (freshModule).
THEOREM GenerationsDescend == Spec => []ImportsDescend
<1>1. ASSUME CacheInv, NEW g \in DOMAIN olean, NEW i \in olean[g].imports PROVE i < g
  <2>1. g \in Nat /\ olean[g].imports = IF g = 0 THEN {} ELSE {g - 1}
    BY <1>1 DEF CacheInv, Linked
  <2>2. CASE g = 0
    BY <1>1, <2>1, <2>2
  <2>3. CASE g # 0
    BY <1>1, <2>1, <2>3
  <2> QED BY <2>2, <2>3
<1>2. CacheInv => ImportsDescend
  BY <1>1 DEF ImportsDescend
<1> QED BY <1>2, CacheInvariance, PTL

\* An olean that a worker has imported is never written while it runs
\* (freshModule, Lean.writeModule).
THEOREM ImportsKept == Spec => MappedOleansKept
<1> DEFINE Kept == alive /\ alive' => \A g \in cur.base \cap DOMAIN olean :
                     g \in DOMAIN olean' /\ olean'[g] = olean[g]
<1>1. ASSUME CacheInv, [Next]_vars PROVE Kept
  <2>1. CASE olean' = olean
    BY <2>1
  <2>2. CASE WritesOlean
    <3>1. alive /\ (olean' = Without(freshModule(cur)) \/
                    olean' = With(freshModule(cur), [imports |-> cur.from, own |-> cur.own]))
      BY <2>2 DEF WritesOlean, Saving, Serving
    <3>2. freshModule(cur) \notin cur.base
      BY <1>1, <3>1 DEF CacheInv, StatesInv, SoundOn
    <3> QED BY <3>1, <3>2 DEF Without, With
  <2>3. CASE ~alive'
    BY <2>3
  <2>4. olean' = olean \/ WritesOlean \/ ~alive'
    <3>1. CASE Client
      BY <3>1 DEF Client, RunsCell, Restarts, LoadLost, ReplaysCell, ReplayEnds,
                  ReplayDiverges, TimesOut, WritesKey, KeyInterrupted, Shutdown, NoWorker, fileVars
    <3>2. CASE Worker
      BY <3>2 DEF Worker, Commits, Fails, WritesScope, WritesHead, AnswersSave, RefusesSave,
                  Loads, LoadMisses, fileVars
    <3>3. CASE Dies \/ Ended \/ UNCHANGED vars
      BY <3>3 DEF Dies, Ended, vars, fileVars
    <3> QED BY <1>1, <3>1, <3>2, <3>3 DEF Next
  <2> QED BY <2>1, <2>2, <2>3, <2>4
<1>2. ASSUME CacheInv, [Next]_vars PROVE [Kept]_vars
  BY <1>2, <1>1
<1> QED BY <1>2, CacheInvariance, PTL DEF Spec, MappedOleansKept
=============================================================================
