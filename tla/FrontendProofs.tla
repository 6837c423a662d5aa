---------------------------- MODULE FrontendProofs ----------------------------
(***************************************************************************)
(* The document reaches the kernel before the execution it belongs to, and *)
(* when the traffic settles kernel and views agree on the notebook: for    *)
(* any number of panels, any notebook and edits, and any interleaving of   *)
(* deaths, restarts and kernel switches.                                   *)
(***************************************************************************)
EXTENDS FrontendInv, RecursionProofs

----------------------------------------------------------------------------
(* Sequences whose elements have no common type *)

\* A typed sequence is one.
LEMMA SeqIs ==
  ASSUME NEW S, NEW s \in Seq(S)
  PROVE  IsSeq(s)
  BY DEF IsSeq

\* A sequence of members of S is typed by S.
LEMMA IsItsSeq ==
  ASSUME NEW s, IsSeq(s), NEW S, \A i \in 1 .. Len(s) : s[i] \in S
  PROVE  s \in Seq(S)
<1>1. [i \in 1 .. Len(s) |-> s[i]] \in [1 .. Len(s) -> S]
  OBVIOUS
<1> QED BY <1>1 DEF IsSeq

\* A function on 1 .. n is a sequence.
LEMMA FunctionIsSeq ==
  ASSUME NEW n \in Nat, NEW S, NEW f \in [1 .. n -> S]
  PROVE  IsSeq(f) /\ Len(f) = n
<1>1. f \in Seq(S) /\ Len(f) = n
  OBVIOUS
<1> QED BY <1>1, SeqIs

\* Concatenation: first the one, then the other.
LEMMA Concat ==
  ASSUME NEW s, IsSeq(s), NEW t, IsSeq(t)
  PROVE  /\ IsSeq(s \o t)
         /\ Len(s \o t) = Len(s) + Len(t)
         /\ \A i \in 1 .. Len(s) : (s \o t)[i] = s[i]
         /\ \A i \in 1 .. Len(t) : (s \o t)[Len(s) + i] = t[i]
<1> DEFINE S == {s[i] : i \in 1 .. Len(s)} \cup {t[i] : i \in 1 .. Len(t)}
<1>0. Len(s) \in Nat /\ Len(t) \in Nat
  BY DEF IsSeq
<1>1. s \in Seq(S)
  <2>1. \A i \in 1 .. Len(s) : s[i] \in S
    OBVIOUS
  <2> HIDE DEF S
  <2> QED BY <2>1, IsItsSeq
<1>2. t \in Seq(S)
  <2>1. \A i \in 1 .. Len(t) : t[i] \in S
    OBVIOUS
  <2> HIDE DEF S
  <2> QED BY <2>1, IsItsSeq
<1> HIDE DEF S
<1>3. /\ s \o t \in Seq(S)
      /\ Len(s \o t) = Len(s) + Len(t)
      /\ \A i \in 1 .. Len(s) + Len(t) :
           (s \o t)[i] = IF i <= Len(s) THEN s[i] ELSE t[i - Len(s)]
  BY <1>1, <1>2, ConcatProperties
<1>4. \A i \in 1 .. Len(s) : (s \o t)[i] = s[i]
  BY <1>0, <1>3
<1>5. ASSUME NEW i \in 1 .. Len(t) PROVE (s \o t)[Len(s) + i] = t[i]
  <2>1. Len(s) + i \in 1 .. Len(s) + Len(t) /\ ~(Len(s) + i <= Len(s)) /\ (Len(s) + i) - Len(s) = i
    BY <1>0
  <2> QED BY <1>3, <2>1
<1> QED BY <1>3, <1>4, <1>5, SeqIs

\* Tail: every message moves one place to the front.
LEMMA TailOf ==
  ASSUME NEW s, IsSeq(s), s # <<>>
  PROVE  /\ IsSeq(Tail(s))
         /\ Len(Tail(s)) = Len(s) - 1 /\ Len(s) \in Nat \ {0}
         /\ Head(s) = s[1]
         /\ \A i \in 1 .. Len(s) - 1 : Tail(s)[i] = s[i + 1]
<1> DEFINE S == {s[i] : i \in 1 .. Len(s)}
<1>1. s \in Seq(S)
  <2>1. \A i \in 1 .. Len(s) : s[i] \in S
    OBVIOUS
  <2> HIDE DEF S
  <2> QED BY <2>1, IsItsSeq
<1> HIDE DEF S
<1>2. Len(s) \in Nat /\ Len(s) # 0
  BY <1>1
<1>3. /\ Tail(s) \in Seq(S)
      /\ Len(Tail(s)) = Len(s) - 1
      /\ \A i \in 1 .. Len(Tail(s)) : Tail(s)[i] = s[i + 1]
  BY <1>1, HeadTailProperties
<1>4. Head(s) = s[1]
  BY <1>1, <1>2
<1>5. IsSeq(Tail(s))
  BY <1>3, SeqIs
<1> QED BY <1>2, <1>3, <1>4, <1>5

\* A sequence of one message.
LEMMA SingleIsSeq ==
  ASSUME NEW x
  PROVE  IsSeq(<<x>>) /\ Len(<<x>>) = 1 /\ <<x>>[1] = x
<1>1. <<x>> \in Seq({x})
  OBVIOUS
<1> QED BY <1>1, SeqIs

\* No message.
LEMMA EmptyIsSeq == IsSeq(<<>>) /\ Len(<<>>) = 0
<1>1. <<>> \in Seq({})
  OBVIOUS
<1> QED BY <1>1, SeqIs

\* Append: one message more, behind the others.
LEMMA AppendIsSeq ==
  ASSUME NEW s, IsSeq(s), NEW x
  PROVE  /\ IsSeq(Append(s, x))
         /\ Len(Append(s, x)) = Len(s) + 1
         /\ \A i \in 1 .. Len(s) : Append(s, x)[i] = s[i]
         /\ Append(s, x)[Len(s) + 1] = x
<1> DEFINE S == {s[i] : i \in 1 .. Len(s)} \cup {x}
<1>1. s \in Seq(S) /\ x \in S
  <2>1. x \in S /\ \A i \in 1 .. Len(s) : s[i] \in S
    OBVIOUS
  <2> HIDE DEF S
  <2> QED BY <2>1, IsItsSeq
<1> HIDE DEF S
<1>2. /\ Append(s, x) \in Seq(S)
      /\ Len(Append(s, x)) = Len(s) + 1
      /\ \A i \in 1 .. Len(s) : Append(s, x)[i] = s[i]
      /\ Append(s, x)[Len(s) + 1] = x
  BY <1>1, AppendProperties
<1>3. IsSeq(Append(s, x))
  BY <1>2, SeqIs
<1> QED BY <1>2, <1>3

\* What is left of a sequence that has lost its first messages.
LEMMA SuffixIsSeq ==
  ASSUME NEW s, IsSeq(s), NEW n \in 1 .. Len(s) + 1
  PROVE  /\ IsSeq(SubSeq(s, n, Len(s)))
         /\ Len(SubSeq(s, n, Len(s))) = Len(s) - n + 1
         /\ \A i \in 1 .. Len(s) - n + 1 : SubSeq(s, n, Len(s))[i] = s[n + i - 1]
<1> DEFINE S == {s[i] : i \in 1 .. Len(s)}
<1>0. Len(s) \in Nat
  BY DEF IsSeq
<1>1. \A i \in n .. Len(s) : s[i] \in S
  BY <1>0
<1> HIDE DEF S
<1>2. /\ SubSeq(s, n, Len(s)) \in Seq(S)
      /\ Len(SubSeq(s, n, Len(s))) = IF n <= Len(s) THEN Len(s) - n + 1 ELSE 0
      /\ \A i \in 1 .. Len(s) - n + 1 : SubSeq(s, n, Len(s))[i] = s[n + i - 1]
  BY <1>0, <1>1, SubSeqProperties
<1>3. IsSeq(SubSeq(s, n, Len(s)))
  BY <1>2, SeqIs
<1>4. Len(SubSeq(s, n, Len(s))) = Len(s) - n + 1
  BY <1>0, <1>2
<1> QED BY <1>2, <1>3, <1>4

----------------------------------------------------------------------------
(* What one call of send() in some panels does *)

\* An order of S lists every member of S.
LEMMA OrderType ==
  ASSUME NEW S, IsFiniteSet(S), NEW order \in Orders(S)
  PROVE  /\ Cardinality(S) \in Nat
         /\ order \in [1 .. Cardinality(S) -> S]
         /\ \A p \in S : \E i \in 1 .. Cardinality(S) : order[i] = p
<1>1. Cardinality(S) \in Nat
  BY FS_CardinalityType
<1> QED BY <1>1 DEF Orders

\* The fields of a document message.
LEMMA DocMsgFields ==
  ASSUME NEW c, NEW first
  PROVE  /\ DocMsg(c, first).type = "document" /\ DocMsg(c, first).cells = Document
         /\ DocMsg(c, first).opens = first /\ DocMsg(c, first).comm = c
  BY Zenon DEF DocMsg

\* n documents go between `before` and `after`, one of each panel that sends, and
\* a comm that a panel can use afterwards was open before or is opened by one of
\* them.
SentAs(n, S, k, held, open, before, after) ==
  /\ IsSeq(shell') /\ Len(shell') = Len(before) + n + Len(after)
  /\ \A i \in 1 .. Len(before) : shell'[i] = before[i]
  /\ \A i \in 1 .. n : /\ shell'[Len(before) + i].type = "document"
                       /\ shell'[Len(before) + i].cells = Document
  /\ \A i \in 1 .. Len(after) : shell'[Len(before) + n + i] = after[i]
  /\ \A p \in Panels : \A c \in comm'[p] \cap live' :
       \/ c \in held[p] \cap open
       \/ \E i \in 1 .. n : /\ shell'[Len(before) + i].opens
                            /\ shell'[Len(before) + i].comm = c
  /\ \A p \in Panels : S = {p} /\ panel[p] = "ready" /\ k # "none" =>
       /\ n = 1
       /\ shell'[Len(before) + 1].cells = Document
       /\ \/ shell'[Len(before) + 1].opens
          \/ shell'[Len(before) + 1].comm \in held[p] \cap open

\* The same, panel by panel: whether p holds the comm it has sent on, or is no
\* sender and holds what it did.
Sender(p, S, k) == p \in S /\ panel[p] \in {"tracked", "ready"} /\ k # "none"
SentOn(p, c, n, held, open, before) ==
  /\ comm'[p] = {c} /\ c \in live'
  /\ c \in held[p] \cap open \/ c = <<p, opened[p] + 1>>
  /\ \E i \in 1 .. n : /\ shell'[Len(before) + i].comm = c
                       /\ shell'[Len(before) + i].opens \/ c \in held[p] \cap open
SentBy(n, S, k, held, open, before) ==
  /\ open \subseteq live' /\ \A c \in live' : c \in open \/ c[1] \in S
  /\ \A p \in Panels :
       IF Sender(p, S, k) THEN \E c : SentOn(p, c, n, held, open, before)
       ELSE comm'[p] = held[p]

\* What send() does, in the terms of the two operators above.
LEMMA Sent ==
  ASSUME FrontendAssumption, NEW S \in SUBSET Panels, NEW k, NEW held, NEW open,
         NEW before, IsSeq(before), NEW after, IsSeq(after),
         Send(S, k, held, open, before, after)
  PROVE  \E n \in Nat : /\ SentAs(n, S, k, held, open, before, after)
                        /\ SentBy(n, S, k, held, open, before)
<1> DEFINE Senders == {p \in S : panel[p] \in {"tracked", "ready"} /\ k # "none"}
           Opening == {p \in Senders : held[p] \cap open = {}}
           New(p)  == <<p, opened[p] + 1>>
           Used(p) == IF p \in Opening THEN New(p) ELSE CHOOSE c \in held[p] \cap open : TRUE
           docs(o) == [i \in DOMAIN o |-> DocMsg(Used(o[i]), o[i] \in Opening)]
           n == Cardinality(Senders)
<1>1. /\ comm' = [p \in Panels |-> IF p \in Senders THEN {Used(p)} ELSE held[p]]
      /\ live' = open \cup {New(p) : p \in Opening}
      /\ \E o \in Orders(Senders) : shell' = before \o docs(o) \o after
  BY DEF Send
<1>2. PICK order \in Orders(Senders) : shell' = before \o docs(order) \o after
  BY <1>1
<1>3. IsFiniteSet(Senders)
  <2>1. Senders \in SUBSET Panels
    OBVIOUS
  <2> HIDE DEF Senders
  <2> QED BY <2>1, FS_Subset DEF FrontendAssumption
<1>4. /\ n \in Nat /\ order \in [1 .. n -> Senders]
      /\ \A p \in Senders : \E i \in 1 .. n : order[i] = p
  <2> HIDE DEF Senders
  <2> QED BY <1>3, OrderType
<1> DEFINE D == docs(order)
<1>5. \A i \in 1 .. n : D[i] = DocMsg(Used(order[i]), order[i] \in Opening)
  <2> HIDE DEF Senders, Used, Opening
  <2> QED BY <1>4
<1>6. \A i \in 1 .. n :
        /\ D[i].type = "document" /\ D[i].cells = Document
        /\ D[i].opens = (order[i] \in Opening) /\ D[i].comm = Used(order[i])
  <2> HIDE DEF n, D, Used, Opening, Senders
  <2> QED BY <1>5, DocMsgFields
<1>7. IsSeq(D) /\ Len(D) = n
  <2>1. DOMAIN order = 1 .. n
    <3> HIDE DEF n, Senders
    <3> QED BY <1>4
  <2>2. D = [i \in 1 .. n |-> DocMsg(Used(order[i]), order[i] \in Opening)]
    <3> HIDE DEF n, Senders, Opening, Used
    <3> QED BY <2>1
  <2>3. D \in [1 .. n -> {D[i] : i \in 1 .. n}]
    <3> HIDE DEF n, Senders, Opening, Used, D
    <3> QED BY <2>2
  <2> HIDE DEF D, n
  <2> QED BY <1>4, <2>3, FunctionIsSeq
<1> HIDE DEF D
<1>8. shell' = (before \o D) \o after
  BY <1>2 DEF D
<1>9. /\ IsSeq(before \o D) /\ Len(before \o D) = Len(before) + n
      /\ \A i \in 1 .. Len(before) : (before \o D)[i] = before[i]
      /\ \A i \in 1 .. n : (before \o D)[Len(before) + i] = D[i]
  <2> HIDE DEF n
  <2>1. IsSeq(before \o D)
    BY <1>7, Concat
  <2>2. Len(before \o D) = Len(before) + Len(D)
    BY <1>7, Concat
  <2>3. \A i \in 1 .. Len(before) : (before \o D)[i] = before[i]
    BY <1>7, Concat
  <2>4. \A i \in 1 .. Len(D) : (before \o D)[Len(before) + i] = D[i]
    BY <1>7, Concat
  <2> QED BY <1>7, <2>1, <2>2, <2>3, <2>4
<1>10. /\ IsSeq(shell') /\ Len(shell') = Len(before) + n + Len(after)
       /\ \A i \in 1 .. Len(before) + n : shell'[i] = (before \o D)[i]
       /\ \A i \in 1 .. Len(after) : shell'[Len(before) + n + i] = after[i]
  <2> HIDE DEF n
  <2> QED BY <1>8, <1>9, Concat
<1>11. Len(before) \in Nat
  BY DEF IsSeq
<1>12. /\ \A i \in 1 .. Len(before) : shell'[i] = before[i]
       /\ \A i \in 1 .. n : shell'[Len(before) + i] = D[i]
  <2> HIDE DEF n
  <2>1. \A i \in 1 .. Len(before) : i \in 1 .. Len(before) + n
    BY <1>4, <1>11
  <2>2. \A i \in 1 .. n : Len(before) + i \in 1 .. Len(before) + n
    BY <1>4, <1>11
  <2> QED BY <2>1, <2>2, <1>9, <1>10
<1>13. ASSUME NEW p \in Panels, NEW c \in comm'[p] \cap live'
       PROVE  \/ c \in held[p] \cap open
              \/ \E i \in 1 .. n : D[i].opens /\ D[i].comm = c
  <2>1. ASSUME NEW q \in Opening, c = New(q)
        PROVE  \E i \in 1 .. n : D[i].opens /\ D[i].comm = c
    <3>1. PICK i \in 1 .. n : order[i] = q
      BY <1>4
    <3>2. D[i].opens /\ D[i].comm = c
      BY <1>6, <2>1, <3>1
    <3> QED BY <3>2
  <2>2. CASE p \in Senders
    <3>1. c = Used(p)
      BY <1>1, <2>2
    <3>2. CASE p \in Opening
      BY <2>1, <3>1, <3>2
    <3>3. CASE p \notin Opening
      BY <2>2, <3>1, <3>3
    <3> QED BY <3>2, <3>3
  <2>3. CASE p \notin Senders
    <3>1. c \in held[p]
      BY <1>1, <2>3
    <3>2. CASE c \in open
      BY <3>1, <3>2
    <3>3. CASE c \notin open
      <4>1. PICK q \in Opening : c = New(q)
        BY <1>1, <3>3
      <4> QED BY <2>1, <4>1
    <3> QED BY <3>2, <3>3
  <2> QED BY <2>2, <2>3
<1>14. ASSUME NEW p \in Panels, S = {p}, panel[p] = "ready", k # "none"
       PROVE  n = 1 /\ D[1].cells = Document /\ (D[1].opens \/ D[1].comm \in held[p] \cap open)
  <2>1. Senders = {p}
    BY <1>14
  <2>2. n = 1
    <3> HIDE DEF Senders
    <3> QED BY <2>1, FS_Singleton
  <2>3. order[1] = p /\ 1 \in 1 .. n
    <3>1. order \in [1 .. 1 -> {p}]
      <4> HIDE DEF Senders, n
      <4> QED BY <2>1, <2>2, <1>4
    <3> QED BY <2>2, <3>1
  <2>6. D[1].cells = Document /\ D[1].opens = (p \in Opening) /\ D[1].comm = Used(p)
    <3> HIDE DEF n, Opening, Used, Senders
    <3> QED BY <2>3, <1>6
  <2>4. CASE p \in Opening
    <3> HIDE DEF n, Opening, Used, Senders
    <3> QED BY <2>2, <2>4, <2>6
  <2>5. CASE p \notin Opening
    <3>1. p \in Senders
      BY <2>1
    <3>2. held[p] \cap open # {}
      BY <2>5, <3>1
    <3>3. Used(p) \in held[p] \cap open
      BY <2>5, <3>2
    <3> HIDE DEF n, Opening, Used, Senders
    <3> QED BY <2>2, <2>6, <3>3
  <2> QED BY <2>2, <2>4, <2>5
<1>18. open \subseteq live' /\ \A c \in live' : c \in open \/ c[1] \in S
  BY <1>1
<1>19. ASSUME NEW p \in Panels, Sender(p, S, k)
       PROVE  \E c : SentOn(p, c, n, held, open, before)
  <2>1. p \in Senders
    BY <1>19 DEF Sender
  <2>2. comm'[p] = {Used(p)}
    BY <1>1, <2>1
  <2>3. PICK i \in 1 .. n : order[i] = p
    BY <1>4, <2>1
  <2>4. shell'[Len(before) + i].comm = Used(p) /\ shell'[Len(before) + i].opens = (p \in Opening)
    <3> HIDE DEF n, Opening, Used, Senders
    <3> QED BY <1>6, <1>12, <2>3
  <2>5. CASE p \in Opening
    <3>1. Used(p) = <<p, opened[p] + 1>> /\ Used(p) \in live'
      BY <1>1, <2>5
    <3> HIDE DEF n, Opening, Used, Senders
    <3>2. SentOn(p, Used(p), n, held, open, before)
      BY <2>2, <2>4, <2>5, <3>1 DEF SentOn
    <3> QED BY <3>2
  <2>6. CASE p \notin Opening
    <3>1. held[p] \cap open # {}
      BY <2>1, <2>6
    <3>2. Used(p) \in held[p] \cap open
      BY <2>6, <3>1
    <3> HIDE DEF n, Opening, Used, Senders
    <3>3. SentOn(p, Used(p), n, held, open, before)
      BY <1>18, <2>2, <2>4, <2>6, <3>2 DEF SentOn
    <3> QED BY <3>3
  <2> QED BY <2>5, <2>6
<1>20. ASSUME NEW p \in Panels, ~Sender(p, S, k) PROVE comm'[p] = held[p]
  BY <1>1, <1>20 DEF Sender
<1>21. SentBy(n, S, k, held, open, before)
  <2> HIDE DEF n, Senders, Opening, Used
  <2> QED BY <1>18, <1>19, <1>20 DEF SentBy
<1> HIDE DEF n, Senders, Opening, Used
<1>15. \A i \in 1 .. n : /\ shell'[Len(before) + i].type = "document"
                        /\ shell'[Len(before) + i].cells = Document
  BY <1>6, <1>12
<1>16. ASSUME NEW p \in Panels, NEW c \in comm'[p] \cap live'
       PROVE  \/ c \in held[p] \cap open
              \/ \E i \in 1 .. n : /\ shell'[Len(before) + i].opens
                                   /\ shell'[Len(before) + i].comm = c
  BY <1>12, <1>13
<1>17. ASSUME NEW p \in Panels, S = {p}, panel[p] = "ready", k # "none"
       PROVE  /\ n = 1
              /\ shell'[Len(before) + 1].cells = Document
              /\ \/ shell'[Len(before) + 1].opens
                 \/ shell'[Len(before) + 1].comm \in held[p] \cap open
  <2>1. n = 1 /\ D[1].cells = Document /\ (D[1].opens \/ D[1].comm \in held[p] \cap open)
    BY <1>14, <1>17
  <2>2. shell'[Len(before) + 1] = D[1]
    BY <1>12, <2>1
  <2> QED BY <2>1, <2>2
<1> n \in Nat
  BY <1>4
<1> WITNESS n \in Nat
<1> QED BY <1>10, <1>12, <1>15, <1>16, <1>17, <1>21 DEF SentAs

----------------------------------------------------------------------------
(* Steps *)

\* What reaches the panels: a step drops messages, or adds one that is no
\* announcement of a restart, or one of the process that has just died.
LEMMA SignalsKept ==
  ASSUME Signals, incarnation' \in Nat, incarnation \in Nat, incarnation <= incarnation',
         \/ iopub' = iopub
         \/ iopub # <<>> /\ iopub' = Tail(iopub)
         \/ iopub' = <<>>
         \/ iopub' = <<[type |-> "idle"]>>
         \/ \E t : /\ IsSeq(t) /\ iopub' = iopub \o t
                  /\ \A i \in 1 .. Len(t) :
                       t[i].type = "restarting" => t[i].of \in Nat /\ t[i].of <= incarnation'
  PROVE  Signals'
<1> USE DEF Signals
<1>0. Len(iopub) \in Nat
  BY DEF IsSeq
<1>1. CASE iopub' = iopub
  BY <1>1
<1>2. CASE iopub # <<>> /\ iopub' = Tail(iopub)
  <2>1. /\ IsSeq(iopub') /\ Len(iopub') = Len(iopub) - 1
        /\ \A i \in 1 .. Len(iopub) - 1 : iopub'[i] = iopub[i + 1]
    BY <1>2, TailOf
  <2>2. ASSUME NEW i \in 1 .. Len(iopub'), iopub'[i].type = "restarting"
        PROVE  iopub'[i].of \in Nat /\ iopub'[i].of <= incarnation'
    <3>1. i + 1 \in 1 .. Len(iopub) /\ iopub'[i] = iopub[i + 1]
      BY <1>0, <2>1
    <3> QED BY <2>2, <3>1
  <2> QED BY <2>1, <2>2
<1>3. CASE iopub' = <<>>
  BY <1>3, EmptyIsSeq
<1>4. CASE iopub' = <<[type |-> "idle"]>>
  <2>1. IsSeq(iopub') /\ Len(iopub') = 1 /\ iopub'[1].type = "idle"
    BY <1>4, SingleIsSeq
  <2> QED BY <2>1
<1>5. ASSUME NEW t, IsSeq(t), iopub' = iopub \o t,
             \A i \in 1 .. Len(t) :
               t[i].type = "restarting" => t[i].of \in Nat /\ t[i].of <= incarnation'
      PROVE  Signals'
  <2>1. IsSeq(iopub')
    BY <1>5, Concat
  <2>2. Len(iopub') = Len(iopub) + Len(t)
    BY <1>5, Concat
  <2>3. \A i \in 1 .. Len(iopub) : iopub'[i] = iopub[i]
    BY <1>5, Concat
  <2>4. \A i \in 1 .. Len(t) : iopub'[Len(iopub) + i] = t[i]
    BY <1>5, Concat
  <2>5. ASSUME NEW i \in 1 .. Len(iopub'), iopub'[i].type = "restarting"
        PROVE  iopub'[i].of \in Nat /\ iopub'[i].of <= incarnation'
    <3>0. Len(t) \in Nat
      BY <1>5 DEF IsSeq
    <3>1. CASE i <= Len(iopub)
      <4>1. i \in 1 .. Len(iopub)
        BY <1>0, <2>2, <3>0, <3>1
      <4>2. iopub'[i] = iopub[i]
        BY <2>3, <4>1
      <4>3. iopub[i].of \in Nat /\ iopub[i].of <= incarnation
        BY <2>5, <4>1, <4>2
      <4> QED BY <4>2, <4>3
    <3>2. CASE ~(i <= Len(iopub))
      <4>1. PICK j \in 1 .. Len(t) : i = Len(iopub) + j
        <5> DEFINE d == i - Len(iopub)
        <5>1. d \in 1 .. Len(t) /\ i = Len(iopub) + d
          BY <1>0, <2>2, <3>0, <3>2
        <5> HIDE DEF d
        <5> QED BY <5>1
      <4>2. iopub'[i] = t[j]
        BY <2>4, <4>1
      <4> QED BY <1>5, <2>5, <4>2
    <3> QED BY <3>1, <3>2
  <2> QED BY <2>1, <2>5
<1> QED BY <1>1, <1>2, <1>3, <1>4, <1>5

\* The statuses of one broadcast.
LEMMA BroadcastSignals ==
  ASSUME Comms', Broadcast
  PROVE  \/ iopub' = iopub
         \/ \E t : /\ IsSeq(t) /\ iopub' = iopub \o t
                  /\ \A i \in 1 .. Len(t) :
                       t[i].type = "restarting" => t[i].of \in Nat /\ t[i].of <= incarnation'
<1>1. CASE kdoc' = <<>>
  BY <1>1 DEF Broadcast
<1>2. CASE kdoc' # <<>>
  <2> DEFINE T(o) == [i \in DOMAIN o |-> [type |-> "status", comm |-> o[i], stale |-> last']]
             n == Cardinality(comms')
  <2>1. PICK o \in Orders(comms') : iopub' = iopub \o T(o)
    BY <1>2 DEF Broadcast
  <2>2. n \in Nat /\ o \in [1 .. n -> comms']
    BY OrderType DEF Comms
  <2> DEFINE t == T(o)
  <2>3. t = [i \in 1 .. n |-> [type |-> "status", comm |-> o[i], stale |-> last']]
    <3>1. DOMAIN o = 1 .. n
      <4> HIDE DEF n
      <4> QED BY <2>2
    <3> HIDE DEF n
    <3> QED BY <3>1
  <2>4. t \in [1 .. n -> {t[i] : i \in 1 .. n}] /\ \A i \in 1 .. n : t[i].type = "status"
    <3> HIDE DEF n, t
    <3> QED BY <2>3
  <2>5. IsSeq(t) /\ Len(t) = n
    <3> HIDE DEF n, t
    <3> QED BY <2>2, <2>4, FunctionIsSeq
  <2>6. iopub' = iopub \o t
    BY <2>1
  <2> HIDE DEF t
  <2> QED BY <2>4, <2>5, <2>6
<1> QED BY <1>1, <1>2

\* The panels of S send: nothing overtakes what is under way.
LEMMA SendStep ==
  ASSUME FrontendAssumption, ExecutionInv, NEW S \in SUBSET Panels,
         Send(S, kind, comm, live, shell, <<>>),
         UNCHANGED <<kind, comms, kdoc, incarnation, seen>>
  PROVE  Requests' /\ Executions' /\ CommsKnown'
<1> USE DEF ExecutionInv
<1>1. PICK n \in Nat :
        /\ IsSeq(shell') /\ Len(shell') = Len(shell) + n
        /\ \A i \in 1 .. Len(shell) : shell'[i] = shell[i]
        /\ \A i \in 1 .. n : shell'[Len(shell) + i].type = "document"
        /\ \A p \in Panels : \A c \in comm'[p] \cap live' :
             \/ c \in comm[p] \cap live
             \/ \E i \in 1 .. n : /\ shell'[Len(shell) + i].opens
                                  /\ shell'[Len(shell) + i].comm = c
  <2>1. IsSeq(shell) /\ IsSeq(<<>>) /\ Len(<<>>) = 0 /\ Len(shell) \in Nat
    BY EmptyIsSeq DEF Requests, IsSeq
  <2>2. PICK n \in Nat : SentAs(n, S, kind, comm, live, shell, <<>>)
    BY <2>1, Sent
  <2>3. Len(shell) + n + Len(<<>>) = Len(shell) + n
    BY <2>1
  <2> QED BY <2>2, <2>3 DEF SentAs
<1>2. Len(shell) \in Nat
  BY DEF Requests, IsSeq
<1>3. ASSUME NEW i \in 1 .. Len(shell'), shell'[i].type = "execute"
      PROVE  i \in 1 .. Len(shell) /\ shell'[i] = shell[i]
  <2>1. CASE i <= Len(shell)
    BY <1>1, <1>2, <2>1
  <2>2. CASE ~(i <= Len(shell))
    <3>1. i - Len(shell) \in 1 .. n /\ Len(shell) + (i - Len(shell)) = i
      BY <1>1, <1>2, <2>2
    <3> QED BY <1>1, <1>3, <3>1
  <2> QED BY <2>1, <2>2
<1>4. Requests'
  BY <1>1, <1>3 DEF Requests
<1>6. Executions'
  <2> SUFFICES ASSUME kind = "nbdsl", NEW i \in 1 .. Len(shell'),
                      shell'[i].type = "execute", shell'[i].to = incarnation
               PROVE  Preceded(i)'
    BY DEF Executions
  <2>1. i \in 1 .. Len(shell) /\ shell'[i] = shell[i]
    BY <1>3
  <2>2. Preceded(i)
    BY <2>1 DEF Executions
  <2>3. CASE i = 1
    BY <2>1, <2>2, <2>3 DEF Preceded
  <2>4. CASE i # 1
    <3>1. i - 1 \in 1 .. Len(shell)
      BY <1>2, <2>1, <2>4
    <3>2. shell'[i - 1] = shell[i - 1]
      BY <1>1, <3>1
    <3>3. CASE shell[i - 1].comm \in comms
      BY <2>1, <2>2, <2>4, <3>2, <3>3 DEF Preceded
    <3>4. CASE Opened(shell[i - 1].comm, i - 1)
      <4>1. \E j \in 1 .. i - 1 : shell[j].type = "document" /\ shell[j].opens
                                  /\ shell[j].comm = shell[i - 1].comm
        BY <3>4 DEF Opened
      <4>2. \A j \in 1 .. i - 1 : shell'[j] = shell[j]
        BY <1>1, <1>2, <3>1
      <4>3. Opened(shell[i - 1].comm, i - 1)'
        BY <3>2, <4>1, <4>2 DEF Opened
      <4> QED BY <2>1, <2>2, <2>4, <3>2, <4>3 DEF Preceded
    <3> QED BY <2>2, <2>4, <3>3, <3>4 DEF Preceded
  <2> QED BY <2>3, <2>4
<1>7. CommsKnown'
  <2> SUFFICES ASSUME kind = "nbdsl", seen = incarnation, NEW p \in Panels,
                      NEW c \in comm'[p] \cap live'
               PROVE  c \in comms \/ Opened(c, Len(shell))'
    BY DEF CommsKnown
  <2>1. CASE c \in comm[p] \cap live
    <3>1. c \in comms \/ Opened(c, Len(shell))
      BY <2>1 DEF CommsKnown
    <3>2. Opened(c, Len(shell)) => Opened(c, Len(shell))'
      BY <1>1, <1>2 DEF Opened
    <3> QED BY <3>1, <3>2
  <2>2. ASSUME NEW i \in 1 .. n, shell'[Len(shell) + i].opens, shell'[Len(shell) + i].comm = c
        PROVE  Opened(c, Len(shell))'
    <3>1. Len(shell) + i \in 1 .. Len(shell')
      BY <1>1, <1>2
    <3> QED BY <1>1, <2>2, <3>1 DEF Opened
  <2> QED BY <1>1, <2>1, <2>2
<1> QED BY <1>4, <1>6, <1>7

\* The fields of an execution.
LEMMA ExecMsgFields ==
  ASSUME NEW id
  PROVE  /\ ExecMsg(id).type = "execute" /\ ExecMsg(id).doc = Document
         /\ ExecMsg(id).to = seen
  BY DEF ExecMsg

\* A cell is run: its execution follows the document, and the document has a
\* comm that the kernel knows.
LEMMA RunStep ==
  ASSUME FrontendAssumption, ExecutionInv, NEW p \in Panels, NEW j, Run(p, j)
  PROVE  Requests' /\ Executions' /\ CommsKnown'
<1> USE DEF ExecutionInv
<1>1. CASE kind = "none"
  <2>1. Send({p}, kind, comm, live, shell, <<>>)
    BY <1>1 DEF Run
  <2>2. UNCHANGED <<kind, comms, kdoc, incarnation, seen>>
    BY DEF Run, kernelVars
  <2>3. {p} \in SUBSET Panels
    OBVIOUS
  <2> QED BY <2>1, <2>2, <2>3, SendStep
<1>2. CASE kind # "none"
  <2> DEFINE exec == ExecMsg(cells[j].id)
             L == Len(shell)
  <2>1. Send({p}, kind, comm, live, shell, <<exec>>)
    BY <1>2 DEF Run
  <2>2. /\ UNCHANGED <<kind, comms, kdoc, incarnation, seen>>
        /\ panel[p] = "ready"
    BY DEF Run, kernelVars
  <2>3. IsSeq(<<exec>>) /\ Len(<<exec>>) = 1 /\ <<exec>>[1] = exec
    BY SingleIsSeq
  <2>4. exec.type = "execute" /\ exec.doc = Document /\ exec.to = seen
    BY ExecMsgFields
  <2> HIDE DEF exec
  <2>5. IsSeq(shell) /\ {p} \in SUBSET Panels
    BY DEF Requests
  <2>6. PICK n \in Nat : SentAs(n, {p}, kind, comm, live, shell, <<exec>>)
    BY <2>1, <2>3, <2>5, Sent
  <2>7. n = 1
    BY <1>2, <2>2, <2>6 DEF SentAs
  <2>8. L \in Nat
    BY DEF Requests, IsSeq
  <2>9. /\ IsSeq(shell') /\ Len(shell') = L + 2
        /\ \A i \in 1 .. L : shell'[i] = shell[i]
        /\ shell'[L + 1].type = "document"
        /\ shell'[L + 1].cells = Document
        /\ \/ shell'[L + 1].opens
           \/ shell'[L + 1].comm \in comm[p] \cap live
    BY <1>2, <2>2, <2>3, <2>6, <2>7, <2>8 DEF SentAs
  <2>10. shell'[L + 2] = exec
    <3>1. shell'[L + n + 1] = <<exec>>[1]
      BY <2>3, <2>6 DEF SentAs
    <3>2. L + n + 1 = L + 2
      BY <2>7, <2>8
    <3> QED BY <2>3, <3>1, <3>2
  <2>11. \A q \in Panels : \A c \in comm'[q] \cap live' :
           c \in comm[q] \cap live \/ (shell'[L + 1].opens /\ shell'[L + 1].comm = c)
    <3>1. ASSUME NEW q \in Panels, NEW c \in comm'[q] \cap live', c \notin comm[q] \cap live
          PROVE  shell'[L + 1].opens /\ shell'[L + 1].comm = c
      <4>1. PICK i \in 1 .. n : shell'[L + i].opens /\ shell'[L + i].comm = c
        BY <2>6, <3>1 DEF SentAs
      <4>2. i = 1
        BY <2>7
      <4> QED BY <4>1, <4>2
    <3> QED BY <3>1
  <2> HIDE DEF L
  <2>13. Requests'
    <3>1. ASSUME NEW i \in 1 .. L + 2, shell'[i].type = "execute"
          PROVE  shell'[i].to \in Nat /\ shell'[i].to <= incarnation
      <4>1. CASE i \in 1 .. L
        BY <2>9, <3>1, <4>1 DEF Requests, L
      <4>2. CASE i = L + 1
        BY <2>9, <3>1, <4>2
      <4>3. CASE i = L + 2
        BY <2>4, <2>10, <4>3 DEF Processes
      <4> QED BY <2>8, <4>1, <4>2, <4>3
    <3> QED BY <2>2, <2>9, <3>1 DEF Requests
  <2>14. Executions'
    <3> SUFFICES ASSUME kind = "nbdsl", NEW i \in 1 .. L + 2,
                        shell'[i].type = "execute", shell'[i].to = incarnation
                 PROVE  Preceded(i)'
      BY <2>2, <2>9 DEF Executions
    <3>1. CASE i \in 1 .. L
      <4>1. shell'[i] = shell[i]
        BY <2>9, <3>1
      <4>2. Preceded(i)
        BY <3>1, <4>1 DEF Executions, L
      <4>3. CASE i = 1
        BY <2>2, <4>1, <4>2, <4>3 DEF Preceded
      <4>4. CASE i # 1
        <5>1. i - 1 \in 1 .. L
          BY <2>8, <3>1, <4>4
        <5>2. shell'[i - 1] = shell[i - 1]
          BY <2>9, <5>1
        <5>3. CASE shell[i - 1].comm \in comms
          BY <2>2, <4>1, <4>2, <4>4, <5>2, <5>3 DEF Preceded
        <5>4. CASE Opened(shell[i - 1].comm, i - 1)
          <6>1. \A k \in 1 .. i - 1 : shell'[k] = shell[k]
            BY <2>8, <2>9, <5>1
          <6>2. Opened(shell[i - 1].comm, i - 1)'
            BY <5>2, <5>4, <6>1 DEF Opened
          <6> QED BY <2>2, <4>1, <4>2, <4>4, <5>2, <6>2 DEF Preceded
        <5> QED BY <4>2, <4>4, <5>3, <5>4 DEF Preceded
      <4> QED BY <4>3, <4>4
    <3>2. CASE i = L + 1
      BY <2>9, <3>2
    <3>3. CASE i = L + 2
      <4>1. seen = incarnation
        BY <2>4, <2>10, <3>3
      <4>2. i # 1 /\ i - 1 = L + 1 /\ L + 1 \in 1 .. L + 1
        BY <2>8, <3>3
      <4>3. CASE shell'[L + 1].opens
        <5>1. \E k \in 1 .. L + 1 : /\ shell'[k].type = "document" /\ shell'[k].opens
                                  /\ shell'[k].comm = shell'[L + 1].comm
          BY <2>9, <4>2, <4>3
        <5> QED BY <2>2, <2>4, <2>9, <2>10, <3>3, <4>2, <5>1 DEF Preceded, Opened
      <4>4. CASE shell'[L + 1].comm \in comm[p] \cap live
        <5> DEFINE c == shell'[L + 1].comm
        <5>1. c \in comms \/ Opened(c, L)
          BY <4>1, <4>4 DEF CommsKnown, L
        <5>2. c \in comms \/ \E k \in 1 .. L + 1 : /\ shell'[k].type = "document"
                                                  /\ shell'[k].opens /\ shell'[k].comm = c
          <6>1. CASE c \in comms
            BY <6>1
          <6>2. CASE Opened(c, L)
            <7> HIDE DEF c
            <7>1. PICK k \in 1 .. L : shell[k].type = "document" /\ shell[k].opens
                                     /\ shell[k].comm = c
              BY <6>2 DEF Opened
            <7>2. k \in 1 .. L + 1 /\ shell'[k] = shell[k]
              BY <2>8, <2>9
            <7> QED BY <7>1, <7>2
          <6> QED BY <5>1, <6>1, <6>2
        <5> QED BY <2>2, <2>4, <2>9, <2>10, <3>3, <4>2, <5>2 DEF Preceded, Opened
      <4> QED BY <2>9, <4>3, <4>4
    <3> QED BY <2>8, <3>1, <3>2, <3>3
  <2>15. CommsKnown'
    <3> SUFFICES ASSUME kind = "nbdsl", seen = incarnation, NEW q \in Panels,
                        NEW c \in comm'[q] \cap live'
                 PROVE  c \in comms \/ Opened(c, Len(shell))'
      BY <2>2 DEF CommsKnown
    <3>1. CASE c \in comm[q] \cap live
      <4>1. c \in comms \/ Opened(c, L)
        BY <3>1 DEF CommsKnown, L
      <4>2. CASE c \in comms
        BY <4>2
      <4>3. CASE Opened(c, L)
        <5>1. PICK i \in 1 .. L : shell[i].type = "document" /\ shell[i].opens
                                 /\ shell[i].comm = c
          BY <4>3 DEF Opened
        <5>2. i \in 1 .. Len(shell') /\ shell'[i] = shell[i]
          BY <2>8, <2>9
        <5> QED BY <5>1, <5>2 DEF Opened
      <4> QED BY <4>1, <4>2, <4>3
    <3>2. CASE shell'[L + 1].opens /\ shell'[L + 1].comm = c
      <4>1. L + 1 \in 1 .. Len(shell')
        BY <2>8, <2>9
      <4> QED BY <2>9, <3>2, <4>1 DEF Opened
    <3> QED BY <2>11, <3>1, <3>2
  <2> QED BY <2>13, <2>14, <2>15
<1> QED BY <1>1, <1>2

\* The kernel takes the next message.
LEMMA HandleStep ==
  ASSUME ExecutionInv, shell # <<>>, shell' = Tail(shell),
         UNCHANGED <<kind, comm, live, incarnation, seen>>,
         comms \subseteq comms',
         kind = "nbdsl" /\ Head(shell).type = "document" =>
           /\ Head(shell).opens => Head(shell).comm \in comms'
           /\ Head(shell).comm \in comms' => kdoc' = Head(shell).cells
  PROVE  Requests' /\ Executions' /\ CommsKnown'
<1> USE DEF ExecutionInv
<1>1. /\ IsSeq(shell') /\ Len(shell') = Len(shell) - 1 /\ Len(shell) \in Nat \ {0}
      /\ Head(shell) = shell[1]
      /\ \A i \in 1 .. Len(shell) - 1 : shell'[i] = shell[i + 1]
  BY TailOf DEF Requests
<1>2. \A i \in 1 .. Len(shell') : i + 1 \in 1 .. Len(shell) /\ shell'[i] = shell[i + 1]
  BY <1>1
<1>3. Requests'
  BY <1>1, <1>2 DEF Requests
<1>4. ASSUME kind = "nbdsl", NEW c, NEW m \in 1 .. Len(shell), c \in comms \/ Opened(c, m)
      PROVE  c \in comms' \/ \E k \in 1 .. m - 1 : /\ shell'[k].type = "document"
                                                 /\ shell'[k].opens /\ shell'[k].comm = c
  <2>1. CASE c \in comms
    BY <2>1
  <2>2. CASE Opened(c, m)
    <3>1. PICK j \in 1 .. m : shell[j].type = "document" /\ shell[j].opens /\ shell[j].comm = c
      BY <2>2 DEF Opened
    <3>2. CASE j = 1
      BY <1>1, <1>4, <3>1, <3>2
    <3>3. CASE j # 1
      <4>1. PICK k \in 1 .. m - 1 : j = k + 1
        <5>1. j - 1 \in 1 .. m - 1 /\ j = (j - 1) + 1
          BY <3>3
        <5> QED BY <5>1
      <4>2. shell'[k] = shell[j]
        BY <1>1, <4>1
      <4> QED BY <3>1, <4>2
    <3> QED BY <3>2, <3>3
  <2> QED BY <1>4, <2>1, <2>2
<1>5. Executions'
  <2> SUFFICES ASSUME kind = "nbdsl", NEW i \in 1 .. Len(shell'),
                      shell'[i].type = "execute", shell'[i].to = incarnation
               PROVE  Preceded(i)'
    BY DEF Executions
  <2>1. i + 1 \in 1 .. Len(shell) /\ shell'[i] = shell[i + 1] /\ i + 1 # 1 /\ (i + 1) - 1 = i
    BY <1>1, <1>2
  <2>2. Preceded(i + 1)
    BY <2>1 DEF Executions
  <2>3. /\ shell[i].type = "document" /\ shell[i].cells = shell[i + 1].doc
        /\ shell[i].comm \in comms \/ Opened(shell[i].comm, i)
    BY <2>1, <2>2 DEF Preceded
  <2>4. \/ shell[i].comm \in comms'
        \/ \E k \in 1 .. i - 1 : /\ shell'[k].type = "document"
                               /\ shell'[k].opens /\ shell'[k].comm = shell[i].comm
    <3>1. i \in 1 .. Len(shell)
      BY <1>1
    <3> QED BY <1>4, <2>3, <3>1
  <2>5. CASE i = 1
    <3>1. shell[1].comm \in comms'
      BY <2>4, <2>5
    <3>2. kdoc' = shell[1].cells
      BY <1>1, <2>3, <2>5, <3>1
    <3> QED BY <2>1, <2>3, <2>5, <3>2 DEF Preceded
  <2>6. CASE i # 1
    <3>1. i - 1 \in 1 .. Len(shell') /\ (i - 1) + 1 = i
      BY <1>1, <2>6
    <3>2. shell'[i - 1] = shell[i]
      BY <1>2, <3>1
    <3> QED BY <2>1, <2>3, <2>4, <2>6, <3>2 DEF Preceded, Opened
  <2> QED BY <2>5, <2>6
<1>6. CommsKnown'
  <2> SUFFICES ASSUME kind = "nbdsl", seen = incarnation, NEW p \in Panels,
                      NEW c \in comm[p] \cap live
               PROVE  c \in comms' \/ Opened(c, Len(shell))'
    BY DEF CommsKnown
  <2>1. c \in comms \/ Opened(c, Len(shell))
    BY DEF CommsKnown
  <2>2. Len(shell) \in 1 .. Len(shell)
    BY <1>1
  <2> QED BY <1>1, <1>4, <2>1, <2>2 DEF Opened
<1> QED BY <1>3, <1>5, <1>6

\* The process is replaced: what was sent to it is forgotten or is not for the
\* new one, and the panels have dropped their comms or have not noticed.
LEMMA ReplacedStep ==
  ASSUME ExecutionInv, shell' \in Surviving, incarnation' = incarnation + 1,
         seen' # incarnation' \/ comm' = NoComm
  PROVE  Requests' /\ Executions' /\ CommsKnown'
<1> USE DEF ExecutionInv
<1>1. PICK n \in 1 .. Len(shell) + 1 : shell' = SubSeq(shell, n, Len(shell))
  BY DEF Surviving
<1>2. IsSeq(shell') /\ Len(shell') = Len(shell) - n + 1
  BY <1>1, SuffixIsSeq DEF Requests
<1>3. \A i \in 1 .. Len(shell) - n + 1 : shell'[i] = shell[n + i - 1]
  BY <1>1, SuffixIsSeq DEF Requests
<1>4. Len(shell) \in Nat /\ incarnation \in Nat
  BY DEF Requests, IsSeq, Processes
<1>5. ASSUME NEW i \in 1 .. Len(shell'), shell'[i].type = "execute"
      PROVE  shell'[i].to \in Nat /\ shell'[i].to <= incarnation
  <2>1. n + i - 1 \in 1 .. Len(shell) /\ shell'[i] = shell[n + i - 1]
    BY <1>2, <1>3, <1>4
  <2> QED BY <1>5, <2>1 DEF Requests
<1>6. Requests'
  BY <1>2, <1>4, <1>5 DEF Requests
<1>7. Executions'
  <2>1. \A i \in 1 .. Len(shell') :
          shell'[i].type = "execute" => shell'[i].to # incarnation'
    BY <1>4, <1>5
  <2> QED BY <2>1 DEF Executions
<1>8. CommsKnown'
  BY DEF CommsKnown, NoComm
<1> QED BY <1>6, <1>7, <1>8

----------------------------------------------------------------------------
(* The invariant *)

\* No message and no comm: the invariant holds at the start.
LEMMA InitInv == ASSUME FrontendAssumption, Init PROVE ExecutionInv
<1> USE DEF Init
<1>1. Comms /\ Processes
  BY FS_EmptySet DEF Comms, Processes
<1>2. Requests /\ Signals
  BY EmptyIsSeq DEF Requests, Signals
<1>3. Executions
  BY EmptyIsSeq DEF Executions
<1>4. CommsKnown
  BY DEF CommsKnown
<1> QED BY <1>1, <1>2, <1>3, <1>4 DEF ExecutionInv

\* A step that leaves the requests and the kernel alone, and gives the panels no
\* comm they did not have.
LEMMA KeptStep ==
  ASSUME ExecutionInv, UNCHANGED <<shell, kind, comms, kdoc, incarnation>>,
         \/ seen' = seen /\ \A p \in Panels : comm'[p] \cap live' \subseteq comm[p] \cap live
         \/ comm' = NoComm
  PROVE  Requests' /\ Executions' /\ CommsKnown'
<1> USE DEF ExecutionInv
<1>1. Requests'
  BY DEF Requests
<1>2. Executions'
  BY DEF Executions, Preceded, Opened
<1>3. CommsKnown'
  <2>1. CASE comm' = NoComm
    BY <2>1 DEF CommsKnown, NoComm
  <2>2. CASE seen' = seen /\ \A p \in Panels : comm'[p] \cap live' \subseteq comm[p] \cap live
    BY <2>2 DEF CommsKnown, Opened
  <2> QED BY <2>1, <2>2
<1> QED BY <1>1, <1>2, <1>3

\* The kernel knows finitely many comms.
LEMMA NextComms ==
  ASSUME ExecutionInv, [Next]_vars
  PROVE  Comms'
<1>1. comms' \in {comms, {}} \/ \E c : comms' = comms \cup {c}
  BY DEF Next, User, Browser, Server, Load, Edit, PanelOpens, PanelCloses, Run, ChangeKernel,
    UserRestarts, PanelReady, TimerFires, RestartArrives, IdleArrives, StatusArrives,
    CloseArrives, DocumentHandled, DocumentRefused, ExecuteHandled, KernelIdle,
    ServerRestarts, KernelDies, AtRest, NewKernel, kernelVars, vars
<1> QED BY <1>1, FS_EmptySet, FS_AddElement DEF ExecutionInv, Comms

\* Processes are counted up, and none is noticed before it exists.
LEMMA NextProcesses ==
  ASSUME ExecutionInv, [Next]_vars
  PROVE  Processes' /\ incarnation <= incarnation'
<1> USE DEF ExecutionInv, Processes
<1>1. CASE incarnation' = incarnation /\ seen' = seen
  BY <1>1
<1>2. CASE incarnation' = incarnation + 1 /\ seen' \in {seen, incarnation + 1}
  BY <1>2
<1>3. CASE RestartArrives
  <2>1. seen' = iopub[1].of /\ iopub[1].type = "restarting" /\ 1 \in 1 .. Len(iopub)
    BY <1>3, TailOf DEF RestartArrives, Signals
  <2>2. iopub[1].of \in Nat /\ iopub[1].of <= incarnation
    BY <2>1 DEF Signals
  <2> QED BY <1>3, <2>1, <2>2 DEF RestartArrives
<1>4. \/ incarnation' = incarnation /\ seen' = seen
      \/ incarnation' = incarnation + 1 /\ seen' \in {seen, incarnation + 1}
      \/ RestartArrives
  BY DEF Next, User, Browser, Server, Load, Edit, PanelOpens, PanelCloses, Run, ChangeKernel,
    UserRestarts, PanelReady, TimerFires, IdleArrives, StatusArrives, CloseArrives,
    DocumentHandled, DocumentRefused, ExecuteHandled, KernelIdle, ServerRestarts, KernelDies,
    AtRest, NewKernel, vars
<1> QED BY <1>1, <1>2, <1>3, <1>4

\* No signal announces a process that does not exist.
LEMMA NextSignals ==
  ASSUME ExecutionInv, [Next]_vars
  PROVE  Signals'
<1> USE DEF ExecutionInv
<1>1. Comms' /\ Processes' /\ incarnation <= incarnation'
  BY NextComms, NextProcesses
<1>2. incarnation \in Nat /\ incarnation' \in Nat
  BY <1>1 DEF Processes
<1>3. ASSUME NEW m, iopub' = Append(iopub, m),
             m.type = "restarting" => m.of \in Nat /\ m.of <= incarnation'
      PROVE  Signals'
  <2> DEFINE t == <<m>>
  <2>1. IsSeq(t) /\ Len(t) = 1 /\ t[1] = m
    BY SingleIsSeq
  <2>2. iopub' = iopub \o t
    <3> DEFINE S == {iopub[i] : i \in 1 .. Len(iopub)} \cup {m}
    <3>1. \A i \in 1 .. Len(iopub) : iopub[i] \in S
      OBVIOUS
    <3>2. m \in S
      OBVIOUS
    <3> HIDE DEF S
    <3>3. iopub \in Seq(S)
      BY <3>1, IsItsSeq DEF Signals
    <3> QED BY <1>3, <3>2, <3>3, AppendIsConcat
  <2>3. \A i \in 1 .. Len(t) : t[i].type = "restarting" => t[i].of \in Nat /\ t[i].of <= incarnation'
    BY <1>3, <2>1
  <2> HIDE DEF t
  <2> QED BY <1>1, <1>2, <2>1, <2>2, <2>3, SignalsKept
<1>4. CASE Broadcast
  BY <1>1, <1>2, <1>4, BroadcastSignals, SignalsKept
<1>5. CASE iopub' = iopub
  BY <1>1, <1>2, <1>5, SignalsKept
<1>6. CASE iopub # <<>> /\ iopub' = Tail(iopub)
  BY <1>1, <1>2, <1>6, SignalsKept
<1>7. CASE iopub' \in {<<>>, <<[type |-> "idle"]>>}
  BY <1>1, <1>2, <1>7, SignalsKept
<1>8. CASE DocumentHandled
  BY <1>4, <1>5, <1>8 DEF DocumentHandled
<1>9. CASE ExecuteHandled
  BY <1>4, <1>5, <1>9 DEF ExecuteHandled
<1>10. CASE DocumentRefused
  <2> DEFINE m == [type |-> "close", comm |-> Head(shell).comm]
  <2>1. m.type = "close"
    OBVIOUS
  <2>2. iopub' = Append(iopub, m) \/ iopub' = iopub
    BY <1>10 DEF DocumentRefused
  <2> HIDE DEF m
  <2> QED BY <1>3, <1>5, <2>1, <2>2
<1>11. CASE KernelIdle
  <2> DEFINE m == [type |-> "idle"]
  <2>1. m.type = "idle"
    OBVIOUS
  <2>2. iopub' = Append(iopub, m)
    BY <1>11 DEF KernelIdle
  <2> HIDE DEF m
  <2> QED BY <1>3, <2>1, <2>2
<1>12. CASE ServerRestarts
  <2> DEFINE m == [type |-> "restarting", of |-> incarnation]
  <2>1. m.of = incarnation
    OBVIOUS
  <2>2. iopub' = Append(iopub, m)
    BY <1>12 DEF ServerRestarts
  <2> HIDE DEF m
  <2> QED BY <1>1, <1>2, <1>3, <2>1, <2>2
<1>13. \/ iopub' = iopub
       \/ iopub # <<>> /\ iopub' = Tail(iopub)
       \/ iopub' \in {<<>>, <<[type |-> "idle"]>>}
       \/ DocumentHandled \/ ExecuteHandled \/ DocumentRefused \/ KernelIdle \/ ServerRestarts
  BY DEF Next, User, Browser, Server, Load, Edit, PanelOpens, PanelCloses, Run, ChangeKernel,
    UserRestarts, PanelReady, TimerFires, RestartArrives, IdleArrives, StatusArrives,
    CloseArrives, KernelDies, AtRest, vars
<1> QED BY <1>5, <1>6, <1>7, <1>8, <1>9, <1>10, <1>11, <1>12, <1>13

\* kernelChanged: the new kernel gets documents only, and the comms they open.
LEMMA SwitchStep ==
  ASSUME FrontendAssumption, ExecutionInv, NEW k, ChangeKernel(k)
  PROVE  Requests' /\ Executions' /\ CommsKnown'
<1>1. /\ Send(Panels, k, NoComm, {}, <<>>, <<>>)
      /\ incarnation' = incarnation + 1
  BY DEF ChangeKernel, NewKernel
<1>2. IsSeq(<<>>) /\ Len(<<>>) = 0
  BY EmptyIsSeq
<1>3. PICK n \in Nat : SentAs(n, Panels, k, NoComm, {}, <<>>, <<>>)
  <2>1. Panels \in SUBSET Panels
    OBVIOUS
  <2> QED BY <1>1, <1>2, <2>1, Sent
<1>4. /\ IsSeq(shell') /\ Len(shell') = n
      /\ \A i \in 1 .. n : shell'[i].type = "document"
  <2>1. IsSeq(shell') /\ Len(shell') = 0 + n + 0 /\ \A i \in 1 .. n : shell'[0 + i].type = "document"
    BY <1>2, <1>3 DEF SentAs
  <2>2. \A i \in 1 .. n : 0 + i = i
    OBVIOUS
  <2> QED BY <2>1, <2>2
<1>5. \A p \in Panels : \A c \in comm'[p] \cap live' :
        \E i \in 1 .. n : shell'[i].opens /\ shell'[i].comm = c
  <2>1. \A p \in Panels : \A c \in comm'[p] \cap live' :
          \E i \in 1 .. n : shell'[0 + i].opens /\ shell'[0 + i].comm = c
    BY <1>2, <1>3 DEF SentAs
  <2>2. \A i \in 1 .. n : 0 + i = i
    OBVIOUS
  <2> QED BY <2>1, <2>2
<1>6. Requests'
  BY <1>4 DEF Requests
<1>7. Executions'
  BY <1>4 DEF Executions
<1>8. CommsKnown'
  BY <1>4, <1>5 DEF CommsKnown, Opened
<1> QED BY <1>6, <1>7, <1>8

\* The other conjuncts, handler by handler.
LEMMA NextRest ==
  ASSUME FrontendAssumption, ExecutionInv, [Next]_vars
  PROVE  Requests' /\ Executions' /\ CommsKnown'
<1> USE DEF notebookVars, panelVars, commVars, kernelVars
<1>1. CASE Load
  BY <1>1, KeptStep DEF Load
<1>2. ASSUME NEW n \in Notebooks, Edit(n) PROVE Requests' /\ Executions' /\ CommsKnown'
  BY <1>2, KeptStep DEF Edit
<1>3. ASSUME NEW p \in Panels, PanelOpens(p) PROVE Requests' /\ Executions' /\ CommsKnown'
  BY <1>3, KeptStep DEF PanelOpens
<1>4. ASSUME NEW p \in Panels, PanelCloses(p) PROVE Requests' /\ Executions' /\ CommsKnown'
  <2>1. \A q \in Panels : comm'[q] \cap live' \subseteq comm[q] \cap live
    BY <1>4 DEF PanelCloses
  <2> QED BY <1>4, <2>1, KeptStep DEF PanelCloses
<1>5. ASSUME NEW p \in Panels, NEW k, Run(p, k) PROVE Requests' /\ Executions' /\ CommsKnown'
  BY <1>5, RunStep
<1>6. ASSUME NEW k, ChangeKernel(k) PROVE Requests' /\ Executions' /\ CommsKnown'
  BY <1>6, SwitchStep
<1>7. CASE UserRestarts
  BY <1>7, ReplacedStep DEF UserRestarts, Restarting, NewKernel
<1>8. CASE KernelDies
  <2>1. shell' \in Surviving /\ incarnation' = incarnation + 1 /\ seen' = seen
    BY <1>8 DEF KernelDies, NewKernel
  <2>2. seen' # incarnation'
    BY <2>1 DEF ExecutionInv, Processes
  <2> QED BY <2>1, <2>2, ReplacedStep
<1>9. ASSUME NEW p \in Panels, PanelReady(p) \/ TimerFires(p)
      PROVE Requests' /\ Executions' /\ CommsKnown'
  <2>1. {p} \in SUBSET Panels
    OBVIOUS
  <2> QED BY <1>9, <2>1, SendStep DEF PanelReady, TimerFires
<1>10. CASE IdleArrives
  <2>1. {p \in Panels : restarting[p]} \in SUBSET Panels
    OBVIOUS
  <2>2. /\ Send({p \in Panels : restarting[p]}, kind, comm, live, shell, <<>>)
        /\ UNCHANGED <<kind, comms, kdoc, incarnation, seen>>
    BY <1>10 DEF IdleArrives
  <2> QED BY <2>1, <2>2, SendStep
<1>11. CASE RestartArrives
  BY <1>11, KeptStep DEF RestartArrives, Restarting
<1>12. CASE StatusArrives
  BY <1>12, KeptStep DEF StatusArrives
<1>13. CASE CloseArrives
  BY <1>13, KeptStep DEF CloseArrives
<1>14. CASE DocumentHandled
  <2> DEFINE m == Head(shell)
  <2>1. /\ shell # <<>> /\ shell' = Tail(shell)
        /\ UNCHANGED <<kind, comm, live, incarnation, seen>>
        /\ comms' = IF m.opens THEN comms \cup {m.comm} ELSE comms
        /\ m.comm \in comms' => kdoc' = m.cells
    BY <1>14 DEF DocumentHandled, Handling
  <2>2. (m.opens => m.comm \in comms') /\ comms \subseteq comms'
    BY <2>1
  <2> QED BY <2>1, <2>2, HandleStep
<1>15. CASE DocumentRefused
  <2>1. /\ shell # <<>> /\ shell' = Tail(shell) /\ kind = "other"
        /\ UNCHANGED <<kind, comm, live, incarnation, seen, comms, kdoc>>
    BY <1>15 DEF DocumentRefused, Handling
  <2> QED BY <2>1, HandleStep
<1>16. CASE ExecuteHandled
  <2>1. /\ shell # <<>> /\ shell' = Tail(shell) /\ Head(shell).type = "execute"
        /\ UNCHANGED <<kind, comm, live, incarnation, seen, comms, kdoc>>
    BY <1>16 DEF ExecuteHandled, Handling
  <2> QED BY <2>1, HandleStep
<1>17. CASE KernelIdle
  BY <1>17, KeptStep DEF KernelIdle
<1>18. CASE ServerRestarts
  BY <1>18, KeptStep DEF ServerRestarts
<1>19. CASE AtRest \/ UNCHANGED vars
  BY <1>19, KeptStep DEF AtRest, vars
<1> QED BY <1>1, <1>2, <1>3, <1>4, <1>5, <1>6, <1>7, <1>8, <1>9, <1>10, <1>11, <1>12, <1>13,
  <1>14, <1>15, <1>16, <1>17, <1>18, <1>19 DEF Next, User, Browser, Server

----------------------------------------------------------------------------
(* Types *)

\* The document holds code cells.
LEMMA DocumentType == ASSUME cells \in Seq(Cell) PROVE Document \in Seq(CodeCell)
<1> DEFINE N == Len(cells)
           V == Seq(CodeCell)
           One(k) == [id |-> cells[k].id, source |-> cells[k].source]
           On(k, s) == IF cells[k].type = "code" THEN Append(s, One(k)) ELSE s
           b == <<>>
           G == [k \in 1 .. N |-> [s \in V |-> On(k, s)]]
<1>1. N \in Nat /\ b \in V
  OBVIOUS
<1>2. ASSUME NEW k \in 1 .. N, NEW s \in V PROVE On(k, s) \in V
  <2>1. cells[k] \in Cell
    OBVIOUS
  <2>2. One(k) \in CodeCell
    BY <2>1 DEF Cell, CodeCell
  <2> HIDE DEF One
  <2> QED BY <2>2
<1>3. G \in [1 .. N -> [V -> V]]
  <2> HIDE DEF On, N, V
  <2> QED BY <1>2
<1>4. PICK w \in [0 .. N -> V] : Follows(w, N, b, G)
  <2> HIDE DEF N, V, b, G
  <2> QED BY <1>1, <1>3, Recursion
<1>5. ASSUME NEW k \in 1 .. N PROVE w[k - 1] \in V /\ w[k] = On(k, w[k - 1])
  <2>1. w[k - 1] \in V /\ w[k] = G[k][w[k - 1]]
    <3> HIDE DEF N, G, b, V
    <3> QED BY <1>1, <1>4 DEF Follows
  <2> HIDE DEF N, V, On
  <2> QED BY <2>1
<1>6. w[0] = b
  BY <1>4 DEF Follows
<1> HIDE DEF G, b, V
<1> DEFINE F(v) == v = [k \in 0 .. N |-> IF k = 0 THEN b ELSE On(k, v[k - 1])]
           out == CHOOSE v : F(v)
<1>7. F(w)
  <2> HIDE DEF On
  <2> QED BY <1>1, <1>5, <1>6
<1>8. F(out)
  <2> HIDE DEF F
  <2> QED BY <1>7, Zenon
<1>9. Document = out[N]
  BY Zenon DEF Document, b
<1> HIDE DEF out, On
<1>10. \A k \in 0 .. N : out[k] = IF k = 0 THEN b ELSE On(k, out[k - 1])
  BY <1>8, Zenon
<1> HIDE DEF F
<1> DEFINE S == {k \in 0 .. N : out[k] \in V}
<1>11. 0 \in S
  BY <1>1, <1>10
<1>12. ASSUME NEW m \in 0 .. N, m < N, m \in S PROVE m + 1 \in S
  <2>1. m + 1 \in 1 .. N /\ m + 1 \in 0 .. N /\ (m + 1) - 1 = m /\ m + 1 # 0
    BY <1>1, <1>12
  <2>2. out[m + 1] = On(m + 1, out[m])
    BY <1>10, <2>1
  <2>3. On(m + 1, out[m]) \in V
    BY <1>2, <1>12, <2>1
  <2> QED BY <2>1, <2>2, <2>3
<1>13. N \in S
  <2> HIDE DEF S
  <2>1. 0 .. N \subseteq S
    BY <1>1, <1>11, <1>12, UpTo
  <2> QED BY <1>1, <2>1
<1> QED BY <1>9, <1>13 DEF V

\* The type of a document message.
LEMMA DocMsgType ==
  ASSUME cells \in Seq(Cell), NEW c \in Comm, NEW first \in BOOLEAN
  PROVE  DocMsg(c, first) \in Request
BY DocumentType DEF DocMsg, Request

\* Panels without comms have the type of comms.
LEMMA NoCommType == NoComm \in [Panels -> SUBSET Comm] /\ \A p \in Panels : Cardinality(NoComm[p]) <= 1
BY FS_EmptySet DEF NoComm

\* Whoever sends: the comms and the messages keep their types.
LEMMA SentType ==
  ASSUME FrontendAssumption, Types, NEW S \in SUBSET Panels, NEW k,
         NEW held \in [Panels -> SUBSET Comm], \A p \in Panels : Cardinality(held[p]) <= 1,
         NEW open \in SUBSET Comm, NEW before \in Seq(Request), NEW after \in Seq(Request),
         Send(S, k, held, open, before, after)
  PROVE  CommType' /\ shell' \in Seq(Request)
<1> DEFINE Senders == {p \in S : panel[p] \in {"tracked", "ready"} /\ k # "none"}
           Opening == {p \in Senders : held[p] \cap open = {}}
           New(p)  == <<p, opened[p] + 1>>
           Used(p) == IF p \in Opening THEN New(p) ELSE CHOOSE c \in held[p] \cap open : TRUE
           docs(o) == [i \in DOMAIN o |-> DocMsg(Used(o[i]), o[i] \in Opening)]
           n == Cardinality(Senders)
<1>1. /\ comm' = [p \in Panels |-> IF p \in Senders THEN {Used(p)} ELSE held[p]]
      /\ live' = open \cup {New(p) : p \in Opening}
      /\ opened' = [p \in Panels |-> IF p \in Opening THEN opened[p] + 1 ELSE opened[p]]
      /\ \E o \in Orders(Senders) : shell' = before \o docs(o) \o after
  BY DEF Send
<1>2. PICK order \in Orders(Senders) : shell' = before \o docs(order) \o after
  BY <1>1
<1>3. Senders \subseteq Panels /\ Opening \subseteq Panels /\ opened \in [Panels -> Nat]
  BY DEF Types, CommType
<1>4. \A p \in Panels : New(p) \in Comm
  BY <1>3 DEF Comm
<1>5. ASSUME NEW p \in Senders PROVE Used(p) \in Comm
  <2>1. CASE p \in Opening
    BY <1>3, <1>4, <2>1
  <2>2. CASE p \notin Opening
    <3>1. held[p] \cap open # {}
      BY <2>2
    <3>2. Used(p) \in held[p] \cap open
      BY <2>2, <3>1
    <3> HIDE DEF Used
    <3> QED BY <3>2
  <2> QED BY <2>1, <2>2
<1>6. n \in Nat /\ order \in [1 .. n -> Senders]
  <2>1. IsFiniteSet(Senders)
    <3> HIDE DEF Senders
    <3> QED BY <1>3, FS_Subset DEF FrontendAssumption
  <2> HIDE DEF Senders
  <2> QED BY <2>1, OrderType
<1> HIDE DEF Used, New, Opening, Senders, n
<1>7. docs(order) \in Seq(Request)
  <2>1. docs(order) = [i \in 1 .. n |-> DocMsg(Used(order[i]), order[i] \in Opening)]
    BY <1>6
  <2>2. ASSUME NEW i \in 1 .. n
        PROVE  DocMsg(Used(order[i]), order[i] \in Opening) \in Request
    <3>1. Used(order[i]) \in Comm
      BY <1>5, <1>6
    <3>2. (order[i] \in Opening) \in BOOLEAN
      OBVIOUS
    <3> QED BY <3>1, <3>2, DocMsgType DEF Types, NotebookType
  <2> HIDE DEF docs
  <2> QED BY <1>6, <2>1, <2>2
<1>8. shell' \in Seq(Request)
  <2> HIDE DEF docs
  <2>1. before \o docs(order) \in Seq(Request)
    BY <1>7
  <2> QED BY <1>2, <2>1
<1>9. comm' \in [Panels -> SUBSET Comm] /\ \A p \in Panels : Cardinality(comm'[p]) <= 1
  <2>1. ASSUME NEW p \in Panels PROVE comm'[p] \in SUBSET Comm /\ Cardinality(comm'[p]) <= 1
    <3>1. CASE p \in Senders
      <4>1. comm'[p] = {Used(p)} /\ Used(p) \in Comm
        BY <1>1, <1>5, <3>1
      <4>2. Cardinality({Used(p)}) = 1
        BY FS_Singleton
      <4> QED BY <4>1, <4>2
    <3>2. CASE p \notin Senders
      BY <1>1, <3>2
    <3> QED BY <3>1, <3>2
  <2> QED BY <1>1, <2>1
<1>10. live' \subseteq Comm
  BY <1>1, <1>3, <1>4
<1>11. opened' \in [Panels -> Nat]
  BY <1>1, <1>3
<1> QED BY <1>8, <1>9, <1>10, <1>11 DEF CommType

\* The notebook is the file's, or what an edit made of it.
LEMMA NotebookTypeStep == ASSUME FrontendAssumption, Types, [Next]_vars PROVE NotebookType'
<1>1. CASE Load
  BY <1>1 DEF Load, FrontendAssumption, NotebookType
<1>2. CASE \E m \in Notebooks : Edit(m)
  BY <1>2 DEF Edit, FrontendAssumption, Types, NotebookType
<1>3. (cells' = cells /\ loaded' = loaded) \/ Load \/ \E m \in Notebooks : Edit(m)
  BY DEF Next, User, Browser, Server, PanelOpens, PanelCloses, Run, ChangeKernel, UserRestarts,
    PanelReady, TimerFires, RestartArrives, IdleArrives, StatusArrives, CloseArrives,
    DocumentHandled, DocumentRefused, ExecuteHandled, KernelIdle, ServerRestarts, KernelDies,
    AtRest, notebookVars, vars
<1>4. CASE cells' = cells /\ loaded' = loaded
  BY <1>4 DEF Types, NotebookType
<1> QED BY <1>1, <1>2, <1>3, <1>4

\* Panels keep their types: every handler writes one field at most of each.
LEMMA PanelTypeStep == ASSUME FrontendAssumption, Types, [Next]_vars PROVE PanelType'
<1> USE DEF PanelType
<1>0. PanelType
  BY DEF Types
<1>1. panel' = panel \/ \E p \in Panels : \E s \in {"tracked", "ready", "closed"} : panel' = [panel EXCEPT ![p] = s]
  BY DEF Next, User, Browser, Server, Load, Edit, PanelOpens, PanelCloses, Run, ChangeKernel, UserRestarts,
    PanelReady, TimerFires, RestartArrives, IdleArrives, StatusArrives, CloseArrives,
    DocumentHandled, DocumentRefused, ExecuteHandled, KernelIdle, ServerRestarts, KernelDies,
    AtRest, panelVars, vars
<1>2. panel' \in [Panels -> {"absent", "tracked", "ready", "closed"}]
  BY <1>0, <1>1
<1>3. timer' \in [Panels -> BOOLEAN]
  <2>1. timer' = timer \/ (\E S : timer' = NoTimer(S)) \/ \E m \in Notebooks : Edit(m)
    BY DEF Next, User, Browser, Server, Load, PanelOpens, PanelCloses, Run, ChangeKernel, UserRestarts,
      PanelReady, TimerFires, RestartArrives, IdleArrives, StatusArrives, CloseArrives,
      DocumentHandled, DocumentRefused, ExecuteHandled, KernelIdle, ServerRestarts, KernelDies,
      AtRest, panelVars, vars
  <2>2. ASSUME NEW S, timer' = NoTimer(S) PROVE timer' \in [Panels -> BOOLEAN]
    <3>1. \A p \in Panels : timer[p] \in BOOLEAN
      BY <1>0
    <3> QED BY <2>2, <3>1, Zenon DEF NoTimer
  <2>3. ASSUME NEW m \in Notebooks, Edit(m) PROVE timer' \in [Panels -> BOOLEAN]
    <3>1. timer' = [p \in Panels |-> timer[p] \/ panel[p] \in {"ready", "closed"}]
      BY <2>3 DEF Edit
    <3> QED BY <3>1, Zenon
  <2>4. CASE timer' = timer
    BY <1>0, <2>4, Zenon
  <2> QED BY <2>1, <2>2, <2>3, <2>4
<1>4. restarting' \in [Panels -> BOOLEAN]
  <2>1. restarting' = restarting \/ restarting' = [p \in Panels |-> FALSE] \/ Restarting
    BY DEF Next, User, Browser, Server, Load, Edit, PanelOpens, PanelCloses, Run, ChangeKernel, UserRestarts,
      PanelReady, TimerFires, RestartArrives, IdleArrives, StatusArrives, CloseArrives,
      DocumentHandled, DocumentRefused, ExecuteHandled, KernelIdle, ServerRestarts, KernelDies,
      AtRest, panelVars, vars
  <2> QED BY <1>0, <2>1, Zenon DEF Restarting
<1>5. marks' \in [Panels -> SUBSET Ids]
  <2>1. \/ marks' = marks \/ (\E p \in Panels : PanelCloses(p)) \/ (\E m \in Notebooks : Edit(m))
        \/ StatusArrives
    BY DEF Next, User, Browser, Server, Load, PanelOpens, Run, ChangeKernel, UserRestarts,
      PanelReady, TimerFires, RestartArrives, IdleArrives, CloseArrives,
      DocumentHandled, DocumentRefused, ExecuteHandled, KernelIdle, ServerRestarts, KernelDies,
      AtRest, panelVars, vars
  <2>2. ASSUME NEW p \in Panels, PanelCloses(p) PROVE marks' \in [Panels -> SUBSET Ids]
    BY <1>0, <2>2 DEF PanelCloses
  <2>3. ASSUME NEW m \in Notebooks, Edit(m) PROVE marks' \in [Panels -> SUBSET Ids]
    BY <1>0, <2>3 DEF Edit
  <2>4. CASE StatusArrives
    <3> DEFINE m == Head(iopub)
    <3>1. m \in Signal /\ m.type = "status"
      BY <2>4 DEF StatusArrives, IsStatus, Types, ChannelType
    <3>2. m.stale \in SUBSET Ids
      BY <3>1 DEF Signal
    <3>3. marks' = marks \/ marks' = [marks EXCEPT ![m.comm[1]] = Painted(@, m.stale)]
      BY <2>4 DEF StatusArrives
    <3> HIDE DEF m
    <3>4. Painted(marks[m.comm[1]], m.stale) \in SUBSET Ids
      BY <3>2 DEF Painted
    <3> QED BY <1>0, <3>3, <3>4
  <2> QED BY <1>0, <2>1, <2>2, <2>3, <2>4
<1> QED BY <1>2, <1>3, <1>4, <1>5

\* The steps that send, each with what it goes by.
LEMMA Sends ==
  ASSUME NEW S \in SUBSET Panels, Send(S, kind, comm, live, shell, <<>>),
         FrontendAssumption, Types
  PROVE  CommType' /\ shell' \in Seq(Request)
<1>1. <<>> \in Seq(Request) /\ shell \in Seq(Request) /\ live \in SUBSET Comm
  BY DEF Types, ChannelType, CommType
<1>2. comm \in [Panels -> SUBSET Comm] /\ \A p \in Panels : Cardinality(comm[p]) <= 1
  BY DEF Types, CommType
<1> QED BY <1>1, <1>2, SentType

\* The type of an execution.
LEMMA ExecMsgType ==
  ASSUME Types, NEW j \in DOMAIN cells
  PROVE  ExecMsg(cells[j].id) \in Request
<1>1. cells[j] \in Cell
  BY DEF Types, NotebookType
<1>2. Document \in Seq(CodeCell) /\ seen \in Nat
  BY DocumentType DEF Types, NotebookType, CountType
<1> QED BY <1>1, <1>2 DEF ExecMsg, Request, Cell

\* Running a cell sends requests.
LEMMA RunType ==
  ASSUME FrontendAssumption, Types, NEW p \in Panels, NEW j \in DOMAIN cells, Run(p, j)
  PROVE  CommType' /\ shell' \in Seq(Request)
<1> DEFINE after == IF kind = "none" THEN <<>> ELSE <<ExecMsg(cells[j].id)>>
<1>1. Send({p}, kind, comm, live, shell, after)
  BY DEF Run
<1>2. after \in Seq(Request)
  <2>1. ExecMsg(cells[j].id) \in Request
    BY ExecMsgType
  <2> QED BY <2>1
<1>3. shell \in Seq(Request) /\ live \in SUBSET Comm /\ {p} \in SUBSET Panels
  BY DEF Types, ChannelType, CommType
<1>4. comm \in [Panels -> SUBSET Comm] /\ \A q \in Panels : Cardinality(comm[q]) <= 1
  BY DEF Types, CommType
<1> HIDE DEF after
<1> QED BY <1>1, <1>2, <1>3, <1>4, SentType

\* A switch sends requests.
LEMMA ChangeType ==
  ASSUME FrontendAssumption, Types, NEW k, ChangeKernel(k)
  PROVE  CommType' /\ shell' \in Seq(Request)
<1>1. Send(Panels, k, NoComm, {}, <<>>, <<>>)
  BY DEF ChangeKernel
<1>2. <<>> \in Seq(Request) /\ {} \in SUBSET Comm /\ Panels \in SUBSET Panels
  OBVIOUS
<1> QED BY <1>1, <1>2, NoCommType, SentType

\* A step that sends nothing.
LEMMA CommTypeKept ==
  ASSUME Types, opened' = opened, live' \subseteq live,
         comm' = comm \/ comm' = NoComm \/ \E p \in Panels : comm' = [comm EXCEPT ![p] = {}]
  PROVE  CommType'
<1>1. CommType
  BY DEF Types
<1>2. CASE comm' = comm
  BY <1>1, <1>2 DEF CommType
<1>3. CASE comm' = NoComm
  BY <1>1, <1>3, NoCommType DEF CommType
<1>4. ASSUME NEW p \in Panels, comm' = [comm EXCEPT ![p] = {}] PROVE CommType'
  <2>1. comm' \in [Panels -> SUBSET Comm]
    BY <1>1, <1>4 DEF CommType
  <2>2. ASSUME NEW q \in Panels PROVE Cardinality(comm'[q]) <= 1
    <3>1. comm'[q] = {} \/ comm'[q] = comm[q]
      BY <1>1, <1>4 DEF CommType
    <3>2. Cardinality({}) = 0
      BY FS_EmptySet
    <3> QED BY <1>1, <3>1, <3>2 DEF CommType
  <2> QED BY <1>1, <2>1, <2>2 DEF CommType
<1> QED BY <1>2, <1>3, <1>4

\* Comms keep their types, and a panel holds one at most.
LEMMA CommTypeStep == ASSUME FrontendAssumption, Types, [Next]_vars PROVE CommType'
<1>1. ASSUME NEW p \in Panels, PanelReady(p) \/ TimerFires(p) PROVE CommType'
  <2>1. {p} \in SUBSET Panels
    OBVIOUS
  <2> QED BY <1>1, <2>1, Sends DEF PanelReady, TimerFires
<1>2. CASE IdleArrives
  <2>1. {p \in Panels : restarting[p]} \in SUBSET Panels
    OBVIOUS
  <2>2. Send({p \in Panels : restarting[p]}, kind, comm, live, shell, <<>>)
    BY <1>2 DEF IdleArrives
  <2> QED BY <2>1, <2>2, Sends
<1>3. ASSUME NEW p \in Panels, NEW j \in DOMAIN cells, Run(p, j) PROVE CommType'
  BY <1>3, RunType
<1>4. ASSUME NEW k, ChangeKernel(k) PROVE CommType'
  BY <1>4, ChangeType
<1>5. ASSUME NEW p \in Panels, PanelCloses(p) PROVE CommType'
  BY <1>5, CommTypeKept DEF PanelCloses, commVars
<1>6. CASE UserRestarts \/ RestartArrives
  BY <1>6, CommTypeKept DEF UserRestarts, RestartArrives, Restarting
<1>7. CASE CloseArrives
  BY <1>7, CommTypeKept DEF CloseArrives, panelVars
<1>8. CASE comm' = comm /\ live' = live /\ opened' = opened
  BY <1>8, CommTypeKept
<1>9. \/ comm' = comm /\ live' = live /\ opened' = opened
      \/ CloseArrives \/ UserRestarts \/ RestartArrives \/ IdleArrives
      \/ \E k : ChangeKernel(k)
      \/ \E p \in Panels : PanelCloses(p) \/ PanelReady(p) \/ TimerFires(p)
      \/ \E p \in Panels : \E j \in DOMAIN cells : Run(p, j)
  BY DEF Next, User, Browser, Server, Load, Edit, PanelOpens, StatusArrives, DocumentHandled,
    DocumentRefused, ExecuteHandled, KernelIdle, ServerRestarts, KernelDies, AtRest, panelVars,
    commVars, vars
<1> QED BY <1>1, <1>2, <1>3, <1>4, <1>5, <1>6, <1>7, <1>8, <1>9

\* The first request, and the others.
LEMMA RequestOf ==
  ASSUME Types, shell # <<>>
  PROVE  Head(shell) \in Request /\ Tail(shell) \in Seq(Request)
BY DEF Types, ChannelType

\* The fields of a request that is a document.
LEMMA DocumentOf ==
  ASSUME NEW m \in Request, m.type = "document"
  PROVE  m.comm \in Comm /\ m.opens \in BOOLEAN /\ m.cells \in Seq(CodeCell)
BY DEF Request

\* The ids of a document's cells.
LEMMA DocumentIds == ASSUME NEW d \in Seq(CodeCell) PROVE CellIds(d) \subseteq Ids
<1>1. ASSUME NEW i \in DOMAIN d PROVE d[i].id \in Ids
  <2>1. d[i] \in CodeCell
    OBVIOUS
  <2> QED BY <2>1 DEF CodeCell
<1> QED BY <1>1 DEF CellIds

\* The kernel's session keeps its types.
LEMMA KernelTypeStep == ASSUME FrontendAssumption, Types, [Next]_vars PROVE KernelType'
<1>0. KernelType
  BY DEF Types
<1>1. kind' \in AllKinds
  <2>1. kind' = kind \/ kind' \in Kinds
    BY DEF Next, User, Browser, Server, Load, Edit, PanelOpens, PanelCloses, Run, ChangeKernel,
      UserRestarts, PanelReady, TimerFires, RestartArrives, IdleArrives, StatusArrives,
      CloseArrives, DocumentHandled, DocumentRefused, ExecuteHandled, KernelIdle,
      ServerRestarts, KernelDies, AtRest, kernelVars, vars
  <2> QED BY <1>0, <2>1 DEF KernelType, FrontendAssumption
<1>2. up' \in BOOLEAN /\ greeted' \in BOOLEAN
  <2>1. up' \in {up, TRUE, FALSE} /\ greeted' \in {greeted, TRUE, FALSE}
    BY Zenon DEF Next, User, Browser, Server, Load, Edit, PanelOpens, PanelCloses, Run, ChangeKernel,
      UserRestarts, PanelReady, TimerFires, RestartArrives, IdleArrives, StatusArrives,
      CloseArrives, DocumentHandled, DocumentRefused, ExecuteHandled, KernelIdle, NewKernel,
      ServerRestarts, KernelDies, AtRest, kernelVars, vars
  <2> QED BY <1>0, <2>1, Zenon DEF KernelType
<1>3. comms' \subseteq Comm /\ kdoc' \in Seq(CodeCell)
  <2>1. CASE DocumentHandled
    <3> DEFINE m == Head(shell)
    <3>1. /\ shell # <<>> /\ m.type = "document" /\ comms' \subseteq comms \cup {m.comm}
          /\ kdoc' = m.cells \/ kdoc' = kdoc
      BY <2>1 DEF DocumentHandled, Handling
    <3>2. m.comm \in Comm /\ m.cells \in Seq(CodeCell)
      BY <3>1, RequestOf, DocumentOf
    <3> HIDE DEF m
    <3> QED BY <1>0, <3>1, <3>2 DEF KernelType
  <2>2. \/ comms' = comms /\ kdoc' = kdoc
        \/ comms' = {} /\ kdoc' = <<>>
        \/ DocumentHandled
    BY DEF Next, User, Browser, Server, Load, Edit, PanelOpens, PanelCloses, Run, ChangeKernel,
      UserRestarts, PanelReady, TimerFires, RestartArrives, IdleArrives, StatusArrives,
      CloseArrives, DocumentRefused, ExecuteHandled, KernelIdle, NewKernel,
      ServerRestarts, KernelDies, AtRest, kernelVars, vars
  <2>3. <<>> \in Seq(CodeCell)
    OBVIOUS
  <2>4. CASE comms' = {} /\ kdoc' = <<>>
    BY <2>3, <2>4
  <2>5. CASE comms' = comms /\ kdoc' = kdoc
    BY <1>0, <2>5 DEF KernelType
  <2> QED BY <2>1, <2>2, <2>4, <2>5
<1>4. last' \subseteq Ids
  <2>1. CASE Broadcast
    BY <1>0, <1>3, <2>1, DocumentIds DEF Broadcast, KernelType
  <2>2. last' = last \/ last' = {} \/ Broadcast
    BY DEF Next, User, Browser, Server, Load, Edit, PanelOpens, PanelCloses, Run, ChangeKernel,
      UserRestarts, PanelReady, TimerFires, RestartArrives, IdleArrives, StatusArrives,
      CloseArrives, DocumentHandled, DocumentRefused, ExecuteHandled, KernelIdle, NewKernel,
      ServerRestarts, KernelDies, AtRest, kernelVars, vars
  <2> QED BY <1>0, <2>1, <2>2 DEF KernelType
<1> QED BY <1>1, <1>2, <1>3, <1>4 DEF KernelType

\* The statuses of a broadcast.
LEMMA BroadcastType ==
  ASSUME Comms', iopub \in Seq(Signal), comms' \subseteq Comm, kdoc' \in Seq(CodeCell), Broadcast
  PROVE  iopub' \in Seq(Signal)
<1>1. CASE kdoc' = <<>>
  BY <1>1 DEF Broadcast
<1>2. CASE kdoc' # <<>>
  <2> DEFINE msg(o, i) == [type |-> "status", comm |-> o[i], stale |-> last']
             n == Cardinality(comms')
  <2>1. PICK o \in Orders(comms') : iopub' = iopub \o [i \in DOMAIN o |-> msg(o, i)]
    BY <1>2 DEF Broadcast
  <2>2. n \in Nat /\ o \in [1 .. n -> comms']
    BY OrderType DEF Comms
  <2>3. last' \in SUBSET Ids
    BY <1>2, DocumentIds DEF Broadcast
  <2>4. ASSUME NEW i \in 1 .. n PROVE msg(o, i) \in Signal
    <3>1. o[i] \in Comm
      <4> HIDE DEF n
      <4> QED BY <2>2
    <3> QED BY <2>3, <3>1 DEF Signal
  <2> HIDE DEF msg, n
  <2>5. [i \in DOMAIN o |-> msg(o, i)] \in Seq(Signal)
    BY <2>2, <2>4
  <2> QED BY <2>1, <2>5
<1> QED BY <1>1, <1>2

\* What survives a process is requests.
LEMMA SurvivingType ==
  ASSUME Types, NEW s \in Surviving PROVE s \in Seq(Request)
<1>1. shell \in Seq(Request)
  BY DEF Types, ChannelType
<1>2. PICK n \in 1 .. Len(shell) + 1 : s = SubSeq(shell, n, Len(shell))
  BY DEF Surviving
<1>3. \A i \in n .. Len(shell) : shell[i] \in Request
  BY <1>1
<1> QED BY <1>1, <1>2, <1>3, SubSeqProperties

\* Only requests travel to the kernel.
LEMMA ShellTypeStep == ASSUME FrontendAssumption, Types, [Next]_vars PROVE shell' \in Seq(Request)
<1>1. ASSUME NEW p \in Panels, PanelReady(p) \/ TimerFires(p) PROVE shell' \in Seq(Request)
  <2>1. {p} \in SUBSET Panels
    OBVIOUS
  <2> QED BY <1>1, <2>1, Sends DEF PanelReady, TimerFires
<1>2. CASE IdleArrives
  <2>1. {p \in Panels : restarting[p]} \in SUBSET Panels
    OBVIOUS
  <2>2. Send({p \in Panels : restarting[p]}, kind, comm, live, shell, <<>>)
    BY <1>2 DEF IdleArrives
  <2> QED BY <2>1, <2>2, Sends
<1>3. ASSUME NEW p \in Panels, NEW j \in DOMAIN cells, Run(p, j) PROVE shell' \in Seq(Request)
  BY <1>3, RunType
<1>4. ASSUME NEW k, ChangeKernel(k) PROVE shell' \in Seq(Request)
  BY <1>4, ChangeType
<1>5. CASE UserRestarts \/ KernelDies
  BY <1>5, SurvivingType DEF UserRestarts, KernelDies
<1>6. CASE DocumentHandled \/ DocumentRefused \/ ExecuteHandled
  BY <1>6, RequestOf DEF DocumentHandled, DocumentRefused, ExecuteHandled, Handling
<1>7. CASE shell' = shell
  BY <1>7 DEF Types, ChannelType
<1>8. \/ shell' = shell
      \/ DocumentHandled \/ DocumentRefused \/ ExecuteHandled
      \/ UserRestarts \/ KernelDies \/ IdleArrives
      \/ \E k : ChangeKernel(k)
      \/ \E p \in Panels : PanelReady(p) \/ TimerFires(p)
      \/ \E p \in Panels : \E j \in DOMAIN cells : Run(p, j)
  BY DEF Next, User, Browser, Server, Load, Edit, PanelOpens, PanelCloses, RestartArrives,
    StatusArrives, CloseArrives, KernelIdle, ServerRestarts, AtRest, vars
<1> QED BY <1>1, <1>2, <1>3, <1>4, <1>5, <1>6, <1>7, <1>8

\* Only signals travel to the panels.
LEMMA IopubTypeStep ==
  ASSUME FrontendAssumption, Types, ExecutionInv, [Next]_vars
  PROVE  iopub' \in Seq(Signal)
<1>0. iopub \in Seq(Signal)
  BY DEF Types, ChannelType
<1>1. CASE Broadcast
  <2>1. comms' \subseteq Comm /\ kdoc' \in Seq(CodeCell)
    BY KernelTypeStep DEF KernelType
  <2> QED BY <1>0, <1>1, <2>1, NextComms, BroadcastType
<1>2. ASSUME NEW m \in Signal, iopub' = Append(iopub, m) PROVE iopub' \in Seq(Signal)
  BY <1>0, <1>2
<1>3. CASE DocumentRefused
  <2> DEFINE m == [type |-> "close", comm |-> Head(shell).comm]
  <2>1. Head(shell).comm \in Comm
    BY <1>3, RequestOf, DocumentOf DEF DocumentRefused, Handling
  <2>2. m \in Signal
    BY <2>1 DEF Signal
  <2>3. iopub' = Append(iopub, m) \/ iopub' = iopub
    BY <1>3 DEF DocumentRefused
  <2> HIDE DEF m
  <2> QED BY <1>0, <1>2, <2>2, <2>3
<1>4. CASE KernelIdle
  <2> DEFINE m == [type |-> "idle"]
  <2>1. m \in Signal
    BY DEF Signal
  <2>2. iopub' = Append(iopub, m)
    BY <1>4 DEF KernelIdle
  <2> HIDE DEF m
  <2> QED BY <1>2, <2>1, <2>2
<1>5. CASE ServerRestarts
  <2> DEFINE m == [type |-> "restarting", of |-> incarnation]
  <2>1. m \in Signal
    BY DEF Signal, Types, CountType
  <2>2. iopub' = Append(iopub, m)
    BY <1>5 DEF ServerRestarts
  <2> HIDE DEF m
  <2> QED BY <1>2, <2>1, <2>2
<1>6. CASE iopub # <<>> /\ iopub' = Tail(iopub)
  BY <1>0, <1>6
<1>7. CASE iopub' \in {<<>>, <<[type |-> "idle"]>>}
  <2>1. [type |-> "idle"] \in Signal
    BY DEF Signal
  <2>2. <<>> \in Seq(Signal) /\ <<[type |-> "idle"]>> \in Seq(Signal)
    BY <2>1
  <2>3. iopub' = <<>> \/ iopub' = <<[type |-> "idle"]>>
    BY <1>7, Zenon
  <2>4. CASE iopub' = <<>>
    BY <2>2, <2>4, Zenon
  <2>5. CASE iopub' = <<[type |-> "idle"]>>
    BY <2>2, <2>5, Zenon
  <2> QED BY <2>3, <2>4, <2>5
<1>8. \/ iopub' = iopub
      \/ iopub # <<>> /\ iopub' = Tail(iopub)
      \/ iopub' \in {<<>>, <<[type |-> "idle"]>>}
      \/ Broadcast \/ DocumentRefused \/ KernelIdle \/ ServerRestarts
  BY DEF Next, User, Browser, Server, Load, Edit, PanelOpens, PanelCloses, Run, ChangeKernel,
    UserRestarts, PanelReady, TimerFires, RestartArrives, IdleArrives, StatusArrives,
    CloseArrives, DocumentHandled, ExecuteHandled, KernelDies, AtRest, vars
<1> QED BY <1>0, <1>1, <1>3, <1>4, <1>5, <1>6, <1>7, <1>8

\* The counters keep their types.
LEMMA CountTypeStep ==
  ASSUME FrontendAssumption, Types, ExecutionInv, [Next]_vars
  PROVE  CountType'
<1>1. incarnation' \in Nat /\ seen' \in Nat
  BY NextProcesses DEF Processes
<1>2. events' = events \/ (events < MaxEvents /\ events' = events + 1)
  BY DEF Next, User, Browser, Server, Load, Edit, PanelOpens, PanelCloses, Run, ChangeKernel,
    UserRestarts, PanelReady, TimerFires, RestartArrives, IdleArrives, StatusArrives,
    CloseArrives, DocumentHandled, DocumentRefused, ExecuteHandled, KernelIdle, ServerRestarts,
    KernelDies, AtRest, vars
<1> QED BY <1>1, <1>2 DEF Types, CountType, FrontendAssumption

\* The types hold at the start.
LEMMA TypesInit == ASSUME FrontendAssumption, Init PROVE Types
<1> USE DEF Init
<1>1. <<>> \in Seq(Cell) /\ <<>> \in Seq(CodeCell) /\ <<>> \in Seq(Request) /\ <<>> \in Seq(Signal)
  OBVIOUS
<1>2. NotebookType /\ ChannelType
  BY <1>1, Zenon DEF NotebookType, ChannelType
<1>3. PanelType
  BY DEF PanelType
<1>4. CountType
  BY DEF CountType, FrontendAssumption
<1>5. CommType
  BY FS_EmptySet DEF CommType
<1>6. KernelType
  BY <1>1, Zenon DEF KernelType
<1> QED BY <1>2, <1>3, <1>4, <1>5, <1>6 DEF Types

\* The parts say what TypeOK says.
LEMMA TypesAre == Types <=> TypeOK
BY DEF Types, NotebookType, PanelType, CommType, KernelType, ChannelType, CountType, TypeOK

\* Every step keeps the types.
LEMMA TypesStep == ASSUME FrontendAssumption, Types, ExecutionInv, [Next]_vars PROVE Types'
BY NotebookTypeStep, PanelTypeStep, CommTypeStep, KernelTypeStep, ShellTypeStep, IopubTypeStep,
  CountTypeStep DEF Types, ChannelType

----------------------------------------------------------------------------
(* Agreement: what a panel will have shown *)

\* Paints, in the next state.
PaintsNext(m, p) == m.type = "status" /\ m.comm \in live' /\ m.comm[1] = p

\* No comm of p is closed or opened.
SameComms(p) == live \subseteq live' /\ \A c \in live' : c \in live \/ c[1] # p

\* The statuses that paint p are the same after such a step.
LEMMA PaintsKept ==
  ASSUME NEW p, SameComms(p), NEW m PROVE PaintsNext(m, p) <=> Paints(m, p)
BY DEF SameComms, PaintsNext, Paints

\* How a step shows that p will show what the kernel said last.
LEMMA ShownIs ==
  ASSUME NEW p, NEW i \in 0 .. Len(iopub'),
         IF i = 0 THEN marks'[p] = last' \cap CellIds(cells') ELSE PaintsNext(iopub'[i], p),
         \A j \in 1 .. Len(iopub') : j >= i /\ PaintsNext(iopub'[j], p) => iopub'[j].stale = last'
  PROVE  Shown(p)'
BY DEF Shown, PaintsNext, Paints, CellIds

\* Messages that are no statuses change nothing of what p will show.
LEMMA ShownOn ==
  ASSUME IsSeq(iopub), IsSeq(iopub'), NEW p, Shown(p), SameComms(p),
         marks'[p] = marks[p], last' = last, cells' = cells, Len(iopub) <= Len(iopub'),
         \A i \in 1 .. Len(iopub) : iopub'[i] = iopub[i],
         \A i \in Len(iopub) + 1 .. Len(iopub') : iopub'[i].type # "status"
  PROVE  Shown(p)'
<1>1. PICK i \in 0 .. Len(iopub) :
        /\ IF i = 0 THEN marks[p] = last \cap CellIds(cells) ELSE Paints(iopub[i], p)
        /\ \A j \in 1 .. Len(iopub) : j >= i /\ Paints(iopub[j], p) => iopub[j].stale = last
  BY DEF Shown
<1>2. Len(iopub) \in Nat /\ Len(iopub') \in Nat /\ i \in 0 .. Len(iopub')
  BY DEF IsSeq
<1>3. IF i = 0 THEN marks'[p] = last' \cap CellIds(cells') ELSE PaintsNext(iopub'[i], p)
  BY <1>1, <1>2, PaintsKept
<1>4. ASSUME NEW j \in 1 .. Len(iopub'), j >= i, PaintsNext(iopub'[j], p)
      PROVE  iopub'[j].stale = last'
  <2>1. iopub'[j].type = "status"
    BY <1>4 DEF PaintsNext
  <2>2. j \in 1 .. Len(iopub) /\ iopub'[j] = iopub[j]
    BY <1>2, <2>1
  <2> QED BY <1>1, <1>4, <2>2, PaintsKept
<1> QED BY <1>2, <1>3, <1>4, ShownIs

\* The next message has been dealt with: if it is a status for p, p is painted by it.
LEMMA ShownTail ==
  ASSUME IsSeq(iopub), iopub # <<>>, iopub' = Tail(iopub), NEW p, Shown(p), SameComms(p),
         IF Paints(Head(iopub), p) THEN marks'[p] = Head(iopub).stale \cap CellIds(cells)
         ELSE marks'[p] = marks[p],
         last' = last, cells' = cells
  PROVE  Shown(p)'
<1>1. PICK i \in 0 .. Len(iopub) :
        /\ IF i = 0 THEN marks[p] = last \cap CellIds(cells) ELSE Paints(iopub[i], p)
        /\ \A j \in 1 .. Len(iopub) : j >= i /\ Paints(iopub[j], p) => iopub[j].stale = last
  BY DEF Shown
<1>2. /\ Len(iopub) \in Nat \ {0} /\ Len(iopub') = Len(iopub) - 1 /\ Head(iopub) = iopub[1]
      /\ \A j \in 1 .. Len(iopub) - 1 : iopub'[j] = iopub[j + 1]
  BY TailOf
<1>3. ASSUME NEW j \in 1 .. Len(iopub'), j + 1 >= i, PaintsNext(iopub'[j], p)
      PROVE  iopub'[j].stale = last'
  <2>1. j + 1 \in 1 .. Len(iopub) /\ iopub'[j] = iopub[j + 1]
    BY <1>2
  <2> QED BY <1>1, <1>3, <2>1, PaintsKept
<1>4. CASE i <= 1
  <2>1. marks'[p] = last' \cap CellIds(cells')
    <3>1. CASE Paints(iopub[1], p)
      <4>1. iopub[1].stale = last
        BY <1>1, <1>2, <1>4, <3>1
      <4> QED BY <1>2, <3>1, <4>1
    <3>2. CASE ~Paints(iopub[1], p)
      <4>1. i = 0
        BY <1>1, <1>4, <3>2
      <4> QED BY <1>1, <1>2, <3>2, <4>1
    <3> QED BY <3>1, <3>2
  <2>2. 0 \in 0 .. Len(iopub')
    BY <1>2
  <2>3. \A j \in 1 .. Len(iopub') : PaintsNext(iopub'[j], p) => iopub'[j].stale = last'
    BY <1>2, <1>3, <1>4
  <2> QED BY <2>1, <2>2, <2>3, ShownIs
<1>5. CASE i > 1
  <2>1. i - 1 \in 0 .. Len(iopub') /\ i - 1 # 0 /\ iopub'[i - 1] = iopub[i]
    BY <1>2, <1>5
  <2>2. PaintsNext(iopub'[i - 1], p)
    BY <1>1, <1>5, <2>1, PaintsKept
  <2>3. \A j \in 1 .. Len(iopub') : j >= i - 1 /\ PaintsNext(iopub'[j], p) => iopub'[j].stale = last'
    BY <1>2, <1>3, <2>1
  <2> QED BY <2>1, <2>2, <2>3, ShownIs
<1> QED BY <1>4, <1>5

\* A broadcast reaches every panel that has a comm the kernel knows.
LEMMA ShownBroadcast ==
  ASSUME IsSeq(iopub), Comms', Broadcast, kdoc' # <<>>, NEW p, NEW c, c \in comms', c \in live', c[1] = p
  PROVE  Shown(p)'
<1> DEFINE msg(o, i) == [type |-> "status", comm |-> o[i], stale |-> last']
           n == Cardinality(comms')
<1>1. PICK o \in Orders(comms') : iopub' = iopub \o [i \in DOMAIN o |-> msg(o, i)]
  BY DEF Broadcast
<1>2. n \in Nat /\ o \in [1 .. n -> comms'] /\ \E i \in 1 .. n : o[i] = c
  BY OrderType DEF Comms
<1>3. \A i \in 1 .. n : msg(o, i).type = "status" /\ msg(o, i).comm = o[i] /\ msg(o, i).stale = last'
  OBVIOUS
<1> DEFINE t == [i \in DOMAIN o |-> msg(o, i)]
<1> HIDE DEF msg, n
<1>4. t = [i \in 1 .. n |-> msg(o, i)]
  BY <1>2
<1> HIDE DEF t
<1>5. IsSeq(t) /\ Len(t) = n
  <2>1. t \in [1 .. n -> {t[i] : i \in 1 .. n}]
    BY <1>4
  <2> QED BY <1>2, <2>1, FunctionIsSeq
<1>6. iopub' = iopub \o t
  BY <1>1 DEF t
<1>7. /\ Len(iopub') = Len(iopub) + n /\ Len(iopub) \in Nat
      /\ \A i \in 1 .. n : iopub'[Len(iopub) + i] = msg(o, i)
  <2>1. Len(iopub') = Len(iopub) + Len(t)
    BY <1>5, <1>6, Concat
  <2>2. \A i \in 1 .. Len(t) : iopub'[Len(iopub) + i] = t[i]
    BY <1>5, <1>6, Concat
  <2> QED BY <1>4, <1>5, <2>1, <2>2 DEF IsSeq
<1>8. PICK k \in 1 .. n : o[k] = c
  BY <1>2
<1>9. Len(iopub) + k \in 0 .. Len(iopub') /\ Len(iopub) + k # 0
  BY <1>2, <1>7
<1>10. PaintsNext(iopub'[Len(iopub) + k], p)
  BY <1>3, <1>7, <1>8 DEF PaintsNext
<1>11. ASSUME NEW j \in 1 .. Len(iopub'), j >= Len(iopub) + k PROVE iopub'[j].stale = last'
  <2>1. j - Len(iopub) \in 1 .. n /\ Len(iopub) + (j - Len(iopub)) = j
    BY <1>2, <1>7, <1>11
  <2> QED BY <1>3, <1>7, <2>1
<1> QED BY <1>9, <1>10, <1>11, ShownIs

----------------------------------------------------------------------------
(* Agreement: the panels send *)

\* The document is a function of the cells.
LEMMA DocumentKept == cells' = cells => Document' = Document
BY SMT DEF Document

\* The messages to the kernel go on with documents that are the notebook's.
Longer ==
  /\ IsSeq(shell) /\ IsSeq(shell') /\ Len(shell) <= Len(shell')
  /\ \A i \in 1 .. Len(shell) : shell'[i] = shell[i]
  /\ \A i \in Len(shell) + 1 .. Len(shell') :
       shell'[i].type = "document" => shell'[i].cells = Document

\* The documents are the notebook's, and so are those that follow.
LEMMA CurrentOn ==
  ASSUME Longer, cells' = cells, NEW n \in Nat \ {0}, CurrentFrom(n)
  PROVE  CurrentFrom(n)'
<1>1. ASSUME NEW i \in n .. Len(shell'), shell'[i].type = "document"
      PROVE  shell'[i].cells = Document'
  <2>1. CASE i \in 1 .. Len(shell)
    <3>1. i \in n .. Len(shell) /\ shell'[i] = shell[i]
      BY <2>1 DEF Longer
    <3> QED BY <1>1, <3>1, DocumentKept DEF CurrentFrom
  <2>2. CASE i \notin 1 .. Len(shell)
    <3>1. i \in Len(shell) + 1 .. Len(shell')
      BY <2>2 DEF Longer, IsSeq
    <3> QED BY <1>1, <3>1, DocumentKept DEF Longer
  <2> QED BY <2>1, <2>2
<1> QED BY <1>1 DEF CurrentFrom

\* An opening under way stays under way.
LEMMA OpenedOn ==
  ASSUME Longer, NEW c, NEW n \in 0 .. Len(shell), Opened(c, n)
  PROVE  Opened(c, n)'
<1>1. PICK j \in 1 .. n : shell[j].type = "document" /\ shell[j].opens /\ shell[j].comm = c
  BY DEF Opened
<1>2. shell'[j] = shell[j]
  BY DEF Longer, IsSeq
<1> QED BY <1>1, <1>2 DEF Opened

\* A document under way stays under way.
LEMMA UnderwayOn ==
  ASSUME Longer, cells' = cells, comms \subseteq comms', NEW c, Underway(c)
  PROVE  Underway(c)'
<1>1. PICK i \in 1 .. Len(shell) :
        /\ shell[i].type = "document" /\ shell[i].comm = c
        /\ c \in comms \/ Opened(c, i)
        /\ CurrentFrom(i)
  BY DEF Underway
<1>2. i \in 1 .. Len(shell') /\ shell'[i] = shell[i] /\ i \in Nat \ {0} /\ i \in 0 .. Len(shell)
  BY DEF Longer, IsSeq
<1>3. CurrentFrom(i)'
  BY <1>1, <1>2, CurrentOn
<1>4. c \in comms' \/ Opened(c, i)'
  BY <1>1, <1>2, OpenedOn
<1> QED BY <1>1, <1>2, <1>3, <1>4 DEF Underway

\* Agreement with the kernel outlasts further documents that say the same.
LEMMA AgreedOn ==
  ASSUME Longer, cells' = cells, comms \subseteq comms', kdoc' = kdoc,
         NEW p, NEW c, Agreed(p, c), Shown(p) => Shown(p)'
  PROVE  Agreed(p, c)'
<1>1. CurrentFrom(1)'
  BY CurrentOn DEF Agreed
<1> QED BY <1>1, DocumentKept DEF Agreed

\* A panel that was to be told, or was told, still is.
Told(p) == \E c \in comm[p] \cap live : Underway(c) \/ Agreed(p, c)

\* The same, for a panel that keeps its comm.
LEMMA ToldOn ==
  ASSUME Longer, cells' = cells, comms \subseteq comms', kdoc' = kdoc, NEW p, Told(p),
         comm'[p] = comm[p], live \subseteq live', Shown(p) => Shown(p)'
  PROVE  Told(p)'
<1>1. PICK c \in comm[p] \cap live : Underway(c) \/ Agreed(p, c)
  BY DEF Told
<1>2. Underway(c)' \/ Agreed(p, c)'
  BY <1>1, UnderwayOn, AgreedOn
<1>3. c \in comm'[p] \cap live'
  OBVIOUS
<1> QED BY <1>2, <1>3 DEF Told

\* Agreement, in terms of Told.
LEMMA AgreementIs ==
  Agreement <=> (kind = "nbdsl" /\ seen = incarnation =>
                   \A p \in Panels : panel[p] = "ready" => timer[p] \/ Settling(p) \/ Told(p))
BY DEF Agreement, Told

\* How a step shows Agreement.
LEMMA AgreementNext ==
  ASSUME kind' = "nbdsl" /\ seen' = incarnation' =>
           \A p \in Panels : panel'[p] = "ready" => timer'[p] \/ Settling(p)' \/ Told(p)'
  PROVE  Agreement'
BY DEF Agreement, Told

\* How a step shows that a document is under way.
LEMMA UnderwayIs ==
  ASSUME NEW c, NEW i \in 1 .. Len(shell'), shell'[i].type = "document", shell'[i].comm = c,
         \/ c \in comms'
         \/ \E j \in 1 .. i : shell'[j].type = "document" /\ shell'[j].opens /\ shell'[j].comm = c,
         \A j \in i .. Len(shell') : shell'[j].type = "document" => shell'[j].cells = Document'
  PROVE  Underway(c)'
<1>1. CurrentFrom(i)'
  BY DEF CurrentFrom
<1>2. c \in comms' \/ Opened(c, i)'
  BY DEF Opened
<1> QED BY <1>1, <1>2 DEF Underway

\* What send() leaves: the messages go on with documents, and each panel that
\* sends has one under way on the comm it holds.
LEMMA SentLonger ==
  ASSUME NEW S, NEW k, NEW after, NEW n \in Nat, IsSeq(shell), IsSeq(after),
         \A i \in 1 .. Len(after) : after[i].type # "document",
         SentAs(n, S, k, comm, live, shell, after)
  PROVE  Longer
<1>1. Len(shell) \in Nat /\ Len(after) \in Nat
  BY DEF IsSeq
<1>2. IsSeq(shell') /\ Len(shell') = Len(shell) + n + Len(after)
  BY Zenon DEF SentAs
<1>3. /\ \A i \in 1 .. Len(shell) : shell'[i] = shell[i]
      /\ \A i \in 1 .. n : shell'[Len(shell) + i].cells = Document
      /\ \A i \in 1 .. Len(after) : shell'[Len(shell) + n + i] = after[i]
  BY Zenon DEF SentAs
<1>4. ASSUME NEW i \in Len(shell) + 1 .. Len(shell'), shell'[i].type = "document"
      PROVE  shell'[i].cells = Document
  <2>1. CASE i <= Len(shell) + n
    <3> DEFINE j == i - Len(shell)
    <3>1. j \in 1 .. n /\ Len(shell) + j = i
      BY <1>1, <1>2, <2>1
    <3> HIDE DEF j
    <3>2. shell'[Len(shell) + j].cells = Document
      BY <1>3, <3>1
    <3> QED BY <3>1, <3>2
  <2>2. CASE i > Len(shell) + n
    <3> DEFINE j == i - (Len(shell) + n)
    <3>1. j \in 1 .. Len(after) /\ Len(shell) + n + j = i
      BY <1>1, <1>2, <2>2
    <3> HIDE DEF j
    <3>2. shell'[Len(shell) + n + j] = after[j]
      BY <1>3, <3>1
    <3>3. shell'[i] = after[j]
      BY <3>1, <3>2
    <3> QED BY <1>4, <3>1, <3>3
  <2> QED BY <1>1, <1>2, <2>1, <2>2
<1>5. Len(shell) <= Len(shell')
  BY <1>1, <1>2
<1> QED BY <1>2, <1>3, <1>4, <1>5 DEF Longer

\* A panel that has sent has the notebook under way.
LEMMA SentUnderway ==
  ASSUME NEW S, NEW k, NEW after, NEW n \in Nat, IsSeq(shell), IsSeq(after),
         \A i \in 1 .. Len(after) : after[i].type # "document",
         SentAs(n, S, k, comm, live, shell, after), cells' = cells, comms' = comms,
         kind = "nbdsl", seen = incarnation, CommsKnown,
         NEW p \in Panels, NEW c, SentOn(p, c, n, comm, live, shell)
  PROVE  Underway(c)'
<1>1. Longer /\ Len(shell) \in Nat /\ Len(after) \in Nat
  BY SentLonger DEF IsSeq
<1>2. Len(shell') = Len(shell) + n + Len(after)
  BY Zenon DEF SentAs
<1>3. PICK i \in 1 .. n : /\ shell'[Len(shell) + i].comm = c
                          /\ shell'[Len(shell) + i].opens \/ c \in comm[p] \cap live
  BY DEF SentOn
<1>4. shell'[Len(shell) + i].type = "document"
  BY DEF SentAs
<1> DEFINE m == Len(shell) + i
<1>5. m \in 1 .. Len(shell') /\ m > Len(shell) /\ m \in Nat
  BY <1>1, <1>2
<1>6. ASSUME NEW j \in m .. Len(shell'), shell'[j].type = "document"
      PROVE  shell'[j].cells = Document'
  <2>1. j \in Len(shell) + 1 .. Len(shell')
    BY <1>1, <1>2, <1>5
  <2> QED BY <1>1, <1>6, <2>1, DocumentKept DEF Longer
<1>7. \/ c \in comms'
      \/ \E j \in 1 .. m : shell'[j].type = "document" /\ shell'[j].opens /\ shell'[j].comm = c
  <2>1. CASE shell'[m].opens
    <3>1. m \in 1 .. m
      BY <1>5
    <3> QED BY <1>3, <1>4, <2>1, <3>1
  <2>2. CASE c \in comm[p] \cap live
    <3>1. c \in comms \/ Opened(c, Len(shell))
      BY <2>2 DEF CommsKnown
    <3>2. CASE Opened(c, Len(shell))
      <4>1. PICK j \in 1 .. Len(shell) : shell[j].type = "document" /\ shell[j].opens /\ shell[j].comm = c
        BY <3>2 DEF Opened
      <4>2. j \in 1 .. m /\ shell'[j] = shell[j]
        BY <1>1, <1>5 DEF Longer
      <4> HIDE DEF m
      <4> QED BY <4>1, <4>2
    <3> QED BY <3>1, <3>2
  <2> QED BY <1>3, <2>1, <2>2
<1>8. shell'[m].type = "document" /\ shell'[m].comm = c
  BY <1>3, <1>4
<1> HIDE DEF m
<1> QED BY <1>5, <1>6, <1>7, <1>8, UnderwayIs

\* The panels of S send.  The others have what they had.
LEMMA SendAgrees ==
  ASSUME FrontendAssumption, Types, ExecutionInv, Agreement,
         NEW S \in SUBSET Panels, NEW after, IsSeq(after),
         \A i \in 1 .. Len(after) : after[i].type # "document",
         Send(S, kind, comm, live, shell, after),
         UNCHANGED <<kind, comms, kdoc, incarnation, seen, cells, last, marks>>,
         \A p \in Panels : panel'[p] = "ready" =>
           panel[p] = "ready" \/ (p \in S /\ panel[p] = "tracked"),
         \A p \in Panels \ S : timer[p] => timer'[p],
         \A p \in Panels \ S : Settling(p) => Settling(p)',
         \/ iopub' = iopub
         \/ iopub # <<>> /\ Head(iopub).type # "status" /\ iopub' = Tail(iopub)
  PROVE  Agreement'
<1> USE DEF ExecutionInv
<1>1. IsSeq(shell) /\ IsSeq(iopub)
  BY DEF Requests, Signals
<1>2. PICK n \in Nat : /\ SentAs(n, S, kind, comm, live, shell, after)
                       /\ SentBy(n, S, kind, comm, live, shell)
  BY <1>1, Sent
<1>3. Longer
  BY <1>1, <1>2, SentLonger
<1> SUFFICES ASSUME kind = "nbdsl", seen = incarnation, NEW p \in Panels, panel'[p] = "ready",
                    ~timer'[p], ~Settling(p)'
             PROVE  Told(p)'
  BY AgreementNext
<1>4. CASE p \in S
  <2>1. Sender(p, S, kind)
    BY <1>4 DEF Sender
  <2>2. PICK c : SentOn(p, c, n, comm, live, shell)
    BY <1>2, <2>1 DEF SentBy
  <2>3. Underway(c)'
    BY <1>1, <1>2, <2>2, SentUnderway
  <2>4. c \in comm'[p] \cap live'
    BY <2>2 DEF SentOn
  <2> QED BY <2>3, <2>4 DEF Told
<1>5. CASE p \notin S
  <2>0. panel[p] = "ready" /\ ~timer[p] /\ ~Settling(p)
    BY <1>5
  <2>1. Told(p)
    BY <2>0, AgreementIs
  <2>2. comm'[p] = comm[p] /\ live \subseteq live' /\ SameComms(p)
    BY <1>2, <1>5 DEF SentBy, Sender, SameComms
  <2>3. Shown(p) => Shown(p)'
    <3>1. CASE iopub' = iopub
      <4>1. \A i \in Len(iopub) + 1 .. Len(iopub') : FALSE
        BY <1>1, <3>1 DEF IsSeq
      <4>2. IsSeq(iopub') /\ Len(iopub) <= Len(iopub')
        BY <1>1, <3>1 DEF IsSeq
      <4> QED BY <1>1, <2>2, <3>1, <4>1, <4>2, ShownOn
    <3>2. CASE iopub # <<>> /\ Head(iopub).type # "status" /\ iopub' = Tail(iopub)
      <4>1. ~Paints(Head(iopub), p)
        BY <3>2 DEF Paints
      <4> QED BY <1>1, <2>2, <3>2, <4>1, ShownTail
    <3> QED BY <3>1, <3>2
  <2> QED BY <1>3, <2>1, <2>2, <2>3, ToldOn
<1> QED BY <1>4, <1>5

----------------------------------------------------------------------------
(* Agreement: views, notices *)

\* Messages reach the panels behind those under way, or the first is dealt with.
SignalsOn ==
  /\ IsSeq(iopub) /\ IsSeq(iopub') /\ Len(iopub) <= Len(iopub')
  /\ \A i \in 1 .. Len(iopub) : iopub'[i] = iopub[i]
NewSignal(m) == \E i \in Len(iopub) + 1 .. Len(iopub') : iopub'[i] = m
SignalsTail  == iopub # <<>> /\ iopub' = Tail(iopub)

\* No message is new.
LEMMA SignalsSame == ASSUME IsSeq(iopub), iopub' = iopub PROVE SignalsOn /\ \A m : ~NewSignal(m)
BY DEF SignalsOn, NewSignal, IsSeq

\* One message is new.
LEMMA SignalsAppend ==
  ASSUME IsSeq(iopub), NEW m, iopub' = Append(iopub, m)
  PROVE  SignalsOn /\ NewSignal(m) /\ \A x : NewSignal(x) => x = m
<1>1. /\ IsSeq(iopub') /\ Len(iopub') = Len(iopub) + 1 /\ Len(iopub) \in Nat
      /\ \A i \in 1 .. Len(iopub) : iopub'[i] = iopub[i]
      /\ iopub'[Len(iopub) + 1] = m
  BY AppendIsSeq DEF IsSeq
<1>2. \A i \in Len(iopub) + 1 .. Len(iopub') : i = Len(iopub) + 1
  BY <1>1
<1>3. Len(iopub) + 1 \in Len(iopub) + 1 .. Len(iopub')
  BY <1>1
<1> QED BY <1>1, <1>2, <1>3 DEF SignalsOn, NewSignal

\* The new messages are statuses.
LEMMA BroadcastOn ==
  ASSUME IsSeq(iopub), Comms', Broadcast
  PROVE  SignalsOn /\ \A m : NewSignal(m) => m.type = "status"
<1>1. CASE iopub' = iopub
  BY <1>1, SignalsSame
<1>2. CASE iopub' # iopub
  <2> DEFINE msg(o, i) == [type |-> "status", comm |-> o[i], stale |-> last']
             n == Cardinality(comms')
  <2>1. PICK o \in Orders(comms') : iopub' = iopub \o [i \in DOMAIN o |-> msg(o, i)]
    BY <1>2 DEF Broadcast
  <2>2. n \in Nat /\ o \in [1 .. n -> comms']
    BY OrderType DEF Comms
  <2>3. \A i \in 1 .. n : msg(o, i).type = "status"
    OBVIOUS
  <2> DEFINE t == [i \in DOMAIN o |-> msg(o, i)]
  <2> HIDE DEF msg, n
  <2>4. t = [i \in 1 .. n |-> msg(o, i)]
    BY <2>2
  <2> HIDE DEF t
  <2>5. IsSeq(t) /\ Len(t) = n
    <3>1. t \in [1 .. n -> {t[i] : i \in 1 .. n}]
      BY <2>4
    <3> QED BY <2>2, <3>1, FunctionIsSeq
  <2>6. iopub' = iopub \o t
    BY <2>1 DEF t
  <2>9. IsSeq(iopub') /\ Len(iopub') = Len(iopub) + Len(t)
    BY <2>5, <2>6, Concat
  <2>10. \A i \in 1 .. Len(iopub) : iopub'[i] = iopub[i]
    BY <2>5, <2>6, Concat
  <2>11. \A i \in 1 .. Len(t) : iopub'[Len(iopub) + i] = t[i]
    BY <2>5, <2>6, Concat
  <2>7. /\ IsSeq(iopub') /\ Len(iopub') = Len(iopub) + Len(t) /\ Len(iopub) \in Nat
        /\ \A i \in 1 .. Len(iopub) : iopub'[i] = iopub[i]
        /\ \A i \in 1 .. Len(t) : iopub'[Len(iopub) + i] = t[i]
    BY <2>9, <2>10, <2>11 DEF IsSeq
  <2>8. ASSUME NEW i \in Len(iopub) + 1 .. Len(iopub') PROVE iopub'[i].type = "status"
    <3> DEFINE j == i - Len(iopub)
    <3>1. j \in 1 .. n /\ Len(iopub) + j = i
      BY <2>2, <2>5, <2>7
    <3> HIDE DEF j
    <3>2. iopub'[i] = msg(o, j)
      BY <2>4, <2>5, <2>7, <3>1
    <3> QED BY <2>3, <3>1, <3>2
  <2> QED BY <2>2, <2>5, <2>7, <2>8 DEF SignalsOn, NewSignal
<1> QED BY <1>1, <1>2

\* Comms are created for the panel that holds them, views for a loaded notebook.
LEMMA ViewsStep ==
  ASSUME FrontendAssumption, Types, ExecutionInv, Views, [Next]_vars PROVE Views'
<1> USE DEF Views
<1>1. \A p \in Panels : panel'[p] \in {"ready", "closed"} => loaded'
  <2>1. loaded' = loaded \/ loaded' = TRUE
    BY DEF Next, User, Browser, Server, Load, Edit, PanelOpens, PanelCloses, Run, ChangeKernel,
      UserRestarts, PanelReady, TimerFires, RestartArrives, IdleArrives, StatusArrives,
      CloseArrives, DocumentHandled, DocumentRefused, ExecuteHandled, KernelIdle,
      ServerRestarts, KernelDies, AtRest, notebookVars, vars
  <2>2. panel \in [Panels -> {"absent", "tracked", "ready", "closed"}]
    BY DEF Types, PanelType
  <2>3. \/ panel' = panel
        \/ \E p \in Panels : panel' = [panel EXCEPT ![p] = "tracked"]
        \/ \E p \in Panels : panel' = [panel EXCEPT ![p] = "ready"] /\ loaded
        \/ \E p \in Panels : panel' = [panel EXCEPT ![p] = "closed"] /\ panel[p] = "ready"
    BY DEF Next, User, Browser, Server, Load, Edit, PanelOpens, PanelCloses, Run, ChangeKernel,
      UserRestarts, PanelReady, TimerFires, RestartArrives, IdleArrives, StatusArrives,
      CloseArrives, DocumentHandled, DocumentRefused, ExecuteHandled, KernelIdle,
      ServerRestarts, KernelDies, AtRest, panelVars, vars
  <2> QED BY <2>1, <2>2, <2>3
<1>2. ASSUME NEW S \in SUBSET Panels, NEW k, NEW held, NEW open, NEW before, IsSeq(before),
             NEW after, IsSeq(after), Send(S, k, held, open, before, after),
             \A p \in Panels : \A c \in held[p] : c[1] = p
      PROVE  \A p \in Panels : \A c \in comm'[p] : c[1] = p
  <2>1. PICK n \in Nat : SentBy(n, S, k, held, open, before)
    BY <1>2, Sent
  <2>2. ASSUME NEW p \in Panels, NEW c \in comm'[p] PROVE c[1] = p
    <3>1. CASE Sender(p, S, k)
      <4>1. PICK d : SentOn(p, d, n, held, open, before)
        BY <2>1, <3>1 DEF SentBy
      <4>2. c \in held[p] \/ c = <<p, opened[p] + 1>>
        BY <2>2, <4>1 DEF SentOn
      <4> QED BY <1>2, <4>2
    <3>2. CASE ~Sender(p, S, k)
      BY <1>2, <2>1, <2>2, <3>2 DEF SentBy
    <3> QED BY <3>1, <3>2
  <2> QED BY <2>2
<1>3. IsSeq(shell) /\ IsSeq(<<>>)
  BY EmptyIsSeq DEF ExecutionInv, Requests
<1>4. \A p \in Panels : \A c \in NoComm[p] : c[1] = p
  BY DEF NoComm
<1>5. ASSUME NEW p \in Panels, PanelReady(p) \/ TimerFires(p)
      PROVE  \A q \in Panels : \A c \in comm'[q] : c[1] = q
  <2>1. {p} \in SUBSET Panels
    OBVIOUS
  <2> QED BY <1>2, <1>3, <1>5, <2>1 DEF PanelReady, TimerFires
<1>6. ASSUME NEW p \in Panels, NEW k, Run(p, k)
      PROVE  \A q \in Panels : \A c \in comm'[q] : c[1] = q
  <2> DEFINE after == IF kind = "none" THEN <<>> ELSE <<ExecMsg(cells[k].id)>>
  <2>1. {p} \in SUBSET Panels /\ IsSeq(after)
    BY <1>3, SingleIsSeq
  <2>2. Send({p}, kind, comm, live, shell, after)
    BY <1>6 DEF Run
  <2> HIDE DEF after
  <2> QED BY <1>2, <1>3, <2>1, <2>2
<1>7. ASSUME IdleArrives PROVE \A q \in Panels : \A c \in comm'[q] : c[1] = q
  <2>1. {p \in Panels : restarting[p]} \in SUBSET Panels
    OBVIOUS
  <2>2. Send({p \in Panels : restarting[p]}, kind, comm, live, shell, <<>>)
    BY <1>7 DEF IdleArrives
  <2> QED BY <1>2, <1>3, <2>1, <2>2
<1>8. ASSUME NEW k, ChangeKernel(k) PROVE \A q \in Panels : \A c \in comm'[q] : c[1] = q
  <2>1. Panels \in SUBSET Panels /\ Send(Panels, k, NoComm, {}, <<>>, <<>>)
    BY <1>8 DEF ChangeKernel
  <2> QED BY <1>2, <1>3, <1>4, <2>1
<1>9. ASSUME NEW p \in Panels, PanelCloses(p) PROVE \A q \in Panels : \A c \in comm'[q] : c[1] = q
  <2>1. comm \in [Panels -> SUBSET Comm] /\ comm' = [comm EXCEPT ![p] = {}]
    BY <1>9 DEF Types, CommType, PanelCloses
  <2> QED BY <2>1
<1>10. \/ comm' = comm \/ comm' = NoComm \/ IdleArrives
       \/ \E k : ChangeKernel(k)
       \/ \E p \in Panels : PanelCloses(p) \/ PanelReady(p) \/ TimerFires(p)
       \/ \E p \in Panels : \E k \in DOMAIN cells : Run(p, k)
  BY DEF Next, User, Browser, Server, Load, Edit, PanelOpens, UserRestarts, RestartArrives,
    Restarting, StatusArrives, CloseArrives, DocumentHandled, DocumentRefused, ExecuteHandled,
    KernelIdle, ServerRestarts, KernelDies, AtRest, panelVars, vars
<1> QED BY <1>1, <1>4, <1>5, <1>6, <1>7, <1>8, <1>9, <1>10

\* comm_close comes from a kernel without the target only.
LEMMA NoCloseStep ==
  ASSUME ExecutionInv, NoClose, [Next]_vars PROVE NoClose'
<1> USE DEF NoClose
<1>0. IsSeq(iopub) /\ Comms'
  BY NextComms DEF ExecutionInv, Signals
<1>1. ASSUME kind' = kind, SignalsOn, \A m : NewSignal(m) => m.type # "close" PROVE NoClose'
  <2>1. ASSUME NEW i \in 1 .. Len(iopub'), kind = "nbdsl" PROVE iopub'[i].type # "close"
    <3>1. CASE i \in 1 .. Len(iopub)
      BY <1>1, <2>1, <3>1 DEF SignalsOn
    <3>2. CASE i \notin 1 .. Len(iopub)
      <4>1. i \in Len(iopub) + 1 .. Len(iopub')
        BY <1>0, <3>2 DEF IsSeq
      <4>2. NewSignal(iopub'[i])
        BY <4>1 DEF NewSignal
      <4> QED BY <1>1, <4>2
    <3> QED BY <3>1, <3>2
  <2> QED BY <1>1, <2>1
<1>2. ASSUME kind' = kind, SignalsTail PROVE NoClose'
  <2>1. /\ Len(iopub) \in Nat \ {0} /\ Len(iopub') = Len(iopub) - 1
        /\ \A j \in 1 .. Len(iopub) - 1 : iopub'[j] = iopub[j + 1]
    BY <1>0, <1>2, TailOf DEF SignalsTail
  <2>2. ASSUME NEW i \in 1 .. Len(iopub'), kind = "nbdsl" PROVE iopub'[i].type # "close"
    <3>1. i + 1 \in 1 .. Len(iopub) /\ iopub'[i] = iopub[i + 1]
      BY <2>1
    <3> QED BY <2>2, <3>1
  <2> QED BY <1>2, <2>2
<1>3. CASE iopub' = <<>>
  BY <1>3, EmptyIsSeq
<1>4. ASSUME UserRestarts PROVE NoClose'
  <2>1. iopub' = <<>> \/ iopub' = <<[type |-> "idle"]>>
    BY <1>4 DEF UserRestarts
  <2> DEFINE m == [type |-> "idle"]
  <2>2. m.type = "idle"
    OBVIOUS
  <2> HIDE DEF m
  <2>3. CASE iopub' = <<m>>
    <3>1. Len(iopub') = 1 /\ iopub'[1] = m
      BY <2>3, SingleIsSeq
    <3> QED BY <2>2, <3>1
  <2> QED BY <1>3, <2>1, <2>3 DEF m
<1>5. ASSUME Broadcast, kind' = kind PROVE NoClose'
  BY <1>0, <1>1, <1>5, BroadcastOn
<1>6. ASSUME kind' = kind, iopub' = iopub PROVE NoClose'
  BY <1>6
<1>7. ASSUME KernelIdle PROVE NoClose'
  <2> DEFINE m == [type |-> "idle"]
  <2>1. m.type # "close"
    OBVIOUS
  <2>2. iopub' = Append(iopub, m) /\ kind' = kind
    BY <1>7 DEF KernelIdle
  <2> HIDE DEF m
  <2> QED BY <1>0, <1>1, <2>1, <2>2, SignalsAppend
<1>8. ASSUME ServerRestarts PROVE NoClose'
  <2> DEFINE m == [type |-> "restarting", of |-> incarnation]
  <2>1. m.type # "close"
    OBVIOUS
  <2>2. iopub' = Append(iopub, m) /\ kind' = kind
    BY <1>8 DEF ServerRestarts
  <2> HIDE DEF m
  <2> QED BY <1>0, <1>1, <2>1, <2>2, SignalsAppend
<1>9. \/ kind' = kind /\ (iopub' = iopub \/ SignalsTail \/ Broadcast)
      \/ iopub' = <<>> \/ UserRestarts \/ KernelIdle \/ ServerRestarts \/ kind' # "nbdsl"
  BY DEF Next, User, Browser, Server, Load, Edit, PanelOpens, PanelCloses, Run, ChangeKernel,
    PanelReady, TimerFires, RestartArrives, IdleArrives, StatusArrives, CloseArrives,
    DocumentHandled, DocumentRefused, ExecuteHandled, KernelDies, AtRest, kernelVars, vars,
    SignalsTail
<1> QED BY <1>2, <1>3, <1>4, <1>5, <1>6, <1>7, <1>8, <1>9

\* The notices after a step of the kernel, which deals with no signal.
LEMMA NoticesOn ==
  ASSUME Notices, SignalsOn, seen' = seen, incarnation' = incarnation, up' = up,
         \A m : NewSignal(m) => m.type # "restarting",
         \/ greeted' = greeted
         \/ up /\ \E m : NewSignal(m) /\ m.type = "idle"
  PROVE  Notices'
<1>0. Len(iopub) \in Nat /\ Len(iopub') \in Nat
  BY DEF SignalsOn, IsSeq
<1>1. ASSUME NEW i \in 1 .. Len(iopub'), iopub'[i].type = "restarting"
      PROVE  i \in 1 .. Len(iopub) /\ iopub'[i] = iopub[i]
  <2>1. CASE i \in 1 .. Len(iopub)
    BY <2>1 DEF SignalsOn
  <2>2. CASE i \notin 1 .. Len(iopub)
    <3>1. i \in Len(iopub) + 1 .. Len(iopub')
      BY <1>0, <2>2
    <3>2. NewSignal(iopub'[i])
      BY <3>1 DEF NewSignal
    <3> QED BY <1>1, <3>2
  <2> QED BY <2>1, <2>2
<1>2. \A i \in 1 .. Len(iopub) : i \in 1 .. Len(iopub') /\ iopub'[i] = iopub[i]
  BY <1>0 DEF SignalsOn
<1>3. IF seen' = incarnation'
      THEN up' /\ \A i \in 1 .. Len(iopub') : iopub'[i].type # "restarting"
      ELSE ~up' \/ \E i \in 1 .. Len(iopub') :
             iopub'[i].type = "restarting" /\ iopub'[i].of = incarnation'
  BY <1>1, <1>2 DEF Notices
<1>4. ~up' => ~greeted'
  BY DEF Notices
<1>5. ASSUME NEW i \in 1 .. Len(iopub'), iopub'[i].type = "restarting", iopub'[i].of = incarnation'
      PROVE  /\ up' /\ \A j \in i + 1 .. Len(iopub') : iopub'[j].type # "restarting"
             /\ ~greeted' \/ \E j \in i + 1 .. Len(iopub') : iopub'[j].type = "idle"
  <2>1. i \in 1 .. Len(iopub) /\ iopub[i].type = "restarting" /\ iopub[i].of = incarnation
    BY <1>1, <1>5
  <2>2. /\ up /\ \A j \in i + 1 .. Len(iopub) : iopub[j].type # "restarting"
        /\ ~greeted \/ \E j \in i + 1 .. Len(iopub) : iopub[j].type = "idle"
    BY <2>1 DEF Notices
  <2>3. ASSUME NEW j \in i + 1 .. Len(iopub'), iopub'[j].type = "restarting" PROVE FALSE
    <3>1. j \in 1 .. Len(iopub')
      BY <1>0
    <3>2. j \in 1 .. Len(iopub) /\ iopub'[j] = iopub[j]
      BY <1>1, <2>3, <3>1
    <3> QED BY <2>2, <2>3, <3>2
  <2>4. CASE greeted' = greeted
    <3>1. \A j \in i + 1 .. Len(iopub) : j \in i + 1 .. Len(iopub') /\ iopub'[j] = iopub[j]
      BY <1>0, <1>2
    <3> QED BY <2>2, <2>3, <2>4, <3>1
  <2>5. ASSUME NEW m, NewSignal(m), m.type = "idle"
        PROVE  \E j \in i + 1 .. Len(iopub') : iopub'[j].type = "idle"
    <3>1. PICK j \in Len(iopub) + 1 .. Len(iopub') : iopub'[j] = m
      BY <2>5 DEF NewSignal
    <3>2. j \in i + 1 .. Len(iopub')
      BY <1>0, <2>1
    <3> QED BY <2>5, <3>1, <3>2
  <2> QED BY <2>2, <2>3, <2>4, <2>5
<1> QED BY <1>3, <1>4, <1>5 DEF Notices

\* The notices after the panels have dealt with a signal.
LEMMA NoticesTail ==
  ASSUME Notices, IsSeq(iopub), SignalsTail, UNCHANGED <<up, greeted, incarnation>>,
         IF Head(iopub).type = "restarting" THEN seen' = Head(iopub).of ELSE seen' = seen
  PROVE  Notices'
<1>1. /\ Len(iopub) \in Nat \ {0} /\ Len(iopub') = Len(iopub) - 1 /\ Head(iopub) = iopub[1]
      /\ \A j \in 1 .. Len(iopub) - 1 : iopub'[j] = iopub[j + 1]
  BY TailOf DEF SignalsTail
<1>2. ~up' => ~greeted'
  BY DEF Notices
<1>3. ASSUME NEW i \in 1 .. Len(iopub'), iopub'[i].type = "restarting", iopub'[i].of = incarnation'
      PROVE  /\ up' /\ \A j \in i + 1 .. Len(iopub') : iopub'[j].type # "restarting"
             /\ ~greeted' \/ \E j \in i + 1 .. Len(iopub') : iopub'[j].type = "idle"
  <2>1. i + 1 \in 1 .. Len(iopub) /\ iopub'[i] = iopub[i + 1]
    BY <1>1
  <2>2. /\ up /\ \A j \in (i + 1) + 1 .. Len(iopub) : iopub[j].type # "restarting"
        /\ ~greeted \/ \E j \in (i + 1) + 1 .. Len(iopub) : iopub[j].type = "idle"
    BY <1>3, <2>1 DEF Notices
  <2>3. \A j \in i + 1 .. Len(iopub') : j + 1 \in (i + 1) + 1 .. Len(iopub) /\ iopub'[j] = iopub[j + 1]
    BY <1>1
  <2>4. ASSUME NEW j \in (i + 1) + 1 .. Len(iopub), iopub[j].type = "idle"
        PROVE  \E q \in i + 1 .. Len(iopub') : iopub'[q].type = "idle"
    <3>1. j - 1 \in i + 1 .. Len(iopub') /\ iopub'[j - 1] = iopub[j]
      BY <1>1
    <3> QED BY <2>4, <3>1
  <2> QED BY <2>2, <2>3, <2>4
<1>4. \A i \in 1 .. Len(iopub') : i + 1 \in 2 .. Len(iopub) /\ iopub'[i] = iopub[i + 1]
  BY <1>1
<1>5. CASE Head(iopub).type = "restarting"
  <2>1. seen' = iopub[1].of /\ iopub[1].type = "restarting" /\ 1 \in 1 .. Len(iopub)
    BY <1>1, <1>5
  <2>2. seen # incarnation
    BY <2>1 DEF Notices
  <2>3. CASE seen' = incarnation
    <3>1. up /\ \A j \in 1 + 1 .. Len(iopub) : iopub[j].type # "restarting"
      BY <2>1, <2>3 DEF Notices
    <3>2. up' /\ \A i \in 1 .. Len(iopub') : iopub'[i].type # "restarting"
      BY <1>4, <3>1
    <3> QED BY <1>2, <1>3, <2>3, <3>2 DEF Notices
  <2>4. CASE seen' # incarnation
    <3>1. ~up \/ \E i \in 1 .. Len(iopub) : iopub[i].type = "restarting" /\ iopub[i].of = incarnation
      BY <2>2 DEF Notices
    <3>2. ASSUME NEW i \in 1 .. Len(iopub), iopub[i].type = "restarting", iopub[i].of = incarnation
          PROVE  \E j \in 1 .. Len(iopub') : iopub'[j].type = "restarting" /\ iopub'[j].of = incarnation
      <4>1. i # 1
        BY <2>1, <2>4, <3>2
      <4>2. i - 1 \in 1 .. Len(iopub') /\ iopub'[i - 1] = iopub[i]
        BY <1>1, <4>1
      <4> QED BY <3>2, <4>2
    <3> QED BY <1>2, <1>3, <2>4, <3>1, <3>2 DEF Notices
  <2> QED BY <2>3, <2>4
<1>6. CASE Head(iopub).type # "restarting"
  <2>1. seen' = seen
    BY <1>6
  <2>2. CASE seen = incarnation
    <3>1. up' /\ \A i \in 1 .. Len(iopub') : iopub'[i].type # "restarting"
      BY <1>1, <1>4, <2>2 DEF Notices
    <3> QED BY <1>2, <1>3, <2>1, <2>2, <3>1 DEF Notices
  <2>3. CASE seen # incarnation
    <3>1. ~up \/ \E i \in 1 .. Len(iopub) : iopub[i].type = "restarting" /\ iopub[i].of = incarnation
      BY <2>3 DEF Notices
    <3>2. ASSUME NEW i \in 1 .. Len(iopub), iopub[i].type = "restarting", iopub[i].of = incarnation
          PROVE  \E j \in 1 .. Len(iopub') : iopub'[j].type = "restarting" /\ iopub'[j].of = incarnation
      <4>1. i # 1
        BY <1>1, <1>6, <3>2
      <4>2. i - 1 \in 1 .. Len(iopub') /\ iopub'[i - 1] = iopub[i]
        BY <1>1, <4>1
      <4> QED BY <3>2, <4>2
    <3> QED BY <1>2, <1>3, <2>1, <2>3, <3>1, <3>2 DEF Notices
  <2> QED BY <2>2, <2>3
<1> QED BY <1>5, <1>6

\* The notices after any step.
LEMMA NoticesStep ==
  ASSUME ExecutionInv, Notices, [Next]_vars PROVE Notices'
<1>0. IsSeq(iopub) /\ Comms' /\ incarnation \in Nat /\ seen \in Nat /\ seen <= incarnation
  BY NextComms DEF ExecutionInv, Signals, Processes
<1>1. ASSUME UNCHANGED <<seen, incarnation, up, greeted, iopub>> PROVE Notices'
  BY <1>1 DEF Notices
<1>2. ASSUME NEW k, ChangeKernel(k) PROVE Notices'
  <2>1. iopub' = <<>> /\ seen' = incarnation' /\ up' = TRUE
    BY <1>2 DEF ChangeKernel, NewKernel
  <2> QED BY <2>1, EmptyIsSeq DEF Notices
<1>3. CASE UserRestarts
  <2>1. /\ iopub' = <<>> \/ iopub' = <<[type |-> "idle"]>>
        /\ seen' = incarnation' /\ up' = TRUE
    BY <1>3 DEF UserRestarts, NewKernel
  <2> DEFINE m == [type |-> "idle"]
  <2>2. m.type = "idle"
    OBVIOUS
  <2> HIDE DEF m
  <2>3. \A i \in 1 .. Len(iopub') : iopub'[i].type # "restarting"
    <3>1. CASE iopub' = <<>>
      BY <3>1, EmptyIsSeq
    <3>2. CASE iopub' = <<m>>
      <4>1. Len(iopub') = 1 /\ iopub'[1] = m
        BY <3>2, SingleIsSeq
      <4> QED BY <2>2, <4>1
    <3> QED BY <2>1, <3>1, <3>2 DEF m
  <2> QED BY <2>1, <2>3 DEF Notices
<1>4. CASE KernelDies
  <2>1. /\ iopub' = iopub /\ seen' = seen /\ incarnation' = incarnation + 1
        /\ up' = FALSE /\ greeted' = FALSE
    BY <1>4 DEF KernelDies, NewKernel
  <2>2. \A i \in 1 .. Len(iopub') : iopub'[i].type = "restarting" => iopub'[i].of # incarnation'
    <3>1. \A i \in 1 .. Len(iopub) :
            iopub[i].type = "restarting" => iopub[i].of \in Nat /\ iopub[i].of <= incarnation
      BY DEF ExecutionInv, Signals
    <3> QED BY <1>0, <2>1, <3>1
  <2>3. seen' # incarnation'
    BY <1>0, <2>1
  <2> QED BY <2>1, <2>2, <2>3 DEF Notices
<1>5. CASE ServerRestarts
  <2> DEFINE m == [type |-> "restarting", of |-> incarnation]
  <2>1. m.type = "restarting" /\ m.of = incarnation
    OBVIOUS
  <2>2. /\ iopub' = Append(iopub, m) /\ ~up /\ up' = TRUE
        /\ UNCHANGED <<seen, incarnation, greeted>>
    BY <1>5 DEF ServerRestarts
  <2> HIDE DEF m
  <2>3. /\ Len(iopub') = Len(iopub) + 1 /\ Len(iopub) \in Nat
        /\ \A i \in 1 .. Len(iopub) : iopub'[i] = iopub[i]
        /\ iopub'[Len(iopub) + 1] = m
    BY <1>0, <2>2, AppendIsSeq DEF IsSeq
  <2>4. seen # incarnation /\ ~greeted
    BY <2>2 DEF Notices
  <2>5. Len(iopub) + 1 \in 1 .. Len(iopub')
    BY <2>3
  <2>6. \E i \in 1 .. Len(iopub') : iopub'[i].type = "restarting" /\ iopub'[i].of = incarnation'
    BY <2>1, <2>2, <2>3, <2>5
  <2>7. ASSUME NEW i \in 1 .. Len(iopub'), iopub'[i].type = "restarting", iopub'[i].of = incarnation'
        PROVE  \A j \in i + 1 .. Len(iopub') : iopub'[j].type # "restarting"
    <3>1. CASE i \in 1 .. Len(iopub)
      BY <2>2, <2>3, <2>7, <3>1 DEF Notices
    <3>2. CASE i = Len(iopub) + 1
      BY <2>3, <3>2
    <3> QED BY <2>3, <3>1, <3>2
  <2> QED BY <2>2, <2>4, <2>6, <2>7 DEF Notices
<1>6. CASE KernelIdle
  <2> DEFINE m == [type |-> "idle"]
  <2>1. m.type = "idle"
    OBVIOUS
  <2>2. iopub' = Append(iopub, m) /\ up /\ UNCHANGED <<seen, incarnation, up>>
    BY <1>6 DEF KernelIdle
  <2> HIDE DEF m
  <2>3. SignalsOn /\ NewSignal(m) /\ \A x : NewSignal(x) => x = m
    BY <1>0, <2>2, SignalsAppend
  <2> QED BY <2>1, <2>2, <2>3, NoticesOn
<1>7. ASSUME Broadcast, UNCHANGED <<seen, incarnation, up, greeted>> PROVE Notices'
  <2>1. SignalsOn /\ \A m : NewSignal(m) => m.type # "restarting"
    BY <1>0, <1>7, BroadcastOn
  <2> QED BY <1>7, <2>1, NoticesOn
<1>8. CASE DocumentRefused
  <2>0. UNCHANGED <<seen, incarnation, up, greeted>>
    BY <1>8 DEF DocumentRefused, kernelVars
  <2> DEFINE m == [type |-> "close", comm |-> Head(shell).comm]
  <2>1. m.type # "restarting"
    OBVIOUS
  <2>2. iopub' = Append(iopub, m) \/ iopub' = iopub
    BY <1>8 DEF DocumentRefused
  <2> HIDE DEF m
  <2>3. CASE iopub' = Append(iopub, m)
    <3>1. SignalsOn /\ NewSignal(m) /\ \A x : NewSignal(x) => x = m
      BY <1>0, <2>3, SignalsAppend
    <3> QED BY <2>0, <2>1, <3>1, NoticesOn
  <2> QED BY <1>1, <2>0, <2>2, <2>3
<1>9. ASSUME SignalsTail, UNCHANGED <<up, greeted, incarnation>>,
             IF Head(iopub).type = "restarting" THEN seen' = Head(iopub).of ELSE seen' = seen
      PROVE  Notices'
  BY <1>0, <1>9, NoticesTail
<1>10. CASE DocumentHandled \/ ExecuteHandled
  BY <1>1, <1>7, <1>10 DEF DocumentHandled, ExecuteHandled
<1>11. CASE RestartArrives \/ IdleArrives \/ StatusArrives \/ CloseArrives
  BY <1>9, <1>11, Zenon DEF RestartArrives, IdleArrives, StatusArrives, CloseArrives, IsStatus, SignalsTail,
    kernelVars
<1>12. CASE Load \/ (\E n \in Notebooks : Edit(n)) \/ (\E p \in Panels : PanelOpens(p) \/ PanelCloses(p))
  BY <1>1, <1>12, Zenon DEF Load, Edit, PanelOpens, PanelCloses, kernelVars
<1>13. CASE \E p \in Panels : PanelReady(p) \/ TimerFires(p) \/ \E k \in DOMAIN cells : Run(p, k)
  BY <1>1, <1>13, Zenon DEF PanelReady, TimerFires, Run, kernelVars
<1>14. CASE AtRest \/ UNCHANGED vars
  BY <1>1, <1>14, Zenon DEF AtRest, vars
<1> QED BY <1>2, <1>3, <1>4, <1>5, <1>6, <1>8, <1>10, <1>11, <1>12, <1>13, <1>14
  DEF Next, User, Browser, Server

----------------------------------------------------------------------------
(* Agreement, action by action *)

\* A step after which every panel has what it had.
LEMMA AgreementKept ==
  ASSUME Agreement, UNCHANGED <<kind, seen, incarnation>>,
         \A p \in Panels : panel'[p] = "ready" =>
           /\ panel[p] = "ready"
           /\ timer[p] => timer'[p] \/ Settling(p)'
           /\ Settling(p) => Settling(p)'
           /\ Told(p) => Told(p)'
  PROVE  Agreement'
<1> SUFFICES ASSUME kind = "nbdsl", seen = incarnation, NEW p \in Panels, panel'[p] = "ready"
             PROVE  timer'[p] \/ Settling(p)' \/ Told(p)'
  BY AgreementNext
<1>1. timer[p] \/ Settling(p) \/ Told(p)
  BY AgreementIs
<1> QED BY <1>1

\* No request is new.
LEMMA ShellSame == ASSUME IsSeq(shell), shell' = shell PROVE Longer
<1>1. \A i \in Len(shell) + 1 .. Len(shell) : FALSE
  BY DEF IsSeq
<1> QED BY <1>1 DEF Longer, IsSeq

\* A panel that waits for an idle still waits, or it has come behind the others.
LEMMA SettlingOn ==
  ASSUME SignalsOn, NEW p, restarting'[p] = restarting[p],
         greeted' = greeted \/ \E m : NewSignal(m) /\ m.type = "idle",
         Settling(p)
  PROVE  Settling(p)'
<1>1. Len(iopub) \in Nat /\ Len(iopub') \in Nat
  BY DEF SignalsOn, IsSeq
<1>2. ASSUME NEW i \in 1 .. Len(iopub'), iopub'[i].type = "idle" PROVE Settling(p)'
  BY <1>2 DEF Settling
<1>3. ASSUME NEW i \in 1 .. Len(iopub), iopub[i].type = "idle" PROVE Settling(p)'
  <2>1. i \in 1 .. Len(iopub') /\ iopub'[i] = iopub[i]
    BY <1>1 DEF SignalsOn
  <2> QED BY <1>2, <1>3, <2>1
<1>4. ASSUME NEW m, NewSignal(m), m.type = "idle" PROVE Settling(p)'
  <2>1. PICK i \in Len(iopub) + 1 .. Len(iopub') : iopub'[i] = m
    BY <1>4 DEF NewSignal
  <2>2. i \in 1 .. Len(iopub')
    BY <1>1
  <2> QED BY <1>2, <1>4, <2>1, <2>2
<1>5. CASE ~greeted /\ greeted' = greeted
  BY <1>5 DEF Settling
<1> QED BY <1>3, <1>4, <1>5 DEF Settling

\* ... and is still under way when another signal is dealt with.
LEMMA SettlingTail ==
  ASSUME IsSeq(iopub), SignalsTail, Head(iopub).type # "idle", NEW p,
         restarting'[p] = restarting[p], greeted' = greeted, Settling(p)
  PROVE  Settling(p)'
<1>1. /\ Len(iopub) \in Nat \ {0} /\ Len(iopub') = Len(iopub) - 1 /\ Head(iopub) = iopub[1]
      /\ \A j \in 1 .. Len(iopub) - 1 : iopub'[j] = iopub[j + 1]
  BY TailOf DEF SignalsTail
<1>2. ASSUME NEW i \in 1 .. Len(iopub), iopub[i].type = "idle"
      PROVE  \E j \in 1 .. Len(iopub') : iopub'[j].type = "idle"
  <2>1. i # 1
    BY <1>1, <1>2
  <2>2. i - 1 \in 1 .. Len(iopub') /\ iopub'[i - 1] = iopub[i]
    BY <1>1, <2>1
  <2> QED BY <1>2, <2>2
<1> QED BY <1>2 DEF Settling

\* A step of the user or of the server that sends nothing: what p has sent and
\* what it will be shown remain.
LEMMA IdleStep ==
  ASSUME ExecutionInv, SignalsOn, \A m : NewSignal(m) => m.type # "status", shell' = shell,
         UNCHANGED <<cells, comms, kdoc, last, live>>,
         NEW p, comm'[p] = comm[p], marks'[p] = marks[p]
  PROVE  Told(p) => Told(p)'
<1>1. Longer
  BY ShellSame DEF ExecutionInv, Requests
<1>2. SameComms(p)
  BY DEF SameComms
<1>3. \A i \in Len(iopub) + 1 .. Len(iopub') : iopub'[i].type # "status"
  BY DEF NewSignal
<1>4. Shown(p) => Shown(p)'
  BY <1>2, <1>3, ShownOn DEF SignalsOn
<1> QED BY <1>1, <1>4, ToldOn

\* The handlers that send: context.ready, the timer, a run, the idle after a restart.
LEMMA AgreementSend ==
  ASSUME FrontendAssumption, Types, ExecutionInv, SettleInv,
         \/ \E p \in Panels : PanelReady(p) \/ TimerFires(p) \/ \E k \in DOMAIN cells : Run(p, k)
         \/ IdleArrives
  PROVE  Agreement'
<1> USE DEF SettleInv
<1>1. IsSeq(<<>>) /\ \A i \in 1 .. Len(<<>>) : <<>>[i].type # "document"
  BY EmptyIsSeq
<1>2. ASSUME UNCHANGED <<restarting, greeted, iopub>>, NEW p PROVE Settling(p) => Settling(p)'
  BY <1>2 DEF Settling
<1>3. ASSUME NEW p \in Panels, timer' = NoTimer({p}), NEW q \in Panels \ {p}, timer[q] PROVE timer'[q]
  <2>1. timer'[q] = timer[q]
    BY <1>3, Zenon DEF NoTimer
  <2> QED BY <1>3, <2>1, Zenon
<1>4. ASSUME NEW p \in Panels, PanelReady(p) PROVE Agreement'
  <2>1. /\ {p} \in SUBSET Panels /\ Send({p}, kind, comm, live, shell, <<>>) /\ iopub' = iopub
        /\ UNCHANGED <<kind, comms, kdoc, incarnation, seen, cells, last, marks>>
    BY <1>4 DEF PanelReady, notebookVars, kernelVars
  <2>2. \A q \in Panels : panel'[q] = "ready" =>
           panel[q] = "ready" \/ (q \in {p} /\ panel[q] = "tracked")
    BY <1>4 DEF PanelReady, Types, PanelType
  <2>3. \A q \in Panels \ {p} : timer[q] => timer'[q]
    BY <1>3, <1>4 DEF PanelReady
  <2>4. \A q \in Panels \ {p} : Settling(q) => Settling(q)'
    BY <1>2, <1>4 DEF PanelReady, kernelVars
  <2> QED BY <1>1, <2>1, <2>2, <2>3, <2>4, SendAgrees
<1>5. ASSUME NEW p \in Panels, TimerFires(p) PROVE Agreement'
  <2>1. /\ {p} \in SUBSET Panels /\ Send({p}, kind, comm, live, shell, <<>>) /\ iopub' = iopub
        /\ UNCHANGED <<kind, comms, kdoc, incarnation, seen, cells, last, marks>>
    BY <1>5 DEF TimerFires, notebookVars, kernelVars
  <2>2. \A q \in Panels : panel'[q] = "ready" => panel[q] = "ready"
    BY <1>5 DEF TimerFires
  <2>3. \A q \in Panels \ {p} : timer[q] => timer'[q]
    BY <1>3, <1>5 DEF TimerFires
  <2>4. \A q \in Panels \ {p} : Settling(q) => Settling(q)'
    BY <1>2, <1>5 DEF TimerFires, kernelVars
  <2> QED BY <1>1, <2>1, <2>2, <2>3, <2>4, SendAgrees
<1>6. ASSUME NEW p \in Panels, NEW k \in DOMAIN cells, Run(p, k) PROVE Agreement'
  <2> DEFINE m == ExecMsg(cells[k].id)
             after == IF kind = "none" THEN <<>> ELSE <<m>>
  <2>1. /\ {p} \in SUBSET Panels /\ Send({p}, kind, comm, live, shell, after) /\ iopub' = iopub
        /\ UNCHANGED <<kind, comms, kdoc, incarnation, seen, cells, last, marks>>
    BY <1>6 DEF Run, notebookVars, kernelVars
  <2>2. m.type = "execute"
    BY DEF ExecMsg
  <2> HIDE DEF m
  <2>3. IsSeq(after) /\ \A i \in 1 .. Len(after) : after[i].type # "document"
    <3>1. IsSeq(<<m>>) /\ Len(<<m>>) = 1 /\ <<m>>[1] = m
      BY SingleIsSeq
    <3> QED BY <1>1, <2>2, <3>1
  <2> HIDE DEF after
  <2>4. \A q \in Panels : panel'[q] = "ready" => panel[q] = "ready"
    BY <1>6 DEF Run
  <2>5. \A q \in Panels \ {p} : timer[q] => timer'[q]
    BY <1>3, <1>6 DEF Run
  <2>6. \A q \in Panels \ {p} : Settling(q) => Settling(q)'
    BY <1>2, <1>6 DEF Run, kernelVars
  <2> QED BY <2>1, <2>3, <2>4, <2>5, <2>6, SendAgrees
<1>7. ASSUME IdleArrives PROVE Agreement'
  <2> DEFINE S == {p \in Panels : restarting[p]}
  <2>1. /\ S \in SUBSET Panels /\ Send(S, kind, comm, live, shell, <<>>)
        /\ UNCHANGED <<kind, comms, kdoc, incarnation, seen, cells, last, marks, panel>>
        /\ timer' = NoTimer(S)
    BY <1>7 DEF IdleArrives, notebookVars, kernelVars
  <2>2. iopub # <<>> /\ Head(iopub).type # "status" /\ iopub' = Tail(iopub)
    BY <1>7 DEF IdleArrives
  <2>3. \A q \in Panels \ S : ~Settling(q)
    BY DEF Settling
  <2>4. ASSUME NEW q \in Panels \ S, timer[q] PROVE timer'[q]
    <3>1. timer'[q] = timer[q]
      BY <2>1, Zenon DEF NoTimer
    <3> QED BY <2>4, <3>1, Zenon
  <2> HIDE DEF S
  <2> QED BY <1>1, <2>1, <2>2, <2>3, <2>4, SendAgrees
<1> QED BY <1>4, <1>5, <1>6, <1>7

\* Another kernel: every panel sends to it.
LEMMA AgreementSwitch ==
  ASSUME FrontendAssumption, Types, ExecutionInv, SettleInv, NEW k, ChangeKernel(k)
  PROVE  Agreement'
<1>1. /\ Send(Panels, k, NoComm, {}, <<>>, <<>>) /\ comms' = {} /\ kind' = k
      /\ cells' = cells /\ panel' = panel
  BY DEF ChangeKernel, NewKernel, notebookVars
<1>2. IsSeq(<<>>) /\ Len(<<>>) = 0
  BY EmptyIsSeq
<1>3. PICK n \in Nat : /\ SentAs(n, Panels, k, NoComm, {}, <<>>, <<>>)
                       /\ SentBy(n, Panels, k, NoComm, {}, <<>>)
  <2>1. Panels \in SUBSET Panels
    OBVIOUS
  <2> QED BY <1>1, <1>2, <2>1, Sent
<1>4. Len(shell') = n /\ \A i \in 1 .. n : shell'[i].type = "document" /\ shell'[i].cells = Document
  <2>1. /\ Len(shell') = Len(<<>>) + n + Len(<<>>)
        /\ \A i \in 1 .. n : /\ shell'[Len(<<>>) + i].type = "document"
                             /\ shell'[Len(<<>>) + i].cells = Document
    BY <1>3 DEF SentAs
  <2>2. \A i \in 1 .. n : Len(<<>>) + i = i
    BY <1>2
  <2> QED BY <1>2, <2>1, <2>2
<1>5. ASSUME k = "nbdsl", NEW p \in Panels, panel[p] = "ready" PROVE Told(p)'
  <2>1. Sender(p, Panels, k)
    BY <1>5 DEF Sender
  <2>2. PICK c : SentOn(p, c, n, NoComm, {}, <<>>)
    BY <1>3, <2>1 DEF SentBy
  <2>3. comm'[p] = {c} /\ c \in live'
    BY <2>2 DEF SentOn
  <2>4. PICK i \in 1 .. n : /\ shell'[Len(<<>>) + i].comm = c
                            /\ shell'[Len(<<>>) + i].opens \/ c \in NoComm[p] \cap {}
    BY <2>2 DEF SentOn
  <2>5. Len(<<>>) + i = i
    BY <1>2
  <2>6. shell'[i].comm = c /\ shell'[i].opens /\ shell'[i].type = "document"
    BY <1>4, <2>4, <2>5
  <2>7. \A j \in i .. Len(shell') : shell'[j].type = "document" => shell'[j].cells = Document'
    BY <1>1, <1>4, DocumentKept
  <2>8. Underway(c)'
    <3>1. i \in 1 .. Len(shell') /\ i \in 1 .. i
      BY <1>4
    <3> QED BY <2>6, <2>7, <3>1, UnderwayIs
  <2> QED BY <2>3, <2>8 DEF Told
<1> QED BY <1>1, <1>5, AgreementNext

\* The user restarts the kernel: its panels wait for the "idle".
LEMMA AgreementRestart ==
  ASSUME SettleInv, UserRestarts
  PROVE  Agreement'
<1>1. panel' = panel /\ greeted' = FALSE /\ restarting' = [p \in Panels |-> panel[p] # "absent"]
  BY DEF UserRestarts, NewKernel, Restarting
<1>2. ASSUME NEW p \in Panels, panel'[p] = "ready" PROVE Settling(p)'
  <2>1. restarting'[p] = (panel[p] # "absent")
    BY <1>1, Zenon
  <2>2. restarting'[p]
    BY <1>1, <1>2, <2>1, Zenon
  <2> QED BY <1>1, <2>2, Zenon DEF Settling
<1> QED BY <1>2, AgreementNext

\* A restart by the server is announced.
LEMMA AgreementAnnounced ==
  ASSUME ExecutionInv, SettleInv, RestartArrives
  PROVE  Agreement'
<1>1. /\ panel' = panel /\ greeted' = greeted /\ incarnation' = incarnation
      /\ seen' = Head(iopub).of
      /\ restarting' = [p \in Panels |-> panel[p] # "absent"]
      /\ SignalsTail /\ Head(iopub).type = "restarting"
  BY DEF RestartArrives, Restarting, kernelVars, SignalsTail
<1>2. /\ Len(iopub) \in Nat \ {0} /\ Len(iopub') = Len(iopub) - 1 /\ Head(iopub) = iopub[1]
      /\ \A j \in 1 .. Len(iopub) - 1 : iopub'[j] = iopub[j + 1]
  BY <1>1, TailOf DEF SignalsTail, ExecutionInv, Signals
<1>3. ASSUME seen' = incarnation', NEW p \in Panels, panel'[p] = "ready" PROVE Settling(p)'
  <2>1. restarting'[p]
    <3>1. restarting'[p] = (panel[p] # "absent")
      BY <1>1, Zenon
    <3> QED BY <1>1, <1>3, <3>1, Zenon
  <2>2. ~greeted \/ \E j \in 1 + 1 .. Len(iopub) : iopub[j].type = "idle"
    <3>1. 1 \in 1 .. Len(iopub) /\ iopub[1].type = "restarting" /\ iopub[1].of = incarnation
      BY <1>1, <1>2, <1>3
    <3> QED BY <3>1 DEF SettleInv, Notices
  <2>3. ASSUME NEW j \in 1 + 1 .. Len(iopub), iopub[j].type = "idle"
        PROVE  \E i \in 1 .. Len(iopub') : iopub'[i].type = "idle"
    <3>1. j - 1 \in 1 .. Len(iopub') /\ iopub'[j - 1] = iopub[j]
      BY <1>2
    <3> QED BY <2>3, <3>1
  <2>4. ~greeted' \/ \E i \in 1 .. Len(iopub') : iopub'[i].type = "idle"
    BY <1>1, <2>2, <2>3
  <2> QED BY <2>1, <2>4, Zenon DEF Settling
<1> QED BY <1>3, AgreementNext

\* A status arrives: p is painted by it, or has nothing to do with it.
LEMMA AgreementStatus ==
  ASSUME Types, ExecutionInv, SettleInv, StatusArrives
  PROVE  Agreement'
<1> DEFINE m == Head(iopub)
<1>1. /\ SignalsTail /\ m.type = "status"
      /\ UNCHANGED <<panel, comm, timer, restarting, live, kind, greeted, comms, kdoc, last, shell,
                     incarnation, seen, cells>>
  BY DEF StatusArrives, IsStatus, SignalsTail, notebookVars, commVars, kernelVars
<1>2. marks' = IF m.comm \in live /\ panel[m.comm[1]] # "closed"
               THEN [marks EXCEPT ![m.comm[1]] = Painted(@, m.stale)] ELSE marks
  BY DEF StatusArrives
<1>3. IsSeq(shell) /\ IsSeq(iopub) /\ Longer
  BY <1>1, ShellSame DEF ExecutionInv, Requests, Signals
<1>4. marks \in [Panels -> SUBSET Ids]
  BY DEF Types, PanelType
<1> HIDE DEF m
<1>5. ASSUME NEW p \in Panels, panel[p] = "ready" PROVE Told(p) => Told(p)'
  <2>1. IF Paints(m, p) THEN marks'[p] = m.stale \cap CellIds(cells) ELSE marks'[p] = marks[p]
    <3>1. CASE Paints(m, p)
      <4>1. m.comm \in live /\ m.comm[1] = p
        BY <3>1 DEF Paints
      <4>2. marks' = [marks EXCEPT ![p] = Painted(@, m.stale)]
        BY <1>2, <1>5, <4>1
      <4> QED BY <1>4, <3>1, <4>2 DEF Painted
    <3>2. CASE ~Paints(m, p)
      <4>1. m.comm \in live => m.comm[1] # p
        BY <1>1, <3>2 DEF Paints
      <4>2. marks' = marks \/ (m.comm[1] # p /\ marks' = [marks EXCEPT ![m.comm[1]] = Painted(@, m.stale)])
        BY <1>2, <4>1
      <4> QED BY <1>4, <3>2, <4>2
    <3> QED BY <3>1, <3>2
  <2>2. SameComms(p)
    BY <1>1 DEF SameComms
  <2>3. Shown(p) => Shown(p)'
    BY <1>1, <1>3, <2>1, <2>2, ShownTail DEF SignalsTail, m
  <2> QED BY <1>1, <1>3, <2>3, ToldOn
<1>6. ASSUME NEW p \in Panels PROVE Settling(p) => Settling(p)'
  BY <1>1, <1>3, SettlingTail DEF m
<1> QED BY <1>1, <1>5, <1>6, AgreementKept DEF SettleInv

\* The kernel has dealt with a request: what is under way behind it still is.
LEMMA CurrentTail ==
  ASSUME IsSeq(shell), shell # <<>>, shell' = Tail(shell), cells' = cells,
         NEW n \in Nat \ {0}, CurrentFrom(n)
  PROVE  \A j \in 1 .. Len(shell') : j >= n - 1 /\ shell'[j].type = "document" =>
           shell'[j].cells = Document'
<1>1. /\ Len(shell) \in Nat \ {0} /\ Len(shell') = Len(shell) - 1
      /\ \A j \in 1 .. Len(shell) - 1 : shell'[j] = shell[j + 1]
  BY TailOf
<1>2. ASSUME NEW j \in 1 .. Len(shell'), j >= n - 1, shell'[j].type = "document"
      PROVE  shell'[j].cells = Document
  <2>1. j + 1 \in n .. Len(shell) /\ shell'[j] = shell[j + 1]
    BY <1>1, <1>2
  <2> QED BY <1>2, <2>1 DEF CurrentFrom
<1> QED BY <1>2, DocumentKept

\* A document that was not the first request is still under way.
LEMMA UnderwayTail ==
  ASSUME IsSeq(shell), shell # <<>>, shell' = Tail(shell), cells' = cells, comms \subseteq comms',
         Head(shell).type = "document" /\ Head(shell).opens => Head(shell).comm \in comms',
         NEW c, NEW i \in 1 .. Len(shell), i # 1,
         shell[i].type = "document", shell[i].comm = c, c \in comms \/ Opened(c, i), CurrentFrom(i)
  PROVE  Underway(c)'
<1>1. /\ Len(shell) \in Nat \ {0} /\ Len(shell') = Len(shell) - 1 /\ Head(shell) = shell[1]
      /\ \A j \in 1 .. Len(shell) - 1 : shell'[j] = shell[j + 1]
  BY TailOf
<1> DEFINE m == i - 1
<1>2. m \in 1 .. Len(shell') /\ shell'[m] = shell[i]
  BY <1>1
<1>3. \A j \in m .. Len(shell') : shell'[j].type = "document" => shell'[j].cells = Document'
  <2>1. \A j \in 1 .. Len(shell') : j >= i - 1 /\ shell'[j].type = "document" =>
          shell'[j].cells = Document'
    <3>1. i \in Nat \ {0}
      OBVIOUS
    <3> QED BY <3>1, CurrentTail
  <2> QED BY <1>1, <2>1
<1>4. \/ c \in comms'
      \/ \E j \in 1 .. m : shell'[j].type = "document" /\ shell'[j].opens /\ shell'[j].comm = c
  <2>1. CASE Opened(c, i)
    <3>1. PICK j \in 1 .. i : shell[j].type = "document" /\ shell[j].opens /\ shell[j].comm = c
      BY <2>1 DEF Opened
    <3>2. CASE j = 1
      BY <1>1, <3>1, <3>2
    <3>3. CASE j # 1
      <4>1. j - 1 \in 1 .. m /\ shell'[j - 1] = shell[j]
        BY <1>1, <3>3
      <4> HIDE DEF m
      <4> QED BY <3>1, <4>1
    <3> QED BY <3>2, <3>3
  <2> QED BY <2>1
<1> HIDE DEF m
<1> QED BY <1>2, <1>3, <1>4, UnderwayIs

\* How the kernel shows that it agrees.
LEMMA AgreedIs ==
  ASSUME IsSeq(shell), shell # <<>>, shell' = Tail(shell), cells' = cells, CurrentFrom(1),
         NEW p, NEW c, c \in comms', kdoc' = Document,
         kdoc' # <<>> => Shown(p)'
  PROVE  Agreed(p, c)'
<1>1. CurrentFrom(1)'
  <2>1. \A j \in 1 .. Len(shell') : j >= 1 - 1 /\ shell'[j].type = "document" =>
          shell'[j].cells = Document'
    BY CurrentTail
  <2> QED BY <2>1 DEF CurrentFrom
<1>2. Document' = Document
  BY DocumentKept
<1> QED BY <1>1, <1>2 DEF Agreed

\* The kernel takes a document, or refuses it for want of its comm.
LEMMA AgreementDocument ==
  ASSUME FrontendAssumption, ExecutionInv, SettleInv, [Next]_vars, DocumentHandled
  PROVE  Agreement'
<1> DEFINE m == Head(shell)
<1>1. /\ shell # <<>> /\ shell' = Tail(shell) /\ m.type = "document"
      /\ comms' = IF m.opens THEN comms \cup {m.comm} ELSE comms
      /\ IF m.comm \in comms' THEN kdoc' = m.cells /\ Broadcast
         ELSE UNCHANGED <<kdoc, last, iopub>>
      /\ UNCHANGED <<cells, panel, comm, timer, restarting, marks, live, kind, greeted,
                     incarnation, seen>>
  BY DEF DocumentHandled, Handling, notebookVars, panelVars, commVars
<1>2. IsSeq(shell) /\ IsSeq(iopub) /\ Comms'
  BY NextComms DEF ExecutionInv, Requests, Signals
<1>3. /\ Len(shell) \in Nat \ {0} /\ m = shell[1]
  BY <1>1, <1>2, TailOf
<1>4. SignalsOn /\ \A x : NewSignal(x) => x.type = "status"
  BY <1>1, <1>2, BroadcastOn, SignalsSame
<1> HIDE DEF m
<1>5. comms \subseteq comms' /\ (m.opens => m.comm \in comms')
  BY <1>1
\* After the broadcast, p will show what it says.
<1>6. ASSUME NEW p \in Panels, NEW c \in comm[p] \cap live, c \in comms', m.comm \in comms',
             kdoc' # <<>>
      PROVE  Shown(p)'
  <2>1. c[1] = p /\ c \in live'
    BY <1>1, <1>6 DEF SettleInv, Views
  <2> QED BY <1>1, <1>2, <1>6, <2>1, ShownBroadcast
<1>7. ASSUME NEW p \in Panels, NEW c \in comm[p] \cap live, Underway(c) PROVE Told(p)'
  <2>1. PICK i \in 1 .. Len(shell) :
          /\ shell[i].type = "document" /\ shell[i].comm = c
          /\ c \in comms \/ Opened(c, i)
          /\ CurrentFrom(i)
    BY <1>7 DEF Underway
  <2>2. c \in comm'[p] \cap live'
    BY <1>1
  <2>3. CASE i = 1
    <3>1. m.comm = c /\ c \in comms'
      <4>1. m.comm = c
        BY <1>3, <2>1, <2>3
      <4>2. ASSUME Opened(c, 1) PROVE m.opens
        BY <1>3, <4>2 DEF Opened
      <4> QED BY <1>5, <2>1, <2>3, <4>1, <4>2
    <3>2. m.cells = Document
      <4>1. 1 \in 1 .. Len(shell)
        BY <1>3
      <4> QED BY <1>1, <1>3, <2>1, <2>3, <4>1 DEF CurrentFrom
    <3>3. Agreed(p, c)'
      BY <1>1, <1>2, <1>6, <2>1, <2>3, <3>1, <3>2, AgreedIs
    <3> QED BY <2>2, <3>3 DEF Told
  <2>4. CASE i # 1
    <3>1. Underway(c)'
      BY <1>1, <1>2, <1>5, <2>1, <2>4, UnderwayTail DEF m
    <3> QED BY <2>2, <3>1 DEF Told
  <2> QED BY <2>3, <2>4
<1>8. ASSUME NEW p \in Panels, NEW c \in comm[p] \cap live, Agreed(p, c) PROVE Told(p)'
  <2>1. c \in comm'[p] \cap live' /\ c \in comms'
    BY <1>1, <1>5, <1>8 DEF Agreed
  <2>2. CASE m.comm \in comms'
    <3>1. kdoc' = Document
      <4>1. 1 \in 1 .. Len(shell)
        BY <1>3
      <4>2. m.cells = Document
        BY <1>1, <1>3, <1>8, <4>1 DEF Agreed, CurrentFrom
      <4> QED BY <1>1, <2>2, <4>2
    <3>2. kdoc' # <<>> => Shown(p)'
      BY <1>6, <2>1, <2>2
    <3> QED BY <1>1, <1>2, <1>8, <2>1, <3>1, <3>2, AgreedIs DEF Agreed, Told
  <2>3. CASE m.comm \notin comms'
    <3>1. kdoc' = Document /\ last' = last /\ iopub' = iopub
      BY <1>1, <1>8, <2>3 DEF Agreed
    <3>2. \A i \in Len(iopub) + 1 .. Len(iopub') : iopub'[i].type # "status"
      BY <1>2, <3>1 DEF IsSeq
    <3>3. Shown(p) => Shown(p)'
      <4>1. SameComms(p)
        BY <1>1 DEF SameComms
      <4> QED BY <1>1, <1>4, <3>1, <3>2, <4>1, ShownOn DEF SignalsOn
    <3>4. kdoc' # <<>> => Shown(p)'
      BY <1>8, <3>1, <3>3 DEF Agreed
    <3> QED BY <1>1, <1>2, <1>8, <2>1, <3>1, <3>4, AgreedIs DEF Agreed, Told
  <2> QED BY <2>2, <2>3
<1>9. ASSUME NEW p \in Panels PROVE Settling(p) => Settling(p)'
  BY <1>1, <1>4, SettlingOn
<1>10. ASSUME NEW p \in Panels PROVE Told(p) => Told(p)'
  BY <1>7, <1>8 DEF Told
<1> QED BY <1>1, <1>9, <1>10, AgreementKept DEF SettleInv

\* The kernel runs a cell, and may broadcast.
LEMMA AgreementExecute ==
  ASSUME FrontendAssumption, ExecutionInv, SettleInv, [Next]_vars, ExecuteHandled
  PROVE  Agreement'
<1>1. /\ shell # <<>> /\ shell' = Tail(shell) /\ Head(shell).type = "execute"
      /\ comms' = comms /\ kdoc' = kdoc
      /\ Broadcast \/ UNCHANGED <<last, iopub>>
      /\ UNCHANGED <<cells, panel, comm, timer, restarting, marks, live, kind, greeted,
                     incarnation, seen>>
  BY DEF ExecuteHandled, Handling, notebookVars, panelVars, commVars
<1>2. IsSeq(shell) /\ IsSeq(iopub) /\ Comms'
  BY NextComms DEF ExecutionInv, Requests, Signals
<1>3. Len(shell) \in Nat \ {0} /\ Head(shell) = shell[1]
  BY <1>1, <1>2, TailOf
<1>4. SignalsOn
  BY <1>1, <1>2, BroadcastOn, SignalsSame
<1>5. ASSUME NEW p \in Panels, NEW c \in comm[p] \cap live, Underway(c) PROVE Told(p)'
  <2>1. PICK i \in 1 .. Len(shell) :
          /\ shell[i].type = "document" /\ shell[i].comm = c
          /\ c \in comms \/ Opened(c, i)
          /\ CurrentFrom(i)
    BY <1>5 DEF Underway
  <2>2. i # 1
    BY <1>1, <1>3, <2>1
  <2>3. Underway(c)'
    BY <1>1, <1>2, <2>1, <2>2, UnderwayTail
  <2> QED BY <1>1, <2>3 DEF Told
<1>6. ASSUME NEW p \in Panels, NEW c \in comm[p] \cap live, Agreed(p, c) PROVE Told(p)'
  <2>1. c \in comms' /\ c \in live' /\ c[1] = p /\ c \in comm'[p]
    BY <1>1, <1>6 DEF Agreed, SettleInv, Views
  <2>2. kdoc' = Document /\ (Document # <<>> => Shown(p))
    BY <1>1, <1>6 DEF Agreed
  <2>3. kdoc' # <<>> => Shown(p)'
    <3>1. CASE Broadcast
      BY <1>2, <2>1, <3>1, ShownBroadcast
    <3>2. CASE UNCHANGED <<last, iopub>>
      <4>1. \A i \in Len(iopub) + 1 .. Len(iopub') : iopub'[i].type # "status"
        BY <1>2, <3>2 DEF IsSeq
      <4>2. SameComms(p)
        BY <1>1 DEF SameComms
      <4>3. Shown(p) => Shown(p)'
        BY <1>1, <1>4, <3>2, <4>1, <4>2, ShownOn DEF SignalsOn
      <4> QED BY <2>2, <4>3
    <3> QED BY <1>1, <3>1, <3>2
  <2>4. Agreed(p, c)'
    BY <1>1, <1>2, <1>6, <2>1, <2>2, <2>3, AgreedIs DEF Agreed
  <2> QED BY <2>1, <2>4 DEF Told
<1>7. ASSUME NEW p \in Panels PROVE Settling(p) => Settling(p)'
  BY <1>1, <1>4, SettlingOn
<1>8. ASSUME NEW p \in Panels PROVE Told(p) => Told(p)'
  BY <1>5, <1>6 DEF Told
<1> QED BY <1>1, <1>7, <1>8, AgreementKept DEF SettleInv

\* The other steps change nothing between a panel that remains and the kernel.
LEMMA AgreementIdle ==
  ASSUME Types, ExecutionInv, SettleInv, kind' = kind, seen' = seen, incarnation' = incarnation,
         SignalsOn, \A m : NewSignal(m) => m.type # "status", shell' = shell,
         UNCHANGED <<cells, comms, kdoc, last, live, timer, restarting>>,
         greeted' = greeted \/ \E m : NewSignal(m) /\ m.type = "idle",
         \A p \in Panels : panel'[p] = "ready" =>
           panel[p] = "ready" /\ comm'[p] = comm[p] /\ marks'[p] = marks[p]
  PROVE  Agreement'
<1>1. ASSUME NEW p \in Panels, panel'[p] = "ready" PROVE Told(p) => Told(p)'
  BY <1>1, IdleStep
<1>2. ASSUME NEW p \in Panels PROVE Settling(p) => Settling(p)'
  BY <1>2, SettlingOn
<1> QED BY <1>1, <1>2, AgreementKept DEF SettleInv

\* Agreement after any step.
LEMMA AgreementStep ==
  ASSUME FrontendAssumption, Types, ExecutionInv, SettleInv, [Next]_vars
  PROVE  Agreement'
<1>0. IsSeq(iopub) /\ IsSeq(shell)
  BY DEF ExecutionInv, Signals, Requests
<1>1. CASE Load
  <2>1. \A p \in Panels : panel'[p] # "ready"
    BY <1>1 DEF Load, panelVars, SettleInv, Views
  <2> QED BY <2>1, AgreementNext
<1>2. ASSUME NEW n \in Notebooks, Edit(n) PROVE Agreement'
  <2>1. panel' = panel /\ timer' = [p \in Panels |-> timer[p] \/ panel[p] \in {"ready", "closed"}]
    BY <1>2 DEF Edit
  <2>2. ASSUME NEW p \in Panels, panel'[p] = "ready" PROVE timer'[p]
    <3>1. timer'[p] = (timer[p] \/ panel[p] \in {"ready", "closed"})
      BY <2>1, Zenon
    <3>2. panel[p] \in {"ready", "closed"}
      BY <2>1, <2>2
    <3> QED BY <3>1, <3>2, Zenon
  <2> QED BY <2>2, AgreementNext
<1>3. ASSUME iopub' = iopub
      PROVE  SignalsOn /\ \A m : ~NewSignal(m)
  BY <1>0, <1>3, SignalsSame
<1>4. ASSUME NEW p \in Panels, PanelOpens(p) PROVE Agreement'
  <2>1. /\ UNCHANGED <<kind, seen, incarnation, shell, cells, comms, kdoc, last, live, restarting,
                       greeted, comm, marks, iopub, timer>>
        /\ panel' = [panel EXCEPT ![p] = "tracked"]
    BY <1>4 DEF PanelOpens, notebookVars, commVars, kernelVars
  <2>2. \A q \in Panels : panel'[q] = "ready" => panel[q] = "ready"
    BY <2>1 DEF Types, PanelType
  <2> QED BY <1>3, <2>1, <2>2, AgreementIdle
<1>5. ASSUME NEW p \in Panels, PanelCloses(p) PROVE Agreement'
  <2>1. /\ UNCHANGED <<kind, seen, incarnation, shell, cells, comms, kdoc, last, live, restarting,
                       greeted, iopub>>
        /\ panel' = [panel EXCEPT ![p] = "closed"] /\ timer' = NoTimer({p})
        /\ comm' = [comm EXCEPT ![p] = {}] /\ marks' = [marks EXCEPT ![p] = {}]
    BY <1>5 DEF PanelCloses, notebookVars, commVars, kernelVars
  <2>2. ASSUME NEW q \in Panels, panel'[q] = "ready"
        PROVE  q # p /\ panel[q] = "ready" /\ comm'[q] = comm[q] /\ marks'[q] = marks[q]
    BY <2>1, <2>2 DEF Types, PanelType, CommType
  <2>3. ASSUME NEW q \in Panels, q # p PROVE timer[q] => timer'[q]
    <3>1. timer'[q] = timer[q]
      BY <2>1, <2>3, Zenon DEF NoTimer
    <3> QED BY <3>1, Zenon
  <2>4. SignalsOn /\ \A m : ~NewSignal(m)
    BY <1>3, <2>1
  <2>5. ASSUME NEW q \in Panels, panel'[q] = "ready" PROVE Told(q) => Told(q)'
    <3>1. comm'[q] = comm[q] /\ marks'[q] = marks[q]
      BY <2>2, <2>5
    <3> QED BY <2>1, <2>4, <3>1, IdleStep
  <2>6. ASSUME NEW q \in Panels PROVE Settling(q) => Settling(q)'
    BY <2>1, <2>4, SettlingOn
  <2> QED BY <2>1, <2>2, <2>3, <2>5, <2>6, AgreementKept DEF SettleInv
<1>6. CASE CloseArrives
  <2>1. SignalsTail /\ Head(iopub).type = "close" /\ kind' = kind
    BY <1>6 DEF CloseArrives, SignalsTail, kernelVars
  <2>2. Head(iopub) = iopub[1] /\ 1 \in 1 .. Len(iopub)
    BY <1>0, <2>1, TailOf DEF SignalsTail
  <2>3. kind # "nbdsl"
    BY <2>1, <2>2 DEF SettleInv, NoClose
  <2> QED BY <2>1, <2>3 DEF Agreement
<1>7. CASE DocumentRefused
  BY <1>7 DEF DocumentRefused, kernelVars, Agreement
<1>8. CASE KernelIdle
  <2> DEFINE m == [type |-> "idle"]
  <2>1. m.type = "idle"
    OBVIOUS
  <2>2. /\ iopub' = Append(iopub, m)
        /\ UNCHANGED <<kind, seen, incarnation, shell, cells, comms, kdoc, last, live, restarting,
                       panel, comm, marks, timer>>
    BY <1>8 DEF KernelIdle, notebookVars, panelVars, commVars
  <2> HIDE DEF m
  <2>3. SignalsOn /\ NewSignal(m) /\ \A x : NewSignal(x) => x = m
    BY <1>0, <2>2, SignalsAppend
  <2> QED BY <2>1, <2>2, <2>3, AgreementIdle
<1>9. CASE ServerRestarts
  <2> DEFINE m == [type |-> "restarting", of |-> incarnation]
  <2>1. m.type # "status"
    OBVIOUS
  <2>2. /\ iopub' = Append(iopub, m)
        /\ UNCHANGED <<kind, seen, incarnation, shell, cells, comms, kdoc, last, live, restarting,
                       greeted, panel, comm, marks, timer>>
    BY <1>9 DEF ServerRestarts, notebookVars, panelVars, commVars
  <2> HIDE DEF m
  <2>3. SignalsOn /\ NewSignal(m) /\ \A x : NewSignal(x) => x = m
    BY <1>0, <2>2, SignalsAppend
  <2> QED BY <2>1, <2>2, <2>3, AgreementIdle
<1>10. CASE KernelDies
  <2>1. seen' = seen /\ incarnation' = incarnation + 1
    BY <1>10 DEF KernelDies, NewKernel
  <2>2. seen' # incarnation'
    BY <2>1 DEF ExecutionInv, Processes
  <2> QED BY <2>2 DEF Agreement
<1>11. CASE AtRest \/ UNCHANGED vars
  <2>1. UNCHANGED <<kind, seen, incarnation, shell, cells, comms, kdoc, last, live, restarting,
                    greeted, panel, comm, marks, iopub, timer>>
    BY <1>11 DEF AtRest, vars
  <2> QED BY <1>3, <2>1, AgreementIdle
<1>12. CASE UserRestarts \/ RestartArrives \/ StatusArrives \/ DocumentHandled \/ ExecuteHandled
  BY <1>12, AgreementRestart, AgreementAnnounced, AgreementStatus, AgreementDocument, AgreementExecute
<1>13. CASE \E k \in Kinds : ChangeKernel(k)
  BY <1>13, AgreementSwitch
<1>14. CASE \/ \E p \in Panels : PanelReady(p) \/ TimerFires(p) \/ \E k \in DOMAIN cells : Run(p, k)
            \/ IdleArrives
  BY <1>14, AgreementSend
<1> QED BY <1>1, <1>2, <1>4, <1>5, <1>6, <1>7, <1>8, <1>9, <1>10, <1>11, <1>12, <1>13, <1>14
  DEF Next, User, Browser, Server

\* No panel, no message: the invariant holds at the start.
LEMMA SettleInit == ASSUME FrontendAssumption, Init PROVE SettleInv
<1> USE DEF Init
<1>1. Views
  BY DEF Views
<1>2. Notices
  BY EmptyIsSeq DEF Notices
<1>3. NoClose
  BY EmptyIsSeq DEF NoClose
<1>4. Agreement
  BY DEF Agreement
<1> QED BY <1>1, <1>2, <1>3, <1>4 DEF SettleInv

----------------------------------------------------------------------------
(* Theorems *)

\* The invariant holds in every state of every behaviour of the plugin.
THEOREM FrontendInvariance == Spec => []ExecutionInv
<1>1. Init => ExecutionInv
  BY FrontendAssumption, InitInv
<1>2. ExecutionInv /\ [Next]_vars => ExecutionInv'
  BY FrontendAssumption, NextComms, NextProcesses, NextSignals, NextRest DEF ExecutionInv
<1> QED BY <1>1, <1>2, PTL DEF Spec

\* document.ts:114-117: when the kernel comes to an execution that was sent to
\* this very process, its document is the notebook as it was when the cell was
\* run.
THEOREM DocumentIsFirst == Spec => []DocumentBeforeExecution
<1>1. ExecutionInv => DocumentBeforeExecution
  <2> SUFFICES ASSUME ExecutionInv, Handling("execute"), kind = "nbdsl",
                      Head(shell).to = incarnation
               PROVE  kdoc = Head(shell).doc
    BY DEF DocumentBeforeExecution
  <2>1. Head(shell) = shell[1] /\ 1 \in 1 .. Len(shell)
    BY TailOf DEF ExecutionInv, Requests, Handling
  <2>2. Preceded(1)
    BY <2>1 DEF ExecutionInv, Executions, Handling
  <2> QED BY <2>1, <2>2 DEF Preceded
<1> QED BY <1>1, FrontendInvariance, PTL

\* The types, the order of executions and the agreement are inductive together.
LEMMA SettleInvariance == Spec => [](Types /\ ExecutionInv /\ SettleInv)
<1>1. Init => Types /\ ExecutionInv /\ SettleInv
  BY FrontendAssumption, TypesInit, InitInv, SettleInit
<1>2. ASSUME Types, ExecutionInv, SettleInv, [Next]_vars
      PROVE  Types' /\ ExecutionInv' /\ SettleInv'
  <2>1. Types'
    BY <1>2, FrontendAssumption, TypesStep
  <2>2. ExecutionInv'
    BY <1>2, FrontendAssumption, NextComms, NextProcesses, NextSignals, NextRest DEF ExecutionInv
  <2>3. Views'
    BY <1>2, FrontendAssumption, ViewsStep DEF SettleInv
  <2>4. Notices' /\ NoClose'
    BY <1>2, NoticesStep, NoCloseStep DEF SettleInv
  <2>5. Agreement'
    BY <1>2, FrontendAssumption, AgreementStep
  <2> QED BY <2>1, <2>2, <2>3, <2>4, <2>5 DEF SettleInv
<1>3. Types /\ ExecutionInv /\ SettleInv /\ [Next]_vars => (Types /\ ExecutionInv /\ SettleInv)'
  BY <1>2
<1> QED BY <1>1, <1>3, PTL DEF Spec

\* Every variable of the plugin, its channels and its kernel keeps its type; in
\* particular a panel holds one comm at most, and only code cells are sent.
THEOREM FrontendTypes == Spec => []TypeOK
<1>1. Types => TypeOK
  BY TypesAre
<1> QED BY <1>1, SettleInvariance, PTL

\* When the traffic settles, the kernel has the notebook that is shown and every
\* view shows what the kernel said last, for any panels, notebooks and kernels
\* and whatever edits, restarts, deaths, switches and late statuses came between
\* (document.ts: send, applyStatus, statusChanged, kernelChanged).
THEOREM SettledAgrees == Spec => []SettledInAgreement
<1>1. ASSUME Types, ExecutionInv, SettleInv PROVE SettledInAgreement
  <2> SUFFICES ASSUME Quiet, kind = "nbdsl", Document # <<>>, NEW p \in Ready
               PROVE  kdoc = Document /\ marks[p] = last \cap CellIds(cells)
    BY DEF SettledInAgreement
  <2>1. Len(shell) = 0 /\ Len(iopub) = 0 /\ up /\ greeted /\ ~timer[p]
    BY EmptyIsSeq DEF Quiet
  <2>2. seen = incarnation
    BY <1>1, <2>1 DEF SettleInv, Notices
  <2>3. ~Settling(p)
    BY <2>1 DEF Settling
  <2>4. PICK c \in comm[p] \cap live : Underway(c) \/ Agreed(p, c)
    BY <1>1, <2>1, <2>2, <2>3 DEF SettleInv, Agreement, Ready
  <2>5. Agreed(p, c)
    BY <2>1, <2>4 DEF Underway
  <2>6. kdoc = Document /\ Shown(p)
    BY <2>5 DEF Agreed
  <2>7. PICK i \in 0 .. Len(iopub) :
          IF i = 0 THEN marks[p] = last \cap CellIds(cells) ELSE Paints(iopub[i], p)
    BY <2>6 DEF Shown
  <2>8. i = 0
    BY <2>1
  <2> QED BY <2>6, <2>7, <2>8
<1>2. Types /\ ExecutionInv /\ SettleInv => SettledInAgreement
  BY <1>1
<1> QED BY <1>2, SettleInvariance, PTL
===============================================================================
