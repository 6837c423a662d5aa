---------------------------- MODULE SessionProofs ---------------------------
(***************************************************************************)
(* The worker implements Session: with the refinement mapping of Worker,   *)
(* an answer counts from the step that builds it.                          *)
(***************************************************************************)
EXTENDS WorkerProofs

\* The answers that a sequence of replies shows.
Shown(s) == [i \in 1..Len(s) |-> NoOutputs(s[i])]

PlainReply == [rid : Rids, op : AllOps, status : {"ok", "error", "cancelled", "unsupported"},
               snapshot : Nat \cup {-1}]

\* What is analysed is the cell of an inspect.
AnalyseInv == pc = "analyse" => cur.op = "inspect"

SessionInv == TypeInv /\ AtomicInv /\ AnalyseInv

----------------------------------------------------------------------------
(* Answers *)

LEMMA NoOutputsType == \A r \in Reply : NoOutputs(r) \in PlainReply
  BY DEF Reply, NoOutputs, PlainReply

LEMMA ShownType ==
  ASSUME NEW s \in Seq(Reply)
  PROVE  /\ Shown(s) \in Seq(PlainReply) /\ Len(Shown(s)) = Len(s)
         /\ \A i \in 1..Len(s) : Shown(s)[i] = NoOutputs(s[i])
<1>1. Len(s) \in Nat /\ \A i \in 1..Len(s) : s[i] \in Reply
  BY LenProperties, ElementOfSeq
<1>2. \A i \in 1..Len(s) : NoOutputs(s[i]) \in PlainReply
  BY <1>1, NoOutputsType
<1> HIDE DEF PlainReply, NoOutputs
<1> QED BY <1>1, <1>2 DEF Shown

\* A reply more is an answer more.
LEMMA ShownAppend ==
  ASSUME NEW s \in Seq(Reply), NEW r \in Reply
  PROVE  Shown(Append(s, r)) = Append(Shown(s), NoOutputs(r))
<1>1. /\ Append(s, r) \in Seq(Reply) /\ Len(Append(s, r)) = Len(s) + 1 /\ Len(s) \in Nat
      /\ \A i \in 1..Len(s) : Append(s, r)[i] = s[i]
      /\ Append(s, r)[Len(s) + 1] = r
  BY AppendFacts
<1>2. /\ Shown(s) \in Seq(PlainReply) /\ Len(Shown(s)) = Len(s)
      /\ \A i \in 1..Len(s) : Shown(s)[i] = NoOutputs(s[i])
  BY ShownType
<1>3. /\ Shown(Append(s, r)) \in Seq(PlainReply) /\ Len(Shown(Append(s, r))) = Len(s) + 1
      /\ \A i \in 1..Len(s) + 1 : Shown(Append(s, r))[i] = NoOutputs(Append(s, r)[i])
  BY <1>1, ShownType
<1>4. /\ Append(Shown(s), NoOutputs(r)) \in Seq(PlainReply)
      /\ Len(Append(Shown(s), NoOutputs(r))) = Len(s) + 1
      /\ \A i \in 1..Len(s) : Append(Shown(s), NoOutputs(r))[i] = Shown(s)[i]
      /\ Append(Shown(s), NoOutputs(r))[Len(s) + 1] = NoOutputs(r)
  BY <1>2, NoOutputsType, AppendFacts
<1>5. ASSUME NEW i \in 1..Len(s) + 1
      PROVE  Shown(Append(s, r))[i] = Append(Shown(s), NoOutputs(r))[i]
  <2>1. CASE i \in 1..Len(s)
    BY <1>1, <1>2, <1>3, <1>4, <2>1
  <2>2. CASE i = Len(s) + 1
    BY <1>1, <1>3, <1>4, <2>2
  <2>3. i \in 1..Len(s) \/ i = Len(s) + 1
    BY <1>1
  <2> QED BY <2>1, <2>2, <2>3
<1> QED BY <1>1, <1>3, <1>4, <1>5, SeqEqual

\* A death may take the reply that was built and not written.
LEMMA ShownDrop ==
  ASSUME NEW s \in Seq(Reply), NEW r \in Reply
  PROVE  Shown(s) = SubSeq(Shown(Append(s, r)), 1, Len(Shown(Append(s, r))) - 1)
<1> DEFINE a == Shown(s)
           e == NoOutputs(r)
<1>1. a \in Seq(PlainReply) /\ e \in PlainReply /\ Shown(Append(s, r)) = Append(a, e)
  BY ShownType, ShownAppend, NoOutputsType
<1> HIDE DEF a, e
<1>2. SubSeq(Append(a, e), 1, Len(Append(a, e)) - 1) = a
  BY <1>1
<1> QED BY <1>1, <1>2 DEF a

\* The step that builds a reply adds its answer.
LEMMA Builds ==
  ASSUME TypeInv, pc \notin {"leave", "write"}, UNCHANGED replies,
         pc' \in {"leave", "write"}, rep' \in Reply
  PROVE  Shown(Answered') = Append(Shown(Answered), NoOutputs(rep'))
<1>1. Answered = replies /\ Answered' = Append(replies, rep')
  BY DEF Answered
<1>2. replies \in Seq(Reply)
  BY DEF TypeInv, TypeOK
<1> QED BY <1>1, <1>2, ShownAppend

----------------------------------------------------------------------------
(* Steps *)

LEMMA AnalyseInit == Init => AnalyseInv
  BY DEF Init, AnalyseInv

LEMMA AnalyseStep == AnalyseInv /\ [Next]_vars => AnalyseInv'
<1> SUFFICES ASSUME AnalyseInv, [Next]_vars PROVE AnalyseInv'
  OBVIOUS
<1>1. CASE BeginInspect
  BY <1>1 DEF BeginInspect, AnalyseInv
<1>2. CASE Client
  BY <1>2 DEF Client, ClientSends, ClientCancels, ClientCloses, AnalyseInv
<1>3. CASE Reader
  BY <1>3 DEF Reader, ReaderQueues, ReaderTakesCancel, ReaderSetsToken, ReaderStops, AnalyseInv
<1>4. CASE Execute
  BY <1>4 DEF Execute, BeginExecute, EndElaboration, DecidePublish, ReplyCancelled, ReplyError,
     Commit, CommitAs, LeaveExecute, AnalyseInv
<1>5. CASE \/ EndInspect \/ AnswerQuery \/ Refuse \/ SaveSession \/ LoadSession \/ LoadMisses
  BY <1>5 DEF EndInspect, AnswerQuery, Refuse, SaveSession, LoadSession, LoadMisses, AnalyseInv
<1>6. CASE MainReceives \/ MainExits \/ WriteReply \/ Die
  BY <1>6 DEF MainReceives, MainExits, WriteReply, Die, AnalyseInv
<1>7. CASE Emit
  BY <1>7 DEF Emit, EmitOutput, LateOutput, AnalyseInv
<1>8. CASE Gone \/ UNCHANGED vars
  BY <1>8 DEF Gone, vars, AnalyseInv
<1> QED
  BY <1>1, <1>2, <1>3, <1>4, <1>5, <1>6, <1>7, <1>8 DEF Next, Main, Serve

LEMMA RefinesInit == Init => Abstract!Init
<1> SUFFICES ASSUME Init PROVE Abstract!Init
  OBVIOUS
<1>1. Answered = <<>>
  BY DEF Init, Answered
<1>2. [i \in 1..Len(Answered) |-> NoOutputs(Answered[i])] = <<>>
  BY <1>1
<1>3. Abstract!Saved(disk)
  <2>1. CASE disk = <<>>
    BY <2>1 DEF Abstract!Saved
  <2>2. ASSUME NEW c \in Codes, disk = << <<[code |-> c, whole |-> TRUE]>> >>
        PROVE  Abstract!Saved(disk)
    <3>1. [code |-> c, whole |-> TRUE] \in [code : Codes, whole : {TRUE}]
      OBVIOUS
    <3>2. Len(disk) = 1 /\ disk[1] = <<[code |-> c, whole |-> TRUE]>>
      BY <2>2
    <3> QED BY <3>1, <3>2 DEF Abstract!Saved, Abstract!WholeStates
  <2> QED BY <2>1, <2>2 DEF Init, SavedBefore
<1>4. snapshots = <<[parent |-> -1, state |-> <<>>]>> /\ current = 0 /\ pc = "recv"
  BY DEF Init, Prelude
<1> QED BY <1>2, <1>3, <1>4 DEF Abstract!Init

\* A step that builds no reply and changes no snapshot is a stutter.
LEMMA Stutters ==
  ASSUME UNCHANGED <<snapshots, current, disk>>, Answered' = Answered,
         pc' = "dead" <=> pc = "dead"
  PROVE  UNCHANGED Abstract!vars
  BY DEF Abstract!vars

\* A step that builds the reply to the request being served answers it.
LEMMA AnswersCurrent ==
  ASSUME TypeInv, pc \in Handling, pc \notin {"leave", "write"}, UNCHANGED replies,
         pc' \in {"leave", "write"},
         NEW status \in {"ok", "error", "cancelled", "unsupported"},
         NEW snap \in Nat \cup {-1}, NEW outputs \in SUBSET Rids,
         rep' = ReplyTo(cur, status, snap, outputs)
  PROVE  cur.rid \in Rids /\ Abstract!Answer(cur.rid, cur.op, status, snap)
<1>1. cur \in Request
  BY DEF TypeInv, ControlInv
<1>2. cur.rid \in Rids /\ rep' \in Reply
  BY <1>1, RequestFields, ReplyToReply
<1>3. NoOutputs(rep') = [rid |-> cur.rid, op |-> cur.op, status |-> status, snapshot |-> snap]
  BY DEF NoOutputs, ReplyTo
<1>4. Shown(Answered') = Append(Shown(Answered), NoOutputs(rep'))
  BY <1>2, Builds
<1> QED BY <1>2, <1>3, <1>4 DEF Abstract!Answer, Shown

\* What serves a request is a step of a Session that lives on.
LEMMA Answers ==
  ASSUME NEW rid \in Rids, pc # "dead", pc' # "dead", Abstract!Serve(rid)
  PROVE  Abstract!Next
<1>1. (pc' # "dead") = TRUE
  OBVIOUS
<1> QED BY <1>1 DEF Abstract!Next

LEMMA ExecutesRefine ==
  ASSUME TypeInv, AtomicInv, BeginExecute \/ ReplyCancelled \/ ReplyError \/ Commit
  PROVE  Abstract!Next \/ UNCHANGED Abstract!vars
<1> USE DEF chanVars, readerVars, sessionVars, elabVars, Handling
<1>1. CASE BeginExecute /\ Known(cur.parent)
  <2>1. Answered' = Answered
    BY <1>1 DEF BeginExecute, Answered
  <2> QED BY <1>1, <2>1, Stutters DEF BeginExecute
<1>2. CASE BeginExecute /\ ~Known(cur.parent)
  <2>1. cur.rid \in Rids /\ Abstract!Answer(cur.rid, cur.op, "error", -1)
    BY <1>2, AnswersCurrent DEF BeginExecute
  <2>2. Abstract!Reject(cur.rid, "execute", "error")
    BY <1>2, <2>1 DEF BeginExecute, Abstract!Reject
  <2> QED BY <1>2, <2>1, <2>2, Answers DEF BeginExecute, Abstract!Serve
<1>3. ASSUME NEW status \in {"error", "cancelled"}, pc = "decide", pc' = "leave",
             rep' = ReplyTo(cur, status, cur.parent, publ), UNCHANGED replies,
             UNCHANGED sessionVars
      PROVE  Abstract!Next
  <2>1. cur.op = "execute" /\ cur.parent \in Nat /\ cur.parent < Len(snapshots)
    BY <1>3 DEF TypeInv, ControlInv, Known, ExecuteFrame
  <2>2. cur.parent \in 0 .. Len(snapshots)
    BY <2>1 DEF TypeInv, TypeOK
  <2>3. publ \in SUBSET Rids
    BY DEF TypeInv, TypeOK
  <2>4. cur.rid \in Rids /\ Abstract!Answer(cur.rid, cur.op, status, cur.parent)
    BY <1>3, <2>1, <2>3, AnswersCurrent
  <2>5. Abstract!Fail(cur.rid, cur.parent, status)
    BY <1>3, <2>1, <2>4 DEF Abstract!Fail
  <2>6. Abstract!Serve(cur.rid)
    BY <2>2, <2>5 DEF Abstract!Serve
  <2> QED BY <1>3, <2>4, <2>6, Answers
<1>4. CASE ReplyCancelled
  BY <1>3, <1>4 DEF ReplyCancelled
<1>5. CASE ReplyError
  BY <1>3, <1>5 DEF ReplyError
<1>6. CASE Commit
  <2>1. /\ pc = "decide" /\ pc' = "leave" /\ UNCHANGED <<replies, disk>>
        /\ cur.rid \notin tokens /\ elab # "errors"
        /\ snapshots' = Append(snapshots, Candidate(cur.parent))
        /\ current' = Len(snapshots)
        /\ rep' = ReplyTo(cur, "ok", Len(snapshots), publ)
    BY <1>6 DEF Commit, CommitAs, Committable
  <2>2. /\ cur.op = "execute" /\ cur.code \in Codes
        /\ cur.parent \in Nat /\ cur.parent < Len(snapshots)
    BY <2>1 DEF TypeInv, ControlInv, Known, ExecuteFrame
  <2>3. Len(snapshots) \in Nat /\ cur.parent \in 0 .. Len(snapshots) /\ publ \in SUBSET Rids
    BY <2>2 DEF TypeInv, TypeOK
  <2>4. elab = "clean"
    BY <2>1 DEF AtomicInv, TypeInv, TypeOK
  <2>5. Candidate(cur.parent) =
          [parent |-> cur.parent,
           state  |-> Append(snapshots[cur.parent + 1].state,
                             [code |-> cur.code, whole |-> TRUE])]
    BY <2>4 DEF Candidate, SnapAt
  <2>6. cur.rid \in Rids /\ Abstract!Answer(cur.rid, cur.op, "ok", Len(snapshots))
    BY <2>1, <2>3, AnswersCurrent
  <2>7. Abstract!Execute(cur.rid, cur.parent, cur.code)
    BY <2>1, <2>2, <2>5, <2>6 DEF Abstract!Execute, Abstract!Push
  <2>8. Abstract!Serve(cur.rid)
    BY <2>2, <2>3, <2>7 DEF Abstract!Serve
  <2> QED BY <2>1, <2>6, <2>8, Answers
<1> QED BY <1>1, <1>2, <1>4, <1>5, <1>6

LEMMA ServeRefines ==
  ASSUME TypeInv, AnalyseInv, Serve
  PROVE  Abstract!Next \/ UNCHANGED Abstract!vars
<1> USE DEF chanVars, readerVars, sessionVars, elabVars, Handling
<1>0. /\ current \in Nat /\ Known(current) /\ Len(snapshots) \in Nat
      /\ {} \in SUBSET Rids
  BY DEF TypeInv, TypeOK, ControlInv, Known
<1>1. CASE BeginInspect
  <2>1. Answered' = Answered
    BY <1>1 DEF BeginInspect, Answered
  <2> QED BY <1>1, <2>1, Stutters DEF BeginInspect
<1>2. CASE EndInspect
  <2>1. cur.rid \in Rids /\ Abstract!Answer(cur.rid, cur.op, "ok", current)
    BY <1>0, <1>2, AnswersCurrent DEF EndInspect
  <2>2. Abstract!Read(cur.rid, "inspect")
    BY <1>2, <2>1 DEF EndInspect, AnalyseInv, Abstract!Read
  <2> QED BY <1>2, <2>1, <2>2, Answers DEF EndInspect, Abstract!Serve
<1>3. CASE AnswerQuery
  <2>1. cur.rid \in Rids /\ Abstract!Answer(cur.rid, cur.op, "ok", current)
    BY <1>0, <1>3, AnswersCurrent DEF AnswerQuery
  <2>2. Abstract!Read(cur.rid, "query")
    BY <1>3, <2>1 DEF AnswerQuery, Abstract!Read
  <2> QED BY <1>3, <2>1, <2>2, Answers DEF AnswerQuery, Abstract!Serve
<1>4. CASE Refuse /\ cur.op = "malformed"
  <2>1. cur.rid \in Rids /\ Abstract!Answer(cur.rid, cur.op, "error", -1)
    BY <1>0, <1>4, AnswersCurrent DEF Refuse
  <2>2. Abstract!Reject(cur.rid, "malformed", "error")
    BY <1>4, <2>1 DEF Refuse, Abstract!Reject
  <2> QED BY <1>4, <2>1, <2>2, Answers DEF Refuse, Abstract!Serve
<1>5. CASE Refuse /\ cur.op = "unsupported"
  <2>1. cur.rid \in Rids /\ Abstract!Answer(cur.rid, cur.op, "unsupported", -1)
    BY <1>0, <1>5, AnswersCurrent DEF Refuse
  <2>2. Abstract!Reject(cur.rid, "unsupported", "unsupported")
    BY <1>5, <2>1 DEF Refuse, Abstract!Reject
  <2> QED BY <1>5, <2>1, <2>2, Answers DEF Refuse, Abstract!Serve
<1>6. CASE SaveSession
  <2>1. cur.rid \in Rids /\ Abstract!Answer(cur.rid, cur.op, "ok", current)
    BY <1>0, <1>6, AnswersCurrent DEF SaveSession
  <2>2. Abstract!Save(cur.rid)
    BY <1>6, <2>1 DEF SaveSession, SnapAt, Abstract!Save
  <2> QED BY <1>6, <2>1, <2>2, Answers DEF SaveSession, Abstract!Serve
<1>7. CASE LoadSession
  <2>1. cur.rid \in Rids /\ Abstract!Answer(cur.rid, cur.op, "ok", Len(snapshots))
    BY <1>0, <1>7, AnswersCurrent DEF LoadSession
  <2>2. Abstract!Restore(cur.rid)
    BY <1>7, <2>1 DEF LoadSession, Abstract!Restore, Abstract!Push
  <2> QED BY <1>7, <2>1, <2>2, Answers DEF LoadSession, Abstract!Serve
<1>8. CASE LoadMisses
  <2>1. cur.rid \in Rids /\ Abstract!Answer(cur.rid, cur.op, "error", -1)
    BY <1>0, <1>8, AnswersCurrent DEF LoadMisses
  <2>2. Abstract!Reject(cur.rid, "load_session", "error")
    BY <1>8, <2>1 DEF LoadMisses, Abstract!Reject
  <2> QED BY <1>8, <2>1, <2>2, Answers DEF LoadMisses, Abstract!Serve
<1>9. Refuse => cur.op \in {"unsupported", "malformed"}
  BY DEF Refuse
<1> QED BY <1>1, <1>2, <1>3, <1>4, <1>5, <1>6, <1>7, <1>8, <1>9 DEF Serve

LEMMA DieRefines ==
  ASSUME TypeInv, Die
  PROVE  Abstract!Next
<1>1. pc # "dead" /\ pc' = "dead" /\ UNCHANGED <<snapshots, current, disk, replies>>
  BY DEF Die, Alive, sessionVars
<1>2. Answered' = replies /\ replies \in Seq(Reply)
  BY <1>1 DEF Answered, TypeInv, TypeOK
<1>3. \/ Shown(Answered') = Shown(Answered)
      \/ Shown(Answered') = SubSeq(Shown(Answered), 1, Len(Shown(Answered)) - 1)
  <2>1. CASE pc \in {"leave", "write"}
    <3>1. Answered = Append(replies, rep) /\ rep \in Reply
      BY <2>1 DEF Answered, TypeInv, ControlInv
    <3> QED BY <1>2, <3>1, ShownDrop
  <2>2. CASE pc \notin {"leave", "write"}
    <3>1. Answered' = Answered
      BY <1>2, <2>2 DEF Answered
    <3> QED BY <3>1
  <2> QED BY <2>1, <2>2
<1>4. (pc' # "dead") = FALSE /\ (pc # "dead") = TRUE
  BY <1>1
<1>5. Abstract!Die
  BY <1>1, <1>3, <1>4 DEF Abstract!Die, Shown
<1> QED BY <1>1, <1>5 DEF Abstract!Next

LEMMA RefinesStep ==
  SessionInv /\ [Next]_vars => [Abstract!Next]_(Abstract!vars)
<1> SUFFICES ASSUME SessionInv, [Next]_vars
             PROVE  Abstract!Next \/ UNCHANGED Abstract!vars
  OBVIOUS
<1> USE DEF chanVars, readerVars, sessionVars, elabVars
<1>1. CASE Client
  <2>1. Answered' = Answered /\ UNCHANGED <<snapshots, current, disk, pc>>
    BY <1>1 DEF Client, ClientSends, ClientCancels, ClientCloses, Answered
  <2> QED BY <2>1, Stutters
<1>2. CASE Reader
  <2>1. Answered' = Answered /\ UNCHANGED <<snapshots, current, disk, pc>>
    BY <1>2 DEF Reader, ReaderQueues, ReaderTakesCancel, ReaderSetsToken, ReaderStops, Answered
  <2> QED BY <2>1, Stutters
<1>3. CASE MainReceives \/ MainExits
  <2>1. Answered' = Answered
    BY <1>3 DEF MainReceives, MainExits, Answered
  <2> QED BY <1>3, <2>1, Stutters DEF MainReceives, MainExits
<1>4. CASE BeginExecute \/ ReplyCancelled \/ ReplyError \/ Commit
  BY <1>4, ExecutesRefine DEF SessionInv
<1>5. CASE \/ \E result \in {"clean", "errors", "aborted"} : EndElaboration(result)
           \/ DecidePublish \/ LeaveExecute
  <2>1. Answered' = Answered
    BY <1>5 DEF EndElaboration, DecidePublish, LeaveExecute, Answered
  <2> QED BY <1>5, <2>1, Stutters DEF EndElaboration, DecidePublish, LeaveExecute
<1>6. CASE Serve
  BY <1>6, ServeRefines DEF SessionInv
<1>7. CASE WriteReply
  <2>1. Answered' = Answered
    BY <1>7 DEF WriteReply, Answered
  <2> QED BY <1>7, <2>1, Stutters DEF WriteReply
<1>8. CASE Emit
  <2>1. Answered' = Answered /\ UNCHANGED <<snapshots, current, disk, pc>>
    BY <1>8 DEF Emit, EmitOutput, LateOutput, Answered
  <2> QED BY <2>1, Stutters
<1>9. CASE Die
  BY <1>9, DieRefines DEF SessionInv
<1>10. CASE Gone \/ UNCHANGED vars
  <2>1. Answered' = Answered /\ UNCHANGED <<snapshots, current, disk, pc>>
    BY <1>10 DEF Gone, vars, Answered
  <2> QED BY <2>1, Stutters
<1> QED
  BY <1>1, <1>2, <1>3, <1>4, <1>5, <1>6, <1>7, <1>8, <1>9, <1>10 DEF Next, Main, Execute

----------------------------------------------------------------------------
(* The worker, with its two tasks, its queue, its tokens and its pipes,    *)
(* implements Session: whatever the interleaving of the reader with the    *)
(* main task and wherever a death falls, each request takes effect and is  *)
(* answered as if in one step (readerLoop, mainLoop, handleExecute).       *)

THEOREM WorkerImplementsSession == Spec => RefinesSession
<1>1. Spec => []TypeInv
  BY TypeAlways
<1>2. Spec => []AtomicInv
  <2>1. Init => AtomicInv
    BY AtomicInit
  <2>2. TypeInv /\ AtomicInv /\ [Next]_vars => AtomicInv'
    BY AtomicStep
  <2> QED BY <1>1, <2>1, <2>2, PTL DEF Spec
<1>3. Spec => []AnalyseInv
  <2>1. Init => AnalyseInv
    BY AnalyseInit
  <2>2. AnalyseInv /\ [Next]_vars => AnalyseInv'
    BY AnalyseStep
  <2> QED BY <2>1, <2>2, PTL DEF Spec
<1>4. TypeInv /\ AtomicInv /\ AnalyseInv /\ [Next]_vars => [Abstract!Next]_(Abstract!vars)
  BY RefinesStep DEF SessionInv
<1>5. Init => Abstract!Init
  BY RefinesInit
<1> QED BY <1>1, <1>2, <1>3, <1>4, <1>5, PTL DEF Spec, RefinesSession, Abstract!Spec
=============================================================================
