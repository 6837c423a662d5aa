---------------------------- MODULE WorkerProofs ----------------------------
(***************************************************************************)
(* Theorems about Worker, for every value of its constants: any number of  *)
(* requests of any kind, any cells, any interleaving of the two tasks with *)
(* the client, and a death at any moment.                                  *)
(***************************************************************************)
EXTENDS WorkerInv, SequenceTheorems, TLAPS

----------------------------------------------------------------------------
(* Frames and records *)

LEMMA RequestFields ==
  \A f \in Request : f.op \in AllOps /\ f.rid \in Rids
  BY DEF Request, ExecuteFrame, InspectFrame, PlainFrame, AllOps

LEMMA FrameKinds ==
  \A f \in Frame : /\ f.op \in AllOps => f \in Request
                   /\ f.op = "cancel" => f \in CancelFrame
<1> SUFFICES ASSUME NEW f \in Frame
             PROVE  /\ f.op \in AllOps => f \in Request
                    /\ f.op = "cancel" => f \in CancelFrame
  OBVIOUS
<1>1. CASE f \in Request
  BY <1>1, RequestFields DEF AllOps
<1>2. CASE f \in CancelFrame
  BY <1>2 DEF CancelFrame, AllOps
<1>3. CASE f = Torn
  BY <1>3 DEF Torn, AllOps
<1> QED BY <1>1, <1>2, <1>3 DEF Frame

LEMMA RequestKinds ==
  \A f \in Request : /\ f.op = "execute" => f \in ExecuteFrame
                     /\ f.op = "inspect" => f \in InspectFrame
  BY DEF Request, ExecuteFrame, InspectFrame, PlainFrame, AllOps

LEMMA RequestsAreRequests ==
  \A f \in Requests : f \in Request /\ \A i \in 1..Len(sent) : sent[i] # f.rid
  BY WorkerAssumption DEF Requests, Request, ExecuteFrame, InspectFrame, PlainFrame, AllOps

LEMMA ReplyToReply ==
  ASSUME NEW req \in Request, NEW status \in {"ok", "error", "cancelled", "unsupported"},
         NEW snap \in Nat \cup {-1}, NEW outputs \in SUBSET Rids
  PROVE  /\ ReplyTo(req, status, snap, outputs) \in Reply
         /\ ReplyTo(req, status, snap, outputs).rid = req.rid
         /\ ReplyTo(req, status, snap, outputs).status = status
  BY RequestFields DEF ReplyTo, Reply

\* Append, element by element.
LEMMA AppendFacts ==
  ASSUME NEW S, NEW s \in Seq(S), NEW e \in S
  PROVE  /\ Append(s, e) \in Seq(S)
         /\ Len(Append(s, e)) = Len(s) + 1
         /\ Len(s) \in Nat
         /\ \A i \in 1..Len(s) : Append(s, e)[i] = s[i]
         /\ Append(s, e)[Len(s) + 1] = e
  OBVIOUS

LEMMA PreludeType == <<Prelude>> \in Seq(Snapshot) /\ Len(<<Prelude>>) = 1 /\ <<Prelude>>[1] = Prelude
<1>1. <<>> \in State
  BY DEF State
<1>2. Prelude \in Snapshot
  BY <1>1 DEF Prelude, Snapshot
<1> QED BY <1>2

LEMMA SavedType == \A d \in SavedBefore : d \in Seq(State)
<1>1. ASSUME NEW c \in Codes
      PROVE  << <<[code |-> c, whole |-> TRUE]>> >> \in Seq(State)
  <2>1. [code |-> c, whole |-> TRUE] \in Cell
    BY DEF Cell
  <2>2. <<[code |-> c, whole |-> TRUE]>> \in State
    BY <2>1 DEF State
  <2> QED BY <2>2
<1>2. <<>> \in Seq(State)
  OBVIOUS
<1> QED BY <1>1, <1>2, Zenon DEF SavedBefore

----------------------------------------------------------------------------
(* Types and control *)

TypeInv == TypeOK /\ ControlInv

LEMMA InitType == Init => TypeInv
<1> SUFFICES ASSUME Init PROVE TypeInv
  OBVIOUS
<1>1. TypeOK
  <2>1. snapshots \in Seq(Snapshot) /\ disk \in Seq(State)
    BY PreludeType, SavedType DEF Init
  <2>2. /\ reqPipe \in Seq(Frame) /\ queue \in Seq(Request)
        /\ replies \in Seq(Reply) /\ sent \in Seq(Rids)
    BY DEF Init
  <2> QED BY <2>1, <2>2 DEF Init, TypeOK
<1>2. ControlInv
  BY PreludeType DEF Init, ControlInv, Handling
<1> QED BY <1>1, <1>2 DEF TypeInv

LEMMA StateOfSnapshot ==
  ASSUME TypeOK, NEW id \in Nat, Known(id)
  PROVE  SnapAt(id).state \in State
<1>1. id + 1 \in 1..Len(snapshots)
  BY DEF Known, TypeOK
<1>2. snapshots[id + 1] \in Snapshot
  BY <1>1, ElementOfSeq DEF TypeOK
<1> QED BY <1>2 DEF SnapAt, Snapshot

LEMMA CandidateType ==
  ASSUME TypeInv, pc = "decide"
  PROVE  Candidate(cur.parent) \in Snapshot
<1>1. cur \in ExecuteFrame /\ Known(cur.parent)
  BY DEF TypeInv, ControlInv
<1>2. cur.parent \in Nat /\ cur.code \in Codes
  BY <1>1 DEF ExecuteFrame
<1>3. SnapAt(cur.parent).state \in State
  BY <1>1, <1>2, StateOfSnapshot DEF TypeInv
<1>4. [code |-> cur.code, whole |-> elab = "clean"] \in Cell
  BY <1>2 DEF Cell
<1>5. Append(SnapAt(cur.parent).state, [code |-> cur.code, whole |-> elab = "clean"]) \in State
  BY <1>3, <1>4 DEF State
<1> QED BY <1>2, <1>5 DEF Candidate, Snapshot

LEMMA TypeStep == TypeInv /\ [Next]_vars => TypeInv'
<1> SUFFICES ASSUME TypeInv, [Next]_vars PROVE TypeInv'
  OBVIOUS
<1> USE DEF TypeInv, TypeOK, ControlInv, Handling, Known, chanVars, readerVars,
        sessionVars, elabVars
<1>1. ASSUME NEW f \in Requests, ClientSends(f) PROVE TypeInv'
  <2>1. f \in Request /\ f \in Frame /\ f.rid \in Rids
    BY RequestsAreRequests, RequestFields DEF Frame
  <2> QED BY <1>1, <2>1 DEF ClientSends
<1>2. ASSUME NEW rid \in Rids, ClientCancels(rid) PROVE TypeInv'
  <2>1. [op |-> "cancel", rid |-> rid] \in Frame
    BY DEF Frame, CancelFrame
  <2> QED BY <1>2, <2>1 DEF ClientCancels
<1>3. ASSUME ClientCloses PROVE TypeInv'
  <2>1. Torn \in Frame
    BY DEF Frame
  <2>2. reqPipe' \in Seq(Frame)
    <3>1. Append(reqPipe, Torn) \in Seq(Frame)
      BY <2>1, AppendFacts
    <3> QED BY <1>3, <3>1 DEF ClientCloses
  <2> QED BY <1>3, <2>2 DEF ClientCloses
<1>4. ASSUME ReaderQueues PROVE TypeInv'
  <2>1. Head(reqPipe) \in Frame /\ Tail(reqPipe) \in Seq(Frame)
    BY <1>4, HeadTailProperties DEF ReaderQueues
  <2>2. Head(reqPipe) \in Request
    BY <1>4, <2>1, FrameKinds DEF ReaderQueues
  <2> QED BY <1>4, <2>1, <2>2 DEF ReaderQueues
<1>5. ASSUME ReaderTakesCancel PROVE TypeInv'
  <2>1. Tail(reqPipe) \in Seq(Frame)
    BY <1>5, HeadTailProperties DEF ReaderTakesCancel
  <2> QED BY <1>5, <2>1 DEF ReaderTakesCancel
<1>6. ASSUME ReaderSetsToken PROVE TypeInv'
  BY <1>6 DEF ReaderSetsToken
<1>7. ASSUME ReaderStops PROVE TypeInv'
  BY <1>7 DEF ReaderStops
<1>8. ASSUME MainReceives PROVE TypeInv'
  <2>1. Head(queue) \in Request /\ Tail(queue) \in Seq(Request)
    BY <1>8, HeadTailProperties DEF MainReceives
  <2> QED BY <1>8, <2>1 DEF MainReceives
<1>9. ASSUME MainExits PROVE TypeInv'
  BY <1>9 DEF MainExits
<1>10. ASSUME BeginExecute PROVE TypeInv'
  <2>1. cur \in ExecuteFrame /\ cur \in Request /\ cur.rid \in Rids
    BY <1>10, RequestKinds, RequestFields DEF BeginExecute
  <2>2. CASE Known(cur.parent)
    BY <1>10, <2>1, <2>2 DEF BeginExecute
  <2>3. CASE ~Known(cur.parent)
    <3>1. ReplyTo(cur, "error", -1, {}) \in Reply
      BY <2>1, ReplyToReply
    <3>2. ReplyTo(cur, "error", -1, {}).rid = cur.rid
      BY <2>1, ReplyToReply
    <3> QED BY <1>10, <2>1, <2>3, <3>1, <3>2 DEF BeginExecute
  <2> QED BY <2>2, <2>3
<1>11. ASSUME \E result \in {"clean", "errors", "aborted"} : EndElaboration(result)
       PROVE  TypeInv'
  BY <1>11 DEF EndElaboration
<1>12. ASSUME DecidePublish PROVE TypeInv'
  BY <1>12 DEF DecidePublish
<1>13. ASSUME ReplyCancelled PROVE TypeInv'
  <2>1. cur \in Request /\ cur.parent \in Nat
    BY <1>13 DEF ReplyCancelled, ExecuteFrame
  <2>2. rep' \in Reply /\ rep'.rid = cur.rid
    BY <1>13, <2>1, ReplyToReply DEF ReplyCancelled
  <2> QED BY <1>13, <2>1, <2>2 DEF ReplyCancelled
<1>14. ASSUME ReplyError PROVE TypeInv'
  <2>1. cur \in Request /\ cur.parent \in Nat
    BY <1>14 DEF ReplyError, ExecuteFrame
  <2>2. rep' \in Reply /\ rep'.rid = cur.rid
    BY <1>14, <2>1, ReplyToReply DEF ReplyError
  <2> QED BY <1>14, <2>1, <2>2 DEF ReplyError
<1>15. ASSUME Commit PROVE TypeInv'
  <2>1. Candidate(cur.parent) \in Snapshot
    BY <1>15, CandidateType DEF Commit, Committable
  <2>2. /\ snapshots' \in Seq(Snapshot)
        /\ Len(snapshots') = Len(snapshots) + 1
        /\ Len(snapshots) \in Nat
    BY <1>15, <2>1, AppendFacts DEF Commit, CommitAs
  <2>3. rep' \in Reply /\ rep'.rid = cur.rid
    BY <1>15, <2>2, ReplyToReply DEF Commit, CommitAs, Committable
  <2> QED BY <1>15, <2>2, <2>3 DEF Commit, CommitAs, Committable
<1>16. ASSUME LeaveExecute PROVE TypeInv'
  BY <1>16 DEF LeaveExecute
<1>17. ASSUME BeginInspect PROVE TypeInv'
  BY <1>17 DEF BeginInspect
<1>18. ASSUME EndInspect PROVE TypeInv'
  <2>0. cur \in Request
    BY <1>18 DEF EndInspect
  <2>1. rep' \in Reply /\ rep'.rid = cur.rid
    BY <1>18, <2>0, ReplyToReply DEF EndInspect
  <2> QED BY <1>18, <2>1 DEF EndInspect
<1>19. ASSUME AnswerQuery PROVE TypeInv'
  <2>0. cur \in Request
    BY <1>19 DEF AnswerQuery
  <2>1. rep' \in Reply /\ rep'.rid = cur.rid
    <3>1. rep' = ReplyTo(cur, "ok", current, {})
      BY <1>19 DEF AnswerQuery
    <3> QED BY <2>0, <3>1, ReplyToReply
  <2> QED BY <1>19, <2>1 DEF AnswerQuery
<1>20. ASSUME Refuse PROVE TypeInv'
  <2>0. cur \in Request
    BY <1>20 DEF Refuse
  <2>1. rep' \in Reply /\ rep'.rid = cur.rid
    <3>1. rep' = ReplyTo(cur, "error", -1, {}) \/ rep' = ReplyTo(cur, "unsupported", -1, {})
      BY <1>20 DEF Refuse
    <3> QED BY <2>0, <3>1, ReplyToReply
  <2> QED BY <1>20, <2>1 DEF Refuse
<1>21. ASSUME SaveSession PROVE TypeInv'
  <2>0. cur \in Request
    BY <1>21 DEF SaveSession
  <2>1. rep' \in Reply /\ rep'.rid = cur.rid
    BY <1>21, <2>0, ReplyToReply DEF SaveSession
  <2>2. SnapAt(current).state \in State
    BY StateOfSnapshot
  <2>3. disk' \in Seq(State)
    <3>1. <<SnapAt(current).state>> \in Seq(State)
      BY <2>2
    <3> QED BY <1>21, <3>1 DEF SaveSession
  <2> QED BY <1>21, <2>1, <2>3 DEF SaveSession
<1>22. ASSUME LoadSession PROVE TypeInv'
  <2>1. disk[1] \in State
    BY <1>22, ElementOfSeq, EmptySeq DEF LoadSession
  <2>2. [parent |-> -1, state |-> disk[1]] \in Snapshot
    BY <2>1 DEF Snapshot
  <2>3. /\ snapshots' \in Seq(Snapshot)
        /\ Len(snapshots') = Len(snapshots) + 1
        /\ Len(snapshots) \in Nat
    BY <1>22, <2>2, AppendFacts DEF LoadSession
  <2>4. rep' \in Reply /\ rep'.rid = cur.rid
    <3>1. cur \in Request /\ rep' = ReplyTo(cur, "ok", Len(snapshots), {})
      BY <1>22 DEF LoadSession
    <3>2. Len(snapshots) \in Nat \cup {-1}
      BY <2>3
    <3>3. /\ ReplyTo(cur, "ok", Len(snapshots), {}) \in Reply
          /\ ReplyTo(cur, "ok", Len(snapshots), {}).rid = cur.rid
      BY <3>1, <3>2, ReplyToReply
    <3> QED BY <3>1, <3>3
  <2> QED BY <1>22, <2>3, <2>4 DEF LoadSession
<1>23. ASSUME LoadMisses PROVE TypeInv'
  <2>0. cur \in Request
    BY <1>23 DEF LoadMisses
  <2>1. rep' \in Reply /\ rep'.rid = cur.rid
    <3>1. rep' = ReplyTo(cur, "error", -1, {})
      BY <1>23 DEF LoadMisses
    <3>2. /\ ReplyTo(cur, "error", -1, {}) \in Reply
          /\ ReplyTo(cur, "error", -1, {}).rid = cur.rid
      BY <2>0, ReplyToReply
    <3> QED BY <3>1, <3>2
  <2> QED BY <1>23, <2>1 DEF LoadMisses
<1>24. ASSUME WriteReply PROVE TypeInv'
  BY <1>24 DEF WriteReply, NoLocals
<1>25. ASSUME EmitOutput PROVE TypeInv'
  <2>1. cur.rid \in Rids
    BY <1>25, RequestFields DEF EmitOutput
  <2> QED BY <1>25, <2>1 DEF EmitOutput
<1>26. ASSUME NEW rid \in Rids, LateOutput(rid) PROVE TypeInv'
  BY <1>26 DEF LateOutput
<1>27. ASSUME Die PROVE TypeInv'
  BY <1>27 DEF Die, NoLocals
<1>28. ASSUME UNCHANGED vars PROVE TypeInv'
  BY <1>28 DEF vars
<1> QED
  BY <1>1, <1>2, <1>3, <1>4, <1>5, <1>6, <1>7, <1>8, <1>9, <1>10, <1>11, <1>12,
     <1>13, <1>14, <1>15, <1>16, <1>17, <1>18, <1>19, <1>20, <1>21, <1>22, <1>23,
     <1>24, <1>25, <1>26, <1>27, <1>28
  DEF Next, Client, Reader, Main, Execute, Serve, Emit, Gone

\* The worker's variables keep their types, and the main task's request,
\* parent and reply are what each step of handleRequest needs.
THEOREM TypeCorrect == Spec => []TypeOK
<1>1. TypeInv => TypeOK
  BY DEF TypeInv
<1> QED BY <1>1, InitType, TypeStep, PTL DEF Spec
\* Both together, as the other invariants use them.
LEMMA TypeAlways == Spec => []TypeInv
  BY InitType, TypeStep, PTL DEF Spec

----------------------------------------------------------------------------
(* Cancellation *)

LEMMA CancelInit == Init => CancelInv
  BY DEF Init, CancelInv, CancelHitsOwnRequest

LEMMA CancelStep == TypeInv /\ CancelInv /\ [Next]_vars => CancelInv'
<1> SUFFICES ASSUME TypeInv, CancelInv, [Next]_vars PROVE CancelInv'
  OBVIOUS
<1> USE DEF TypeInv, TypeOK, CancelInv, CancelHitsOwnRequest, chanVars,
        readerVars, sessionVars, elabVars
<1>1. ASSUME NEW f \in Requests, ClientSends(f) PROVE CancelInv'
  <2>1. f \in Frame /\ f.op # "cancel"
    BY RequestsAreRequests, RequestFields DEF Frame, AllOps
  <2> QED BY <1>1, <2>1, AppendFacts DEF ClientSends
<1>2. ASSUME NEW rid \in Rids, ClientCancels(rid) PROVE CancelInv'
  <2>1. [op |-> "cancel", rid |-> rid] \in Frame
    BY DEF Frame, CancelFrame
  <2> QED BY <1>2, <2>1, AppendFacts DEF ClientCancels
<1>3. ASSUME ClientCloses PROVE CancelInv'
  <2>1. Torn \in Frame /\ Torn.op # "cancel"
    BY DEF Frame, Torn
  <2>2. \A i \in 1..Len(Append(reqPipe, Torn)) :
          Append(reqPipe, Torn)[i].op = "cancel" => Append(reqPipe, Torn)[i].rid \in cancels
    BY <2>1, AppendFacts
  <2>3. \A i \in 1..Len(reqPipe') :
          reqPipe'[i].op = "cancel" => reqPipe'[i].rid \in cancels
    BY <1>3, <2>2 DEF ClientCloses
  <2> QED BY <1>3, <2>3 DEF ClientCloses
<1>4. ASSUME ReaderQueues \/ ReaderTakesCancel PROVE CancelInv'
  <2>1. /\ Tail(reqPipe) \in Seq(Frame)
        /\ \A i \in 1..Len(Tail(reqPipe)) :
             i + 1 \in 1..Len(reqPipe) /\ Tail(reqPipe)[i] = reqPipe[i + 1]
    BY <1>4, HeadTailProperties DEF ReaderQueues, ReaderTakesCancel
  <2>2. 1 \in 1..Len(reqPipe) /\ Head(reqPipe) = reqPipe[1]
    BY <1>4 DEF ReaderQueues, ReaderTakesCancel
  <2> QED BY <1>4, <2>1, <2>2 DEF ReaderQueues, ReaderTakesCancel
<1>5. ASSUME ReaderSetsToken PROVE CancelInv'
  BY <1>5 DEF ReaderSetsToken
<1>6. ASSUME ReplyCancelled PROVE CancelInv'
  <2>1. cur \in Request
    BY <1>6 DEF ReplyCancelled, ControlInv, Handling
  <2>2. rep'.rid = cur.rid
    BY <1>6 DEF ReplyCancelled, ReplyTo
  <2> QED BY <1>6, <2>1, <2>2 DEF ReplyCancelled
<1>7. ASSUME WriteReply PROVE CancelInv'
  <2>1. rep \in Reply
    BY <1>7 DEF WriteReply, ControlInv
  <2>2. rep.status = "cancelled" => rep.rid \in cancels
    BY <1>7 DEF WriteReply
  <2>3. \A i \in 1..Len(replies') :
          replies'[i].status = "cancelled" => replies'[i].rid \in cancels
    <3>1. /\ Len(replies') = Len(replies) + 1 /\ Len(replies) \in Nat
          /\ \A i \in 1..Len(replies) : replies'[i] = replies[i]
          /\ replies'[Len(replies) + 1] = rep
      BY <1>7, <2>1, AppendFacts DEF WriteReply
    <3>2. ASSUME NEW i \in 1..Len(replies'), replies'[i].status = "cancelled"
          PROVE  replies'[i].rid \in cancels
      <4>1. CASE i \in 1..Len(replies)
        BY <3>1, <3>2, <4>1
      <4>2. CASE i = Len(replies) + 1
        BY <2>2, <3>1, <3>2, <4>2
      <4>3. i \in 1..Len(replies) \/ i = Len(replies) + 1
        BY <3>1
      <4> QED BY <4>1, <4>2, <4>3
    <3> QED BY <3>2
  <2> QED BY <1>7, <2>3 DEF WriteReply
<1>8. ASSUME \/ BeginExecute \/ ReplyError \/ Commit \/ EndInspect \/ AnswerQuery
             \/ Refuse \/ SaveSession \/ LoadSession \/ LoadMisses
      PROVE  CancelInv'
  <2>1. /\ UNCHANGED <<reqPipe, held, tokens, cancels, replies>>
        /\ pc' \in {"leave", "write"} => rep'.status # "cancelled"
    BY <1>8 DEF BeginExecute, ReplyError, Commit, CommitAs, EndInspect, AnswerQuery,
       Refuse, SaveSession, LoadSession, LoadMisses, ReplyTo
  <2> QED BY <2>1
<1>9. ASSUME \/ ReaderStops \/ MainReceives \/ MainExits \/ DecidePublish
             \/ LeaveExecute \/ BeginInspect \/ EmitOutput \/ UNCHANGED vars
             \/ \E rid \in Rids : LateOutput(rid)
             \/ \E result \in {"clean", "errors", "aborted"} : EndElaboration(result)
      PROVE  CancelInv'
  BY <1>9 DEF ReaderStops, MainReceives, MainExits, DecidePublish, LeaveExecute,
     BeginInspect, EmitOutput, LateOutput, EndElaboration, vars
<1>10. ASSUME Die PROVE CancelInv'
  BY <1>10 DEF Die, NoLocals
<1> QED
  BY <1>1, <1>2, <1>3, <1>4, <1>5, <1>6, <1>7, <1>8, <1>9, <1>10
  DEF Next, Client, Reader, Main, Execute, Serve, Emit, Gone

\* A reply says "cancelled" only to a request that the client itself cancelled,
\* whatever tokens and in-flight slot the cancel frames meet.
THEOREM CancelSafe == Spec => []CancelHitsOwnRequest
<1>1. CancelInv => CancelHitsOwnRequest
  BY DEF CancelInv
<1> QED BY <1>1, CancelInit, CancelStep, TypeAlways, PTL DEF Spec

----------------------------------------------------------------------------
(* Cell atomicity *)

LEMMA WholeAppend ==
  ASSUME NEW s \in State, Whole(s), NEW c \in Cell, c.whole
  PROVE  Whole(Append(s, c))
  BY AppendFacts DEF Whole, State

LEMMA AtomicInit == Init => AtomicInv
<1> SUFFICES ASSUME Init PROVE AtomicInv
  OBVIOUS
<1>1. \A i \in 1..Len(snapshots) : Whole(snapshots[i].state)
  BY PreludeType DEF Init, Prelude, Whole
<1>2. \A i \in 1..Len(disk) : Whole(disk[i])
  BY DEF Init, SavedBefore, Whole
<1> QED BY <1>1, <1>2 DEF Init, AtomicInv, CellsAreWhole

\* The reading of the token before the commit is what makes the candidate whole.
LEMMA CandidateWhole ==
  ASSUME TypeInv, AtomicInv, Committable
  PROVE  Whole(Candidate(cur.parent).state)
<1>1. elab = "clean"
  BY DEF Committable, AtomicInv, TypeInv, TypeOK
<1>2. cur \in ExecuteFrame /\ Known(cur.parent)
  BY DEF Committable, TypeInv, ControlInv
<1>3. cur.parent \in Nat /\ cur.code \in Codes
  BY <1>2 DEF ExecuteFrame
<1>4. SnapAt(cur.parent).state \in State
  BY <1>2, <1>3, StateOfSnapshot DEF TypeInv
<1>5. Whole(SnapAt(cur.parent).state)
  <2>1. cur.parent + 1 \in 1..Len(snapshots)
    BY <1>2, <1>3 DEF Known, TypeInv, TypeOK
  <2> QED BY <2>1 DEF AtomicInv, CellsAreWhole, SnapAt
<1>6. [code |-> cur.code, whole |-> elab = "clean"] \in Cell
  BY <1>3 DEF Cell
<1> QED BY <1>1, <1>4, <1>5, <1>6, WholeAppend DEF Candidate

LEMMA AtomicStep == TypeInv /\ AtomicInv /\ [Next]_vars => AtomicInv'
<1> SUFFICES ASSUME TypeInv, AtomicInv, [Next]_vars PROVE AtomicInv'
  OBVIOUS
<1> USE DEF AtomicInv, CellsAreWhole, chanVars, readerVars, sessionVars, elabVars
<1>1. ASSUME ReaderSetsToken PROVE AtomicInv'
  BY <1>1 DEF ReaderSetsToken
<1>2. ASSUME \E result \in {"clean", "errors", "aborted"} : EndElaboration(result)
      PROVE  AtomicInv'
  BY <1>2 DEF EndElaboration
<1>3. ASSUME Commit PROVE AtomicInv'
  <2>1. Candidate(cur.parent) \in Snapshot /\ Whole(Candidate(cur.parent).state)
    BY <1>3, CandidateType, CandidateWhole DEF Commit, Committable
  <2>2. snapshots \in Seq(Snapshot)
    BY DEF TypeInv, TypeOK
  <2>3. \A i \in 1..Len(snapshots') : Whole(snapshots'[i].state)
    BY <1>3, <2>1, <2>2, AppendFacts DEF Commit, CommitAs
  <2> QED BY <1>3, <2>3 DEF Commit, CommitAs
<1>4. ASSUME SaveSession PROVE AtomicInv'
  <2>1. current + 1 \in 1..Len(snapshots)
    BY DEF TypeInv, TypeOK, ControlInv, Known
  <2>2. Whole(SnapAt(current).state)
    BY <2>1 DEF SnapAt
  <2>3. \A i \in 1..Len(disk') : Whole(disk'[i])
    BY <1>4, <2>2 DEF SaveSession
  <2> QED BY <1>4, <2>3 DEF SaveSession
<1>5. ASSUME LoadSession PROVE AtomicInv'
  <2>1. 1 \in 1..Len(disk) /\ disk[1] \in State
    BY <1>5, EmptySeq, ElementOfSeq DEF LoadSession, TypeInv, TypeOK
  <2>2. [parent |-> -1, state |-> disk[1]] \in Snapshot
    BY <2>1 DEF Snapshot
  <2>3. snapshots \in Seq(Snapshot) /\ Whole(disk[1])
    BY <2>1 DEF TypeInv, TypeOK
  <2>4. \A i \in 1..Len(snapshots') : Whole(snapshots'[i].state)
    BY <1>5, <2>2, <2>3, AppendFacts DEF LoadSession
  <2> QED BY <1>5, <2>4 DEF LoadSession
<1>6. ASSUME Die \/ WriteReply PROVE AtomicInv'
  BY <1>6 DEF Die, WriteReply, NoLocals
<1>7. ASSUME \/ \E f \in Requests : ClientSends(f)
             \/ \E rid \in Rids : ClientCancels(rid)
             \/ ClientCloses \/ ReaderQueues \/ ReaderTakesCancel \/ ReaderStops
             \/ MainReceives \/ MainExits \/ BeginExecute
      PROVE  AtomicInv'
  BY <1>7 DEF ClientSends, ClientCancels, ClientCloses, ReaderQueues,
     ReaderTakesCancel, ReaderStops, MainReceives, MainExits, BeginExecute
<1>8. ASSUME \/ DecidePublish \/ ReplyCancelled \/ ReplyError \/ LeaveExecute
             \/ BeginInspect \/ EndInspect \/ AnswerQuery \/ Refuse \/ LoadMisses
             \/ EmitOutput \/ (\E rid \in Rids : LateOutput(rid)) \/ UNCHANGED vars
      PROVE  AtomicInv'
  BY <1>8 DEF DecidePublish, ReplyCancelled, ReplyError, LeaveExecute, BeginInspect,
     EndInspect, AnswerQuery, Refuse, LoadMisses, EmitOutput, LateOutput, vars
<1> QED
  BY <1>1, <1>2, <1>3, <1>4, <1>5, <1>6, <1>7, <1>8
  DEF Next, Client, Reader, Main, Execute, Serve, Emit, Gone

\* Cell atomicity: neither a failed cell nor one that a cancellation cut short
\* is ever part of a snapshot or of a saved session.
THEOREM AtomicCells == Spec => []CellsAreWhole
<1>1. AtomicInv => CellsAreWhole
  BY DEF AtomicInv
<1> QED BY <1>1, AtomicInit, AtomicStep, TypeAlways, PTL DEF Spec
----------------------------------------------------------------------------
(* Persistence of snapshots *)

LEMMA PersistentStep ==
  ASSUME TypeInv, [Next]_vars
  PROVE  /\ Len(snapshots') >= Len(snapshots)
         /\ \A i \in 1..Len(snapshots) : snapshots'[i] = snapshots[i]
<1> USE DEF chanVars, readerVars, sessionVars, elabVars
<1>1. snapshots \in Seq(Snapshot)
  BY DEF TypeInv, TypeOK
<1>2. CASE Commit
  <2>1. Candidate(cur.parent) \in Snapshot
    BY <1>2, CandidateType DEF Commit, Committable
  <2> QED BY <1>1, <1>2, <2>1, AppendFacts DEF Commit, CommitAs
<1>3. CASE LoadSession
  <2>1. disk[1] \in State
    BY <1>3, EmptySeq, ElementOfSeq DEF LoadSession, TypeInv, TypeOK
  <2>2. [parent |-> -1, state |-> disk[1]] \in Snapshot
    BY <2>1 DEF Snapshot
  <2> QED BY <1>1, <1>3, <2>2, AppendFacts DEF LoadSession
<1>4. CASE ~Commit /\ ~LoadSession
  <2>1. UNCHANGED snapshots
    BY <1>4 DEF Next, Client, Reader, Main, Execute, Serve, Emit, Gone, ClientSends,
       ClientCancels, ClientCloses, ReaderQueues, ReaderTakesCancel, ReaderSetsToken,
       ReaderStops, MainReceives, MainExits, BeginExecute, EndElaboration,
       DecidePublish, ReplyCancelled, ReplyError, LeaveExecute, BeginInspect,
       EndInspect, AnswerQuery, Refuse, SaveSession, LoadMisses, WriteReply,
       EmitOutput, LateOutput, Die, vars
  <2> QED BY <1>1, <2>1
<1> QED BY <1>2, <1>3, <1>4

\* The id of a committed snapshot names the same state for the worker's life.
THEOREM Persistent == Spec => SnapshotsArePersistent
<1>1. TypeInv /\ [Next]_vars =>
        [/\ Len(snapshots') >= Len(snapshots)
         /\ \A i \in 1..Len(snapshots) : snapshots'[i] = snapshots[i]]_snapshots
  BY PersistentStep
<1> QED BY <1>1, TypeAlways, PTL DEF Spec, SnapshotsArePersistent
----------------------------------------------------------------------------
(* The snapshot DAG *)

LEMMA DropLast ==
  ASSUME NEW S, NEW s \in Seq(S), NEW e \in S
  PROVE  /\ Append(s, e) # <<>>
         /\ SubSeq(Append(s, e), 1, Len(Append(s, e)) - 1) = s
<1>1. /\ Append(s, e) \in Seq(S) /\ Len(Append(s, e)) = Len(s) + 1 /\ Len(s) \in Nat
      /\ \A i \in 1..Len(s) : Append(s, e)[i] = s[i] /\ s[i] \in S
  BY AppendFacts, ElementOfSeq
<1>2. /\ SubSeq(Append(s, e), 1, Len(s)) \in Seq(S)
      /\ Len(SubSeq(Append(s, e), 1, Len(s))) = Len(s)
      /\ \A i \in 1..Len(s) : SubSeq(Append(s, e), 1, Len(s))[i] = s[i]
  BY <1>1, SubSeqProperties
<1>3. SubSeq(Append(s, e), 1, Len(s)) = s
  BY <1>2, SeqEqual
<1> QED BY <1>1, <1>3

\* A snapshot with a parent that is older, and with one cell more.
Grown(s, seq) ==
  /\ s.parent < Len(seq)
  /\ s.state # <<>>
  /\ SubSeq(s.state, 1, Len(s.state) - 1) = seq[s.parent + 1].state

LEMMA DagPush ==
  ASSUME TypeInv, SnapshotDag, NEW s \in Snapshot,
         s.parent # -1 => Grown(s, snapshots),
         snapshots' = Append(snapshots, s), current' = Len(snapshots)
  PROVE  SnapshotDag'
<1>1. /\ snapshots \in Seq(Snapshot) /\ Len(snapshots) \in Nat
      /\ Len(snapshots') = Len(snapshots) + 1
      /\ \A i \in 1..Len(snapshots) : snapshots'[i] = snapshots[i]
      /\ snapshots'[Len(snapshots) + 1] = s
  BY AppendFacts DEF TypeInv, TypeOK
<1>2. \A i \in 1..Len(snapshots) : snapshots[i].parent \in Nat \cup {-1}
  <2>1. \A i \in 1..Len(snapshots) : snapshots[i] \in Snapshot
    BY <1>1, ElementOfSeq
  <2> QED BY <2>1 DEF Snapshot
<1>3. ASSUME NEW i \in 1..Len(snapshots'), snapshots'[i].parent # -1
      PROVE  /\ snapshots'[i].parent < i - 1
             /\ snapshots'[i].state # <<>>
             /\ SubSeq(snapshots'[i].state, 1, Len(snapshots'[i].state) - 1)
                  = snapshots'[snapshots'[i].parent + 1].state
  <2>1. CASE i \in 1..Len(snapshots)
    <3>1. snapshots'[i] = snapshots[i] /\ snapshots[i].parent < i - 1
      BY <1>1, <1>3, <2>1 DEF SnapshotDag
    <3>2. snapshots[i].parent + 1 \in 1..Len(snapshots)
      BY <1>1, <1>2, <1>3, <2>1, <3>1
    <3> QED BY <1>1, <1>3, <2>1, <3>1, <3>2 DEF SnapshotDag, SnapAt
  <2>2. CASE i = Len(snapshots) + 1
    <3>1. s.parent \in Nat /\ Grown(s, snapshots)
      BY <1>1, <1>3, <2>2 DEF Snapshot
    <3>2. s.parent + 1 \in 1..Len(snapshots)
      BY <1>1, <3>1 DEF Grown
    <3> QED BY <1>1, <2>2, <3>1, <3>2 DEF Grown
  <2>3. i \in 1..Len(snapshots) \/ i = Len(snapshots) + 1
    BY <1>1
  <2> QED BY <2>1, <2>2, <2>3
<1>4. current' < Len(snapshots')
  BY <1>1
<1> QED BY <1>3, <1>4 DEF SnapshotDag, SnapAt

LEMMA DagStep == TypeInv /\ SnapshotDag /\ [Next]_vars => SnapshotDag'
<1> SUFFICES ASSUME TypeInv, SnapshotDag, [Next]_vars PROVE SnapshotDag'
  OBVIOUS
<1> USE DEF chanVars, readerVars, sessionVars, elabVars
<1>1. CASE Commit
  <2>1. Candidate(cur.parent) \in Snapshot
    BY <1>1, CandidateType DEF Commit, Committable
  <2>2. cur \in ExecuteFrame /\ Known(cur.parent)
    BY <1>1 DEF Commit, Committable, TypeInv, ControlInv
  <2>3. cur.parent \in Nat /\ cur.code \in Codes
    BY <2>2 DEF ExecuteFrame
  <2>4. SnapAt(cur.parent).state \in Seq(Cell)
    BY <2>2, <2>3, StateOfSnapshot DEF TypeInv, State
  <2>5. [code |-> cur.code, whole |-> elab = "clean"] \in Cell
    BY <2>3 DEF Cell
  <2>6. Grown(Candidate(cur.parent), snapshots)
    BY <2>2, <2>4, <2>5, DropLast DEF Grown, Candidate, Known, SnapAt
  <2> QED BY <1>1, <2>1, <2>6, DagPush DEF Commit, CommitAs
<1>2. CASE LoadSession
  <2>1. disk[1] \in State
    BY <1>2, EmptySeq, ElementOfSeq DEF LoadSession, TypeInv, TypeOK
  <2>2. [parent |-> -1, state |-> disk[1]] \in Snapshot
    BY <2>1 DEF Snapshot
  <2> QED BY <1>2, <2>2, DagPush DEF LoadSession
<1>3. CASE ~Commit /\ ~LoadSession
  <2>1. UNCHANGED <<snapshots, current>>
    BY <1>3 DEF Next, Client, Reader, Main, Execute, Serve, Emit, Gone, ClientSends,
       ClientCancels, ClientCloses, ReaderQueues, ReaderTakesCancel, ReaderSetsToken,
       ReaderStops, MainReceives, MainExits, BeginExecute, EndElaboration,
       DecidePublish, ReplyCancelled, ReplyError, LeaveExecute, BeginInspect,
       EndInspect, AnswerQuery, Refuse, SaveSession, LoadMisses, WriteReply,
       EmitOutput, LateOutput, Die, vars
  <2> QED BY <2>1 DEF SnapshotDag, SnapAt
<1> QED BY <1>1, <1>2, <1>3

\* Every snapshot is its parent's state and one cell more, parents are older,
\* and the current snapshot exists.
THEOREM DagCorrect == Spec => []SnapshotDag
<1>1. Init => SnapshotDag
  BY PreludeType DEF Init, SnapshotDag, Prelude
<1> QED BY <1>1, DagStep, TypeAlways, PTL DEF Spec
----------------------------------------------------------------------------
(* Order of the replies *)

LEMMA OrderInit == Init => OrderInv
  BY DEF Init, OrderInv, OrderAhead, RepliesInOrder, Served, Handling, Alive, Piped

\* OrderAhead for one frame of the pipe, and for two.
LEMMA OrderNext ==
  ASSUME OrderAhead, NEW i \in 1..Len(reqPipe), Piped(i)
  PROVE  \E n \in Served + Len(queue) + 1 .. Len(sent) : reqPipe[i].rid = sent[n]
  BY DEF OrderAhead

LEMMA OrderPair ==
  ASSUME OrderAhead, NEW i \in 1..Len(reqPipe), NEW j \in 1..Len(reqPipe),
         Piped(i), Piped(j), i < j,
         NEW m \in 1..Len(sent), NEW n \in 1..Len(sent),
         reqPipe[i].rid = sent[m], reqPipe[j].rid = sent[n]
  PROVE  m < n
  BY DEF OrderAhead

\* The next ordinary frame of the pipe is the next request of `sent`.
LEMMA NextPiped ==
  ASSUME TypeInv, OrderInv, Alive, reqPipe # <<>>, Piped(1)
  PROVE  /\ Served + Len(queue) + 1 \in 1..Len(sent)
         /\ reqPipe[1].rid = sent[Served + Len(queue) + 1]
<1> DEFINE next == Served + Len(queue) + 1
<1>1. OrderAhead
  BY DEF OrderInv
<1>2. Served \in Nat /\ Len(queue) \in Nat /\ Len(sent) \in Nat
  BY DEF Served, TypeInv, TypeOK
<1>3. PICK k \in next .. Len(sent) : reqPipe[1].rid = sent[k]
  BY <1>1 DEF OrderAhead, Piped
<1>4. next \in 1..Len(sent) /\ k \in 1..Len(sent) /\ next \in next .. Len(sent)
  BY <1>2, <1>3
<1>5. PICK i \in 1..Len(reqPipe) : Piped(i) /\ reqPipe[i].rid = sent[next]
  BY <1>1, <1>4 DEF OrderAhead
<1>6. ~(1 < i)
  <2> SUFFICES ASSUME 1 < i PROVE k < next
    BY <1>2, <1>3
  <2>1. 1 \in 1..Len(reqPipe) /\ 1 < i
    BY <1>5
  <2> HIDE DEF next
  <2> QED BY <1>1, <1>3, <1>4, <1>5, <2>1, OrderPair
<1>7. i = 1
  BY <1>6
<1> QED BY <1>4, <1>5, <1>7

LEMMA OrderClientSends ==
  ASSUME TypeInv, OrderInv, NEW f \in Requests, ClientSends(f)
  PROVE  OrderInv'
<1>1. f \in Request /\ f \in Frame /\ f.rid \in Rids /\ f.op \in AllOps
  BY RequestsAreRequests, RequestFields DEF Frame
<1>2. \A n \in 1..Len(sent) : sent[n] # f.rid
  BY RequestsAreRequests
<1>3. /\ Len(sent') = Len(sent) + 1 /\ Len(sent) \in Nat
      /\ \A n \in 1..Len(sent) : sent'[n] = sent[n]
      /\ sent'[Len(sent) + 1] = f.rid
  BY <1>1, AppendFacts DEF ClientSends, TypeInv, TypeOK
<1>4. /\ Len(reqPipe') = Len(reqPipe) + 1 /\ Len(reqPipe) \in Nat
      /\ \A i \in 1..Len(reqPipe) : reqPipe'[i] = reqPipe[i]
      /\ reqPipe'[Len(reqPipe) + 1] = f
  BY <1>1, AppendFacts DEF ClientSends, TypeInv, TypeOK
<1>5. UNCHANGED <<queue, replies, pc, cur>>
  BY DEF ClientSends, elabVars, sessionVars, readerVars
<1>6. /\ Served \in Nat /\ Served' = Served /\ Len(queue) \in Nat /\ Len(replies) \in Nat
  BY <1>5 DEF Served, Handling, TypeInv, TypeOK
<1>7. \A m, n \in 1..Len(sent') : sent'[m] = sent'[n] => m = n
  BY <1>2, <1>3 DEF OrderInv
<1>8. RepliesInOrder'
  BY <1>3, <1>5, <1>6 DEF OrderInv, RepliesInOrder
<1>9. (pc \in Handling => Served <= Len(sent) /\ cur.rid = sent[Served])'
  <2>1. pc \in Handling => Served \in 1..Len(sent)
    BY <1>6 DEF OrderInv, Served
  <2> QED BY <1>3, <1>5, <1>6, <2>1 DEF OrderInv
<1>10. ASSUME Alive PROVE OrderAhead'
  <2>1. OrderAhead
    BY <1>10 DEF OrderInv
  <2>2. \A i \in 1..Len(reqPipe) : Piped(i)' <=> Piped(i)
    BY <1>4 DEF Piped
  <2>3. (Served + Len(queue) <= Len(sent))'
    BY <1>3, <1>5, <1>6, <2>1 DEF OrderAhead
  <2>4. (\A i \in 1..Len(queue) : queue[i].rid = sent[Served + i])'
    BY <1>3, <1>5, <1>6, <2>1 DEF OrderAhead
  <2>5. ASSUME NEW n \in Served + Len(queue) + 1 .. Len(sent')
        PROVE  \E i \in 1..Len(reqPipe') : Piped(i)' /\ reqPipe'[i].rid = sent'[n]
    <3>1. CASE n = Len(sent) + 1
      <4>1. PICK i \in 1..Len(reqPipe') : i = Len(reqPipe) + 1
        BY <1>4
      <4>2. Piped(i)'
        BY <1>1, <1>4, <4>1 DEF Piped
      <4> QED BY <1>3, <1>4, <3>1, <4>1, <4>2
    <3>2. CASE n # Len(sent) + 1
      <4>1. n \in Served + Len(queue) + 1 .. Len(sent)
        BY <1>3, <1>6, <3>2
      <4>2. PICK i \in 1..Len(reqPipe) : Piped(i) /\ reqPipe[i].rid = sent[n]
        BY <2>1, <4>1 DEF OrderAhead
      <4>3. n \in 1..Len(sent) /\ i \in 1..Len(reqPipe')
        BY <1>4, <1>6, <4>1
      <4> QED BY <1>3, <1>4, <2>2, <4>2, <4>3
    <3> QED BY <3>1, <3>2
  <2>6. ASSUME NEW i \in 1..Len(reqPipe'), Piped(i)'
        PROVE  \E n \in Served + Len(queue) + 1 .. Len(sent') : reqPipe'[i].rid = sent'[n]
    <3>1. CASE i = Len(reqPipe) + 1
      <4>1. Len(sent) + 1 \in Served + Len(queue) + 1 .. Len(sent')
        BY <1>3, <1>6, <2>1 DEF OrderAhead
      <4> QED BY <1>3, <1>4, <3>1, <4>1
    <3>2. CASE i \in 1..Len(reqPipe)
      <4>1. PICK n \in Served + Len(queue) + 1 .. Len(sent) : reqPipe[i].rid = sent[n]
        BY <2>1, <2>2, <2>6, <3>2 DEF OrderAhead
      <4>2. n \in 1..Len(sent) /\ n \in Served + Len(queue) + 1 .. Len(sent')
        BY <1>3, <1>6, <4>1
      <4> QED BY <1>3, <1>4, <3>2, <4>1, <4>2
    <3> QED BY <1>4, <3>1, <3>2
  <2>7. ASSUME NEW i \in 1..Len(reqPipe'), NEW j \in 1..Len(reqPipe'),
               Piped(i)', Piped(j)', i < j,
               NEW m \in 1..Len(sent'), NEW n \in 1..Len(sent'),
               reqPipe'[i].rid = sent'[m], reqPipe'[j].rid = sent'[n]
        PROVE  m < n
    <3>1. i \in 1..Len(reqPipe) /\ Piped(i) /\ reqPipe'[i] = reqPipe[i]
      BY <1>4, <2>2, <2>7
    <3>2. PICK k \in Served + Len(queue) + 1 .. Len(sent) : reqPipe[i].rid = sent[k]
      BY <2>1, <3>1 DEF OrderAhead
    <3>3. k \in 1..Len(sent) /\ sent'[k] = sent[k] /\ k \in 1..Len(sent')
      BY <1>3, <1>6, <3>2
    <3>4. m = k
      BY <1>7, <2>7, <3>1, <3>2, <3>3
    <3>5. CASE j = Len(reqPipe) + 1
      <4>1. sent'[n] = f.rid
        BY <1>4, <2>7, <3>5
      <4>2. n = Len(sent) + 1
        BY <1>2, <1>3, <4>1
      <4> QED BY <1>3, <3>3, <3>4, <4>2
    <3>6. CASE j \in 1..Len(reqPipe)
      <4>1. Piped(j) /\ reqPipe'[j] = reqPipe[j]
        BY <1>4, <2>2, <2>7, <3>6
      <4>2. PICK h \in Served + Len(queue) + 1 .. Len(sent) : reqPipe[j].rid = sent[h]
        BY <2>1, <3>6, <4>1 DEF OrderAhead
      <4>3. h \in 1..Len(sent) /\ sent'[h] = sent[h] /\ h \in 1..Len(sent')
        BY <1>3, <1>6, <4>2
      <4>4. n = h
        BY <1>7, <2>7, <4>1, <4>2, <4>3
      <4>5. reqPipe[i].rid = sent[k] /\ reqPipe[j].rid = sent[h]
        BY <3>2, <4>2
      <4>6. k < h
        BY <2>1, <2>7, <3>1, <3>3, <3>6, <4>1, <4>3, <4>5 DEF OrderAhead
      <4> QED BY <3>4, <4>4, <4>6
    <3> QED BY <1>4, <3>5, <3>6
  <2>8. Served' + Len(queue') + 1 = Served + Len(queue) + 1
    BY <1>5, <1>6
  <2>9. (\A n \in Served + Len(queue) + 1 .. Len(sent) :
           \E i \in 1..Len(reqPipe) : Piped(i) /\ reqPipe[i].rid = sent[n])'
    BY <2>5, <2>8
  <2>10. (\A i \in 1..Len(reqPipe) : Piped(i) =>
            \E n \in Served + Len(queue) + 1 .. Len(sent) : reqPipe[i].rid = sent[n])'
    BY <2>6, <2>8
  <2>11. (\A i, j \in 1..Len(reqPipe) : Piped(i) /\ Piped(j) /\ i < j =>
            \A m, n \in 1..Len(sent) :
              reqPipe[i].rid = sent[m] /\ reqPipe[j].rid = sent[n] => m < n)'
    BY <2>7
  <2> QED BY <2>3, <2>4, <2>9, <2>10, <2>11, Zenon DEF OrderAhead
<1> QED BY <1>5, <1>7, <1>8, <1>9, <1>10 DEF OrderInv, Alive

\* The pipe changes, without an ordinary frame more or less.
LEMMA OrderPipe ==
  ASSUME TypeInv, OrderInv, UNCHANGED <<queue, replies, pc, cur, sent>>,
         NEW d \in {0, 1},
         \A i \in 1..Len(reqPipe) : Piped(i) => i - d \in 1..Len(reqPipe')
                                              /\ reqPipe'[i - d] = reqPipe[i],
         \A i \in 1..Len(reqPipe') : Piped(i)' => Piped(i + d) /\ reqPipe'[i] = reqPipe[i + d]
  PROVE  OrderInv'
<1>1. Served' = Served
  BY DEF Served
<1>2. ASSUME Alive PROVE OrderAhead'
  <2>1. OrderAhead
    BY <1>2 DEF OrderInv
  <2>2. ASSUME NEW n \in Served + Len(queue) + 1 .. Len(sent)
        PROVE  \E i \in 1..Len(reqPipe') : Piped(i)' /\ reqPipe'[i].rid = sent[n]
    <3>1. PICK i \in 1..Len(reqPipe) : Piped(i) /\ reqPipe[i].rid = sent[n]
      BY <2>1 DEF OrderAhead
    <3>2. PICK k \in 1..Len(reqPipe') : k = i - d /\ reqPipe'[k] = reqPipe[i]
      BY <3>1
    <3>3. Piped(k)'
      BY <3>1, <3>2 DEF Piped
    <3> QED BY <3>1, <3>2, <3>3
  <2>3. ASSUME NEW i \in 1..Len(reqPipe'), Piped(i)'
        PROVE  \E n \in Served + Len(queue) + 1 .. Len(sent) : reqPipe'[i].rid = sent[n]
    <3>1. Piped(i + d) /\ reqPipe'[i] = reqPipe[i + d]
      BY <2>3
    <3>2. PICK k \in 1..Len(reqPipe) : Piped(k) /\ reqPipe'[i] = reqPipe[k]
      BY <3>1 DEF Piped
    <3>3. PICK n \in Served + Len(queue) + 1 .. Len(sent) : reqPipe[k].rid = sent[n]
      BY <2>1, <3>2, OrderNext
    <3> QED BY <3>2, <3>3
  <2>4. ASSUME NEW i \in 1..Len(reqPipe'), NEW j \in 1..Len(reqPipe'),
               Piped(i)', Piped(j)', i < j,
               NEW m \in 1..Len(sent), NEW n \in 1..Len(sent),
               reqPipe'[i].rid = sent[m], reqPipe'[j].rid = sent[n]
        PROVE  m < n
    <3>1. PICK k \in 1..Len(reqPipe) : k = i + d /\ Piped(k) /\ reqPipe[k].rid = sent[m]
      <4>1. Piped(i + d) /\ reqPipe'[i] = reqPipe[i + d]
        BY <2>4
      <4>2. i + d \in 1..Len(reqPipe)
        BY <4>1 DEF Piped
      <4> QED BY <2>4, <4>1, <4>2
    <3>2. PICK l \in 1..Len(reqPipe) : l = j + d /\ Piped(l) /\ reqPipe[l].rid = sent[n]
      <4>1. Piped(j + d) /\ reqPipe'[j] = reqPipe[j + d]
        BY <2>4
      <4>2. j + d \in 1..Len(reqPipe)
        BY <4>1 DEF Piped
      <4> QED BY <2>4, <4>1, <4>2
    <3>3. k < l
      BY <2>4, <3>1, <3>2
    <3> QED BY <2>1, <3>1, <3>2, <3>3, OrderPair
  <2>5. (Served + Len(queue) <= Len(sent)
         /\ \A i \in 1..Len(queue) : queue[i].rid = sent[Served + i])'
    BY <1>1, <2>1 DEF OrderAhead
  <2>6. (\A n \in Served + Len(queue) + 1 .. Len(sent) :
           \E i \in 1..Len(reqPipe) : Piped(i) /\ reqPipe[i].rid = sent[n])'
    BY <1>1, <2>2
  <2>7. (\A i \in 1..Len(reqPipe) : Piped(i) =>
            \E n \in Served + Len(queue) + 1 .. Len(sent) : reqPipe[i].rid = sent[n])'
    BY <1>1, <2>3
  <2>8. (\A i, j \in 1..Len(reqPipe) : Piped(i) /\ Piped(j) /\ i < j =>
            \A m, n \in 1..Len(sent) :
              reqPipe[i].rid = sent[m] /\ reqPipe[j].rid = sent[n] => m < n)'
    BY <2>4
  <2> QED BY <2>5, <2>6, <2>7, <2>8, Zenon DEF OrderAhead
<1>3. RepliesInOrder' /\ (\A m, n \in 1..Len(sent) : sent[m] = sent[n] => m = n)'
  BY DEF OrderInv, RepliesInOrder
<1>4. (pc \in Handling => Served <= Len(sent) /\ cur.rid = sent[Served])'
  BY <1>1 DEF OrderInv
<1> QED BY <1>2, <1>3, <1>4 DEF OrderInv, Alive

\* A cancel or a torn frame is appended.
LEMMA OrderExtraFrame ==
  ASSUME TypeInv, OrderInv, UNCHANGED <<queue, replies, pc, cur, sent>>,
         NEW f \in Frame, f.op \notin AllOps, reqPipe' = Append(reqPipe, f)
  PROVE  OrderInv'
<1>1. /\ Len(reqPipe') = Len(reqPipe) + 1 /\ Len(reqPipe) \in Nat
      /\ \A i \in 1..Len(reqPipe) : reqPipe'[i] = reqPipe[i]
      /\ reqPipe'[Len(reqPipe) + 1] = f
  BY AppendFacts DEF TypeInv, TypeOK
<1>2. \A i \in 1..Len(reqPipe) : Piped(i) => i - 0 \in 1..Len(reqPipe')
                                            /\ reqPipe'[i - 0] = reqPipe[i]
  BY <1>1
<1>3. ASSUME NEW i \in 1..Len(reqPipe'), Piped(i)'
      PROVE  Piped(i + 0) /\ reqPipe'[i] = reqPipe[i + 0]
  <2>1. i # Len(reqPipe) + 1
    BY <1>1, <1>3 DEF Piped
  <2>2. i \in 1..Len(reqPipe) /\ i + 0 = i
    BY <1>1, <2>1
  <2> QED BY <1>1, <1>3, <2>2 DEF Piped
<1> QED BY <1>2, <1>3, OrderPipe

LEMMA OrderReaderTakesCancel ==
  ASSUME TypeInv, OrderInv, ReaderTakesCancel
  PROVE  OrderInv'
<1>1. /\ Len(reqPipe') = Len(reqPipe) - 1 /\ Len(reqPipe) \in Nat
      /\ \A i \in 1..Len(reqPipe') : reqPipe'[i] = reqPipe[i + 1]
  BY HeadTailProperties DEF ReaderTakesCancel, TypeInv, TypeOK
<1>2. ~Piped(1)
  BY DEF ReaderTakesCancel, Piped, AllOps
<1>3. ASSUME NEW i \in 1..Len(reqPipe), Piped(i)
      PROVE  i - 1 \in 1..Len(reqPipe') /\ reqPipe'[i - 1] = reqPipe[i]
  <2>1. i # 1
    BY <1>2, <1>3
  <2>2. i - 1 \in 1..Len(reqPipe') /\ (i - 1) + 1 = i
    BY <1>1, <2>1
  <2> QED BY <1>1, <2>2
<1>4. ASSUME NEW i \in 1..Len(reqPipe'), Piped(i)'
      PROVE  Piped(i + 1) /\ reqPipe'[i] = reqPipe[i + 1]
  BY <1>1, <1>4 DEF Piped
<1>5. UNCHANGED <<queue, replies, pc, cur, sent>>
  BY DEF ReaderTakesCancel, elabVars, sessionVars
<1> QED BY <1>3, <1>4, <1>5, OrderPipe

LEMMA OrderReaderQueues ==
  ASSUME TypeInv, OrderInv, ReaderQueues
  PROVE  OrderInv'
<1> DEFINE next == Served + Len(queue) + 1
<1>1. Alive /\ OrderAhead /\ Piped(1) /\ Head(reqPipe) = reqPipe[1]
  BY HeadTailProperties DEF ReaderQueues, Reading, OrderInv, Piped, TypeInv, TypeOK
<1>2. next \in 1..Len(sent) /\ reqPipe[1].rid = sent[next]
  BY <1>1, NextPiped DEF ReaderQueues
<1>3. Head(reqPipe) \in Frame
  BY HeadTailProperties DEF ReaderQueues, TypeInv, TypeOK
<1>4. Head(reqPipe) \in Request
  BY <1>3, FrameKinds DEF ReaderQueues
<1>5. /\ Len(queue') = Len(queue) + 1 /\ Len(queue) \in Nat
      /\ \A i \in 1..Len(queue) : queue'[i] = queue[i]
      /\ queue'[Len(queue) + 1] = reqPipe[1]
  BY <1>1, <1>4, AppendFacts DEF ReaderQueues, TypeInv, TypeOK
<1>6. /\ Len(reqPipe') = Len(reqPipe) - 1 /\ Len(reqPipe) \in Nat
      /\ \A i \in 1..Len(reqPipe') : reqPipe'[i] = reqPipe[i + 1]
  BY HeadTailProperties DEF ReaderQueues, TypeInv, TypeOK
<1>7. UNCHANGED <<sent, replies, pc, cur>>
  BY DEF ReaderQueues, elabVars, sessionVars
<1>8. Served' = Served /\ Served \in Nat /\ Len(sent) \in Nat
  BY <1>7 DEF Served, TypeInv, TypeOK
<1>9. (Served + Len(queue) <= Len(sent))'
  BY <1>2, <1>5, <1>7, <1>8
<1>10. (\A i \in 1..Len(queue) : queue[i].rid = sent[Served + i])'
  <2> SUFFICES ASSUME NEW i \in 1..Len(queue')
               PROVE  queue'[i].rid = sent[Served + i]
    BY <1>7, <1>8
  <2>1. CASE i \in 1..Len(queue)
    BY <1>1, <1>5, <2>1 DEF OrderAhead
  <2>2. CASE i = Len(queue) + 1
    <3>1. Served + i = next
      BY <1>5, <1>8, <2>2
    <3> QED BY <1>2, <1>5, <2>2, <3>1
  <2> QED BY <1>5, <2>1, <2>2
<1>11. ASSUME NEW n \in next + 1 .. Len(sent)
       PROVE  \E i \in 1..Len(reqPipe') : Piped(i)' /\ reqPipe'[i].rid = sent[n]
  <2>1. n \in next .. Len(sent) /\ n \in 1..Len(sent) /\ n # next
    BY <1>2, <1>8, <1>5
  <2>2. PICK i \in 1..Len(reqPipe) : Piped(i) /\ reqPipe[i].rid = sent[n]
    BY <1>1, <2>1 DEF OrderAhead
  <2>3. i # 1
    BY <1>2, <2>1, <2>2 DEF OrderInv
  <2>4. PICK k \in 1..Len(reqPipe') : k + 1 = i
    <3>1. i - 1 \in 1..Len(reqPipe') /\ (i - 1) + 1 = i
      BY <1>6, <2>3
    <3> QED BY <3>1
  <2>5. Piped(k)' /\ reqPipe'[k] = reqPipe[i]
    BY <1>6, <2>2, <2>4 DEF Piped
  <2> QED BY <2>2, <2>5
<1>12. ASSUME NEW i \in 1..Len(reqPipe'), Piped(i)'
       PROVE  /\ i + 1 \in 1..Len(reqPipe) /\ Piped(i + 1)
              /\ reqPipe'[i] = reqPipe[i + 1]
  BY <1>6, <1>12 DEF Piped
<1>13. ASSUME NEW i \in 1..Len(reqPipe'), Piped(i)'
       PROVE  \E n \in next + 1 .. Len(sent) : reqPipe'[i].rid = sent[n]
  <2>1. i + 1 \in 1..Len(reqPipe) /\ Piped(i + 1) /\ reqPipe'[i] = reqPipe[i + 1]
    BY <1>12, <1>13
  <2>2. PICK n \in next .. Len(sent) : reqPipe[i + 1].rid = sent[n]
    BY <1>1, <2>1 DEF OrderAhead
  <2>3. n \in 1..Len(sent) /\ 1 \in 1..Len(reqPipe) /\ 1 < i + 1
    BY <1>2, <1>5, <1>6, <1>8, <2>2
  <2>4. /\ next \in 1..Len(sent) /\ Piped(1)
        /\ reqPipe[1].rid = sent[next]
    BY <1>1, <1>2
  <2>5. next < n
    <3>1. \A i2, j2 \in 1..Len(reqPipe) : Piped(i2) /\ Piped(j2) /\ i2 < j2 =>
            \A m2, n2 \in 1..Len(sent) :
              reqPipe[i2].rid = sent[m2] /\ reqPipe[j2].rid = sent[n2] => m2 < n2
      BY <1>1 DEF OrderAhead
    <3> HIDE DEF next
    <3> QED BY <2>1, <2>2, <2>3, <2>4, <3>1
  <2>6. n \in next + 1 .. Len(sent)
    BY <1>2, <2>3, <2>5
  <2> QED BY <2>1, <2>2, <2>6
<1>14. ASSUME NEW i \in 1..Len(reqPipe'), NEW j \in 1..Len(reqPipe'),
              Piped(i)', Piped(j)', i < j,
              NEW m \in 1..Len(sent), NEW n \in 1..Len(sent),
              reqPipe'[i].rid = sent[m], reqPipe'[j].rid = sent[n]
       PROVE  m < n
  <2>1. PICK k \in 1..Len(reqPipe) : k = i + 1 /\ Piped(k) /\ reqPipe[k].rid = sent[m]
    BY <1>12, <1>14
  <2>2. PICK l \in 1..Len(reqPipe) : l = j + 1 /\ Piped(l) /\ reqPipe[l].rid = sent[n]
    BY <1>12, <1>14
  <2>3. k < l
    BY <1>14, <2>1, <2>2
  <2> QED BY <1>1, <2>1, <2>2, <2>3, OrderPair
<1>15. Served' + Len(queue') + 1 = next + 1
  BY <1>5, <1>8
<1>16. (\A n \in Served + Len(queue) + 1 .. Len(sent) :
          \E i \in 1..Len(reqPipe) : Piped(i) /\ reqPipe[i].rid = sent[n])'
  BY <1>7, <1>11, <1>15
<1>17. (\A i \in 1..Len(reqPipe) : Piped(i) =>
          \E n \in Served + Len(queue) + 1 .. Len(sent) : reqPipe[i].rid = sent[n])'
  BY <1>7, <1>13, <1>15
<1>18. (\A i, j \in 1..Len(reqPipe) : Piped(i) /\ Piped(j) /\ i < j =>
          \A m, n \in 1..Len(sent) :
            reqPipe[i].rid = sent[m] /\ reqPipe[j].rid = sent[n] => m < n)'
  BY <1>7, <1>14
<1>19. OrderAhead'
  BY <1>9, <1>10, <1>16, <1>17, <1>18, Zenon DEF OrderAhead
<1>20. RepliesInOrder' /\ (\A m, n \in 1..Len(sent) : sent[m] = sent[n] => m = n)'
  BY <1>7 DEF OrderInv, RepliesInOrder
<1>21. (pc \in Handling => Served <= Len(sent) /\ cur.rid = sent[Served])'
  BY <1>7, <1>8 DEF OrderInv
<1> QED BY <1>19, <1>20, <1>21 DEF OrderInv

\* The main task takes the next request: it is served instead of queued.
LEMMA OrderMainReceives ==
  ASSUME TypeInv, OrderInv, MainReceives
  PROVE  OrderInv'
<1>1. /\ Len(queue') = Len(queue) - 1 /\ Len(queue) \in Nat /\ 1 \in 1..Len(queue)
      /\ \A i \in 1..Len(queue') : queue'[i] = queue[i + 1]
      /\ cur' = queue[1]
  BY HeadTailProperties DEF MainReceives, TypeInv, TypeOK
<1>2. UNCHANGED <<sent, replies, reqPipe>> /\ pc = "recv" /\ pc' = "handle"
  BY DEF MainReceives, chanVars
<1>3. Served' = Served + 1 /\ Served = Len(replies) /\ Served \in Nat /\ Len(sent) \in Nat
  BY <1>2 DEF Served, Handling, TypeInv, TypeOK
<1>4. OrderAhead
  BY <1>2 DEF OrderInv, Alive
<1>5. Served' + Len(queue') = Served + Len(queue)
  BY <1>1, <1>3
<1>6. (\A i \in 1..Len(queue) : queue[i].rid = sent[Served + i])'
  <2> SUFFICES ASSUME NEW i \in 1..Len(queue')
               PROVE  queue'[i].rid = sent[Served + 1 + i]
    BY <1>2, <1>3
  <2>1. i + 1 \in 1..Len(queue) /\ Served + (i + 1) = Served + 1 + i
    BY <1>1, <1>3
  <2>2. queue[i + 1].rid = sent[Served + (i + 1)]
    BY <1>4, <2>1 DEF OrderAhead
  <2> QED BY <1>1, <2>1, <2>2
<1>7. cur'.rid = sent[Served'] /\ Served' <= Len(sent)
  BY <1>1, <1>3, <1>4 DEF OrderAhead
<1>8. OrderAhead'
  BY <1>2, <1>4, <1>5, <1>6 DEF OrderAhead, Piped
<1>9. RepliesInOrder' /\ (\A m, n \in 1..Len(sent) : sent[m] = sent[n] => m = n)'
  BY <1>2 DEF OrderInv, RepliesInOrder
<1> QED BY <1>2, <1>7, <1>8, <1>9 DEF OrderInv

LEMMA OrderWriteReply ==
  ASSUME TypeInv, OrderInv, WriteReply
  PROVE  OrderInv'
<1>1. rep \in Reply /\ rep.rid = cur.rid /\ pc = "write" /\ pc' = "recv"
  BY DEF WriteReply, TypeInv, ControlInv
<1>2. /\ Len(replies') = Len(replies) + 1 /\ Len(replies) \in Nat
      /\ \A i \in 1..Len(replies) : replies'[i] = replies[i]
      /\ replies'[Len(replies) + 1] = rep
  BY <1>1, AppendFacts DEF WriteReply, TypeInv, TypeOK
<1>3. UNCHANGED <<sent, queue, reqPipe>>
  BY DEF WriteReply, chanVars
<1>4. Served = Len(replies) + 1 /\ Served' = Served /\ Len(sent) \in Nat
  BY <1>1, <1>2, <1>3 DEF Served, Handling, TypeInv, TypeOK
<1>5. Served <= Len(sent) /\ rep.rid = sent[Served]
  BY <1>1 DEF OrderInv, Handling
<1>6. RepliesInOrder'
  <2>1. Len(replies') <= Len(sent')
    BY <1>2, <1>3, <1>4, <1>5
  <2>2. ASSUME NEW i \in 1..Len(replies') PROVE replies'[i].rid = sent'[i]
    <3>1. CASE i \in 1..Len(replies)
      BY <1>2, <1>3, <3>1 DEF OrderInv, RepliesInOrder
    <3>2. CASE i = Len(replies) + 1
      BY <1>2, <1>3, <1>4, <1>5, <3>2
    <3>3. i \in 1..Len(replies) \/ i = Len(replies) + 1
      BY <1>2
    <3> QED BY <3>1, <3>2, <3>3
  <2> QED BY <2>1, <2>2 DEF RepliesInOrder
<1>7. OrderAhead
  BY <1>1 DEF OrderInv, Alive
<1>8. OrderAhead'
  BY <1>3, <1>4, <1>7 DEF OrderAhead, Piped
<1>9. (\A m, n \in 1..Len(sent) : sent[m] = sent[n] => m = n)'
  BY <1>3 DEF OrderInv
<1> QED BY <1>1, <1>6, <1>8, <1>9 DEF OrderInv, Handling

LEMMA OrderStep == TypeInv /\ OrderInv /\ [Next]_vars => OrderInv'
<1> SUFFICES ASSUME TypeInv, OrderInv, [Next]_vars PROVE OrderInv'
  OBVIOUS
<1> USE DEF chanVars, readerVars, sessionVars, elabVars
<1>1. ASSUME NEW rid \in Rids, ClientCancels(rid) PROVE OrderInv'
  <2>1. [op |-> "cancel", rid |-> rid] \in Frame
    BY DEF Frame, CancelFrame
  <2>2. [op |-> "cancel", rid |-> rid].op \notin AllOps
    BY DEF AllOps
  <2> QED BY <1>1, <2>1, <2>2, OrderExtraFrame DEF ClientCancels
<1>2. ASSUME ClientCloses PROVE OrderInv'
  <2>1. UNCHANGED <<queue, replies, pc, cur, sent>>
    BY <1>2 DEF ClientCloses
  <2>2. CASE reqPipe' = reqPipe
    BY <2>1, <2>2 DEF OrderInv, OrderAhead, RepliesInOrder, Served, Piped, Alive
  <2>3. CASE reqPipe' = Append(reqPipe, Torn)
    <3>1. Torn \in Frame /\ Torn.op \notin AllOps
      BY DEF Frame, Torn, AllOps
    <3> QED BY <2>1, <2>3, <3>1, OrderExtraFrame
  <2> QED BY <1>2, <2>2, <2>3 DEF ClientCloses
<1>3. ASSUME MainExits \/ Die PROVE OrderInv'
  <2>1. UNCHANGED <<sent, replies>> /\ pc' \in {"exited", "dead"}
    BY <1>3 DEF MainExits, Die
  <2> QED BY <2>1 DEF OrderInv, RepliesInOrder, Alive, Handling
<1>4. ASSUME \/ ReaderSetsToken \/ ReaderStops \/ BeginExecute
             \/ (\E result \in {"clean", "errors", "aborted"} : EndElaboration(result))
             \/ DecidePublish \/ ReplyCancelled \/ ReplyError \/ Commit
             \/ LeaveExecute \/ Serve \/ Emit \/ UNCHANGED vars
      PROVE  OrderInv'
  <2>1. /\ UNCHANGED <<sent, replies, reqPipe, queue, cur>>
        /\ \/ UNCHANGED pc
           \/ pc \in Handling /\ pc' \in Handling
    BY <1>4 DEF ReaderSetsToken, ReaderStops, BeginExecute, EndElaboration,
       DecidePublish, ReplyCancelled, ReplyError, Commit, CommitAs, Committable,
       LeaveExecute, Serve, BeginInspect, EndInspect, AnswerQuery, Refuse, SaveSession,
       LoadSession, LoadMisses, Emit, EmitOutput, LateOutput, vars, Handling
  <2>2. (pc' \in Handling <=> pc \in Handling) /\ (Alive' <=> Alive)
    BY <2>1 DEF Handling, Alive
  <2>3. Served' = Served
    BY <2>1, <2>2 DEF Served
  <2>4. OrderAhead' <=> OrderAhead
    BY <2>1, <2>3 DEF OrderAhead, Piped
  <2> QED BY <2>1, <2>2, <2>3, <2>4 DEF OrderInv, RepliesInOrder
<1> QED
  BY <1>1, <1>2, <1>3, <1>4, OrderClientSends, OrderReaderTakesCancel,
     OrderReaderQueues, OrderMainReceives, OrderWriteReply
  DEF Next, Client, Reader, Main, Execute, Gone

\* Replies come in the order of the requests, one for each, however cancel
\* frames, queueing and elaborations interleave.
THEOREM OrderCorrect == Spec => []RepliesInOrder
<1>1. OrderInv => RepliesInOrder
  BY DEF OrderInv
<1> QED BY <1>1, OrderInit, OrderStep, TypeAlways, PTL DEF Spec

----------------------------------------------------------------------------
(* Outputs *)

LEMMA OutputsInit == Init => OutputsInv
  BY DEF Init, OutputsInv, OutputsRequestLocal

LEMMA OutputsStep ==
  ASSUME TasksOutlive = FALSE, TypeInv, OutputsInv, [Next]_vars
  PROVE  OutputsInv'
<1> USE DEF OutputsInv, OutputsRequestLocal, Local
<1>1. ASSUME \/ Client \/ Reader \/ UNCHANGED vars
      PROVE  OutputsInv'
  <2>1. UNCHANGED <<pc, cur, rep, elabVars, replies>>
    <3>1. CASE Client
      BY <3>1 DEF Client, ClientSends, ClientCancels, ClientCloses
    <3>2. CASE Reader
      BY <3>2 DEF Reader, ReaderQueues, ReaderTakesCancel, ReaderSetsToken, ReaderStops
    <3>3. CASE UNCHANGED vars
      BY <3>3 DEF vars, elabVars
    <3> QED BY <1>1, <3>1, <3>2, <3>3
  <2> QED BY <2>1 DEF elabVars
<1>2. ASSUME BeginExecute PROVE OutputsInv'
  <2>1. CASE Known(cur.parent)
    BY <1>2, <2>1 DEF BeginExecute
  <2>2. CASE ~Known(cur.parent)
    <3>1. rep' = ReplyTo(cur, "error", -1, {}) /\ pc' = "leave" /\ UNCHANGED replies
      BY <1>2, <2>2 DEF BeginExecute
    <3>2. Local(rep')
      BY <3>1 DEF ReplyTo
    <3> QED BY <3>1, <3>2
  <2> QED BY <2>1, <2>2
<1>3. ASSUME EmitOutput PROVE OutputsInv'
  BY <1>3 DEF EmitOutput
<1>4. ASSUME NEW result \in {"clean", "errors", "aborted"}, EndElaboration(result)
      PROVE  OutputsInv'
  BY <1>4 DEF EndElaboration
<1>5. ASSUME DecidePublish PROVE OutputsInv'
  BY <1>5 DEF DecidePublish
<1>6. ASSUME ReplyCancelled \/ ReplyError \/ Commit PROVE OutputsInv'
  <2>1. /\ pc = "decide" /\ pc' = "leave" /\ UNCHANGED replies
        /\ \E status \in {"cancelled", "error", "ok"}, snap \in Nat \cup {-1} :
             /\ rep' = ReplyTo(cur, status, snap, publ)
             /\ status = "error" => elab = "errors"
    <3>1. cur \in ExecuteFrame /\ pc = "decide"
      BY <1>6 DEF ReplyCancelled, ReplyError, Commit, Committable, TypeInv, ControlInv
    <3>2. cur.parent \in Nat /\ Len(snapshots) \in Nat
      BY <3>1, RequestFields DEF ExecuteFrame, TypeInv, TypeOK
    <3> QED BY <1>6, <3>1, <3>2
      DEF ReplyCancelled, ReplyError, Commit, Committable, CommitAs, sessionVars
  <2>2. Local(rep')
    BY <2>1 DEF ReplyTo
  <2> QED BY <2>1, <2>2
<1>7. ASSUME EndInspect \/ AnswerQuery \/ Refuse \/ SaveSession \/ LoadSession \/ LoadMisses
      PROVE  OutputsInv'
  <2>1. /\ pc' = "write" /\ UNCHANGED replies
        /\ rep'.outputs = {}
    BY <1>7 DEF EndInspect, AnswerQuery, Refuse, SaveSession, LoadSession, LoadMisses, ReplyTo
  <2> QED BY <2>1
<1>8. ASSUME MainReceives \/ MainExits \/ LeaveExecute \/ BeginInspect PROVE OutputsInv'
  BY <1>8 DEF MainReceives, MainExits, LeaveExecute, BeginInspect
<1>9. ASSUME WriteReply PROVE OutputsInv'
  <2>1. /\ Len(replies') = Len(replies) + 1 /\ Len(replies) \in Nat
        /\ \A i \in 1..Len(replies) : replies'[i] = replies[i]
        /\ replies'[Len(replies) + 1] = rep
    <3>1. rep \in Reply /\ replies \in Seq(Reply) /\ replies' = Append(replies, rep)
      BY <1>9 DEF WriteReply, TypeInv, TypeOK, ControlInv
    <3> QED BY <3>1, AppendFacts
  <2>2. Local(rep) /\ pc' = "recv"
    BY <1>9 DEF WriteReply
  <2>3. ASSUME NEW i \in 1..Len(replies') PROVE Local(replies'[i])
    <3>1. i \in 1..Len(replies) \/ i = Len(replies) + 1
      BY <2>1
    <3> QED BY <2>1, <2>2, <3>1
  <2> QED BY <2>2, <2>3
<1>10. ASSUME Die PROVE OutputsInv'
  BY <1>10 DEF Die, NoLocals
<1>11. ASSUME NEW rid \in Rids, LateOutput(rid) PROVE OutputsInv'
  BY <1>11 DEF LateOutput
<1> QED
  BY <1>1, <1>2, <1>3, <1>4, <1>5, <1>6, <1>7, <1>8, <1>9, <1>10, <1>11
  DEF Next, Main, Execute, Serve, Emit, Gone

\* Without tasks that outlive their cell, the outputs under a reply were emitted
\* for its request, and a failed cell shows none: one sink for the whole process,
\* drained around each processCell (Worker.lean:98-116), is enough.
THEOREM OutputsLocal ==
  ASSUME TasksOutlive = FALSE
  PROVE  Spec => []OutputsRequestLocal
<1>1. OutputsInv => OutputsRequestLocal
  BY DEF OutputsInv
<1>2. ASSUME TypeInv, OutputsInv, [Next]_vars PROVE OutputsInv'
  BY <1>2, OutputsStep
<1> QED BY <1>1, <1>2, OutputsInit, TypeAlways, PTL DEF Spec
============================================================================
