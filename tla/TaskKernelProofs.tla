-------------------------- MODULE TaskKernelProofs --------------------------
(* Theorems about TaskKernel, for every value of its constants. *)
EXTENDS TaskKernel, TLAPS

(* The record built for an event has the type of an event. *)
LEMMA EvType ==
    ASSUME NEW type \in EventTypes, NEW t \in Tasks, NEW by \in Sessions \cup {None},
           NEW prev \in Sessions \cup {None}, NEW to \in Sessions \cup {None}
    PROVE  Ev(type, t, by, prev, to) \in Event
BY DEF Ev, Event

(* The commands on sessions leave everything else alone and keep the types. *)
LEMMA SessionTypes ==
    TypeOK /\ SessionStep => TypeOK'
<1> SUFFICES ASSUME TypeOK, NEW s \in Sessions,
                    \/ CreateSession(s) \/ StartSession(s) \/ BlockSession(s) \/ UnblockSession(s)
                    \/ CancelSession(s) \/ FailSession(s) \/ CloseSession(s)
             PROVE  TypeOK'
    BY DEF SessionStep
<1>1. UNCHANGED <<rowVars, evidenceVars, log>>
    BY DEF CreateSession, StartSession, BlockSession, UnblockSession, CancelSession,
           FailSession, CloseSession, SetStatus
<1>2. status' \in [Sessions -> SessionStatus]
    BY DEF CreateSession, StartSession, BlockSession, UnblockSession, CancelSession,
           FailSession, CloseSession, SetStatus, TypeOK, SessionStatus
<1>3. reason' \in [Sessions -> Reasons \cup {"none"}]
    BY DEF CreateSession, StartSession, BlockSession, UnblockSession, CancelSession,
           FailSession, CloseSession, TypeOK
<1> QED BY <1>1, <1>2, <1>3 DEF TypeOK, rowVars, evidenceVars

(* The commands on Tasks keep the types. *)
LEMMA TaskTypes ==
    TypeOK /\ TaskStep => TypeOK'
<1> USE DEF TypeOK, rowVars, sessionVars, evidenceVars, TaskStatus
<1> SUFFICES ASSUME TypeOK, NEW t \in Tasks,
                    \/ \E d, s \in Sessions : CreateTask(t, d, s)
                    \/ \E d \in Sessions : SteerTask(t, d)
                    \/ \E d, s \in Sessions : ReassignTask(t, d, s)
                    \/ \E d \in Sessions : CancelTask(t, d)
                    \/ \E c, s \in Sessions, a \in Attempts : ResumeTask(t, c, s, a)
                    \/ \E d, c \in Sessions, r \in Tasks : SecondOpinion(t, d, c, r)
                    \/ \E s \in Sessions, a \in Artifacts : CompleteTask(t, s, a)
             PROVE  TypeOK'
    BY DEF TaskStep
<1>1. CASE \E d, s \in Sessions : CreateTask(t, d, s)
  <2> PICK d \in Sessions, s \in Sessions : CreateTask(t, d, s) BY <1>1
  <2>1. Ev("created", t, d, None, s) \in Event
    BY EvType DEF EventTypes, Handover
  <2> QED BY <2>1 DEF CreateTask, OpenTask
<1>2. CASE \E d \in Sessions : SteerTask(t, d)
  <2> PICK d \in Sessions : SteerTask(t, d) BY <1>2
  <2>1. Ev("steered", t, d, assignee[t], assignee[t]) \in Event
    BY EvType DEF EventTypes, Accepted
  <2> QED BY <2>1 DEF SteerTask
<1>3. CASE \E d, s \in Sessions : ReassignTask(t, d, s)
  <2> PICK d \in Sessions, s \in Sessions : ReassignTask(t, d, s) BY <1>3
  <2>1. Ev("reassigned", t, d, assignee[t], s) \in Event
    BY EvType DEF EventTypes, Accepted
  <2> QED BY <2>1 DEF ReassignTask
<1>4. CASE \E d \in Sessions : CancelTask(t, d)
  <2> PICK d \in Sessions : CancelTask(t, d) BY <1>4
  <2>1. Ev("cancelled", t, d, assignee[t], assignee[t]) \in Event
    BY EvType DEF EventTypes, Settling
  <2> QED BY <2>1 DEF CancelTask
<1>5. CASE \E c, s \in Sessions, a \in Attempts : ResumeTask(t, c, s, a)
  <2> PICK c \in Sessions, s \in Sessions, a \in Attempts : ResumeTask(t, c, s, a) BY <1>5
  <2>1. Ev("resumed", t, c, assignee[t], s) \in Event
    BY EvType DEF EventTypes, Handover
  <2>2. [Ev("resumed", t, c, assignee[t], s) EXCEPT !.attempt = a] \in Event
    BY <2>1 DEF Event
  <2> QED BY <2>2 DEF ResumeTask, MayResume, Resumed
<1>6. CASE \E d, c \in Sessions, r \in Tasks : SecondOpinion(t, d, c, r)
  <2> PICK d \in Sessions, c \in Sessions, r \in Tasks : SecondOpinion(t, d, c, r) BY <1>6
  <2> DEFINE e1 == Ev("created", r, d, None, c)
             e2 == [Ev("second_opinion_requested", t, d, assignee[t], c) EXCEPT !.review = r]
  <2>1. e1 \in Event
    BY EvType DEF EventTypes, Handover
  <2>2. Ev("second_opinion_requested", t, d, assignee[t], c) \in Event
    BY EvType DEF EventTypes, Accepted
  <2>3. e2 \in Event
    BY <2>2 DEF Event
  <2>4. log' = log \o <<e1, e2>>
    BY DEF SecondOpinion
  <2>5. log' \in Seq(Event)
    <3> HIDE DEF e1, e2
    <3> QED BY <2>1, <2>3, <2>4
  <2> QED BY <2>5 DEF SecondOpinion, OpenTask
<1>7. CASE \E s \in Sessions, a \in Artifacts : CompleteTask(t, s, a)
  <2> PICK s \in Sessions, a \in Artifacts : CompleteTask(t, s, a) BY <1>7
  <2>1. Ev("completed", t, s, s, s) \in Event
    BY EvType DEF EventTypes, Settling
  <2> QED BY <2>1 DEF CompleteTask
<1> QED BY <1>1, <1>2, <1>3, <1>4, <1>5, <1>6, <1>7

(* Receipts and evidence keep the types. *)
LEMMA ReceiptTypes ==
    TypeOK /\ ReceiptStep => TypeOK'
<1> USE DEF TypeOK, rowVars, sessionVars, evidenceVars
<1>1. ASSUME TypeOK, NEW i \in DOMAIN log, NEW type \in Receipts, RecordReceipt(i, type),
             log[i].type \in Accepted \cup {"cancelled"}
      PROVE  TypeOK'
  <2>1. log[i] \in Event
    BY <1>1
  <2>2. PICK e : e = [type |-> type, task |-> log[i].task, by |-> log[i].by, prev |-> None,
                      to |-> log[i].to, ref |-> i, review |-> None, attempt |-> None]
    OBVIOUS
  <2>3. e \in Event
    BY <1>1, <2>1, <2>2 DEF Event, EventTypes
  <2>4. log' = Append(log, e)
    BY <1>1, <2>2 DEF RecordReceipt, Ev
  <2> QED BY <1>1, <2>3, <2>4 DEF RecordReceipt
<1>2. ASSUME TypeOK, NEW t \in Tasks, NEW a \in RefusalIds, RecordRefusal(t, a)
      PROVE  TypeOK'
  <2>1. Ev("steering_refused", t, None, None, None) \in Event
    BY EvType DEF EventTypes
  <2>2. [Ev("steering_refused", t, None, None, None) EXCEPT !.attempt = a] \in Event
    BY <2>1, <1>2 DEF Event
  <2> QED BY <1>2, <2>2 DEF RecordRefusal
<1> QED BY <1>1, <1>2 DEF ReceiptStep, RecordDelivery, RecordCancelOutcome, ReceiptType, Receipts

LEMMA EvidenceTypes ==
    TypeOK /\ EvidenceStep => TypeOK'
<1> USE DEF TypeOK, rowVars, sessionVars, evidenceVars
<1>1. ASSUME TypeOK, NEW s \in Sessions, PublishRead(s)
      PROVE  TypeOK'
    BY <1>1 DEF PublishRead
<1>2. ASSUME TypeOK, NEW a \in Artifacts, NEW s \in Sessions, NEW r \in Sessions,
             PublishResult(a, s, r)
      PROVE  TypeOK'
  <2>1. [by |-> s, readBy |-> r] \in [by : Sessions \cup {None}, readBy : Sessions \cup {None}]
    OBVIOUS
  <2> QED BY <1>2, <2>1 DEF PublishResult
<1>3. ASSUME TypeOK, NEW t \in Tasks, NEW a \in Artifacts, BindSourceWork(t, a)
      PROVE  TypeOK'
    BY <1>3 DEF BindSourceWork
<1> QED
  <2> HIDE DEF TypeOK
  <2> QED BY <1>1, <1>2, <1>3 DEF EvidenceStep

(* Every variable keeps its type, whatever commands arrive. *)
THEOREM TypeCorrect == Spec => []TypeOK
<1>1. Init => TypeOK
    BY DEF Init, TypeOK, SessionStatus, TaskStatus
<1>2. TypeOK /\ [Next]_vars => TypeOK'
  <2> SUFFICES ASSUME TypeOK, [Next]_vars PROVE TypeOK'
    OBVIOUS
  <2>1. CASE UNCHANGED vars
    BY <2>1 DEF TypeOK, vars
  <2> QED BY <2>1, SessionTypes, TaskTypes, ReceiptTypes, EvidenceTypes DEF Next
<1> QED BY <1>1, <1>2, PTL DEF Spec

-----------------------------------------------------------------------------
(* A session command never closes, or takes back to its beginning, a seat  *)
(* that owns open work.                                                    *)
LEMMA SeatAfterSessionStep ==
    TypeOK /\ OpenTaskHasSeat /\ SessionStep => OpenTaskHasSeat'
<1> SUFFICES ASSUME TypeOK, OpenTaskHasSeat, NEW s \in Sessions,
                    \/ CreateSession(s) \/ StartSession(s) \/ BlockSession(s) \/ UnblockSession(s)
                    \/ CancelSession(s) \/ FailSession(s) \/ CloseSession(s)
             PROVE  OpenTaskHasSeat'
    BY DEF SessionStep
<1>1. UNCHANGED <<task, assignee>>
    BY DEF CreateSession, StartSession, BlockSession, UnblockSession, CancelSession,
           FailSession, CloseSession, SetStatus, rowVars
<1>2. ASSUME NEW t \in Tasks, task[t] = "open"
      PROVE  status'[assignee[t]] \in {"running", "blocked", "cancelled", "failed"}
  <2>1. assignee[t] \in Sessions /\ status[assignee[t]] \in {"running", "blocked", "cancelled", "failed"}
    BY <1>2 DEF OpenTaskHasSeat
  <2>2. CASE assignee[t] # s
    BY <2>1, <2>2 DEF CreateSession, StartSession, BlockSession, UnblockSession, CancelSession,
           FailSession, CloseSession, SetStatus, TypeOK
  <2>3. CASE assignee[t] = s
    <3>1. ~CloseSession(s)
      BY <1>2, <2>3 DEF CloseSession, OwnsOpenTask
    <3> QED
      BY <2>1, <2>3, <3>1 DEF CreateSession, StartSession, BlockSession, UnblockSession,
         CancelSession, FailSession, SetStatus, TypeOK
  <2> QED BY <2>2, <2>3
<1> QED BY <1>1, <1>2 DEF OpenTaskHasSeat

(* A Task command hands open work to running seats only. *)
LEMMA SeatAfterTaskStep ==
    TypeOK /\ OpenTaskHasSeat /\ TaskStep => OpenTaskHasSeat'
<1> USE DEF TypeOK, OpenTaskHasSeat, sessionVars, Running
<1> SUFFICES ASSUME TypeOK, OpenTaskHasSeat, NEW t \in Tasks,
                    \/ \E d, s \in Sessions : CreateTask(t, d, s)
                    \/ \E d \in Sessions : SteerTask(t, d)
                    \/ \E d, s \in Sessions : ReassignTask(t, d, s)
                    \/ \E d \in Sessions : CancelTask(t, d)
                    \/ \E c, s \in Sessions, a \in Attempts : ResumeTask(t, c, s, a)
                    \/ \E d, c \in Sessions, r \in Tasks : SecondOpinion(t, d, c, r)
                    \/ \E s \in Sessions, a \in Artifacts : CompleteTask(t, s, a)
             PROVE  OpenTaskHasSeat'
    BY DEF TaskStep
<1>1. ASSUME NEW d \in Sessions, NEW s \in Sessions, CreateTask(t, d, s) PROVE OpenTaskHasSeat'
    BY <1>1 DEF CreateTask, OpenTask
<1>2. ASSUME NEW d \in Sessions, SteerTask(t, d) PROVE OpenTaskHasSeat'
    BY <1>2 DEF SteerTask, rowVars
<1>3. ASSUME NEW d \in Sessions, NEW s \in Sessions, ReassignTask(t, d, s) PROVE OpenTaskHasSeat'
    BY <1>3 DEF ReassignTask
<1>4. ASSUME NEW d \in Sessions, CancelTask(t, d) PROVE OpenTaskHasSeat'
    BY <1>4 DEF CancelTask
<1>5. ASSUME NEW c \in Sessions, NEW s \in Sessions, NEW a \in Attempts, ResumeTask(t, c, s, a)
      PROVE  OpenTaskHasSeat'
    BY <1>5 DEF ResumeTask, MayResume, Resumed
<1>6. ASSUME NEW d \in Sessions, NEW c \in Sessions, NEW r \in Tasks, SecondOpinion(t, d, c, r)
      PROVE  OpenTaskHasSeat'
    BY <1>6 DEF SecondOpinion, OpenTask
<1>7. ASSUME NEW s \in Sessions, NEW a \in Artifacts, CompleteTask(t, s, a) PROVE OpenTaskHasSeat'
    BY <1>7 DEF CompleteTask
<1> QED BY <1>1, <1>2, <1>3, <1>4, <1>5, <1>6, <1>7

LEMMA QuietSteps ==
    ReceiptStep \/ EvidenceStep => UNCHANGED <<sessionVars, rowVars>>
BY DEF ReceiptStep, EvidenceStep, RecordDelivery, RecordCancelOutcome, RecordReceipt,
       RecordRefusal, PublishRead, PublishResult, BindSourceWork

LEMMA SeatInvariant == Spec => [](TypeOK /\ OpenTaskHasSeat)
<1>1. Init => OpenTaskHasSeat
    BY DEF Init, OpenTaskHasSeat
<1>2. TypeOK /\ OpenTaskHasSeat /\ [Next]_vars => OpenTaskHasSeat'
  <2> SUFFICES ASSUME TypeOK, OpenTaskHasSeat, [Next]_vars PROVE OpenTaskHasSeat'
    OBVIOUS
  <2>1. CASE UNCHANGED vars
    BY <2>1 DEF OpenTaskHasSeat, vars
  <2>2. CASE ReceiptStep \/ EvidenceStep
    BY <2>2, QuietSteps DEF OpenTaskHasSeat, sessionVars, rowVars
  <2> QED BY <2>1, <2>2, SeatAfterSessionStep, SeatAfterTaskStep DEF Next
<1> QED BY <1>1, <1>2, TypeCorrect, PTL DEF Spec

(* assertSessionMayClose and the running checks together: an open Task has *)
(* an owner, and that seat was started and is not closed.                  *)
THEOREM OpenTaskKeepsSeat == Spec => []OpenTaskHasSeat
BY SeatInvariant, PTL

-----------------------------------------------------------------------------
(* Every command is a step of the ledger of responsibility, or none.       *)
ClosedSeats == {s \in Sessions : status[s] = "closed"}

LEMMA SessionStepRefines ==
    TypeOK /\ SessionStep => [Ledger!LedgerNext]_(Ledger!ledgerVars)
<1> SUFFICES ASSUME TypeOK, NEW s \in Sessions,
                    \/ CreateSession(s) \/ StartSession(s) \/ BlockSession(s) \/ UnblockSession(s)
                    \/ CancelSession(s) \/ FailSession(s) \/ CloseSession(s)
             PROVE  [Ledger!LedgerNext]_(Ledger!ledgerVars)
    BY DEF SessionStep
<1>1. CASE CloseSession(s)
  <2>1. ClosedSeats' = ClosedSeats \cup {s}
    BY <1>1 DEF CloseSession, SetStatus, TypeOK, ClosedSeats
  <2>2. Ledger!Retire({s})
    BY <1>1, <2>1 DEF CloseSession, SetStatus, rowVars, OwnsOpenTask, Ledger!Retire, ClosedSeats
  <2> QED BY <2>2 DEF Ledger!LedgerNext
<1>2. CASE \/ CreateSession(s) \/ StartSession(s) \/ BlockSession(s) \/ UnblockSession(s)
           \/ CancelSession(s) \/ FailSession(s)
  <2>1. ClosedSeats' = ClosedSeats
    BY <1>2 DEF CreateSession, StartSession, BlockSession, UnblockSession, CancelSession,
           FailSession, SetStatus, TypeOK, ClosedSeats
  <2>2. UNCHANGED <<task, assignee, delegator>>
    BY <1>2 DEF CreateSession, StartSession, BlockSession, UnblockSession, CancelSession,
           FailSession, SetStatus, rowVars
  <2> QED BY <2>1, <2>2 DEF Ledger!ledgerVars, ClosedSeats
<1> QED BY <1>1, <1>2

LEMMA TaskStepRefines ==
    TypeOK /\ TaskStep => [Ledger!LedgerNext]_(Ledger!ledgerVars)
<1> SUFFICES ASSUME TypeOK, NEW t \in Tasks,
                    \/ \E d, s \in Sessions : CreateTask(t, d, s)
                    \/ \E d \in Sessions : SteerTask(t, d)
                    \/ \E d, s \in Sessions : ReassignTask(t, d, s)
                    \/ \E d \in Sessions : CancelTask(t, d)
                    \/ \E c, s \in Sessions, a \in Attempts : ResumeTask(t, c, s, a)
                    \/ \E d, c \in Sessions, r \in Tasks : SecondOpinion(t, d, c, r)
                    \/ \E s \in Sessions, a \in Artifacts : CompleteTask(t, s, a)
             PROVE  [Ledger!LedgerNext]_(Ledger!ledgerVars)
    BY DEF TaskStep
<1>0. UNCHANGED status
    BY DEF CreateTask, SteerTask, ReassignTask, CancelTask, ResumeTask, MayResume, Resumed, SecondOpinion,
           CompleteTask, OpenTask, sessionVars
<1>1. ASSUME NEW u \in Tasks, NEW d \in Sessions, NEW s \in Sessions, OpenTask(u, d, s)
      PROVE  Ledger!LedgerNext
  <2>1. Ledger!Open(u, s, d)
    BY <1>0, <1>1 DEF OpenTask, Running, Ledger!Open
  <2> QED BY <2>1 DEF Ledger!LedgerNext
<1>2. ASSUME NEW d \in Sessions, SteerTask(t, d) PROVE UNCHANGED Ledger!ledgerVars
    BY <1>0, <1>2 DEF SteerTask, rowVars, Ledger!ledgerVars
<1>3. ASSUME NEW d \in Sessions, NEW s \in Sessions,
             ReassignTask(t, d, s) \/ \E a \in Attempts : ResumeTask(t, d, s, a)
      PROVE  Ledger!LedgerNext
  <2>1. Ledger!Transfer(t, s)
    BY <1>0, <1>3 DEF ReassignTask, ResumeTask, MayResume, Resumed, Running, Ledger!Transfer
  <2> QED BY <2>1 DEF Ledger!LedgerNext
<1>4. ASSUME (\E d \in Sessions : CancelTask(t, d))
             \/ (\E s \in Sessions, a \in Artifacts : CompleteTask(t, s, a))
      PROVE  Ledger!LedgerNext
  <2>1. Ledger!Settle(t)
    BY <1>0, <1>4 DEF CancelTask, CompleteTask, Ledger!Settle
  <2> QED BY <2>1 DEF Ledger!LedgerNext
<1> QED BY <1>1, <1>2, <1>3, <1>4 DEF CreateTask, SecondOpinion

(* The kernel implements the ledger: a Task is opened once, keeps its      *)
(* delegator, moves only to seats that are not closed, keeps its last      *)
(* owner when settled, and no seat closes while it owns open work.         *)
THEOREM KernelImplementsLedger == Spec => ImplementsLedger
<1>1. Init => Ledger!LedgerInit
    BY DEF Init, Ledger!LedgerInit
<1>2. TypeOK /\ [Next]_vars => [Ledger!LedgerNext]_(Ledger!ledgerVars)
  <2> SUFFICES ASSUME TypeOK, [Next]_vars PROVE [Ledger!LedgerNext]_(Ledger!ledgerVars)
    OBVIOUS
  <2>1. CASE UNCHANGED vars
    BY <2>1 DEF vars, Ledger!ledgerVars
  <2>2. CASE ReceiptStep \/ EvidenceStep
    BY <2>2, QuietSteps DEF sessionVars, rowVars, Ledger!ledgerVars
  <2> QED BY <2>1, <2>2, SessionStepRefines, TaskStepRefines DEF Next
<1> QED BY <1>1, <1>2, TypeCorrect, PTL DEF Spec, ImplementsLedger, Ledger!LedgerSpec
=============================================================================
