------------------------- MODULE TaskHistoryProofs --------------------------
(* Theorems about the history of a Task in TaskKernel: the events are an   *)
(* account of who owned and who directed it, for every number of events.   *)
(*                                                                         *)
(* Every command appends at most one event about a given Task, and what it *)
(* does to the rows of that Task is what the event says (StepOn).  The     *)
(* history properties follow from that alone, one Task at a time, with     *)
(* three facts: an event is about a Task; a Task not yet created has no    *)
(* event but refusals; the coordinator of the row is the one the latest    *)
(* created or resumed event put in charge.                                 *)
EXTENDS TaskKernelProofs

Aside == Receipts \cup {"steering_refused"}
RowsKept(t) ==
    /\ task'[t] = task[t] /\ assignee'[t] = assignee[t]
    /\ delegator'[t] = delegator[t] /\ coordinator'[t] = coordinator[t]

(* What a step that appends e about t does to the rows of t.               *)
Creates(t, e) ==
    /\ e.type = "created" /\ e.prev = None /\ e.to = assignee'[t] /\ e.by = delegator'[t]
    /\ task[t] = "absent" /\ task'[t] = "open" /\ coordinator'[t] = coordinator[t]
Steers(t, e) ==
    /\ e.type \in {"steered", "second_opinion_requested"}
    /\ task[t] = "open" /\ e.by = CurrentCoordinator(t) /\ e.prev = assignee[t]
    /\ RowsKept(t)
Reassigns(t, e) ==
    /\ e.type = "reassigned" /\ e.to = assignee'[t]
    /\ task[t] = "open" /\ e.by = CurrentCoordinator(t) /\ e.prev = assignee[t]
    /\ task'[t] = task[t] /\ delegator'[t] = delegator[t] /\ coordinator'[t] = coordinator[t]
Cancels(t, e) ==
    /\ e.type = "cancelled" /\ task'[t] = "cancelled"
    /\ task[t] = "open" /\ e.by = CurrentCoordinator(t) /\ e.prev = assignee[t]
    /\ assignee'[t] = assignee[t] /\ delegator'[t] = delegator[t] /\ coordinator'[t] = coordinator[t]
Resumes(t, e) ==
    /\ e.type = "resumed" /\ e.prev = assignee[t] /\ e.to = assignee'[t]
    /\ e.by = coordinator'[t] /\ e.by # None
    /\ task[t] = "open" /\ task'[t] = task[t] /\ delegator'[t] = delegator[t]
Completes(t, e) ==
    /\ e.type = "completed" /\ task[t] = "open" /\ task'[t] = "done"
    /\ assignee'[t] = assignee[t] /\ delegator'[t] = delegator[t] /\ coordinator'[t] = coordinator[t]
ReceiptFor(e) == IF e.type = "cancelled" THEN "cancel_outcome" ELSE ReceiptType(e)
Notes(t, e) ==
    /\ e.type \in Aside /\ RowsKept(t)
    /\ e.type \in Receipts =>
          /\ e.ref \in DOMAIN log /\ log[e.ref].type \in Accepted \cup {"cancelled"}
          /\ log[e.ref].task = t /\ e.to = log[e.ref].to
          /\ e.type = ReceiptFor(log[e.ref]) /\ NoReceiptYet(e.ref, e.type)

Effect(t, e) ==
    \/ Creates(t, e) \/ Steers(t, e) \/ Reassigns(t, e) \/ Cancels(t, e)
    \/ Resumes(t, e) \/ Completes(t, e) \/ Notes(t, e)

Fresh == DOMAIN log' \ DOMAIN log
LogGrows ==
    /\ DOMAIN log = 1 .. Len(log) /\ DOMAIN log' = 1 .. Len(log')
    /\ Len(log) \in Nat /\ Len(log') \in Nat /\ Len(log) <= Len(log')
    /\ \A i \in DOMAIN log : log'[i] = log[i]
    /\ \A i \in Fresh : log'[i].task \in Tasks
StepOn(t) ==
    \/ (\A j \in Fresh : log'[j].task # t) /\ RowsKept(t)
    \/ \E j \in Fresh :
          /\ log'[j].task = t /\ \A k \in Fresh : log'[k].task = t => k = j
          /\ Effect(t, log'[j])
Accounted == LogGrows /\ \A t \in Tasks : StepOn(t)

EventsOnTasks == \A i \in DOMAIN log : log[i].task \in Tasks

(* Less is enough for the chain of owners and for settled Tasks, and holds *)
(* of a step that opens and cancels a Task at once.                        *)
Settled(t) == task[t] \in {"done", "cancelled"}
HandsOn(t) ==
    \/ /\ \A j \in Fresh : ~(log'[j].task = t /\ log'[j].type \in Handover)
       /\ assignee'[t] = assignee[t]
    \/ \E j \in Fresh :
          /\ log'[j].task = t /\ log'[j].type \in Handover /\ log'[j].to = assignee'[t]
          /\ \A k \in Fresh : log'[k].task = t /\ log'[k].type \in Handover => k = j
          /\ task[t] = "absent" \/ log'[j].prev = assignee[t]
SettlesOn(t) ==
    /\ Settled(t) =>
          task'[t] = task[t] /\ \A j \in Fresh : log'[j].task = t => log'[j].type \in Aside
    /\ ~Settled(t) =>
          \/ /\ ~Settled(t)'
             /\ \A j \in Fresh : log'[j].task = t => log'[j].type \notin Settling
          \/ \E j \in Fresh :
                /\ log'[j].task = t /\ \A k \in Fresh : log'[k].task = t => k <= j
                /\ \A k \in Fresh : log'[k].task = t /\ log'[k].type \in Settling => k = j
                /\ \/ task'[t] = "done" /\ log'[j].type = "completed"
                   \/ task'[t] = "cancelled" /\ log'[j].type = "cancelled"
LeavesBlank(t) == task'[t] = "absent" =>
    task[t] = "absent" /\ \A j \in Fresh : log'[j].task = t => log'[j].type \in Aside
Recorded == LogGrows /\ \A t \in Tasks : HandsOn(t) /\ SettlesOn(t) /\ LeavesBlank(t)

-----------------------------------------------------------------------------
(* One event appended, none, or two about different Tasks. *)

LEMMA NoEvent ==
    ASSUME TypeOK, UNCHANGED <<rowVars, log>>
    PROVE  Accounted
BY DEF TypeOK, Accounted, LogGrows, Fresh, StepOn, RowsKept, rowVars

LEMMA GrowsByOne ==
    ASSUME TypeOK, NEW e \in Event, log' = Append(log, e), e.task \in Tasks
    PROVE  /\ LogGrows /\ Len(log) \in Nat
           /\ Fresh = {Len(log) + 1} /\ log'[Len(log) + 1] = e
<1>1. /\ DOMAIN log = 1 .. Len(log) /\ Len(log) \in Nat /\ DOMAIN log' = 1 .. Len(log')
      /\ Len(log') = Len(log) + 1 /\ log'[Len(log) + 1] = e
      /\ \A i \in DOMAIN log : log'[i] = log[i]
  BY DEF TypeOK
<1>2. Fresh = {Len(log) + 1}
  BY <1>1 DEF Fresh
<1> QED BY <1>1, <1>2 DEF LogGrows

LEMMA GrowsByTwo ==
    ASSUME TypeOK, NEW e \in Event, NEW f \in Event, log' = log \o <<e, f>>,
           e.task \in Tasks, f.task \in Tasks
    PROVE  /\ LogGrows /\ Len(log) \in Nat /\ Fresh = {Len(log) + 1, Len(log) + 2}
           /\ log'[Len(log) + 1] = e /\ log'[Len(log) + 2] = f
<1>1. /\ DOMAIN log = 1 .. Len(log) /\ Len(log) \in Nat /\ DOMAIN log' = 1 .. Len(log')
      /\ Len(log') = Len(log) + 2
      /\ \A i \in DOMAIN log : log'[i] = log[i]
  BY DEF TypeOK
<1>2. log'[Len(log) + 1] = e /\ log'[Len(log) + 2] = f
  BY <1>1 DEF TypeOK
<1>3. Fresh = {Len(log) + 1, Len(log) + 2}
  BY <1>1 DEF Fresh
<1> QED BY <1>1, <1>2, <1>3 DEF LogGrows

LEMMA OneEvent ==
    ASSUME TypeOK, NEW t \in Tasks, NEW e, log' = Append(log, e), e \in Event,
           e.task = t, Effect(t, e), \A u \in Tasks \ {t} : RowsKept(u)
    PROVE  Accounted
<1>1. LogGrows /\ Fresh = {Len(log) + 1} /\ log'[Len(log) + 1] = e
  BY GrowsByOne
<1>2. ASSUME NEW u \in Tasks PROVE StepOn(u)
  <2>1. CASE u = t
    BY <1>1, <2>1 DEF StepOn
  <2>2. CASE u # t
    BY <1>1, <2>2 DEF StepOn
  <2> QED BY <2>1, <2>2
<1> QED BY <1>1, <1>2 DEF Accounted

LEMMA TwoEvents ==
    ASSUME TypeOK, NEW t \in Tasks, NEW r \in Tasks, t # r, NEW e, NEW f,
           log' = log \o <<e, f>>, e \in Event, f \in Event, e.task = r, f.task = t,
           Effect(r, e), Effect(t, f), \A u \in Tasks \ {t, r} : RowsKept(u)
    PROVE  Accounted
<1>1. /\ LogGrows /\ Fresh = {Len(log) + 1, Len(log) + 2}
      /\ log'[Len(log) + 1] = e /\ log'[Len(log) + 2] = f
  BY GrowsByTwo
<1>2. ASSUME NEW u \in Tasks PROVE StepOn(u)
  <2>1. CASE u = t
    <3>1. Len(log) + 2 \in Fresh /\ \A k \in Fresh : log'[k].task = t => k = Len(log) + 2
      BY <1>1
    <3> QED BY <1>1, <2>1, <3>1 DEF StepOn
  <2>2. CASE u = r
    <3>1. Len(log) + 1 \in Fresh /\ \A k \in Fresh : log'[k].task = r => k = Len(log) + 1
      BY <1>1
    <3> QED BY <1>1, <2>2, <3>1 DEF StepOn
  <2>3. CASE u # t /\ u # r
    BY <1>1, <2>3 DEF StepOn
  <2> QED BY <2>1, <2>2, <2>3
<1> QED BY <1>1, <1>2 DEF Accounted

-----------------------------------------------------------------------------
(* The kernel's part of a resume, whatever else is written with it.        *)
LEMMA ResumedAccounted ==
    ASSUME TypeOK, NEW t \in Tasks, NEW c \in Sessions, NEW s \in Sessions, NEW a \in Attempts,
           MayResume(t, c, s, a), Resumed(t, c, s, a)
    PROVE  Accounted
<1> DEFINE e == [Ev("resumed", t, c, assignee[t], s) EXCEPT !.attempt = a]
<1>0. /\ assignee \in [Tasks -> Sessions \cup {None}] /\ coordinator \in [Tasks -> Sessions \cup {None}]
  BY DEF TypeOK
<1>1. Ev("resumed", t, c, assignee[t], s) \in Event
  BY <1>0, EvType DEF EventTypes, Handover
<1>2. e \in Event
  BY <1>1 DEF Event
<1>3. log' = Append(log, e) /\ e.task = t
  BY DEF Resumed, Ev
<1>4. Effect(t, e)
  BY <1>0, NoneAssumption DEF MayResume, Resumed, Ev, Effect, Resumes
<1>5. \A u \in Tasks \ {t} : RowsKept(u)
  BY <1>0 DEF Resumed, RowsKept
<1> HIDE DEF e
<1> QED BY <1>2, <1>3, <1>4, <1>5, OneEvent

(* Every command is accounted for by the events it appends. *)
LEMMA TaskStepAccounted ==
    TypeOK /\ TaskStep => Accounted
<1> SUFFICES ASSUME TypeOK, NEW t \in Tasks,
                    \/ \E d, s \in Sessions : CreateTask(t, d, s)
                    \/ \E d \in Sessions : SteerTask(t, d)
                    \/ \E d, s \in Sessions : ReassignTask(t, d, s)
                    \/ \E d \in Sessions : CancelTask(t, d)
                    \/ \E c, s \in Sessions, a \in Attempts : ResumeTask(t, c, s, a)
                    \/ \E d, c \in Sessions, r \in Tasks : SecondOpinion(t, d, c, r)
                    \/ \E s \in Sessions, a \in Artifacts : CompleteTask(t, s, a)
             PROVE  Accounted
    BY DEF TaskStep
<1>0. /\ task \in [Tasks -> TaskStatus]
      /\ assignee \in [Tasks -> Sessions \cup {None}]
      /\ delegator \in [Tasks -> Sessions \cup {None}]
      /\ coordinator \in [Tasks -> Sessions \cup {None}]
  BY DEF TypeOK
<1>1. ASSUME NEW d \in Sessions, NEW s \in Sessions, CreateTask(t, d, s) PROVE Accounted
  <2> DEFINE e == Ev("created", t, d, None, s)
  <2>1. e \in Event
    BY EvType DEF EventTypes, Handover
  <2>2. log' = Append(log, e) /\ e.task = t
    BY <1>1 DEF CreateTask, Ev
  <2>3. Effect(t, e)
    BY <1>0, <1>1 DEF CreateTask, OpenTask, Ev, Effect, Creates
  <2>4. \A u \in Tasks \ {t} : RowsKept(u)
    BY <1>0, <1>1 DEF CreateTask, OpenTask, RowsKept
  <2> HIDE DEF e
  <2> QED BY <2>1, <2>2, <2>3, <2>4, OneEvent
<1>2. ASSUME NEW d \in Sessions, SteerTask(t, d) PROVE Accounted
  <2> DEFINE e == Ev("steered", t, d, assignee[t], assignee[t])
  <2>1. e \in Event
    BY <1>0, EvType DEF EventTypes, Accepted
  <2>2. log' = Append(log, e) /\ e.task = t
    BY <1>2 DEF SteerTask, Ev
  <2>3. Effect(t, e)
    BY <1>2 DEF SteerTask, Directs, Ev, Effect, Steers, RowsKept, rowVars
  <2>4. \A u \in Tasks \ {t} : RowsKept(u)
    BY <1>2 DEF SteerTask, RowsKept, rowVars
  <2> HIDE DEF e
  <2> QED BY <2>1, <2>2, <2>3, <2>4, OneEvent
<1>3. ASSUME NEW d \in Sessions, NEW s \in Sessions, ReassignTask(t, d, s) PROVE Accounted
  <2> DEFINE e == Ev("reassigned", t, d, assignee[t], s)
  <2>1. e \in Event
    BY <1>0, EvType DEF EventTypes, Accepted
  <2>2. log' = Append(log, e) /\ e.task = t
    BY <1>3 DEF ReassignTask, Ev
  <2>3. Effect(t, e)
    BY <1>0, <1>3 DEF ReassignTask, Directs, Ev, Effect, Reassigns
  <2>4. \A u \in Tasks \ {t} : RowsKept(u)
    BY <1>0, <1>3 DEF ReassignTask, RowsKept
  <2> HIDE DEF e
  <2> QED BY <2>1, <2>2, <2>3, <2>4, OneEvent
<1>4. ASSUME NEW d \in Sessions, CancelTask(t, d) PROVE Accounted
  <2> DEFINE e == Ev("cancelled", t, d, assignee[t], assignee[t])
  <2>1. e \in Event
    BY <1>0, EvType DEF EventTypes, Settling
  <2>2. log' = Append(log, e) /\ e.task = t
    BY <1>4 DEF CancelTask, Ev
  <2>3. Effect(t, e)
    BY <1>0, <1>4 DEF CancelTask, Directs, Ev, Effect, Cancels
  <2>4. \A u \in Tasks \ {t} : RowsKept(u)
    BY <1>0, <1>4 DEF CancelTask, RowsKept
  <2> HIDE DEF e
  <2> QED BY <2>1, <2>2, <2>3, <2>4, OneEvent
<1>5. ASSUME NEW c \in Sessions, NEW s \in Sessions, NEW a \in Attempts, ResumeTask(t, c, s, a)
      PROVE  Accounted
  BY <1>5, ResumedAccounted DEF ResumeTask
<1>6. ASSUME NEW d \in Sessions, NEW c \in Sessions, NEW r \in Tasks, SecondOpinion(t, d, c, r)
      PROVE  Accounted
  <2> DEFINE e == Ev("created", r, d, None, c)
             f == [Ev("second_opinion_requested", t, d, assignee[t], c) EXCEPT !.review = r]
  <2>1. e \in Event
    BY EvType DEF EventTypes, Handover
  <2>2. Ev("second_opinion_requested", t, d, assignee[t], c) \in Event
    BY <1>0, EvType DEF EventTypes, Accepted
  <2>3. f \in Event
    BY <2>2 DEF Event
  <2>4. log' = log \o <<e, f>> /\ e.task = r /\ f.task = t /\ t # r
    BY <1>6 DEF SecondOpinion, OpenTask, Ev
  <2>5. Effect(r, e)
    BY <1>0, <1>6 DEF SecondOpinion, OpenTask, Ev, Effect, Creates
  <2>6. Effect(t, f)
    BY <1>0, <1>6, <2>4 DEF SecondOpinion, OpenTask, Directs, Ev, Effect, Steers, RowsKept
  <2>7. \A u \in Tasks \ {t, r} : RowsKept(u)
    BY <1>0, <1>6 DEF SecondOpinion, OpenTask, RowsKept
  <2> HIDE DEF e, f
  <2> QED BY <2>1, <2>3, <2>4, <2>5, <2>6, <2>7, TwoEvents
<1>7. ASSUME NEW s \in Sessions, NEW a \in Artifacts, CompleteTask(t, s, a) PROVE Accounted
  <2> DEFINE e == Ev("completed", t, s, s, s)
  <2>1. e \in Event
    BY EvType DEF EventTypes, Settling
  <2>2. log' = Append(log, e) /\ e.task = t
    BY <1>7 DEF CompleteTask, Ev
  <2>3. Effect(t, e)
    BY <1>0, <1>7 DEF CompleteTask, Ev, Effect, Completes
  <2>4. \A u \in Tasks \ {t} : RowsKept(u)
    BY <1>0, <1>7 DEF CompleteTask, RowsKept
  <2> HIDE DEF e
  <2> QED BY <2>1, <2>2, <2>3, <2>4, OneEvent
<1> QED BY <1>1, <1>2, <1>3, <1>4, <1>5, <1>6, <1>7

LEMMA ReceiptStepAccounted ==
    TypeOK /\ EventsOnTasks /\ ReceiptStep => Accounted
<1>1. ASSUME TypeOK, EventsOnTasks, NEW i \in DOMAIN log,
             log[i].type \in Accepted \cup {"cancelled"}, RecordReceipt(i, ReceiptFor(log[i]))
      PROVE  Accounted
  <2> DEFINE type == ReceiptFor(log[i])
             e == [Ev(type, log[i].task, log[i].by, None, log[i].to) EXCEPT !.ref = i]
  <2>0. log[i] \in Event /\ log[i].task \in Tasks /\ i \in Nat
    BY <1>1 DEF TypeOK, EventsOnTasks
  <2>1. type \in Receipts
    BY DEF ReceiptFor, ReceiptType, Receipts
  <2> HIDE DEF type
  <2>2. Ev(type, log[i].task, log[i].by, None, log[i].to) \in Event
    BY <2>0, <2>1, EvType DEF Event, EventTypes
  <2>3. e \in Event /\ e.task = log[i].task /\ e.type = type /\ e.ref = i /\ e.to = log[i].to
    BY <2>0, <2>2 DEF Event, Ev
  <2>4. log' = Append(log, e)
    BY <1>1 DEF RecordReceipt, type
  <2>5. \A u \in Tasks : RowsKept(u)
    BY <1>1 DEF RecordReceipt, RowsKept, rowVars
  <2>6. NoReceiptYet(i, type)
    BY <1>1 DEF RecordReceipt, type
  <2> HIDE DEF e
  <2>7. Effect(log[i].task, e)
    BY <1>1, <2>0, <2>1, <2>3, <2>5, <2>6 DEF Effect, Notes, Aside, type
  <2> QED BY <1>1, <2>0, <2>3, <2>4, <2>5, <2>7, OneEvent
<1>2. ASSUME TypeOK, NEW t \in Tasks, NEW a \in RefusalIds, RecordRefusal(t, a)
      PROVE  Accounted
  <2> DEFINE e == [Ev("steering_refused", t, None, None, None) EXCEPT !.attempt = a]
  <2>1. Ev("steering_refused", t, None, None, None) \in Event
    BY EvType DEF EventTypes
  <2>2. e \in Event
    BY <2>1 DEF Event
  <2>3. log' = Append(log, e) /\ e.task = t /\ e.type = "steering_refused"
    BY <1>2 DEF RecordRefusal, Ev
  <2>4. \A u \in Tasks : RowsKept(u)
    BY <1>2 DEF RecordRefusal, RowsKept, rowVars
  <2> HIDE DEF e
  <2>5. Effect(t, e)
    BY <2>3, <2>4 DEF Effect, Notes, Aside, Receipts
  <2> QED BY <1>2, <2>2, <2>3, <2>4, <2>5, OneEvent
<1> QED
  BY <1>1, <1>2 DEF ReceiptStep, RecordDelivery, RecordCancelOutcome, ReceiptFor, Accepted

LEMMA StepAccounted ==
    TypeOK /\ EventsOnTasks /\ [Next]_vars => Accounted
<1> SUFFICES ASSUME TypeOK, EventsOnTasks, [Next]_vars PROVE Accounted
  OBVIOUS
<1>1. CASE UNCHANGED vars
  BY <1>1, NoEvent DEF vars, rowVars
<1>2. CASE SessionStep
  BY <1>2, NoEvent DEF SessionStep, CreateSession, StartSession, BlockSession, UnblockSession,
     CancelSession, FailSession, CloseSession, SetStatus
<1>3. CASE EvidenceStep
  BY <1>3, NoEvent DEF EvidenceStep, PublishRead, PublishResult, BindSourceWork
<1> QED BY <1>1, <1>2, <1>3, TaskStepAccounted, ReceiptStepAccounted DEF Next

-----------------------------------------------------------------------------
LEMMA AccountedRecorded == Accounted => Recorded
<1> SUFFICES ASSUME Accounted, NEW t \in Tasks PROVE HandsOn(t) /\ SettlesOn(t) /\ LeavesBlank(t)
  BY DEF Accounted, Recorded
<1>0. LogGrows /\ StepOn(t)
  BY DEF Accounted
<1>1. CASE (\A j \in Fresh : log'[j].task # t) /\ RowsKept(t)
  BY <1>1 DEF HandsOn, SettlesOn, LeavesBlank, RowsKept, Settled
<1>2. CASE \E j \in Fresh :
             /\ log'[j].task = t /\ \A k \in Fresh : log'[k].task = t => k = j
             /\ Effect(t, log'[j])
  <2>1. PICK j \in Fresh :
           /\ log'[j].task = t /\ \A k \in Fresh : log'[k].task = t => k = j
           /\ Effect(t, log'[j])
    BY <1>2
  <2>2. j \in Nat
    BY <1>0, <2>1 DEF Fresh, LogGrows
  <2>3. HandsOn(t)
    BY <2>1 DEF HandsOn, Effect, Creates, Steers, Reassigns, Cancels, Resumes, Completes, Notes,
       RowsKept, Handover, Aside, Receipts
  <2>4. SettlesOn(t)
    BY <2>1, <2>2 DEF SettlesOn, Settled, Effect, Creates, Steers, Reassigns, Cancels, Resumes,
       Completes, Notes, RowsKept, Settling, Aside, Receipts
  <2>5. LeavesBlank(t)
    BY <2>1 DEF LeavesBlank, Effect, Creates, Steers, Reassigns, Cancels, Resumes, Completes,
       Notes, RowsKept
  <2> QED BY <2>3, <2>4, <2>5
<1> QED BY <1>0, <1>1, <1>2 DEF StepOn

-----------------------------------------------------------------------------
(* The inductive invariant of the hand-overs, Task by Task. *)
Started == {"created", "resumed"}

Blank == \A t \in Tasks : task[t] = "absent" =>
    /\ coordinator[t] = None
    /\ \A i \in DOMAIN log : log[i].task = t => log[i].type \in Aside
Unwritten == \A t \in Tasks, i \in DOMAIN log :
    task[t] = "absent" /\ log[i].task = t => log[i].type \in Aside
OwnerNamed == \A t \in Tasks, i \in DOMAIN log :
    Last(t, Handover, i) => assignee[t] = log[i].to
DirectorNamed == \A t \in Tasks, i \in DOMAIN log :
    Last(t, Started, i) => CurrentCoordinator(t) = log[i].by
Chained == \A i, j \in DOMAIN log :
    /\ i < j /\ log[i].task = log[j].task
    /\ log[i].type \in Handover /\ log[j].type \in Handover
    /\ \A k \in (i + 1) .. (j - 1) :
          ~(log[k].task = log[i].task /\ log[k].type \in Handover)
    => log[j].prev = log[i].to
HistoryInv ==
    EventsOnTasks /\ Blank /\ OwnerNamed /\ DirectorNamed /\ Chained /\ AuthorityTraceable

(* The last event of some types is either the new one, or was the last and *)
(* nothing of those types is new.                                          *)
LEMMA StillLast ==
    ASSUME LogGrows, NEW t \in Tasks, NEW types, NEW i \in DOMAIN log, Last(t, types, i)'
    PROVE  /\ Last(t, types, i)
           /\ \A j \in Fresh : ~(log'[j].task = t /\ log'[j].type \in types)
<1>1. /\ log'[i].task = t /\ log'[i].type \in types
      /\ \A j \in DOMAIN log' : j > i => ~(log'[j].task = t /\ log'[j].type \in types)
  BY DEF Last
<1>2. \A j \in Fresh : j \in DOMAIN log' /\ j > i
  BY DEF Fresh, LogGrows
<1>3. \A j \in DOMAIN log : j \in DOMAIN log' /\ log'[j] = log[j]
  BY DEF LogGrows
<1> QED BY <1>1, <1>2, <1>3 DEF Last

(* What no event of some types separates from a new event was the last.    *)
LEMMA LastBefore ==
    ASSUME LogGrows, NEW t \in Tasks, NEW types, NEW i \in DOMAIN log, NEW j \in Fresh,
           log[i].task = t, log[i].type \in types,
           \A k \in (i + 1) .. (j - 1) : ~(log'[k].task = t /\ log'[k].type \in types)
    PROVE  Last(t, types, i)
<1>1. ASSUME NEW k \in DOMAIN log, k > i PROVE k \in (i + 1) .. (j - 1) /\ log'[k] = log[k]
  BY <1>1 DEF Fresh, LogGrows
<1> QED BY <1>1 DEF Last

LEMMA BlankKept ==
    EventsOnTasks /\ Blank /\ Accounted => EventsOnTasks' /\ Blank'
<1> SUFFICES ASSUME EventsOnTasks, Blank, Accounted PROVE EventsOnTasks' /\ Blank'
  OBVIOUS
<1>0. LogGrows /\ \A i \in DOMAIN log' : i \in DOMAIN log \/ i \in Fresh
  BY DEF Accounted, Fresh
<1>1. EventsOnTasks'
  BY <1>0 DEF EventsOnTasks, LogGrows
<1>2. ASSUME NEW t \in Tasks, task'[t] = "absent"
      PROVE  /\ coordinator'[t] = None
             /\ \A i \in DOMAIN log' : log'[i].task = t => log'[i].type \in Aside
  <2>1. StepOn(t)
    BY DEF Accounted
  <2>2. CASE (\A j \in Fresh : log'[j].task # t) /\ RowsKept(t)
    BY <1>0, <1>2, <2>2 DEF RowsKept, Blank, LogGrows
  <2>3. CASE \E j \in Fresh :
               /\ log'[j].task = t /\ \A k \in Fresh : log'[k].task = t => k = j
               /\ Effect(t, log'[j])
    <3>1. PICK j \in Fresh :
             /\ \A k \in Fresh : log'[k].task = t => k = j
             /\ Effect(t, log'[j])
      BY <2>3
    <3>2. Notes(t, log'[j])
      BY <1>2, <3>1 DEF Effect, Creates, Steers, Reassigns, Cancels, Resumes, Completes, RowsKept
    <3> QED BY <1>0, <1>2, <3>1, <3>2 DEF Notes, RowsKept, Blank, LogGrows
  <2> QED BY <2>1, <2>2, <2>3 DEF StepOn
<1> QED BY <1>1, <1>2 DEF Blank

LEMMA UnwrittenKept ==
    Unwritten /\ Recorded => Unwritten'
BY DEF Unwritten, Recorded, LeavesBlank, LogGrows, Fresh

LEMMA OwnerKept ==
    OwnerNamed /\ Recorded => OwnerNamed'
<1> SUFFICES ASSUME OwnerNamed, Recorded, NEW t \in Tasks, NEW i \in DOMAIN log',
                    Last(t, Handover, i)'
             PROVE  assignee'[t] = log'[i].to
  BY DEF OwnerNamed
<1>0. LogGrows /\ HandsOn(t)
  BY DEF Recorded
<1>1. log'[i].task = t /\ log'[i].type \in Handover
  BY DEF Last
<1>2. CASE i \in DOMAIN log
  <2>1. /\ Last(t, Handover, i) /\ log'[i] = log[i]
        /\ \A j \in Fresh : ~(log'[j].task = t /\ log'[j].type \in Handover)
    BY <1>0, <1>2, StillLast DEF LogGrows
  <2> QED BY <1>0, <1>2, <2>1 DEF HandsOn, OwnerNamed
<1>3. CASE i \in Fresh
  BY <1>0, <1>1, <1>3 DEF HandsOn
<1> QED BY <1>2, <1>3 DEF Fresh

LEMMA DirectorKept ==
    Blank /\ DirectorNamed /\ Accounted => DirectorNamed'
<1> SUFFICES ASSUME Blank, DirectorNamed, Accounted, NEW t \in Tasks, NEW i \in DOMAIN log',
                    Last(t, Started, i)'
             PROVE  CurrentCoordinator(t)' = log'[i].by
  BY DEF DirectorNamed
<1>0. LogGrows /\ StepOn(t)
  BY DEF Accounted
<1>1. log'[i].task = t /\ log'[i].type \in Started
  BY DEF Last
<1>2. CASE i \in DOMAIN log
  <2>1. /\ Last(t, Started, i) /\ log'[i] = log[i]
        /\ \A j \in Fresh : ~(log'[j].task = t /\ log'[j].type \in Started)
    BY <1>0, <1>2, StillLast DEF LogGrows
  <2>2. coordinator'[t] = coordinator[t] /\ delegator'[t] = delegator[t]
    BY <1>0, <2>1 DEF StepOn, RowsKept, Effect, Creates, Steers, Reassigns, Cancels, Resumes,
       Completes, Notes, Started
  <2> QED BY <1>2, <2>1, <2>2 DEF DirectorNamed, CurrentCoordinator
<1>3. CASE i \in Fresh
  <2>1. Effect(t, log'[i])
    BY <1>0, <1>1, <1>3 DEF StepOn
  <2>2. Creates(t, log'[i]) \/ Resumes(t, log'[i])
    BY <1>1, <2>1 DEF Effect, Steers, Reassigns, Cancels, Completes, Notes,
       Started, Aside, Receipts
  <2> QED BY <2>2 DEF Creates, Resumes, Blank, CurrentCoordinator
<1> QED BY <1>2, <1>3 DEF Fresh

(* An event that is not about an absent Task is not its creation. *)
LEMMA ChainKept ==
    Unwritten /\ OwnerNamed /\ Chained /\ Recorded => Chained'
<1> SUFFICES ASSUME Unwritten, OwnerNamed, Chained, Recorded,
                    NEW i \in DOMAIN log', NEW j \in DOMAIN log',
                    i < j, log'[i].task = log'[j].task,
                    log'[i].type \in Handover, log'[j].type \in Handover,
                    \A k \in (i + 1) .. (j - 1) :
                       ~(log'[k].task = log'[i].task /\ log'[k].type \in Handover)
             PROVE  log'[j].prev = log'[i].to
  BY DEF Chained
<1>0. LogGrows
  BY DEF Recorded
<1>1. CASE j \in DOMAIN log
  <2>1. i \in DOMAIN log /\ \A k \in (i + 1) .. (j - 1) : k \in DOMAIN log
    BY <1>0, <1>1 DEF LogGrows
  <2> QED BY <1>0, <1>1, <2>1 DEF LogGrows, Chained
<1>2. CASE j \in Fresh
  <2> DEFINE t == log'[j].task
  <2>1. /\ t \in Tasks /\ (task[t] = "absent" \/ log'[j].prev = assignee[t])
        /\ \A k \in Fresh : log'[k].task = t /\ log'[k].type \in Handover => k = j
    BY <1>0, <1>2 DEF LogGrows, Recorded, HandsOn
  <2>2. i \in DOMAIN log
    <3>1. i \notin Fresh
      BY <1>0, <2>1 DEF LogGrows
    <3> QED BY <3>1 DEF Fresh
  <2>3. log'[i] = log[i] /\ log[i].task = t /\ log[i].type \in Handover
    BY <1>0, <2>2 DEF LogGrows
  <2>4. \A k \in (i + 1) .. (j - 1) : ~(log'[k].task = t /\ log'[k].type \in Handover)
    OBVIOUS
  <2> HIDE DEF t
  <2>5. Last(t, Handover, i)
    BY <1>0, <1>2, <2>1, <2>2, <2>3, <2>4, LastBefore
  <2>6. task[t] # "absent"
    BY <2>1, <2>2, <2>3 DEF Unwritten, Handover, Aside, Receipts
  <2> QED BY <2>1, <2>2, <2>3, <2>5, <2>6 DEF OwnerNamed
<1> QED BY <1>1, <1>2 DEF Fresh

LEMMA AuthorityKept ==
    OwnerNamed /\ DirectorNamed /\ AuthorityTraceable /\ Accounted => AuthorityTraceable'
<1> SUFFICES ASSUME OwnerNamed, DirectorNamed, AuthorityTraceable, Accounted,
                    NEW i \in DOMAIN log', NEW j \in DOMAIN log',
                    i < j, log'[i].task = log'[j].task,
                    log'[j].type \in Accepted \cup {"cancelled"}
             PROVE  /\ log'[i].type \in Started
                       /\ (\A k \in (i + 1) .. (j - 1) :
                             ~(log'[k].task = log'[i].task /\ log'[k].type \in Started))
                       => log'[j].by = log'[i].by
                    /\ log'[i].type \in Handover
                       /\ (\A k \in (i + 1) .. (j - 1) :
                             ~(log'[k].task = log'[i].task /\ log'[k].type \in Handover))
                       => log'[j].prev = log'[i].to
  BY DEF AuthorityTraceable, Started
<1>0. LogGrows
  BY DEF Accounted
<1>1. CASE j \in DOMAIN log
  <2>1. i \in DOMAIN log /\ \A k \in (i + 1) .. (j - 1) : k \in DOMAIN log
    BY <1>0, <1>1 DEF LogGrows
  <2>2. /\ log'[i] = log[i] /\ log'[j] = log[j]
        /\ \A k \in (i + 1) .. (j - 1) : log'[k] = log[k]
    BY <1>0, <1>1, <2>1 DEF LogGrows
  <2>3. ASSUME log[i].type \in Started,
               \A k \in (i + 1) .. (j - 1) : ~(log'[k].task = log'[i].task /\ log'[k].type \in Started)
        PROVE  log[j].by = log[i].by
    <3>1. \A k \in (i + 1) .. (j - 1) : ~(log[k].task = log[i].task /\ log[k].type \in Started)
      BY <2>2, <2>3
    <3> QED BY <1>1, <2>1, <2>2, <2>3, <3>1 DEF AuthorityTraceable, Started
  <2>4. ASSUME log[i].type \in Handover,
               \A k \in (i + 1) .. (j - 1) : ~(log'[k].task = log'[i].task /\ log'[k].type \in Handover)
        PROVE  log[j].prev = log[i].to
    <3>1. \A k \in (i + 1) .. (j - 1) : ~(log[k].task = log[i].task /\ log[k].type \in Handover)
      BY <2>2, <2>4
    <3> QED BY <1>1, <2>1, <2>2, <2>4, <3>1 DEF AuthorityTraceable
  <2> QED BY <2>2, <2>3, <2>4
<1>2. CASE j \in Fresh
  <2> DEFINE t == log'[j].task
  <2>1. t \in Tasks /\ Effect(t, log'[j]) /\ \A k \in Fresh : log'[k].task = t => k = j
    BY <1>0, <1>2 DEF LogGrows, Accounted, StepOn
  <2>2. i \in DOMAIN log
    <3>1. i \notin Fresh
      BY <1>0, <2>1 DEF LogGrows
    <3> QED BY <3>1 DEF Fresh
  <2>3. log'[i] = log[i] /\ log[i].task = t
    BY <1>0, <2>2 DEF LogGrows
  <2>4. log'[j].by = CurrentCoordinator(t) /\ log'[j].prev = assignee[t]
    BY <2>1 DEF Effect, Creates, Steers, Reassigns, Cancels, Resumes, Completes, Notes,
       Accepted, Aside, Receipts
  <2>5. ASSUME NEW types, log'[i].type \in types,
               \A k \in (i + 1) .. (j - 1) : ~(log'[k].task = log'[i].task /\ log'[k].type \in types)
        PROVE  Last(t, types, i)
    <3>1. \A k \in (i + 1) .. (j - 1) : ~(log'[k].task = t /\ log'[k].type \in types)
      BY <2>5
    <3> HIDE DEF t
    <3> QED BY <1>0, <1>2, <2>1, <2>2, <2>3, <2>5, <3>1, LastBefore
  <2>6. Last(t, Started, i) => log'[j].by = log'[i].by
    BY <2>1, <2>2, <2>3, <2>4 DEF DirectorNamed
  <2>7. Last(t, Handover, i) => log'[j].prev = log'[i].to
    BY <2>1, <2>2, <2>3, <2>4 DEF OwnerNamed
  <2> HIDE DEF t
  <2> QED BY <2>5, <2>6, <2>7
<1> QED BY <1>1, <1>2 DEF Fresh

LEMMA HistoryKept ==
    HistoryInv /\ Accounted => HistoryInv'
<1> SUFFICES ASSUME HistoryInv, Accounted PROVE HistoryInv'
  OBVIOUS
<1>1. /\ EventsOnTasks /\ Blank /\ OwnerNamed /\ DirectorNamed /\ Chained /\ AuthorityTraceable
      /\ Recorded
  BY AccountedRecorded DEF HistoryInv
<1>2. EventsOnTasks' /\ Blank'
  BY <1>1, BlankKept
<1>3. OwnerNamed' /\ DirectorNamed'
  BY <1>1, OwnerKept, DirectorKept
<1>4. Chained' /\ AuthorityTraceable'
  BY <1>1, ChainKept, AuthorityKept DEF Unwritten, Blank
<1> QED BY <1>2, <1>3, <1>4 DEF HistoryInv

LEMMA HistoryStart == Init => HistoryInv
BY DEF Init, HistoryInv, EventsOnTasks, Blank, OwnerNamed, DirectorNamed, Chained, AuthorityTraceable

LEMMA HistoryInvariant == Spec => [](TypeOK /\ HistoryInv)
<1>1. TypeOK /\ HistoryInv /\ [Next]_vars => HistoryInv'
  BY StepAccounted, HistoryKept DEF HistoryInv
<1> QED BY <1>1, HistoryStart, TypeCorrect, PTL DEF Spec

(* Read back from the events, the owners of a Task form a chain: each      *)
(* hand-over starts from the session the one before it named, and the last *)
(* one names the assignee of the row.                                      *)
THEOREM HandoversChain == Spec => []HandoverChain
<1>1. HistoryInv => HandoverChain
  BY DEF HistoryInv, Chained, OwnerNamed, HandoverChain
<1> QED BY <1>1, HistoryInvariant, PTL

(* Every accepted steering, hand-over and cancellation names the session   *)
(* the latest created or resumed event put in charge, and the owner of     *)
(* that moment (requireRunningTaskCoordinator).                            *)
THEOREM AuthorityIsTraceable == Spec => []AuthorityTraceable
<1>1. HistoryInv => AuthorityTraceable
  BY DEF HistoryInv
<1> QED BY <1>1, HistoryInvariant, PTL

-----------------------------------------------------------------------------
(* Settled Tasks: the row and the settling event appear together. *)
SettledBy(t, what, type) ==
    (task[t] = what) <=> (\E i \in DOMAIN log : log[i].task = t /\ log[i].type = type)
QuietAfter(t) == \A i, j \in DOMAIN log :
    /\ i < j /\ log[i].task = t /\ log[j].task = t /\ log[i].type \in Settling
    => log[j].type \in Aside
FinalOf(t) ==
    SettledBy(t, "done", "completed") /\ SettledBy(t, "cancelled", "cancelled") /\ QuietAfter(t)

Finals == \A t \in Tasks : FinalOf(t)

LEMMA FinalKept ==
    ASSUME Recorded, NEW t \in Tasks, task[t] \in TaskStatus, FinalOf(t)
    PROVE  FinalOf(t)'
<1>0. /\ SettlesOn(t) /\ DOMAIN log' = DOMAIN log \cup Fresh
      /\ DOMAIN log' \subseteq Nat
      /\ \A i \in DOMAIN log : log'[i] = log[i] /\ \A j \in Fresh : i < j
  BY DEF Recorded, Fresh, LogGrows
<1>1. Settled(t) \/ \A i \in DOMAIN log : log[i].task = t => log[i].type \notin Settling
  BY DEF FinalOf, SettledBy, Settled, Settling
<1>2. SettledBy(t, "done", "completed")' /\ SettledBy(t, "cancelled", "cancelled")'
  <2>1. CASE Settled(t)
    BY <1>0, <2>1 DEF FinalOf, SettledBy, SettlesOn, Aside, Receipts
  <2>2. CASE ~Settled(t)
    BY <1>0, <1>1, <2>2 DEF FinalOf, SettledBy, SettlesOn, Settled, Settling
  <2> QED BY <2>1, <2>2
<1>3. ASSUME NEW i \in DOMAIN log', NEW k \in DOMAIN log', i < k,
             log'[i].task = t, log'[k].task = t, log'[i].type \in Settling
      PROVE  log'[k].type \in Aside
  <2>1. CASE k \in DOMAIN log
    <3>1. i \in DOMAIN log
      BY <1>0, <1>3, <2>1
    <3> QED BY <1>0, <1>3, <2>1, <3>1 DEF FinalOf, QuietAfter
  <2>2. CASE i \in DOMAIN log /\ k \in Fresh
    BY <1>0, <1>1, <1>3, <2>2 DEF SettlesOn
  <2>3. CASE i \in Fresh /\ k \in Fresh
    <3>1. ~Settled(t)
      BY <1>0, <1>3, <2>3 DEF SettlesOn, Aside, Receipts, Settling
    <3> QED BY <1>0, <1>3, <2>3, <3>1 DEF SettlesOn
  <2> QED BY <1>0, <1>3, <2>1, <2>2, <2>3
<1>4. QuietAfter(t)'
  BY <1>3 DEF QuietAfter
<1> QED BY <1>2, <1>4 DEF FinalOf

(* A settled Task accepts nothing more: done and cancelled are each written*)
(* with one event, and only receipts and refusals may follow it.           *)
THEOREM FinalStatesHold == Spec => []FinalStaysFinal
<1>1. Init => Finals
  BY DEF Init, Finals, FinalOf, SettledBy, QuietAfter
<1>2. TypeOK /\ HistoryInv /\ Finals /\ [Next]_vars => Finals'
  BY StepAccounted, AccountedRecorded, FinalKept DEF HistoryInv, Finals, TypeOK
<1>3. Finals => FinalStaysFinal
  BY DEF Finals, FinalOf, SettledBy, QuietAfter, FinalStaysFinal, Aside
<1> QED BY <1>1, <1>2, <1>3, HistoryInvariant, PTL DEF Spec

-----------------------------------------------------------------------------
(* Receipts: each is of the kind its event calls for, so that one of the   *)
(* same kind is the only other receipt its event could have.               *)
ReceiptsMatch == \A i \in DOMAIN log : log[i].type \in Receipts =>
    /\ log[i].ref \in 1 .. (i - 1)
    /\ log[log[i].ref].type \in Accepted \cup {"cancelled"}
    /\ log[log[i].ref].task = log[i].task
    /\ log[log[i].ref].to = log[i].to
    /\ log[i].type = ReceiptFor(log[log[i].ref])
ReceiptsOnce == \A i, j \in DOMAIN log :
    log[i].type \in Receipts /\ log[j].type \in Receipts /\ log[i].ref = log[j].ref => i = j

LEMMA ReceiptsKept ==
    ReceiptsMatch /\ ReceiptsOnce /\ Accounted => ReceiptsMatch' /\ ReceiptsOnce'
<1> SUFFICES ASSUME ReceiptsMatch, ReceiptsOnce, Accounted PROVE ReceiptsMatch' /\ ReceiptsOnce'
  OBVIOUS
<1>0. /\ DOMAIN log = 1 .. Len(log) /\ Len(log) \in Nat
      /\ DOMAIN log' = DOMAIN log \cup Fresh
      /\ \A i \in DOMAIN log : log'[i] = log[i]
  BY DEF Accounted, LogGrows, Fresh
<1>1. ASSUME NEW i \in Fresh, log'[i].type \in Receipts
      PROVE  /\ \A k \in Fresh : log'[k].task = log'[i].task => k = i
             /\ log'[i].ref \in DOMAIN log
             /\ log[log'[i].ref].type \in Accepted \cup {"cancelled"}
             /\ log[log'[i].ref].task = log'[i].task /\ log[log'[i].ref].to = log'[i].to
             /\ log'[i].type = ReceiptFor(log[log'[i].ref])
             /\ NoReceiptYet(log'[i].ref, log'[i].type)
             /\ i \in Nat /\ i > Len(log)
  <2>1. log'[i].task \in Tasks /\ i \in Nat /\ i > Len(log)
    BY DEF Accounted, LogGrows, Fresh
  <2>2. Effect(log'[i].task, log'[i]) /\ \A k \in Fresh : log'[k].task = log'[i].task => k = i
    BY <2>1 DEF Accounted, StepOn
  <2>3. Notes(log'[i].task, log'[i])
    BY <1>1, <2>2 DEF Effect, Creates, Steers, Reassigns, Cancels, Resumes, Completes, Receipts
  <2> QED BY <1>1, <2>1, <2>2, <2>3 DEF Notes
<1>2. ReceiptsMatch'
  <2> SUFFICES ASSUME NEW i \in DOMAIN log', log'[i].type \in Receipts
               PROVE  /\ log'[i].ref \in 1 .. (i - 1)
                      /\ log'[log'[i].ref].type \in Accepted \cup {"cancelled"}
                      /\ log'[log'[i].ref].task = log'[i].task
                      /\ log'[log'[i].ref].to = log'[i].to
                      /\ log'[i].type = ReceiptFor(log'[log'[i].ref])
    BY DEF ReceiptsMatch, ReceiptFor, ReceiptType
  <2>1. CASE i \in DOMAIN log
    <3>1. log'[i] = log[i] /\ log[i].ref \in 1 .. (i - 1)
      BY <1>0, <2>1 DEF ReceiptsMatch
    <3>2. log[i].ref \in DOMAIN log
      BY <1>0, <2>1, <3>1
    <3> QED BY <1>0, <2>1, <3>1, <3>2 DEF ReceiptsMatch
  <2>2. CASE i \in Fresh
    <3>1. log'[i].ref \in 1 .. (i - 1)
      BY <1>0, <1>1, <2>2
    <3> QED BY <1>0, <1>1, <2>2, <3>1
  <2> QED BY <1>0, <2>1, <2>2
<1>3. ASSUME NEW i \in DOMAIN log', NEW j \in DOMAIN log',
             log'[i].type \in Receipts, log'[j].type \in Receipts, log'[i].ref = log'[j].ref
      PROVE  i = j
  <2>1. ASSUME NEW m \in DOMAIN log, NEW n \in Fresh,
               log'[m].type \in Receipts, log'[n].type \in Receipts, log'[m].ref = log'[n].ref
        PROVE  FALSE
    <3>1. log[m].type = ReceiptFor(log[log[m].ref]) /\ log'[m] = log[m]
      BY <1>0, <2>1 DEF ReceiptsMatch
    <3>2. log'[n].type = log[m].type /\ NoReceiptYet(log[m].ref, log[m].type)
      BY <1>1, <2>1, <3>1
    <3> QED BY <3>2 DEF NoReceiptYet
  <2>2. CASE i \in DOMAIN log /\ j \in DOMAIN log
    BY <1>0, <1>3, <2>2 DEF ReceiptsOnce
  <2>3. CASE i \in Fresh /\ j \in Fresh
    BY <1>1, <1>3, <2>3
  <2> QED BY <1>0, <1>3, <2>1, <2>2, <2>3
<1>4. ReceiptsOnce'
  BY <1>3 DEF ReceiptsOnce
<1> QED BY <1>2, <1>4

(* One receipt per accepted event, written after it, naming the session the*)
(* event addressed even when the Task has moved on since.                  *)
THEOREM ReceiptsAreUnique == Spec => []OneReceiptPerAcceptance
<1>1. Init => ReceiptsMatch /\ ReceiptsOnce
  BY DEF Init, ReceiptsMatch, ReceiptsOnce
<1>2. TypeOK /\ HistoryInv /\ ReceiptsMatch /\ ReceiptsOnce /\ [Next]_vars
      => ReceiptsMatch' /\ ReceiptsOnce'
  BY StepAccounted, ReceiptsKept DEF HistoryInv
<1>3. ReceiptsMatch /\ ReceiptsOnce => OneReceiptPerAcceptance
  BY DEF ReceiptsMatch, ReceiptsOnce, OneReceiptPerAcceptance
<1> QED BY <1>1, <1>2, <1>3, HistoryInvariant, PTL DEF Spec

-----------------------------------------------------------------------------
(* Published trajectories are never overwritten, and a done Task keeps its *)
(* owner: what completed it stays its evidence.                            *)
Evidenced == \A t \in Tasks : task[t] = "done" =>
    /\ assignee[t] \in Sessions
    /\ \E a \in Artifacts : result[a] = [by |-> assignee[t], readBy |-> assignee[t]]

LEMMA EvidenceStays ==
    ASSUME TypeOK, [Next]_vars, NEW a \in Artifacts, result[a].by \in Sessions
    PROVE  result'[a] = result[a]
<1>1. CASE \E b \in Artifacts, s, r \in Sessions : PublishResult(b, s, r)
  <2>1. PICK b \in Artifacts, s \in Sessions, r \in Sessions : PublishResult(b, s, r)
    BY <1>1
  <2>2. a # b
    BY <2>1, NoneAssumption DEF PublishResult
  <2> QED BY <2>1, <2>2 DEF PublishResult, TypeOK
<1>2. CASE ~\E b \in Artifacts, s, r \in Sessions : PublishResult(b, s, r)
  <2>0. CASE UNCHANGED vars
    BY <2>0 DEF vars
  <2>1. CASE SessionStep
    BY <2>1 DEF SessionStep, CreateSession, StartSession, BlockSession, UnblockSession,
       CancelSession, FailSession, CloseSession, SetStatus, evidenceVars
  <2>2. CASE TaskStep
    <3>1. ASSUME NEW t \in Tasks, NEW d \in Sessions, NEW s \in Sessions, OpenTask(t, d, s)
          PROVE  result' = result
      BY <3>1 DEF OpenTask, evidenceVars
    <3>2. ASSUME NEW t \in Tasks, NEW d \in Sessions, NEW s \in Sessions,
                 \/ SteerTask(t, d) \/ ReassignTask(t, d, s) \/ CancelTask(t, d)
                 \/ \E x \in Attempts : ResumeTask(t, d, s, x)
                 \/ \E x \in Artifacts : CompleteTask(t, s, x)
          PROVE  result' = result
      BY <3>2 DEF SteerTask, ReassignTask, CancelTask, ResumeTask, Resumed, CompleteTask,
         evidenceVars
    <3>3. \A t \in Tasks, d, s \in Sessions, r \in Tasks :
             /\ CreateTask(t, d, s) => OpenTask(t, d, s)
             /\ SecondOpinion(t, d, s, r) => OpenTask(r, d, s)
      BY DEF CreateTask, SecondOpinion
    <3> QED BY <2>2, <3>1, <3>2, <3>3 DEF TaskStep
  <2>3. CASE ReceiptStep
    BY <2>3 DEF ReceiptStep, RecordDelivery, RecordCancelOutcome, RecordReceipt, RecordRefusal,
       evidenceVars
  <2>4. CASE EvidenceStep
    BY <1>2, <2>4 DEF EvidenceStep, PublishRead, BindSourceWork
  <2> QED BY <2>0, <2>1, <2>2, <2>3, <2>4 DEF Next
<1> QED BY <1>1, <1>2

(* A Task becomes done only in CompleteTask, on its owner's own evidence.  *)
LEMMA DoneByOwner ==
    ASSUME TypeOK, EventsOnTasks, [Next]_vars, NEW t \in Tasks, task'[t] = "done", task[t] # "done"
    PROVE  \E a \in Artifacts : /\ assignee[t] \in Sessions /\ assignee'[t] = assignee[t]
                                /\ result[a].by = assignee[t] /\ result[a].readBy = assignee[t]
<1>0. /\ task \in [Tasks -> TaskStatus] /\ assignee \in [Tasks -> Sessions \cup {None}]
  BY DEF TypeOK
<1>1. TaskStep
  BY QuietSteps DEF Next, SessionStep, CreateSession, StartSession, BlockSession, UnblockSession,
     CancelSession, FailSession, CloseSession, SetStatus, rowVars, vars
<1>2. PICK u \in Tasks :
        \/ \E d, s \in Sessions : CreateTask(u, d, s)
        \/ \E d \in Sessions : SteerTask(u, d)
        \/ \E d, s \in Sessions : ReassignTask(u, d, s)
        \/ \E d \in Sessions : CancelTask(u, d)
        \/ \E c, s \in Sessions, a \in Attempts : ResumeTask(u, c, s, a)
        \/ \E d, c \in Sessions, r \in Tasks : SecondOpinion(u, d, c, r)
        \/ \E s \in Sessions, a \in Artifacts : CompleteTask(u, s, a)
  BY <1>1 DEF TaskStep
<1>3. \E s \in Sessions, a \in Artifacts : CompleteTask(u, s, a)
  BY <1>0, <1>2 DEF CreateTask, OpenTask, SteerTask, ReassignTask, CancelTask, ResumeTask, Resumed,
     SecondOpinion, rowVars
<1>4. PICK s \in Sessions, a \in Artifacts : CompleteTask(u, s, a)
  BY <1>3
<1>5. u = t
  BY <1>0, <1>4 DEF CompleteTask
<1> QED BY <1>4, <1>5 DEF CompleteTask

(* A done Task rests on a trajectory its final owner produced from its own *)
(* receipted read (assertTaskCompletionLineage).                           *)
THEOREM CompletionHasEvidence == Spec => []DoneOnOwnEvidence
<1>1. Init => Evidenced
  BY DEF Init, Evidenced
<1>2. TypeOK /\ HistoryInv /\ Evidenced /\ [Next]_vars => Evidenced'
  <2> SUFFICES ASSUME TypeOK, HistoryInv, Evidenced, [Next]_vars, NEW t \in Tasks, task'[t] = "done"
               PROVE  /\ assignee'[t] \in Sessions
                      /\ \E a \in Artifacts :
                            result'[a] = [by |-> assignee'[t], readBy |-> assignee'[t]]
    BY DEF Evidenced
  <2>1. Accounted /\ EventsOnTasks
    BY StepAccounted DEF HistoryInv
  <2>2. CASE task[t] = "done"
    <3>1. assignee'[t] = assignee[t]
      <4>1. StepOn(t)
        BY <2>1 DEF Accounted
      <4> QED BY <2>2, <4>1 DEF StepOn, RowsKept, Effect, Creates, Steers, Reassigns, Cancels,
             Resumes, Completes, Notes
    <3>2. assignee[t] \in Sessions
          /\ \E a \in Artifacts : result[a] = [by |-> assignee[t], readBy |-> assignee[t]]
      BY <2>2 DEF Evidenced
    <3> QED BY <3>1, <3>2, EvidenceStays
  <2>3. CASE task[t] # "done"
    <3>1. PICK a \in Artifacts : /\ assignee[t] \in Sessions /\ assignee'[t] = assignee[t]
                                 /\ result[a].by = assignee[t] /\ result[a].readBy = assignee[t]
      BY <2>1, <2>3, DoneByOwner
    <3>2. result[a] = [by |-> assignee[t], readBy |-> assignee[t]]
      BY <3>1 DEF TypeOK
    <3>3. result'[a] = result[a]
      BY <3>1, EvidenceStays
    <3> QED BY <3>1, <3>2, <3>3
  <2> QED BY <2>2, <2>3
<1>3. Evidenced => DoneOnOwnEvidence
  BY DEF Evidenced, DoneOnOwnEvidence
<1> QED BY <1>1, <1>2, <1>3, HistoryInvariant, PTL DEF Spec
=============================================================================
