----------------------------- MODULE TaskKernel -----------------------------
(***************************************************************************)
(* The kernel's Task and agent_session commands                            *)
(* (packages/qf-kernel: execute.ts, create.ts, task-coordination.ts).      *)
(*                                                                         *)
(* Every command is one synchronous SQLite transaction of the one process  *)
(* that owns the kernel database, so a command is one step; what is free   *)
(* is the order in which agents, the operator and the host call them.      *)
(* A refused command writes nothing and is a disabled step here, except    *)
(* record_task_steering_refusal, which is itself a command.                *)
(***************************************************************************)
EXTENDS Naturals, Sequences, FiniteSets

CONSTANTS
    Sessions,       \* agent_session ids
    Orchestrators,  \* admitted with role orchestrator and desk.orchestrate
    MarketWorkers,  \* admitted with role worker and market.read
    Critics,        \* admitted with role critic and research.evaluate
    Tasks,          \* task ids, review Tasks included
    MarketTasks,    \* those created under a mission that investigates a market
    Artifacts,      \* ids of published result trajectories
    Attempts,       \* attempt ids the operator's surface mints for resumes
    RefusalIds,     \* attempt ids it mints for refused steering
    Reasons,        \* failure reasons the host records
    MaxEvents,      \* bound on the Task events a run looks at
    MaxStopped,     \* bound on the sessions that have stopped running
    None            \* no session, Task, artifact or attempt

ASSUME RoleAssumption ==
    /\ Orchestrators \subseteq Sessions
    /\ MarketWorkers \subseteq Sessions
    /\ Critics \subseteq Sessions
    /\ Orchestrators \cap MarketWorkers = {}
    /\ MarketTasks \subseteq Tasks
ASSUME NoneAssumption ==
    None \notin Sessions /\ None \notin Tasks /\ None \notin Artifacts
    /\ None \notin Attempts /\ None \notin RefusalIds
ASSUME BoundAssumption == MaxEvents \in Nat /\ MaxStopped \in Nat

VARIABLES
    status,      \* agent_session.status
    reason,      \* the reason recorded with agent_session.failed
    task,        \* task.status
    assignee,    \* the assigned_to link
    delegator,   \* the delegated_by link
    coordinator, \* the coordinated_by link, None while there is none
    reads,       \* sessions holding a kernel-receipted ontology read
    result,      \* published trajectories: who produced it, whose read it derives from
    sourceWork,  \* qf_review_source_work.result_artifact_id
    log          \* the Task events, oldest first

sessionVars == <<status, reason>>
rowVars == <<task, assignee, delegator, coordinator>>
evidenceVars == <<reads, result, sourceWork>>
vars == <<status, reason, task, assignee, delegator, coordinator,
          reads, result, sourceWork, log>>

SessionStatus == {"absent", "starting", "running", "blocked", "cancelled", "failed", "closed"}
TaskStatus == {"absent", "open", "done", "cancelled"}
ResumeReasons == {"provider_stream_interrupted", "provider_unavailable", "app_terminated",
                  "market_resume_setup_failed", "market_resume_dispatch_failed"}

(* The events that change or steer a Task, and the receipts about them.    *)
Accepted == {"steered", "reassigned", "second_opinion_requested"}
Receipts == {"steering_delivery", "reassignment_delivery", "second_opinion_delivery",
             "cancel_outcome"}
Handover == {"created", "reassigned", "resumed"}
Settling == {"cancelled", "completed"}
EventTypes == Accepted \cup Receipts \cup Handover \cup Settling \cup {"steering_refused"}

Event == [type : EventTypes,
          task : Tasks \cup {None},
          by : Sessions \cup {None},     \* the session the event holds responsible
          prev : Sessions \cup {None},   \* the assignee before it
          to : Sessions \cup {None},     \* the session it addresses
          ref : Nat,                     \* the accepted event a receipt is about, 0: none
          review : Tasks \cup {None},    \* the review Task a second opinion opened
          attempt : Attempts \cup RefusalIds \cup {None}]

TypeOK ==
    /\ status \in [Sessions -> SessionStatus]
    /\ reason \in [Sessions -> Reasons \cup {"none"}]
    /\ task \in [Tasks -> TaskStatus]
    /\ assignee \in [Tasks -> Sessions \cup {None}]
    /\ delegator \in [Tasks -> Sessions \cup {None}]
    /\ coordinator \in [Tasks -> Sessions \cup {None}]
    /\ reads \in SUBSET Sessions
    /\ result \in [Artifacts -> [by : Sessions \cup {None}, readBy : Sessions \cup {None}]]
    /\ sourceWork \in [Tasks -> Artifacts \cup {None}]
    /\ log \in Seq(Event)

Init ==
    /\ status = [s \in Sessions |-> "absent"]
    /\ reason = [s \in Sessions |-> "none"]
    /\ task = [t \in Tasks |-> "absent"]
    /\ assignee = [t \in Tasks |-> None]
    /\ delegator = [t \in Tasks |-> None]
    /\ coordinator = [t \in Tasks |-> None]
    /\ reads = {}
    /\ result = [a \in Artifacts |-> [by |-> None, readBy |-> None]]
    /\ sourceWork = [t \in Tasks |-> None]
    /\ log = <<>>

-----------------------------------------------------------------------------
(* Reading the rows and the log. *)

Running(s) == s \in Sessions /\ status[s] = "running"
OwnsOpenTask(s) == \E t \in Tasks : task[t] = "open" /\ assignee[t] = s

OriginalDelegator(t) == delegator[t]
CurrentCoordinator(t) == IF coordinator[t] # None THEN coordinator[t] ELSE delegator[t]

(* requireRunningTaskCoordinator, with the actor check of requireDirector. *)
Directs(s, t) ==
    /\ s = CurrentCoordinator(t)
    /\ Running(s)
    /\ coordinator[t] # None => s \in Orchestrators

Room(n) == Len(log) + n <= MaxEvents
Ev(type, t, by, prev, to) ==
    [type |-> type, task |-> t, by |-> by, prev |-> prev, to |-> to,
     ref |-> 0, review |-> None, attempt |-> None]

-----------------------------------------------------------------------------
(* agent_session commands. *)

Stopped == {"blocked", "cancelled", "failed", "closed"}

SetStatus(s, from, to) ==
    /\ status[s] \in from
    /\ to \in Stopped => Cardinality({z \in Sessions \ {s} : status[z] \in Stopped}) < MaxStopped
    /\ status' = [status EXCEPT ![s] = to]
    /\ UNCHANGED <<rowVars, evidenceVars, log>>

CreateSession(s) == SetStatus(s, {"absent"}, "starting") /\ UNCHANGED reason
StartSession(s) == SetStatus(s, {"starting"}, "running") /\ UNCHANGED reason
BlockSession(s) == SetStatus(s, {"running"}, "blocked") /\ UNCHANGED reason
UnblockSession(s) == SetStatus(s, {"blocked"}, "running") /\ UNCHANGED reason
CancelSessionMisspelt(s) == SetStatus(s, {"running", "blocked"}, "canceled") /\ UNCHANGED reason
CancelSession(s) == SetStatus(s, {"running", "blocked"}, "cancelled") /\ UNCHANGED reason
FailSession(s) ==
    /\ SetStatus(s, {"starting", "running", "blocked"}, "failed")
    /\ \E r \in Reasons : reason' = [reason EXCEPT ![s] = r]
CloseSessionUnchecked(s) ==
    /\ SetStatus(s, {"running", "cancelled", "failed"}, "closed")
    /\ UNCHANGED reason
CloseSession(s) ==
    /\ ~OwnsOpenTask(s)
    /\ SetStatus(s, {"running", "cancelled", "failed"}, "closed")
    /\ UNCHANGED reason

-----------------------------------------------------------------------------
(* Task commands. *)

(* writeTaskInTransaction; executeSecondOpinion writes the same rows.      *)
OpenTask(t, d, s) ==
    /\ task[t] = "absent"
    /\ Running(d) /\ Running(s)
    /\ task' = [task EXCEPT ![t] = "open"]
    /\ delegator' = [delegator EXCEPT ![t] = d]
    /\ assignee' = [assignee EXCEPT ![t] = s]
    /\ UNCHANGED <<sessionVars, coordinator, evidenceVars>>

CreateTask(t, d, s) ==
    /\ Room(1)
    /\ OpenTask(t, d, s)
    /\ log' = Append(log, Ev("created", t, d, None, s))

(* clarify_task and redirect_task, which differ in the description only.   *)
SteerTask(t, d) ==
    /\ Room(1)
    /\ task[t] = "open" /\ Directs(d, t) /\ Running(assignee[t])
    /\ log' = Append(log, Ev("steered", t, d, assignee[t], assignee[t]))
    /\ UNCHANGED <<sessionVars, rowVars, evidenceVars>>

(* The assignee may also be a seat lost to an interrupted provider stream. *)
Reassignable(t) ==
    \/ Running(assignee[t])
    \/ /\ assignee[t] \in Sessions
       /\ status[assignee[t]] = "failed"
       /\ reason[assignee[t]] = "provider_stream_interrupted"

ReassignTaskReadBack(t, d, s) ==
    /\ Room(1)
    /\ task[t] = "open" /\ Directs(d, t) /\ Reassignable(t)
    /\ s # assignee[t] /\ Running(s)
    /\ assignee' = [assignee EXCEPT ![t] = s]
    /\ log' = Append(log, Ev("reassigned", t, d, assignee'[t], s))
    /\ UNCHANGED <<sessionVars, task, delegator, coordinator, evidenceVars>>
ReassignTaskSettled(t, d, s) ==
    /\ Room(1)
    /\ task[t] # "absent" /\ Directs(d, t) /\ Reassignable(t)
    /\ s # assignee[t] /\ Running(s)
    /\ assignee' = [assignee EXCEPT ![t] = s]
    /\ log' = Append(log, Ev("reassigned", t, d, assignee[t], s))
    /\ UNCHANGED <<sessionVars, task, delegator, coordinator, evidenceVars>>
ReassignTask(t, d, s) ==
    /\ Room(1)
    /\ task[t] = "open" /\ Directs(d, t) /\ Reassignable(t)
    /\ s # assignee[t] /\ Running(s)
    /\ assignee' = [assignee EXCEPT ![t] = s]
    /\ log' = Append(log, Ev("reassigned", t, d, assignee[t], s))
    /\ UNCHANGED <<sessionVars, task, delegator, coordinator, evidenceVars>>

CancelTask(t, d) ==
    /\ Room(1)
    /\ task[t] = "open" /\ Directs(d, t) /\ Running(assignee[t])
    /\ task' = [task EXCEPT ![t] = "cancelled"]
    /\ log' = Append(log, Ev("cancelled", t, d, assignee[t], assignee[t]))
    /\ UNCHANGED <<sessionVars, assignee, delegator, coordinator, evidenceVars>>

ResumeTaskAsDelegator(t, c, s, a) ==
    /\ Room(1)
    /\ task[t] = "open" /\ t \in MarketTasks
    /\ assignee[t] \in Sessions /\ status[assignee[t]] = "failed"
    /\ s # assignee[t] /\ s # c /\ Running(s) /\ Running(c)
    /\ assignee' = [assignee EXCEPT ![t] = s]
    /\ delegator' = [delegator EXCEPT ![t] = c]
    /\ log' = Append(log, [Ev("resumed", t, c, assignee[t], s) EXCEPT !.attempt = a])
    /\ UNCHANGED <<sessionVars, task, coordinator, evidenceVars>>
(* resume_interrupted_market_task: operator only, replaces worker and      *)
(* coordinator of a market Task whose worker was lost.  It refuses a Task  *)
(* of a governed review or revision; this module has no such row, and      *)
(* MarketResearch, where a revision is a Task like others, adds the check. *)
MayResume(t, c, s, a) ==
    /\ Room(1)
    /\ task[t] = "open" /\ t \in MarketTasks /\ sourceWork[t] = None
    /\ assignee[t] \in Sessions
    /\ status[assignee[t]] = "failed" /\ reason[assignee[t]] \in ResumeReasons
    /\ s # assignee[t] /\ s # c
    /\ Running(s) /\ s \in MarketWorkers
    /\ Running(c) /\ c \in Orchestrators
    /\ \A u \in Tasks \ {t} : ~(task[u] = "open" /\ assignee[u] = s)
    /\ \A i \in DOMAIN log :
          ~(log[i].type = "resumed" /\ log[i].task = t /\ log[i].attempt = a)
Resumed(t, c, s, a) ==
    /\ assignee' = [assignee EXCEPT ![t] = s]
    /\ coordinator' = [coordinator EXCEPT ![t] = c]
    /\ log' = Append(log, [Ev("resumed", t, c, assignee[t], s) EXCEPT !.attempt = a])
    /\ UNCHANGED <<task, delegator, evidenceVars>>
ResumeTask(t, c, s, a) ==
    /\ MayResume(t, c, s, a)
    /\ Resumed(t, c, s, a)
    /\ UNCHANGED sessionVars

(* A critic is asked to look at an open Task, in a review Task of its own. *)
SecondOpinion(t, d, c, r) ==
    /\ Room(2)
    /\ task[t] = "open" /\ Directs(d, t) /\ Running(assignee[t])
    /\ Running(c) /\ c \in Critics
    /\ \A i \in DOMAIN log :
          log[i].type = "second_opinion_requested" /\ log[i].task = t
             => task[log[i].review] # "open"
    /\ OpenTask(r, d, c)
    /\ log' = log \o <<Ev("created", r, d, None, c),
                       [Ev("second_opinion_requested", t, d, assignee[t], c)
                            EXCEPT !.review = r]>>

CompleteTaskAnyProducer(t, s, a) ==
    /\ Room(1)
    /\ task[t] = "open" /\ assignee[t] = s
    /\ result[a].by # None
    /\ sourceWork[t] \in {None, a}
    /\ task' = [task EXCEPT ![t] = "done"]
    /\ log' = Append(log, Ev("completed", t, s, s, s))
    /\ UNCHANGED <<sessionVars, assignee, delegator, coordinator, evidenceVars>>
(* assertTaskCompletionLineage and the open -> done transition.            *)
CompleteTask(t, s, a) ==
    /\ Room(1)
    /\ task[t] = "open"
    /\ assignee[t] = s
    /\ result[a].by = s /\ result[a].readBy = s
    /\ sourceWork[t] \in {None, a}
    /\ task' = [task EXCEPT ![t] = "done"]
    /\ log' = Append(log, Ev("completed", t, s, s, s))
    /\ UNCHANGED <<sessionVars, assignee, delegator, coordinator, evidenceVars>>

-----------------------------------------------------------------------------
(* Receipts the host records after it acted on an accepted event.          *)

ReceiptType(e) ==
    CASE e.type = "reassigned" -> "reassignment_delivery"
      [] e.type = "second_opinion_requested" -> "second_opinion_delivery"
      [] OTHER -> "steering_delivery"

NoReceiptYet(i, type) ==
    \A j \in DOMAIN log : ~(log[j].type = type /\ log[j].ref = i)

RecordReceiptToOwner(i, type) ==
    /\ Room(1)
    /\ NoReceiptYet(i, type)
    /\ log' = Append(log, [Ev(type, log[i].task, log[i].by, None, assignee[log[i].task])
                             EXCEPT !.ref = i])
    /\ UNCHANGED <<sessionVars, rowVars, evidenceVars>>
RecordReceipt(i, type) ==
    /\ Room(1)
    /\ NoReceiptYet(i, type)
    /\ log' = Append(log, [Ev(type, log[i].task, log[i].by, None, log[i].to) EXCEPT !.ref = i])
    /\ UNCHANGED <<sessionVars, rowVars, evidenceVars>>

RecordDelivery(i) ==
    /\ log[i].type \in Accepted
    /\ RecordReceipt(i, ReceiptType(log[i]))

RecordCancelOutcome(i) ==
    /\ log[i].type = "cancelled"
    /\ RecordReceipt(i, "cancel_outcome")

RecordRefusal(t, a) ==
    /\ Room(1)
    /\ \A i \in DOMAIN log : ~(log[i].type = "steering_refused" /\ log[i].attempt = a)
    /\ log' = Append(log, [Ev("steering_refused", t, None, None, None) EXCEPT !.attempt = a])
    /\ UNCHANGED <<sessionVars, rowVars, evidenceVars>>

-----------------------------------------------------------------------------
(* Evidence: receipted reads, result trajectories, the frozen source work. *)

PublishRead(s) ==
    /\ status[s] # "absent" /\ s \notin reads
    /\ reads' = reads \cup {s}
    /\ UNCHANGED <<sessionVars, rowVars, result, sourceWork, log>>

PublishResult(a, s, r) ==
    /\ status[s] # "absent" /\ r \in reads
    /\ result[a].by = None
    /\ result' = [result EXCEPT ![a] = [by |-> s, readBy |-> r]]
    /\ UNCHANGED <<sessionVars, rowVars, reads, sourceWork, log>>

BindSourceWork(t, a) ==
    /\ task[t] # "absent"
    /\ sourceWork[t] = None
    /\ result[a].by # None /\ result[a].by = assignee[t]
    /\ sourceWork' = [sourceWork EXCEPT ![t] = a]
    /\ UNCHANGED <<sessionVars, rowVars, reads, result, log>>

-----------------------------------------------------------------------------
SessionStep == \E s \in Sessions :
    \/ CreateSession(s) \/ StartSession(s) \/ BlockSession(s) \/ UnblockSession(s)
    \/ CancelSession(s) \/ FailSession(s) \/ CloseSession(s)

TaskStep == \E t \in Tasks :
    \/ \E d, s \in Sessions : CreateTask(t, d, s)
    \/ \E d \in Sessions : SteerTask(t, d)
    \/ \E d, s \in Sessions : ReassignTask(t, d, s)
    \/ \E d \in Sessions : CancelTask(t, d)
    \/ \E c, s \in Sessions, a \in Attempts : ResumeTask(t, c, s, a)
    \/ \E d, c \in Sessions, r \in Tasks : SecondOpinion(t, d, c, r)
    \/ \E s \in Sessions, a \in Artifacts : CompleteTask(t, s, a)

ReceiptStep ==
    \/ \E i \in DOMAIN log : RecordDelivery(i) \/ RecordCancelOutcome(i)
    \/ \E t \in Tasks, a \in RefusalIds : RecordRefusal(t, a)

EvidenceStep ==
    \/ \E s \in Sessions : PublishRead(s)
    \/ \E a \in Artifacts, s, r \in Sessions : PublishResult(a, s, r)
    \/ \E t \in Tasks, a \in Artifacts : BindSourceWork(t, a)

Next == SessionStep \/ TaskStep \/ ReceiptStep \/ EvidenceStep

Spec == Init /\ [][Next]_vars

-----------------------------------------------------------------------------
(* Properties. *)

(* assertSessionMayClose with the running checks of create, reassign and   *)
(* resume: an open Task always has exactly one owner, and that seat was    *)
(* started and is not closed, whatever order the commands came in.         *)
OpenTaskHasSeat ==
    \A t \in Tasks : task[t] = "open" =>
        /\ assignee[t] \in Sessions
        /\ status[assignee[t]] \in {"running", "blocked", "cancelled", "failed"}

Last(t, types, i) ==
    /\ log[i].task = t /\ log[i].type \in types
    /\ \A j \in DOMAIN log : j > i => ~(log[j].task = t /\ log[j].type \in types)

(* task history is read back from the events: each hand-over starts from   *)
(* the session the one before it named, and the last one names the row.    *)
HandoverChain ==
    /\ \A i, j \in DOMAIN log :
          /\ i < j /\ log[i].task = log[j].task
          /\ log[i].type \in Handover /\ log[j].type \in Handover
          /\ \A k \in (i + 1) .. (j - 1) :
                ~(log[k].task = log[i].task /\ log[k].type \in Handover)
          => log[j].prev = log[i].to
    /\ \A t \in Tasks, i \in DOMAIN log :
          Last(t, Handover, i) => assignee[t] = log[i].to

(* Every steering, hand-over and cancellation event names as its director  *)
(* the session the latest created or resumed event before it put in charge,*)
(* and it is addressed to, or taken from, the owner of that moment.        *)
AuthorityTraceable ==
    \A i, j \in DOMAIN log :
        /\ i < j /\ log[i].task = log[j].task
        /\ log[j].type \in Accepted \cup {"cancelled"}
        => /\ log[i].type \in {"created", "resumed"}
              /\ (\A k \in (i + 1) .. (j - 1) :
                    ~(log[k].task = log[i].task /\ log[k].type \in {"created", "resumed"}))
              => log[j].by = log[i].by
           /\ log[i].type \in Handover
              /\ (\A k \in (i + 1) .. (j - 1) :
                    ~(log[k].task = log[i].task /\ log[k].type \in Handover))
              => log[j].prev = log[i].to

(* A settled Task accepts nothing more: the event that settled it is the   *)
(* only one of its kind, agrees with the row, and only receipts, refusals  *)
(* and nothing else may follow it.                                         *)
FinalStaysFinal ==
    \A t \in Tasks :
        /\ (task[t] = "done") = (\E i \in DOMAIN log : log[i].task = t /\ log[i].type = "completed")
        /\ (task[t] = "cancelled") = (\E i \in DOMAIN log : log[i].task = t /\ log[i].type = "cancelled")
        /\ \A i, j \in DOMAIN log :
              /\ i < j /\ log[i].task = t /\ log[j].task = t
              /\ log[i].type \in Settling
              => log[j].type \in Receipts \cup {"steering_refused"}

(* One receipt per accepted event, written after it, naming the session    *)
(* the accepted event addressed even when the Task has moved on since.     *)
OneReceiptPerAcceptance ==
    \A i \in DOMAIN log : log[i].type \in Receipts =>
        /\ log[i].ref \in 1 .. (i - 1)
        /\ log[log[i].ref].type \in Accepted \cup {"cancelled"}
        /\ log[log[i].ref].task = log[i].task
        /\ log[log[i].ref].to = log[i].to
        /\ \A j \in DOMAIN log :
              log[j].type \in Receipts /\ log[j].ref = log[i].ref => j = i

(* A done Task rests on a trajectory its final owner produced from its own *)
(* receipted read: a replaced worker's late result cannot settle the Task. *)
DoneOnOwnEvidence ==
    \A t \in Tasks : task[t] = "done" =>
        \E a \in Artifacts : result[a] = [by |-> assignee[t], readBy |-> assignee[t]]

(* The kernel implements the ledger of responsibility.                     *)
Ledger == INSTANCE TaskLedger WITH
    Seats <- Sessions, Work <- Tasks, Nobody <- None,
    phase <- task, owner <- assignee, opener <- delegator,
    retired <- {s \in Sessions : status[s] = "closed"}
ImplementsLedger == Ledger!LedgerSpec
=============================================================================
