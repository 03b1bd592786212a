--------------------------- MODULE MarketResearch ---------------------------
(***************************************************************************)
(* Market research requests (market-analysis.ts, market-resume-failure.ts, *)
(* market-runtime-failure.ts) over the kernel's Tasks: an analysis, the    *)
(* retry of an interrupted one, or a revision takes two seats, idle ones   *)
(* or ones it has admitted itself, hands them a Task and types the         *)
(* instruction; a retry that fails puts back what it did.                  *)
(*                                                                         *)
(* Each await is a phase: meanwhile other requests, the Director's own     *)
(* delegations, results, lost terminals and a crash may come.  Admission   *)
(* and teardown are AgentHost's; here they only start and end.             *)
(***************************************************************************)
EXTENDS TaskKernel

CONSTANTS
    Missions,    \* those that investigate a market
    Requests,    \* calls of the operator's surface
    Directors    \* orchestrators the operator opened with a Mission of their own
ASSUME MissionAssumption ==
    None \notin Missions /\ Directors \subseteq Orchestrators
ASSUME HostReasonAssumption ==
    {"native_tui_admission_failed", "app_terminated",
     "market_resume_setup_failed", "market_resume_dispatch_failed"} \subseteq Reasons

VARIABLES
    live,      \* the host's live runtimes
    mission,   \* the belongs_to link of a Task
    ran,       \* the workers that executed a decision run for a Task
    revises,   \* the source Task of a governed revision
    req        \* the requests, each holding its Mission in `active` until it ends

researchVars == <<live, mission, ran, revises, req>>
allVars == <<vars, researchVars>>

NoRequest == [kind |-> "none", phase |-> "idle", mission |-> None, task |-> None, c |-> None, w |-> None,
              seat |-> None, own |-> {}, committed |-> FALSE]
Phases == {"idle", "capturing", "needWorker", "admitting", "held", "typing",
           "stopWorker", "stopCoordinator"}
RequestRow == [kind : {"none", "analyze", "retry", "revise"}, phase : Phases,
               mission : Missions \cup {None}, task : Tasks \cup {None}, c : Orchestrators \cup {None},
               w : MarketWorkers \cup {None}, seat : Sessions \cup {None},
               own : SUBSET Sessions, committed : BOOLEAN]

ResearchTypeOK ==
    /\ TypeOK
    /\ live \in SUBSET Sessions
    /\ mission \in [Tasks -> Missions \cup {None}]
    /\ ran \in [Tasks -> SUBSET Sessions]
    /\ revises \in [Tasks -> Tasks \cup {None}]
    /\ req \in [Requests -> RequestRow]

ResearchInit ==
    /\ Init
    /\ live = {} /\ mission = [t \in Tasks |-> None]
    /\ ran = [t \in Tasks |-> {}] /\ revises = [t \in Tasks |-> None]
    /\ req = [q \in Requests |-> NoRequest]

-----------------------------------------------------------------------------
(* What a request reads. *)

OpenIn(m) == {t \in Tasks : task[t] = "open" /\ mission[t] = m}
CoordinatesOther(s, t) ==
    \E u \in Tasks \ {t} : task[u] = "open" /\ CurrentCoordinator(u) = s
Kind(s) == IF s \in Orchestrators THEN Orchestrators ELSE MarketWorkers
(* One live seat per peer role (peer-role-registry.ts).                    *)
RoleFree(s) == live \cap Kind(s) = {}
Idle(s) ==
    /\ Running(s) /\ s \in live /\ ~OwnsOpenTask(s)
    /\ s \in Orchestrators => ~CoordinatesOther(s, None)
Needed(q) == IF req[q].phase = "capturing" THEN Orchestrators ELSE MarketWorkers
IdleSeats(q) == {s \in Needed(q) : Idle(s)}
(* kernelDecisionRunForTask: the run of the worker the Task is assigned to.*)
Decides(s, t) == task[t] = "open" /\ assignee[t] = s /\ s \in ran[t]
OverlapsUnread(s, t) == FALSE
Overlaps(s, t) == \E u \in Tasks \ {t} : Decides(s, u)
Ran(t, w) == ran' = [ran EXCEPT ![t] = @ \cup {w}]
ResultCommitted(t) == sourceWork[t] # None
MayStop(s) == Cardinality({z \in Sessions \ {s} : status[z] \in Stopped}) < MaxStopped
Reserved == {req[q].seat : q \in Requests}

-----------------------------------------------------------------------------
(* The three kinds of request. *)

Begin(q, kind, m, t) ==
    /\ req[q] = NoRequest
    /\ req' = [req EXCEPT ![q] = [NoRequest EXCEPT !.kind = kind, !.phase = "capturing",
                                                   !.mission = m, !.task = t]]
    /\ UNCHANGED <<vars, live, mission, ran, revises>>

Active(m) == \E q \in Requests : req[q].mission = m

AnalyzeUnguarded(q, m) ==
    /\ OpenIn(m) = {}
    /\ Begin(q, "analyze", m, None)
Analyze(q, m) ==
    /\ ~Active(m)
    /\ OpenIn(m) = {}
    /\ Begin(q, "analyze", m, None)

(* assertMarketRetryTask: stopped, for a reason a resume recognizes.       *)
Retry(q, t) ==
    /\ task[t] = "open" /\ mission[t] # None /\ ~Active(mission[t])
    /\ OpenIn(mission[t]) = {t}
    /\ status[assignee[t]] = "failed" /\ reason[assignee[t]] \in ResumeReasons
    /\ assignee[t] \notin live
    /\ Begin(q, "retry", mission[t], t)

Revise(q, t) ==
    /\ ran[t] # {} /\ ResultCommitted(t) /\ ~Active(mission[t])
    /\ Begin(q, "revise", mission[t], t)

-----------------------------------------------------------------------------
(* Failure.  Only a retry puts anything back (handleMarketResumeFailure).  *)

Before(r) == IF r.w \in r.own THEN "stopWorker"
             ELSE IF r.c \in r.own THEN "stopCoordinator" ELSE "idle"
Stopping(r, phase) == IF phase = "idle" THEN NoRequest ELSE [r EXCEPT !.phase = phase, !.seat = None]

(* Before the hand-over: the request's own seats are stopped.              *)
Abort(q) ==
    req' = [req EXCEPT ![q] = IF @.kind = "retry" THEN Stopping(@, Before(@)) ELSE NoRequest]

FailReplacementBlindly(q, why) ==
    LET r == req[q] IN
    /\ req' = [req EXCEPT ![q] = [r EXCEPT !.phase = "stopWorker", !.committed = TRUE]]
    /\ IF Running(r.w)
       THEN /\ status' = [status EXCEPT ![r.w] = "failed"]
            /\ reason' = [reason EXCEPT ![r.w] = why]
       ELSE UNCHANGED sessionVars
FailReplacementBeforeDispatch(q, why) ==
    LET r == req[q] IN
    IF ResultCommitted(r.task)
    THEN /\ req' = [req EXCEPT ![q] = NoRequest]
         /\ UNCHANGED sessionVars
    ELSE /\ req' = [req EXCEPT ![q] = [r EXCEPT !.phase = "stopWorker", !.committed = TRUE]]
         /\ IF Running(r.w) /\ why = "market_resume_setup_failed"
            THEN /\ status' = [status EXCEPT ![r.w] = "failed"]
                 /\ reason' = [reason EXCEPT ![r.w] = why]
            ELSE UNCHANGED sessionVars
(* After it: the replacement worker is failed unless its result is there.  *)
FailReplacement(q, why) ==
    LET r == req[q] IN
    IF ResultCommitted(r.task)
    THEN /\ req' = [req EXCEPT ![q] = NoRequest]
         /\ UNCHANGED sessionVars
    ELSE /\ req' = [req EXCEPT ![q] = [r EXCEPT !.phase = "stopWorker", !.committed = TRUE]]
         /\ IF Running(r.w)
            THEN /\ status' = [status EXCEPT ![r.w] = "failed"]
                 /\ reason' = [reason EXCEPT ![r.w] = why]
            ELSE UNCHANGED sessionVars

-----------------------------------------------------------------------------
(* acquireParticipant: the one idle seat of the role, else a new one.      *)

SeatedOneField(r, s) ==
    [r EXCEPT !.c = s, !.phase = IF s \in Orchestrators THEN "needWorker" ELSE "held", !.seat = None]
Seated(r, s) ==
    IF s \in Orchestrators
    THEN [r EXCEPT !.c = s, !.phase = "needWorker", !.seat = None]
    ELSE [r EXCEPT !.w = s, !.phase = "held", !.seat = None]
RequestOwned(r, s) == [r EXCEPT !.own = @ \cup {s}]

TakeIdle(q) ==
    /\ req[q].phase \in {"capturing", "needWorker"}
    /\ \E s \in IdleSeats(q) :
          /\ IdleSeats(q) = {s}
          /\ req' = [req EXCEPT ![q] = Seated(@, s)]
    /\ UNCHANGED <<vars, live, mission, ran, revises>>

(* The capture, the evidence or the definition refuses it, or the role is  *)
(* held by a seat that is not idle.                                        *)
AcquireFails(q) ==
    /\ req[q].phase \in {"capturing", "needWorker"}
    /\ Abort(q)
    /\ UNCHANGED <<vars, live, mission, ran, revises>>

AdmitBegin(q, s) ==
    /\ req[q].phase \in {"capturing", "needWorker"}
    /\ IdleSeats(q) = {}
    /\ s \in Needed(q) \ (Directors \cup Reserved) /\ status[s] = "absent"
    /\ RoleFree(s)
    /\ req' = [req EXCEPT ![q] = [@ EXCEPT !.phase = "admitting", !.seat = s]]
    /\ UNCHANGED <<vars, live, mission, ran, revises>>

(* The row is started and in the live map; the admission has not returned. *)
AdmitStarted(q) ==
    LET s == req[q].seat IN
    /\ req[q].phase = "admitting" /\ status[s] = "absent" /\ RoleFree(s)
    /\ status' = [status EXCEPT ![s] = "running"]
    /\ live' = live \cup {s}
    /\ UNCHANGED <<reason, rowVars, evidenceVars, log, mission, ran, revises, req>>

AdmitReturns(q) ==
    LET s == req[q].seat IN
    /\ req[q].phase = "admitting" /\ status[s] # "absent"
    /\ req' = [req EXCEPT ![q] = RequestOwned(Seated(@, s), s)]
    /\ UNCHANGED <<vars, live, mission, ran, revises>>

(* The admission undid itself; the request never held the seat.            *)
AdmitFails(q) ==
    LET s == req[q].seat IN
    /\ req[q].phase = "admitting"
    /\ live' = live \ {s}
    /\ \/ status[s] # "running" /\ UNCHANGED sessionVars
       \/ /\ status[s] = "running" /\ MayStop(s)
          /\ status' = [status EXCEPT ![s] = IF OwnsOpenTask(s) THEN "failed" ELSE "closed"]
          /\ reason' = [reason EXCEPT ![s] = "native_tui_admission_failed"]
    /\ Abort(q)
    /\ UNCHANGED <<rowVars, evidenceVars, log, mission, ran, revises>>

-----------------------------------------------------------------------------
(* The hand-over: commands, run, reads and the instruction's first write   *)
(* in one stretch.                                                         *)

(* The event of a failed delivery of a revision names no session.          *)
Withdrawal(r, t) ==
    IF r.kind = "revise" THEN Ev("cancelled", t, None, None, None)
    ELSE Ev("cancelled", t, r.c, r.w, r.w)

Opened(q, t, settled) ==
    LET r == req[q]
        created == Ev("created", t, r.c, None, r.w) IN
    /\ task[t] = "absent" /\ Running(r.c) /\ Running(r.w)
    /\ task' = [task EXCEPT ![t] = IF settled THEN "cancelled" ELSE "open"]
    /\ delegator' = [delegator EXCEPT ![t] = r.c]
    /\ assignee' = [assignee EXCEPT ![t] = r.w]
    /\ mission' = [mission EXCEPT ![t] = r.mission]
    /\ log' = IF settled THEN log \o <<created, Withdrawal(r, t)>>
              ELSE Append(log, created)
    /\ UNCHANGED <<sessionVars, coordinator, evidenceVars, live>>

Refused(q) ==
    /\ req[q].phase = "held"
    /\ Abort(q)
    /\ UNCHANGED <<vars, live, mission, ran, revises>>

Typing(q, t) == req' = [req EXCEPT ![q] = [@ EXCEPT !.phase = "typing", !.task = t]]

(* A Task whose run, reads or first write failed is cancelled at once.     *)
OpenAnalysis(q, t) ==
    /\ req[q].phase = "held" /\ req[q].kind = "analyze"
    /\ Room(2)
    /\ \/ /\ ~Overlaps(req[q].w, t) /\ req[q].w \in live
          /\ Opened(q, t, FALSE)
          /\ Ran(t, req[q].w)
          /\ Typing(q, t)
       \/ /\ Opened(q, t, TRUE)
          /\ UNCHANGED ran \/ Ran(t, req[q].w)
          /\ req' = [req EXCEPT ![q] = NoRequest]
    /\ UNCHANGED revises

(* The mark of a failed delivery cancels a revision Task.                  *)
OpenRevision(q, t) ==
    /\ req[q].phase = "held" /\ req[q].kind = "revise"
    /\ Room(1)
    /\ \A u \in Tasks : revises[u] = req[q].task => task[u] # "open"
    /\ revises' = [revises EXCEPT ![t] = req[q].task]
    /\ \/ /\ ~Overlaps(req[q].w, t) /\ req[q].w \in live
          /\ Opened(q, t, FALSE)
          /\ Ran(t, req[q].w)
          /\ Typing(q, t)
       \/ /\ Room(2)
          /\ Opened(q, t, TRUE)
          /\ UNCHANGED ran \/ Ran(t, req[q].w)
          /\ req' = [req EXCEPT ![q] = NoRequest]

HandOver(q, a) ==
    LET r == req[q] IN
    /\ r.phase = "held" /\ r.kind = "retry"
    /\ ran[r.task] # {} /\ revises[r.task] = None
    /\ MayResume(r.task, r.c, r.w, a)
    /\ Resumed(r.task, r.c, r.w, a)
    /\ \/ /\ ~Overlaps(r.w, r.task) /\ r.w \notin ran[r.task] /\ r.w \in live
          /\ Ran(r.task, r.w)
          /\ req' = [req EXCEPT ![q] = [@ EXCEPT !.phase = "typing", !.committed = TRUE]]
          /\ UNCHANGED sessionVars
       \/ /\ UNCHANGED ran \/ Ran(r.task, r.w)
          /\ \E why \in {"market_resume_setup_failed", "market_resume_dispatch_failed"} :
                FailReplacement(q, why)
    /\ UNCHANGED <<live, mission, revises>>

Submitted(q) ==
    /\ req[q].phase = "typing" /\ req[q].w \in live
    /\ req' = [req EXCEPT ![q] = NoRequest]
    /\ UNCHANGED <<vars, live, mission, ran, revises>>

(* The terminal is gone, or did not take the Enter.                        *)
TypingFails(q) ==
    LET r == req[q] IN
    /\ r.phase = "typing"
    /\ \/ /\ r.kind = "retry"
          /\ FailReplacement(q, "market_resume_dispatch_failed")
          /\ UNCHANGED <<rowVars, evidenceVars, log>>
       \/ /\ r.kind = "analyze" /\ CancelTask(r.task, r.c)
          /\ req' = [req EXCEPT ![q] = NoRequest]
       \/ /\ r.kind = "revise" /\ task[r.task] = "open" /\ Room(1)
          /\ task' = [task EXCEPT ![r.task] = "cancelled"]
          /\ log' = Append(log, Withdrawal(r, r.task))
          /\ req' = [req EXCEPT ![q] = NoRequest]
          /\ UNCHANGED <<sessionVars, assignee, delegator, coordinator, evidenceVars>>
       \/ /\ \/ r.kind = "revise" /\ task[r.task] # "open"
             \/ /\ r.kind = "analyze"
                /\ ~(task[r.task] = "open" /\ Directs(r.c, r.task) /\ Running(assignee[r.task]))
          /\ req' = [req EXCEPT ![q] = NoRequest]
          /\ UNCHANGED vars
    /\ UNCHANGED <<live, mission, ran, revises>>

-----------------------------------------------------------------------------
(* stopResumeParticipantRuntime: teardown awaited, then the row closed,    *)
(* which an open Task of the seat refuses.                                 *)

AfterStop(r) ==
    IF r.phase = "stopCoordinator" THEN "idle"
    ELSE IF r.c \notin r.own THEN "idle"
    ELSE IF r.committed /\ (ResultCommitted(r.task) \/ CoordinatesOther(r.c, r.task)) THEN "idle"
    ELSE "stopCoordinator"

StopReturns(q) ==
    LET r == req[q]
        s == IF r.phase = "stopWorker" THEN r.w ELSE r.c
        closes == r.phase = "stopCoordinator" \/ ~r.committed IN
    /\ r.phase \in {"stopWorker", "stopCoordinator"}
    /\ \/ /\ live' = live \ {s}
          /\ status' = IF closes /\ status[s] \in {"running", "cancelled", "failed"} /\ ~OwnsOpenTask(s)
                       THEN [status EXCEPT ![s] = "closed"] ELSE status
       \/ UNCHANGED <<live, status>>       \* the teardown was not confirmed
    /\ req' = [req EXCEPT ![q] = Stopping(@, AfterStop(@))]
    /\ UNCHANGED <<reason, rowVars, evidenceVars, log, mission, ran, revises>>

-----------------------------------------------------------------------------
(* What else happens at the desk. *)

(* The operator admits a seat.                                             *)
SeatOpened(s) ==
    /\ status[s] = "absent" /\ s \in Directors \cup MarketWorkers
    /\ s \notin Reserved /\ RoleFree(s)
    /\ status' = [status EXCEPT ![s] = "running"]
    /\ live' = live \cup {s}
    /\ UNCHANGED <<reason, rowVars, evidenceVars, log, mission, ran, revises, req>>

(* Its terminal ends, or the provider's stream does.                       *)
SeatLost(s) ==
    /\ s \in live /\ MayStop(s)
    /\ live' = live \ {s}
    /\ IF OwnsOpenTask(s) /\ Running(s)
       THEN /\ status' = [status EXCEPT ![s] = "failed"]
            /\ \E why \in {"provider_stream_interrupted", "provider_unavailable"} \cap Reasons :
                  reason' = [reason EXCEPT ![s] = why]
       ELSE /\ status' = IF status[s] \in {"running", "cancelled", "failed"} /\ ~OwnsOpenTask(s)
                         THEN [status EXCEPT ![s] = "closed"] ELSE status
            /\ UNCHANGED reason
    /\ UNCHANGED <<rowVars, evidenceVars, log, mission, ran, revises, req>>

(* The operator cancels a seat.                                            *)
SeatCancelled(s) ==
    /\ s \in live /\ Running(s) /\ MayStop(s)
    /\ status' = [status EXCEPT ![s] = "cancelled"]
    /\ live' = live \ {s}
    /\ UNCHANGED <<reason, rowVars, evidenceVars, log, mission, ran, revises, req>>

(* send_task: only a Director bound to its Mission, which is a new one.    *)
SendTask(t, d, s) ==
    /\ d \in Directors \cap live /\ s \in MarketWorkers \cap live
    /\ CreateTask(t, d, s)
    /\ UNCHANGED researchVars

(* send_result: publish, bind and complete in one transaction.             *)
SendResult(t, a) ==
    LET s == assignee[t]
        d == CurrentCoordinator(t) IN
    /\ Room(1)
    /\ task[t] = "open" /\ Running(s) /\ s \in live
    /\ Running(d) /\ d \in live
    /\ result[a].by = None
    /\ result' = [result EXCEPT ![a] = [by |-> s, readBy |-> s]]
    /\ reads' = reads \cup {s}
    /\ sourceWork' = IF s \in ran[t] THEN [sourceWork EXCEPT ![t] = a] ELSE sourceWork
    /\ task' = [task EXCEPT ![t] = "done"]
    /\ log' = Append(log, Ev("completed", t, s, s, s))
    /\ UNCHANGED <<sessionVars, assignee, delegator, coordinator, researchVars>>

(* A Director hands a Task to another seat.                                *)
Reassigned(t, d, s) ==
    /\ {d, s} \subseteq live
    /\ ReassignTask(t, d, s)
    /\ UNCHANGED researchVars

(* The Director clarifies, redirects or cancels a Task; so does the        *)
(* operator, in the name of a live one.  Stopping the worker of a cancelled*)
(* Task is SeatCancelled, after an await.                                  *)
Governed(t, d) ==
    /\ d \in live
    /\ SteerTask(t, d) \/ CancelTask(t, d)
    /\ UNCHANGED researchVars

(* The process ends, and reconcileStaleSessions settles what it left.      *)
Restart ==
    /\ live # {} \/ \E q \in Requests : req[q] # NoRequest
    /\ live' = {} /\ req' = [q \in Requests |-> NoRequest]
    /\ status' = [s \in Sessions |->
          IF status[s] # "running" THEN status[s]
          ELSE IF OwnsOpenTask(s) THEN "failed" ELSE "closed"]
    /\ reason' = [s \in Sessions |->
          IF status[s] = "running" /\ OwnsOpenTask(s) THEN "app_terminated" ELSE reason[s]]
    /\ UNCHANGED <<rowVars, evidenceVars, log, mission, ran, revises>>

-----------------------------------------------------------------------------
RequestStep == \E q \in Requests :
    \/ \E m \in Missions : Analyze(q, m)
    \/ \E t \in MarketTasks : Retry(q, t) \/ Revise(q, t) \/ OpenAnalysis(q, t) \/ OpenRevision(q, t)
    \/ TakeIdle(q) \/ AcquireFails(q)
    \/ \E s \in Sessions : AdmitBegin(q, s)
    \/ AdmitStarted(q) \/ AdmitReturns(q) \/ AdmitFails(q)
    \/ Refused(q) \/ \E a \in Attempts : HandOver(q, a)
    \/ Submitted(q) \/ TypingFails(q) \/ StopReturns(q)

DeskStep ==
    \/ \E s \in Sessions : SeatOpened(s) \/ SeatLost(s) \/ SeatCancelled(s)
    \/ \E t \in Tasks \ MarketTasks, d, s \in Sessions : SendTask(t, d, s)
    \/ \E t \in Tasks, d, s \in Sessions : Reassigned(t, d, s)
    \/ \E t \in Tasks, d \in Sessions : Governed(t, d)
    \/ \E t \in Tasks, a \in Artifacts : SendResult(t, a)
    \/ Restart

ResearchNext == RequestStep \/ DeskStep
ResearchSpec == ResearchInit /\ [][ResearchNext]_allVars

-----------------------------------------------------------------------------
(* Properties. *)

(* `active` spans every await of a request: no two analyses of one Mission *)
(* are ever open together, though each was admitted on rows read long      *)
(* before it wrote its own.                                                *)
OneAnalysisPerMission ==
    \A t, u \in {x \in Tasks : ran[x] # {} /\ revises[x] = None} :
        /\ task[t] = "open" /\ task[u] = "open" /\ mission[t] = mission[u]
        => t = u

(* Idle is read before the hand-over, and two requests may read it of one  *)
(* worker.  No request ever leaves a worker with two open decision Tasks,  *)
(* whose read scope would then be refused; only a Director who hands one   *)
(* back to a worker it was taken from can.                                 *)
Overlapping(s) == \E t, u \in Tasks : t # u /\ Decides(s, t) /\ Decides(s, u)
ResearchNeverOverlaps ==
    [][\A s \in Sessions :
         Overlapping(s)' /\ ~Overlapping(s) => log'[Len(log')].type = "reassigned"]_allVars

(* A retry that fails does not leave the worker it gave up in charge:      *)
(* whenever its failure handling ends without a result, the open Task's    *)
(* owner is not that worker, still running.  Its seat may stay live when   *)
(* the teardown is not confirmed, and then refuses the next retry.         *)
FailedRetryLeavesNoOwner ==
    [][\A q \in Requests :
         LET r == req[q] IN
         /\ r.kind = "retry" /\ r.committed
         /\ r.phase \in {"stopWorker", "stopCoordinator"} /\ req'[q] = NoRequest
         => \/ sourceWork'[r.task] # None \/ task'[r.task] # "open"
            \/ assignee'[r.task] # r.w \/ status'[r.w] # "running"]_allVars

(* A result recorded while the failure was on its way stays, with those    *)
(* behind it: a request blames its worker for a failed resume, and stops   *)
(* its coordinator after one, only while its own Task has no result.       *)
RacedResultPreserved ==
    [][\A q \in Requests :
         LET r == req[q]
             blamed == req'[q] # r /\
                       \E s \in Sessions : /\ s = r.w /\ status[s] = "running" /\ status'[s] = "failed"
                                           /\ reason'[s] \in {"market_resume_setup_failed",
                                                              "market_resume_dispatch_failed"}
             dropped == r.committed /\ r.phase # "stopCoordinator"
                           /\ req'[q].phase = "stopCoordinator" IN
         r.kind = "retry" /\ (blamed \/ dropped) => ~ResultCommitted(r.task)]_allVars

(* WO-W1-03: an eligible live coordinator may continue coordinating.  A     *)
(* retry that looks for a coordinator finds the one its Task still has,    *)
(* when that one is live and directs nothing else.                         *)
CoordinatorMayContinue ==
    \A q \in Requests :
        LET c == CurrentCoordinator(req[q].task) IN
        /\ req[q].kind = "retry" /\ req[q].phase = "capturing"
        /\ task[req[q].task] = "open"
        /\ Running(c) /\ c \in live /\ ~OwnsOpenTask(c) /\ ~CoordinatesOther(c, req[q].task)
        => c \in IdleSeats(q)
=============================================================================
