------------------------ MODULE MarketResearchProofs ------------------------
(* Theorems about MarketResearch, for every number of seats, Missions,     *)
(* Tasks and requests, and for every history of the Task events.           *)
EXTENDS MarketResearch, TaskHistoryProofs

(* What a request may rely on in each of its phases, whatever the others   *)
(* and the desk did while it waited; st is the status of the sessions.     *)
Lawful(r, st) ==
    /\ r.phase = "idle" => r = NoRequest
    /\ r.phase # "idle" => r.kind # "none" /\ r.mission # None
    /\ r.kind \in {"retry", "revise"} => r.task \in MarketTasks
    /\ r.c # None => st[r.c] # "absent"
    /\ r.w # None => r.c # None /\ st[r.w] # "absent"
    /\ r.phase = "admitting" => /\ r.seat \in Orchestrators \cup MarketWorkers
                                /\ r.seat \in MarketWorkers => r.c # None
    /\ r.phase \in {"needWorker", "held", "typing"} => r.c # None
    /\ r.phase \in {"held", "typing"} => r.w # None
    /\ r.phase = "typing" => r.task \in Tasks
    /\ r.phase \in {"capturing", "needWorker", "admitting", "held"} => ~r.committed
    /\ r.phase \in {"stopWorker", "stopCoordinator"} => r.kind = "retry"
    /\ r.phase = "stopWorker" => r.w # None
    /\ r.phase = "stopCoordinator" => r.c # None /\ r.c \in r.own
    /\ r.phase \in {"stopWorker", "stopCoordinator"} /\ r.committed
         => r.w # None /\ st[r.w] # "running"

RequestsLawful == \A q \in Requests : Lawful(req[q], status)
OneRequestPerMission ==
    \A p, q \in Requests : req[p].mission = req[q].mission /\ req[p].mission # None => p = q
FreshTasks == \A t \in Tasks : task[t] = "absent" => mission[t] = None /\ ran[t] = {}
RunsUnderMission == \A t \in Tasks : ran[t] # {} => mission[t] # None
AnalysisAlone ==
    \A q \in Requests : req[q].kind = "analyze" /\ req[q].phase # "typing" => OpenIn(req[q].mission) = {}

ResearchInv ==
    /\ ResearchTypeOK
    /\ RequestsLawful
    /\ OneRequestPerMission
    /\ FreshTasks
    /\ RunsUnderMission
    /\ AnalysisAlone
    /\ OneAnalysisPerMission

-----------------------------------------------------------------------------
(* The updates of a request's record. *)

LEMMA NoneIsNobody ==
    /\ None \notin Orchestrators /\ None \notin MarketWorkers /\ None \notin MarketTasks
    /\ Orchestrators \subseteq Sessions /\ MarketWorkers \subseteq Sessions /\ MarketTasks \subseteq Tasks
    /\ Orchestrators \cap MarketWorkers = {} /\ None \notin Missions /\ None \notin Tasks
    /\ None \notin Sessions /\ None \notin Artifacts
BY RoleAssumption, NoneAssumption, MissionAssumption

LEMMA NoRequestRow ==
    /\ NoRequest \in RequestRow
    /\ \A st : Lawful(NoRequest, st)
BY DEF NoRequest, RequestRow, Phases, Lawful

LEMMA SeatedRow ==
    ASSUME NEW r \in RequestRow, NEW s \in Orchestrators \cup MarketWorkers
    PROVE  LET x == Seated(r, s) IN
           /\ x \in RequestRow
           /\ x.kind = r.kind /\ x.mission = r.mission /\ x.task = r.task
           /\ x.own = r.own /\ x.committed = r.committed /\ x.seat = None
           /\ s \in Orchestrators => x.c = s /\ x.w = r.w /\ x.phase = "needWorker"
           /\ s \in MarketWorkers => x.c = r.c /\ x.w = s /\ x.phase = "held"
<1>1. CASE s \in Orchestrators
  <2>1. Seated(r, s) = [r EXCEPT !.c = s, !.phase = "needWorker", !.seat = None]
    BY <1>1 DEF Seated
  <2>2. s \notin MarketWorkers
    BY <1>1, NoneIsNobody
  <2> QED BY <1>1, <2>1, <2>2 DEF RequestRow, Phases
<1>2. CASE s \notin Orchestrators
  <2>1. Seated(r, s) = [r EXCEPT !.w = s, !.phase = "held", !.seat = None]
    BY <1>2 DEF Seated
  <2> QED BY <1>2, <2>1 DEF RequestRow, Phases
<1> QED BY <1>1, <1>2

LEMMA OwnRow ==
    ASSUME NEW r \in RequestRow, NEW s \in Sessions
    PROVE  LET x == RequestOwned(r, s) IN
           /\ x \in RequestRow
           /\ x.kind = r.kind /\ x.phase = r.phase /\ x.mission = r.mission /\ x.task = r.task
           /\ x.c = r.c /\ x.w = r.w /\ x.seat = r.seat /\ x.committed = r.committed
           /\ x.own = r.own \cup {s}
BY DEF RequestOwned, RequestRow

LEMMA StoppingRow ==
    ASSUME NEW r \in RequestRow, NEW phase \in {"stopWorker", "stopCoordinator"}
    PROVE  LET x == Stopping(r, phase) IN
           /\ x \in RequestRow /\ x.phase = phase
           /\ x.kind = r.kind /\ x.mission = r.mission /\ x.task = r.task
           /\ x.c = r.c /\ x.w = r.w /\ x.own = r.own /\ x.committed = r.committed
<1>1. Stopping(r, phase) = [r EXCEPT !.phase = phase, !.seat = None]
  BY DEF Stopping
<1> QED BY <1>1 DEF RequestRow, Phases

LEMMA CommittedRow ==
    ASSUME NEW r \in RequestRow, NEW phase \in {"typing", "stopWorker"}
    PROVE  LET x == [r EXCEPT !.phase = phase, !.committed = TRUE] IN
           /\ x \in RequestRow /\ x.phase = phase /\ x.committed = TRUE
           /\ x.kind = r.kind /\ x.mission = r.mission /\ x.task = r.task
           /\ x.c = r.c /\ x.w = r.w /\ x.own = r.own /\ x.seat = r.seat
BY DEF RequestRow, Phases

LEMMA AdmittingRow ==
    ASSUME NEW r \in RequestRow, NEW s \in Sessions
    PROVE  LET x == [r EXCEPT !.phase = "admitting", !.seat = s] IN
           /\ x \in RequestRow /\ x.phase = "admitting" /\ x.seat = s
           /\ x.kind = r.kind /\ x.mission = r.mission /\ x.task = r.task
           /\ x.c = r.c /\ x.w = r.w /\ x.own = r.own /\ x.committed = r.committed
BY DEF RequestRow, Phases

-----------------------------------------------------------------------------
(* Steps that leave the Missions alone. *)

(* A seat that was started does not go back, one that stopped stays so.    *)
SeatsProgress == \A s \in Sessions :
    /\ status[s] # "absent" => status'[s] # "absent"
    /\ status[s] \notin {"absent", "running"} => status'[s] # "running"

LEMMA LawfulStays ==
    ASSUME ResearchTypeOK, SeatsProgress, NEW r \in RequestRow, Lawful(r, status)
    PROVE  Lawful(r, status')
<1>1. r.c # None => r.c \in Sessions
  BY NoneIsNobody DEF RequestRow
<1>2. r.w # None => r.w \in Sessions
  BY NoneIsNobody DEF RequestRow
<1>3. r.phase \in {"stopWorker", "stopCoordinator"} /\ r.committed => r.w # None /\ status'[r.w] # "running"
  BY <1>2 DEF Lawful, SeatsProgress
<1>4. r.c # None => status'[r.c] # "absent"
  BY <1>1 DEF Lawful, SeatsProgress
<1>5. r.w # None => r.c # None /\ status'[r.w] # "absent"
  BY <1>2 DEF Lawful, SeatsProgress
<1> QED BY <1>3, <1>4, <1>5 DEF Lawful

(* No Task is opened under a Mission, and none has its first run.          *)
MissionsKept ==
    /\ UNCHANGED <<mission, revises>>
    /\ \A t \in Tasks : (ran'[t] = {}) = (ran[t] = {})
    /\ \A t \in Tasks : task'[t] = "absent" => task[t] = "absent"
    /\ \A t \in Tasks : task'[t] = "open" => task[t] = "open" \/ mission[t] = None

LEMMA MissionRowsStay ==
    ASSUME ResearchInv, MissionsKept
    PROVE  /\ FreshTasks' /\ RunsUnderMission' /\ OneAnalysisPerMission'
           /\ \A m \in Missions : OpenIn(m) = {} => OpenIn(m)' = {}
<1>1. FreshTasks' /\ RunsUnderMission'
  BY DEF ResearchInv, MissionsKept, FreshTasks, RunsUnderMission
<1>2. OneAnalysisPerMission'
  <2> SUFFICES ASSUME NEW t \in Tasks, NEW u \in Tasks,
                      ran'[t] # {}, ran'[u] # {}, revises'[t] = None, revises'[u] = None,
                      task'[t] = "open", task'[u] = "open", mission'[t] = mission'[u]
               PROVE  t = u
    BY DEF OneAnalysisPerMission
  <2>1. ran[t] # {} /\ ran[u] # {} /\ revises[t] = None /\ revises[u] = None /\ mission[t] = mission[u]
    BY DEF MissionsKept
  <2>2. task[t] = "open" /\ task[u] = "open"
    BY <2>1 DEF ResearchInv, MissionsKept, RunsUnderMission
  <2> QED BY <2>1, <2>2 DEF ResearchInv, OneAnalysisPerMission
<1>3. ASSUME NEW m \in Missions, OpenIn(m) = {} PROVE OpenIn(m)' = {}
  BY <1>3, NoneIsNobody DEF OpenIn, MissionsKept
<1> QED BY <1>1, <1>2, <1>3

(* What may become of a request in such a step.                            *)
Continues(r, x) ==
    /\ x \in RequestRow
    /\ x.mission \in {None, r.mission}
    /\ x.kind = "analyze" /\ x.phase # "typing"
         => r.kind = "analyze" /\ r.phase # "typing" /\ x.mission = r.mission

LEMMA QuietStep ==
    ASSUME ResearchInv, ResearchTypeOK', SeatsProgress, MissionsKept,
           \A q \in Requests : Continues(req[q], req'[q]) /\ Lawful(req'[q], status')
    PROVE  ResearchInv'
<1>1. RequestsLawful'
  BY DEF RequestsLawful
<1>2. OneRequestPerMission'
  BY DEF ResearchInv, OneRequestPerMission, Continues
<1>3. AnalysisAlone'
  <2> SUFFICES ASSUME NEW q \in Requests, req'[q].kind = "analyze", req'[q].phase # "typing"
               PROVE  {t \in Tasks : task'[t] = "open" /\ mission'[t] = req'[q].mission} = {}
    BY DEF AnalysisAlone, OpenIn
  <2>1. req[q].kind = "analyze" /\ req[q].phase # "typing" /\ req'[q].mission = req[q].mission
    BY DEF Continues
  <2>2. OpenIn(req[q].mission) = {}
    BY <2>1 DEF ResearchInv, AnalysisAlone
  <2>3. req[q].mission \in Missions
    BY <2>1 DEF ResearchInv, RequestsLawful, Lawful, ResearchTypeOK, RequestRow, NoRequest
  <2>4. PICK m \in Missions : m = req[q].mission /\ m = req'[q].mission
    BY <2>1, <2>3
  <2>5. OpenIn(m)' = {}
    BY <2>2, <2>4, MissionRowsStay
  <2> QED BY <2>4, <2>5 DEF OpenIn
<1> QED BY <1>1, <1>2, <1>3, MissionRowsStay DEF ResearchInv

(* When one request moves, the others keep their records.                  *)
LEMMA OneMoves ==
    ASSUME ResearchInv, SeatsProgress, NEW q \in Requests, NEW x,
           req' = [req EXCEPT ![q] = x], Continues(req[q], x), Lawful(x, status')
    PROVE  /\ req' \in [Requests -> RequestRow]
           /\ \A p \in Requests : Continues(req[p], req'[p]) /\ Lawful(req'[p], status')
<1>1. req \in [Requests -> RequestRow]
  BY DEF ResearchInv, ResearchTypeOK
<1>2. \A p \in Requests : p # q => req'[p] = req[p]
  BY <1>1
<1>3. req'[q] = x
  BY <1>1
<1>4. ASSUME NEW p \in Requests PROVE Continues(req[p], req[p]) /\ Lawful(req[p], status')
  BY <1>1, LawfulStays DEF ResearchInv, RequestsLawful, Continues
<1>5. req' \in [Requests -> RequestRow]
  BY <1>1 DEF Continues
<1> QED BY <1>2, <1>3, <1>4, <1>5

-----------------------------------------------------------------------------
(* What becomes of a request when it fails, and when it is given a seat.   *)

Underway == {"capturing", "needWorker", "admitting", "held"}

LEMMA EndContinues ==
    ASSUME NEW r \in RequestRow, NEW st
    PROVE  Continues(r, NoRequest) /\ Lawful(NoRequest, st)
<1>1. NoRequest.mission = None /\ NoRequest.kind = "none"
  BY DEF NoRequest
<1> QED BY <1>1, NoRequestRow DEF Continues

LEMMA AbortContinues ==
    ASSUME NEW r \in RequestRow, NEW st, Lawful(r, st), r.phase \in Underway,
           NEW x, x = IF r.kind = "retry" THEN Stopping(r, Before(r)) ELSE NoRequest
    PROVE  Continues(r, x) /\ Lawful(x, st) /\ (x.phase = "stopCoordinator" => ~r.committed)
<1>1. CASE x = NoRequest
  <2>1. x.phase = "idle"
    BY <1>1 DEF NoRequest
  <2> QED BY <1>1, <2>1, EndContinues
<1>2. CASE x # NoRequest
  <2>1. r.kind = "retry" /\ x = Stopping(r, Before(r)) /\ Before(r) # "idle"
    BY <1>2 DEF Stopping
  <2>2. Before(r) \in {"stopWorker", "stopCoordinator"}
        /\ (Before(r) = "stopWorker" => r.w \in r.own) /\ (Before(r) = "stopCoordinator" => r.c \in r.own)
    BY <2>1 DEF Before
  <2>3. r.own \subseteq Sessions /\ None \notin Sessions
    BY NoneIsNobody DEF RequestRow
  <2>4. /\ x \in RequestRow /\ x.phase = Before(r)
        /\ x.kind = r.kind /\ x.mission = r.mission /\ x.task = r.task
        /\ x.c = r.c /\ x.w = r.w /\ x.own = r.own /\ x.committed = r.committed
    BY <2>1, <2>2, StoppingRow
  <2>5. ~r.committed
    BY DEF Lawful, Underway
  <2>6. Continues(r, x)
    BY <2>1, <2>4 DEF Continues
  <2>7. Lawful(x, st)
    BY <2>1, <2>2, <2>3, <2>4, <2>5 DEF Lawful, Underway
  <2> QED BY <2>5, <2>6, <2>7
<1> QED BY <1>1, <1>2

LEMMA SeatedContinues ==
    ASSUME NEW r \in RequestRow, NEW st, Lawful(r, st), r.phase \in {"capturing", "needWorker", "admitting"},
           NEW s \in Orchestrators \cup MarketWorkers, st[s] # "absent",
           s \in MarketWorkers => r.c # None
    PROVE  Continues(r, Seated(r, s)) /\ Lawful(Seated(r, s), st)
<1> PICK x : x = Seated(r, s)
  OBVIOUS
<1>1. /\ x \in RequestRow
      /\ x.kind = r.kind /\ x.mission = r.mission /\ x.task = r.task
      /\ x.own = r.own /\ x.committed = r.committed /\ x.seat = None
      /\ s \in Orchestrators => x.c = s /\ x.w = r.w /\ x.phase = "needWorker"
      /\ s \in MarketWorkers => x.c = r.c /\ x.w = s /\ x.phase = "held"
  BY SeatedRow
<1>2. Continues(r, x)
  BY <1>1 DEF Continues
<1>3. s # None
  BY NoneIsNobody
<1>0. /\ r.kind # "none" /\ r.mission # None /\ ~r.committed
      /\ r.kind \in {"retry", "revise"} => r.task \in MarketTasks
      /\ r.c # None => st[r.c] # "absent"
      /\ r.w # None => r.c # None /\ st[r.w] # "absent"
  BY DEF Lawful
<1>4. CASE s \in Orchestrators
  <2>1. x.c # None /\ st[x.c] # "absent" /\ (x.w # None => st[x.w] # "absent") /\ x.phase = "needWorker"
    BY <1>0, <1>1, <1>3, <1>4
  <2> QED BY <1>0, <1>1, <1>2, <2>1 DEF Lawful
<1>5. CASE s \in MarketWorkers
  <2>1. x.c # None /\ st[x.c] # "absent" /\ x.w # None /\ st[x.w] # "absent" /\ x.phase = "held"
    BY <1>0, <1>1, <1>3, <1>5
  <2> QED BY <1>0, <1>1, <1>2, <2>1 DEF Lawful
<1> QED BY <1>2, <1>4, <1>5

LEMMA CommittedContinues ==
    ASSUME NEW r \in RequestRow, NEW st, Lawful(r, st), r.phase \in {"held", "typing"}, r.kind = "retry",
           NEW phase \in {"typing", "stopWorker"}, phase = "stopWorker" => st[r.w] # "running",
           NEW x, x = [r EXCEPT !.phase = phase, !.committed = TRUE]
    PROVE  Continues(r, x) /\ Lawful(x, st)
<1>1. /\ x \in RequestRow /\ x.phase = phase /\ x.committed = TRUE
      /\ x.kind = r.kind /\ x.mission = r.mission /\ x.task = r.task
      /\ x.c = r.c /\ x.w = r.w /\ x.own = r.own /\ x.seat = r.seat
  BY CommittedRow
<1>2. r.task \in Tasks
  BY NoneIsNobody DEF Lawful
<1>3. Continues(r, x)
  BY <1>1 DEF Continues
<1>4. Lawful(x, st)
  BY <1>1, <1>2 DEF Lawful
<1> QED BY <1>3, <1>4

LEMMA RequestOf ==
    ASSUME ResearchInv, NEW q \in Requests
    PROVE  req[q] \in RequestRow /\ Lawful(req[q], status)
BY DEF ResearchInv, ResearchTypeOK, RequestsLawful

-----------------------------------------------------------------------------
(* Steps that write nothing but the record of their request.               *)

OnlyRequest == UNCHANGED <<vars, live, mission, ran, revises>>

LEMMA OnlyRequestKeeps ==
    ASSUME ResearchInv, OnlyRequest
    PROVE  /\ SeatsProgress /\ MissionsKept
           /\ req' \in [Requests -> RequestRow] => ResearchTypeOK'
<1>1. TypeOK'
  BY DEF OnlyRequest, vars, ResearchInv, ResearchTypeOK, TypeOK
<1> QED BY <1>1 DEF OnlyRequest, vars, ResearchInv, ResearchTypeOK, SeatsProgress, MissionsKept

LEMMA OnlyRequestStep ==
    ASSUME ResearchInv, OnlyRequest, NEW q \in Requests, NEW x,
           req' = [req EXCEPT ![q] = x], Continues(req[q], x), Lawful(x, status)
    PROVE  ResearchInv'
<1>1. Lawful(x, status')
  BY OnlyRequestKeeps, LawfulStays DEF Continues, ResearchInv
<1> QED BY <1>1, OnlyRequestKeeps, OneMoves, QuietStep

LEMMA WaitingSteps ==
    ASSUME ResearchInv, NEW q \in Requests,
           TakeIdle(q) \/ AcquireFails(q) \/ (\E s \in Sessions : AdmitBegin(q, s)) \/ AdmitReturns(q)
             \/ Refused(q) \/ Submitted(q)
    PROVE  ResearchInv'
<1>1. OnlyRequest
  BY DEF TakeIdle, AcquireFails, AdmitBegin, AdmitReturns, Refused, Submitted, OnlyRequest
<1>2. PICK r : r = req[q]
  OBVIOUS
<1>3. r \in RequestRow /\ Lawful(r, status)
  BY <1>2, RequestOf
<1>4. CASE TakeIdle(q)
  <2> PICK s \in IdleSeats(q) : req' = [req EXCEPT ![q] = Seated(r, s)]
    BY <1>2, <1>4 DEF TakeIdle
  <2>1. /\ s \in Orchestrators \cup MarketWorkers /\ status[s] # "absent"
        /\ s \in MarketWorkers => r.phase # "capturing"
    BY <1>2, NoneIsNobody DEF IdleSeats, Needed, Idle, Running
  <2>2. r.phase \in {"capturing", "needWorker"}
    BY <1>2, <1>4 DEF TakeIdle
  <2>3. s \in MarketWorkers => r.c # None
    BY <1>3, <2>1, <2>2 DEF Lawful
  <2> QED BY <1>1, <1>2, <1>3, <2>1, <2>2, <2>3, SeatedContinues, OnlyRequestStep
<1>5. CASE AcquireFails(q) \/ Refused(q)
  <2>1. r.phase \in Underway /\ req' = [req EXCEPT ![q] = IF r.kind = "retry" THEN Stopping(r, Before(r))
                                                          ELSE NoRequest]
    BY <1>2, <1>5 DEF AcquireFails, Refused, Abort, Underway
  <2> QED BY <1>1, <1>2, <1>3, <2>1, AbortContinues, OnlyRequestStep
<1>6. CASE \E s \in Sessions : AdmitBegin(q, s)
  <2> PICK s \in Sessions : AdmitBegin(q, s)
    BY <1>6
  <2>1. PICK x : x = [r EXCEPT !.phase = "admitting", !.seat = s] /\ req' = [req EXCEPT ![q] = x]
    BY <1>2 DEF AdmitBegin
  <2>2. /\ x \in RequestRow /\ x.phase = "admitting" /\ x.seat = s
        /\ x.kind = r.kind /\ x.mission = r.mission /\ x.task = r.task
        /\ x.c = r.c /\ x.w = r.w /\ x.own = r.own /\ x.committed = r.committed
    BY <1>3, <2>1, AdmittingRow
  <2>3. r.phase \in {"capturing", "needWorker"} /\ s \in Orchestrators \cup MarketWorkers
        /\ (s \in MarketWorkers => r.phase = "needWorker")
    BY <1>2, NoneIsNobody DEF AdmitBegin, Needed
  <2>4. Continues(r, x)
    BY <2>2, <2>3 DEF Continues
  <2>5. Lawful(x, status)
    BY <1>3, <2>2, <2>3 DEF Lawful
  <2> QED BY <1>1, <1>2, <2>1, <2>4, <2>5, OnlyRequestStep
<1>7. CASE AdmitReturns(q)
  <2>1. PICK s : s = r.seat
    OBVIOUS
  <2>2. r.phase = "admitting" /\ status[s] # "absent" /\ s \in Orchestrators \cup MarketWorkers
        /\ (s \in MarketWorkers => r.c # None) /\ s \in Sessions
    BY <1>2, <1>3, <1>7, <2>1, NoneIsNobody DEF AdmitReturns, Lawful
  <2>3. PICK y : y = Seated(r, s)
    OBVIOUS
  <2>4. Continues(r, y) /\ Lawful(y, status)
    BY <1>3, <2>2, <2>3, SeatedContinues
  <2>5. PICK x : x = RequestOwned(y, s) /\ req' = [req EXCEPT ![q] = x]
    BY <1>2, <1>7, <2>1, <2>3 DEF AdmitReturns
  <2>6. /\ x \in RequestRow
        /\ x.kind = y.kind /\ x.phase = y.phase /\ x.mission = y.mission /\ x.task = y.task
        /\ x.c = y.c /\ x.w = y.w /\ x.seat = y.seat /\ x.committed = y.committed
        /\ x.own = y.own \cup {s}
    BY <2>2, <2>4, <2>5, OwnRow DEF Continues
  <2>7. y.phase \in {"needWorker", "held"}
    BY <1>3, <2>2, <2>3, SeatedRow
  <2>8. Continues(r, x)
    BY <2>4, <2>6 DEF Continues
  <2>9. Lawful(x, status)
    BY <2>4, <2>6, <2>7 DEF Lawful
  <2> QED BY <1>1, <1>2, <2>5, <2>8, <2>9, OnlyRequestStep
<1>8. CASE Submitted(q)
  <2>1. req' = [req EXCEPT ![q] = NoRequest]
    BY <1>8 DEF Submitted
  <2> QED BY <1>1, <1>2, <1>3, <2>1, EndContinues, OnlyRequestStep
<1> QED BY <1>4, <1>5, <1>6, <1>7, <1>8

LEMMA BeginStep ==
    ASSUME ResearchInv, NEW q \in Requests, NEW kind \in {"analyze", "retry", "revise"}, NEW m \in Missions,
           NEW t \in Tasks \cup {None}, Begin(q, kind, m, t), ~Active(m),
           kind = "analyze" => OpenIn(m) = {},
           kind \in {"retry", "revise"} => t \in MarketTasks
    PROVE  ResearchInv'
<1>1. PICK x : x = [NoRequest EXCEPT !.kind = kind, !.phase = "capturing", !.mission = m, !.task = t]
               /\ req' = [req EXCEPT ![q] = x]
  BY DEF Begin
<1>2. /\ x \in RequestRow
      /\ x.kind = kind /\ x.phase = "capturing" /\ x.mission = m /\ x.task = t
      /\ x.c = None /\ x.w = None /\ x.seat = None /\ x.own = {} /\ x.committed = FALSE
  BY <1>1 DEF NoRequest, RequestRow, Phases
<1>3. OnlyRequest /\ UNCHANGED <<status, task, mission>>
  BY DEF Begin, OnlyRequest, vars
<1>4. req \in [Requests -> RequestRow] /\ SeatsProgress
  BY <1>3, OnlyRequestKeeps DEF ResearchInv, ResearchTypeOK
<1>5. req' \in [Requests -> RequestRow] /\ req'[q] = x /\ \A p \in Requests : p # q => req'[p] = req[p]
  BY <1>1, <1>2, <1>4
<1>6. Lawful(x, status')
  BY <1>2, NoneIsNobody DEF Lawful
<1>7. RequestsLawful'
  BY <1>4, <1>5, <1>6, LawfulStays DEF ResearchInv, RequestsLawful
<1>8. OneRequestPerMission'
  BY <1>2, <1>5 DEF ResearchInv, OneRequestPerMission, Active
<1>9. AnalysisAlone'
  BY <1>2, <1>3, <1>5 DEF ResearchInv, AnalysisAlone, OpenIn
<1> QED BY <1>3, <1>5, <1>7, <1>8, <1>9, OnlyRequestKeeps, MissionRowsStay DEF ResearchInv

LEMMA Requested ==
    ASSUME ResearchInv, NEW q \in Requests,
           (\E m \in Missions : Analyze(q, m)) \/ (\E t \in MarketTasks : Retry(q, t) \/ Revise(q, t))
    PROVE  ResearchInv'
<1>1. CASE \E m \in Missions : Analyze(q, m)
  BY <1>1, BeginStep DEF Analyze
<1>2. CASE \E t \in MarketTasks : Retry(q, t)
  <2> PICK t \in MarketTasks : Retry(q, t)
    BY <1>2
  <2>1. t \in Tasks /\ mission[t] \in Missions
    BY NoneIsNobody DEF Retry, ResearchInv, ResearchTypeOK
  <2> QED BY <2>1, BeginStep DEF Retry
<1>3. CASE \E t \in MarketTasks : Revise(q, t)
  <2> PICK t \in MarketTasks : Revise(q, t)
    BY <1>3
  <2>1. t \in Tasks /\ mission[t] \in Missions
    BY NoneIsNobody DEF Revise, ResearchInv, ResearchTypeOK, RunsUnderMission
  <2> QED BY <2>1, BeginStep DEF Revise
<1> QED BY <1>1, <1>2, <1>3

-----------------------------------------------------------------------------
(* Steps that start or end seats.                                          *)

OnlySeats == UNCHANGED <<rowVars, evidenceVars, log, mission, ran, revises>>

LEMMA OnlySeatsKeeps ==
    ASSUME ResearchInv, OnlySeats,
           status' \in [Sessions -> SessionStatus], reason' \in [Sessions -> Reasons \cup {"none"}],
           live' \in SUBSET Sessions
    PROVE  /\ MissionsKept
           /\ req' \in [Requests -> RequestRow] => ResearchTypeOK'
<1>1. TypeOK'
  BY DEF OnlySeats, rowVars, evidenceVars, ResearchInv, ResearchTypeOK, TypeOK
<1> QED BY <1>1 DEF OnlySeats, rowVars, ResearchInv, ResearchTypeOK, MissionsKept

(* Such a step of the desk. *)
LEMMA SeatStep ==
    ASSUME ResearchInv, OnlySeats, SeatsProgress, UNCHANGED req,
           status' \in [Sessions -> SessionStatus], reason' \in [Sessions -> Reasons \cup {"none"}],
           live' \in SUBSET Sessions
    PROVE  ResearchInv'
<1>1. req \in [Requests -> RequestRow] /\ req' = req
  BY DEF ResearchInv, ResearchTypeOK
<1>2. \A q \in Requests : Continues(req[q], req'[q]) /\ Lawful(req'[q], status')
  BY <1>1, LawfulStays DEF ResearchInv, RequestsLawful, Continues
<1> QED BY <1>1, <1>2, OnlySeatsKeeps, QuietStep

(* Such a step of a request. *)
LEMMA SeatStepOf ==
    ASSUME ResearchInv, OnlySeats, SeatsProgress,
           NEW q \in Requests, NEW x, req' = [req EXCEPT ![q] = x], Continues(req[q], x), Lawful(x, status'),
           status' \in [Sessions -> SessionStatus], reason' \in [Sessions -> Reasons \cup {"none"}],
           live' \in SUBSET Sessions
    PROVE  ResearchInv'
BY OneMoves, OnlySeatsKeeps, QuietStep

LEMMA SeatTypes ==
    ASSUME ResearchInv
    PROVE  /\ status \in [Sessions -> SessionStatus] /\ reason \in [Sessions -> Reasons \cup {"none"}]
           /\ live \in SUBSET Sessions
           /\ {"running", "failed", "cancelled", "closed"} \subseteq SessionStatus
           /\ {"native_tui_admission_failed", "app_terminated",
               "market_resume_setup_failed", "market_resume_dispatch_failed"} \subseteq Reasons
BY HostReasonAssumption DEF ResearchInv, ResearchTypeOK, TypeOK, SessionStatus

LEMMA AdmissionSteps ==
    ASSUME ResearchInv, NEW q \in Requests, AdmitStarted(q) \/ AdmitFails(q)
    PROVE  ResearchInv'
<1>0. PICK r : r = req[q]
  OBVIOUS
<1>1. r \in RequestRow /\ Lawful(r, status) /\ r.phase = "admitting"
  BY <1>0, RequestOf DEF AdmitStarted, AdmitFails
<1>2. r.seat \in Sessions
  BY <1>1, NoneIsNobody DEF Lawful
<1>3. OnlySeats
  BY DEF AdmitStarted, AdmitFails, OnlySeats, sessionVars
<1>4. CASE AdmitStarted(q)
  <2>1. status' = [status EXCEPT ![r.seat] = "running"] /\ live' = live \cup {r.seat}
        /\ status[r.seat] = "absent" /\ UNCHANGED <<reason, req>>
    BY <1>0, <1>4 DEF AdmitStarted
  <2>2. SeatsProgress
    BY <1>2, <2>1, SeatTypes DEF SeatsProgress
  <2> QED BY <1>2, <1>3, <2>1, <2>2, SeatTypes, SeatStep
<1>5. CASE AdmitFails(q)
  <2>1. live' = live \ {r.seat}
        /\ \/ UNCHANGED <<status, reason>>
           \/ /\ \E end \in {"failed", "closed"} : status' = [status EXCEPT ![r.seat] = end]
              /\ reason' = [reason EXCEPT ![r.seat] = "native_tui_admission_failed"]
    BY <1>0, <1>5 DEF AdmitFails, sessionVars
  <2>2. SeatsProgress
    BY <1>2, <2>1, SeatTypes DEF SeatsProgress
  <2>3. status' \in [Sessions -> SessionStatus] /\ reason' \in [Sessions -> Reasons \cup {"none"}]
        /\ live' \in SUBSET Sessions
    BY <1>2, <2>1, SeatTypes
  <2>4. PICK x : x = (IF r.kind = "retry" THEN Stopping(r, Before(r)) ELSE NoRequest)
                 /\ req' = [req EXCEPT ![q] = x]
    BY <1>0, <1>5 DEF AdmitFails, Abort
  <2>5. Lawful(r, status')
    BY <1>1, <2>2, LawfulStays DEF ResearchInv
  <2>6. Continues(r, x) /\ Lawful(x, status')
    BY <1>1, <2>4, <2>5, AbortContinues DEF Underway
  <2> QED BY <1>0, <1>3, <2>2, <2>3, <2>4, <2>6, SeatStepOf
<1> QED BY <1>4, <1>5

LEMMA StopStep ==
    ASSUME ResearchInv, NEW q \in Requests, StopReturns(q)
    PROVE  ResearchInv'
<1>0. PICK r : r = req[q]
  OBVIOUS
<1>1. r \in RequestRow /\ Lawful(r, status) /\ r.phase \in {"stopWorker", "stopCoordinator"}
  BY <1>0, RequestOf DEF StopReturns
<1>2. PICK s \in Sessions : /\ live' \in {live, live \ {s}}
                            /\ status' \in {status, [status EXCEPT ![s] = "closed"]}
                            /\ status' # status => status[s] \in {"running", "cancelled", "failed"}
  <2>1. (IF r.phase = "stopWorker" THEN r.w ELSE r.c) \in Sessions
    BY <1>1, NoneIsNobody DEF Lawful, RequestRow
  <2> QED BY <1>0, <2>1 DEF StopReturns
<1>3. OnlySeats /\ UNCHANGED reason
  BY DEF StopReturns, OnlySeats
<1>4. SeatsProgress
  BY <1>2, SeatTypes DEF SeatsProgress
<1>5. status' \in [Sessions -> SessionStatus] /\ live' \in SUBSET Sessions
  BY <1>2, SeatTypes
<1>6. PICK x : x = Stopping(r, AfterStop(r)) /\ req' = [req EXCEPT ![q] = x]
  BY <1>0 DEF StopReturns
<1>7. Lawful(r, status')
  BY <1>1, <1>4, LawfulStays DEF ResearchInv
<1>8. Continues(r, x) /\ Lawful(x, status')
  <2>1. CASE x = NoRequest
    BY <1>1, <2>1, EndContinues
  <2>2. CASE x # NoRequest
    <3>1. AfterStop(r) = "stopCoordinator" /\ r.c \in r.own
      BY <1>6, <2>2 DEF Stopping, AfterStop
    <3>2. /\ x \in RequestRow /\ x.phase = "stopCoordinator"
          /\ x.kind = r.kind /\ x.mission = r.mission /\ x.task = r.task
          /\ x.c = r.c /\ x.w = r.w /\ x.own = r.own /\ x.committed = r.committed
      BY <1>1, <1>6, <3>1, StoppingRow
    <3>3. r.c # None
      BY <1>1, <3>1, NoneIsNobody DEF RequestRow
    <3>4. Continues(r, x)
      BY <1>1, <3>2 DEF Continues, Lawful
    <3>5. Lawful(x, status')
      BY <1>1, <1>7, <3>1, <3>2, <3>3 DEF Lawful
    <3> QED BY <3>4, <3>5
  <2> QED BY <2>1, <2>2
<1> QED BY <1>0, <1>3, <1>4, <1>5, <1>6, <1>8, SeatTypes, SeatStepOf

LEMMA DeskSeatSteps ==
    ASSUME ResearchInv, NEW s \in Sessions, SeatOpened(s) \/ SeatLost(s) \/ SeatCancelled(s)
    PROVE  ResearchInv'
<1>1. OnlySeats /\ UNCHANGED req
  BY DEF SeatOpened, SeatLost, SeatCancelled, OnlySeats
<1>2. live' \in SUBSET Sessions
  BY SeatTypes DEF SeatOpened, SeatLost, SeatCancelled
<1>3. CASE SeatOpened(s) \/ SeatCancelled(s)
  <2>1. /\ UNCHANGED reason
        /\ \/ status[s] = "absent" /\ status' = [status EXCEPT ![s] = "running"]
           \/ status[s] = "running" /\ status' = [status EXCEPT ![s] = "cancelled"]
    BY <1>3 DEF SeatOpened, SeatCancelled, Running
  <2>2. SeatsProgress
    BY <2>1, SeatTypes DEF SeatsProgress
  <2> QED BY <1>1, <1>2, <2>1, <2>2, SeatTypes, SeatStep
<1>4. CASE SeatLost(s)
  <2>1. /\ reason' \in [Sessions -> Reasons \cup {"none"}]
        /\ \/ UNCHANGED status
           \/ /\ status[s] \in {"running", "cancelled", "failed"}
              /\ \E end \in {"failed", "closed"} : status' = [status EXCEPT ![s] = end]
    BY <1>4, SeatTypes DEF SeatLost, Running
  <2>2. SeatsProgress
    BY <2>1, SeatTypes DEF SeatsProgress
  <2> QED BY <1>1, <1>2, <2>1, <2>2, SeatTypes, SeatStep
<1> QED BY <1>3, <1>4

LEMMA RestartStep ==
    ASSUME ResearchInv, Restart
    PROVE  ResearchInv'
<1>1. OnlySeats /\ live' = {}
  BY DEF Restart, OnlySeats
<1>2. status' \in [Sessions -> SessionStatus] /\ SeatsProgress
  BY SeatTypes DEF Restart, SeatsProgress
<1>3. reason' \in [Sessions -> Reasons \cup {"none"}]
  BY SeatTypes DEF Restart
<1>4. req' \in [Requests -> RequestRow] /\ \A q \in Requests : req'[q] = NoRequest
  BY NoRequestRow DEF Restart
<1>5. \A q \in Requests : Continues(req[q], req'[q]) /\ Lawful(req'[q], status')
  BY <1>4, EndContinues DEF ResearchInv, ResearchTypeOK
<1> QED BY <1>1, <1>2, <1>3, <1>4, <1>5, OnlySeatsKeeps, QuietStep

-----------------------------------------------------------------------------
(* The Task commands of Directors and workers.                             *)

LEMMA TaskCommandStep ==
    ASSUME ResearchInv, TypeOK', UNCHANGED <<status, researchVars>>, MissionsKept
    PROVE  ResearchInv'
<1>1. req \in [Requests -> RequestRow] /\ req' = req /\ SeatsProgress
  BY DEF ResearchInv, ResearchTypeOK, researchVars, SeatsProgress
<1>2. ResearchTypeOK'
  BY DEF ResearchInv, ResearchTypeOK, researchVars
<1>3. \A q \in Requests : Continues(req[q], req'[q]) /\ Lawful(req'[q], status')
  BY <1>1, LawfulStays DEF ResearchInv, RequestsLawful, Continues
<1> QED BY <1>1, <1>2, <1>3, QuietStep

LEMMA DeskTaskSteps ==
    ASSUME ResearchInv, NEW t \in Tasks,
           \/ t \notin MarketTasks /\ \E d, s \in Sessions : SendTask(t, d, s)
           \/ \E d, s \in Sessions : Reassigned(t, d, s)
           \/ \E d \in Sessions : Governed(t, d)
           \/ \E a \in Artifacts : SendResult(t, a)
    PROVE  ResearchInv'
<1>0. TypeOK
  BY DEF ResearchInv, ResearchTypeOK
<1>1. CASE \E d, s \in Sessions : SendTask(t, d, s)
  <2> PICK d \in Sessions, s \in Sessions : SendTask(t, d, s)
    BY <1>1
  <2>1. TaskStep /\ UNCHANGED <<status, researchVars>>
        /\ task[t] = "absent" /\ task' = [task EXCEPT ![t] = "open"]
    BY DEF SendTask, TaskStep, CreateTask, OpenTask, sessionVars
  <2>2. MissionsKept
    BY <1>0, <2>1 DEF MissionsKept, researchVars, ResearchInv, FreshTasks, TypeOK
  <2> QED BY <1>0, <2>1, <2>2, TaskTypes, TaskCommandStep
<1>2. CASE \E d, s \in Sessions : Reassigned(t, d, s)
  <2>1. TaskStep /\ UNCHANGED <<status, researchVars, task>>
    BY <1>2 DEF Reassigned, TaskStep, ReassignTask, sessionVars
  <2>2. MissionsKept
    BY <2>1 DEF MissionsKept, researchVars
  <2> QED BY <1>0, <2>1, <2>2, TaskTypes, TaskCommandStep
<1>3. CASE \E a \in Artifacts : SendResult(t, a)
  <2> PICK a \in Artifacts : SendResult(t, a)
    BY <1>3
  <2>1. PICK s \in Sessions : s = assignee[t]
    BY DEF SendResult, Running
  <2>2. Ev("completed", t, s, s, s) \in Event
    BY EvType DEF EventTypes, Settling
  <2>3. [by |-> s, readBy |-> s] \in [by : Sessions \cup {None}, readBy : Sessions \cup {None}]
    OBVIOUS
  <2>4. TypeOK'
    BY <1>0, <2>1, <2>2, <2>3 DEF SendResult, TypeOK, sessionVars, TaskStatus
  <2>5. UNCHANGED <<status, researchVars>> /\ task[t] = "open" /\ task' = [task EXCEPT ![t] = "done"]
    BY DEF SendResult, sessionVars
  <2>6. MissionsKept
    BY <1>0, <2>5 DEF MissionsKept, researchVars, TypeOK
  <2> QED BY <2>4, <2>5, <2>6, TaskCommandStep
<1>4. CASE \E d \in Sessions : Governed(t, d)
  <2> PICK d \in Sessions : Governed(t, d)
    BY <1>4
  <2>1. TaskStep
    BY DEF Governed, TaskStep
  <2>2. UNCHANGED <<status, researchVars>>
    BY DEF Governed, SteerTask, CancelTask, sessionVars
  <2>3. \/ UNCHANGED task
        \/ task[t] = "open" /\ task' = [task EXCEPT ![t] = "cancelled"]
    BY DEF Governed, SteerTask, CancelTask, rowVars
  <2>4. MissionsKept
    BY <1>0, <2>2, <2>3 DEF MissionsKept, researchVars, TypeOK
  <2> QED BY <1>0, <2>1, <2>2, <2>4, TaskTypes, TaskCommandStep
<1> QED BY <1>1, <1>2, <1>3, <1>4

-----------------------------------------------------------------------------
(* The hand-over and the failure of the typing.                            *)

LEMMA OpenedRows ==
    ASSUME ResearchInv, NEW q \in Requests, NEW t \in Tasks, NEW settled \in BOOLEAN, Opened(q, t, settled)
    PROVE  /\ TypeOK' /\ SeatsProgress /\ UNCHANGED <<status, live>>
           /\ task[t] = "absent"
           /\ task' = [task EXCEPT ![t] = IF settled THEN "cancelled" ELSE "open"]
           /\ mission' = [mission EXCEPT ![t] = req[q].mission]
           /\ req[q].w \in Sessions
<1> PICK r : r = req[q]
  OBVIOUS
<1>1. TypeOK /\ r.c \in Sessions /\ r.w \in Sessions
  BY DEF Opened, Running, ResearchInv, ResearchTypeOK
<1>2. PICK created : created = Ev("created", t, r.c, None, r.w)
  OBVIOUS
<1>3. PICK ended : ended = Withdrawal(r, t)
  OBVIOUS
<1>4. created \in Event /\ ended \in Event
  BY <1>1, <1>2, <1>3, EvType DEF Withdrawal, EventTypes, Handover, Settling
<1>5. log' = log \o <<created, ended>> \/ log' = Append(log, created)
  BY <1>2, <1>3 DEF Opened
<1>6. log' \in Seq(Event)
  <2>1. log \in Seq(Event)
    BY <1>1 DEF TypeOK
  <2>2. log \o <<created, ended>> \in Seq(Event) /\ Append(log, created) \in Seq(Event)
    BY <1>4, <2>1
  <2> QED BY <1>5, <2>2
<1>7. TypeOK'
  BY <1>1, <1>6 DEF Opened, TypeOK, sessionVars, evidenceVars, TaskStatus
<1> QED BY <1>1, <1>7 DEF Opened, sessionVars, SeatsProgress

LEMMA OpenStep ==
    ASSUME ResearchInv, NEW q \in Requests, NEW t \in MarketTasks, NEW settled \in BOOLEAN, Opened(q, t, settled),
           NEW r, r = req[q], r.phase = "held", r.kind \in {"analyze", "revise"},
           UNCHANGED ran \/ Ran(t, r.w),
           IF r.kind = "analyze" THEN UNCHANGED revises ELSE revises' = [revises EXCEPT ![t] = r.task],
           NEW x, req' = [req EXCEPT ![q] = x],
           x \in {NoRequest, [r EXCEPT !.phase = "typing", !.task = t]}
    PROVE  ResearchInv'
<1>0. t \in Tasks
  BY NoneIsNobody
<1>1. r \in RequestRow /\ Lawful(r, status) /\ r.mission \in Missions
      /\ (r.kind = "revise" => r.task \in Tasks) /\ r.w # None
  <2>1. r \in RequestRow /\ Lawful(r, status)
    BY RequestOf
  <2> QED BY <2>1, NoneIsNobody DEF Lawful, RequestRow
<1>2. /\ TypeOK' /\ SeatsProgress /\ UNCHANGED <<status, live>>
      /\ task[t] = "absent"
      /\ task' = [task EXCEPT ![t] = IF settled THEN "cancelled" ELSE "open"]
      /\ mission' = [mission EXCEPT ![t] = r.mission]
      /\ r.w \in Sessions
  BY <1>0, OpenedRows
<1>3. Continues(r, x) /\ Lawful(x, status') /\ x.phase \in {"idle", "typing"}
      /\ x.mission \in {None, r.mission} /\ x.kind \in {"none", r.kind}
      /\ (x.kind = "analyze" => x.phase = "typing")
  <2>1. CASE x = NoRequest
    <3>1. x.phase = "idle" /\ x.mission = None /\ x.kind = "none"
      BY <2>1 DEF NoRequest
    <3> QED BY <1>1, <2>1, <3>1, EndContinues
  <2>2. CASE x = [r EXCEPT !.phase = "typing", !.task = t]
    <3>1. /\ x \in RequestRow /\ x.phase = "typing" /\ x.task = t
          /\ x.kind = r.kind /\ x.mission = r.mission
          /\ x.c = r.c /\ x.w = r.w /\ x.own = r.own /\ x.committed = r.committed
      BY <1>1, <1>0, <2>2 DEF RequestRow, Phases
    <3>2. Lawful(x, status)
      <4>1. /\ r.mission # None /\ r.c # None /\ status[r.c] # "absent"
            /\ r.w # None /\ status[r.w] # "absent"
        BY <1>1 DEF Lawful
      <4> QED BY <1>0, <3>1, <4>1 DEF Lawful
    <3>3. Continues(r, x)
      BY <3>1 DEF Continues
    <3> QED BY <1>2, <3>1, <3>2, <3>3
  <2> QED BY <2>1, <2>2
<1>4. /\ req' \in [Requests -> RequestRow]
      /\ \A p \in Requests : Continues(req[p], req'[p]) /\ Lawful(req'[p], status')
  BY <1>2, <1>3, OneMoves
<1>5. req \in [Requests -> RequestRow] /\ task \in [Tasks -> TaskStatus] /\ mission \in [Tasks -> Missions \cup {None}]
      /\ ran \in [Tasks -> SUBSET Sessions] /\ revises \in [Tasks -> Tasks \cup {None}]
      /\ live \in SUBSET Sessions
  BY DEF ResearchInv, ResearchTypeOK, TypeOK
<1>6. ResearchTypeOK'
  <2>1. mission' \in [Tasks -> Missions \cup {None}] /\ live' \in SUBSET Sessions
    BY <1>0, <1>1, <1>2, <1>5
  <2>2. ran' \in [Tasks -> SUBSET Sessions]
    BY <1>0, <1>2, <1>5 DEF Ran
  <2>3. revises' \in [Tasks -> Tasks \cup {None}]
    BY <1>0, <1>1, <1>5
  <2> QED BY <1>2, <1>4, <2>1, <2>2, <2>3 DEF ResearchTypeOK
<1>7. RequestsLawful'
  BY <1>4 DEF RequestsLawful
<1>8. OneRequestPerMission'
  BY <1>4 DEF ResearchInv, OneRequestPerMission, Continues
<1>9. \A u \in Tasks : u # t => task'[u] = task[u] /\ mission'[u] = mission[u]
                                /\ ran'[u] = ran[u] /\ revises'[u] = revises[u]
  BY <1>2, <1>5 DEF Ran
<1>10. task'[t] # "absent" /\ mission'[t] = r.mission
  BY <1>0, <1>2, <1>5
<1>11. FreshTasks'
  BY <1>9, <1>10 DEF ResearchInv, FreshTasks
<1>12. RunsUnderMission'
  BY <1>1, <1>9, <1>10, NoneIsNobody DEF ResearchInv, RunsUnderMission
<1>13. AnalysisAlone'
  <2> SUFFICES ASSUME NEW p \in Requests, req'[p].kind = "analyze", req'[p].phase # "typing"
               PROVE  {u \in Tasks : task'[u] = "open" /\ mission'[u] = req'[p].mission} = {}
    BY DEF AnalysisAlone, OpenIn
  <2>1. p # q
    BY <1>3, <1>5
  <2>2. req'[p] = req[p]
    BY <1>5, <2>1
  <2>3. req[p].mission # r.mission
    BY <1>1, <2>1, NoneIsNobody DEF ResearchInv, OneRequestPerMission
  <2>4. {u \in Tasks : task[u] = "open" /\ mission[u] = req[p].mission} = {}
    BY <2>2 DEF ResearchInv, AnalysisAlone, OpenIn
  <2> QED BY <1>9, <1>10, <2>2, <2>3, <2>4
<1>14. OneAnalysisPerMission'
  <2> SUFFICES ASSUME NEW u \in Tasks, NEW v \in Tasks,
                      ran'[u] # {}, ran'[v] # {}, revises'[u] = None, revises'[v] = None,
                      task'[u] = "open", task'[v] = "open", mission'[u] = mission'[v]
               PROVE  u = v
    BY DEF OneAnalysisPerMission
  <2>1. ASSUME NEW z \in Tasks, z # t, task'[z] = "open", mission'[z] = r.mission, revises'[t] = None
        PROVE  FALSE
    <3>1. r.kind = "analyze"
      BY <1>1, <1>5, <2>1, NoneIsNobody
    <3>2. OpenIn(r.mission) = {}
      BY <3>1 DEF ResearchInv, AnalysisAlone
    <3> QED BY <1>9, <2>1, <3>2 DEF OpenIn
  <2>2. CASE u # t /\ v # t
    BY <1>9, <2>2 DEF ResearchInv, OneAnalysisPerMission
  <2> QED BY <1>10, <2>1, <2>2
<1> QED BY <1>6, <1>7, <1>8, <1>11, <1>12, <1>13, <1>14 DEF ResearchInv

LEMMA OpenSteps ==
    ASSUME ResearchInv, NEW q \in Requests, NEW t \in MarketTasks, OpenAnalysis(q, t) \/ OpenRevision(q, t)
    PROVE  ResearchInv'
<1>0. PICK r : r = req[q]
  OBVIOUS
<1>1. t \in Tasks /\ r.phase = "held" /\ r.kind \in {"analyze", "revise"}
  BY <1>0, NoneIsNobody DEF OpenAnalysis, OpenRevision
<1>2. UNCHANGED ran \/ Ran(t, r.w)
  BY <1>0 DEF OpenAnalysis, OpenRevision
<1>3. IF r.kind = "analyze" THEN UNCHANGED revises ELSE revises' = [revises EXCEPT ![t] = r.task]
  BY <1>0 DEF OpenAnalysis, OpenRevision
<1>4. CASE Opened(q, t, FALSE) /\ Typing(q, t)
  <2>1. PICK x : x = [r EXCEPT !.phase = "typing", !.task = t] /\ req' = [req EXCEPT ![q] = x]
    BY <1>0, <1>4 DEF Typing
  <2> QED BY <1>0, <1>1, <1>2, <1>3, <1>4, <2>1, OpenStep
<1>5. CASE Opened(q, t, TRUE) /\ req' = [req EXCEPT ![q] = NoRequest]
  BY <1>0, <1>1, <1>2, <1>3, <1>5, OpenStep
<1> QED BY <1>4, <1>5 DEF OpenAnalysis, OpenRevision

LEMMA ReplacementFails ==
    ASSUME ResearchInv, NEW q \in Requests, NEW r, r = req[q], r.kind = "retry", r.phase \in {"held", "typing"},
           NEW why \in {"market_resume_setup_failed", "market_resume_dispatch_failed"}, FailReplacement(q, why)
    PROVE  /\ SeatsProgress
           /\ status' \in [Sessions -> SessionStatus] /\ reason' \in [Sessions -> Reasons \cup {"none"}]
           /\ \E x : req' = [req EXCEPT ![q] = x] /\ Continues(r, x) /\ Lawful(x, status')
<1>1. r \in RequestRow /\ Lawful(r, status) /\ r.w \in Sessions
  <2>1. r \in RequestRow /\ Lawful(r, status)
    BY RequestOf
  <2>2. r.w # None
    BY <2>1 DEF Lawful
  <2> QED BY <2>1, <2>2, NoneIsNobody DEF RequestRow
<1>2. /\ UNCHANGED status \/ (status[r.w] = "running" /\ status' = [status EXCEPT ![r.w] = "failed"])
      /\ UNCHANGED reason \/ reason' = [reason EXCEPT ![r.w] = why]
  BY DEF FailReplacement, Running, sessionVars
<1>3. SeatsProgress
  BY <1>1, <1>2, SeatTypes DEF SeatsProgress
<1>4. status' \in [Sessions -> SessionStatus] /\ reason' \in [Sessions -> Reasons \cup {"none"}]
  BY <1>1, <1>2, SeatTypes
<1>5. Lawful(r, status')
  BY <1>1, <1>3, LawfulStays DEF ResearchInv
<1>6. CASE ResultCommitted(r.task)
  <2>1. req' = [req EXCEPT ![q] = NoRequest]
    BY <1>6 DEF FailReplacement
  <2> QED BY <1>1, <1>3, <1>4, <2>1, EndContinues
<1>7. CASE ~ResultCommitted(r.task)
  <2>1. PICK x : x = [r EXCEPT !.phase = "stopWorker", !.committed = TRUE] /\ req' = [req EXCEPT ![q] = x]
    BY <1>7 DEF FailReplacement
  <2>2. status'[r.w] # "running"
    BY <1>1, <1>7, SeatTypes DEF FailReplacement, Running, sessionVars
  <2>3. Continues(r, x) /\ Lawful(x, status')
    BY <1>1, <1>5, <2>1, <2>2, CommittedContinues
  <2> QED BY <1>3, <1>4, <2>1, <2>3
<1> QED BY <1>6, <1>7

LEMMA HandOverStep ==
    ASSUME ResearchInv, NEW q \in Requests, NEW a \in Attempts, HandOver(q, a)
    PROVE  ResearchInv'
<1>0. PICK r : r = req[q]
  OBVIOUS
<1>1. r \in RequestRow /\ Lawful(r, status) /\ r.phase = "held" /\ r.kind = "retry"
      /\ r.task \in Tasks /\ r.w \in Sessions
  <2>1. r \in RequestRow /\ Lawful(r, status) /\ r.phase = "held" /\ r.kind = "retry"
    BY <1>0, RequestOf DEF HandOver
  <2>2. r.task \in MarketTasks /\ r.w # None
    BY <2>1 DEF Lawful
  <2> QED BY <2>1, <2>2, NoneIsNobody DEF RequestRow
<1>2. MayResume(r.task, r.c, r.w, a) /\ Resumed(r.task, r.c, r.w, a) /\ ran[r.task] # {}
      /\ UNCHANGED <<live, mission, revises>>
  BY <1>0 DEF HandOver
<1>3. UNCHANGED ran \/ Ran(r.task, r.w)
  BY <1>0 DEF HandOver
<1>4. \/ \E x : /\ x = [r EXCEPT !.phase = "typing", !.committed = TRUE]
                /\ req' = [req EXCEPT ![q] = x] /\ UNCHANGED sessionVars
      \/ \E why \in {"market_resume_setup_failed", "market_resume_dispatch_failed"} : FailReplacement(q, why)
  BY <1>0 DEF HandOver
<1>5. /\ SeatsProgress
      /\ status' \in [Sessions -> SessionStatus] /\ reason' \in [Sessions -> Reasons \cup {"none"}]
      /\ \E x : req' = [req EXCEPT ![q] = x] /\ Continues(r, x) /\ Lawful(x, status')
  <2>1. CASE \E x : /\ x = [r EXCEPT !.phase = "typing", !.committed = TRUE]
                    /\ req' = [req EXCEPT ![q] = x] /\ UNCHANGED sessionVars
    <3> PICK x : /\ x = [r EXCEPT !.phase = "typing", !.committed = TRUE]
                 /\ req' = [req EXCEPT ![q] = x] /\ UNCHANGED sessionVars
      BY <2>1
    <3>1. Continues(r, x) /\ Lawful(x, status)
      BY <1>1, CommittedContinues
    <3>2. UNCHANGED <<status, reason>>
      BY DEF sessionVars
    <3> QED BY <3>1, <3>2, SeatTypes DEF SeatsProgress
  <2>2. CASE \E why \in {"market_resume_setup_failed", "market_resume_dispatch_failed"} : FailReplacement(q, why)
    BY <1>0, <1>1, <2>2, ReplacementFails
  <2> QED BY <1>4, <2>1, <2>2
<1>6. TypeOK'
  <2>1. TypeOK /\ r.c \in Sessions /\ assignee[r.task] \in Sessions
    BY <1>2 DEF MayResume, Running, ResearchInv, ResearchTypeOK
  <2>2. PICK e : e = [Ev("resumed", r.task, r.c, assignee[r.task], r.w) EXCEPT !.attempt = a]
    OBVIOUS
  <2>3. Ev("resumed", r.task, r.c, assignee[r.task], r.w) \in Event
    BY <1>1, <2>1, EvType DEF EventTypes, Handover
  <2>4. e \in Event
    BY <2>2, <2>3 DEF Event
  <2>5. log' = Append(log, e)
    BY <1>2, <2>2 DEF Resumed
  <2>6. log' \in Seq(Event)
    <3>1. log \in Seq(Event)
      BY <2>1 DEF TypeOK
    <3> QED BY <2>4, <2>5, <3>1
  <2> QED BY <1>1, <1>2, <1>5, <2>1, <2>6 DEF Resumed, TypeOK, evidenceVars
<1>7. MissionsKept
  <2>1. UNCHANGED task
    BY <1>2 DEF Resumed
  <2>2. \A t \in Tasks : (ran'[t] = {}) = (ran[t] = {})
    BY <1>2, <1>3 DEF Ran, ResearchInv, ResearchTypeOK
  <2> QED BY <1>2, <2>1, <2>2 DEF MissionsKept
<1>8. ran' \in [Tasks -> SUBSET Sessions]
  BY <1>1, <1>3 DEF Ran, ResearchInv, ResearchTypeOK
<1> PICK x : req' = [req EXCEPT ![q] = x] /\ Continues(r, x) /\ Lawful(x, status')
  BY <1>5
<1>9. /\ req' \in [Requests -> RequestRow]
      /\ \A p \in Requests : Continues(req[p], req'[p]) /\ Lawful(req'[p], status')
  BY <1>0, <1>5, OneMoves
<1>10. ResearchTypeOK'
  BY <1>2, <1>6, <1>8, <1>9 DEF ResearchInv, ResearchTypeOK
<1> QED BY <1>5, <1>7, <1>9, <1>10, QuietStep

LEMMA TypingFailsStep ==
    ASSUME ResearchInv, NEW q \in Requests, TypingFails(q)
    PROVE  ResearchInv'
<1>0. PICK r : r = req[q]
  OBVIOUS
<1>1. r \in RequestRow /\ Lawful(r, status) /\ r.phase = "typing" /\ r.task \in Tasks
  BY <1>0, RequestOf DEF TypingFails, Lawful
<1>2. TypeOK /\ UNCHANGED <<live, mission, ran, revises>>
  BY DEF TypingFails, ResearchInv, ResearchTypeOK
<1>3. CASE r.kind = "retry" /\ FailReplacement(q, "market_resume_dispatch_failed")
           /\ UNCHANGED <<rowVars, evidenceVars, log>>
  <2>1. /\ SeatsProgress
        /\ status' \in [Sessions -> SessionStatus] /\ reason' \in [Sessions -> Reasons \cup {"none"}]
        /\ \E x : req' = [req EXCEPT ![q] = x] /\ Continues(r, x) /\ Lawful(x, status')
    BY <1>0, <1>1, <1>3, ReplacementFails
  <2>2. OnlySeats
    BY <1>2, <1>3 DEF OnlySeats
  <2> PICK x : req' = [req EXCEPT ![q] = x] /\ Continues(r, x) /\ Lawful(x, status')
    BY <2>1
  <2> QED BY <1>0, <1>2, <2>1, <2>2, SeatTypes, SeatStepOf
<1>4. CASE /\ req' = [req EXCEPT ![q] = NoRequest]
           /\ \/ CancelTask(r.task, r.c)
              \/ /\ task' = [task EXCEPT ![r.task] = "cancelled"]
                 /\ log' = Append(log, Ev("cancelled", r.task, None, None, None))
                 /\ UNCHANGED <<sessionVars, assignee, delegator, coordinator, evidenceVars>>
              \/ UNCHANGED vars
  <2>1. UNCHANGED <<status, reason>> /\ (UNCHANGED task \/ task' = [task EXCEPT ![r.task] = "cancelled"])
    BY <1>4 DEF CancelTask, sessionVars, vars
  <2>2. SeatsProgress
    BY <2>1 DEF SeatsProgress
  <2>3. MissionsKept
    BY <1>1, <1>2, <2>1 DEF MissionsKept, TypeOK
  <2>4. \E by \in Sessions \cup {None}, from \in {assignee[r.task], None} :
           log' = log \/ log' = Append(log, Ev("cancelled", r.task, by, from, from))
    BY <1>4 DEF CancelTask, Directs, Running, vars
  <2>5. log' \in Seq(Event)
    <3> PICK by \in Sessions \cup {None}, from \in {assignee[r.task], None} :
           log' = log \/ log' = Append(log, Ev("cancelled", r.task, by, from, from))
      BY <2>4
    <3>1. log \in Seq(Event) /\ assignee[r.task] \in Sessions \cup {None}
      BY <1>1, <1>2 DEF TypeOK
    <3>2. Ev("cancelled", r.task, by, from, from) \in Event
      BY <1>1, <3>1, EvType DEF EventTypes, Settling
    <3> QED BY <3>1, <3>2
  <2>6. UNCHANGED <<assignee, delegator, coordinator, reads, result, sourceWork>>
    BY <1>4 DEF CancelTask, evidenceVars, vars
  <2>7. TypeOK'
    BY <1>1, <1>2, <2>1, <2>5, <2>6 DEF TypeOK, TaskStatus
  <2>8. Continues(r, NoRequest) /\ Lawful(NoRequest, status')
    BY <1>1, EndContinues
  <2>9. /\ req' \in [Requests -> RequestRow]
        /\ \A p \in Requests : Continues(req[p], req'[p]) /\ Lawful(req'[p], status')
    BY <1>0, <1>4, <2>2, <2>8, OneMoves
  <2>10. ResearchTypeOK'
    BY <1>2, <2>7, <2>9 DEF ResearchInv, ResearchTypeOK
  <2> QED BY <2>2, <2>3, <2>9, <2>10, QuietStep
<1> QED BY <1>0, <1>3, <1>4 DEF TypingFails, Withdrawal

-----------------------------------------------------------------------------
LEMMA ResearchStart == ResearchInit => ResearchInv
<1> SUFFICES ASSUME ResearchInit PROVE ResearchInv
  OBVIOUS
<1>1. TypeOK /\ \A t \in Tasks : task[t] = "absent"
  BY DEF ResearchInit, Init, TypeOK, SessionStatus, TaskStatus
<1>2. \A q \in Requests : req[q] = NoRequest
  BY DEF ResearchInit
<1>3. req \in [Requests -> RequestRow]
  BY NoRequestRow DEF ResearchInit
<1>4. ResearchTypeOK
  BY <1>1, <1>3 DEF ResearchInit, ResearchTypeOK
<1>5. RequestsLawful /\ OneRequestPerMission /\ AnalysisAlone
  <2>1. NoRequest.mission = None /\ NoRequest.kind = "none"
    BY DEF NoRequest
  <2> QED BY <1>2, <2>1, NoRequestRow DEF RequestsLawful, OneRequestPerMission, AnalysisAlone
<1>6. FreshTasks /\ RunsUnderMission /\ OneAnalysisPerMission
  BY <1>1 DEF ResearchInit, FreshTasks, RunsUnderMission, OneAnalysisPerMission
<1> QED BY <1>4, <1>5, <1>6 DEF ResearchInv

LEMMA ResearchStep == ResearchInv /\ [ResearchNext]_allVars => ResearchInv'
<1> SUFFICES ASSUME ResearchInv, [ResearchNext]_allVars PROVE ResearchInv'
  OBVIOUS
<1>1. CASE UNCHANGED allVars
  <2>1. UNCHANGED <<status, researchVars>> /\ TypeOK' /\ MissionsKept
    BY <1>1 DEF allVars, vars, researchVars, ResearchInv, ResearchTypeOK, TypeOK, MissionsKept
  <2> QED BY <2>1, TaskCommandStep
<1>2. CASE RequestStep
  <2> PICK q \in Requests :
        \/ \E m \in Missions : Analyze(q, m)
        \/ \E t \in MarketTasks : Retry(q, t) \/ Revise(q, t) \/ OpenAnalysis(q, t) \/ OpenRevision(q, t)
        \/ TakeIdle(q) \/ AcquireFails(q)
        \/ \E s \in Sessions : AdmitBegin(q, s)
        \/ AdmitStarted(q) \/ AdmitReturns(q) \/ AdmitFails(q)
        \/ Refused(q) \/ \E a \in Attempts : HandOver(q, a)
        \/ Submitted(q) \/ TypingFails(q) \/ StopReturns(q)
    BY <1>2 DEF RequestStep
  <2> QED BY Requested, OpenSteps, WaitingSteps, AdmissionSteps, HandOverStep, TypingFailsStep, StopStep
<1>3. CASE DeskStep
  <2>1. CASE \E s \in Sessions : SeatOpened(s) \/ SeatLost(s) \/ SeatCancelled(s)
    BY <2>1, DeskSeatSteps
  <2>2. CASE \/ \E t \in Tasks \ MarketTasks, d, s \in Sessions : SendTask(t, d, s)
             \/ \E t \in Tasks, d, s \in Sessions : Reassigned(t, d, s)
             \/ \E t \in Tasks, d \in Sessions : Governed(t, d)
             \/ \E t \in Tasks, a \in Artifacts : SendResult(t, a)
    BY <2>2, DeskTaskSteps
  <2> QED BY <1>3, <2>1, <2>2, RestartStep DEF DeskStep
<1> QED BY <1>1, <1>2, <1>3 DEF ResearchNext

LEMMA ResearchInvariant == ResearchSpec => []ResearchInv
BY ResearchStart, ResearchStep, PTL DEF ResearchSpec

(* Every variable of the requests and of the rows they work on keeps its   *)
(* type.                                                                   *)
THEOREM ResearchTypeCorrect == ResearchSpec => []ResearchTypeOK
BY ResearchInvariant, PTL DEF ResearchInv

(* For every number of requests and Missions, and however long a request   *)
(* waits between its look at the rows and its write: one open analysis.    *)
THEOREM MissionAnalyzedOnce == ResearchSpec => []OneAnalysisPerMission
BY ResearchInvariant, PTL DEF ResearchInv

-----------------------------------------------------------------------------
(* What a step of one request does to the others, and what it may not do.  *)

RequestActs(q) ==
    \/ \E m \in Missions : Analyze(q, m)
    \/ \E t \in MarketTasks : Retry(q, t) \/ Revise(q, t) \/ OpenAnalysis(q, t) \/ OpenRevision(q, t)
    \/ TakeIdle(q) \/ AcquireFails(q)
    \/ \E s \in Sessions : AdmitBegin(q, s)
    \/ AdmitStarted(q) \/ AdmitReturns(q) \/ AdmitFails(q)
    \/ Refused(q) \/ \E a \in Attempts : HandOver(q, a)
    \/ Submitted(q) \/ TypingFails(q) \/ StopReturns(q)

LEMMA ActsAlone ==
    ASSUME ResearchInv, NEW q \in Requests, RequestActs(q), NEW p \in Requests, p # q
    PROVE  req'[p] = req[p]
<1>1. req \in [Requests -> RequestRow]
  BY DEF ResearchInv, ResearchTypeOK
<1>2. UNCHANGED req \/ \E x : req' = [req EXCEPT ![q] = x]
  <2>1. CASE (\E m \in Missions : Analyze(q, m)) \/ \E t \in MarketTasks : Retry(q, t) \/ Revise(q, t)
    BY <2>1 DEF Analyze, Retry, Revise, Begin
  <2>2. CASE \E t \in MarketTasks : OpenAnalysis(q, t) \/ OpenRevision(q, t)
    BY <2>2 DEF OpenAnalysis, OpenRevision, Typing
  <2>3. CASE TakeIdle(q) \/ AcquireFails(q) \/ Refused(q) \/ \E s \in Sessions : AdmitBegin(q, s)
    BY <2>3 DEF TakeIdle, AcquireFails, Refused, AdmitBegin, Abort
  <2>4. CASE AdmitStarted(q) \/ AdmitReturns(q) \/ AdmitFails(q)
    BY <2>4 DEF AdmitStarted, AdmitReturns, AdmitFails, Abort
  <2>5. CASE (\E a \in Attempts : HandOver(q, a)) \/ TypingFails(q)
    BY <2>5 DEF HandOver, TypingFails, FailReplacement
  <2>6. CASE Submitted(q) \/ StopReturns(q)
    BY <2>6 DEF Submitted, StopReturns
  <2> QED BY <2>1, <2>2, <2>3, <2>4, <2>5, <2>6 DEF RequestActs
<1> QED BY <1>1, <1>2

LEMMA MovedByItself ==
    ASSUME ResearchInv, [ResearchNext]_allVars, NEW q \in Requests, req'[q] # req[q]
    PROVE  RequestActs(q) \/ Restart
<1>1. CASE UNCHANGED allVars
  BY <1>1 DEF allVars, researchVars
<1>2. CASE RequestStep
  <2> PICK p \in Requests : RequestActs(p)
    BY <1>2 DEF RequestStep, RequestActs
  <2> QED BY ActsAlone
<1>3. CASE DeskStep
  <2>1. UNCHANGED req \/ Restart
    BY <1>3 DEF DeskStep, SeatOpened, SeatLost, SeatCancelled, SendTask, Reassigned, Governed, SendResult, researchVars
  <2> QED BY <2>1
<1> QED BY <1>1, <1>2, <1>3 DEF ResearchNext

(* A failure is blamed on the worker, by the request whose worker it is,   *)
(* in the one step that looks whether the result is there.                 *)
LEMMA BlamedByReplacement ==
    ASSUME ResearchInv, NEW q \in Requests, RequestActs(q), NEW w \in Sessions,
           status[w] = "running", status'[w] = "failed",
           reason'[w] \in {"market_resume_setup_failed", "market_resume_dispatch_failed"}
    PROVE  \E why : FailReplacement(q, why) /\ ~ResultCommitted(req[q].task)
<1>1. CASE (\E m \in Missions : Analyze(q, m)) \/ (\E t \in MarketTasks : Retry(q, t) \/ Revise(q, t))
             \/ TakeIdle(q) \/ AcquireFails(q) \/ Refused(q) \/ (\E s \in Sessions : AdmitBegin(q, s))
             \/ AdmitReturns(q) \/ Submitted(q)
  <2>1. UNCHANGED status
    BY <1>1 DEF Analyze, Retry, Revise, Begin, TakeIdle, AcquireFails, Refused, AdmitBegin, AdmitReturns,
                Submitted, vars
  <2> QED BY <2>1
<1>2. CASE \E t \in MarketTasks : OpenAnalysis(q, t) \/ OpenRevision(q, t)
  <2>1. UNCHANGED status
    BY <1>2 DEF OpenAnalysis, OpenRevision, Opened, sessionVars
  <2> QED BY <2>1
<1>3. CASE AdmitStarted(q)
  BY <1>3, SeatTypes DEF AdmitStarted
<1>4. CASE AdmitFails(q)
  BY <1>4, SeatTypes DEF AdmitFails, sessionVars
<1>5. CASE \E a \in Attempts : HandOver(q, a)
  <2>1. UNCHANGED status \/ \E why : FailReplacement(q, why)
    BY <1>5 DEF HandOver, sessionVars
  <2> QED BY <2>1 DEF FailReplacement, sessionVars
<1>6. CASE TypingFails(q)
  <2>1. UNCHANGED status \/ \E why : FailReplacement(q, why)
    BY <1>6 DEF TypingFails, CancelTask, sessionVars, vars
  <2> QED BY <2>1 DEF FailReplacement, sessionVars
<1>7. CASE StopReturns(q)
  BY <1>7, SeatTypes DEF StopReturns
<1> QED BY <1>1, <1>2, <1>3, <1>4, <1>5, <1>6, <1>7 DEF RequestActs

LEMMA CoordinatorDropped ==
    ASSUME ResearchInv, NEW q \in Requests, RequestActs(q), NEW r, r = req[q],
           r.committed, r.phase # "stopCoordinator", req'[q].phase = "stopCoordinator"
    PROVE  ~ResultCommitted(r.task)
<1>0. r \in RequestRow /\ Lawful(r, status) /\ req \in [Requests -> RequestRow] /\ r.phase \notin Underway
  <2>1. r \in RequestRow /\ Lawful(r, status) /\ req \in [Requests -> RequestRow]
    BY RequestOf DEF ResearchInv, ResearchTypeOK
  <2> QED BY <2>1 DEF Lawful, Underway
<1>1. r.phase \in {"idle", "typing", "stopWorker"} /\ NoRequest.phase = "idle"
  BY <1>0 DEF RequestRow, Phases, Underway, NoRequest
<1>2. r # NoRequest
  BY DEF NoRequest
<1>3. TypingFails(q) \/ Submitted(q) \/ StopReturns(q)
  BY <1>0, <1>2 DEF Underway, RequestActs, Analyze, Retry, Revise, Begin, TakeIdle, AcquireFails, Refused,
              AdmitBegin, AdmitStarted, AdmitReturns, AdmitFails, OpenAnalysis, OpenRevision, HandOver
<1>4. CASE Submitted(q)
  BY <1>0, <1>1, <1>4 DEF Submitted
<1>5. CASE TypingFails(q)
  <2>1. req' = [req EXCEPT ![q] = NoRequest]
          \/ \E x : x = [r EXCEPT !.phase = "stopWorker", !.committed = TRUE] /\ req' = [req EXCEPT ![q] = x]
    BY <1>5 DEF TypingFails, FailReplacement
  <2>2. CASE \E x : x = [r EXCEPT !.phase = "stopWorker", !.committed = TRUE] /\ req' = [req EXCEPT ![q] = x]
    <3> PICK x : x = [r EXCEPT !.phase = "stopWorker", !.committed = TRUE] /\ req' = [req EXCEPT ![q] = x]
      BY <2>2
    <3>1. x.phase = "stopWorker" /\ req'[q] = x
      BY <1>0, CommittedRow
    <3> QED BY <3>1
  <2> QED BY <1>0, <1>1, <2>1, <2>2
<1>6. CASE StopReturns(q)
  <2>1. req'[q] = Stopping(r, AfterStop(r))
    BY <1>0, <1>6 DEF StopReturns
  <2>2. AfterStop(r) # "idle"
    BY <1>1, <2>1 DEF Stopping
  <2> QED BY <2>2 DEF AfterStop
<1> QED BY <1>3, <1>4, <1>5, <1>6

(* A retry blames its worker, and drops the coordinator it started, only   *)
(* while its Task has no result.                                           *)
THEOREM RacedResultKept == ResearchSpec => RacedResultPreserved
<1>1. ASSUME ResearchInv, [ResearchNext]_allVars, NEW q \in Requests, NEW r, r = req[q], r.kind = "retry",
             \/ /\ req'[q] # r
                \* the worker is blamed
                /\ \E s \in Sessions : /\ s = r.w /\ status[s] = "running" /\ status'[s] = "failed"
                                       /\ reason'[s] \in {"market_resume_setup_failed",
                                                          "market_resume_dispatch_failed"}
             \/ r.committed /\ r.phase # "stopCoordinator" /\ req'[q].phase = "stopCoordinator"
      PROVE  ~ResultCommitted(r.task)
  <2>1. req'[q] # req[q]
    BY <1>1
  <2>2. CASE RequestActs(q)
    BY <1>1, <2>2, BlamedByReplacement, CoordinatorDropped
  <2>3. CASE Restart
    <3>1. req'[q].phase = "idle"
      BY <2>3 DEF Restart, NoRequest
    <3>2. \A s \in Sessions : status[s] = "running" /\ status'[s] = "failed" => reason'[s] = "app_terminated"
      BY <2>3, SeatTypes, <1>1 DEF Restart
    <3> QED BY <1>1, <3>1, <3>2
  <2> QED BY <1>1, <2>1, <2>2, <2>3, MovedByItself
<1>2. ResearchInv /\ [ResearchNext]_allVars
        => \A q \in Requests :
             LET r == req[q]
                 blamed == req'[q] # r /\
                           \E s \in Sessions : /\ s = r.w /\ status[s] = "running" /\ status'[s] = "failed"
                                               /\ reason'[s] \in {"market_resume_setup_failed",
                                                                  "market_resume_dispatch_failed"}
                 dropped == r.committed /\ r.phase # "stopCoordinator"
                               /\ req'[q].phase = "stopCoordinator" IN
             r.kind = "retry" /\ (blamed \/ dropped) => ~ResultCommitted(r.task)
  BY <1>1
<1> QED BY <1>2, ResearchInvariant, PTL DEF ResearchSpec, RacedResultPreserved

(* When a failed retry has been cleaned up, no running worker of it is     *)
(* left owning its Task: the next retry's guard can be met.                *)
THEOREM FailedRetryReleasesTask == ResearchSpec => FailedRetryLeavesNoOwner
<1>1. ASSUME ResearchInv, [ResearchNext]_allVars, NEW q \in Requests, NEW r, r = req[q],
             r.kind = "retry", r.committed, r.phase \in {"stopWorker", "stopCoordinator"}, req'[q] = NoRequest
      PROVE  status'[r.w] # "running"
  <2>1. r.w \in Sessions /\ status[r.w] # "running" /\ status[r.w] # "absent"
    <3>1. r \in RequestRow /\ Lawful(r, status)
      BY <1>1, RequestOf
    <3>2. r.w # None /\ status[r.w] # "running" /\ status[r.w] # "absent"
      BY <1>1, <3>1 DEF Lawful
    <3> QED BY <3>1, <3>2, NoneIsNobody DEF RequestRow
  <2>2. req'[q] # req[q]
    BY <1>1 DEF NoRequest
  <2>3. Restart \/ StopReturns(q)
    <3>1. RequestActs(q) \/ Restart
      BY <1>1, <2>2, MovedByItself
    <3>2. req[q].phase \in {"stopWorker", "stopCoordinator"} /\ req[q] # NoRequest
      BY <1>1 DEF NoRequest
    <3> QED BY <3>1, <3>2 DEF RequestActs, Analyze, Retry, Revise, Begin, TakeIdle, AcquireFails, Refused,
              AdmitBegin, AdmitStarted, AdmitReturns, AdmitFails, OpenAnalysis, OpenRevision, HandOver,
              Submitted, TypingFails
  <2> QED BY <1>1, <2>1, <2>3, SeatTypes DEF Restart, StopReturns
<1>2. ResearchInv /\ [ResearchNext]_allVars
        => \A q \in Requests :
             LET r == req[q] IN
             /\ r.kind = "retry" /\ r.committed
             /\ r.phase \in {"stopWorker", "stopCoordinator"} /\ req'[q] = NoRequest
             => \/ sourceWork'[r.task] # None \/ task'[r.task] # "open"
                \/ assignee'[r.task] # r.w \/ status'[r.w] # "running"
  BY <1>1
<1> QED BY <1>2, ResearchInvariant, PTL DEF ResearchSpec, FailedRetryLeavesNoOwner

-----------------------------------------------------------------------------
(* Who may come to own two decision Tasks. *)

LEMMA StaysApart ==
    ASSUME NEW s, ~Overlapping(s), NEW x \in Tasks,
           \A u \in Tasks \ {x} : Decides(s, u)' => Decides(s, u),
           Decides(s, x)' => Decides(s, x) \/ \A u \in Tasks \ {x} : ~Decides(s, u)
    PROVE  ~Overlapping(s)'
BY DEF Overlapping

LEMMA RequestsStayApart ==
    ASSUME ResearchInv, NEW q \in Requests, RequestActs(q), NEW s \in Sessions, ~Overlapping(s)
    PROVE  ~Overlapping(s)'
<1>0. PICK r : r = req[q]
  OBVIOUS
<1>1. /\ task \in [Tasks -> TaskStatus] /\ assignee \in [Tasks -> Sessions \cup {None}]
      /\ ran \in [Tasks -> SUBSET Sessions] /\ MarketTasks \subseteq Tasks
  BY NoneIsNobody DEF ResearchInv, ResearchTypeOK, TypeOK
<1>2. CASE UNCHANGED <<task, assignee, ran>>
  BY <1>2 DEF Overlapping, Decides
<1>3. CASE \E t \in MarketTasks : OpenAnalysis(q, t) \/ OpenRevision(q, t)
  <2> PICK t \in MarketTasks : OpenAnalysis(q, t) \/ OpenRevision(q, t)
    BY <1>3
  <2>1. /\ UNCHANGED ran \/ Ran(t, r.w)
        /\ assignee' = [assignee EXCEPT ![t] = r.w]
        /\ \/ task' = [task EXCEPT ![t] = "cancelled"]
           \/ task' = [task EXCEPT ![t] = "open"] /\ ~Overlaps(r.w, t)
    BY <1>0 DEF OpenAnalysis, OpenRevision, Opened
  <2>2. \A u \in Tasks \ {t} : Decides(s, u)' => Decides(s, u)
    BY <1>1, <2>1 DEF Decides, Ran
  <2>3. Decides(s, t)' => \A u \in Tasks \ {t} : ~Decides(s, u)
    BY <1>1, <2>1 DEF Decides, Overlaps
  <2> QED BY <1>1, <2>2, <2>3, StaysApart
<1>4. CASE \E a \in Attempts : HandOver(q, a)
  <2>1. /\ UNCHANGED <<task>> /\ (UNCHANGED ran \/ Ran(r.task, r.w))
        /\ assignee' = [assignee EXCEPT ![r.task] = r.w]
        /\ \A u \in Tasks \ {r.task} : ~(task[u] = "open" /\ assignee[u] = r.w)
    BY <1>0, <1>4 DEF HandOver, MayResume, Resumed
  <2>2. r.task \in Tasks
    <3>1. Lawful(r, status) /\ r.kind = "retry"
      BY <1>0, <1>4, RequestOf DEF HandOver
    <3> QED BY <3>1, NoneIsNobody DEF Lawful
  <2>3. \A u \in Tasks \ {r.task} : Decides(s, u)' => Decides(s, u)
    BY <1>1, <2>1, <2>2 DEF Decides, Ran
  <2>4. Decides(s, r.task)' => \A u \in Tasks \ {r.task} : ~Decides(s, u)
    BY <1>1, <2>1, <2>2 DEF Decides
  <2> QED BY <2>2, <2>3, <2>4, StaysApart
<1>5. CASE TypingFails(q)
  <2>1. r.task \in Tasks
    <3>1. Lawful(r, status) /\ r.phase = "typing"
      BY <1>0, <1>5, RequestOf DEF TypingFails
    <3> QED BY <3>1 DEF Lawful
  <2>2. UNCHANGED <<assignee, ran>> /\ (UNCHANGED task \/ task' = [task EXCEPT ![r.task] = "cancelled"])
    BY <1>0, <1>5 DEF TypingFails, CancelTask, rowVars, vars
  <2>3. \A u \in Tasks : Decides(s, u)' => Decides(s, u)
    BY <1>1, <2>1, <2>2 DEF Decides
  <2> QED BY <2>1, <2>3, StaysApart
<1> QED BY <1>2, <1>3, <1>4, <1>5 DEF RequestActs, Analyze, Retry, Revise, Begin, TakeIdle, AcquireFails, Refused,
             AdmitBegin, AdmitStarted, AdmitReturns, AdmitFails, Submitted, StopReturns, vars, rowVars

LEMMA DeskStaysApart ==
    ASSUME ResearchInv, DeskStep, NEW s \in Sessions, ~Overlapping(s)
    PROVE  ~Overlapping(s)' \/ log'[Len(log')].type = "reassigned"
<1>1. /\ task \in [Tasks -> TaskStatus] /\ assignee \in [Tasks -> Sessions \cup {None}]
      /\ ran \in [Tasks -> SUBSET Sessions] /\ log \in Seq(Event)
  BY DEF ResearchInv, ResearchTypeOK, TypeOK
<1>2. CASE (\E x \in Sessions : SeatOpened(x) \/ SeatLost(x) \/ SeatCancelled(x)) \/ Restart
  <2>1. UNCHANGED <<task, assignee, ran>>
    BY <1>2 DEF SeatOpened, SeatLost, SeatCancelled, Restart, rowVars
  <2> QED BY <2>1 DEF Overlapping, Decides
<1>3. CASE \E t \in Tasks \ MarketTasks, d, x \in Sessions : SendTask(t, d, x)
  <2> PICK t \in Tasks \ MarketTasks, d \in Sessions, x \in Sessions : SendTask(t, d, x)
    BY <1>3
  <2>1. task[t] = "absent" /\ task' = [task EXCEPT ![t] = "open"] /\ assignee' = [assignee EXCEPT ![t] = x]
        /\ UNCHANGED ran
    BY DEF SendTask, CreateTask, OpenTask, researchVars
  <2>2. ran[t] = {}
    BY <2>1 DEF ResearchInv, FreshTasks
  <2>3. \A u \in Tasks \ {t} : Decides(s, u)' => Decides(s, u)
    BY <1>1, <2>1 DEF Decides
  <2>4. ~Decides(s, t)'
    BY <2>1, <2>2 DEF Decides
  <2> QED BY <2>3, <2>4, StaysApart
<1>4. CASE \E t \in Tasks, d, x \in Sessions : Reassigned(t, d, x)
  <2> PICK t \in Tasks, d \in Sessions, x \in Sessions : Reassigned(t, d, x)
    BY <1>4
  <2>1. PICK e : e = Ev("reassigned", t, d, assignee[t], x) /\ log' = Append(log, e)
    BY DEF Reassigned, ReassignTask
  <2>2. e.type = "reassigned"
    BY <2>1 DEF Ev
  <2> QED BY <1>1, <2>1, <2>2
<1>5. CASE \E t \in Tasks, a \in Artifacts : SendResult(t, a)
  <2> PICK t \in Tasks, a \in Artifacts : SendResult(t, a)
    BY <1>5
  <2>1. task' = [task EXCEPT ![t] = "done"] /\ UNCHANGED <<assignee, ran>>
    BY DEF SendResult, researchVars
  <2>2. \A u \in Tasks : Decides(s, u)' => Decides(s, u)
    BY <1>1, <2>1 DEF Decides
  <2> QED BY <2>2, StaysApart
<1>6. CASE \E t \in Tasks, d \in Sessions : Governed(t, d)
  <2> PICK t \in Tasks, d \in Sessions : Governed(t, d)
    BY <1>6
  <2>1. (UNCHANGED task \/ task' = [task EXCEPT ![t] = "cancelled"]) /\ UNCHANGED <<assignee, ran>>
    BY DEF Governed, SteerTask, CancelTask, rowVars, researchVars
  <2>2. \A u \in Tasks : Decides(s, u)' => Decides(s, u)
    BY <1>1, <2>1 DEF Decides
  <2> QED BY <2>2, StaysApart
<1> QED BY <1>2, <1>3, <1>4, <1>5, <1>6 DEF DeskStep

(* Two requests may have found one worker idle; whichever hands over       *)
(* second is refused or ends its Task, so only a reassignment by a         *)
(* Director leaves a worker with two open decision Tasks.                  *)
THEOREM RequestsNeverOverlap == ResearchSpec => ResearchNeverOverlaps
<1>1. ASSUME ResearchInv, [ResearchNext]_allVars, NEW s \in Sessions, Overlapping(s)', ~Overlapping(s)
      PROVE  log'[Len(log')].type = "reassigned"
  <2>1. CASE UNCHANGED allVars
    BY <1>1, <2>1 DEF allVars, vars, researchVars, Overlapping, Decides
  <2>2. CASE RequestStep
    <3> PICK q \in Requests : RequestActs(q)
      BY <2>2 DEF RequestStep, RequestActs
    <3> QED BY <1>1, RequestsStayApart
  <2>3. CASE DeskStep
    BY <1>1, <2>3, DeskStaysApart
  <2> QED BY <1>1, <2>1, <2>2, <2>3 DEF ResearchNext
<1>2. ResearchInv /\ [ResearchNext]_allVars
        => \A s \in Sessions :
             Overlapping(s)' /\ ~Overlapping(s) => log'[Len(log')].type = "reassigned"
  BY <1>1
<1> QED BY <1>2, ResearchInvariant, PTL DEF ResearchSpec, ResearchNeverOverlaps

-----------------------------------------------------------------------------
(* The rows and the history of the Tasks.  Every step opens, hands over,   *)
(* steers or settles one Task with the events that say so, or leaves the   *)
(* Tasks alone and no owner of open work closed.  A Task opened and        *)
(* cancelled in one stretch has two events at once, which is why the       *)
(* lemmas of the kernel's history are stated for Recorded steps.           *)
Holding == {"running", "blocked", "cancelled", "failed"}
DoneAnew(t) == task'[t] = "done" /\ task[t] # "done" =>
    /\ assignee'[t] \in Sessions
    /\ \E a \in Artifacts : result'[a] = [by |-> assignee'[t], readBy |-> assignee'[t]]
ResultsStay == \A a \in Artifacts : result[a].by # None => result'[a] = result[a]
Told == OpenTaskHasSeat' /\ Recorded /\ ResultsStay /\ \A t \in Tasks : DoneAnew(t)

LEMMA SeatsOnly ==
    ASSUME ResearchInv, OpenTaskHasSeat, UNCHANGED <<rowVars, evidenceVars, log>>,
           \A s \in Sessions : OwnsOpenTask(s) => status'[s] \in Holding
    PROVE  Told
<1>1. Recorded
  BY NoEvent, AccountedRecorded DEF ResearchInv, ResearchTypeOK
<1>2. OpenTaskHasSeat'
  BY DEF OpenTaskHasSeat, OwnsOpenTask, Holding, rowVars
<1> QED BY <1>1, <1>2 DEF Told, ResultsStay, DoneAnew, rowVars, evidenceVars

LEMMA OwnersHold ==
    ASSUME OpenTaskHasSeat
    PROVE  \A s \in Sessions : OwnsOpenTask(s) => status[s] \in Holding
BY DEF OpenTaskHasSeat, OwnsOpenTask, Holding

(* A replacement that fails has its row failed, not closed.                *)
LEMMA ReplacementHolds ==
    ASSUME ResearchInv, OpenTaskHasSeat, NEW q \in Requests, NEW why, FailReplacement(q, why)
    PROVE  \A s \in Sessions : status'[s] = status[s] \/ status'[s] = "failed"
BY SeatTypes DEF FailReplacement, sessionVars

LEMMA QuietToldSteps ==
    ASSUME ResearchInv, OpenTaskHasSeat, NEW q \in Requests,
           \/ \E m \in Missions : Analyze(q, m)
           \/ \E t \in MarketTasks : Retry(q, t) \/ Revise(q, t)
           \/ TakeIdle(q) \/ AcquireFails(q)
           \/ \E s \in Sessions : AdmitBegin(q, s)
           \/ AdmitStarted(q) \/ AdmitReturns(q) \/ AdmitFails(q)
           \/ Refused(q) \/ Submitted(q) \/ StopReturns(q)
    PROVE  Told
<1>0. \A s \in Sessions : OwnsOpenTask(s) => status[s] \in Holding
  BY OwnersHold
<1>1. CASE UNCHANGED vars
  BY <1>0, <1>1, SeatsOnly DEF vars, rowVars, evidenceVars
<1>2. CASE AdmitStarted(q)
  <2>1. \A s \in Sessions : OwnsOpenTask(s) => status'[s] \in Holding
    BY <1>0, <1>2, SeatTypes DEF AdmitStarted, Holding
  <2> QED BY <1>2, <2>1, SeatsOnly DEF AdmitStarted
<1>3. CASE AdmitFails(q)
  <2>1. \A s \in Sessions : OwnsOpenTask(s) => status'[s] \in Holding
    BY <1>0, <1>3, SeatTypes DEF AdmitFails, Holding, sessionVars
  <2> QED BY <1>3, <2>1, SeatsOnly DEF AdmitFails
<1>4. CASE StopReturns(q)
  <2>1. \A s \in Sessions : OwnsOpenTask(s) => status'[s] \in Holding
    BY <1>0, <1>4, SeatTypes DEF StopReturns, Holding
  <2> QED BY <1>4, <2>1, SeatsOnly DEF StopReturns
<1>5. \/ UNCHANGED vars \/ AdmitStarted(q) \/ AdmitFails(q) \/ StopReturns(q)
  BY DEF Analyze, Retry, Revise, Begin, TakeIdle, AcquireFails, AdmitBegin, AdmitReturns, Refused, Submitted
<1> QED BY <1>1, <1>2, <1>3, <1>4, <1>5

LEMMA DeskToldSteps ==
    ASSUME ResearchInv, OpenTaskHasSeat,
           (\E s \in Sessions : SeatOpened(s) \/ SeatLost(s) \/ SeatCancelled(s)) \/ Restart
    PROVE  Told
<1>0. \A s \in Sessions : OwnsOpenTask(s) => status[s] \in Holding
  BY OwnersHold
<1>1. ASSUME NEW s \in Sessions, SeatOpened(s) \/ SeatLost(s) \/ SeatCancelled(s) PROVE Told
  <2>1. \A z \in Sessions : OwnsOpenTask(z) => status'[z] \in Holding
    BY <1>0, <1>1, SeatTypes DEF SeatOpened, SeatLost, SeatCancelled, Running, Holding
  <2> QED BY <1>1, <2>1, SeatsOnly DEF SeatOpened, SeatLost, SeatCancelled
<1>2. CASE Restart
  <2>1. \A z \in Sessions : OwnsOpenTask(z) => status'[z] \in Holding
    BY <1>0, <1>2 DEF Restart, Holding
  <2> QED BY <1>2, <2>1, SeatsOnly DEF Restart
<1> QED BY <1>1, <1>2

(* The kernel's own commands on a Task.                                    *)
LEMMA CommandTold ==
    ASSUME ResearchInv, OpenTaskHasSeat, NEW t \in Tasks, NEW d \in Sessions,
           SteerTask(t, d) \/ CancelTask(t, d) \/ \E s \in Sessions : CreateTask(t, d, s) \/ ReassignTask(t, d, s)
    PROVE  Told
<1>0. TypeOK /\ TaskStep
  BY DEF ResearchInv, ResearchTypeOK, TaskStep
<1>1. OpenTaskHasSeat' /\ Recorded
  BY <1>0, SeatAfterTaskStep, TaskStepAccounted, AccountedRecorded
<1>2. UNCHANGED evidenceVars /\ \A u \in Tasks : task'[u] = "done" => task[u] = "done"
  BY <1>0 DEF SteerTask, CancelTask, CreateTask, OpenTask, ReassignTask, TypeOK, rowVars
<1> QED BY <1>1, <1>2 DEF Told, ResultsStay, DoneAnew, evidenceVars

LEMMA SendResultTold ==
    ASSUME ResearchInv, OpenTaskHasSeat, NEW t \in Tasks, NEW a \in Artifacts, SendResult(t, a)
    PROVE  Told
<1>0. TypeOK /\ assignee[t] \in Sessions
  BY DEF SendResult, OpenTaskHasSeat, ResearchInv, ResearchTypeOK
<1>1. PICK e : e = Ev("completed", t, assignee[t], assignee[t], assignee[t])
  OBVIOUS
<1>2. e \in Event
  BY <1>0, <1>1, EvType DEF EventTypes, Settling
<1>3. log' = Append(log, e) /\ e.task = t
  BY <1>1 DEF SendResult, Ev
<1>4. Effect(t, e)
  BY <1>0, <1>1 DEF SendResult, TypeOK, Ev, Effect, Completes
<1>5. \A u \in Tasks \ {t} : RowsKept(u)
  BY <1>0 DEF SendResult, TypeOK, RowsKept
<1>6. Recorded
  BY <1>0, <1>2, <1>3, <1>4, <1>5, OneEvent, AccountedRecorded
<1>7. OpenTaskHasSeat'
  BY <1>0 DEF SendResult, OpenTaskHasSeat, TypeOK, sessionVars
<1>8. /\ result' = [result EXCEPT ![a] = [by |-> assignee[t], readBy |-> assignee[t]]]
      /\ result[a].by = None /\ task' = [task EXCEPT ![t] = "done"] /\ assignee' = assignee
  BY DEF SendResult
<1>9. ResultsStay
  BY <1>0, <1>8 DEF ResultsStay, TypeOK
<1>10. result'[a] = [by |-> assignee[t], readBy |-> assignee[t]]
  BY <1>0, <1>8 DEF TypeOK
<1>11. \A u \in Tasks : u # t => task'[u] = task[u]
  BY <1>0, <1>8 DEF TypeOK
<1>12. \A u \in Tasks : DoneAnew(u)
  BY <1>0, <1>8, <1>10, <1>11 DEF DoneAnew
<1> QED BY <1>6, <1>7, <1>9, <1>12 DEF Told

(* One Task is settled by an event that hands nothing over.                *)
LEMMA CancelRecorded ==
    ASSUME TypeOK, NEW t \in Tasks, NEW e \in Event, e.task = t, e.type = "cancelled",
           log' = Append(log, e), task[t] = "open", task' = [task EXCEPT ![t] = "cancelled"],
           UNCHANGED assignee
    PROVE  Recorded
<1>1. LogGrows /\ Fresh = {Len(log) + 1} /\ log'[Len(log) + 1] = e /\ Len(log) \in Nat
  BY GrowsByOne
<1>2. \A u \in Tasks : HandsOn(u)
  BY <1>1 DEF HandsOn, Handover
<1>3. \A u \in Tasks : SettlesOn(u) /\ LeavesBlank(u)
  BY <1>1 DEF TypeOK, SettlesOn, LeavesBlank, Settled
<1> QED BY <1>1, <1>2, <1>3 DEF Recorded

LEMMA OpenedTold ==
    ASSUME ResearchInv, OpenTaskHasSeat, NEW q \in Requests, NEW t \in Tasks, NEW settled \in BOOLEAN,
           Opened(q, t, settled)
    PROVE  Told
<1> PICK r : r = req[q]
  OBVIOUS
<1>0. TypeOK /\ r.c \in Sessions /\ r.w \in Sessions
  BY DEF Opened, Running, ResearchInv, ResearchTypeOK
<1>1. PICK e : e = Ev("created", t, r.c, None, r.w)
  OBVIOUS
<1>2. PICK f : f = Withdrawal(r, t)
  OBVIOUS
<1>3. e \in Event /\ f \in Event
  BY <1>0, <1>1, <1>2, EvType DEF Withdrawal, EventTypes, Handover, Settling
<1>4. /\ e.task = t /\ e.type = "created" /\ e.prev = None /\ e.to = r.w /\ e.by = r.c
      /\ f.task = t /\ f.type = "cancelled"
  BY <1>1, <1>2 DEF Withdrawal, Ev
<1>5. /\ task[t] = "absent" /\ Running(r.c) /\ Running(r.w)
      /\ task' = [task EXCEPT ![t] = IF settled THEN "cancelled" ELSE "open"]
      /\ delegator' = [delegator EXCEPT ![t] = r.c] /\ assignee' = [assignee EXCEPT ![t] = r.w]
      /\ UNCHANGED <<sessionVars, coordinator, evidenceVars>>
      /\ IF settled THEN log' = log \o <<e, f>> ELSE log' = Append(log, e)
  BY <1>1, <1>2 DEF Opened
<1>6. Recorded
  <2>1. CASE ~settled
    <3>1. Effect(t, e)
      BY <1>0, <1>4, <1>5, <2>1 DEF TypeOK, Effect, Creates
    <3>2. \A u \in Tasks \ {t} : RowsKept(u)
      BY <1>0, <1>5 DEF TypeOK, RowsKept
    <3> QED BY <1>0, <1>3, <1>4, <1>5, <2>1, <3>1, <3>2, OneEvent, AccountedRecorded
  <2>2. CASE settled
    <3>1. /\ LogGrows /\ Len(log) \in Nat /\ Fresh = {Len(log) + 1, Len(log) + 2}
          /\ log'[Len(log) + 1] = e /\ log'[Len(log) + 2] = f
      BY <1>0, <1>3, <1>4, <1>5, <2>2, GrowsByTwo
    <3>2. /\ task'[t] = "cancelled" /\ assignee'[t] = r.w
          /\ \A u \in Tasks : u # t => task'[u] = task[u] /\ assignee'[u] = assignee[u]
      BY <1>0, <1>5, <2>2 DEF TypeOK
    <3>3. ASSUME NEW u \in Tasks, u # t PROVE HandsOn(u) /\ SettlesOn(u) /\ LeavesBlank(u)
      BY <1>4, <3>1, <3>2, <3>3 DEF HandsOn, SettlesOn, LeavesBlank, Settled
    <3>4. HandsOn(t)
      BY <1>4, <1>5, <3>1, <3>2 DEF HandsOn, Handover
    <3>5. SettlesOn(t) /\ LeavesBlank(t)
      BY <1>4, <1>5, <3>1, <3>2 DEF SettlesOn, LeavesBlank, Settled, Settling
    <3> QED BY <3>1, <3>3, <3>4, <3>5 DEF Recorded
  <2> QED BY <2>1, <2>2
<1>7. OpenTaskHasSeat'
  BY <1>0, <1>5 DEF TypeOK, OpenTaskHasSeat, Running, sessionVars
<1>8. \A u \in Tasks : task'[u] = "done" => task[u] = "done"
  BY <1>0, <1>5 DEF TypeOK
<1> QED BY <1>5, <1>6, <1>7, <1>8 DEF Told, ResultsStay, DoneAnew, evidenceVars

LEMMA HandOverTold ==
    ASSUME ResearchInv, OpenTaskHasSeat, NEW q \in Requests, NEW a \in Attempts, HandOver(q, a)
    PROVE  Told
<1> PICK r : r = req[q]
  OBVIOUS
<1>1. /\ MayResume(r.task, r.c, r.w, a) /\ Resumed(r.task, r.c, r.w, a)
      /\ UNCHANGED sessionVars \/ \E why : FailReplacement(q, why)
  BY DEF HandOver
<1>2. TypeOK /\ r.task \in Tasks /\ r.w \in Sessions /\ r.c \in Sessions /\ status[r.w] = "running"
  BY <1>1, NoneIsNobody DEF MayResume, Running, ResearchInv, ResearchTypeOK
<1>3. Recorded
  BY <1>1, <1>2, ResumedAccounted, AccountedRecorded
<1>4. \A s \in Sessions : status'[s] = status[s] \/ status'[s] = "failed"
  BY <1>1, ReplacementHolds DEF sessionVars
<1>5. task' = task /\ assignee' = [assignee EXCEPT ![r.task] = r.w] /\ UNCHANGED evidenceVars
  BY <1>1 DEF Resumed
<1>6. OpenTaskHasSeat'
  BY <1>2, <1>4, <1>5 DEF TypeOK, OpenTaskHasSeat
<1> QED BY <1>3, <1>5, <1>6 DEF Told, ResultsStay, DoneAnew, evidenceVars

LEMMA TypingFailsTold ==
    ASSUME ResearchInv, OpenTaskHasSeat, NEW q \in Requests, TypingFails(q)
    PROVE  Told
<1> PICK r : r = req[q]
  OBVIOUS
<1>0. TypeOK /\ r.task \in Tasks /\ r.c \in Sessions
  <2>1. r \in RequestRow /\ Lawful(r, status) /\ r.phase = "typing"
    BY RequestOf DEF TypingFails
  <2> QED BY <2>1, NoneIsNobody DEF Lawful, RequestRow, ResearchInv, ResearchTypeOK
<1>1. CASE \E why : FailReplacement(q, why) /\ UNCHANGED <<rowVars, evidenceVars, log>>
  BY <1>1, OwnersHold, ReplacementHolds, SeatsOnly DEF Holding
<1>2. CASE CancelTask(r.task, r.c)
  BY <1>0, <1>2, CommandTold
<1>3. CASE /\ r.kind = "revise" /\ task[r.task] = "open"
           /\ task' = [task EXCEPT ![r.task] = "cancelled"]
           /\ log' = Append(log, Withdrawal(r, r.task))
           /\ UNCHANGED <<sessionVars, assignee, delegator, coordinator, evidenceVars>>
  <2>1. PICK e : e = Ev("cancelled", r.task, None, None, None)
    OBVIOUS
  <2>2. e \in Event /\ e.task = r.task /\ e.type = "cancelled" /\ log' = Append(log, e)
    BY <1>0, <1>3, <2>1, EvType DEF Withdrawal, Ev, EventTypes, Settling
  <2>3. Recorded
    BY <1>0, <1>3, <2>2, CancelRecorded
  <2>4. OpenTaskHasSeat' /\ \A u \in Tasks : task'[u] = "done" => task[u] = "done"
    BY <1>0, <1>3 DEF TypeOK, OpenTaskHasSeat, sessionVars
  <2> QED BY <1>3, <2>3, <2>4 DEF Told, ResultsStay, DoneAnew, evidenceVars
<1>4. CASE UNCHANGED vars
  BY <1>4, OwnersHold, SeatsOnly DEF vars, rowVars, evidenceVars
<1> QED BY <1>1, <1>2, <1>3, <1>4 DEF TypingFails

LEMMA StepTold ==
    ResearchInv /\ OpenTaskHasSeat /\ [ResearchNext]_allVars => Told
<1> SUFFICES ASSUME ResearchInv, OpenTaskHasSeat, [ResearchNext]_allVars PROVE Told
  OBVIOUS
<1>1. CASE UNCHANGED allVars
  BY <1>1, OwnersHold, SeatsOnly DEF allVars, vars, rowVars, evidenceVars
<1>2. CASE RequestStep
  <2> PICK q \in Requests : RequestActs(q)
    BY <1>2 DEF RequestStep, RequestActs
  <2>1. CASE \E t \in MarketTasks : OpenAnalysis(q, t) \/ OpenRevision(q, t)
    BY <2>1, OpenedTold, NoneIsNobody DEF OpenAnalysis, OpenRevision
  <2>2. CASE (\E a \in Attempts : HandOver(q, a)) \/ TypingFails(q)
    BY <2>2, HandOverTold, TypingFailsTold
  <2> QED BY <2>1, <2>2, QuietToldSteps DEF RequestActs
<1>3. CASE DeskStep
  <2>1. ASSUME NEW t \in Tasks, NEW d \in Sessions, NEW s \in Sessions, SendTask(t, d, s) \/ Reassigned(t, d, s)
        PROVE  Told
    BY <2>1, CommandTold DEF SendTask, Reassigned
  <2>2. ASSUME NEW t \in Tasks, NEW d \in Sessions, Governed(t, d) PROVE Told
    BY <2>2, CommandTold DEF Governed
  <2> QED BY <1>3, <2>1, <2>2, DeskToldSteps, SendResultTold DEF DeskStep
<1> QED BY <1>1, <1>2, <1>3 DEF ResearchNext

(* What a done Task rests on stays: its owner and its result.              *)
LEMMA EvidenceTold ==
    ASSUME ResearchInv, Told, Evidenced
    PROVE  Evidenced'
<1> SUFFICES ASSUME NEW t \in Tasks, task'[t] = "done"
             PROVE  /\ assignee'[t] \in Sessions
                    /\ \E a \in Artifacts : result'[a] = [by |-> assignee'[t], readBy |-> assignee'[t]]
  BY DEF Evidenced
<1>1. CASE task[t] = "done"
  <2>1. HandsOn(t) /\ SettlesOn(t)
    BY DEF Told, Recorded
  <2>2. assignee'[t] = assignee[t]
    BY <1>1, <2>1 DEF HandsOn, SettlesOn, Settled, Handover, Aside, Receipts
  <2>3. assignee[t] \in Sessions
    BY <1>1 DEF Evidenced
  <2>4. PICK a \in Artifacts : result[a] = [by |-> assignee[t], readBy |-> assignee[t]]
    BY <1>1 DEF Evidenced
  <2>5. result'[a] = result[a]
    BY <2>3, <2>4, NoneIsNobody DEF Told, ResultsStay
  <2> QED BY <2>2, <2>3, <2>4, <2>5
<1>2. CASE task[t] # "done"
  BY <1>2 DEF Told, DoneAnew
<1> QED BY <1>1, <1>2

StoryInv == OpenTaskHasSeat /\ Unwritten /\ OwnerNamed /\ Chained /\ Finals /\ Evidenced

LEMMA StoryInvariant == ResearchSpec => [](ResearchInv /\ StoryInv)
<1>1. ResearchInit => StoryInv
  BY DEF ResearchInit, Init, StoryInv, OpenTaskHasSeat, Unwritten, OwnerNamed, Chained, Finals,
     FinalOf, SettledBy, QuietAfter, Evidenced
<1>2. ResearchInv /\ StoryInv /\ [ResearchNext]_allVars => StoryInv'
  <2> SUFFICES ASSUME ResearchInv, StoryInv, [ResearchNext]_allVars PROVE StoryInv'
    OBVIOUS
  <2>1. Told /\ Recorded /\ OpenTaskHasSeat'
    BY StepTold DEF StoryInv, Told
  <2>2. Unwritten' /\ OwnerNamed' /\ Chained'
    BY <2>1, UnwrittenKept, OwnerKept, ChainKept DEF StoryInv
  <2>3. Finals'
    BY <2>1, FinalKept DEF StoryInv, Finals, ResearchInv, ResearchTypeOK, TypeOK
  <2>4. Evidenced'
    BY <2>1, EvidenceTold DEF StoryInv
  <2> QED BY <2>1, <2>2, <2>3, <2>4 DEF StoryInv
<1> QED BY <1>1, <1>2, ResearchInvariant, PTL DEF ResearchSpec

(* No request, compensation, lost terminal or restart leaves an open Task  *)
(* with an owner that was never started or is closed.                      *)
THEOREM ResearchKeepsSeat == ResearchSpec => []OpenTaskHasSeat
BY StoryInvariant, PTL DEF StoryInv

(* Tasks that a request opens, hands over, cancels or fails read back as a *)
(* chain of owners; what is settled stays so; and what is done rests on    *)
(* its last owner's own result.                                            *)
THEOREM ResearchKeepsHistory ==
    ResearchSpec => [](HandoverChain /\ FinalStaysFinal /\ DoneOnOwnEvidence)
<1>1. StoryInv => HandoverChain /\ DoneOnOwnEvidence
  BY DEF StoryInv, Chained, OwnerNamed, HandoverChain, Evidenced, DoneOnOwnEvidence
<1>2. StoryInv => FinalStaysFinal
  BY DEF StoryInv, Finals, FinalOf, SettledBy, QuietAfter, FinalStaysFinal, Aside
<1> QED BY <1>1, <1>2, StoryInvariant, PTL
=============================================================================
