-------------------------- MODULE AgentHostProofs --------------------------
(* Theorems about AgentHost, for every value of its constants.             *)
(*                                                                         *)
(* Three facts about the host's own state carry the argument: a session    *)
(* whose terminal was never created is not live or on its way out; a row   *)
(* whose terminal is being created has not been started; and none is being *)
(* created while the process is down.  With them every step of the host is *)
(* lawful for the rows: it starts or settles rows, never closes an owner   *)
(* of open work, never reopens a closed row.  A second invariant, about    *)
(* the live map and where each admission stands, gives what the maps may   *)
(* hold while a row is settled, cancelled or disposed.                     *)
EXTENDS AgentHost, TaskHistoryProofs

Spawning ==
    /\ app = "down" => \A s \in Sessions : admission[s] # "spawning"
    /\ \A s \in live \cup teardown \cup cancelling : pty[s] # "none"
    /\ \A s \in Sessions : admission[s] = "spawning" =>
          pty[s] = "none" /\ status[s] \in {"absent", "starting"}

HostInv == HostTypeOK /\ OpenTaskHasSeat /\ Spawning

(* What a step of the host may do to the rows.                             *)
LawfulRows ==
    /\ UNCHANGED taskVars
    /\ \A s \in Sessions :
          /\ OwnsOpenTask(s) => status'[s] \in {"running", "blocked", "cancelled", "failed"}
          /\ status[s] = "closed" => status'[s] = "closed"

(* Lawful rows keep every open Task with its seat ...                      *)
LEMMA LawfulKeepsSeat ==
    OpenTaskHasSeat /\ LawfulRows => OpenTaskHasSeat'
BY DEF OpenTaskHasSeat, LawfulRows, OwnsOpenTask, taskVars, rowVars

(* ... and are a retirement of the seats they close.                       *)
LEMMA LawfulRetires ==
    LawfulRows => [Ledger!LedgerNext]_(Ledger!ledgerVars)
<1> SUFFICES ASSUME LawfulRows PROVE Ledger!LedgerNext
    OBVIOUS
<1> PICK gone \in SUBSET Sessions : gone = ClosedSeats'
    BY DEF ClosedSeats
<1>1. ClosedSeats' = ClosedSeats \cup gone
    BY DEF LawfulRows, ClosedSeats
<1>2. \A w \in Tasks : ~(task[w] = "open" /\ assignee[w] \in gone)
    BY DEF LawfulRows, ClosedSeats, OwnsOpenTask
<1>3. UNCHANGED <<task, assignee, delegator>>
    BY DEF LawfulRows, taskVars, rowVars
<1>4. Ledger!Retire(gone)
    BY <1>1, <1>2, <1>3 DEF Ledger!Retire, ClosedSeats
<1> QED BY <1>4 DEF Ledger!LedgerNext

(* The rows each kind of write leaves are typed and lawful.                *)
LEMMA RowWrites ==
    ASSUME HostTypeOK, OpenTaskHasSeat, NEW s \in Sessions
    PROVE  /\ Closed(s) \in [Sessions -> SessionStatus]
           /\ Cancelled(s) \in [Sessions -> SessionStatus]
           /\ \A z \in Sessions :
                 /\ OwnsOpenTask(z) =>
                       /\ status[z] \in {"running", "blocked", "cancelled", "failed"}
                       /\ Closed(s)[z] \in {"running", "blocked", "cancelled", "failed"}
                       /\ Cancelled(s)[z] \in {"running", "blocked", "cancelled", "failed"}
                 /\ status[z] = "closed" => Closed(s)[z] = "closed" /\ Cancelled(s)[z] = "closed"
                 /\ status[z] \in {"absent", "starting"} =>
                       Closed(s)[z] = status[z] /\ Cancelled(s)[z] = status[z]
<1>1. \A z \in Sessions : OwnsOpenTask(z) => status[z] \in {"running", "blocked", "cancelled", "failed"}
    BY DEF OpenTaskHasSeat, OwnsOpenTask
<1> QED BY <1>1 DEF Closed, Cancelled, HostTypeOK, TypeOK, SessionStatus

(* What a handled exit leaves.                                             *)
LEMMA ExitWrites ==
    ASSUME HostTypeOK, OpenTaskHasSeat, NEW s \in Sessions, LostAsInterruption(s)
    PROVE  /\ status' \in [Sessions -> SessionStatus]
           /\ reason' \in [Sessions -> Reasons \cup {"none"}]
           /\ \A z \in Sessions :
                 /\ OwnsOpenTask(z) => status'[z] \in {"running", "blocked", "cancelled", "failed"}
                 /\ status[z] = "closed" => status'[z] = "closed"
                 /\ status[z] \in {"absent", "starting"} => status'[z] = status[z]
<1>1. \A z \in Sessions : OwnsOpenTask(z) => status[z] \in {"running", "blocked", "cancelled", "failed"}
    BY DEF OpenTaskHasSeat, OwnsOpenTask
<1>2. CASE OwnsOpenTask(s)
    BY <1>1, <1>2, ReasonAssumption DEF LostAsInterruption, FailRow, HostTypeOK, TypeOK,
       SessionStatus, Terminal, sessionVars, HostReasons
<1>3. CASE ~OwnsOpenTask(s)
    BY <1>3, RowWrites DEF LostAsInterruption, CloseRow, HostTypeOK, TypeOK
<1> QED BY <1>2, <1>3

-----------------------------------------------------------------------------
(* One step per action: the types, the spawning facts, the lawful rows.    *)
Kept == HostTypeOK' /\ Spawning' /\ LawfulRows

LEMMA AdmissionSteps ==
    ASSUME HostInv, NEW s \in Sessions,
           \/ Precreate(s) \/ AdmitBegin(s) \/ SpawnFails(s) \/ Spawned(s)
           \/ Ready(s) \/ NotReady(s) \/ AdmissionFailed(s)
    PROVE  Kept
<1> USE DEF HostInv, Kept, HostTypeOK, TypeOK, SessionStatus, Spawning, LawfulRows, taskVars,
            rowVars, evidenceVars, sessionVars, mapVars, kernelVars, vars, hostVars, runtimeVars
<1>0. \A z \in Sessions : OwnsOpenTask(z) => status[z] \in {"running", "blocked", "cancelled", "failed"}
    BY DEF OpenTaskHasSeat, OwnsOpenTask
<1>1. CASE Precreate(s)
    BY <1>0, <1>1 DEF Precreate, CreateSession, SetStatus
<1>2. CASE AdmitBegin(s)
    BY <1>0, <1>2 DEF AdmitBegin
<1>3. CASE SpawnFails(s)
    BY <1>0, <1>3 DEF SpawnFails
<1>4. CASE Spawned(s)
  <2>1. HostTypeOK'
    BY <1>4 DEF Spawned
  <2>2. Spawning'
    BY <1>4 DEF Spawned
  <2>3. LawfulRows
    BY <1>0, <1>4 DEF Spawned
  <2> QED BY <2>1, <2>2, <2>3
<1>5. CASE Ready(s)
  <2>1. HostTypeOK'
    BY <1>5 DEF Ready
  <2>2. Spawning'
    BY <1>5 DEF Ready
  <2>3. LawfulRows
    BY <1>0, <1>5 DEF Ready
  <2> QED BY <2>1, <2>2, <2>3
<1>6. CASE NotReady(s)
    BY <1>0, <1>6 DEF NotReady
<1>7. CASE AdmissionFailed(s)
  <2>1. CASE status[s] \in Terminal
    BY <1>0, <1>7, <2>1 DEF AdmissionFailed
  <2>2. CASE status[s] \notin Terminal
    <3>1. "native_tui_admission_failed" \in Reasons
      BY ReasonAssumption DEF HostReasons
    <3>2. /\ status' = [status EXCEPT ![s] = IF OwnsOpenTask(s) THEN "failed" ELSE "closed"]
          /\ reason' = [reason EXCEPT ![s] = "native_tui_admission_failed"]
          /\ admission' = [admission EXCEPT ![s] = "none"]
          /\ pty' = [pty EXCEPT ![s] = "gone"]
      BY <1>7, <2>2 DEF AdmissionFailed
    <3>3. UNCHANGED <<taskVars, app, mapVars, exits, teardown, cancelling, owed>>
      BY <1>7 DEF AdmissionFailed
    <3>4. HostTypeOK'
      BY <3>1, <3>2, <3>3
    <3>5. Spawning'
      BY <3>2, <3>3
    <3>6. LawfulRows
      BY <1>0, <3>2, <3>3
    <3> QED BY <3>4, <3>5, <3>6
  <2> QED BY <2>1, <2>2
<1> QED BY <1>1, <1>2, <1>3, <1>4, <1>5, <1>6, <1>7

LEMMA RuntimeSteps ==
    ASSUME HostInv, NEW s \in Sessions,
           CloseSeat(s) \/ TeardownDone(s) \/ PtyExits(s) \/ CancelBegin(s) \/ CancelEnd(s)
    PROVE  Kept
<1> USE DEF HostInv, Kept, Spawning, LawfulRows, taskVars, rowVars, evidenceVars, sessionVars,
            mapVars, kernelVars, vars, hostVars, runtimeVars
<1>0. /\ HostTypeOK /\ OpenTaskHasSeat
      /\ \A z \in Sessions : OwnsOpenTask(z) => status[z] \in {"running", "blocked", "cancelled", "failed"}
    BY DEF OpenTaskHasSeat, OwnsOpenTask
<1>1. CASE CloseSeat(s)
    BY <1>0, <1>1, RowWrites DEF CloseSeat, CloseRow, HostTypeOK, TypeOK
<1>2. CASE TeardownDone(s)
  <2>0. /\ app # "down" /\ teardown' = teardown \ {s} /\ pty' = [pty EXCEPT ![s] = "gone"]
        /\ mapped' = mapped \ {s}
        /\ UNCHANGED <<taskVars, app, live, roles, exits, cancelling, owed>>
        /\ admission' \in {admission, [admission EXCEPT ![s] = "failing"]}
    BY <1>2 DEF TeardownDone
  <2>p. pty' \in [Sessions -> {"none", "up", "gone"}] /\ \A z \in Sessions : pty'[z] = "none" => pty[z] = "none"
    BY <1>0, <2>0 DEF HostTypeOK
  <2>a. /\ admission' \in [Sessions -> {"none", "spawning", "waiting", "failing"}]
        /\ \A z \in Sessions : admission'[z] = "spawning" => admission[z] = "spawning"
    BY <1>0, <2>0 DEF HostTypeOK
  <2>r. /\ status' \in [Sessions -> SessionStatus] /\ reason' \in [Sessions -> Reasons \cup {"none"}]
        /\ \A z \in Sessions :
              /\ OwnsOpenTask(z) => status'[z] \in {"running", "blocked", "cancelled", "failed"}
              /\ status[z] = "closed" => status'[z] = "closed"
              /\ status[z] \in {"absent", "starting"} => status'[z] = status[z]
    <3>1. CASE UNCHANGED sessionVars
      BY <1>0, <3>1 DEF HostTypeOK, TypeOK
    <3>2. CASE LostAsInterruption(s)
      BY <1>0, <3>2, ExitWrites
    <3> QED BY <1>2, <3>1, <3>2 DEF TeardownDone
  <2>1. HostTypeOK'
    BY <1>0, <2>0, <2>p, <2>a, <2>r DEF HostTypeOK, TypeOK
  <2>2. \A z \in Sessions : admission'[z] = "spawning" => pty'[z] = "none"
    BY <1>0, <1>2, <2>0, <2>a DEF TeardownDone, HostTypeOK
  <2>3. Spawning'
    BY <2>0, <2>p, <2>a, <2>r, <2>2
  <2>4. LawfulRows
    BY <2>0, <2>r
  <2> QED BY <2>1, <2>3, <2>4
<1>3. CASE PtyExits(s)
    BY <1>0, <1>3 DEF PtyExits, HostTypeOK, TypeOK
<1>4. CASE CancelBegin(s)
    BY <1>0, <1>4 DEF CancelBegin, HostTypeOK, TypeOK
<1>5. CASE CancelEnd(s)
    BY <1>0, <1>5, RowWrites DEF CancelEnd, HostTypeOK, TypeOK
<1> QED BY <1>1, <1>2, <1>3, <1>4, <1>5

LEMMA ExitSteps ==
    ASSUME HostInv, NEW s \in Sessions, ExitHandled(s)
    PROVE  Kept
<1> USE DEF HostInv, Kept, Spawning, LawfulRows, taskVars, rowVars, evidenceVars, sessionVars,
            mapVars
<1>0. /\ HostTypeOK /\ OpenTaskHasSeat
      /\ \A z \in Sessions : OwnsOpenTask(z) => status[z] \in {"running", "blocked", "cancelled", "failed"}
    BY DEF OpenTaskHasSeat, OwnsOpenTask
<1>1. UNCHANGED sessionVars \/ LostAsInterruption(s)
    BY DEF ExitHandled, ExitEffect, LostAsInterruption
<1>2. /\ status' \in [Sessions -> SessionStatus] /\ reason' \in [Sessions -> Reasons \cup {"none"}]
      /\ \A z \in Sessions :
            /\ OwnsOpenTask(z) => status'[z] \in {"running", "blocked", "cancelled", "failed"}
            /\ status[z] = "closed" => status'[z] = "closed"
            /\ status[z] \in {"absent", "starting"} => status'[z] = status[z]
  <2>1. CASE UNCHANGED sessionVars
    BY <1>0, <2>1 DEF HostTypeOK, TypeOK
  <2>2. CASE LostAsInterruption(s)
    BY <1>0, <2>2, ExitWrites
  <2> QED BY <1>1, <2>1, <2>2
<1>3. live' \subseteq live /\ teardown' \subseteq teardown \cup live
    BY <1>0 DEF ExitHandled, ExitEffect
<1>4. /\ admission' \in [Sessions -> {"none", "spawning", "waiting", "failing"}]
      /\ \A z \in Sessions : admission'[z] = "spawning" => admission[z] = "spawning"
    BY <1>0 DEF ExitHandled, HostTypeOK
<1>5. /\ mapped' \subseteq mapped /\ roles' \subseteq roles /\ exits' \subseteq exits
      /\ app # "down" /\ UNCHANGED <<taskVars, app, pty, cancelling, owed>>
    BY DEF ExitHandled
<1>6. HostTypeOK'
    BY <1>0, <1>2, <1>3, <1>4, <1>5 DEF HostTypeOK, TypeOK
<1>7. Spawning'
    BY <1>2, <1>3, <1>4, <1>5
<1>8. LawfulRows
    BY <1>2, <1>5
<1> QED BY <1>6, <1>7, <1>8

LEMMA TrafficSteps ==
    ASSUME HostInv, NEW s \in Sessions, StreamFails(s) \/ ResultSent(s) \/ ResultPushed(s)
    PROVE  Kept
<1> USE DEF HostInv, Kept, Spawning, LawfulRows, taskVars, rowVars, evidenceVars, sessionVars,
            mapVars, kernelVars, vars, hostVars, runtimeVars, HostTypeOK, TypeOK
<1>0. \A z \in Sessions : OwnsOpenTask(z) => status[z] \in {"running", "blocked", "cancelled", "failed"}
    BY DEF OpenTaskHasSeat, OwnsOpenTask
<1>1. CASE StreamFails(s)
  <2> PICK why \in {"provider_stream_interrupted", "provider_unavailable"} : FailRow(s, why)
    BY <1>1 DEF StreamFails
  <2>1. why \in Reasons
    BY ReasonAssumption DEF HostReasons
  <2> QED BY <1>0, <1>1, <2>1 DEF StreamFails, FailRow, SessionStatus
<1>2. CASE ResultSent(s)
    BY <1>0, <1>2 DEF ResultSent
<1>3. CASE ResultPushed(s)
    BY <1>0, <1>3 DEF ResultPushed
<1> QED BY <1>1, <1>2, <1>3

LEMMA ProcessSteps ==
    ASSUME HostInv, Quit \/ ProcessEnds \/ Restart
    PROVE  Kept
<1> USE DEF HostInv, Kept, Spawning, LawfulRows, taskVars, rowVars, evidenceVars, sessionVars,
            mapVars, kernelVars, vars, runtimeVars, HostTypeOK, TypeOK, SessionStatus
<1>0. \A z \in Sessions : OwnsOpenTask(z) => status[z] \in {"running", "blocked", "cancelled", "failed"}
    BY DEF OpenTaskHasSeat, OwnsOpenTask
<1>r. "app_terminated" \in Reasons
    BY ReasonAssumption DEF HostReasons
<1>1. CASE Quit
  <2> PICK settled \in SUBSET live :
          /\ status' = [s \in Sessions |-> IF s \in settled THEN Disposed(s) ELSE status[s]]
          /\ reason' = [s \in Sessions |->
                IF s \in settled /\ status[s] \notin Terminal /\ OwnsOpenTask(s)
                THEN "app_terminated" ELSE reason[s]]
          /\ teardown' = teardown \cup settled
          /\ live' = live \ settled
          /\ roles' = roles \ settled
    BY <1>1 DEF Quit
  <2>1. \A z \in Sessions :
          /\ Disposed(z) \in SessionStatus
          /\ OwnsOpenTask(z) => Disposed(z) \in {"running", "blocked", "cancelled", "failed"}
          /\ status[z] = "closed" => Disposed(z) = "closed"
    BY <1>0 DEF Disposed, Terminal
  <2>2. \A z \in Sessions : admission[z] = "spawning" => z \notin settled
    OBVIOUS
  <2>3. app' = "quitting" /\ UNCHANGED <<taskVars, mapped, pty, exits, admission, cancelling, owed>>
    BY <1>1 DEF Quit
  <2>4. HostTypeOK'
    <3>1. status' \in [Sessions -> SessionStatus]
      BY <2>1
    <3>2. reason' \in [Sessions -> Reasons \cup {"none"}]
      BY <1>r
    <3> QED BY <2>3, <3>1, <3>2
  <2>5. Spawning'
    BY <2>2, <2>3
  <2>6. LawfulRows
    BY <1>0, <2>1, <2>3
  <2> QED BY <2>4, <2>5, <2>6
<1>2. CASE ProcessEnds
    BY <1>0, <1>2 DEF ProcessEnds
<1>3. CASE Restart
  <2>1. \A z \in Sessions :
          /\ Reconciled(z).status \in SessionStatus
          /\ Reconciled(z).reason \in Reasons \cup {"none"}
          /\ OwnsOpenTask(z) => Reconciled(z).status \in {"running", "blocked", "cancelled", "failed"}
          /\ status[z] = "closed" => Reconciled(z).status = "closed"
    BY <1>0, <1>r DEF Reconciled
  <2>2. /\ status' = [s \in Sessions |-> Reconciled(s).status]
        /\ reason' = [s \in Sessions |-> Reconciled(s).reason]
        /\ app = "down" /\ app' = "up" /\ UNCHANGED <<taskVars, mapVars, runtimeVars, owed>>
    BY <1>3 DEF Restart
  <2>3. /\ status' \in [Sessions -> SessionStatus]
        /\ reason' \in [Sessions -> Reasons \cup {"none"}]
    BY <2>1, <2>2
  <2>4. HostTypeOK'
    BY <2>2, <2>3
  <2>5. Spawning'
    BY <2>2
  <2>6. LawfulRows
    BY <2>1, <2>2
  <2> QED BY <2>4, <2>5, <2>6
<1> QED BY <1>1, <1>2, <1>3

-----------------------------------------------------------------------------
(* The invariant of the host, and what it shows of the rows. *)

LEMMA SeatSteps ==
    ASSUME HostInv, NEW s \in Sessions, SeatStep(s)
    PROVE  Kept
BY AdmissionSteps, RuntimeSteps, ExitSteps, TrafficSteps DEF SeatStep

(* A kernel command of an agent or the operator moves no row.              *)
LEMMA CommandKeepsRows ==
    ASSUME KernelCommand
    PROVE  UNCHANGED <<status, hostVars>>
<1>1. UNCHANGED hostVars /\ TaskStep
    BY DEF KernelCommand
<1>2. UNCHANGED status
  <2> USE DEF CreateTask, SteerTask, ReassignTask, CancelTask, ResumeTask, MayResume, Resumed, SecondOpinion,
              CompleteTask, OpenTask, sessionVars
  <2> PICK t \in Tasks :
        \/ \E d, s \in Sessions : CreateTask(t, d, s)
        \/ \E d \in Sessions : SteerTask(t, d)
        \/ \E d, s \in Sessions : ReassignTask(t, d, s)
        \/ \E d \in Sessions : CancelTask(t, d)
        \/ \E c, s \in Sessions, a \in Attempts : ResumeTask(t, c, s, a)
        \/ \E d, c \in Sessions, r \in Tasks : SecondOpinion(t, d, c, r)
        \/ \E s \in Sessions, a \in Artifacts : CompleteTask(t, s, a)
    BY <1>1, Zenon DEF TaskStep
  <2> QED OBVIOUS
<1> QED BY <1>1, <1>2

LEMMA CommandSteps ==
    ASSUME HostInv, KernelCommand
    PROVE  HostInv'
<1>1. TypeOK' /\ OpenTaskHasSeat'
    BY TaskTypes, SeatAfterTaskStep DEF HostInv, HostTypeOK, KernelCommand
<1> QED BY <1>1, CommandKeepsRows DEF HostInv, HostTypeOK, Spawning, hostVars, mapVars, runtimeVars

LEMMA HostInvariant == HostSpec => []HostInv
<1>1. HostInit => HostInv
    BY DEF HostInit, HostInv, HostTypeOK, Spawning, Init, TypeOK, SessionStatus, TaskStatus,
           OpenTaskHasSeat
<1>2. HostInv /\ [HostNext]_allVars => HostInv'
  <2> SUFFICES ASSUME HostInv, [HostNext]_allVars PROVE HostInv'
    OBVIOUS
  <2>1. CASE UNCHANGED allVars
    BY <2>1 DEF HostInv, HostTypeOK, TypeOK, OpenTaskHasSeat, Spawning, allVars, vars, hostVars,
       mapVars, runtimeVars
  <2>2. CASE KernelCommand
    BY <2>2, CommandSteps
  <2>3. CASE (\E s \in Sessions : SeatStep(s)) \/ Quit \/ ProcessEnds \/ Restart
    <3>1. Kept
      BY <2>3, SeatSteps, ProcessSteps
    <3> QED BY <3>1, LawfulKeepsSeat DEF HostInv, Kept
  <2> QED BY <2>1, <2>2, <2>3 DEF HostNext
<1> QED BY <1>1, <1>2, PTL DEF HostSpec

(* The variables of the host and of the kernel under it keep their types.  *)
THEOREM HostTypeCorrect == HostSpec => []HostTypeOK
BY HostInvariant, PTL DEF HostInv

(* No close, cancel, exit, failed admission, shutdown, crash or restart    *)
(* leaves an open Task with an owner whose row was closed.                 *)
THEOREM HostKeepsSeat == HostSpec => []OpenTaskHasSeat
BY HostInvariant, PTL DEF HostInv

(* The host implements the ledger of responsibility: what it does to rows  *)
(* retires seats, and never one that owns open work.                       *)
THEOREM HostImplementsLedger == HostSpec => ImplementsLedger
<1>1. HostInit => Ledger!LedgerInit
    BY DEF HostInit, Init, Ledger!LedgerInit
<1>2. HostInv /\ [HostNext]_allVars => [Ledger!LedgerNext]_(Ledger!ledgerVars)
  <2> SUFFICES ASSUME HostInv, [HostNext]_allVars PROVE [Ledger!LedgerNext]_(Ledger!ledgerVars)
    OBVIOUS
  <2>1. CASE UNCHANGED allVars
    BY <2>1 DEF allVars, vars, Ledger!ledgerVars
  <2>2. CASE KernelCommand
    BY <2>2, TaskStepRefines DEF KernelCommand, HostInv, HostTypeOK
  <2>3. CASE (\E s \in Sessions : SeatStep(s)) \/ Quit \/ ProcessEnds \/ Restart
    <3>1. Kept
      BY <2>3, SeatSteps, ProcessSteps
    <3> QED BY <3>1, LawfulRetires DEF Kept
  <2> QED BY <2>1, <2>2, <2>3 DEF HostNext
<1> QED BY <1>1, <1>2, HostInvariant, PTL DEF HostSpec, ImplementsLedger, Ledger!LedgerSpec

(* The host writes no event and no Task: what it does to sessions leaves   *)
(* the history to the commands.                                            *)
LEMMA HostStepAccounted ==
    HostInv /\ [HostNext]_allVars => Accounted
<1> SUFFICES ASSUME HostInv, [HostNext]_allVars PROVE Accounted
    OBVIOUS
<1>0. TypeOK
    BY DEF HostInv, HostTypeOK
<1>1. CASE UNCHANGED allVars
    BY <1>0, <1>1, NoEvent DEF allVars, vars, rowVars
<1>2. CASE KernelCommand
    BY <1>0, <1>2, TaskStepAccounted DEF KernelCommand
<1>3. CASE (\E s \in Sessions : SeatStep(s)) \/ Quit \/ ProcessEnds \/ Restart
    <2>1. Kept
      BY <1>3, SeatSteps, ProcessSteps
    <2> QED BY <1>0, <2>1, NoEvent DEF Kept, LawfulRows, taskVars
<1> QED BY <1>1, <1>2, <1>3 DEF HostNext

(* Under crashes, restarts, cancels and lost terminals, too, the history   *)
(* reads back as a chain of owners and names who was in charge, and what   *)
(* is settled stays so.                                                    *)
THEOREM HostKeepsHistory ==
    HostSpec => [](HandoverChain /\ AuthorityTraceable /\ FinalStaysFinal)
<1>1. HostInit => HistoryInv /\ Finals
    BY HistoryStart DEF HostInit, Init, Finals, FinalOf, SettledBy, QuietAfter
<1>2. HostInv /\ HistoryInv /\ Finals /\ [HostNext]_allVars => HistoryInv' /\ Finals'
  <2> SUFFICES ASSUME HostInv, HistoryInv, Finals, [HostNext]_allVars PROVE HistoryInv' /\ Finals'
    OBVIOUS
  <2>1. Accounted /\ TypeOK
    BY HostStepAccounted DEF HostInv, HostTypeOK
  <2> QED BY <2>1, HistoryKept, AccountedRecorded, FinalKept DEF Finals, TypeOK
<1>3. HistoryInv /\ Finals => HandoverChain /\ AuthorityTraceable /\ FinalStaysFinal
    BY DEF HistoryInv, Chained, OwnerNamed, HandoverChain, Finals, FinalOf, SettledBy, QuietAfter,
       FinalStaysFinal, Aside
<1> QED BY <1>1, <1>2, <1>3, HostInvariant, PTL DEF HostSpec
-----------------------------------------------------------------------------
(* The seats and their rows.  That a live row is not settled rests on      *)
(* where its admission stands: one that waits for readiness has a row not  *)
(* yet started, one that is failing has left the live map, and a result is *)
(* owed only to a seat that was started, so the exit of a waiting terminal *)
(* is never kept from closing its seat.  A seat being cancelled is out of  *)
(* ptyToKernel, so nothing its terminal reports reaches the row.           *)
Seated ==
    /\ app = "down" => live = {} /\ \A s \in Sessions : admission[s] # "waiting"
    /\ \A s \in live : status[s] # "absent"
    /\ mapped \cap cancelling = {}
    /\ \A s \in owed : status[s] \notin {"absent", "starting"}
    /\ \A s \in Sessions :
          /\ admission[s] = "waiting" => status[s] = "starting"
          /\ admission[s] = "failing" => s \notin live

LiveInv == HostInv /\ Seated /\ LiveSeatNotSettled
LiveKept == Seated' /\ LiveSeatNotSettled'

(* Only a running or blocked row owns open work and is not yet settled.    *)
LEMMA OwnersRun ==
    ASSUME HostInv
    PROVE  \A s \in Sessions :
              OwnsOpenTask(s) => status[s] \in {"running", "blocked"} \cup Terminal
BY DEF HostInv, OpenTaskHasSeat, OwnsOpenTask, Terminal

(* The row a write touches is that of the seat it names, and a row not yet *)
(* started is left alone.                                                  *)
LEMMA OneRow ==
    ASSUME HostInv, NEW s \in Sessions,
           \/ UNCHANGED sessionVars \/ LostAsInterruption(s) \/ CloseRow(s)
           \/ status' = Cancelled(s)
    PROVE  \A z \in Sessions :
              /\ z # s => status'[z] = status[z]
              /\ status[z] \in {"absent", "starting"} => status'[z] = status[z]
              /\ status'[z] \in {"absent", "starting"} => status'[z] = status[z]
BY OwnersRun DEF LostAsInterruption, FailRow, CloseRow, Closed, Cancelled, HostInv, HostTypeOK, TypeOK,
   sessionVars, Terminal

LEMMA SeatAdmissionSteps ==
    ASSUME LiveInv, NEW s \in Sessions,
           \/ Precreate(s) \/ AdmitBegin(s) \/ SpawnFails(s) \/ Spawned(s)
           \/ Ready(s) \/ NotReady(s) \/ AdmissionFailed(s)
    PROVE  LiveKept
<1> USE DEF LiveInv, LiveKept, Seated, LiveSeatNotSettled, Terminal, HostInv, HostTypeOK, TypeOK,
            Spawning, sessionVars, mapVars, kernelVars, vars, hostVars, runtimeVars
<1>1. CASE Precreate(s)
    BY <1>1 DEF Precreate, CreateSession, SetStatus
<1>2. CASE AdmitBegin(s)
    BY <1>2 DEF AdmitBegin
<1>3. CASE SpawnFails(s)
    BY <1>3 DEF SpawnFails
<1>4. CASE Spawned(s)
  <2>1. Seated'
    BY <1>4 DEF Spawned
  <2>2. LiveSeatNotSettled'
    BY <1>4 DEF Spawned
  <2> QED BY <2>1, <2>2
<1>5. CASE Ready(s)
  <2>1. Seated'
    BY <1>5 DEF Ready
  <2>2. LiveSeatNotSettled'
    BY <1>5 DEF Ready
  <2> QED BY <2>1, <2>2
<1>6. CASE NotReady(s)
    BY <1>6 DEF NotReady
<1>7. CASE AdmissionFailed(s)
  <2>1. /\ app # "down" /\ s \notin live /\ admission[s] = "failing"
        /\ admission' = [admission EXCEPT ![s] = "none"]
        /\ UNCHANGED <<app, live, mapped, teardown, cancelling, owed>>
    BY <1>7 DEF AdmissionFailed
  <2>2. \A z \in Sessions :
           /\ z # s => status'[z] = status[z]
           /\ status'[z] \in {"absent", "starting"} => status'[z] = status[z]
    BY <1>7 DEF AdmissionFailed
  <2> QED BY <2>1, <2>2
<1> QED BY <1>1, <1>2, <1>3, <1>4, <1>5, <1>6, <1>7

LEMMA SeatRuntimeSteps ==
    ASSUME LiveInv, NEW s \in Sessions,
           CloseSeat(s) \/ TeardownDone(s) \/ PtyExits(s) \/ CancelBegin(s) \/ CancelEnd(s)
    PROVE  LiveKept
<1> USE DEF LiveInv, LiveKept, Seated, LiveSeatNotSettled
<1>1. CASE CloseSeat(s)
    BY <1>1, OneRow DEF CloseSeat, HostInv, HostTypeOK
<1>2. CASE TeardownDone(s)
  <2>1. \A z \in Sessions :
              /\ z # s => status'[z] = status[z]
              /\ status[z] \in {"absent", "starting"} => status'[z] = status[z]
              /\ status'[z] \in {"absent", "starting"} => status'[z] = status[z]
    BY <1>2, OneRow DEF TeardownDone
  <2>2. /\ s \in teardown /\ teardown' = teardown \ {s} /\ mapped' = mapped \ {s}
        /\ UNCHANGED <<app, live, cancelling, owed>>
        /\ \A z \in Sessions : /\ admission'[z] = "waiting" => admission[z] = "waiting"
                               /\ admission'[z] = "failing" => admission[z] = "failing" \/ z = s
    BY <1>2 DEF TeardownDone, HostInv, HostTypeOK
  <2> QED BY <2>1, <2>2 DEF HostInv, HostTypeOK
<1>3. CASE PtyExits(s)
    BY <1>3 DEF PtyExits, kernelVars, vars, sessionVars, mapVars
<1>4. CASE CancelBegin(s)
    BY <1>4 DEF CancelBegin, kernelVars, vars, sessionVars
<1>5. CASE CancelEnd(s)
    BY <1>5, OneRow DEF CancelEnd, HostInv, HostTypeOK
<1> QED BY <1>1, <1>2, <1>3, <1>4, <1>5

LEMMA SeatExitSteps ==
    ASSUME LiveInv, NEW s \in Sessions, ExitHandled(s)
    PROVE  LiveKept
<1> USE DEF LiveInv, LiveKept, Seated, LiveSeatNotSettled
<1>1. \A z \in Sessions :
              /\ z # s => status'[z] = status[z]
              /\ status[z] \in {"absent", "starting"} => status'[z] = status[z]
              /\ status'[z] \in {"absent", "starting"} => status'[z] = status[z]
    BY OneRow DEF ExitHandled, ExitEffect
<1>2. mapped' \subseteq mapped /\ UNCHANGED <<app, cancelling, owed>> /\ app # "down"
    BY DEF ExitHandled
<1>3. \/ UNCHANGED <<live, teardown, admission, sessionVars>>
      \/ /\ live' = live \ {s}
         /\ teardown' \subseteq teardown \cup {s}
         /\ \A z \in Sessions : /\ admission'[z] = "waiting" => admission[z] = "waiting"
                                /\ admission'[z] = "failing" => admission[z] = "failing" \/ z = s
      \/ UNCHANGED <<live, teardown, sessionVars>> /\ s \in owed /\ UNCHANGED admission
    BY DEF ExitHandled, ExitEffect, HostInv, HostTypeOK
<1> QED BY <1>1, <1>2, <1>3 DEF HostInv, HostTypeOK, sessionVars

LEMMA SeatTrafficSteps ==
    ASSUME LiveInv, NEW s \in Sessions, StreamFails(s) \/ ResultSent(s) \/ ResultPushed(s)
    PROVE  LiveKept
<1> USE DEF LiveInv, LiveKept, Seated, LiveSeatNotSettled, HostInv, HostTypeOK, TypeOK,
            sessionVars, mapVars, kernelVars, vars, runtimeVars
<1>1. CASE StreamFails(s)
    BY <1>1 DEF StreamFails, FailRow, Terminal
<1>2. CASE ResultSent(s)
    BY <1>2 DEF ResultSent
<1>3. CASE ResultPushed(s)
    BY <1>3 DEF ResultPushed
<1> QED BY <1>1, <1>2, <1>3

LEMMA SeatProcessSteps ==
    ASSUME LiveInv, Quit \/ ProcessEnds \/ Restart
    PROVE  LiveKept
<1> USE DEF LiveInv, LiveKept, Seated, LiveSeatNotSettled, HostInv, HostTypeOK, TypeOK
<1>1. CASE Quit
  <2> PICK settled \in SUBSET live :
          /\ \A s \in settled : status[s] = "starting" => OwnsOpenTask(s)
          /\ status' = [s \in Sessions |-> IF s \in settled THEN Disposed(s) ELSE status[s]]
          /\ teardown' = teardown \cup settled
          /\ live' = live \ settled
    BY <1>1 DEF Quit
  <2>1. \A z \in settled : status[z] # "starting" /\ Disposed(z) \in Terminal
    BY OwnersRun DEF Disposed, Terminal
  <2>2. app' = "quitting" /\ UNCHANGED <<mapped, admission, cancelling, owed>>
    BY <1>1 DEF Quit
  <2> QED BY <2>1, <2>2 DEF Terminal
<1>2. CASE ProcessEnds
    BY <1>2 DEF ProcessEnds, kernelVars, vars, sessionVars
<1>3. CASE Restart
  <2>1. /\ live' = {} /\ app' = "up" /\ UNCHANGED <<mapped, admission, cancelling, owed>>
        /\ status' = [s \in Sessions |-> Reconciled(s).status]
    BY <1>3 DEF Restart, mapVars, runtimeVars
  <2>2. \A z \in Sessions : status'[z] \in {"absent", "starting"} => status[z] = "absent"
    BY <2>1 DEF Reconciled
  <2> QED BY <1>3, <2>1, <2>2 DEF Restart
<1> QED BY <1>1, <1>2, <1>3

LEMMA LiveInvariant == HostSpec => []LiveInv
<1>1. HostInit => Seated /\ LiveSeatNotSettled
    BY DEF HostInit, Seated, LiveSeatNotSettled
<1>2. LiveInv /\ [HostNext]_allVars => LiveKept
  <2> SUFFICES ASSUME LiveInv, [HostNext]_allVars PROVE LiveKept
    OBVIOUS
  <2>1. CASE UNCHANGED allVars
    BY <2>1 DEF LiveInv, LiveKept, Seated, LiveSeatNotSettled, allVars, vars, sessionVars, hostVars,
       mapVars, runtimeVars
  <2>2. CASE KernelCommand
    <3>1. UNCHANGED <<status, hostVars>>
      BY <2>2, CommandKeepsRows
    <3> QED BY <3>1 DEF LiveInv, LiveKept, Seated, LiveSeatNotSettled, hostVars, mapVars, runtimeVars
  <2>3. CASE \E s \in Sessions : SeatStep(s)
    BY <2>3, SeatAdmissionSteps, SeatRuntimeSteps, SeatExitSteps, SeatTrafficSteps DEF SeatStep
  <2>4. CASE Quit \/ ProcessEnds \/ Restart
    BY <2>4, SeatProcessSteps
  <2> QED BY <2>1, <2>2, <2>3, <2>4 DEF HostNext
<1> QED BY <1>1, <1>2, HostInvariant, PTL DEF HostSpec, LiveInv, LiveKept

(* No close, cancel, exit, failed stream, failed admission or shutdown     *)
(* leaves in the live map a seat whose row is settled, nor one that is     *)
(* already being torn down.                                                *)
THEOREM LiveSeatsAreOpen == HostSpec => []LiveSeatNotSettled
BY LiveInvariant, PTL DEF LiveInv

-----------------------------------------------------------------------------
(* Who fails a row, and with which reason. *)

(* A seat step fails the row of a seat as interrupted only when the        *)
(* terminal is in ptyToKernel or its stream failed; neither is so of a     *)
(* seat being cancelled.                                                   *)
CancelUnmistaken ==
    \A s \in cancelling :
          status'[s] = "failed" /\ status[s] # "failed"
             => reason'[s] # "provider_stream_interrupted"

LEMMA CancelSeatSteps ==
    ASSUME LiveInv, NEW s \in Sessions, SeatStep(s)
    PROVE  CancelUnmistaken
<1> SUFFICES ASSUME NEW z \in cancelling, status'[z] = "failed", status[z] # "failed"
    PROVE  reason'[z] # "provider_stream_interrupted"
    BY DEF CancelUnmistaken
<1>0. /\ status \in [Sessions -> SessionStatus] /\ reason \in [Sessions -> Reasons \cup {"none"}]
      /\ z \in Sessions /\ z \notin mapped
    BY DEF LiveInv, Seated, HostInv, HostTypeOK, TypeOK
<1>1. CASE \/ Precreate(s) \/ AdmitBegin(s) \/ SpawnFails(s) \/ Spawned(s) \/ Ready(s) \/ NotReady(s)
    BY <1>0, <1>1 DEF Precreate, CreateSession, SetStatus, AdmitBegin, SpawnFails, Spawned, Ready, NotReady,
       kernelVars, vars, sessionVars
<1>2. CASE AdmissionFailed(s)
    BY <1>0, <1>2 DEF AdmissionFailed, sessionVars
<1>3. CASE CloseSeat(s) \/ PtyExits(s) \/ CancelBegin(s) \/ CancelEnd(s)
    BY <1>0, <1>3 DEF CloseSeat, CloseRow, Closed, PtyExits, CancelBegin, CancelEnd, Cancelled,
       kernelVars, vars, sessionVars
<1>4. CASE TeardownDone(s) \/ ExitHandled(s)
  <2>1. UNCHANGED sessionVars \/ (s \in mapped /\ (LostAsInterruption(s) \/ CloseRow(s)))
    BY <1>4 DEF TeardownDone, ExitHandled, ExitEffect
  <2>2. z # s => status'[z] = status[z]
    BY <1>0, <2>1, OneRow DEF LiveInv
  <2> QED BY <1>0, <2>1, <2>2 DEF sessionVars
<1>5. CASE StreamFails(s) \/ ResultSent(s) \/ ResultPushed(s)
    BY <1>0, <1>5 DEF StreamFails, FailRow, ResultSent, ResultPushed, kernelVars, vars, sessionVars
<1> QED BY <1>1, <1>2, <1>3, <1>4, <1>5 DEF SeatStep

(* Whatever the dying terminal of a seat being cancelled reports, and      *)
(* however the kill, the exit, a shutdown and a crash fall, the row is not *)
(* recorded as lost to its provider stream.                                *)
THEOREM CancelIsNotLoss == HostSpec => CancelNotMistakenForLoss
<1>1. LiveInv /\ [HostNext]_allVars => [CancelUnmistaken]_allVars
  <2> SUFFICES ASSUME LiveInv, HostNext PROVE CancelUnmistaken
    OBVIOUS
  <2>1. CASE \E s \in Sessions : SeatStep(s)
    BY <2>1, CancelSeatSteps
  <2>2. CASE Quit
    <3> PICK settled \in SUBSET live :
          /\ status' = [s \in Sessions |-> IF s \in settled THEN Disposed(s) ELSE status[s]]
          /\ reason' = [s \in Sessions |->
                IF s \in settled /\ status[s] \notin Terminal /\ OwnsOpenTask(s)
                THEN "app_terminated" ELSE reason[s]]
      BY <2>2 DEF Quit
    <3> QED BY DEF Disposed, CancelUnmistaken, LiveInv, HostInv, HostTypeOK, Terminal
  <2>3. CASE ProcessEnds \/ KernelCommand
    <3>1. UNCHANGED status
      BY <2>3, CommandKeepsRows DEF ProcessEnds, kernelVars, vars, sessionVars, LiveInv
    <3> QED BY <3>1 DEF CancelUnmistaken
  <2>4. CASE Restart
    BY <2>4 DEF Restart, Reconciled, CancelUnmistaken, LiveInv, HostInv, HostTypeOK
  <2> QED BY <2>1, <2>2, <2>3, <2>4 DEF HostNext
<1> QED BY <1>1, LiveInvariant, PTL DEF HostSpec, CancelNotMistakenForLoss, CancelUnmistaken

(* Whatever the shutdown did to the rows before it stopped, all the live   *)
(* seats or those before the first one still starting, the next start      *)
(* finds and leaves each row as it would have after a crash.               *)
THEOREM OrderlyQuitIsACrash == HostSpec => QuitMatchesCrash
<1>1. ASSUME LiveInv, [HostNext]_allVars, app = "up", app' = "quitting", NEW s \in Sessions
      PROVE  /\ Reconciled(s)'.status = Reconciled(s).status
             /\ OwnsOpenTask(s) => Reconciled(s)'.reason = Reconciled(s).reason
  <2>1. Quit
    <3>1. ASSUME NEW z \in Sessions PROVE ~SeatStep(z)
      BY <1>1 DEF SeatStep, Precreate, AdmitBegin, SpawnFails, Spawned, Ready, NotReady, AdmissionFailed,
         CloseSeat, TeardownDone, PtyExits, ExitHandled, StreamFails, CancelBegin, CancelEnd,
         ResultSent, ResultPushed, hostVars
    <3>2. ~KernelCommand /\ ~(UNCHANGED allVars)
      BY <1>1 DEF KernelCommand, hostVars, allVars
    <3>3. ~ProcessEnds /\ ~Restart
      BY <1>1 DEF ProcessEnds, Restart
    <3> QED BY <1>1, <3>1, <3>2, <3>3 DEF HostNext
  <2> PICK settled \in SUBSET live :
        /\ status' = [z \in Sessions |-> IF z \in settled THEN Disposed(z) ELSE status[z]]
        /\ reason' = [z \in Sessions |->
              IF z \in settled /\ status[z] \notin Terminal /\ OwnsOpenTask(z)
              THEN "app_terminated" ELSE reason[z]]
    BY <2>1 DEF Quit
  <2>2. OwnsOpenTask(s)' <=> OwnsOpenTask(s)
    BY <2>1 DEF Quit, taskVars, rowVars, OwnsOpenTask
  <2>3. OwnsOpenTask(s) => status[s] \in {"running", "blocked", "cancelled", "failed"}
    BY <1>1 DEF LiveInv, HostInv, OpenTaskHasSeat, OwnsOpenTask
  <2>4. s \in settled => status[s] \in {"starting", "running", "blocked"} /\ status[s] \notin Terminal
    BY <1>1 DEF LiveInv, Seated, LiveSeatNotSettled, HostInv, HostTypeOK, TypeOK, SessionStatus, Terminal
  <2>5. status'[s] = (IF s \in settled THEN IF OwnsOpenTask(s) THEN "failed" ELSE "closed" ELSE status[s])
    BY <2>4 DEF Disposed
  <2>6. reason'[s] = (IF s \in settled /\ OwnsOpenTask(s) THEN "app_terminated" ELSE reason[s])
    BY <2>4
  <2>7. CASE OwnsOpenTask(s)
    BY <2>2, <2>3, <2>4, <2>5, <2>6, <2>7 DEF Reconciled
  <2>8. CASE ~OwnsOpenTask(s)
    BY <2>2, <2>4, <2>5, <2>6, <2>8 DEF Reconciled
  <2> QED BY <2>7, <2>8
<1>2. LiveInv /\ [HostNext]_allVars =>
        [app = "up" /\ app' = "quitting" =>
          \A s \in Sessions :
             /\ Reconciled(s)'.status = Reconciled(s).status
             /\ OwnsOpenTask(s) => Reconciled(s)'.reason = Reconciled(s).reason]_allVars
  BY <1>1
<1> QED BY <1>2, LiveInvariant, PTL DEF HostSpec, QuitMatchesCrash
=============================================================================
