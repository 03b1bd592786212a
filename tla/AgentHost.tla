----------------------------- MODULE AgentHost ------------------------------
(***************************************************************************)
(* The Electron host's ownership of native-TUI runtimes (agent-host.ts,    *)
(* host-native-tui.ts, native-tui-orchestration.ts) over the kernel's rows.*)
(*                                                                         *)
(* Host code runs to its next await as one step; between an await and its  *)
(* continuation anything else may happen: an exit of the pseudo-terminal,  *)
(* a close or cancel by the operator, a kernel command of an agent, the    *)
(* end of the application.  The maps die with the process, the rows do not.*)
(***************************************************************************)
EXTENDS TaskKernel

CONSTANT Role       \* the peer role each session is admitted under

(* The reasons this host gives for failing a row.                          *)
HostReasons == {"provider_stream_interrupted", "provider_unavailable", "app_terminated",
                "native_tui_admission_failed"}
ASSUME ReasonAssumption == HostReasons \subseteq Reasons

VARIABLES
    app,        \* the process: "up", "quitting" (disposed, not yet gone), "down"
    live,       \* agent-host's live map
    roles,      \* sessions whose terminal is registered for its peer role
    mapped,     \* sessions whose terminal is in ptyToKernel
    pty,        \* the terminal's process
    exits,      \* exit events of terminals not yet handed to the listeners
    admission,  \* where orchestrateNativeTuiAdmission stands
    teardown,   \* the teardown registry's inFlight
    cancelling, \* cancelAgentSession awaiting the kill
    owed        \* sessions with an undelivered result on the peer bus

mapVars == <<live, roles, mapped>>
runtimeVars == <<pty, exits, admission, teardown, cancelling>>
hostVars == <<app, mapVars, runtimeVars, owed>>
kernelVars == vars
allVars == <<vars, hostVars>>
taskVars == <<rowVars, evidenceVars, log>>

HostTypeOK ==
    /\ TypeOK
    /\ app \in {"up", "quitting", "down"}
    /\ live \in SUBSET Sessions /\ roles \in SUBSET Sessions /\ mapped \in SUBSET Sessions
    /\ pty \in [Sessions -> {"none", "up", "gone"}]
    /\ exits \in SUBSET Sessions
    /\ admission \in [Sessions -> {"none", "spawning", "waiting", "failing"}]
    /\ teardown \in SUBSET Sessions /\ cancelling \in SUBSET Sessions
    /\ owed \in SUBSET Sessions

HostInit ==
    /\ Init
    /\ app = "up"
    /\ live = {} /\ roles = {} /\ mapped = {}
    /\ pty = [s \in Sessions |-> "none"]
    /\ exits = {}
    /\ admission = [s \in Sessions |-> "none"]
    /\ teardown = {} /\ cancelling = {}
    /\ owed = {}

-----------------------------------------------------------------------------
(* What the host's kernel commands make of a row; refusals it swallows.    *)

Terminal == {"cancelled", "failed", "closed"}
Closed(s) ==
    IF status[s] \in {"running", "cancelled", "failed"} /\ ~OwnsOpenTask(s)
    THEN [status EXCEPT ![s] = "closed"] ELSE status
Cancelled(s) ==
    IF status[s] \in {"running", "blocked"} THEN [status EXCEPT ![s] = "cancelled"] ELSE status

FailRow(s, why) ==
    /\ status' = [status EXCEPT ![s] = "failed"]
    /\ reason' = [reason EXCEPT ![s] = why]
CloseRow(s) ==
    /\ status' = Closed(s)
    /\ UNCHANGED reason

RoleFree(s) == \A r \in roles : Role[r] # Role[s]

-----------------------------------------------------------------------------
(* Admission.  A row may be created ahead of it (a gateway's delegation).  *)

Precreate(s) ==
    /\ app = "up" /\ CreateSession(s)
    /\ UNCHANGED hostVars

AdmitBegin(s) ==
    /\ app = "up" /\ admission[s] = "none" /\ pty[s] = "none"
    /\ status[s] \in {"absent", "starting"}
    /\ RoleFree(s)
    /\ admission' = [admission EXCEPT ![s] = "spawning"]
    /\ UNCHANGED <<kernelVars, app, mapVars, pty, exits, teardown, cancelling, owed>>

(* createPty threw: nothing is owned, a precreated row stays as it is.     *)
SpawnFails(s) ==
    /\ app # "down" /\ admission[s] = "spawning"
    /\ admission' = [admission EXCEPT ![s] = "none"]
    /\ UNCHANGED <<kernelVars, app, mapVars, pty, exits, teardown, cancelling, owed>>

(* The terminal is up: the maps, the row, then the role, which another     *)
(* admission may have taken during the await.                              *)
Spawned(s) ==
    /\ app # "down" /\ admission[s] = "spawning"
    /\ pty' = [pty EXCEPT ![s] = "up"]
    /\ status' = [status EXCEPT ![s] = "starting"]
    /\ IF RoleFree(s)
       THEN /\ live' = live \cup {s} /\ roles' = roles \cup {s} /\ mapped' = mapped \cup {s}
            /\ admission' = [admission EXCEPT ![s] = "waiting"]
       ELSE /\ UNCHANGED mapVars
            /\ admission' = [admission EXCEPT ![s] = "failing"]
    /\ UNCHANGED <<reason, taskVars, app, exits, teardown, cancelling, owed>>

(* The readiness marks arrived and the row is started; beforeActivation    *)
(* and activateMission may still throw.                                    *)
Ready(s) ==
    /\ app # "down" /\ admission[s] = "waiting" /\ status[s] = "starting"
    /\ status' = [status EXCEPT ![s] = "running"]
    /\ \/ admission' = [admission EXCEPT ![s] = "none"] /\ UNCHANGED mapVars
       \/ /\ admission' = [admission EXCEPT ![s] = "failing"]
          /\ live' = live \ {s} /\ roles' = roles \ {s} /\ mapped' = mapped \ {s}
    /\ UNCHANGED <<reason, taskVars, app, pty, exits, teardown, cancelling, owed>>

(* Readiness timed out, or the start was refused: the maps are released at *)
(* once, the terminal and the row after terminatePty.                      *)
NotReady(s) ==
    /\ app # "down" /\ admission[s] = "waiting"
    /\ admission' = [admission EXCEPT ![s] = "failing"]
    /\ live' = live \ {s} /\ roles' = roles \ {s} /\ mapped' = mapped \ {s}
    /\ UNCHANGED <<kernelVars, app, pty, exits, teardown, cancelling, owed>>

AdmissionFailed(s) ==
    /\ app # "down" /\ admission[s] = "failing"
    /\ admission' = [admission EXCEPT ![s] = "none"]
    /\ pty' = [pty EXCEPT ![s] = "gone"]
    /\ IF status[s] \in Terminal THEN UNCHANGED sessionVars
       ELSE /\ status' = [status EXCEPT ![s] = IF OwnsOpenTask(s) THEN "failed" ELSE "closed"]
            /\ reason' = [reason EXCEPT ![s] = "native_tui_admission_failed"]
    /\ UNCHANGED <<taskVars, app, mapVars, exits, teardown, cancelling, owed>>

-----------------------------------------------------------------------------
(* Close: closeAgentSessionRow over the teardown registry.                 *)

(* The undelivered result and the open Task each refuse the close whole.   *)
CloseSeat(s) ==
    /\ app # "down"
    /\ ~OwnsOpenTask(s)
    /\ s \in live => s \notin owed
    /\ CloseRow(s)
    /\ teardown' = IF s \in live THEN teardown \cup {s} ELSE teardown
    /\ live' = live \ {s}
    /\ roles' = IF s \in live THEN roles \ {s} ELSE roles
    /\ UNCHANGED <<taskVars, app, mapped, pty, exits, admission, cancelling, owed>>

(* The row a handled exit leaves: an unfinished owner failed, else closed. *)
LostAsInterruption(s) ==
    IF OwnsOpenTask(s)
    THEN IF status[s] \in Terminal THEN UNCHANGED sessionVars
         ELSE FailRow(s, "provider_stream_interrupted")
    ELSE CloseRow(s)

(* killSession returned.  A sidecar kill reports the exit itself, before   *)
(* the maps are released; a local one has no listener left to report it.   *)
TeardownDone(s) ==
    /\ app # "down" /\ s \in teardown
    /\ teardown' = teardown \ {s}
    /\ pty' = [pty EXCEPT ![s] = "gone"]
    /\ mapped' = mapped \ {s}
    /\ \/ UNCHANGED <<sessionVars, admission>>
       \/ /\ s \in mapped
          /\ LostAsInterruption(s)
          /\ admission' \in
                {admission,
                 IF admission[s] = "waiting" THEN [admission EXCEPT ![s] = "failing"] ELSE admission}
    /\ UNCHANGED <<taskVars, app, live, roles, exits, cancelling, owed>>

-----------------------------------------------------------------------------
(* Exit of a terminal, in two steps: the process ends, the event arrives.  *)

PtyExits(s) ==
    /\ app # "down" /\ pty[s] = "up"
    /\ pty' = [pty EXCEPT ![s] = "gone"]
    /\ exits' = exits \cup {s}
    /\ UNCHANGED <<kernelVars, app, mapVars, admission, teardown, cancelling, owed>>

(* handleNativeTuiPtyExit: a dead owner is failed and torn down by force;  *)
(* any other seat is closed unless its undelivered result refuses that.    *)
ExitEffectCloses(s) ==
    IF OwnsOpenTask(s) \/ (s \in live /\ s \in owed)
    THEN UNCHANGED <<sessionVars, teardown, live>>
    ELSE /\ CloseRow(s)
         /\ teardown' = IF s \in live THEN teardown \cup {s} ELSE teardown
         /\ live' = live \ {s}
ExitEffect(s) ==
    IF OwnsOpenTask(s)
    THEN /\ LostAsInterruption(s)
         /\ teardown' = IF s \in live THEN teardown \cup {s} ELSE teardown
         /\ live' = live \ {s}
    ELSE IF s \in live /\ s \in owed
    THEN UNCHANGED <<sessionVars, teardown, live>>
    ELSE /\ CloseRow(s)
         /\ teardown' = IF s \in live THEN teardown \cup {s} ELSE teardown
         /\ live' = live \ {s}

ExitHandled(s) ==
    /\ app # "down" /\ s \in exits
    /\ exits' = exits \ {s}
    /\ mapped' = mapped \ {s}
    /\ roles' = roles \ {s}
    /\ IF s \in mapped
       THEN /\ ExitEffect(s)
            /\ admission' \in
                  {admission,
                   IF admission[s] = "waiting" THEN [admission EXCEPT ![s] = "failing"] ELSE admission}
       ELSE UNCHANGED <<sessionVars, live, teardown, admission>>
    /\ UNCHANGED <<taskVars, app, pty, cancelling, owed>>

(* An app-bound frame of the runtime reports that its provider stream died.*)
StreamFails(s) ==
    /\ app # "down" /\ pty[s] = "up" /\ s \notin teardown \cup cancelling
    /\ admission[s] # "failing"
    /\ status[s] = "running" /\ \E t \in MarketTasks : task[t] = "open" /\ assignee[t] = s
    /\ \E why \in {"provider_stream_interrupted", "provider_unavailable"} : FailRow(s, why)
    /\ live' = live \ {s} /\ roles' = roles \ {s} /\ mapped' = mapped \ {s}
    /\ UNCHANGED <<taskVars, app, runtimeVars, owed>>

-----------------------------------------------------------------------------
(* Cancel: the terminal is taken out of the maps before it is killed, so   *)
(* that its exit is not taken for a loss.                                  *)

CancelBeginMapped(s) ==
    /\ app # "down" /\ s \in live /\ s \notin cancelling
    /\ s \notin owed
    /\ cancelling' = cancelling \cup {s}
    /\ roles' = roles \ {s}
    /\ UNCHANGED <<kernelVars, app, live, mapped, pty, exits, admission, teardown, owed>>
CancelBegin(s) ==
    /\ app # "down" /\ s \in live /\ s \notin cancelling
    /\ s \notin owed
    /\ cancelling' = cancelling \cup {s}
    /\ roles' = roles \ {s} /\ mapped' = mapped \ {s}
    /\ UNCHANGED <<kernelVars, app, live, pty, exits, admission, teardown, owed>>

CancelEndKeepsEntry(s) ==
    /\ app # "down" /\ s \in cancelling
    /\ cancelling' = cancelling \ {s}
    /\ pty' = [pty EXCEPT ![s] = "gone"]
    /\ status' = Cancelled(s)
    /\ UNCHANGED <<reason, taskVars, app, live, roles, mapped, exits, admission, teardown, owed>>
CancelEnd(s) ==
    /\ app # "down" /\ s \in cancelling
    /\ cancelling' = cancelling \ {s}
    /\ pty' = [pty EXCEPT ![s] = "gone"]
    /\ status' = Cancelled(s)
    /\ live' = live \ {s}
    /\ UNCHANGED <<reason, taskVars, app, roles, mapped, exits, admission, teardown, owed>>

-----------------------------------------------------------------------------
(* The end of the process and the next start.                              *)

(* reconcileStaleSessions: what a start makes of the row it finds.         *)
Reconciled(s) ==
    IF OwnsOpenTask(s)
    THEN IF status[s] \in {"starting", "running", "blocked"}
         THEN [status |-> "failed", reason |-> "app_terminated"]
         ELSE [status |-> status[s], reason |-> reason[s]]
    ELSE IF status[s] = "absent" THEN [status |-> "absent", reason |-> reason[s]]
    ELSE [status |-> "closed",
          reason |-> IF status[s] \in {"starting", "running", "blocked"}
                     THEN "app_terminated" ELSE reason[s]]

DisposedClosed(s) == IF status[s] \in Terminal THEN status[s] ELSE "closed"
Disposed(s) ==
    IF status[s] \in Terminal THEN status[s] ELSE IF OwnsOpenTask(s) THEN "failed" ELSE "closed"

(* disposeAgentHost settles and tears down the live seats one by one.  A   *)
(* seat still starting cannot be closed: the refusal ends the loop, and    *)
(* the seats after it keep their rows and their entries.                   *)
QuitInterrupting ==
    /\ app = "up" /\ app' = "quitting"
    /\ status' = [s \in Sessions |-> IF s \in live THEN Disposed(s) ELSE status[s]]
    /\ reason' = [s \in Sessions |->
            IF s \in live /\ status[s] \notin Terminal /\ OwnsOpenTask(s)
            THEN "provider_stream_interrupted" ELSE reason[s]]
    /\ teardown' = teardown \cup live /\ live' = {} /\ roles' = roles \ live
    /\ UNCHANGED <<taskVars, mapped, pty, exits, admission, cancelling, owed>>
Quit ==
    /\ app = "up" /\ app' = "quitting"
    /\ \E settled \in SUBSET live :
          /\ \A s \in settled : status[s] = "starting" => OwnsOpenTask(s)
          /\ settled = live \/ \E s \in live \ settled : status[s] = "starting" /\ ~OwnsOpenTask(s)
          /\ status' = [s \in Sessions |-> IF s \in settled THEN Disposed(s) ELSE status[s]]
          /\ reason' = [s \in Sessions |->
                IF s \in settled /\ status[s] \notin Terminal /\ OwnsOpenTask(s)
                THEN "app_terminated" ELSE reason[s]]
          /\ teardown' = teardown \cup settled
          /\ live' = live \ settled
          /\ roles' = roles \ settled
    /\ UNCHANGED <<taskVars, mapped, pty, exits, admission, cancelling, owed>>

(* The process ends, at a crash or at the end of the shutdown.  Terminals  *)
(* that outlive it are in nobody's maps.                                   *)
ProcessEnds ==
    /\ app # "down" /\ app' = "down"
    /\ live' = {} /\ roles' = {} /\ mapped' = {}
    /\ pty' = [s \in Sessions |-> IF pty[s] = "up" THEN "gone" ELSE pty[s]]
    /\ exits' = {} /\ teardown' = {} /\ cancelling' = {}
    /\ admission' = [s \in Sessions |-> "none"]
    /\ UNCHANGED <<kernelVars, owed>>

Restart ==
    /\ app = "down" /\ app' = "up"
    /\ status' = [s \in Sessions |-> Reconciled(s).status]
    /\ reason' = [s \in Sessions |-> Reconciled(s).reason]
    /\ UNCHANGED <<taskVars, mapVars, runtimeVars, owed>>

-----------------------------------------------------------------------------
(* What agents and the operator do meanwhile.                              *)

(* The gateway returns a result only to a running, live coordinator; the   *)
(* peer bus drops it when it is pushed to whoever holds the role.          *)
ResultSent(s) ==
    /\ app # "down" /\ s \in live /\ status[s] = "running"
    /\ owed' = owed \cup {s}
    /\ UNCHANGED <<kernelVars, app, mapVars, runtimeVars>>
ResultPushed(s) ==
    /\ app # "down" /\ s \in owed /\ ~RoleFree(s)
    /\ owed' = owed \ {s}
    /\ UNCHANGED <<kernelVars, app, mapVars, runtimeVars>>

KernelCommand == app # "down" /\ TaskStep /\ UNCHANGED hostVars

SeatStep(s) ==
    \/ Precreate(s) \/ AdmitBegin(s) \/ SpawnFails(s) \/ Spawned(s)
    \/ Ready(s) \/ NotReady(s) \/ AdmissionFailed(s)
    \/ CloseSeat(s) \/ TeardownDone(s) \/ PtyExits(s) \/ ExitHandled(s) \/ StreamFails(s)
    \/ CancelBegin(s) \/ CancelEnd(s) \/ ResultSent(s) \/ ResultPushed(s)

HostNext == (\E s \in Sessions : SeatStep(s)) \/ Quit \/ ProcessEnds \/ Restart \/ KernelCommand

HostSpec == HostInit /\ [][HostNext]_allVars

(* Timers and answered kills: nothing the operator or an agent must do.    *)
HostFairness == \A s \in Sessions :
    /\ WF_allVars(ExitHandled(s)) /\ WF_allVars(TeardownDone(s)) /\ WF_allVars(CancelEnd(s))
    /\ WF_allVars(Spawned(s) \/ SpawnFails(s))
    /\ WF_allVars(Ready(s) \/ NotReady(s)) /\ WF_allVars(AdmissionFailed(s))
FairHostSpec == HostSpec /\ HostFairness

-----------------------------------------------------------------------------
(* Properties. *)

(* A live entry never outlasts its row: whoever settles the row, a close,  *)
(* a cancel, an exit, a failed stream or the shutdown, has taken the seat  *)
(* out of the live map, and no seat is both live and being torn down.      *)
LiveSeatNotSettled ==
    \A s \in live : status[s] \notin Terminal /\ s \notin teardown

(* A seat the operator is cancelling is never recorded as lost to its      *)
(* provider stream, whatever its dying terminal reports meanwhile.         *)
CancelNotMistakenForLoss ==
    [][\A s \in cancelling :
          status'[s] = "failed" /\ status[s] # "failed"
             => reason'[s] # "provider_stream_interrupted"]_allVars

(* Disposal matches cold reconciliation: the rows the next start finds     *)
(* after an orderly quit are settled as they would be after a crash.       *)
QuitMatchesCrash ==
    [][app = "up" /\ app' = "quitting" =>
          \A s \in Sessions :
             /\ Reconciled(s)'.status = Reconciled(s).status
             /\ OwnsOpenTask(s) => Reconciled(s)'.reason = Reconciled(s).reason]_allVars

(* A live seat whose terminal dies while it owns open work always ends     *)
(* failed or cancelled, so that the Task does not wait on a dead seat.     *)
DeadOwnerReleased ==
    \A s \in Sessions :
        s \in exits \cap mapped \cap live /\ OwnsOpenTask(s)
            ~> status[s] \in Terminal \/ ~OwnsOpenTask(s) \/ app = "down"
=============================================================================
