------------------------------ MODULE HostAcp -------------------------------
(***************************************************************************)
(* Seats whose runtime is an ACP agent on the host's stdio (host-acp-turn, *)
(* host-acp-permission and the host_acp branches of agent-host.ts over     *)
(* species/hermes/host-acp-client.ts): turns, the founder's permissions,   *)
(* cancel, close and the stop of a resume participant.                     *)
(*                                                                         *)
(* Each call awaits the agent or the end of its process; meanwhile any     *)
(* other call may come for the same seat.                                  *)
(***************************************************************************)
EXTENDS Naturals, FiniteSets

CONSTANTS
    Sessions,   \* agent_session ids, the ACP session ids of the agents
    Calls,      \* calls of runTurn, cancelAgentSession, stopResumeParticipantRuntime
    Asks,       \* permission request ids
    None
ASSUME AcpAssumption == None \notin Sessions

VARIABLES
    row,    \* agent_session.status
    owns,   \* sessions an open Task is assigned to
    live,   \* agent-host's live map
    flag,   \* entry.cancelled
    busy,   \* entry.turnInFlight
    proc,   \* the agent's process; "termed": SIGTERM sent, proc.killed
    call,   \* the calls and the await each stands at
    ask     \* permission requests and how they were answered

seatVars == <<row, owns, live, flag, busy>>
vars == <<seatVars, proc, call, ask>>

NoCall == [kind |-> "none", s |-> None, phase |-> "idle", last |-> FALSE]
Settled == {"cancelled", "failed", "closed"}

AcpTypeOK ==
    /\ row \in [Sessions -> {"absent", "running"} \cup Settled]
    /\ owns \in SUBSET Sessions /\ live \in SUBSET Sessions /\ busy \in SUBSET Sessions
    /\ flag \in [Sessions -> BOOLEAN]
    /\ proc \in [Sessions -> {"none", "up", "termed", "gone"}]
    /\ call \in [Calls -> [kind : {"none", "turn", "cancel", "stop"}, s : Sessions \cup {None},
                           phase : {"idle", "prompt", "notify", "cancelled", "failed", "done"},
                           last : BOOLEAN]]
    /\ ask \in [Asks -> [s : Sessions \cup {None},
                         state : {"none", "pending", "allowed", "denied"}]]

Init ==
    /\ row = [s \in Sessions |-> "absent"]
    /\ owns = {} /\ live = {} /\ busy = {}
    /\ flag = [s \in Sessions |-> FALSE]
    /\ proc = [s \in Sessions |-> "none"]
    /\ call = [k \in Calls |-> NoCall]
    /\ ask = [p \in Asks |-> [s |-> None, state |-> "none"]]

-----------------------------------------------------------------------------
(* Row writes, refusals swallowed; requests denied; the process signalled. *)

Closing(r, s) == IF r # "absent" /\ s \notin owns THEN "closed" ELSE r
Cancelling(r) == IF r = "running" THEN "cancelled" ELSE r
(* A refused fail skips the close that follows it.                         *)
FailThenClose(r, s) == IF r = "running" THEN Closing("failed", s) ELSE r

DeniedEverywhere(s) ==
    [p \in Asks |-> IF ask[p].state = "pending" THEN [ask[p] EXCEPT !.state = "denied"] ELSE ask[p]]
Denied(s) ==
    [p \in Asks |-> IF ask[p].state = "pending" /\ ask[p].s = s
                    THEN [ask[p] EXCEPT !.state = "denied"] ELSE ask[p]]

Signalled(s) == IF proc[s] = "up" THEN [proc EXCEPT ![s] = "termed"] ELSE proc
(* The timer's SIGKILL asks for a process that was not sent SIGTERM.       *)
Escalated(s) == IF proc[s] = "up" THEN [proc EXCEPT ![s] = "gone"] ELSE proc

-----------------------------------------------------------------------------
(* Admission: spawn and handshake, then the row in one stretch.            *)

Spawned(s) ==
    /\ proc[s] = "none"
    /\ proc' = [proc EXCEPT ![s] = "up"]
    /\ UNCHANGED <<seatVars, call, ask>>

Admitted(s) ==
    /\ proc[s] = "up" /\ row[s] = "absent"
    /\ row' = [row EXCEPT ![s] = "running"]
    /\ live' = live \cup {s}
    /\ UNCHANGED <<owns, flag, busy, proc, call, ask>>

(* The handshake or the Kernel refused: the process is torn down, no row.  *)
AdmitFails(s) ==
    /\ proc[s] = "up" /\ row[s] = "absent"
    /\ proc' = Signalled(s)
    /\ UNCHANGED <<seatVars, call, ask>>

-----------------------------------------------------------------------------
(* A turn; its one caller leaves finalize at its default.                  *)

RunTurn(k, s) ==
    /\ call[k] = NoCall /\ s \in live /\ s \notin busy
    /\ busy' = busy \cup {s}
    /\ flag' = [flag EXCEPT ![s] = FALSE]
    /\ call' = [call EXCEPT ![k] = [kind |-> "turn", s |-> s, phase |-> "prompt", last |-> TRUE]]
    /\ UNCHANGED <<row, owns, live, proc, ask>>

(* The prompt resolves with the agent's reason, or rejects with the end of *)
(* its process.  The cancel flag is read here, once.                       *)
PromptReturns(k) ==
    LET s == call[k].s
        next(phase) == call' = [call EXCEPT ![k].phase = phase] IN
    /\ call[k].phase = "prompt"
    /\ busy' = busy \ {s}
    /\ \E why \in IF proc[s] = "gone" THEN {"failed"} ELSE {"end_turn", "cancelled", "refusal"} :
          \/ /\ flag[s] \/ why = "cancelled"
             /\ next("notify") /\ ask' = Denied(s) /\ UNCHANGED proc
          \/ /\ ~flag[s] /\ why \in {"failed", "refusal"}
             /\ next("failed") /\ ask' = Denied(s) /\ proc' = Signalled(s)
          \/ /\ ~flag[s] /\ why = "end_turn"
             /\ next("done") /\ ask' = Denied(s) /\ proc' = Signalled(s)
    /\ UNCHANGED <<row, owns, live, flag>>

(* cancelHostAcp: the agent is told, then its process is signalled.        *)
Notified(k) ==
    /\ call[k].phase = "notify"
    /\ call' = [call EXCEPT ![k].phase = "cancelled"]
    /\ proc' = Signalled(call[k].s)
    /\ UNCHANGED <<seatVars, ask>>

-----------------------------------------------------------------------------
(* The other calls. *)

CancelAgentSession(k, s) ==
    /\ call[k] = NoCall /\ s \in live
    /\ flag' = [flag EXCEPT ![s] = TRUE]
    /\ ask' = Denied(s)
    /\ call' = [call EXCEPT ![k] = [kind |-> "cancel", s |-> s, phase |-> "notify", last |-> TRUE]]
    /\ UNCHANGED <<row, owns, live, busy, proc>>

StopParticipant(k, s, closeRow) ==
    /\ call[k] = NoCall /\ s \in live
    /\ flag' = [flag EXCEPT ![s] = TRUE]
    /\ ask' = Denied(s) /\ proc' = Signalled(s)
    /\ call' = [call EXCEPT ![k] = [kind |-> "stop", s |-> s, phase |-> "done", last |-> closeRow]]
    /\ UNCHANGED <<row, owns, live, busy>>

CloseKeepsRuntime(s) ==
    /\ row[s] # "absent" /\ s \notin owns
    /\ row' = [row EXCEPT ![s] = Closing(@, s)]
    /\ ask' = IF s \in live THEN Denied(s) ELSE ask
    /\ UNCHANGED <<owns, live, flag, busy, proc, call>>
(* closeAgentSessionRow: the teardown is not awaited, the entry stays.     *)
CloseAgentSession(s) ==
    /\ row[s] # "absent" /\ s \notin owns
    /\ row' = [row EXCEPT ![s] = Closing(@, s)]
    /\ IF s \in live THEN ask' = Denied(s) /\ proc' = Signalled(s) ELSE UNCHANGED <<ask, proc>>
    /\ UNCHANGED <<owns, live, flag, busy, call>>

-----------------------------------------------------------------------------
(* The teardown's wait is over: the process is gone, was signalled before, *)
(* or two seconds have passed.                                             *)

RowAfter(k) ==
    LET s == call[k].s
        r == row[s] IN
    CASE call[k].phase = "cancelled" -> Closing(Cancelling(r), s)
      [] call[k].phase = "failed" -> FailThenClose(r, s)
      [] call[k].phase = "done" -> IF call[k].last THEN Closing(r, s) ELSE r

TornDownWhenGone(k) ==
    LET s == call[k].s IN
    /\ call[k].phase \in {"cancelled", "failed", "done"} /\ proc[s] = "gone"
    /\ live' = live \ {s}
    /\ row' = [row EXCEPT ![s] = RowAfter(k)]
    /\ call' = [call EXCEPT ![k] = NoCall]
    /\ UNCHANGED <<owns, flag, busy, proc, ask>>
TornDown(k) ==
    LET s == call[k].s IN
    /\ call[k].phase \in {"cancelled", "failed", "done"}
    /\ proc' = Escalated(s)
    /\ live' = live \ {s}
    /\ row' = [row EXCEPT ![s] = RowAfter(k)]
    /\ call' = [call EXCEPT ![k] = NoCall]
    /\ UNCHANGED <<owns, flag, busy, ask>>

-----------------------------------------------------------------------------
(* Permissions: an allowlisted tool asks, one answer is given.             *)

Asked(p, s) ==
    /\ ask[p].state = "none" /\ proc[s] \in {"up", "termed"}
    /\ \E k \in Calls : call[k].s = s /\ call[k].phase = "prompt"
    /\ ask' = [ask EXCEPT ![p] = [s |-> s, state |-> "pending"]]
    /\ UNCHANGED <<seatVars, proc, call>>

Decide(p) ==
    /\ ask[p].state = "pending"
    /\ \E answer \in {"allowed", "denied"} : ask' = [ask EXCEPT ![p].state = answer]
    /\ UNCHANGED <<seatVars, proc, call>>

Timeout(p) ==
    /\ ask[p].state = "pending"
    /\ ask' = [ask EXCEPT ![p].state = "denied"]
    /\ UNCHANGED <<seatVars, proc, call>>

-----------------------------------------------------------------------------
(* The agent's process, and the Tasks of the seat. *)

ProcessEnds(s) ==
    /\ proc[s] \in {"up", "termed"}
    /\ proc' = [proc EXCEPT ![s] = "gone"]
    /\ UNCHANGED <<seatVars, call, ask>>

TaskGiven(s) ==
    /\ row[s] = "running" /\ s \notin owns
    /\ owns' = owns \cup {s}
    /\ UNCHANGED <<row, live, flag, busy, proc, call, ask>>
TaskSettled(s) ==
    /\ s \in owns
    /\ owns' = owns \ {s}
    /\ UNCHANGED <<row, live, flag, busy, proc, call, ask>>

-----------------------------------------------------------------------------
SeatStep(s) ==
    \/ Spawned(s) \/ Admitted(s) \/ AdmitFails(s) \/ CloseAgentSession(s)
    \/ ProcessEnds(s) \/ TaskGiven(s) \/ TaskSettled(s)
CallStep(k) ==
    \/ \E s \in Sessions : RunTurn(k, s) \/ CancelAgentSession(k, s)
    \/ \E s \in Sessions, closeRow \in BOOLEAN : StopParticipant(k, s, closeRow)
    \/ PromptReturns(k) \/ Notified(k) \/ TornDown(k)
AskStep(p) == Decide(p) \/ Timeout(p) \/ \E s \in Sessions : Asked(p, s)

Next ==
    \/ \E s \in Sessions : SeatStep(s)
    \/ \E k \in Calls : CallStep(k)
    \/ \E p \in Asks : AskStep(p)
Spec == Init /\ [][Next]_vars

(* The host's timers and the write of a notification; never the agent.     *)
Fairness ==
    \A k \in Calls : WF_vars(Notified(k)) /\ WF_vars(TornDown(k))
FairSpec == Spec /\ Fairness

-----------------------------------------------------------------------------
(* Properties. *)

(* No way to settle a row, the end of a turn, a cancel, a stop or a close, *)
(* in whatever order they overlap, leaves the agent of that row unsignalled*)
(* and at work.                                                            *)
SettledSeatStopped == \A s \in Sessions : row[s] \in Settled => proc[s] \in {"termed", "gone"}

(* cancelPendingPermissions: what one seat's end denies is its own; what   *)
(* another seat asks is answered by the founder or by its timer alone.     *)
OthersAsksKept ==
    [][\A p \in Asks : ask[p].state = "pending" /\ ask'[p].state = "denied" =>
         \/ UNCHANGED <<seatVars, proc, call>>
         \/ row'[ask[p].s] # row[ask[p].s] \/ proc'[ask[p].s] # proc[ask[p].s]
         \/ \E k \in Calls : call'[k] # call[k] /\ call'[k].s = ask[p].s]_vars

(* Cancelling a seat settles its row even when the agent neither answers   *)
(* nor dies.                                                               *)
CancelSettles ==
    \A s \in Sessions :
        (\E k \in Calls : call[k].kind = "cancel" /\ call[k].s = s) ~> row[s] \in Settled

(* WO-008a: a cancel leaves no orphan process.  The process of a seat that *)
(* was torn down ends.                                                     *)
StoppedProcessEnds == \A s \in Sessions : proc[s] = "termed" ~> proc[s] = "gone"
=============================================================================
