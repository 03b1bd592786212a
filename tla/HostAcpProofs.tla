--------------------------- MODULE HostAcpProofs ----------------------------
(* Theorems about HostAcp, for every number of seats, calls and requests.  *)
(*                                                                         *)
(* That a settled row has a signalled process is not inductive: a row is   *)
(* settled by the call whose teardown ends, so the argument follows the    *)
(* calls.  A call that is past its notification has signalled the process  *)
(* of its seat; one before it has a seat that was spawned; and nothing     *)
(* gives a spawned seat its process back.                                  *)
EXTENDS HostAcp, TLAPS

Over == {"termed", "gone"}

(* The calls and the processes of their seats.                             *)
CallsSignal ==
    \A k \in Calls :
        /\ call[k].phase \in {"cancelled", "failed", "done"} =>
              call[k].s \in Sessions /\ proc[call[k].s] \in Over
        /\ call[k].phase \in {"prompt", "notify"} =>
              call[k].s \in Sessions /\ proc[call[k].s] # "none"

(* The rows and the processes.                                             *)
RowsSpawned ==
    \A s \in Sessions :
        /\ row[s] # "absent" \/ s \in live => proc[s] # "none"
        /\ s \in live => row[s] # "absent"
        /\ row[s] # "absent" /\ s \notin live => proc[s] \in Over

AcpInv == AcpTypeOK /\ CallsSignal /\ RowsSpawned /\ SettledSeatStopped

LEMMA AcpStart == Init => AcpInv
BY DEF Init, AcpInv, AcpTypeOK, CallsSignal, RowsSpawned, SettledSeatStopped, NoCall, Settled

(* A signal only ever moves a process towards its end.                     *)
LEMMA SignalEnds ==
    ASSUME AcpTypeOK, NEW s \in Sessions, proc[s] # "none"
    PROVE  /\ Signalled(s) \in [Sessions -> {"none", "up", "termed", "gone"}]
           /\ Escalated(s) \in [Sessions -> {"none", "up", "termed", "gone"}]
           /\ Signalled(s)[s] \in Over /\ Escalated(s)[s] \in Over
           /\ \A z \in Sessions \ {s} : Signalled(s)[z] = proc[z] /\ Escalated(s)[z] = proc[z]
BY DEF AcpTypeOK, Signalled, Escalated, Over

(* Denying keeps the type of the requests.                                 *)
LEMMA DenialTyped ==
    ASSUME AcpTypeOK, NEW s \in Sessions
    PROVE  Denied(s) \in [Asks -> [s : Sessions \cup {None},
                                   state : {"none", "pending", "allowed", "denied"}]]
BY DEF AcpTypeOK, Denied

-----------------------------------------------------------------------------
(* One step per action of a seat. *)
LEMMA SeatSteps ==
    ASSUME AcpInv, NEW s \in Sessions, SeatStep(s)
    PROVE  AcpInv'
<1> USE DEF AcpInv, AcpTypeOK, CallsSignal, RowsSpawned, SettledSeatStopped, seatVars, Over, Settled
<1>1. CASE Spawned(s)
  BY <1>1 DEF Spawned
<1>2. CASE Admitted(s)
  BY <1>2 DEF Admitted
<1>3. CASE AdmitFails(s)
  BY <1>3 DEF AdmitFails, Signalled
<1>4. CASE CloseAgentSession(s)
  <2>1. row' = [row EXCEPT ![s] = "closed"] /\ UNCHANGED <<owns, live, flag, busy, call>>
    BY <1>4 DEF CloseAgentSession, Closing
  <2>2. CASE s \in live
    <3>1. proc' = Signalled(s) /\ ask' = Denied(s)
      BY <1>4, <2>2 DEF CloseAgentSession
    <3>2. proc[s] # "none"
      BY <2>2
    <3> HIDE DEF AcpTypeOK
    <3>3. /\ proc' \in [Sessions -> {"none", "up", "termed", "gone"}] /\ proc'[s] \in Over
          /\ \A z \in Sessions \ {s} : proc'[z] = proc[z]
          /\ ask' \in [Asks -> [s : Sessions \cup {None},
                                state : {"none", "pending", "allowed", "denied"}]]
      BY <3>1, <3>2, SignalEnds, DenialTyped
    <3> USE DEF AcpTypeOK
    <3>4. AcpTypeOK'
      BY <2>1, <3>3
    <3>5. CallsSignal'
      BY <2>1, <3>3
    <3>6. RowsSpawned' /\ SettledSeatStopped'
      BY <2>1, <3>3
    <3> QED BY <3>4, <3>5, <3>6
  <2>3. CASE s \notin live
    BY <1>4, <2>1, <2>3 DEF CloseAgentSession
  <2> QED BY <2>2, <2>3
<1>5. CASE ProcessEnds(s)
  BY <1>5 DEF ProcessEnds
<1>6. CASE TaskGiven(s)
  BY <1>6 DEF TaskGiven
<1>7. CASE TaskSettled(s)
  BY <1>7 DEF TaskSettled
<1> QED BY <1>1, <1>2, <1>3, <1>4, <1>5, <1>6, <1>7 DEF SeatStep

-----------------------------------------------------------------------------
(* What an open teardown, once over, makes of the row. *)
LEMMA RowAfterTyped ==
    ASSUME AcpTypeOK, NEW k \in Calls, call[k].s \in Sessions,
           call[k].phase \in {"cancelled", "failed", "done"}
    PROVE  /\ RowAfter(k) \in {"absent", "running"} \cup Settled
           /\ RowAfter(k) = "absent" <=> row[call[k].s] = "absent"
<1> DEFINE s == call[k].s
           r == row[s]
<1>1. r \in {"absent", "running"} \cup Settled
  BY DEF AcpTypeOK
<1>2. \A x \in {"absent", "running"} \cup Settled :
        /\ Closing(x, s) \in {"absent", "running"} \cup Settled
        /\ Closing(x, s) = "absent" <=> x = "absent"
  BY DEF Closing, Settled
<1>3. /\ Cancelling(r) \in {"absent", "running"} \cup Settled
      /\ Cancelling(r) = "absent" <=> r = "absent"
  BY <1>1 DEF Cancelling, Settled
<1>4. /\ FailThenClose(r, s) \in {"absent", "running"} \cup Settled
      /\ FailThenClose(r, s) = "absent" <=> r = "absent"
  BY <1>1, <1>2 DEF FailThenClose, Settled
<1>5. CASE call[k].phase = "cancelled"
  BY <1>2, <1>3, <1>5 DEF RowAfter
<1>6. CASE call[k].phase = "failed"
  BY <1>4, <1>6 DEF RowAfter
<1>7. CASE call[k].phase = "done"
  BY <1>1, <1>2, <1>7 DEF RowAfter
<1> QED BY <1>5, <1>6, <1>7

(* Most steps of a call leave the rows and the live map alone and signal   *)
(* at most its own seat's process.                                         *)
SignalsAtMost(s) ==
    /\ UNCHANGED <<row, live>>
    /\ \/ UNCHANGED proc
       \/ /\ proc' \in [Sessions -> {"none", "up", "termed", "gone"}] /\ proc'[s] \in Over
          /\ \A z \in Sessions \ {s} : proc'[z] = proc[z]

LEMMA OnlySignals ==
    ASSUME AcpInv, NEW s \in Sessions, proc[s] # "none", SignalsAtMost(s)
    PROVE  /\ RowsSpawned' /\ SettledSeatStopped'
           /\ \A z \in Sessions : proc[z] \in Over => proc'[z] \in Over
           /\ \A z \in Sessions : proc[z] # "none" => proc'[z] # "none"
BY DEF AcpInv, SignalsAtMost, RowsSpawned, SettledSeatStopped, Over

(* One step per action of a call. *)
LEMMA CallBegins ==
    ASSUME AcpInv, NEW k \in Calls, NEW s \in Sessions, NEW closeRow \in BOOLEAN,
           RunTurn(k, s) \/ CancelAgentSession(k, s) \/ StopParticipant(k, s, closeRow)
    PROVE  AcpInv'
<1> USE DEF AcpInv, seatVars
<1>1. s \in live /\ proc[s] # "none" /\ UNCHANGED <<row, owns, live>>
  BY DEF RowsSpawned, RunTurn, CancelAgentSession, StopParticipant
<1>2. CASE RunTurn(k, s)
  <2>1. AcpTypeOK'
    BY <1>2 DEF RunTurn, AcpTypeOK
  <2>2. CallsSignal'
    BY <1>1, <1>2 DEF RunTurn, CallsSignal, AcpTypeOK
  <2> QED BY <1>2, <2>1, <2>2 DEF RunTurn, RowsSpawned, SettledSeatStopped
<1>3. CASE CancelAgentSession(k, s)
  <2>1. AcpTypeOK'
    BY <1>3, DenialTyped DEF CancelAgentSession, AcpTypeOK
  <2>2. CallsSignal'
    BY <1>1, <1>3 DEF CancelAgentSession, CallsSignal, AcpTypeOK
  <2> QED BY <1>3, <2>1, <2>2 DEF CancelAgentSession, RowsSpawned, SettledSeatStopped
<1>4. CASE StopParticipant(k, s, closeRow)
  <2>1. /\ proc' \in [Sessions -> {"none", "up", "termed", "gone"}] /\ proc'[s] \in Over
        /\ \A z \in Sessions \ {s} : proc'[z] = proc[z]
    BY <1>1, <1>4, SignalEnds DEF StopParticipant
  <2>2. AcpTypeOK'
    BY <1>4, <2>1, DenialTyped DEF StopParticipant, AcpTypeOK
  <2>3. SignalsAtMost(s)
    BY <1>1, <2>1 DEF SignalsAtMost
  <2>4. CallsSignal'
    BY <1>1, <1>4, <2>1, <2>3, OnlySignals DEF StopParticipant, CallsSignal, AcpTypeOK
  <2> QED BY <1>1, <2>2, <2>3, <2>4, OnlySignals
<1> QED BY <1>2, <1>3, <1>4

LEMMA CallReturns ==
    ASSUME AcpInv, NEW k \in Calls, PromptReturns(k) \/ Notified(k)
    PROVE  AcpInv'
<1> DEFINE s == call[k].s
<1> USE DEF AcpInv, seatVars
<1>1. s \in Sessions /\ proc[s] # "none"
  BY DEF PromptReturns, Notified, CallsSignal
<1>2. /\ UNCHANGED <<row, owns, live, flag>> /\ busy' \in SUBSET Sessions
      /\ ask' \in {ask, Denied(s)} /\ proc' \in {proc, Signalled(s)}
      /\ \E phase \in {"notify", "cancelled", "failed", "done"} :
            /\ call' = [call EXCEPT ![k].phase = phase]
            /\ phase # "notify" => proc' = Signalled(s)
  BY DEF PromptReturns, Notified, AcpTypeOK
<1>3. /\ proc' \in [Sessions -> {"none", "up", "termed", "gone"}]
      /\ proc' = Signalled(s) => proc'[s] \in Over
      /\ SignalsAtMost(s)
  BY <1>1, <1>2, SignalEnds DEF SignalsAtMost, AcpTypeOK
<1>4. AcpTypeOK'
  <2>1. call' \in [Calls -> [kind : {"none", "turn", "cancel", "stop"}, s : Sessions \cup {None},
                            phase : {"idle", "prompt", "notify", "cancelled", "failed", "done"},
                            last : BOOLEAN]]
    BY <1>2 DEF AcpTypeOK
  <2>2. ask' \in [Asks -> [s : Sessions \cup {None},
                          state : {"none", "pending", "allowed", "denied"}]]
    BY <1>1, <1>2, DenialTyped DEF AcpTypeOK
  <2> QED BY <1>2, <1>3, <2>1, <2>2 DEF AcpTypeOK
<1>5. CallsSignal'
  <2>1. PICK phase \in {"notify", "cancelled", "failed", "done"} :
            /\ call' = [call EXCEPT ![k].phase = phase]
            /\ phase # "notify" => proc' = Signalled(s)
    BY <1>2
  <2>2. call'[k].phase = phase /\ call'[k].s = s /\ \A j \in Calls \ {k} : call'[j] = call[j]
    BY <2>1 DEF AcpTypeOK
  <2>3. /\ \A z \in Sessions : proc[z] \in Over => proc'[z] \in Over
        /\ \A z \in Sessions : proc[z] # "none" => proc'[z] # "none"
    BY <1>1, <1>3, OnlySignals
  <2> QED BY <1>1, <1>3, <2>1, <2>2, <2>3 DEF CallsSignal, Over
<1> QED BY <1>1, <1>3, <1>4, <1>5, OnlySignals

LEMMA CallEnds ==
    ASSUME AcpInv, NEW k \in Calls, TornDown(k)
    PROVE  AcpInv'
<1> DEFINE s == call[k].s
<1> USE DEF AcpInv
<1>1. s \in Sessions /\ proc[s] \in Over
  BY DEF TornDown, CallsSignal
<1>2. /\ proc' \in [Sessions -> {"none", "up", "termed", "gone"}] /\ proc'[s] \in Over
      /\ \A z \in Sessions \ {s} : proc'[z] = proc[z]
  BY <1>1, SignalEnds DEF TornDown, Over
<1>3. /\ RowAfter(k) \in {"absent", "running"} \cup Settled
      /\ RowAfter(k) = "absent" <=> row[s] = "absent"
      /\ row' = [row EXCEPT ![s] = RowAfter(k)] /\ live' = live \ {s}
      /\ call' = [call EXCEPT ![k] = NoCall] /\ UNCHANGED <<owns, flag, busy, ask>>
  BY <1>1, RowAfterTyped DEF TornDown
<1>4. AcpTypeOK'
  BY <1>2, <1>3 DEF AcpTypeOK, NoCall
<1>5. CallsSignal'
  BY <1>2, <1>3 DEF CallsSignal, AcpTypeOK, NoCall, Over
<1>6. RowsSpawned' /\ SettledSeatStopped'
  BY <1>1, <1>2, <1>3 DEF RowsSpawned, SettledSeatStopped, AcpTypeOK, Over
<1> QED BY <1>4, <1>5, <1>6

LEMMA AskSteps ==
    ASSUME AcpInv, NEW p \in Asks, AskStep(p)
    PROVE  AcpInv'
BY DEF AcpInv, AcpTypeOK, CallsSignal, RowsSpawned, SettledSeatStopped, AskStep, Asked, Decide,
       Timeout, seatVars

LEMMA AcpSteps == AcpInv /\ [Next]_vars => AcpInv'
<1> SUFFICES ASSUME AcpInv, [Next]_vars PROVE AcpInv'
  OBVIOUS
<1>1. CASE \E s \in Sessions : SeatStep(s)
  BY <1>1, SeatSteps
<1>2. CASE \E k \in Calls : CallStep(k)
  BY <1>2, CallBegins, CallReturns, CallEnds DEF CallStep
<1>3. CASE \E p \in Asks : AskStep(p)
  BY <1>3, AskSteps
<1>4. CASE UNCHANGED vars
  BY <1>4 DEF vars, seatVars, AcpInv, AcpTypeOK, CallsSignal, RowsSpawned, SettledSeatStopped
<1> QED BY <1>1, <1>2, <1>3, <1>4 DEF Next

LEMMA AcpInvariant == Spec => []AcpInv
BY AcpStart, AcpSteps, PTL DEF Spec

(* Every variable of the turns keeps its type.                             *)
THEOREM AcpTypeCorrect == Spec => []AcpTypeOK
BY AcpInvariant, PTL DEF AcpInv

(* For every number of seats and of calls that overlap on them, a row is   *)
(* settled only once its agent was signalled.                              *)
THEOREM SettledAgentStopped == Spec => []SettledSeatStopped
BY AcpInvariant, PTL DEF AcpInv

-----------------------------------------------------------------------------
(* Who may deny a request. *)
LEMMA DenialsOwn ==
    ASSUME AcpInv, [Next]_vars, NEW p \in Asks,
           ask[p].state = "pending", ask'[p].state = "denied"
    PROVE  \/ UNCHANGED <<seatVars, proc, call>>
           \/ row'[ask[p].s] # row[ask[p].s] \/ proc'[ask[p].s] # proc[ask[p].s]
           \/ \E k \in Calls : call'[k] # call[k] /\ call'[k].s = ask[p].s
<1> USE DEF AcpInv, seatVars
<1>1. CASE \E s \in Sessions : SeatStep(s)
  <2> PICK s \in Sessions : SeatStep(s) BY <1>1
  <2>1. CloseAgentSession(s)
    BY DEF SeatStep, Spawned, Admitted, AdmitFails, ProcessEnds, TaskGiven, TaskSettled
  <2>2. s \in live /\ ask' = Denied(s) /\ ask[p].s = s
    BY <2>1 DEF CloseAgentSession, Denied, AcpTypeOK
  <2>3. row' = [row EXCEPT ![s] = "closed"] /\ proc' = Signalled(s)
    BY <2>1, <2>2 DEF CloseAgentSession, Closing
  <2>4. CASE row[s] = "closed"
    <3>1. proc[s] \in Over
      BY <2>4 DEF SettledSeatStopped, Settled, Over
    <3>2. row' = row /\ proc' = proc
      BY <2>3, <2>4, <3>1 DEF AcpTypeOK, Signalled, Over
    <3> QED BY <2>1, <3>2 DEF CloseAgentSession
  <2>5. CASE row[s] # "closed"
    BY <2>2, <2>3, <2>5 DEF AcpTypeOK
  <2> QED BY <2>4, <2>5
<1>2. CASE \E k \in Calls : CallStep(k)
  <2> PICK k \in Calls : CallStep(k) BY <1>2
  <2>1. ask' # ask
    OBVIOUS
  <2>2. CASE PromptReturns(k)
    <3>1. ask' = Denied(call[k].s) /\ \E phase \in {"notify", "failed", "done"} :
             call' = [call EXCEPT ![k].phase = phase]
      BY <2>2 DEF PromptReturns
    <3>2. ask[p].s = call[k].s
      BY <3>1 DEF Denied, AcpTypeOK
    <3>3. call'[k] # call[k] /\ call'[k].s = call[k].s
      BY <2>2, <3>1 DEF PromptReturns, AcpTypeOK
    <3> QED BY <3>2, <3>3
  <2>3. CASE \E s \in Sessions : CancelAgentSession(k, s)
    <3> PICK s \in Sessions : CancelAgentSession(k, s) BY <2>3
    <3>1. ask[p].s = s
      BY DEF CancelAgentSession, Denied, AcpTypeOK
    <3>2. call'[k] # call[k] /\ call'[k].s = s
      BY DEF CancelAgentSession, NoCall, AcpTypeOK
    <3> QED BY <3>1, <3>2
  <2>4. CASE \E s \in Sessions, closeRow \in BOOLEAN : StopParticipant(k, s, closeRow)
    <3> PICK s \in Sessions, closeRow \in BOOLEAN : StopParticipant(k, s, closeRow) BY <2>4
    <3>1. ask[p].s = s
      BY DEF StopParticipant, Denied, AcpTypeOK
    <3>2. call'[k] # call[k] /\ call'[k].s = s
      BY DEF StopParticipant, NoCall, AcpTypeOK
    <3> QED BY <3>1, <3>2
  <2> QED BY <2>1, <2>2, <2>3, <2>4 DEF CallStep, RunTurn, Notified, TornDown
<1>3. CASE \E p2 \in Asks : AskStep(p2)
  <2> PICK p2 \in Asks : AskStep(p2) BY <1>3
  <2> QED BY DEF AskStep, Asked, Decide, Timeout
<1>4. CASE UNCHANGED vars
  BY <1>4 DEF vars
<1> QED BY <1>1, <1>2, <1>3, <1>4 DEF Next

(* A request is denied only by a decision about it, by its own timer, or   *)
(* with the end of the very seat that asked.                               *)
THEOREM OthersRequestsKept == Spec => OthersAsksKept
<1>1. AcpInv /\ [Next]_vars =>
        [\A p \in Asks : ask[p].state = "pending" /\ ask'[p].state = "denied" =>
            \/ UNCHANGED <<seatVars, proc, call>>
            \/ row'[ask[p].s] # row[ask[p].s] \/ proc'[ask[p].s] # proc[ask[p].s]
            \/ \E k \in Calls : call'[k] # call[k] /\ call'[k].s = ask[p].s]_vars
  BY DenialsOwn
<1> QED BY <1>1, AcpInvariant, PTL DEF Spec, OthersAsksKept
=============================================================================
