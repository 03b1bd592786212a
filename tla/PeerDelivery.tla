---------------------------- MODULE PeerDelivery ----------------------------
(***************************************************************************)
(* The push bridge of the collaboration bus (peer-delivery.ts).  Rows of   *)
(* the transport database, in the order they were created, are typed into  *)
(* the terminal registered for the role they are addressed to, one a tick; *)
(* Enter follows SUBMIT_DELAY_MS later, and then the row is marked pushed. *)
(* Seats come, die and are replaced meanwhile, and the instructions of     *)
(* submitAgentSessionInstruction are typed into the same terminals.        *)
(*                                                                         *)
(* Of a seat's lifecycle only what the bridge meets is kept here; AgentHost*)
(* has the rest.  A terminal is known by the session that owns it.         *)
(***************************************************************************)
EXTENDS Naturals, Sequences, FiniteSets, SequencesExt

CONSTANTS
    Seats, Role,        \* sessions and the peer role each is admitted under
    Instructions,       \* app-authored instructions that may be submitted
    None,
    LegacyRole,         \* the role of a malformed row an older build left, or None
    TickAfterEnter,     \* is the tick interval longer than SUBMIT_DELAY_MS?
    MaxMessages,        \* bound: rows of the transport database
    MaxMarkFailures     \* bound: UPDATEs of pushed_at that throw

ASSUME DeliveryAssumption ==
    /\ None \notin Seats /\ None \notin {Role[s] : s \in Seats}
    /\ Instructions \cap (1 .. MaxMessages) = {}
    /\ LegacyRole \in {Role[s] : s \in Seats} \cup {None}
    /\ MaxMessages \in Nat \ {0} /\ MaxMarkFailures \in Nat /\ TickAfterEnter \in BOOLEAN

Roles == {Role[s] : s \in Seats}
Slots == 1 .. MaxMessages

VARIABLES
    posted,     \* how many rows the database holds
    row,        \* of each row: the role and the session addressed, and the kind
    pushed,     \* the rows whose pushed_at is set
    inFlight,   \* the rows whose Enter is pending
    into,       \* the terminal each row was last typed into
    failures,   \* how many marks have thrown
    bound,      \* seatPtyByRole
    seat,       \* what the host makes of each session
    pty,        \* the terminal: "dead" is an exit the host has not yet been told of
    line,       \* what is typed and not submitted
    turns,      \* what the agent was given, one entry for each submitted line
    instr, dest \* where each instruction stands, and the terminal it goes to

busVars == <<posted, row>>
bridgeVars == <<pushed, inFlight, into, failures>>
seatVars == <<bound, seat, pty>>
screenVars == <<line, turns>>
instrVars == <<instr, dest>>
vars == <<busVars, bridgeVars, seatVars, screenVars, instrVars>>

Rows == [role : Roles \cup {None}, session : Seats \cup {None}, kind : {"task", "result"}]
Blank == [role |-> None, session |-> None, kind |-> "task"]
Malformed == IF LegacyRole = None THEN {} ELSE {1}

TypeOK ==
    /\ posted \in 0 .. MaxMessages
    /\ row \in [Slots -> Rows]
    /\ pushed \in SUBSET Slots /\ inFlight \in SUBSET Slots
    /\ into \in [Slots -> Seats \cup {None}]
    /\ failures \in 0 .. MaxMarkFailures
    /\ bound \in [Roles -> Seats \cup {None}]
    /\ seat \in [Seats -> {"new", "spawning", "starting", "running", "closed", "lost"}]
    /\ pty \in [Seats -> {"none", "up", "dead", "gone"}]
    /\ line \in [Seats -> Seq(Slots \cup Instructions)]
    /\ turns \in [Seats -> Seq(Seq(Slots \cup Instructions))]
    /\ instr \in [Instructions -> {"idle", "typed", "delivered", "failed"}]
    /\ dest \in [Instructions -> Seats \cup {None}]

Init ==
    /\ posted = Cardinality(Malformed)
    /\ row = [i \in Slots |-> IF i \in Malformed THEN [Blank EXCEPT !.role = LegacyRole] ELSE Blank]
    /\ pushed = {} /\ inFlight = {}
    /\ into = [i \in Slots |-> None]
    /\ failures = 0
    /\ bound = [r \in Roles |-> None]
    /\ seat = [s \in Seats |-> "new"]
    /\ pty = [s \in Seats |-> "none"]
    /\ line = [s \in Seats |-> <<>>] /\ turns = [s \in Seats |-> <<>>]
    /\ instr = [k \in Instructions |-> "idle"] /\ dest = [k \in Instructions |-> None]

-----------------------------------------------------------------------------
(* writeToSession: a terminal that is not up takes nothing.                *)

Typed(s, x) == IF pty[s] = "up" THEN [line EXCEPT ![s] = Append(@, x)] ELSE line

Enter(s) ==
    IF pty[s] = "up" /\ line[s] # <<>>
    THEN /\ turns' = [turns EXCEPT ![s] = Append(@, line[s])]
         /\ line' = [line EXCEPT ![s] = <<>>]
    ELSE UNCHANGED screenVars

Submitted(s) == UNION {ToSet(t) : t \in ToSet(turns[s])}

Unbind(S) == [r \in Roles |-> IF bound[r] \in S THEN None ELSE bound[r]]
Live(s) == seat[s] \in {"starting", "running"}

(* hasUndeliveredResult: a result for this exact role and session is not   *)
(* marked.                                                                 *)
Owed(s) == \E i \in 1 .. posted :
    /\ row[i].role = Role[s] /\ row[i].session = s
    /\ row[i].kind = "result" /\ i \notin pushed

-----------------------------------------------------------------------------
(* Seats.  assertAvailable is checked before the terminal is spawned and   *)
(* register again after the await; both refuse a role that is held.        *)

AdmitBegin(s) ==
    /\ seat[s] = "new" /\ bound[Role[s]] = None
    /\ seat' = [seat EXCEPT ![s] = "spawning"]
    /\ UNCHANGED <<busVars, bridgeVars, bound, pty, screenVars, instrVars>>

SpawnedRebinding(s) ==
    /\ seat[s] = "spawning"
    /\ bound' = [bound EXCEPT ![Role[s]] = s]
    /\ seat' = [seat EXCEPT ![s] = "starting"]
    /\ \E p \in {"up", "dead"} : pty' = [pty EXCEPT ![s] = p]
    /\ UNCHANGED <<busVars, bridgeVars, screenVars, instrVars>>

Spawned(s) ==
    /\ seat[s] = "spawning"
    /\ IF bound[Role[s]] = None
       THEN /\ bound' = [bound EXCEPT ![Role[s]] = s]
            /\ seat' = [seat EXCEPT ![s] = "starting"]
            /\ \E p \in {"up", "dead"} : pty' = [pty EXCEPT ![s] = p]
       ELSE /\ seat' = [seat EXCEPT ![s] = "lost"]
            /\ pty' = [pty EXCEPT ![s] = "gone"]
            /\ UNCHANGED bound
    /\ UNCHANGED <<busVars, bridgeVars, screenVars, instrVars>>

Ready(s) ==
    /\ seat[s] = "starting" /\ pty[s] = "up"
    /\ seat' = [seat EXCEPT ![s] = "running"]
    /\ UNCHANGED <<busVars, bridgeVars, bound, pty, screenVars, instrVars>>

(* unregisterSeatPty and the kill of a failed admission.                   *)
AdmissionFails(s) ==
    /\ seat[s] = "starting"
    /\ bound' = Unbind({s})
    /\ seat' = [seat EXCEPT ![s] = "lost"]
    /\ pty' = [pty EXCEPT ![s] = "gone"]
    /\ UNCHANGED <<busVars, bridgeVars, screenVars, instrVars>>

PtyDies(s) ==
    /\ pty[s] = "up"
    /\ pty' = [pty EXCEPT ![s] = "dead"]
    /\ UNCHANGED <<busVars, bridgeVars, bound, seat, screenVars, instrVars>>

(* The exit listeners run: the role is free, and the host tears the seat   *)
(* down unless a result is owed to it, when the teardown throws and the    *)
(* seat stays live without a terminal.                                     *)
ExitNoticed(s) ==
    /\ pty[s] = "dead"
    /\ pty' = [pty EXCEPT ![s] = "gone"]
    /\ bound' = Unbind({s})
    /\ seat' = IF Live(s) /\ ~Owed(s) THEN [seat EXCEPT ![s] = "lost"] ELSE seat
    /\ UNCHANGED <<busVars, bridgeVars, screenVars, instrVars>>

(* A close or cancel by the host: refused while a result is owed.          *)
Retire(s) ==
    /\ seat[s] = "running" /\ ~Owed(s)
    /\ bound' = Unbind({s})
    /\ seat' = [seat EXCEPT ![s] = "closed"]
    /\ pty' = [pty EXCEPT ![s] = "gone"]
    /\ UNCHANGED <<busVars, bridgeVars, screenVars, instrVars>>

(* The process ends: the registry, the in-flight set, the timers and the   *)
(* pending instructions go with it, the rows stay.  It may end between an  *)
(* Enter and its mark.                                                     *)
Restart ==
    /\ UNCHANGED screenVars \/ \E i \in inFlight : Enter(into[i])
    /\ \E s \in Seats : seat[s] = "spawning" \/ Live(s)
    /\ bound' = [r \in Roles |-> None]
    /\ seat' = [s \in Seats |-> IF seat[s] = "spawning" \/ Live(s) THEN "lost" ELSE seat[s]]
    /\ pty' = [s \in Seats |-> IF pty[s] = "none" THEN "none" ELSE "gone"]
    /\ inFlight' = {}
    /\ instr' = [k \in Instructions |-> IF instr[k] = "typed" THEN "failed" ELSE instr[k]]
    /\ UNCHANGED <<busVars, pushed, into, failures, dest>>

-----------------------------------------------------------------------------
(* peerBusNotify.  A Task goes to the running holder of a role, a result   *)
(* to the Task's coordinator, running and live, whatever its terminal is.  *)

Notify(s, kind) ==
    /\ posted < MaxMessages
    /\ seat[s] = "running"
    /\ kind = "task" => bound[Role[s]] = s
    /\ posted' = posted + 1
    /\ row' = [row EXCEPT ![posted + 1] = [role |-> Role[s], session |-> s, kind |-> kind]]
    /\ UNCHANGED <<bridgeVars, seatVars, screenVars, instrVars>>

(* The poll: rows without pushed_at, oldest first, that are not in flight  *)
(* and whose role is held.  Malformed ones are marked and passed over, the *)
(* first other one is typed and ends the tick; so does a mark that throws. *)

Held == {i \in 1 .. posted : bound[row[i].role] # None}
Deliverable == Held \ (pushed \cup inFlight)
Retryable == Held \ pushed
OldestOpen == {i \in Deliverable : \A j \in (1 .. posted) \ pushed : i <= j}

Oldest(S) == {i \in S \ Malformed : \A j \in S \ Malformed : i <= j}
Newest(S) == {i \in S \ Malformed : \A j \in S \ Malformed : i >= j}

TickDue == TickAfterEnter => inFlight = {}

Type(i) ==
    /\ inFlight' = inFlight \cup {i}
    /\ into' = [into EXCEPT ![i] = bound[row[i].role]]
    /\ line' = Typed(bound[row[i].role], i)

Tick(ready, first) ==
    /\ TickDue /\ ready # {}
    /\ \/ /\ first = {} /\ pushed' = pushed \cup ready
          /\ UNCHANGED <<inFlight, into, line, failures>>
       \/ \E i \in first :
             /\ Type(i) /\ pushed' = pushed \cup {j \in ready \cap Malformed : j < i}
             /\ UNCHANGED failures
       \/ \E m \in ready \cap Malformed :
             /\ failures < MaxMarkFailures /\ failures' = failures + 1
             /\ \A i \in first : m < i
             /\ pushed' = pushed \cup {j \in ready \cap Malformed : j < m}
             /\ UNCHANGED <<inFlight, into, line>>
    /\ UNCHANGED <<busVars, seatVars, turns, instrVars>>

PollInFlightToo == Tick(Retryable, Oldest(Retryable))
PollNewest == Tick(Deliverable, Newest(Deliverable))
PollOldestOnly == Tick(OldestOpen, Oldest(OldestOpen))

Poll == Tick(Deliverable, Oldest(Deliverable))

MarkBeforeEnter(i) ==
    /\ i \in inFlight
    /\ IF i \notin pushed
       THEN pushed' = pushed \cup {i} /\ UNCHANGED <<inFlight, screenVars>>
       ELSE inFlight' = inFlight \ {i} /\ Enter(into[i]) /\ UNCHANGED pushed
    /\ UNCHANGED <<busVars, failures, into, seatVars, instrVars>>

EnterIfMarked(i) ==
    /\ i \in inFlight /\ inFlight' = inFlight \ {i}
    /\ \/ pushed' = pushed \cup {i} /\ Enter(into[i]) /\ UNCHANGED failures
       \/ /\ failures < MaxMarkFailures /\ failures' = failures + 1
          /\ UNCHANGED <<pushed, screenVars>>
    /\ UNCHANGED <<busVars, into, seatVars, instrVars>>

(* The timer: Enter, then the mark, which may throw and leave the row to   *)
(* a later tick.  What the write returns is not looked at.                 *)
EnterFires(i) ==
    /\ i \in inFlight
    /\ Enter(into[i])
    /\ inFlight' = inFlight \ {i}
    /\ \/ pushed' = pushed \cup {i} /\ UNCHANGED failures
       \/ /\ failures < MaxMarkFailures /\ failures' = failures + 1
          /\ UNCHANGED pushed
    /\ UNCHANGED <<busVars, into, seatVars, instrVars>>

-----------------------------------------------------------------------------
(* submitAgentSessionInstruction: text, HERMES_INPUT_SETTLE_MS, Enter, each*)
(* between two checks that the session is live with this terminal.  A write*)
(* to a terminal that has died unnoticed may be accepted or not.           *)

Accepted(s) == CASE pty[s] = "up" -> {TRUE} [] pty[s] = "dead" -> BOOLEAN [] OTHER -> {FALSE}

Instruct(k, s) ==
    /\ instr[k] = "idle" /\ seat[s] \in {"starting", "running", "closed", "lost"}
    /\ dest' = [dest EXCEPT ![k] = s]
    /\ IF Live(s)
       THEN /\ \E ok \in Accepted(s) :
                  instr' = [instr EXCEPT ![k] = IF ok THEN "typed" ELSE "failed"]
            /\ line' = Typed(s, k)
       ELSE instr' = [instr EXCEPT ![k] = "failed"] /\ UNCHANGED line
    /\ UNCHANGED <<busVars, bridgeVars, seatVars, turns>>

InstructionNotEntered(k) ==
    /\ instr[k] = "typed"
    /\ instr' = [instr EXCEPT ![k] = IF Live(dest[k]) THEN "delivered" ELSE "failed"]
    /\ UNCHANGED <<busVars, bridgeVars, seatVars, screenVars, dest>>

InstructionEnter(k) ==
    /\ instr[k] = "typed"
    /\ IF Live(dest[k])
       THEN /\ \E ok \in Accepted(dest[k]) :
                  instr' = [instr EXCEPT ![k] = IF ok THEN "delivered" ELSE "failed"]
            /\ Enter(dest[k])
       ELSE instr' = [instr EXCEPT ![k] = "failed"] /\ UNCHANGED screenVars
    /\ UNCHANGED <<busVars, bridgeVars, seatVars, dest>>

SeatStep(s) ==
    \/ AdmitBegin(s) \/ Spawned(s) \/ Ready(s) \/ AdmissionFails(s)
    \/ PtyDies(s) \/ ExitNoticed(s) \/ Retire(s)

Next ==
    \/ \E s \in Seats : SeatStep(s)
    \/ Restart
    \/ \E s \in Seats, kind \in {"task", "result"} : Notify(s, kind)
    \/ Poll
    \/ \E i \in Slots : EnterFires(i)
    \/ \E k \in Instructions, s \in Seats : Instruct(k, s)
    \/ \E k \in Instructions : InstructionEnter(k)

Spec == Init /\ [][Next]_vars

(* The interval and the timeouts are the runtime's timers; a timer that is *)
(* due and not cleared fires.                                              *)
FairSpec == Spec /\ WF_vars(Poll) /\ \A i \in Slots : WF_vars(EnterFires(i))

-----------------------------------------------------------------------------
(* Properties.                                                             *)

Messages == {i \in 1 .. posted : i \notin Malformed}
Places(t, x) == {p \in DOMAIN t : t[p] = x}
Given(s, x) == UNION {{n} \X Places(turns[s][n], x) : n \in DOMAIN turns[s]}
Count(s, x) == Cardinality(Given(s, x))

(* Duplicate live roles reject instead of rerouting messages: while the    *)
(* addressee's terminal is up, its messages are typed into no other one.   *)
NeverRerouted == \A i \in Messages :
    into[i] \notin {None, row[i].session} => pty[row[i].session] # "up"

(* The holder of a role keeps it until it gives it up: no admission takes  *)
(* it over in one step, however two admissions interleave.                 *)
HolderNotDisplaced == [][\A r \in Roles :
    bound[r] # None => bound'[r] \in {None, bound[r]}]_vars

(* A message marked as pushed was submitted, if the terminal it was typed  *)
(* into has not died: the mark never runs ahead of Enter.                  *)
PushedReachesSurvivor == \A i \in Messages \cap pushed :
    pty[into[i]] = "up" => i \in Submitted(into[i])

(* The teardown gate holds through the delay between text and Enter: a     *)
(* running seat whose terminal works is closed only when every result      *)
(* addressed to it has been submitted to it.                               *)
ResultsReadBeforeClose == [][\A s \in Seats :
    seat[s] = "running" /\ seat'[s] = "closed" /\ pty[s] = "up" =>
        \A i \in Messages : row[i].session = s /\ row[i].kind = "result" => i \in Submitted(s)]_vars

(* A terminal is given a message twice only when a mark of it threw: not   *)
(* because a tick finds it unmarked while its Enter is pending.            *)
NoDuplicateWithoutFailure == \A i \in Messages, s \in Seats : Count(s, i) <= 1 + failures

(* One terminal receives the messages of its role in the order they were   *)
(* created, retries included.                                              *)
InOrder == \A s \in Seats : \A n \in DOMAIN turns[s] : \A i, j \in Messages :
    /\ i < j /\ row[i].role = row[j].role
    /\ j \in ToSet(turns[s][n]) /\ i \in Submitted(s)
    => \E m \in 1 .. n : i \in ToSet(turns[s][m])

(* What submitAgentSessionInstruction reported as done was submitted, also *)
(* when a message's Enter came in between, unless the terminal has died.   *)
InstructionReachesSurvivor == \A k \in Instructions :
    instr[k] = "delivered" /\ pty[dest[k]] = "up" => k \in Submitted(dest[k])

(* Two writers share a line: what stands on the line of a working terminal *)
(* has an Enter of its own still to come there, so that no text is left    *)
(* over to be submitted with the next one's.                               *)
NothingStranded == \A s \in Seats : pty[s] = "up" => \A x \in ToSet(line[s]) :
    \/ x \in inFlight /\ into[x] = s
    \/ x \in Instructions /\ instr[x] = "typed" /\ dest[x] = s

(* The mark is set only after Enter is written: a seat that the host saw   *)
(* die between the text and its Enter never has the message marked.        *)
DiedMidInjectNotMarked == [][\A i \in Messages :
    i \in pushed' \ pushed /\ pty[into[i]] = "gone" => i \notin ToSet(line[into[i]])]_vars

(* A message for a role that stays held is pushed, whatever waits for other*)
(* roles, is malformed or fails to be marked before it.                    *)
HeldRoleDrains == \A i \in Slots :
    (i \in (1 .. posted) \ pushed) ~> (i \in pushed \/ i \notin Held)
=============================================================================
