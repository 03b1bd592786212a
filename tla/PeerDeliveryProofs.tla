------------------------ MODULE PeerDeliveryProofs --------------------------
(* Theorems about PeerDelivery, for every number of seats, roles, messages *)
(* and instructions and with or without the timing assumption.             *)
EXTENDS PeerDelivery, FiniteSetTheorems, WellFoundedInduction, TLAPS

(* Who holds a role, and what that says of the terminals.                  *)
HolderInv ==
    /\ bound \in [Roles -> Seats \cup {None}]
    /\ seat \in [Seats -> {"new", "spawning", "starting", "running", "closed", "lost"}]
    /\ pty \in [Seats -> {"none", "up", "dead", "gone"}]
    /\ \A r \in Roles : bound[r] # None => Role[bound[r]] = r
    /\ \A s \in Seats : seat[s] \in {"new", "spawning"} => pty[s] = "none" /\ bound[Role[s]] # s
    /\ \A s \in Seats : pty[s] \in {"up", "dead"} =>
          bound[Role[s]] = s /\ seat[s] \in {"starting", "running"}

(* What is addressed and where it was typed.                               *)
RoutingInv ==
    /\ posted \in 0 .. MaxMessages
    /\ row \in [Slots -> Rows]
    /\ into \in [Slots -> Seats \cup {None}]
    /\ \A i \in Slots : i > posted => into[i] = None
    /\ Malformed \subseteq 1 .. posted
    /\ \A i \in Messages :
          /\ row[i].session \in Seats /\ row[i].role = Role[row[i].session]
          /\ seat[row[i].session] \notin {"new", "spawning"}
    /\ NeverRerouted

LEMMA RoleOfSeat == \A s \in Seats : Role[s] \in Roles
BY DEF Roles

LEMMA HolderStart == Init => HolderInv
BY DeliveryAssumption DEF Init, HolderInv, Roles

(* Freeing the roles of some seats touches no other holder.                *)
LEMMA UnbindHolders ==
    ASSUME HolderInv, NEW S \in SUBSET Seats
    PROVE  /\ Unbind(S) \in [Roles -> Seats \cup {None}]
           /\ \A r \in Roles : Unbind(S)[r] \in {bound[r], None}
           /\ \A s \in Seats : s \notin S /\ bound[Role[s]] = s => Unbind(S)[Role[s]] = s
BY RoleOfSeat DEF Unbind, HolderInv

LEMMA HolderSeatStep ==
    ASSUME HolderInv, NEW s \in Seats, SeatStep(s)
    PROVE  HolderInv'
<1> USE RoleOfSeat, DeliveryAssumption
<1>1. CASE AdmitBegin(s) \/ Ready(s) \/ PtyDies(s)
  BY <1>1 DEF HolderInv, AdmitBegin, Ready, PtyDies
<1>2. CASE Spawned(s)
  <2>1. CASE bound[Role[s]] = None
    BY <1>2, <2>1 DEF HolderInv, Spawned
  <2>2. CASE bound[Role[s]] # None
    BY <1>2, <2>2 DEF HolderInv, Spawned
  <2> QED BY <2>1, <2>2
<1>3. CASE AdmissionFails(s) \/ ExitNoticed(s) \/ Retire(s)
  <2>1. bound' = Unbind({s}) /\ pty' = [pty EXCEPT ![s] = "gone"]
    BY <1>3 DEF AdmissionFails, ExitNoticed, Retire
  <2>2. /\ seat' \in [Seats -> {"new", "spawning", "starting", "running", "closed", "lost"}]
        /\ seat[s] \notin {"new", "spawning"} /\ seat'[s] \notin {"new", "spawning"}
        /\ \A q \in Seats \ {s} : seat'[q] = seat[q]
    BY <1>3 DEF HolderInv, AdmissionFails, ExitNoticed, Retire, Live
  <2>3. /\ bound' \in [Roles -> Seats \cup {None}]
        /\ \A r \in Roles : bound'[r] \in {bound[r], None}
        /\ \A q \in Seats \ {s} : bound[Role[q]] = q => bound'[Role[q]] = q
    BY <2>1, UnbindHolders
  <2>4. pty' \in [Seats -> {"none", "up", "dead", "gone"}] /\ pty'[s] = "gone"
        /\ \A q \in Seats \ {s} : pty'[q] = pty[q]
    BY <2>1 DEF HolderInv
  <2>5. \A r \in Roles : bound'[r] # None => Role[bound'[r]] = r
    BY <2>3 DEF HolderInv
  <2>6. \A q \in Seats : seat'[q] \in {"new", "spawning"} => pty'[q] = "none" /\ bound'[Role[q]] # q
    BY <2>2, <2>3, <2>4 DEF HolderInv
  <2>7. \A q \in Seats : pty'[q] \in {"up", "dead"} => bound'[Role[q]] = q
    BY <2>3, <2>4 DEF HolderInv
  <2> QED BY <2>2, <2>3, <2>4, <2>5, <2>6, <2>7 DEF HolderInv
<1> QED BY <1>1, <1>2, <1>3 DEF SeatStep

LEMMA HolderStep == HolderInv /\ [Next]_vars => HolderInv'
<1> SUFFICES ASSUME HolderInv, [Next]_vars PROVE HolderInv'
  OBVIOUS
<1>1. CASE \E s \in Seats : SeatStep(s)
  BY <1>1, HolderSeatStep
<1>2. CASE Restart
  BY <1>2, RoleOfSeat, DeliveryAssumption DEF HolderInv, Restart, Live
<1>3. CASE UNCHANGED seatVars
  BY <1>3 DEF HolderInv, seatVars
<1>4. (~ \E s \in Seats : SeatStep(s)) /\ ~Restart => UNCHANGED seatVars
  BY DEF Next, vars, Notify, Poll, Tick, EnterFires, Instruct, InstructionEnter, seatVars
<1> QED BY <1>1, <1>2, <1>3, <1>4

(* Roles are never taken over.                                             *)
LEMMA HolderYields ==
    HolderInv /\ [Next]_vars => \A r \in Roles : bound[r] # None => bound'[r] \in {None, bound[r]}
<1> SUFFICES ASSUME HolderInv, [Next]_vars, NEW r \in Roles, bound[r] # None
             PROVE  bound'[r] \in {None, bound[r]}
  OBVIOUS
<1>1. CASE \E s \in Seats : SeatStep(s)
  <2> PICK s \in Seats : SeatStep(s) BY <1>1
  <2>1. CASE Spawned(s)
    BY <2>1, RoleOfSeat DEF HolderInv, Spawned
  <2>2. CASE AdmissionFails(s) \/ ExitNoticed(s) \/ Retire(s)
    BY <2>2 DEF AdmissionFails, ExitNoticed, Retire, Unbind
  <2>3. CASE AdmitBegin(s) \/ Ready(s) \/ PtyDies(s)
    BY <2>3 DEF AdmitBegin, Ready, PtyDies
  <2> QED BY <2>1, <2>2, <2>3 DEF SeatStep
<1>2. CASE Restart
  BY <1>2 DEF Restart
<1>3. CASE UNCHANGED bound
  BY <1>3
<1>4. (~ \E s \in Seats : SeatStep(s)) /\ ~Restart => UNCHANGED bound
  BY DEF Next, vars, Notify, Poll, Tick, EnterFires, Instruct, InstructionEnter, seatVars
<1> QED BY <1>1, <1>2, <1>3, <1>4

LEMMA RoutingStart == Init => RoutingInv
<1> SUFFICES ASSUME Init PROVE RoutingInv
  OBVIOUS
<1>1. Malformed \in SUBSET {1} /\ posted = Cardinality(Malformed) /\ (posted = 0 \/ posted = 1)
  <2>1. CASE LegacyRole = None
    BY <2>1, FS_EmptySet DEF Init, Malformed
  <2>2. CASE LegacyRole # None
    BY <2>2, FS_Singleton DEF Init, Malformed
  <2> QED BY <2>1, <2>2
<1>2. Messages = {}
  <2>1. CASE LegacyRole = None
    BY <2>1, FS_EmptySet DEF Init, Malformed, Messages
  <2>2. CASE LegacyRole # None
    BY <2>2, <1>1 DEF Init, Malformed, Messages
  <2> QED BY <2>1, <2>2
<1>3. row \in [Slots -> Rows]
  BY DeliveryAssumption DEF Init, Rows, Blank, Roles
<1>4. into = [i \in Slots |-> None] /\ posted \in 0 .. MaxMessages
  BY <1>1, DeliveryAssumption DEF Init
<1>5. Malformed \subseteq 1 .. posted
  <2>1. CASE LegacyRole = None
    BY <2>1 DEF Malformed
  <2>2. CASE LegacyRole # None
    <3>1. Malformed = {1} BY <2>2 DEF Malformed
    <3>2. posted = 1 BY <3>1, FS_Singleton DEF Init
    <3> QED BY <3>1, <3>2
  <2> QED BY <2>1, <2>2
<1> QED BY <1>2, <1>3, <1>4, <1>5 DEF RoutingInv, NeverRerouted

(* A session that was addressed has been spawned, and a terminal that has  *)
(* been up does not come up again.                                         *)
LEMMA SeatsAge ==
    ASSUME HolderInv, [Next]_vars
    PROVE  \A s \in Seats : seat[s] \notin {"new", "spawning"} =>
              /\ seat'[s] \notin {"new", "spawning"}
              /\ pty'[s] = "up" => pty[s] = "up"
<1>1. CASE \E s \in Seats : SeatStep(s)
  <2> PICK s \in Seats : SeatStep(s) BY <1>1
  <2>1. CASE AdmitBegin(s) \/ Ready(s) \/ PtyDies(s)
    BY <2>1 DEF HolderInv, AdmitBegin, Ready, PtyDies
  <2>2. CASE Spawned(s)
    BY <2>2 DEF HolderInv, Spawned
  <2>3. CASE AdmissionFails(s) \/ ExitNoticed(s) \/ Retire(s)
    BY <2>3 DEF HolderInv, AdmissionFails, ExitNoticed, Retire, Live
  <2> QED BY <2>1, <2>2, <2>3 DEF SeatStep
<1>2. CASE Restart
  BY <1>2 DEF HolderInv, Restart, Live
<1>3. CASE UNCHANGED <<seat, pty>>
  BY <1>3
<1>4. (~ \E s \in Seats : SeatStep(s)) /\ ~Restart => UNCHANGED <<seat, pty>>
  BY DEF Next, vars, Notify, Poll, Tick, EnterFires, Instruct, InstructionEnter, seatVars
<1> QED BY <1>1, <1>2, <1>3, <1>4

(* A tick types a message into the holder of its role: the addressee, or   *)
(* another one when the addressee's terminal is no longer up.              *)
LEMMA TypedIntoHolder ==
    ASSUME HolderInv, RoutingInv, NEW i \in Held \ Malformed
    PROVE  /\ bound[row[i].role] \in Seats
           /\ bound[row[i].role] # row[i].session => pty[row[i].session] # "up"
<1>1. i \in Messages
  BY DEF Held, Messages
<1> QED BY <1>1, RoleOfSeat DEF Held, HolderInv, RoutingInv

LEMMA RoutingStep == HolderInv /\ RoutingInv /\ [Next]_vars => RoutingInv'
<1> SUFFICES ASSUME HolderInv, RoutingInv, [Next]_vars PROVE RoutingInv'
  OBVIOUS
<1>0. Malformed' = Malformed
  BY DEF Malformed
<1>1. CASE UNCHANGED <<posted, row, into>>
  BY <1>0, <1>1, SeatsAge DEF RoutingInv, NeverRerouted, Messages
<1>2. ASSUME NEW s \in Seats, NEW kind \in {"task", "result"}, Notify(s, kind)
      PROVE  RoutingInv'
  <2> USE <1>2
  <2>1. posted + 1 \in Slots /\ posted' = posted + 1 /\ UNCHANGED <<into, seat, pty>>
    BY DeliveryAssumption DEF Notify, RoutingInv, Slots, bridgeVars, seatVars
  <2>2. row' \in [Slots -> Rows]
    BY <2>1, RoleOfSeat DEF Notify, RoutingInv, Rows
  <2>3. posted + 1 \notin Malformed
    BY <2>1 DEF RoutingInv
  <2>4. /\ row'[posted + 1].session = s /\ row'[posted + 1].role = Role[s]
        /\ \A i \in Slots \ {posted + 1} : row'[i] = row[i]
    BY <2>1 DEF Notify, RoutingInv
  <2>5. Messages' \ {posted + 1} = Messages /\ Messages \subseteq Slots
    <3>1. posted \in Nat /\ 1 .. posted \subseteq Slots /\ posted + 1 \notin 1 .. posted
      BY DeliveryAssumption DEF RoutingInv, Slots
    <3>2. 1 .. posted' = (1 .. posted) \cup {posted + 1}
      BY <2>1, <3>1
    <3> QED BY <1>0, <2>3, <3>1, <3>2 DEF Messages
  <2>6. \A i \in Messages' :
          /\ row'[i].session \in Seats /\ row'[i].role = Role[row'[i].session]
          /\ seat'[row'[i].session] \notin {"new", "spawning"}
    BY <2>1, <2>4, <2>5 DEF RoutingInv, Notify
  <2>7. NeverRerouted'
    BY <2>1, <2>4, <2>5 DEF RoutingInv, NeverRerouted
  <2>8. posted' \in 0 .. MaxMessages /\ Malformed' \subseteq 1 .. posted' /\ \A i \in Slots : i > posted' => into'[i] = None
    BY <1>0, <2>1 DEF RoutingInv, Slots
  <2> QED BY <2>1, <2>2, <2>6, <2>7, <2>8 DEF RoutingInv
<1>3. ASSUME Poll PROVE RoutingInv'
  <2>1. UNCHANGED <<posted, row, seat, pty, Messages>>
    BY <1>0, <1>3 DEF Poll, Tick, busVars, seatVars, Messages
  <2>2. CASE UNCHANGED into
    BY <1>1, <2>1, <2>2
  <2>3. CASE \E i \in Oldest(Deliverable) : Type(i)
    <3> PICK i \in Oldest(Deliverable) : Type(i) BY <2>3
    <3>1. i \in Held \ Malformed /\ i \in Slots /\ i <= posted
      BY DeliveryAssumption DEF Oldest, Deliverable, Held, RoutingInv, Slots
    <3>2. into' = [into EXCEPT ![i] = bound[row[i].role]]
      BY DEF Type
    <3>3. /\ bound[row[i].role] \in Seats
          /\ bound[row[i].role] # row[i].session => pty[row[i].session] # "up"
      BY <3>1, TypedIntoHolder
    <3>4. NeverRerouted'
      BY <2>1, <3>1, <3>2, <3>3 DEF RoutingInv, NeverRerouted, Messages, Slots
    <3>5. \A j \in Slots : j > posted => into'[j] = None
      BY <3>1, <3>2 DEF RoutingInv, Slots
    <3>6. into' \in [Slots -> Seats \cup {None}]
      BY <3>1, <3>2, <3>3 DEF RoutingInv
    <3> QED BY <1>0, <2>1, <3>4, <3>5, <3>6 DEF RoutingInv
  <2> QED BY <1>3, <2>2, <2>3 DEF Poll, Tick
<1>4. CASE \E i \in Slots : EnterFires(i)
  BY <1>1, <1>4 DEF EnterFires, busVars
<1>5. CASE \E k \in Instructions, s \in Seats : Instruct(k, s)
  BY <1>1, <1>5 DEF Instruct, busVars, bridgeVars
<1>6. CASE \E k \in Instructions : InstructionEnter(k)
  BY <1>1, <1>6 DEF InstructionEnter, busVars, bridgeVars
<1>7. CASE Restart
  BY <1>1, <1>7 DEF Restart, busVars
<1>8. CASE \E s \in Seats : SeatStep(s)
  BY <1>1, <1>8 DEF SeatStep, AdmitBegin, Spawned, Ready, AdmissionFails, PtyDies,
     ExitNoticed, Retire, busVars, bridgeVars
<1>9. CASE UNCHANGED vars
  BY <1>1, <1>9 DEF vars, busVars, bridgeVars
<1> QED BY <1>2, <1>3, <1>4, <1>5, <1>6, <1>7, <1>8, <1>9 DEF Next

-----------------------------------------------------------------------------
(* The terminal of a live addressee is the only one its messages reach.    *)
THEOREM MessagesNotRerouted == Spec => []NeverRerouted
<1>1. Init => HolderInv /\ RoutingInv
  BY HolderStart, RoutingStart
<1>2. HolderInv /\ RoutingInv /\ [Next]_vars => (HolderInv /\ RoutingInv)'
  BY HolderStep, RoutingStep
<1>3. RoutingInv => NeverRerouted
  BY DEF RoutingInv
<1> QED BY <1>1, <1>2, <1>3, PTL DEF Spec

(* A role that is held is given up before it is held by another.           *)
THEOREM HolderKeepsRole == Spec => HolderNotDisplaced
<1>1. HolderInv /\ [Next]_vars =>
        [\A r \in Roles : bound[r] # None => bound'[r] \in {None, bound[r]}]_vars
  BY HolderYields
<1> QED BY <1>1, HolderStart, HolderStep, PTL DEF Spec, HolderNotDisplaced

-----------------------------------------------------------------------------
(* What reaches the terminals' input: a message's text, its Enter and its  *)
(* mark, an instruction, and the gate of a close.                          *)
Inputs == Slots \cup Instructions

(* The types that HolderInv and RoutingInv do not give.                    *)
InputTyped ==
    /\ pushed \in SUBSET Slots /\ inFlight \in SUBSET Slots
    /\ failures \in 0 .. MaxMarkFailures
    /\ line \in [Seats -> Seq(Inputs)]
    /\ turns \in [Seats -> Seq(Seq(Inputs))]
    /\ instr \in [Instructions -> {"idle", "typed", "delivered", "failed"}]
    /\ dest \in [Instructions -> Seats \cup {None}]

(* What a terminal was given or still has on its line.                     *)
Reached(s) == Submitted(s) \cup ToSet(line[s])

(* A row in flight was typed, a marked one was submitted, and so for the   *)
(* instructions, as far as the terminal is still up; none of it concerns a *)
(* terminal that is yet to come up.                                        *)
RowsReach ==
    /\ pushed \cup inFlight \subseteq 1 .. posted
    /\ \A i \in inFlight : into[i] \in Seats
    /\ \A i \in Messages \cap pushed : into[i] \in Seats
    /\ \A i \in Slots : into[i] \in Seats => seat[into[i]] \notin {"new", "spawning"}
    /\ \A i \in inFlight : pty[into[i]] = "up" => i \in Reached(into[i])
    /\ PushedReachesSurvivor
InstructionsReach ==
    /\ \A k \in Instructions : instr[k] \in {"typed", "delivered"} =>
          dest[k] \in Seats /\ seat[dest[k]] \notin {"new", "spawning"}
    /\ \A k \in Instructions : instr[k] = "typed" /\ pty[dest[k]] = "up" => k \in Reached(dest[k])
    /\ InstructionReachesSurvivor

InputInv == HolderInv /\ RoutingInv /\ InputTyped /\ RowsReach /\ InstructionsReach

-----------------------------------------------------------------------------
LEMMA AppendSet ==
    ASSUME NEW T, NEW q \in Seq(T), NEW x \in T
    PROVE  ToSet(Append(q, x)) = ToSet(q) \cup {x}
<1>1. DOMAIN Append(q, x) = DOMAIN q \cup {Len(q) + 1}
  OBVIOUS
<1>2. /\ \A i \in DOMAIN q : Append(q, x)[i] = q[i]
      /\ Append(q, x)[Len(q) + 1] = x
  OBVIOUS
<1> QED BY <1>1, <1>2 DEF ToSet

(* Text adds to the line of a terminal that is up, and to nothing else.    *)
LEMMA TypingAdds ==
    ASSUME InputTyped, NEW s \in Seats, NEW x \in Inputs, line' = Typed(s, x), turns' = turns
    PROVE  /\ line' \in [Seats -> Seq(Inputs)]
           /\ \A q \in Seats : Submitted(q)' = Submitted(q) /\ Reached(q) \subseteq Reached(q)'
           /\ pty[s] = "up" => x \in Reached(s)'
<1>1. \A q \in Seats : Submitted(q)' = Submitted(q)
  BY DEF Submitted
<1>2. CASE pty[s] = "up"
  <2>1. line' = [line EXCEPT ![s] = Append(line[s], x)] /\ line[s] \in Seq(Inputs)
    BY <1>2 DEF Typed, InputTyped
  <2>2. ToSet(line'[s]) = ToSet(line[s]) \cup {x}
    BY <2>1, AppendSet DEF InputTyped
  <2>3. \A q \in Seats : ToSet(line[q]) \subseteq ToSet(line'[q])
    BY <2>1, <2>2 DEF InputTyped
  <2>4. line' \in [Seats -> Seq(Inputs)]
    BY <2>1 DEF InputTyped
  <2> QED BY <1>1, <2>2, <2>3, <2>4 DEF Reached
<1>3. CASE pty[s] # "up"
  BY <1>1, <1>3 DEF Typed, Reached, InputTyped
<1> QED BY <1>2, <1>3

(* Enter moves a line to the turns; afterwards nothing on it is pending.   *)
LEMMA EnterSubmits ==
    ASSUME InputTyped, NEW s \in Seats, Enter(s)
    PROVE  /\ line' \in [Seats -> Seq(Inputs)] /\ turns' \in [Seats -> Seq(Seq(Inputs))]
           /\ \A q \in Seats : Submitted(q) \subseteq Submitted(q)' /\ Reached(q) \subseteq Reached(q)'
           /\ pty[s] = "up" => Reached(s) \subseteq Submitted(s)'
<1>1. CASE pty[s] = "up" /\ line[s] # <<>>
  <2>1. /\ turns' = [turns EXCEPT ![s] = Append(turns[s], line[s])]
        /\ line' = [line EXCEPT ![s] = <<>>]
        /\ turns[s] \in Seq(Seq(Inputs)) /\ line[s] \in Seq(Inputs)
    BY <1>1 DEF Enter, InputTyped
  <2>2. ToSet(turns'[s]) = ToSet(turns[s]) \cup {line[s]}
    BY <2>1, AppendSet DEF InputTyped
  <2>3. Submitted(s)' = Submitted(s) \cup ToSet(line[s])
    BY <2>2 DEF Submitted
  <2>4. \A q \in Seats \ {s} : Submitted(q)' = Submitted(q) /\ line'[q] = line[q]
    BY <2>1 DEF Submitted, InputTyped
  <2>5. line' \in [Seats -> Seq(Inputs)] /\ turns' \in [Seats -> Seq(Seq(Inputs))]
    BY <2>1 DEF InputTyped
  <2> QED BY <2>3, <2>4, <2>5 DEF Reached
<1>2. CASE ~(pty[s] = "up" /\ line[s] # <<>>)
  <2>1. UNCHANGED <<line, turns>>
    BY <1>2 DEF Enter, screenVars
  <2>2. line[s] = <<>> => ToSet(line[s]) = {}
    BY DEF ToSet
  <2> QED BY <1>2, <2>1, <2>2 DEF Submitted, Reached, InputTyped
<1> QED BY <1>1, <1>2

(* Text or Enter, whichever it is, loses nothing.                          *)
NothingLost ==
    /\ line' \in [Seats -> Seq(Inputs)] /\ turns' \in [Seats -> Seq(Seq(Inputs))]
    /\ \A s \in Seats : Submitted(s) \subseteq Submitted(s)' /\ Reached(s) \subseteq Reached(s)'

LEMMA SmallestOf ==
    ASSUME NEW S \in SUBSET Nat, S # {}
    PROVE  \E m \in S : \A k \in S : m <= k
<1> DEFINE Less == OpToRel(<, Nat)
<1>1. IsWellFoundedOn(Less, Nat)
  BY Zenon, NatLessThanWellFounded
<1>2. \A x, y \in Nat : <<x, y>> \in Less <=> x < y
  BY Zenon DEF OpToRel
<1> HIDE DEF Less
<1>3. PICK m \in S : \A k \in S : ~(<<k, m>> \in Less)
  BY <1>1, WFMin
<1>4. \A k \in S : ~(k < m)
  BY <1>2, <1>3
<1> QED BY <1>4

(* A tick that types nothing finds malformed rows only.                    *)
LEMMA TickPassesMalformed ==
    ASSUME RoutingInv, Oldest(Deliverable) = {}
    PROVE  Deliverable \subseteq Malformed
<1>1. Deliverable \ Malformed \in SUBSET Nat
  BY DEF Deliverable, Held, RoutingInv
<1>2. CASE Deliverable \ Malformed # {}
  <2>1. \E m \in Deliverable \ Malformed : \A k \in Deliverable \ Malformed : m <= k
    BY <1>1, <1>2, SmallestOf
  <2> QED BY <2>1 DEF Oldest
<1> QED BY <1>2

-----------------------------------------------------------------------------
LEMMA InputStart == Init => InputInv
<1> SUFFICES ASSUME Init PROVE InputInv
  OBVIOUS
<1>1. HolderInv /\ RoutingInv
  BY HolderStart, RoutingStart
<1>2. InputTyped
  BY DeliveryAssumption DEF Init, InputTyped
<1>3. RowsReach /\ InstructionsReach
  BY DeliveryAssumption DEF Init, RowsReach, InstructionsReach, PushedReachesSurvivor,
     InstructionReachesSurvivor
<1> QED BY <1>1, <1>2, <1>3 DEF InputInv

(* Where nothing is typed, entered or marked, what was reached stays so.   *)
LEMMA ReachKept ==
    ASSUME InputInv, [Next]_vars, NothingLost,
           inFlight' \subseteq inFlight, UNCHANGED <<pushed, into>>, posted' \in {posted, posted + 1}
    PROVE  RowsReach'
<1> USE DEF InputInv
<1>1. \A s \in Seats : seat[s] \notin {"new", "spawning"} =>
        seat'[s] \notin {"new", "spawning"} /\ (pty'[s] = "up" => pty[s] = "up")
  BY SeatsAge
<1>0. posted \in Nat /\ 1 .. posted \subseteq 1 .. posted'
  BY DEF RoutingInv
<1>2. Messages \subseteq Slots /\ Messages' \cap pushed \subseteq Messages
  BY <1>0, DeliveryAssumption DEF RoutingInv, Messages, Slots, Malformed, RowsReach
<1>3. inFlight \subseteq Slots
  BY DEF InputTyped
<1>4. (\A i \in inFlight : into[i] \in Seats /\ (pty[into[i]] = "up" => i \in Reached(into[i])))'
  BY <1>1, <1>3 DEF RowsReach, NothingLost
<1>5. (\A i \in Messages \cap pushed :
         into[i] \in Seats /\ (pty[into[i]] = "up" => i \in Submitted(into[i])))'
  BY <1>1, <1>2 DEF RowsReach, NothingLost, PushedReachesSurvivor
<1>6. \A i \in Slots : into'[i] \in Seats => seat'[into'[i]] \notin {"new", "spawning"}
  BY <1>1 DEF RowsReach
<1>7. (pushed \cup inFlight \subseteq 1 .. posted)'
  BY <1>0 DEF RowsReach
<1> QED BY <1>4, <1>5, <1>6, <1>7 DEF RowsReach, PushedReachesSurvivor

LEMMA InstructionsKept ==
    ASSUME InputInv, [Next]_vars, NothingLost, dest' = dest,
           \A k \in Instructions : instr'[k] # instr[k] => instr'[k] = "failed"
    PROVE  InstructionsReach'
<1> USE DEF InputInv
<1>1. \A s \in Seats : seat[s] \notin {"new", "spawning"} =>
        seat'[s] \notin {"new", "spawning"} /\ (pty'[s] = "up" => pty[s] = "up")
  BY SeatsAge
<1>2. ASSUME NEW k \in Instructions, instr'[k] \in {"typed", "delivered"}
      PROVE  (/\ dest[k] \in Seats /\ seat[dest[k]] \notin {"new", "spawning"}
              /\ instr[k] = "typed" /\ pty[dest[k]] = "up" => k \in Reached(dest[k])
              /\ instr[k] = "delivered" /\ pty[dest[k]] = "up" => k \in Submitted(dest[k]))'
  BY <1>1, <1>2 DEF InstructionsReach, NothingLost, InstructionReachesSurvivor
<1> QED BY <1>2 DEF InstructionsReach, InstructionReachesSurvivor

-----------------------------------------------------------------------------
(* Steps of the seats and the bus type nothing.                            *)
LEMMA QuietInput ==
    ASSUME InputInv, [Next]_vars, UNCHANGED <<bridgeVars, screenVars, instrVars>>,
           posted' \in {posted, posted + 1}
    PROVE  InputTyped' /\ RowsReach' /\ InstructionsReach'
<1> USE DEF InputInv, bridgeVars, screenVars, instrVars
<1>1. NothingLost
  BY DEF NothingLost, InputTyped, Submitted, Reached
<1>2. InputTyped'
  BY DEF InputTyped
<1> QED BY <1>1, <1>2, ReachKept, InstructionsKept

(* The end of the process: at most one Enter, and no terminal stays up.    *)
LEMMA RestartInput ==
    ASSUME InputInv, Restart
    PROVE  InputTyped' /\ RowsReach' /\ InstructionsReach'
<1> USE DEF InputInv
<1>1. NothingLost
  <2>1. CASE UNCHANGED screenVars
    BY <2>1 DEF NothingLost, InputTyped, Submitted, Reached, screenVars
  <2>2. CASE \E i \in inFlight : Enter(into[i])
    BY <2>2, EnterSubmits DEF NothingLost, RowsReach
  <2> QED BY <2>1, <2>2 DEF Restart
<1>2. InputTyped'
  BY <1>1 DEF Restart, InputTyped, NothingLost
<1>3. [Next]_vars
  BY DEF Next
<1>4. RowsReach'
  BY <1>1, <1>3, ReachKept DEF Restart, busVars
<1>5. InstructionsReach'
  BY <1>1, <1>3, InstructionsKept DEF Restart
<1> QED BY <1>2, <1>4, <1>5

(* Enter and the mark: the row is submitted before it is marked.           *)
LEMMA EnterInput ==
    ASSUME InputInv, NEW i \in Slots, EnterFires(i)
    PROVE  InputTyped' /\ RowsReach' /\ InstructionsReach'
<1> USE DEF InputInv
<1>0. /\ i \in inFlight /\ into[i] \in Seats /\ Enter(into[i])
      /\ inFlight' = inFlight \ {i} /\ pushed' \in {pushed, pushed \cup {i}}
      /\ UNCHANGED <<posted, row, into, bound, seat, pty, instr, dest, Messages>>
  BY DEF EnterFires, RowsReach, busVars, seatVars, instrVars, Messages, Malformed
<1>1. NothingLost /\ (pty[into[i]] = "up" => i \in Submitted(into[i])')
  BY <1>0, EnterSubmits DEF NothingLost, RowsReach
<1>2. InputTyped'
  BY <1>0, <1>1, DeliveryAssumption DEF EnterFires, InputTyped, NothingLost
<1>3. [Next]_vars
  BY DEF Next
<1>4. InstructionsReach'
  BY <1>0, <1>1, <1>3, InstructionsKept
<1>5. (\A j \in inFlight : into[j] \in Seats /\ (pty[into[j]] = "up" => j \in Reached(into[j])))'
  BY <1>0, <1>1 DEF RowsReach, NothingLost
<1>6. (\A j \in Messages \cap pushed :
         into[j] \in Seats /\ (pty[into[j]] = "up" => j \in Submitted(into[j])))'
  BY <1>0, <1>1 DEF RowsReach, NothingLost, PushedReachesSurvivor
<1>7. (pushed \cup inFlight \subseteq 1 .. posted)'
  BY <1>0 DEF RowsReach
<1>8. (\A j \in Slots : into[j] \in Seats => seat[into[j]] \notin {"new", "spawning"})'
  BY <1>0 DEF RowsReach
<1> QED BY <1>2, <1>4, <1>5, <1>6, <1>7, <1>8 DEF RowsReach, PushedReachesSurvivor

(* A tick types one row into a terminal that holds its role.               *)
LEMMA PollInput ==
    ASSUME InputInv, Poll
    PROVE  InputTyped' /\ RowsReach' /\ InstructionsReach'
<1> USE DEF InputInv
<1>0. /\ UNCHANGED <<posted, row, bound, seat, pty, turns, instr, dest, Messages>>
      /\ Deliverable \subseteq 1 .. posted /\ Deliverable \cap (pushed \cup inFlight) = {}
      /\ 1 .. posted \subseteq Slots
  BY DeliveryAssumption DEF Poll, Tick, busVars, seatVars, instrVars, Messages, Malformed,
     Deliverable, Held, Slots, RoutingInv
<1>5. failures' \in 0 .. MaxMarkFailures
  <2>1. failures \in 0 .. MaxMarkFailures /\ MaxMarkFailures \in Nat
    BY DeliveryAssumption DEF InputTyped
  <2>2. failures' = failures \/ (failures < MaxMarkFailures /\ failures' = failures + 1)
    BY DEF Poll, Tick
  <2> QED BY <2>1, <2>2
<1>1. [Next]_vars
  BY DEF Next
<1>2. CASE /\ pushed' \subseteq pushed \cup (Deliverable \cap Malformed) /\ pushed \subseteq pushed'
           /\ UNCHANGED <<inFlight, into, line>>
  <2>1. Messages \cap pushed' = Messages \cap pushed
    BY <1>2 DEF Messages
  <2>2. NothingLost
    BY <1>0, <1>2 DEF NothingLost, InputTyped, Submitted, Reached
  <2>3. InputTyped'
    BY <1>0, <1>2, <1>5 DEF InputTyped
  <2>4. InstructionsReach'
    BY <1>0, <1>1, <2>2, InstructionsKept
  <2>5. RowsReach'
    BY <1>0, <1>2, <2>1 DEF RowsReach, PushedReachesSurvivor, Reached, Submitted
  <2> QED BY <2>3, <2>4, <2>5
<1>3. ASSUME NEW i \in Oldest(Deliverable), Type(i),
             pushed' = pushed \cup {j \in Deliverable \cap Malformed : j < i}
      PROVE  InputTyped' /\ RowsReach' /\ InstructionsReach'
  <2>1. i \in Deliverable \ Malformed /\ i \in Slots /\ i \in Held \ Malformed
    BY <1>0 DEF Oldest, Deliverable
  <2>2. PICK s \in Seats : s = bound[row[i].role]
    BY <2>1, TypedIntoHolder
  <2>3. seat[s] \notin {"new", "spawning"}
    <3>1. Role[s] = row[i].role
      BY <2>1, <2>2, RoleOfSeat, DeliveryAssumption DEF HolderInv, RoutingInv, Held, Messages
    <3> QED BY <2>2, <3>1 DEF HolderInv
  <2>4. /\ inFlight' = inFlight \cup {i} /\ into' = [into EXCEPT ![i] = s] /\ line' = Typed(s, i)
    BY <1>3, <2>2 DEF Type
  <2>5. NothingLost /\ (pty[s] = "up" => i \in Reached(s)')
    <3>1. i \in Inputs
      BY <2>1 DEF Inputs
    <3> QED BY <1>0, <2>2, <2>4, <3>1, TypingAdds DEF NothingLost, InputTyped
  <2>6. InputTyped'
    BY <1>0, <1>3, <1>5, <2>1, <2>4, <2>5 DEF InputTyped, NothingLost
  <2>7. InstructionsReach'
    BY <1>0, <1>1, <2>5, InstructionsKept
  <2>8. Messages \cap pushed' = Messages \cap pushed /\ i \notin pushed
    BY <1>0, <1>3, <2>1 DEF Messages
  <2>9. into'[i] = s /\ \A j \in Slots \ {i} : into'[j] = into[j]
    BY <2>1, <2>4 DEF RoutingInv
  <2>10. (\A j \in inFlight : into[j] \in Seats /\ (pty[into[j]] = "up" => j \in Reached(into[j])))'
    BY <1>0, <2>4, <2>5, <2>9 DEF RowsReach, NothingLost, InputTyped
  <2>11. (\A j \in Messages \cap pushed :
            into[j] \in Seats /\ (pty[into[j]] = "up" => j \in Submitted(into[j])))'
    BY <1>0, <2>5, <2>8, <2>9 DEF RowsReach, NothingLost, PushedReachesSurvivor
  <2>12. (pushed \cup inFlight \subseteq 1 .. posted)'
    BY <1>0, <1>3, <2>1, <2>4 DEF RowsReach
  <2>13. (\A j \in Slots : into[j] \in Seats => seat[into[j]] \notin {"new", "spawning"})'
    BY <1>0, <2>3, <2>9 DEF RowsReach
  <2> QED BY <2>6, <2>7, <2>10, <2>11, <2>12, <2>13 DEF RowsReach, PushedReachesSurvivor
<1>4. Oldest(Deliverable) = {} => Deliverable \subseteq Malformed
  BY TickPassesMalformed
<1> QED BY <1>2, <1>3, <1>4 DEF Poll, Tick

(* The other writer.                                                       *)
LEMMA InstructionInput ==
    ASSUME InputInv, NEW k \in Instructions,
           InstructionEnter(k) \/ \E s \in Seats : Instruct(k, s)
    PROVE  InputTyped' /\ RowsReach' /\ InstructionsReach'
<1> USE DEF InputInv
<1>0. UNCHANGED <<posted, row, pushed, inFlight, into, failures, bound, seat, pty>>
  BY DEF Instruct, InstructionEnter, busVars, bridgeVars, seatVars
<1>1. [Next]_vars
  BY DEF Next
<1>2. CASE \E s \in Seats : Instruct(k, s)
  <2> PICK s \in Seats : Instruct(k, s) BY <1>2
  <2>1. NothingLost /\ (instr'[k] = "typed" /\ pty[s] = "up" => k \in Reached(s)')
    <3>1. k \in Inputs /\ turns' = turns
      BY DEF Inputs, Instruct
    <3>2. CASE line' = Typed(s, k)
      BY <3>1, <3>2, TypingAdds DEF NothingLost, InputTyped
    <3>3. CASE line' = line /\ instr' = [instr EXCEPT ![k] = "failed"]
      BY <3>1, <3>3 DEF NothingLost, InputTyped, Reached, Submitted
    <3>4. (line' = Typed(s, k)) \/ (line' = line /\ instr' = [instr EXCEPT ![k] = "failed"])
      BY DEF Instruct
    <3>5. instr' = [instr EXCEPT ![k] = "failed"] => instr'[k] = "failed"
      BY DEF InputTyped
    <3> QED BY <3>2, <3>3, <3>4, <3>5
  <2>2. /\ instr'[k] \in {"typed", "failed"} /\ dest'[k] = s /\ seat[s] \notin {"new", "spawning"}
        /\ \A j \in Instructions \ {k} : instr'[j] = instr[j] /\ dest'[j] = dest[j]
        /\ instr' \in [Instructions -> {"idle", "typed", "delivered", "failed"}]
        /\ dest' \in [Instructions -> Seats \cup {None}]
    BY DEF Instruct, InputTyped
  <2>3. (\A j \in Instructions : instr[j] \in {"typed", "delivered"} =>
           /\ dest[j] \in Seats /\ seat[dest[j]] \notin {"new", "spawning"}
           /\ instr[j] = "typed" /\ pty[dest[j]] = "up" => j \in Reached(dest[j])
           /\ instr[j] = "delivered" /\ pty[dest[j]] = "up" => j \in Submitted(dest[j]))'
    BY <1>0, <2>1, <2>2 DEF InstructionsReach, InstructionReachesSurvivor, NothingLost
  <2>4. InputTyped'
    BY <1>0, <2>1, <2>2 DEF InputTyped, NothingLost
  <2>5. RowsReach'
    BY <1>0, <1>1, <2>1, ReachKept
  <2>6. InstructionsReach'
    BY <2>3 DEF InstructionsReach, InstructionReachesSurvivor
  <2> QED BY <2>4, <2>5, <2>6
<1>3. CASE InstructionEnter(k)
  <2>0. instr[k] = "typed" /\ dest[k] \in Seats /\ dest' = dest
    BY <1>3 DEF InstructionEnter, InstructionsReach
  <2>1. /\ NothingLost
        /\ instr'[k] = "delivered" /\ pty[dest[k]] = "up" => k \in Submitted(dest[k])'
    <3>1. CASE Enter(dest[k])
      BY <2>0, <3>1, EnterSubmits DEF NothingLost, InstructionsReach
    <3>2. CASE UNCHANGED screenVars /\ instr' = [instr EXCEPT ![k] = "failed"]
      BY <3>2 DEF NothingLost, InputTyped, Reached, Submitted, screenVars
    <3> QED BY <1>3, <3>1, <3>2 DEF InstructionEnter
  <2>2. /\ instr'[k] \in {"delivered", "failed"}
        /\ \A j \in Instructions \ {k} : instr'[j] = instr[j]
        /\ instr' \in [Instructions -> {"idle", "typed", "delivered", "failed"}]
    BY <1>3 DEF InstructionEnter, InputTyped
  <2>3. (\A j \in Instructions : instr[j] \in {"typed", "delivered"} =>
           /\ dest[j] \in Seats /\ seat[dest[j]] \notin {"new", "spawning"}
           /\ instr[j] = "typed" /\ pty[dest[j]] = "up" => j \in Reached(dest[j])
           /\ instr[j] = "delivered" /\ pty[dest[j]] = "up" => j \in Submitted(dest[j]))'
    BY <1>0, <2>0, <2>1, <2>2 DEF InstructionsReach, InstructionReachesSurvivor, NothingLost
  <2>4. InputTyped'
    BY <1>0, <2>0, <2>1, <2>2 DEF InputTyped, NothingLost
  <2>5. RowsReach'
    BY <1>0, <1>1, <2>1, ReachKept
  <2> QED BY <2>3, <2>4, <2>5 DEF InstructionsReach, InstructionReachesSurvivor
<1> QED BY <1>2, <1>3

LEMMA InputStep == InputInv /\ [Next]_vars => InputInv'
<1> SUFFICES ASSUME InputInv, [Next]_vars PROVE InputInv'
  OBVIOUS
<1>1. HolderInv' /\ RoutingInv'
  BY HolderStep, RoutingStep DEF InputInv
<1>2. CASE \E s \in Seats : SeatStep(s)
  BY <1>1, <1>2, QuietInput DEF InputInv, SeatStep, AdmitBegin, Spawned, Ready, AdmissionFails,
     PtyDies, ExitNoticed, Retire, busVars
<1>3. CASE \E s \in Seats, kind \in {"task", "result"} : Notify(s, kind)
  BY <1>1, <1>3, QuietInput DEF InputInv, Notify
<1>4. CASE UNCHANGED vars
  BY <1>1, <1>4, QuietInput DEF InputInv, vars, busVars
<1>5. CASE Restart
  BY <1>1, <1>5, RestartInput DEF InputInv
<1>6. CASE Poll
  BY <1>1, <1>6, PollInput DEF InputInv
<1>7. CASE \E i \in Slots : EnterFires(i)
  BY <1>1, <1>7, EnterInput DEF InputInv
<1>8. CASE \/ \E k \in Instructions, s \in Seats : Instruct(k, s)
           \/ \E k \in Instructions : InstructionEnter(k)
  BY <1>1, <1>8, InstructionInput DEF InputInv
<1> QED BY <1>2, <1>3, <1>4, <1>5, <1>6, <1>7, <1>8 DEF Next

-----------------------------------------------------------------------------
(* Every variable of the bridge, the terminals and the registry keeps its  *)
(* type.                                                                   *)
THEOREM DeliveryTypeCorrect == Spec => []TypeOK
<1>1. InputInv => TypeOK
  BY DEF InputInv, HolderInv, RoutingInv, InputTyped, TypeOK, Inputs
<1> QED BY <1>1, InputStart, InputStep, PTL DEF Spec

(* The mark of a message never runs ahead of its Enter, also when ticks    *)
(* overtake Enters, marks throw and an instruction shares the line.        *)
THEOREM MarkedWasSubmitted == Spec => []PushedReachesSurvivor
<1>1. InputInv => PushedReachesSurvivor
  BY DEF InputInv, RowsReach
<1> QED BY <1>1, InputStart, InputStep, PTL DEF Spec

(* An instruction reported as done was submitted, whoever's Enter did it.  *)
THEOREM DoneWasSubmitted == Spec => []InstructionReachesSurvivor
<1>1. InputInv => InstructionReachesSurvivor
  BY DEF InputInv, InstructionsReach
<1> QED BY <1>1, InputStart, InputStep, PTL DEF Spec

(* The gate of a close: a result that is marked was submitted, and to this *)
(* very seat, since a message of a live addressee is not rerouted.         *)
LEMMA CloseWaits ==
    ASSUME InputInv, [Next]_vars, NEW s \in Seats,
           seat[s] = "running", seat'[s] = "closed", pty[s] = "up",
           NEW i \in Messages, row[i].session = s, row[i].kind = "result"
    PROVE  i \in Submitted(s)
<1> USE DEF InputInv
<1>1. Retire(s)
  <2>1. CASE \E q \in Seats : SeatStep(q)
    <3> PICK q \in Seats : SeatStep(q) BY <2>1
    <3> QED BY DEF SeatStep, AdmitBegin, Spawned, Ready, AdmissionFails, PtyDies, ExitNoticed,
             Retire, HolderInv
  <2>2. CASE Restart
    BY <2>2 DEF Restart, HolderInv
  <2>3. CASE UNCHANGED seat
    BY <2>3
  <2>4. (~ \E q \in Seats : SeatStep(q)) /\ ~Restart => UNCHANGED seat
    BY DEF Next, vars, Notify, Poll, Tick, EnterFires, Instruct, InstructionEnter, seatVars
  <2> QED BY <2>1, <2>2, <2>3, <2>4
<1>2. i \in 1 .. posted /\ row[i].role = Role[s]
  BY DEF Messages, RoutingInv
<1>3. i \in Messages \cap pushed
  BY <1>1, <1>2 DEF Retire, Owed
<1>4. into[i] = s
  BY <1>3, DeliveryAssumption DEF RowsReach, RoutingInv, NeverRerouted
<1> QED BY <1>3, <1>4 DEF RowsReach, PushedReachesSurvivor

THEOREM CloseAfterResults == Spec => ResultsReadBeforeClose
<1>1. InputInv /\ [Next]_vars =>
        [\A s \in Seats : seat[s] = "running" /\ seat'[s] = "closed" /\ pty[s] = "up" =>
            \A i \in Messages : row[i].session = s /\ row[i].kind = "result" => i \in Submitted(s)]_vars
  BY CloseWaits
<1> QED BY <1>1, InputStart, InputStep, PTL DEF Spec, ResultsReadBeforeClose

-----------------------------------------------------------------------------
(* The order of the messages on one terminal.  What is typed and not       *)
(* submitted on a working terminal is in flight there, so what is marked   *)
(* is not typed again; and under the shipped timing a message is typed     *)
(* when every earlier one of its role is marked.                           *)
TypedOnce ==
    /\ inFlight \cap pushed = {}
    /\ \A s \in Seats : pty[s] = "none" => line[s] = <<>> /\ turns[s] = <<>>
    /\ \A s \in Seats : pty[s] = "up" => \A i \in ToSet(line[s]) \cap Slots : i \in inFlight /\ into[i] = s
    /\ \A s \in Seats : Reached(s) \cap Slots \subseteq (1 .. posted) \ Malformed
EarlierMarked == \A s \in Seats : \A j \in Reached(s) \cap Messages : \A i \in Messages :
    i < j /\ row[i].role = row[j].role => i \in pushed
OrderInv == InputInv /\ TypedOnce /\ EarlierMarked /\ InOrder

LEMMA SlotsAreNoInstructions == Slots \cap Instructions = {}
BY DeliveryAssumption DEF Slots

LEMMA PtyAges ==
    ASSUME HolderInv, [Next]_vars, NEW s \in Seats
    PROVE  /\ pty'[s] = "none" => pty[s] = "none"
           /\ pty'[s] = "up" => pty[s] \in {"none", "up"}
<1>1. CASE \E q \in Seats : SeatStep(q)
  <2> PICK q \in Seats : SeatStep(q) BY <1>1
  <2> QED BY DEF HolderInv, SeatStep, AdmitBegin, Ready, PtyDies, Spawned, AdmissionFails, ExitNoticed, Retire
<1>2. CASE Restart
  BY <1>2 DEF HolderInv, Restart
<1>3. CASE UNCHANGED pty
  BY <1>3
<1>4. (~ \E q \in Seats : SeatStep(q)) /\ ~Restart => UNCHANGED pty
  BY DEF Next, vars, Notify, Poll, Tick, EnterFires, Instruct, InstructionEnter, seatVars
<1> QED BY <1>1, <1>2, <1>3, <1>4

(* Enter empties the line of a working terminal into one turn, and does    *)
(* nothing else.                                                           *)
LEMMA EnterMoves ==
    ASSUME InputTyped, NEW s \in Seats, Enter(s)
    PROVE  /\ line' \in [Seats -> Seq(Inputs)] /\ turns' \in [Seats -> Seq(Seq(Inputs))]
           /\ \A q \in Seats : q # s \/ pty[q] # "up" => line'[q] = line[q] /\ turns'[q] = turns[q]
           /\ pty[s] = "up" => line'[s] = <<>>
           /\ line[s] # <<>> /\ pty[s] = "up" => turns'[s] = Append(turns[s], line[s])
           /\ line[s] = <<>> => turns'[s] = turns[s]
           /\ \A q \in Seats : Reached(q)' = Reached(q)
<1>0. line \in [Seats -> Seq(Inputs)] /\ turns \in [Seats -> Seq(Seq(Inputs))]
  BY DEF InputTyped
<1>1. CASE pty[s] = "up" /\ line[s] # <<>>
  <2>1. turns' = [turns EXCEPT ![s] = Append(turns[s], line[s])] /\ line' = [line EXCEPT ![s] = <<>>]
    BY <1>1 DEF Enter
  <2>2. ToSet(turns'[s]) = ToSet(turns[s]) \cup {line[s]} /\ ToSet(line'[s]) = {}
    <3>1. turns'[s] = Append(turns[s], line[s]) /\ line'[s] = <<>>
      BY <1>0, <2>1
    <3>2. turns[s] \in Seq(Seq(Inputs)) /\ line[s] \in Seq(Inputs)
      BY <1>0
    <3>3. ToSet(turns'[s]) = ToSet(turns[s]) \cup {line[s]}
      BY <3>1, <3>2, AppendSet
    <3> QED BY <3>1, <3>3 DEF ToSet
  <2>3. Reached(s)' = Reached(s)
    BY <2>2 DEF Reached, Submitted
  <2>4. \A q \in Seats \ {s} : line'[q] = line[q] /\ turns'[q] = turns[q]
    BY <1>0, <2>1
  <2>5. \A q \in Seats \ {s} : Reached(q)' = Reached(q)
    BY <2>4 DEF Reached, Submitted
  <2> QED BY <1>0, <1>1, <2>1, <2>3, <2>4, <2>5
<1>2. CASE ~(pty[s] = "up" /\ line[s] # <<>>)
  <2>1. UNCHANGED <<line, turns>>
    BY <1>2 DEF Enter, screenVars
  <2> QED BY <1>0, <1>2, <2>1 DEF Reached, Submitted
<1> QED BY <1>1, <1>2

(* Text goes to the line of a working terminal, and nowhere else.          *)
LEMMA TextMoves ==
    ASSUME InputTyped, NEW s \in Seats, NEW x \in Inputs, line' = Typed(s, x), turns' = turns
    PROVE  /\ \A q \in Seats : q # s \/ pty[q] # "up" => line'[q] = line[q] /\ Reached(q)' = Reached(q)
           /\ pty[s] = "up" => /\ line'[s] = Append(line[s], x)
                               /\ ToSet(line'[s]) = ToSet(line[s]) \cup {x}
                               /\ Reached(s)' = Reached(s) \cup {x}
<1>0. line \in [Seats -> Seq(Inputs)]
  BY DEF InputTyped
<1>1. CASE pty[s] = "up"
  <2>1. line' = [line EXCEPT ![s] = Append(line[s], x)]
    BY <1>1 DEF Typed
  <2>2. line'[s] = Append(line[s], x) /\ ToSet(line'[s]) = ToSet(line[s]) \cup {x}
    BY <1>0, <2>1, AppendSet
  <2>3. \A q \in Seats \ {s} : line'[q] = line[q]
    BY <1>0, <2>1
  <2> QED BY <1>1, <2>2, <2>3 DEF Reached, Submitted
<1>2. CASE pty[s] # "up"
  BY <1>2 DEF Typed, Reached, Submitted
<1> QED BY <1>1, <1>2

(* What a step does to the terminals and to the rows' marks.               *)
LEMMA ScreenSteps ==
    ASSUME InputInv, [Next]_vars
    PROVE  \/ UNCHANGED <<line, turns, pushed, inFlight, into>>
           \/ Restart
           \/ Poll /\ UNCHANGED <<line, turns, inFlight, into>>
           \/ \E i \in Oldest(Deliverable) : Poll /\ Type(i) /\ turns' = turns
           \/ \E i \in Slots : EnterFires(i)
           \/ \E k \in Instructions, s \in Seats : /\ Enter(s) /\ UNCHANGED <<pushed, inFlight, into>>
                                                   /\ InstructionEnter(k)
           \/ \E k \in Instructions, s \in Seats : /\ line' = Typed(s, k) /\ turns' = turns
                                                   /\ UNCHANGED <<pushed, inFlight, into>>
                                                   /\ Instruct(k, s)
<1> USE DEF InputInv
<1>1. CASE (\E s \in Seats : SeatStep(s)) \/ UNCHANGED vars
            \/ \E s \in Seats, kind \in {"task", "result"} : Notify(s, kind)
  BY <1>1 DEF SeatStep, AdmitBegin, Spawned, Ready, AdmissionFails, PtyDies, ExitNoticed, Retire,
     Notify, vars, bridgeVars, screenVars
<1>2. CASE Poll
  BY <1>2 DEF Poll, Tick
<1>3. CASE \E k \in Instructions, s \in Seats : Instruct(k, s)
  <2> PICK k \in Instructions, s \in Seats : Instruct(k, s) BY <1>3
  <2>1. turns' = turns /\ UNCHANGED <<pushed, inFlight, into>> /\ (line' = Typed(s, k) \/ line' = line)
    BY DEF Instruct, bridgeVars
  <2> QED BY <2>1
<1>4. CASE \E k \in Instructions : InstructionEnter(k)
  BY <1>4 DEF InstructionEnter, InstructionsReach, bridgeVars, screenVars
<1> QED BY <1>1, <1>2, <1>3, <1>4 DEF Next

(* Rows are only added, and what is marked stays so.                       *)
LEMMA RowsKept ==
    ASSUME InputInv, [Next]_vars
    PROVE  /\ pushed \subseteq pushed' /\ Malformed' = Malformed
           /\ posted \in Nat /\ posted' \in Nat /\ posted <= posted' /\ Messages \subseteq Messages'
           /\ \A i \in Messages' : i <= posted => i \in Messages /\ row'[i] = row[i]
<1> USE DEF InputInv
<1>1. pushed \subseteq pushed' /\ Malformed' = Malformed
  <2>1. CASE \E s \in Seats : SeatStep(s)
    BY <2>1 DEF SeatStep, AdmitBegin, Spawned, Ready, AdmissionFails, PtyDies, ExitNoticed, Retire, bridgeVars,
       Malformed
  <2> QED BY <2>1 DEF Next, vars, bridgeVars, Restart, Notify, Poll, Tick, EnterFires, Instruct,
           InstructionEnter, Malformed
<1>2. posted \in Nat
  BY DEF RoutingInv
<1>3. CASE UNCHANGED busVars
  BY <1>1, <1>2, <1>3 DEF Messages, busVars
<1>4. CASE \E s \in Seats, kind \in {"task", "result"} : Notify(s, kind)
  <2>1. posted' = posted + 1 /\ \A i \in 1 .. posted : row'[i] = row[i]
    BY <1>2, <1>4 DEF Notify, RoutingInv, Slots
  <2> QED BY <1>1, <1>2, <2>1 DEF Messages
<1>5. (~ \E s \in Seats, kind \in {"task", "result"} : Notify(s, kind)) => UNCHANGED busVars
  BY DEF Next, vars, SeatStep, AdmitBegin, Spawned, Ready, AdmissionFails, PtyDies, ExitNoticed, Retire,
     Restart, Poll, Tick, EnterFires, Instruct, InstructionEnter
<1> QED BY <1>3, <1>4, <1>5

LEMMA TickTypes ==
    ASSUME InputInv, NEW i \in Oldest(Deliverable), Poll, Type(i)
    PROVE  /\ i \in Messages /\ i \in Slots /\ i \in Inputs /\ i \notin pushed \cup inFlight
           /\ bound[row[i].role] \in Seats /\ line' = Typed(bound[row[i].role], i)
           /\ inFlight' = inFlight \cup {i} /\ into' = [into EXCEPT ![i] = bound[row[i].role]]
           /\ i \notin pushed' /\ pushed' \cap inFlight = pushed \cap inFlight
           /\ UNCHANGED <<posted, row, pty, failures>>
           /\ TickAfterEnter => inFlight = {}
<1> USE DEF InputInv
<1>1. i \in Held \ Malformed /\ i \notin pushed \cup inFlight /\ i \in 1 .. posted
  BY DEF Oldest, Deliverable, Held
<1>2. i \in Messages /\ i \in Slots /\ i \in Inputs
  BY <1>1, DeliveryAssumption DEF Messages, Slots, Inputs, RoutingInv
<1>3. bound[row[i].role] \in Seats
  BY <1>1, TypedIntoHolder
<1>4. pushed' \subseteq pushed \cup (Deliverable \cap Malformed) \/ Oldest(Deliverable) = {}
  BY DEF Poll, Tick
<1>5. pushed \subseteq pushed'
  BY DEF Poll, Tick
<1> QED BY <1>1, <1>2, <1>3, <1>4, <1>5 DEF Type, Deliverable, Poll, Tick, TickDue, busVars, seatVars

LEMMA TypedOnceStep ==
    ASSUME InputInv, TypedOnce, [Next]_vars
    PROVE  TypedOnce'
<1> USE DEF InputInv
<1>0. /\ InputTyped /\ pushed \subseteq pushed' /\ Malformed' = Malformed
      /\ posted \in Nat /\ posted' \in Nat /\ posted <= posted'
      /\ \A s \in Seats : /\ pty'[s] = "none" => pty[s] = "none"
                          /\ pty'[s] = "up" => pty[s] \in {"none", "up"}
      /\ \A s \in Seats : pty[s] = "none" => ToSet(line[s]) = {}
  BY RowsKept, PtyAges DEF TypedOnce, ToSet
<1>1. CASE UNCHANGED <<line, turns, pushed, inFlight, into>>
  <2>1. \A s \in Seats : Reached(s)' = Reached(s)
    BY <1>1 DEF Reached, Submitted
  <2> QED BY <1>0, <1>1, <2>1 DEF TypedOnce
<1>2. CASE Restart
  <2>1. /\ inFlight' = {} /\ pushed' = pushed /\ into' = into /\ \A s \in Seats : pty'[s] # "up"
        /\ UNCHANGED screenVars \/ \E s \in Seats : Enter(s)
    BY <1>2 DEF Restart, RowsReach
  <2>2. /\ \A s \in Seats : Reached(s)' = Reached(s)
        /\ \A s \in Seats : pty[s] = "none" => line'[s] = line[s] /\ turns'[s] = turns[s]
    <3>1. CASE UNCHANGED screenVars
      BY <3>1 DEF Reached, Submitted, screenVars
    <3>2. CASE \E s \in Seats : Enter(s)
      BY <3>2, EnterMoves
    <3> QED BY <2>1, <3>1, <3>2
  <2> QED BY <1>0, <2>1, <2>2 DEF TypedOnce
<1>3. CASE Poll /\ UNCHANGED <<line, turns, inFlight, into>>
  <2>1. pushed' \cap inFlight = pushed \cap inFlight
    BY <1>3 DEF Poll, Tick, Deliverable
  <2>2. \A s \in Seats : Reached(s)' = Reached(s)
    BY <1>3 DEF Reached, Submitted
  <2> QED BY <1>0, <1>3, <2>1, <2>2 DEF TypedOnce
<1>4. CASE \E i \in Oldest(Deliverable) : Poll /\ Type(i) /\ turns' = turns
  <2> PICK i \in Oldest(Deliverable) : Poll /\ Type(i) /\ turns' = turns
    BY <1>4
  <2>1. PICK q \in Seats : q = bound[row[i].role]
    BY TickTypes
  <2>2. /\ i \in Messages /\ i \in Slots /\ i \in Inputs /\ i \notin pushed \cup inFlight
        /\ line' = Typed(q, i) /\ inFlight' = inFlight \cup {i} /\ into' = [into EXCEPT ![i] = q]
        /\ i \notin pushed' /\ pushed' \cap inFlight = pushed \cap inFlight
        /\ UNCHANGED <<posted, row, pty, failures>>
    BY <2>1, TickTypes
  <2>3. /\ \A s \in Seats : s # q \/ pty[s] # "up" => line'[s] = line[s] /\ Reached(s)' = Reached(s)
        /\ pty[q] = "up" => /\ ToSet(line'[q]) = ToSet(line[q]) \cup {i}
                            /\ Reached(q)' = Reached(q) \cup {i}
    BY <2>2, TextMoves
  <2>4. inFlight' \cap pushed' = {}
    BY <2>2 DEF TypedOnce
  <2>5. into'[i] = q /\ \A j \in inFlight : into'[j] = into[j]
    BY <2>2 DEF RoutingInv, InputTyped
  <2>6. \A s \in Seats : pty[s] = "up" => \A j \in ToSet(line'[s]) \cap Slots : j \in inFlight' /\ into'[j] = s
    <3> SUFFICES ASSUME NEW s \in Seats, pty[s] = "up", NEW j \in ToSet(line'[s]) \cap Slots
                 PROVE  j \in inFlight' /\ into'[j] = s
      OBVIOUS
    <3>1. CASE j \in ToSet(line[s])
      BY <2>2, <2>5, <3>1 DEF TypedOnce
    <3>2. CASE j \notin ToSet(line[s])
      BY <2>2, <2>3, <2>5, <3>2
    <3> QED BY <3>1, <3>2
  <2>7. \A s \in Seats : Reached(s)' \cap Slots \subseteq (1 .. posted) \ Malformed
    BY <2>2, <2>3 DEF TypedOnce, Messages
  <2>8. \A s \in Seats : pty[s] = "none" => line'[s] = <<>> /\ turns'[s] = <<>>
    BY <2>3 DEF TypedOnce
  <2> QED BY <1>0, <2>2, <2>4, <2>6, <2>7, <2>8 DEF TypedOnce
<1>5. CASE \E i \in Slots : EnterFires(i)
  <2> PICK i \in Slots : EnterFires(i) BY <1>5
  <2>1. /\ i \in inFlight /\ inFlight' = inFlight \ {i} /\ pushed' \in {pushed, pushed \cup {i}}
        /\ UNCHANGED <<into, pty, posted>>
    BY DEF EnterFires, seatVars, busVars
  <2>2. PICK q \in Seats : q = into[i] /\ Enter(q)
    BY <2>1 DEF EnterFires, RowsReach
  <2>3. /\ \A s \in Seats : s # q \/ pty[s] # "up" => line'[s] = line[s] /\ turns'[s] = turns[s]
        /\ pty[q] = "up" => line'[q] = <<>>
        /\ \A s \in Seats : Reached(s)' = Reached(s)
    BY <2>2, EnterMoves
  <2>4. \A s \in Seats : pty[s] = "up" => \A j \in ToSet(line'[s]) \cap Slots : j \in inFlight' /\ into'[j] = s
    <3> SUFFICES ASSUME NEW s \in Seats, pty[s] = "up", NEW j \in ToSet(line'[s]) \cap Slots
                 PROVE  j \in inFlight' /\ into'[j] = s
      OBVIOUS
    <3>1. s # q /\ j \in ToSet(line[s])
      BY <2>3 DEF ToSet
    <3>2. j \in inFlight /\ into[j] = s
      BY <3>1 DEF TypedOnce
    <3> QED BY <2>1, <2>2, <3>1, <3>2
  <2>5. inFlight' \cap pushed' = {}
    BY <2>1 DEF TypedOnce
  <2> QED BY <1>0, <2>1, <2>3, <2>4, <2>5 DEF TypedOnce
<1>6. CASE \E k \in Instructions, s \in Seats : /\ Enter(s) /\ UNCHANGED <<pushed, inFlight, into>>
                                                /\ InstructionEnter(k)
  <2> PICK k \in Instructions, q \in Seats : /\ Enter(q) /\ UNCHANGED <<pushed, inFlight, into>>
                                             /\ InstructionEnter(k)
    BY <1>6
  <2>1. UNCHANGED <<pty, posted>>
    BY DEF InstructionEnter, seatVars, busVars
  <2>2. /\ \A s \in Seats : s # q \/ pty[s] # "up" => line'[s] = line[s] /\ turns'[s] = turns[s]
        /\ pty[q] = "up" => line'[q] = <<>>
        /\ \A s \in Seats : Reached(s)' = Reached(s)
    BY EnterMoves
  <2>3. \A s \in Seats : pty[s] = "up" => ToSet(line'[s]) \subseteq ToSet(line[s])
    BY <2>2 DEF ToSet
  <2> QED BY <1>0, <2>1, <2>2, <2>3 DEF TypedOnce
<1>7. CASE \E k \in Instructions, s \in Seats : /\ line' = Typed(s, k) /\ turns' = turns
                                                /\ UNCHANGED <<pushed, inFlight, into>>
                                                /\ Instruct(k, s)
  <2> PICK k \in Instructions, q \in Seats : /\ line' = Typed(q, k) /\ turns' = turns
                                             /\ UNCHANGED <<pushed, inFlight, into>> /\ Instruct(k, q)
    BY <1>7
  <2>1. UNCHANGED <<pty, posted>>
    BY DEF Instruct, seatVars, busVars
  <2>2. k \in Inputs /\ k \notin Slots
    BY SlotsAreNoInstructions DEF Inputs
  <2>3. /\ \A s \in Seats : s # q \/ pty[s] # "up" => line'[s] = line[s] /\ Reached(s)' = Reached(s)
        /\ pty[q] = "up" => /\ ToSet(line'[q]) = ToSet(line[q]) \cup {k}
                            /\ Reached(q)' = Reached(q) \cup {k}
    BY <2>2, TextMoves
  <2>4. \A s \in Seats : Reached(s)' \cap Slots = Reached(s) \cap Slots
    BY <2>2, <2>3
  <2>5. \A s \in Seats : pty[s] = "up" => ToSet(line'[s]) \cap Slots = ToSet(line[s]) \cap Slots
    BY <2>2, <2>3
  <2>6. \A s \in Seats : pty[s] = "none" => line'[s] = line[s] /\ turns'[s] = turns[s]
    BY <2>3
  <2> QED BY <1>0, <2>1, <2>4, <2>5, <2>6 DEF TypedOnce
<1> QED BY <1>1, <1>2, <1>3, <1>4, <1>5, <1>6, <1>7, ScreenSteps

(* When a step types a message, or adds a row, every earlier row of the    *)
(* same role is marked.                                                    *)
LEMMA EarlierMarkedStep ==
    ASSUME InputInv, TypedOnce, EarlierMarked, [Next]_vars, TickAfterEnter
    PROVE  EarlierMarked'
<1> USE DEF InputInv
<1> SUFFICES ASSUME NEW s \in Seats, NEW j \in Reached(s)', j \in Messages', NEW i \in Messages',
                    i < j, row'[i].role = row'[j].role
             PROVE  i \in pushed'
  BY DEF EarlierMarked
<1>0. /\ InputTyped /\ pushed \subseteq pushed'
      /\ j \in Slots /\ j \in Nat /\ i \in Nat /\ posted \in Nat
      /\ \A k \in Messages' : k <= posted => k \in Messages /\ row'[k] = row[k]
  <2>1. posted' \in 0 .. MaxMessages
    BY RoutingStep DEF RoutingInv
  <2> QED BY <2>1, RowsKept, DeliveryAssumption DEF Messages, Slots
<1>1. CASE j \in Reached(s)
  <2>1. j <= posted
    BY <1>0, <1>1 DEF TypedOnce
  <2>2. i \in Messages /\ j \in Messages /\ row[i].role = row[j].role
    BY <1>0, <2>1
  <2> QED BY <1>0, <1>1, <2>2 DEF EarlierMarked
<1>2. CASE j \notin Reached(s)
  <2>1. CASE \E k \in Oldest(Deliverable) : Poll /\ Type(k) /\ turns' = turns
    <3> PICK k \in Oldest(Deliverable) : Poll /\ Type(k) /\ turns' = turns
      BY <2>1
    <3>1. /\ k \in Inputs /\ bound[row[k].role] \in Seats /\ line' = Typed(bound[row[k].role], k)
          /\ inFlight = {} /\ UNCHANGED <<posted, row>>
      BY TickTypes
    <3>2. j = k
      BY <1>2, <3>1, TextMoves
    <3>3. i \in Messages /\ row[i].role = row[k].role
      BY <1>0, <3>1, <3>2 DEF Messages
    <3>4. i \in Held
      BY <3>1, <3>3, DeliveryAssumption DEF Held, Messages
    <3>5. CASE i \notin pushed
      <4>1. i \in Deliverable \ Malformed
        BY <3>1, <3>3, <3>4, <3>5 DEF Deliverable, Messages
      <4>2. k <= i
        BY <4>1 DEF Oldest
      <4> QED BY <1>0, <3>2, <4>2
    <3> QED BY <1>0, <3>5
  <2>2. CASE Restart
    <3>1. UNCHANGED screenVars \/ \E q \in Seats : Enter(q)
      BY <2>2 DEF Restart, RowsReach
    <3>2. CASE UNCHANGED screenVars
      BY <1>2, <3>2 DEF Reached, Submitted, screenVars
    <3>3. CASE \E q \in Seats : Enter(q)
      BY <1>0, <1>2, <3>3, EnterMoves
    <3> QED BY <3>1, <3>2, <3>3
  <2>3. CASE UNCHANGED <<line, turns>>
    BY <1>2, <2>3 DEF Reached, Submitted
  <2>4. CASE (\E k \in Slots : EnterFires(k)) \/ \E q \in Seats : Enter(q)
    <3>1. \E q \in Seats : Enter(q)
      BY <2>4 DEF EnterFires, RowsReach
    <3> QED BY <1>0, <1>2, <3>1, EnterMoves
  <2>5. CASE \E k \in Instructions, q \in Seats : line' = Typed(q, k) /\ turns' = turns
    <3> PICK k \in Instructions, q \in Seats : line' = Typed(q, k) /\ turns' = turns
      BY <2>5
    <3>1. k \in Inputs /\ k # j
      BY <1>0, SlotsAreNoInstructions DEF Inputs
    <3> QED BY <1>0, <1>2, <3>1, TextMoves
  <2> QED BY <2>1, <2>2, <2>3, <2>4, <2>5, ScreenSteps
<1> QED BY <1>1, <1>2

(* A terminal's turns grow by the line of a working terminal, if at all.   *)
LEMMA TurnsGrow ==
    ASSUME InputInv, [Next]_vars, NEW s \in Seats
    PROVE  \/ turns'[s] = turns[s]
           \/ pty[s] = "up" /\ turns'[s] = Append(turns[s], line[s])
<1> USE DEF InputInv
<1>1. CASE turns' = turns
  BY <1>1
<1>2. CASE \E q \in Seats : Enter(q)
  BY <1>2, EnterMoves
<1>3. turns' = turns \/ \E q \in Seats : Enter(q)
  <2>1. CASE Restart
    BY <2>1 DEF Restart, RowsReach, screenVars
  <2>2. CASE \E i \in Slots : EnterFires(i)
    BY <2>2 DEF EnterFires, RowsReach
  <2> QED BY <2>1, <2>2, ScreenSteps
<1> QED BY <1>1, <1>2, <1>3

(* A turn that is new on a terminal brings no message that was left behind.*)
LEMMA InOrderStep ==
    ASSUME InputInv, TypedOnce, EarlierMarked, InOrder, [Next]_vars
    PROVE  InOrder'
<1> USE DEF InputInv
<1> SUFFICES ASSUME NEW s \in Seats, NEW n \in DOMAIN turns'[s], NEW i \in Messages', NEW j \in Messages',
                    i < j, row'[i].role = row'[j].role,
                    j \in ToSet(turns'[s][n]), i \in Submitted(s)'
             PROVE  \E m \in 1 .. n : i \in ToSet(turns'[s][m])
  BY DEF InOrder
<1>0. /\ turns[s] \in Seq(Seq(Inputs)) /\ line[s] \in Seq(Inputs) /\ posted \in Nat
      /\ i \in Nat /\ j \in Slots /\ j \in Nat
      /\ \A k \in Messages' : k <= posted => k \in Messages /\ row'[k] = row[k]
  <2>1. posted' \in 0 .. MaxMessages
    BY RoutingStep DEF RoutingInv
  <2> QED BY <2>1, RowsKept, DeliveryAssumption DEF Messages, Slots, InputTyped
<1>1. \A k \in DOMAIN turns[s] : \A x \in ToSet(turns[s][k]) : x \in Submitted(s)
  BY DEF Submitted, ToSet
<1>2. j \in Reached(s) => i \in Messages /\ j \in Messages /\ row[i].role = row[j].role /\ j \in Reached(s) \cap Messages
  <2>1. j \in Reached(s) => j <= posted
    BY <1>0 DEF TypedOnce
  <2> QED BY <1>0, <2>1
<1>3. CASE turns'[s] = turns[s]
  <2>1. i \in Submitted(s) /\ j \in Reached(s)
    BY <1>1, <1>3 DEF Submitted, Reached
  <2> QED BY <1>2, <1>3, <2>1 DEF InOrder
<1>4. CASE pty[s] = "up" /\ turns'[s] = Append(turns[s], line[s])
  <2>1. /\ DOMAIN turns'[s] = 1 .. Len(turns[s]) + 1 /\ Len(turns[s]) \in Nat
        /\ DOMAIN turns[s] = 1 .. Len(turns[s])
        /\ \A k \in DOMAIN turns[s] : turns'[s][k] = turns[s][k]
        /\ turns'[s][Len(turns[s]) + 1] = line[s]
    BY <1>0, <1>4
  <2>2. CASE n = Len(turns[s]) + 1
    <3>1. PICK m \in DOMAIN turns'[s] : i \in ToSet(turns'[s][m])
      BY DEF Submitted, ToSet
    <3> QED BY <2>1, <2>2, <3>1
  <2>3. CASE n \in DOMAIN turns[s]
    <3>1. j \in ToSet(turns[s][n])
      BY <2>1, <2>3
    <3>2. j \in Reached(s)
      BY <1>1, <2>3, <3>1 DEF Reached
    <3>3. CASE i \in Submitted(s)
      <4>1. PICK m \in 1 .. n : i \in ToSet(turns[s][m])
        BY <1>2, <2>3, <3>1, <3>2, <3>3 DEF InOrder
      <4>2. m \in DOMAIN turns[s]
        BY <2>1, <2>3
      <4> QED BY <2>1, <4>1, <4>2
    <3>4. CASE i \notin Submitted(s)
      <4>1. PICK m \in DOMAIN turns'[s] : i \in ToSet(turns'[s][m])
        BY DEF Submitted, ToSet
      <4>2. i \in ToSet(line[s])
        BY <1>1, <2>1, <3>4, <4>1
      <4>3. i \in Slots
        BY <1>0, <1>2, <3>2, DeliveryAssumption DEF Messages, Slots, RoutingInv
      <4>4. i \in inFlight
        BY <1>4, <4>2, <4>3 DEF TypedOnce
      <4>5. i \in pushed
        BY <1>2, <3>2 DEF EarlierMarked
      <4> QED BY <4>4, <4>5 DEF TypedOnce
    <3> QED BY <3>3, <3>4
  <2> QED BY <2>1, <2>2, <2>3
<1> QED BY <1>3, <1>4, TurnsGrow

LEMMA TypedOnceStart == Init => TypedOnce
BY DeliveryAssumption DEF Init, TypedOnce, Reached, Submitted, ToSet

LEMMA OrderStart == Init => OrderInv
<1> SUFFICES ASSUME Init PROVE OrderInv
  OBVIOUS
<1>1. \A s \in Seats : turns[s] = <<>> /\ Reached(s) = {}
  BY DEF Init, Reached, Submitted, ToSet
<1> QED BY <1>1, InputStart, TypedOnceStart DEF OrderInv, EarlierMarked, InOrder

LEMMA OrderStep == TickAfterEnter /\ OrderInv /\ [Next]_vars => OrderInv'
BY InputStep, TypedOnceStep, EarlierMarkedStep, InOrderStep DEF OrderInv

(* Where the interval is longer than the delay to Enter, one terminal is   *)
(* given the messages of its role in the order they were created, failing  *)
(* marks, restarts and other writers included.                             *)
THEOREM MessagesInOrder == TickAfterEnter => (Spec => []InOrder)
<1>1. TickAfterEnter /\ Spec => []OrderInv
  <2> SUFFICES ASSUME TickAfterEnter PROVE Spec => []OrderInv
    OBVIOUS
  <2>1. OrderInv /\ [Next]_vars => OrderInv'
    BY OrderStep
  <2> QED BY <2>1, OrderStart, PTL DEF Spec
<1>2. OrderInv => InOrder
  BY DEF OrderInv
<1> QED BY <1>1, <1>2, PTL

-----------------------------------------------------------------------------
(* Two writers on one line.  TypedOnce speaks of the messages on it; for   *)
(* the instructions its counterpart follows the same three steps.          *)
TypedBy == \A s \in Seats : pty[s] = "up" => \A k \in ToSet(line[s]) \cap Instructions :
    instr[k] = "typed" /\ dest[k] = s
LineInv == InputInv /\ TypedOnce /\ TypedBy

(* Only the end of the process, its own Enter or its own text changes what *)
(* the host makes of an instruction.                                       *)
LEMMA InstructionsWait ==
    ASSUME InputInv, [Next]_vars, NEW k \in Instructions,
           ~Restart, ~InstructionEnter(k), ~ \E s \in Seats : Instruct(k, s)
    PROVE  instr'[k] = instr[k] /\ dest'[k] = dest[k]
<1>1. instr \in [Instructions -> {"idle", "typed", "delivered", "failed"}]
      /\ dest \in [Instructions -> Seats \cup {None}]
  BY DEF InputInv, InputTyped
<1>2. CASE \E j \in Instructions \ {k} : InstructionEnter(j) \/ \E s \in Seats : Instruct(j, s)
  BY <1>1, <1>2 DEF InstructionEnter, Instruct
<1>3. CASE UNCHANGED instrVars
  BY <1>3 DEF instrVars
<1>4. CASE \E s \in Seats : SeatStep(s)
  BY <1>4 DEF SeatStep, AdmitBegin, Spawned, Ready, AdmissionFails, PtyDies, ExitNoticed, Retire, instrVars
<1>5. (~ \E j \in Instructions \ {k} : InstructionEnter(j) \/ \E s \in Seats : Instruct(j, s))
        /\ (~ \E s \in Seats : SeatStep(s)) => UNCHANGED instrVars
  BY DEF Next, vars, Notify, Poll, Tick, EnterFires
<1> QED BY <1>2, <1>3, <1>4, <1>5

LEMMA TypedByStep ==
    ASSUME LineInv, [Next]_vars
    PROVE  TypedBy'
<1> USE DEF InputInv, LineInv
<1> SUFFICES ASSUME NEW s \in Seats, pty'[s] = "up", NEW k \in Instructions, k \in ToSet(line'[s])
             PROVE  instr'[k] = "typed" /\ dest'[k] = s
  BY DEF TypedBy
<1>0. /\ InputTyped /\ k \in Inputs /\ k \notin Slots
      /\ pty[s] \in {"none", "up"} /\ (pty[s] = "none" => ToSet(line[s]) = {})
  BY PtyAges, SlotsAreNoInstructions DEF TypedOnce, ToSet, Inputs
<1>1. ~Restart
  BY DEF Restart, HolderInv
<1>2. CASE \E q \in Seats : Instruct(k, q)
  <2> PICK q \in Seats : Instruct(k, q) BY <1>2
  <2>1. /\ instr[k] = "idle" /\ dest'[k] = q /\ turns' = turns /\ pty' = pty
        /\ line' = Typed(q, k) \/ line' = line
    BY <1>0 DEF Instruct, InputTyped, seatVars
  <2>2. k \notin ToSet(line[s])
    BY <1>0, <2>1 DEF TypedBy
  <2>3. line' = Typed(q, k) /\ s = q /\ pty[s] = "up"
    BY <1>0, <2>1, <2>2, TextMoves
  <2>4. Live(q) => instr'[k] = "typed"
    BY <2>3 DEF Instruct, Accepted, InputTyped
  <2>5. Live(q)
    BY <2>1, <2>2, <2>3 DEF Instruct
  <2> QED BY <2>1, <2>3, <2>4, <2>5
<1>3. CASE InstructionEnter(k)
  <2>1. dest[k] \in Seats /\ instr[k] = "typed" /\ pty' = pty
    BY <1>3 DEF InstructionEnter, InstructionsReach, seatVars
  <2>2. CASE Enter(dest[k])
    <3>0. pty[s] = "up"
      BY <2>1
    <3>1. k \in ToSet(line[s]) /\ s # dest[k]
      <4>1. s # dest[k] => line'[s] = line[s]
        BY <1>0, <2>1, <2>2, EnterMoves
      <4>2. s = dest[k] => line'[s] = <<>>
        BY <1>0, <2>1, <2>2, <3>0, EnterMoves
      <4>3. k \in {line'[s][n] : n \in DOMAIN line'[s]}
        BY DEF ToSet
      <4> QED BY <4>1, <4>2, <4>3 DEF ToSet
    <3> QED BY <3>0, <3>1 DEF TypedBy
  <2>3. CASE ~Live(dest[k]) /\ UNCHANGED screenVars
    <3>1. s = dest[k] /\ pty[s] = "up"
      BY <1>0, <2>1, <2>3 DEF TypedBy, screenVars
    <3> QED BY <2>3, <3>1 DEF Live, HolderInv
  <2> QED BY <1>3, <2>2, <2>3 DEF InstructionEnter
<1>4. CASE ~InstructionEnter(k) /\ ~ \E q \in Seats : Instruct(k, q)
  <2>1. instr'[k] = instr[k] /\ dest'[k] = dest[k]
    BY <1>1, <1>4, InstructionsWait
  <2>2. k \in ToSet(line[s])
    <3>1. CASE UNCHANGED line
      BY <3>1
    <3>2. CASE \E q \in Seats : Enter(q)
      BY <1>0, <3>2, EnterMoves DEF ToSet
    <3>3. CASE \E x \in Inputs \ {k}, q \in Seats : line' = Typed(q, x) /\ turns' = turns
      <4> PICK x \in Inputs \ {k}, q \in Seats : line' = Typed(q, x) /\ turns' = turns
        BY <3>3
      <4> QED BY <1>0, TextMoves
    <3>4. CASE \E i \in Oldest(Deliverable) : Poll /\ Type(i) /\ turns' = turns
      BY <1>0, <3>3, <3>4, TickTypes
    <3>5. CASE \E i \in Slots : EnterFires(i)
      BY <3>2, <3>5 DEF EnterFires, RowsReach
    <3>6. CASE \E j \in Instructions, q \in Seats : line' = Typed(q, j) /\ turns' = turns /\ Instruct(j, q)
      BY <1>4, <3>3, <3>6 DEF Inputs
    <3> QED BY <1>1, <3>1, <3>2, <3>4, <3>5, <3>6, ScreenSteps
  <2> QED BY <1>0, <2>1, <2>2 DEF TypedBy
<1> QED BY <1>2, <1>3, <1>4

(* However the two writers' texts and Enters interleave, and marks throw,  *)
(* nothing is left on the line of a working terminal without an Enter of   *)
(* its own to come.                                                        *)
THEOREM NothingIsStranded == Spec => []NothingStranded
<1>1. LineInv => NothingStranded
  <2> SUFFICES ASSUME LineInv, NEW s \in Seats, pty[s] = "up", NEW x \in ToSet(line[s])
               PROVE  \/ x \in inFlight /\ into[x] = s
                      \/ x \in Instructions /\ instr[x] = "typed" /\ dest[x] = s
    BY DEF NothingStranded
  <2>1. x \in Inputs
    BY DEF LineInv, InputInv, InputTyped, ToSet
  <2> QED BY <2>1 DEF LineInv, TypedOnce, TypedBy, Inputs
<1>2. Init => LineInv
  BY InputStart, TypedOnceStart DEF LineInv, TypedBy, Init
<1>3. LineInv /\ [Next]_vars => LineInv'
  BY InputStep, TypedOnceStep, TypedByStep DEF LineInv
<1> QED BY <1>1, <1>2, <1>3, PTL DEF Spec

-----------------------------------------------------------------------------
(* How often a terminal was or is still to be given one row.               *)
LEMMA PlacesFinite ==
    ASSUME NEW T, NEW q \in Seq(T), NEW x
    PROVE  IsFiniteSet(Places(q, x)) /\ Places(q, x) \subseteq 1 .. Len(q)
<1>1. Places(q, x) \in SUBSET (1 .. Len(q))
  BY DEF Places
<1>2. IsFiniteSet(1 .. Len(q))
  BY FS_Interval
<1> QED BY <1>1, <1>2, FS_Subset

LEMMA PlacesAppend ==
    ASSUME NEW T, NEW q \in Seq(T), NEW x, NEW y \in T
    PROVE  Cardinality(Places(Append(q, y), x)) = Cardinality(Places(q, x)) + (IF y = x THEN 1 ELSE 0)
<1>1. /\ DOMAIN Append(q, y) = DOMAIN q \cup {Len(q) + 1}
      /\ \A p \in DOMAIN q : Append(q, y)[p] = q[p]
      /\ Append(q, y)[Len(q) + 1] = y
      /\ Len(q) + 1 \notin DOMAIN q
  OBVIOUS
<1>2. IsFiniteSet(Places(q, x)) /\ Cardinality(Places(q, x)) \in Nat
  BY PlacesFinite, FS_CardinalityType
<1>3. CASE y = x
  <2>1. Places(Append(q, y), x) = Places(q, x) \cup {Len(q) + 1} /\ Len(q) + 1 \notin Places(q, x)
    BY <1>1, <1>3 DEF Places
  <2> QED BY <1>2, <1>3, <2>1, FS_AddElement
<1>4. CASE y # x
  <2>1. Places(Append(q, y), x) = Places(q, x)
    BY <1>1, <1>4 DEF Places
  <2> QED BY <1>2, <1>4, <2>1
<1> QED BY <1>3, <1>4

Pending(s, x) == Cardinality(Places(line[s], x))
Times(s, x) == Count(s, x) + Pending(s, x)

(* A row is typed again only after a mark of it threw.                     *)
CountInv ==
    /\ InputInv
    /\ TypedOnce
    /\ \A s \in Seats, x \in Slots : IsFiniteSet(Given(s, x))
    /\ \A s \in Seats, x \in Slots : Times(s, x) <= 1 + failures
    /\ \A s \in Seats, x \in Slots :
          pty[s] \in {"none", "up"} /\ x \notin pushed \cup inFlight => Times(s, x) <= failures

LEMMA CountTypes ==
    ASSUME CountInv, NEW s \in Seats, NEW x \in Slots
    PROVE  /\ line[s] \in Seq(Inputs) /\ turns[s] \in Seq(Seq(Inputs))
           /\ Count(s, x) \in Nat /\ Pending(s, x) \in Nat /\ failures \in Nat
<1>1. line[s] \in Seq(Inputs) /\ turns[s] \in Seq(Seq(Inputs)) /\ failures \in Nat
  BY DEF CountInv, InputInv, InputTyped
<1> QED BY <1>1, PlacesFinite, FS_CardinalityType DEF CountInv, Count, Pending

(* Enter moves what is pending to what was given.                          *)
LEMMA EnterCounts ==
    ASSUME CountInv, NEW q \in Seats, Enter(q), NEW s \in Seats, NEW x \in Slots
    PROVE  IsFiniteSet(Given(s, x))' /\ Times(s, x)' = Times(s, x)
<1>0. /\ line[s] \in Seq(Inputs) /\ turns[s] \in Seq(Seq(Inputs)) /\ IsFiniteSet(Given(s, x))
      /\ Count(s, x) \in Nat /\ Pending(s, x) \in Nat
  BY CountTypes DEF CountInv
<1>1. CASE line'[s] = line[s] /\ turns'[s] = turns[s]
  BY <1>0, <1>1 DEF Times, Count, Given, Pending
<1>2. CASE line'[s] = <<>> /\ turns'[s] = Append(turns[s], line[s])
  <2> DEFINE fresh == {Len(turns[s]) + 1} \X Places(line[s], x)
  <2>1. /\ DOMAIN turns'[s] = DOMAIN turns[s] \cup {Len(turns[s]) + 1}
        /\ \A n \in DOMAIN turns[s] : turns'[s][n] = turns[s][n]
        /\ turns'[s][Len(turns[s]) + 1] = line[s]
        /\ Len(turns[s]) + 1 \notin DOMAIN turns[s]
    BY <1>0, <1>2
  <2>2. Given(s, x)' = Given(s, x) \cup fresh
    BY <2>1 DEF Given
  <2>3. Given(s, x) \cap fresh = {}
    BY <2>1 DEF Given
  <2>4. IsFiniteSet(fresh) /\ Cardinality(fresh) = Pending(s, x)
    <3>1. IsFiniteSet(Places(line[s], x)) /\ IsFiniteSet({Len(turns[s]) + 1})
          /\ Cardinality({Len(turns[s]) + 1}) = 1
      BY <1>0, PlacesFinite, FS_Singleton
    <3>2. IsFiniteSet(fresh) /\ Cardinality(fresh) = 1 * Cardinality(Places(line[s], x))
      BY <3>1, FS_Product
    <3> QED BY <1>0, <3>2 DEF Pending
  <2> HIDE DEF fresh
  <2>5. IsFiniteSet(Given(s, x))' /\ Count(s, x)' = Count(s, x) + Pending(s, x)
    <3>1. PICK G : G = Given(s, x) /\ IsFiniteSet(G) /\ Cardinality(G) = Count(s, x)
      BY <1>0 DEF Count
    <3>2. IsFiniteSet(G \cup fresh) /\ Cardinality(G \cup fresh) = Cardinality(G) + Cardinality(fresh) - Cardinality({})
      BY <2>3, <2>4, <3>1, FS_Union
    <3>3. Given(s, x)' = G \cup fresh
      BY <2>2, <3>1
    <3>4. Cardinality(G \cup fresh) = Count(s, x) + Pending(s, x)
      BY <1>0, <2>4, <3>1, <3>2, FS_EmptySet
    <3> QED BY <3>2, <3>3, <3>4 DEF Count
  <2>6. Pending(s, x)' = 0
    BY <1>2, FS_EmptySet DEF Pending, Places
  <2> QED BY <1>0, <2>5, <2>6 DEF Times
<1>3. \/ line'[s] = line[s] /\ turns'[s] = turns[s]
      \/ line'[s] = <<>> /\ turns'[s] = Append(turns[s], line[s])
  BY EnterMoves DEF CountInv, InputInv
<1> QED BY <1>1, <1>2, <1>3

(* Text adds one to what is pending of the row that is typed.              *)
LEMMA TextCounts ==
    ASSUME CountInv, NEW q \in Seats, NEW y \in Inputs, line' = Typed(q, y), turns' = turns,
           NEW s \in Seats, NEW x \in Slots
    PROVE  /\ IsFiniteSet(Given(s, x))'
           /\ Times(s, x)' = Times(s, x) + (IF s = q /\ pty[q] = "up" /\ y = x THEN 1 ELSE 0)
<1>0. /\ line[s] \in Seq(Inputs) /\ IsFiniteSet(Given(s, x)) /\ Count(s, x) \in Nat /\ Pending(s, x) \in Nat
  BY CountTypes DEF CountInv
<1>1. IsFiniteSet(Given(s, x))' /\ Count(s, x)' = Count(s, x)
  BY <1>0 DEF Given, Count
<1>2. Pending(s, x)' = Pending(s, x) + (IF s = q /\ pty[q] = "up" /\ y = x THEN 1 ELSE 0)
  <2>1. CASE s = q /\ pty[q] = "up"
    <3>1. line'[s] = Append(line[s], y)
      BY <2>1, TextMoves DEF CountInv, InputInv
    <3> QED BY <1>0, <2>1, <3>1, PlacesAppend DEF Pending
  <2>2. CASE ~(s = q /\ pty[q] = "up")
    <3>1. line'[s] = line[s]
      BY <2>2, TextMoves DEF CountInv, InputInv
    <3> QED BY <1>0, <2>2, <3>1 DEF Pending
  <2> QED BY <2>1, <2>2
<1> QED BY <1>0, <1>1, <1>2 DEF Times

LEMMA CountStart == Init => CountInv
<1> SUFFICES ASSUME Init PROVE CountInv
  OBVIOUS
<1>1. \A s \in Seats, x \in Slots : Given(s, x) = {} /\ Places(line[s], x) = {}
  BY DEF Init, Given, Places
<1>2. \A s \in Seats, x \in Slots : IsFiniteSet(Given(s, x)) /\ Times(s, x) = 0
  BY <1>1, FS_EmptySet DEF Times, Count, Pending
<1> QED BY <1>2, InputStart, TypedOnceStart DEF CountInv, Init

LEMMA CountStep == CountInv /\ [Next]_vars => CountInv'
<1> SUFFICES ASSUME CountInv, [Next]_vars PROVE CountInv'
  OBVIOUS
<1>0. InputInv /\ TypedOnce /\ InputInv' /\ TypedOnce' /\ InputTyped
  BY InputStep, TypedOnceStep DEF CountInv, InputInv
<1> SUFFICES ASSUME NEW s \in Seats, NEW x \in Slots
             PROVE  /\ IsFiniteSet(Given(s, x))'
                    /\ Times(s, x)' <= 1 + failures'
                    /\ pty'[s] \in {"none", "up"} /\ x \notin pushed' \cup inFlight' => Times(s, x)' <= failures'
  BY <1>0 DEF CountInv
<1>1. /\ IsFiniteSet(Given(s, x)) /\ Times(s, x) \in Nat /\ failures \in Nat /\ Times(s, x) <= 1 + failures
      /\ pty[s] \in {"none", "up"} /\ x \notin pushed \cup inFlight => Times(s, x) <= failures
      /\ pty'[s] \in {"none", "up"} => pty[s] \in {"none", "up"}
      /\ pushed \subseteq pushed'
  <2>1. Times(s, x) \in Nat /\ failures \in Nat
    BY CountTypes DEF Times
  <2> QED BY <1>0, <2>1, PtyAges, RowsKept DEF CountInv, InputInv
<1>2. CASE UNCHANGED <<line, turns, inFlight>> /\ ~ \E i \in Slots : EnterFires(i)
  <2>1. failures' \in {failures, failures + 1}
    BY <1>2 DEF Next, vars, bridgeVars, SeatStep, AdmitBegin, Spawned, Ready, AdmissionFails, PtyDies, ExitNoticed,
       Retire, Restart, Notify, Poll, Tick, Instruct, InstructionEnter
  <2>2. IsFiniteSet(Given(s, x))' /\ Times(s, x)' = Times(s, x)
    BY <1>1, <1>2 DEF Times, Count, Given, Pending
  <2> QED BY <1>1, <1>2, <2>1, <2>2
<1>3. CASE Restart
  <2>1. failures' = failures /\ (UNCHANGED screenVars \/ \E q \in Seats : Enter(q))
        /\ (pty'[s] = "none" => pty[s] = "none") /\ pty'[s] # "up"
    BY <1>0, <1>3 DEF Restart, RowsReach, InputInv
  <2>2. IsFiniteSet(Given(s, x))' /\ Times(s, x)' = Times(s, x)
    <3>1. CASE UNCHANGED screenVars
      BY <1>1, <3>1 DEF Times, Count, Given, Pending, screenVars
    <3>2. CASE \E q \in Seats : Enter(q)
      BY <3>2, EnterCounts
    <3> QED BY <2>1, <3>1, <3>2
  <2>3. pty[s] = "none" => Times(s, x) = 0
    <3> SUFFICES ASSUME pty[s] = "none" PROVE Times(s, x) = 0
      OBVIOUS
    <3>1. line[s] = <<>> /\ turns[s] = <<>>
      BY <1>0 DEF TypedOnce
    <3>2. Given(s, x) = {} /\ Places(line[s], x) = {}
      BY <3>1 DEF Given, Places
    <3> QED BY <3>2, FS_EmptySet DEF Times, Count, Pending
  <2> QED BY <1>1, <2>1, <2>2, <2>3
<1>4. CASE \E i \in Oldest(Deliverable) : Poll /\ Type(i) /\ turns' = turns
  <2> PICK i \in Oldest(Deliverable) : Poll /\ Type(i) /\ turns' = turns
    BY <1>4
  <2>1. PICK q \in Seats : q = bound[row[i].role]
    BY <1>0, TickTypes
  <2>2. /\ i \in Slots /\ i \in Inputs /\ i \notin pushed \cup inFlight /\ line' = Typed(q, i)
        /\ inFlight' = inFlight \cup {i} /\ UNCHANGED <<pty, failures>>
    BY <1>0, <2>1, TickTypes
  <2>3. /\ IsFiniteSet(Given(s, x))'
        /\ Times(s, x)' = Times(s, x) + (IF s = q /\ pty[q] = "up" /\ i = x THEN 1 ELSE 0)
    BY <2>2, TextCounts
  <2> QED BY <1>1, <2>2, <2>3
<1>5. CASE \E i \in Slots : EnterFires(i)
  <2> PICK i \in Slots : EnterFires(i) BY <1>5
  <2>1. \E q \in Seats : Enter(q)
    BY <1>0 DEF EnterFires, RowsReach, InputInv
  <2>2. IsFiniteSet(Given(s, x))' /\ Times(s, x)' = Times(s, x)
    BY <2>1, EnterCounts
  <2>3. /\ i \in inFlight /\ inFlight' = inFlight \ {i}
        /\ \/ pushed' = pushed \cup {i} /\ failures' = failures
           \/ pushed' = pushed /\ failures' = failures + 1
    BY DEF EnterFires
  <2> QED BY <1>1, <2>2, <2>3
<1>6. CASE \E k \in Instructions, q \in Seats : /\ Enter(q) /\ UNCHANGED <<pushed, inFlight, into>>
                                                /\ InstructionEnter(k)
  <2> PICK k \in Instructions, q \in Seats : /\ Enter(q) /\ UNCHANGED <<pushed, inFlight, into>>
                                             /\ InstructionEnter(k)
    BY <1>6
  <2>1. UNCHANGED failures
    BY DEF InstructionEnter, bridgeVars
  <2> QED BY <1>1, <2>1, EnterCounts
<1>7. CASE \E k \in Instructions, q \in Seats : /\ line' = Typed(q, k) /\ turns' = turns
                                                /\ UNCHANGED <<pushed, inFlight, into>>
                                                /\ Instruct(k, q)
  <2> PICK k \in Instructions, q \in Seats : /\ line' = Typed(q, k) /\ turns' = turns
                                             /\ UNCHANGED <<pushed, inFlight, into>> /\ Instruct(k, q)
    BY <1>7
  <2>1. UNCHANGED failures /\ k \in Inputs /\ k # x
    BY SlotsAreNoInstructions DEF Instruct, bridgeVars, Inputs
  <2>2. IsFiniteSet(Given(s, x))' /\ Times(s, x)' = Times(s, x)
    BY <1>1, <2>1, TextCounts
  <2> QED BY <1>1, <2>1, <2>2
<1> QED BY <1>0, <1>2, <1>3, <1>4, <1>5, <1>6, <1>7, ScreenSteps

(* However ticks and Enters interleave and whoever else writes, a terminal *)
(* is given a message once more at most for every mark that threw.         *)
THEOREM NoDuplicates == Spec => []NoDuplicateWithoutFailure
<1>1. CountInv => NoDuplicateWithoutFailure
  <2> SUFFICES ASSUME CountInv, NEW x \in Messages, NEW s \in Seats PROVE Count(s, x) <= 1 + failures
    BY DEF NoDuplicateWithoutFailure
  <2>1. x \in Slots
    BY DeliveryAssumption DEF CountInv, InputInv, RoutingInv, Messages, Slots
  <2>2. Times(s, x) <= 1 + failures
    BY <2>1 DEF CountInv
  <2> QED BY <2>1, <2>2, CountTypes DEF Times
<1> QED BY <1>1, CountStart, CountStep, PTL DEF Spec
=============================================================================
