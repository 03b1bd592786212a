----------------------------- MODULE TaskLedger -----------------------------
(***************************************************************************)
(* What the kernel promises about responsibility for work, without saying  *)
(* who may ask for what: a Task is opened once, by one delegator that is   *)
(* remembered for ever, for one owner; while it is open the owner can only *)
(* be replaced by a seat that is not retired; once settled it keeps its    *)
(* last owner; and a seat never retires while it owns open work.           *)
(***************************************************************************)
CONSTANTS Seats, Work, Nobody

VARIABLES phase, owner, opener, retired

ledgerVars == <<phase, owner, opener, retired>>

LedgerInit ==
    /\ phase = [w \in Work |-> "absent"]
    /\ owner = [w \in Work |-> Nobody]
    /\ opener = [w \in Work |-> Nobody]
    /\ retired = {}

Open(w, s, d) ==
    /\ phase[w] = "absent" /\ s \notin retired /\ d \notin retired
    /\ phase' = [phase EXCEPT ![w] = "open"]
    /\ owner' = [owner EXCEPT ![w] = s]
    /\ opener' = [opener EXCEPT ![w] = d]
    /\ UNCHANGED retired

Transfer(w, s) ==
    /\ phase[w] = "open" /\ s \notin retired
    /\ owner' = [owner EXCEPT ![w] = s]
    /\ UNCHANGED <<phase, opener, retired>>

Settle(w) ==
    /\ phase[w] = "open"
    /\ \E final \in {"done", "cancelled"} : phase' = [phase EXCEPT ![w] = final]
    /\ UNCHANGED <<owner, opener, retired>>

(* Seats may retire together, as they do when a process ends.              *)
Retire(gone) ==
    /\ \A w \in Work : ~(phase[w] = "open" /\ owner[w] \in gone)
    /\ retired' = retired \cup gone
    /\ UNCHANGED <<phase, owner, opener>>

LedgerNext ==
    \/ \E w \in Work, s, d \in Seats : Open(w, s, d)
    \/ \E w \in Work, s \in Seats : Transfer(w, s)
    \/ \E w \in Work : Settle(w)
    \/ \E gone \in SUBSET Seats : Retire(gone)

LedgerSpec == LedgerInit /\ [][LedgerNext]_ledgerVars
=============================================================================
