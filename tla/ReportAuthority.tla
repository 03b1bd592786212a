--------------------------- MODULE ReportAuthority ---------------------------
(***************************************************************************)
(* What readers of research Reports are promised: a piece of work gets at  *)
(* most one Report, which is never withdrawn, and each authority (one      *)
(* Mission's question about one body of evidence) that has Reports has     *)
(* exactly one current Report.  The current Report changes only when a     *)
(* Report is published, and then only to that Report: history is not       *)
(* revived.                                                                *)
(***************************************************************************)
CONSTANTS Works, Key, None

VARIABLES published, current

authorityVars == <<published, current>>
Authorities == {Key[w] : w \in Works}

AuthorityInit ==
    /\ published = {}
    /\ current = [k \in Authorities |-> None]

Publish(w) ==
    /\ w \notin published
    /\ published' = published \cup {w}
    /\ \/ current' = [current EXCEPT ![Key[w]] = w]
       \/ current[Key[w]] # None /\ UNCHANGED current

AuthoritySpec == AuthorityInit /\ [][\E w \in Works : Publish(w)]_authorityVars
=============================================================================
