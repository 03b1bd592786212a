--------------------------- MODULE GovernedReview ---------------------------
(***************************************************************************)
(* Governed review of finished research (governed-review.ts, with the host *)
(* handlers that call it).  A source work is bound once; a click or the    *)
(* continuation of a result asks for a review, a second critic or a        *)
(* revision; the request is admitted into a review row and a Task, the     *)
(* critic is told, reads, and evaluates; a supporting Evaluation publishes *)
(* the work's Report and decides which Report of its authority is current. *)
(*                                                                         *)
(* Rows are durable.  The requests still acquiring a critic, the           *)
(* deliveries not yet marked and the completion monitors are not.  One     *)
(* attempt id stands for one click: its action and its work are fixed.     *)
(***************************************************************************)
EXTENDS Naturals, Sequences, FiniteSets

CONSTANTS
    Works, Revised, \* source works that may be bound; those that revisions give
    Key, Dated,     \* the authority of each work, and those of market decisions,
    Observed,       \* whose works were observed at a time
    Critics, Reads, \* critic sessions; the reads an Evaluation needs
    Attempts, Action, Subject,  \* clicks: what each asks for, and of which work
    Continued,      \* the reviews asked for by the continuation of a result
    MaxReviews,     \* bound: rows of qf_review_task
    None

ASSUME ReviewAssumption ==
    /\ Revised \subseteq Works
    /\ None \notin Works \cup Critics
    /\ Key \in [Works -> {Key[w] : w \in Works}] /\ Observed \in [Works -> Nat]
    /\ Action \in [Attempts -> {"request_review", "second_critic", "request_revision"}]
    /\ Subject \in [Attempts -> Works]
    /\ \A a \in Continued : a \in Attempts /\ Action[a] = "request_review"
    /\ MaxReviews \in Nat

VARIABLES
    bound,      \* the works in qf_review_source_work
    attempt,    \* qf_review_attempt: the outcome recorded for each click
    review,     \* qf_review_task and its Task, in the order they were created
    evaluation, \* the Evaluations in the order they were written
    pub,        \* qf_review_publication: the row of each work
    session,    \* the critic sessions
    directed,   \* the works whose Task still has a running coordinator
    calls,      \* requests that hold a critic and are not yet admitted
    owed,       \* reviews admitted whose delivery is not yet marked
    watched     \* reviews with a completion monitor

rowVars == <<bound, attempt, review, evaluation, pub>>
seatVars == <<session, directed>>
hostVars == <<calls, owed, watched>>
vars == <<rowVars, seatVars, hostVars>>

(* rejects and inconclusive block the publication alike.                   *)
Verdicts == {"supports", "blocks"}
Unpublished == [by |-> 0, current |-> FALSE, supersedes |-> None, supersededBy |-> None]

TypeOK ==
    /\ bound \subseteq Works
    /\ attempt \in [Attempts -> {"none", "admitted", "refused"}]
    /\ review \in Seq([attempt : Attempts, critic : Critics \cup {None},
                       lifecycle : {"pending", "running", "completed", "failed", "refused"},
                       task : {"open", "done", "cancelled"}, read : SUBSET Reads])
    /\ evaluation \in Seq([review : 1 .. Len(review), verdict : Verdicts, report : BOOLEAN])
    /\ pub \in [Works -> [by : 0 .. Len(evaluation), current : BOOLEAN,
                          supersedes : Works \cup {None}, supersededBy : Works \cup {None}]]
    /\ session \in [Critics -> {"absent", "running", "ended"}]
    /\ directed \subseteq bound
    /\ calls \subseteq [attempt : Attempts, critic : Critics \cup {None}]
    /\ owed \subseteq 1 .. Len(review) /\ watched \subseteq 1 .. Len(review)

Init ==
    /\ bound = {} /\ directed = {}
    /\ attempt = [a \in Attempts |-> "none"]
    /\ review = <<>> /\ evaluation = <<>>
    /\ pub = [w \in Works |-> Unpublished]
    /\ session = [c \in Critics |-> "absent"]
    /\ calls = {} /\ owed = {} /\ watched = {}

-----------------------------------------------------------------------------
(* Reading the rows. *)

Kind(i) == Action[review[i].attempt]
Work(i) == Subject[review[i].attempt]
IsReview(i) == Kind(i) # "request_revision"
ReviewsOf(w, kind) == {i \in DOMAIN review : Work(i) = w /\ Kind(i) = kind}

EvaluatedWork(e) == Work(evaluation[e].review)
Evaluator(e) == review[evaluation[e].review].critic
EvaluationsOf(w) == {e \in DOMAIN evaluation : EvaluatedWork(e) = w}
PriorCritics(w) == {Evaluator(e) : e \in EvaluationsOf(w)}
Blocked(w) == \E e \in EvaluationsOf(w) : evaluation[e].verdict # "supports"

(* criticIsAdmitted, and the idle seats acquireParticipant chooses from.   *)
CriticIsAdmitted(c) == c \in Critics /\ session[c] = "running"
IdleCritics ==
    {c \in Critics : session[c] = "running"
        /\ ~\E i \in DOMAIN review : review[i].critic = c /\ review[i].task = "open"}

(* A second critic or a revision of this work is under way.                *)
SecondCriticInProgress(w) ==
    \E i \in ReviewsOf(w, "second_critic") : review[i].lifecycle \in {"pending", "running"}
RevisionInProgress(w) ==
    \E i \in ReviewsOf(w, "request_revision") : review[i].task = "open"

(* kernelGovernedReviewContextForSession: the oldest running review.       *)
Running(c) == {i \in DOMAIN review : review[i].critic = c /\ review[i].lifecycle = "running"}
AtWork(c, i) == i \in Running(c) /\ \A j \in Running(c) : i <= j

-----------------------------------------------------------------------------
(* Source work.  Its Task was just completed under a running coordinator.  *)

Bind(w) ==
    /\ w \notin bound \cup Revised
    /\ bound' = bound \cup {w} /\ directed' = directed \cup {w}
    /\ UNCHANGED <<attempt, review, evaluation, pub, session, hostVars>>

(* The Director of a work is closed after its Evaluation, or goes.         *)
DirectorEnds(w) ==
    /\ w \in directed
    /\ directed' = directed \ {w}
    /\ UNCHANGED <<rowVars, session, hostVars>>

(* A critic is closed after its Evaluation, cancelled, or its terminal     *)
(* exits; no review row is told.                                           *)
CriticEnds(c) ==
    /\ session[c] = "running"
    /\ session' = [session EXCEPT ![c] = "ended"]
    /\ UNCHANGED <<rowVars, directed, hostVars>>

-----------------------------------------------------------------------------
(* Requests.  A handler awaits its critic before it asks for admission.    *)

(* acquireParticipant: the one idle critic, or a new one when none is.     *)
Acquire(a, excluded) ==
    LET idle == IdleCritics \ excluded IN
    \E c \in Critics :
        /\ IF idle = {} THEN session[c] = "absent" ELSE idle = {c}
        /\ session' = [session EXCEPT ![c] = "running"]
        /\ calls' = calls \cup {[attempt |-> a, critic |-> c]}

(* Request review, which joins a request for the same click in flight.     *)
RequestReview(a) ==
    /\ Action[a] = "request_review" /\ a \notin Continued
    /\ attempt[a] = "none" /\ Subject[a] \in bound
    /\ \A k \in calls : k.attempt # a
    /\ Acquire(a, {})
    /\ UNCHANGED <<rowVars, directed, owed, watched>>

RequestSecondCritic(a) ==
    /\ Action[a] = "second_critic"
    /\ attempt[a] = "none" /\ Subject[a] \in bound
    /\ Acquire(a, PriorCritics(Subject[a]))
    /\ UNCHANGED <<rowVars, directed, owed, watched>>

(* The continuation of a result starts a critic of its own.                *)
ContinueResult(a) ==
    /\ a \in Continued /\ attempt[a] = "none"
    /\ Subject[a] \in directed
    /\ \A k \in calls : k.attempt # a
    /\ \E c \in Critics :
          /\ session[c] = "absent"
          /\ session' = [session EXCEPT ![c] = "running"]
          /\ calls' = calls \cup {[attempt |-> a, critic |-> c]}
    /\ UNCHANGED <<rowVars, directed, owed, watched>>

(* reviseMarketAndReview acquires a worker and a Director, which are not   *)
(* modelled; until it has delivered, no other revision of the same         *)
(* investigation starts.                                                   *)
Revising(k) ==
    \/ \E c \in calls : Action[c.attempt] = "request_revision" /\ Key[Subject[c.attempt]] = k
    \/ \E i \in owed : ~IsReview(i) /\ Key[Work(i)] = k

RequestRevision(a) ==
    /\ Action[a] = "request_revision" /\ Key[Subject[a]] \in Dated
    /\ attempt[a] = "none" /\ Subject[a] \in bound
    /\ ~Revising(Key[Subject[a]])
    /\ calls' = calls \cup {[attempt |-> a, critic |-> None]}
    /\ UNCHANGED <<rowVars, seatVars, owed, watched>>

(* A request recorded as refused at once: the work is not bound, or no     *)
(* second critic could be acquired.                                        *)
RefuseAtOnce(a) ==
    /\ attempt[a] = "none"
    /\ \/ Action[a] = "request_review" /\ a \notin Continued /\ Subject[a] \notin bound
       \/ Action[a] = "second_critic" /\ Subject[a] \in bound
    /\ attempt' = [attempt EXCEPT ![a] = "refused"]
    /\ UNCHANGED <<bound, review, evaluation, pub, seatVars, hostVars>>

-----------------------------------------------------------------------------
(* admitGovernedReviewTask: one transaction.                               *)

MayReview(k) == CriticIsAdmitted(k.critic)
MaySecond(k) ==
    LET w == Subject[k.attempt] IN
    /\ Blocked(w) /\ CriticIsAdmitted(k.critic)
    /\ ~SecondCriticInProgress(w)
    /\ k.critic \notin PriorCritics(w)
MayRevise(k) == Blocked(Subject[k.attempt]) /\ ~RevisionInProgress(Subject[k.attempt])

May(k) ==
    CASE Action[k.attempt] = "request_review" -> MayReview(k)
      [] Action[k.attempt] = "second_critic" -> MaySecond(k)
      [] OTHER -> MayRevise(k)

Opened(k) ==
    [attempt |-> k.attempt, critic |-> k.critic, lifecycle |-> "pending",
     task |-> "open", read |-> {}]

(* A click already decided is replayed; nothing is delivered for it.       *)
Replay(k) ==
    /\ k \in calls /\ attempt[k.attempt] # "none"
    /\ calls' = calls \ {k}
    /\ UNCHANGED <<rowVars, seatVars, owed, watched>>

AdmitAgain(k) ==
    /\ k \in calls /\ Len(review) < MaxReviews
    /\ May(k)
    /\ Action[k.attempt] # "request_revision" => Subject[k.attempt] \in directed
    /\ attempt' = [attempt EXCEPT ![k.attempt] = "admitted"]
    /\ review' = Append(review, Opened(k))
    /\ owed' = owed \cup {Len(review) + 1}
    /\ calls' = calls \ {k}
    /\ UNCHANGED <<bound, evaluation, pub, seatVars, watched>>
Admit(k) ==
    /\ k \in calls /\ attempt[k.attempt] = "none" /\ Len(review) < MaxReviews
    /\ May(k)
    /\ Action[k.attempt] # "request_revision" => Subject[k.attempt] \in directed
    /\ attempt' = [attempt EXCEPT ![k.attempt] = "admitted"]
    /\ review' = Append(review, Opened(k))
    /\ owed' = owed \cup {Len(review) + 1}
    /\ calls' = calls \ {k}
    /\ UNCHANGED <<bound, evaluation, pub, seatVars, watched>>

(* The participants of a revision may turn out not to be eligible.         *)
Refuse(k) ==
    /\ k \in calls /\ attempt[k.attempt] = "none"
    /\ ~May(k) \/ Action[k.attempt] = "request_revision"
    /\ attempt' = [attempt EXCEPT ![k.attempt] = "refused"]
    /\ calls' = calls \ {k}
    /\ UNCHANGED <<bound, review, evaluation, pub, seatVars, owed, watched>>

(* No running coordinator: the transaction throws and records nothing.     *)
AdmissionThrows(k) ==
    /\ k \in calls /\ attempt[k.attempt] = "none"
    /\ May(k) /\ Action[k.attempt] # "request_revision"
    /\ Subject[k.attempt] \notin directed
    /\ calls' = calls \ {k}
    /\ UNCHANGED <<rowVars, seatVars, owed, watched>>

-----------------------------------------------------------------------------
(* Delivery.  A click's is marked before the handler gives way; that of a  *)
(* continuation or a revision is awaited, and Tasks may change meanwhile.  *)

Awaited(i) == review[i].attempt \in Continued \/ ~IsReview(i)
HandlerDone == \A i \in owed : Awaited(i)

Delivered(i) ==
    /\ i \in owed
    /\ owed' = owed \ {i}
    /\ review' = [review EXCEPT ![i].lifecycle = "running"]
    /\ watched' = IF review[i].attempt \in Continued THEN watched \cup {i} ELSE watched
    /\ UNCHANGED <<bound, attempt, evaluation, pub, seatVars, calls>>

DeliveryFailedMisspelt(i) ==
    /\ i \in owed
    /\ owed' = owed \ {i}
    /\ review' = [review EXCEPT ![i].lifecycle = "refused", ![i].task = "canceled"]
    /\ UNCHANGED <<bound, attempt, evaluation, pub, seatVars, calls, watched>>
DeliveryFailedKeepsTask(i) ==
    /\ i \in owed
    /\ owed' = owed \ {i}
    /\ review' = [review EXCEPT ![i].lifecycle = "refused"]
    /\ UNCHANGED <<bound, attempt, evaluation, pub, seatVars, calls, watched>>
(* The mark of a failed delivery cancels the Task; on a Task cancelled     *)
(* before, it throws, and the review stays pending.                        *)
DeliveryFailed(i) ==
    /\ i \in owed
    /\ owed' = owed \ {i}
    /\ review' = IF review[i].task # "open" THEN review
                 ELSE [review EXCEPT ![i].lifecycle = "refused", ![i].task = "cancelled"]
    /\ UNCHANGED <<bound, attempt, evaluation, pub, seatVars, calls, watched>>

-----------------------------------------------------------------------------
(* The critic.  Its tools are bound to the review it is at work on.        *)

Read(c, x) ==
    /\ session[c] = "running"
    /\ \E i \in DOMAIN review :
          /\ AtWork(c, i)
          /\ review' = [review EXCEPT ![i].read = @ \cup {x}]
    /\ UNCHANGED <<bound, attempt, evaluation, pub, seatVars, hostVars>>

CurrentWorks(k) == {w \in Works : Key[w] = k /\ pub[w].current}
CurrentWork(k) == IF CurrentWorks(k) = {} THEN None ELSE CHOOSE w \in CurrentWorks(k) : TRUE

BecomesCurrentAlways(w) == TRUE
BecomesCurrent(w) ==
    LET now == CurrentWork(Key[w]) IN
    now = None \/ Key[w] \notin Dated \/ Observed[w] > Observed[now]

PublicationOfEach(w, e) ==
    [pub EXCEPT ![w] = [by |-> e, current |-> TRUE, supersedes |-> CurrentWork(Key[w]),
                        supersededBy |-> None]]
PublicationDemoting(w, e) ==
    LET now == CurrentWork(Key[w]) IN
    IF pub[w].by # 0
    THEN IF ~pub[w].current /\ now = None
         THEN [pub EXCEPT ![w].current = TRUE, ![w].supersededBy = None] ELSE pub
    ELSE [u \in Works |->
            IF u = w THEN [by |-> e, current |-> BecomesCurrent(w),
                           supersedes |-> IF BecomesCurrent(w) THEN now ELSE None,
                           supersededBy |-> IF BecomesCurrent(w) THEN None ELSE now]
            ELSE IF u = now THEN [pub[u] EXCEPT !.current = FALSE, !.supersededBy = w]
            ELSE pub[u]]
PublicationByLatest(w, e) ==
    LET now == CurrentWork(Key[w]) IN
    IF pub[w].by # 0
    THEN IF ~pub[w].current /\ now = None
         THEN [pub EXCEPT ![w].by = e, ![w].current = TRUE, ![w].supersededBy = None]
         ELSE [pub EXCEPT ![w].by = e]
    ELSE IF ~BecomesCurrent(w)
    THEN [pub EXCEPT ![w] = [by |-> e, current |-> FALSE, supersedes |-> None, supersededBy |-> now]]
    ELSE [u \in Works |->
            IF u = w THEN [by |-> e, current |-> TRUE, supersedes |-> now, supersededBy |-> None]
            ELSE IF u = now THEN [pub[u] EXCEPT !.current = FALSE, !.supersededBy = w]
            ELSE pub[u]]
(* The rows after a supporting Evaluation e of work w.                     *)
Publication(w, e) ==
    LET now == CurrentWork(Key[w]) IN
    IF pub[w].by # 0
    THEN IF ~pub[w].current /\ now = None
         THEN [pub EXCEPT ![w].current = TRUE, ![w].supersededBy = None] ELSE pub
    ELSE IF ~BecomesCurrent(w)
    THEN [pub EXCEPT ![w] = [by |-> e, current |-> FALSE, supersedes |-> None, supersededBy |-> now]]
    ELSE [u \in Works |->
            IF u = w THEN [by |-> e, current |-> TRUE, supersedes |-> now, supersededBy |-> None]
            ELSE IF u = now THEN [pub[u] EXCEPT !.current = FALSE, !.supersededBy = w]
            ELSE pub[u]]

ReadyToEvaluate(c, i) == session[c] = "running" /\ AtWork(c, i) /\ review[i].read = Reads

(* The Evaluation, the Report, the review row and the Task, at once.       *)
Evaluate(c, i, v) ==
    /\ ReadyToEvaluate(c, i)
    /\ review' = [review EXCEPT ![i].lifecycle = "completed", ![i].task = "done"]
    /\ evaluation' = Append(evaluation,
            [review |-> i, verdict |-> v, report |-> v = "supports" \/ pub[Work(i)].by # 0])
    /\ pub' = IF v = "supports" THEN Publication(Work(i), Len(evaluation) + 1) ELSE pub
    /\ UNCHANGED <<bound, attempt, seatVars, hostVars>>

-----------------------------------------------------------------------------
(* The completion monitor of a continued review.                           *)

Closed(c) == IF \E i \in DOMAIN review' : review'[i].critic = c /\ review'[i].task = "open"
             THEN session ELSE [session EXCEPT ![c] = "ended"]

(* The critic returned without an Evaluation, or took too long.  On a Task *)
(* cancelled before, the failure throws and the review stays running.      *)
MonitorGivesUp(i) ==
    /\ i \in watched /\ review[i].lifecycle = "running"
    /\ watched' = watched \ {i}
    /\ IF review[i].task = "open"
       THEN /\ review' = [review EXCEPT ![i].lifecycle = "failed", ![i].task = "cancelled"]
            /\ session' = Closed(review[i].critic)
       ELSE UNCHANGED <<review, session>>
    /\ UNCHANGED <<bound, attempt, evaluation, pub, directed, calls, owed>>

(* Capturing the screen of a critic that is gone throws: no more monitor.  *)
MonitorStops(i) ==
    /\ i \in watched /\ review[i].lifecycle = "running"
    /\ session[review[i].critic] # "running"
    /\ watched' = watched \ {i}
    /\ UNCHANGED <<rowVars, seatVars, calls, owed>>

-----------------------------------------------------------------------------
(* What else becomes of a review Task, and of the process.                 *)

CancelTask(i) ==
    /\ review[i].task = "open"
    /\ IsReview(i) => Work(i) \in directed /\ session[review[i].critic] = "running"
    /\ review' = [review EXCEPT ![i].task = "cancelled"]
    /\ UNCHANGED <<bound, attempt, evaluation, pub, seatVars, hostVars>>

(* The worker's result completes a revision and is a new source work of    *)
(* the same authority, observed later.                                     *)
CompleteRevision(i, w) ==
    /\ ~IsReview(i) /\ review[i].task = "open"
    /\ w \in Revised \ bound /\ Key[w] = Key[Work(i)] /\ Observed[w] > Observed[Work(i)]
    /\ review' = [review EXCEPT ![i].task = "done"]
    /\ bound' = bound \cup {w} /\ directed' = directed \cup {w}
    /\ UNCHANGED <<attempt, evaluation, pub, session, hostVars>>

(* The process ends and starts again: no session of it is left.            *)
Restart ==
    /\ calls' = {} /\ owed' = {} /\ watched' = {}
    /\ directed' = {}
    /\ session' = [c \in Critics |-> IF session[c] = "running" THEN "ended" ELSE session[c]]
    /\ UNCHANGED rowVars

-----------------------------------------------------------------------------
SeatStep ==
    \/ \E w \in Works : Bind(w) \/ DirectorEnds(w)
    \/ \E c \in Critics : CriticEnds(c)
RequestStep == \E a \in Attempts :
    \/ RequestReview(a) \/ RequestSecondCritic(a) \/ ContinueResult(a)
    \/ RequestRevision(a) \/ RefuseAtOnce(a)
AdmissionStep == \E k \in calls : Replay(k) \/ Admit(k) \/ Refuse(k) \/ AdmissionThrows(k)
DeliveryStep == \E i \in owed : Delivered(i) \/ DeliveryFailed(i)
CriticStep == \E c \in Critics :
    \/ \E x \in Reads : Read(c, x)
    \/ \E i \in DOMAIN review, v \in Verdicts : Evaluate(c, i, v)
TaskStep == \E i \in DOMAIN review :
    \/ MonitorGivesUp(i) \/ MonitorStops(i) \/ CancelTask(i)
    \/ \E w \in Works : CompleteRevision(i, w)

Next ==
    \/ DeliveryStep
    \/ Restart
    \/ HandlerDone /\ (SeatStep \/ RequestStep \/ AdmissionStep \/ CriticStep \/ TaskStep)

Spec == Init /\ [][Next]_vars

-----------------------------------------------------------------------------
(* Properties. *)

(* Reports implement the promise made to their readers: one per work, one  *)
(* current Report per authority, and history that is not revived.          *)
Authority == INSTANCE ReportAuthority WITH
    published <- {w \in Works : pub[w].by # 0},
    current <- [k \in {Key[w] : w \in Works} |-> CurrentWork(k)]
ImplementsAuthority == Authority!AuthoritySpec

(* The supersession columns tell one story: exactly one row of an authority*)
(* is current; a row that is not names the published row of its authority  *)
(* that took or kept its place; who supersedes is named as the superseder; *)
(* and following the names leads to the current row.                       *)
SupersessionChain ==
    \A w \in Works : pub[w].by # 0 =>
        /\ CurrentWorks(Key[w]) = {CurrentWork(Key[w])}
        /\ pub[w].current = (pub[w].supersededBy = None)
        /\ ~pub[w].current =>
              LET n == pub[w].supersededBy IN
              pub[n].by # 0 /\ Key[n] = Key[w] /\ n # w
        /\ pub[w].supersedes # None =>
              pub[pub[w].supersedes].supersededBy = w /\ pub[pub[w].supersedes].by < pub[w].by

(* A late review never hides newer evidence: the current Report of a dated *)
(* authority is of the latest observation among those published, and of    *)
(* equals the first published.                                             *)
CurrentIsFreshest ==
    \A w \in Works : pub[w].by # 0 /\ Key[w] \in Dated =>
        LET now == CurrentWork(Key[w]) IN
        \/ Observed[w] < Observed[now]
        \/ Observed[w] = Observed[now] /\ pub[now].by <= pub[w].by

(* A Report rests on the first supporting Evaluation of its work, written  *)
(* after that review's own reads, and keeps resting on it: later ones are  *)
(* tied to it and do not replace it, and nothing written before it is tied *)
(* to a Report.  What a later rejecting one is tied to is left open.       *)
ReportOnFirstSupport ==
    \A w \in Works :
        /\ pub[w].by # 0 => /\ pub[w].by \in EvaluationsOf(w)
                           /\ evaluation[pub[w].by].verdict = "supports"
                           /\ review[evaluation[pub[w].by].review].read = Reads
        /\ \A e \in EvaluationsOf(w) :
              /\ evaluation[e].verdict = "supports" => pub[w].by \in 1 .. e /\ evaluation[e].report
              /\ evaluation[e].report => pub[w].by \in 1 .. e

(* What a review row says of its end, its Task says too: a review is       *)
(* completed exactly when it was evaluated, and then its Task is done; a   *)
(* failed or undeliverable one has a cancelled Task.  Not the other way:   *)
(* a Task cancelled meanwhile leaves its row as it was.                    *)
LifecycleMatchesTask ==
    \A i \in DOMAIN review : IsReview(i) =>
        /\ (review[i].lifecycle = "completed") = (review[i].task = "done")
        /\ review[i].lifecycle \in {"failed", "refused"} => review[i].task = "cancelled"
        /\ review[i].lifecycle = "completed"
              <=> \E e \in DOMAIN evaluation : evaluation[e].review = i

(* A click is decided once: however often it is sent and whatever handlers *)
(* race for it, the outcome recorded first stands, and no review is opened *)
(* for it later.                                                           *)
ClickActsOnce ==
    [][\A a \in Attempts : attempt[a] # "none" =>
          /\ attempt'[a] = attempt[a]
          /\ \A i \in DOMAIN review' : review'[i].attempt = a => i \in DOMAIN review]_vars
=============================================================================
