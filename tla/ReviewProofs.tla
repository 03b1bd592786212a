---------------------------- MODULE ReviewProofs -----------------------------
(* Theorems about GovernedReview, for any number of works, authorities,    *)
(* critics, clicks and reviews, and for works observed at the same time.   *)
EXTENDS GovernedReview, SequenceTheorems, TLAPS

Published == {w \in Works : pub[w].by # 0}
Row(n) == [by : 0 .. n, current : BOOLEAN,
           supersedes : Works \cup {None}, supersededBy : Works \cup {None}]
Publications(n) == [Works -> Row(n)]

(* An authority with a Report has one current row and no row without a     *)
(* Report says anything.                                                   *)
OneCurrent ==
    /\ \A w \in Works : pub[w].by = 0 => pub[w] = Unpublished
    /\ \A w \in Published : \E u \in Published : Key[u] = Key[w] /\ pub[u].current
    /\ \A w, u \in Published : Key[u] = Key[w] /\ pub[w].current /\ pub[u].current => u = w

PubInv == OneCurrent /\ SupersessionChain /\ CurrentIsFreshest

LEMMA CurrentOf ==
    ASSUME OneCurrent, NEW w \in Works,
           NEW x \in Works, Key[x] = Key[w], pub[x].current, pub[x].by # 0
    PROVE  CurrentWorks(Key[w]) = {x} /\ CurrentWork(Key[w]) = x
<1>1. \A u \in Works : pub[u].current => u \in Published
  BY DEF OneCurrent, Unpublished, Published
<1>2. CurrentWorks(Key[w]) = {x}
  BY <1>1 DEF CurrentWorks, OneCurrent, Published
<1> QED BY <1>2 DEF CurrentWork

LEMMA NoneCurrent ==
    ASSUME OneCurrent, NEW w \in Works, \A x \in Published : Key[x] # Key[w]
    PROVE  CurrentWorks(Key[w]) = {} /\ CurrentWork(Key[w]) = None
BY DEF OneCurrent, Unpublished, Published, CurrentWorks, CurrentWork

(* The row an authority's readers see: none yet, or one that is published. *)
LEMMA CurrentCases ==
    ASSUME OneCurrent, NEW w \in Works
    PROVE  \/ /\ CurrentWork(Key[w]) = None /\ \A x \in Published : Key[x] # Key[w]
           \/ /\ CurrentWork(Key[w]) \in Published /\ Key[CurrentWork(Key[w])] = Key[w]
              /\ pub[CurrentWork(Key[w])].current
<1>1. CASE \A x \in Published : Key[x] # Key[w]
  BY <1>1, NoneCurrent
<1>2. CASE \E x \in Published : Key[x] = Key[w]
  <2>1. PICK u \in Published : Key[u] = Key[w] /\ pub[u].current
    BY <1>2 DEF OneCurrent
  <2> QED BY <2>1, CurrentOf DEF Published
<1> QED BY <1>1, <1>2

-----------------------------------------------------------------------------
(* What a supporting Evaluation does to the publication rows: nothing for  *)
(* a work that has a Report, else the work's row and that of the current   *)
(* work of its authority, whose place it takes or leaves.                  *)
Entered(w, e, now) ==
    /\ pub' = [pub EXCEPT ![w] =
            [by |-> e, current |-> FALSE, supersedes |-> None, supersededBy |-> now]]
    /\ now # None /\ Key[w] \in Dated /\ ~(Observed[w] > Observed[now])
Took(w, e, now) ==
    /\ now = None \/ Key[w] \notin Dated \/ Observed[w] > Observed[now]
    /\ pub' = [u \in Works |->
            IF u = w THEN [by |-> e, current |-> TRUE, supersedes |-> now, supersededBy |-> None]
            ELSE IF u = now THEN [pub[u] EXCEPT !.current = FALSE, !.supersededBy = w]
            ELSE pub[u]]

LEMMA PublicationCases ==
    ASSUME PubInv, NEW n \in Nat, pub \in Publications(n), NEW w \in Works, NEW e,
           pub' = Publication(w, e)
    PROVE  \/ pub[w].by # 0 /\ pub' = pub
           \/ pub[w].by = 0 /\ (Entered(w, e, CurrentWork(Key[w])) \/ Took(w, e, CurrentWork(Key[w])))
<1>1. CASE pub[w].by # 0
  <2>1. CurrentWork(Key[w]) # None
    BY <1>1, CurrentCases, ReviewAssumption DEF PubInv, Published
  <2> QED BY <1>1, <2>1 DEF Publication
<1>2. CASE pub[w].by = 0 /\ ~BecomesCurrent(w)
  BY <1>2 DEF Publication, Entered, BecomesCurrent
<1>3. CASE pub[w].by = 0 /\ BecomesCurrent(w)
  BY <1>3 DEF Publication, Took, BecomesCurrent
<1> QED BY <1>1, <1>2, <1>3

(* A new Report that enters the history of its authority.                  *)
LEMMA EnteredKeeps ==
    ASSUME PubInv, NEW n \in Nat, pub \in Publications(n), NEW w \in Works, pub[w].by = 0,
           Entered(w, n + 1, CurrentWork(Key[w]))
    PROVE  /\ PubInv' /\ pub' \in Publications(n + 1)
           /\ \A u \in Works : pub'[u].by = IF u = w THEN n + 1 ELSE pub[u].by
           /\ CurrentWork(Key[w]) # None
           /\ \A u \in Works : CurrentWork(Key[u])' = CurrentWork(Key[u])
<1> DEFINE now == CurrentWork(Key[w])
           r == [by |-> n + 1, current |-> FALSE, supersedes |-> None, supersededBy |-> now]
<1>1. now \in Works /\ pub[now].by # 0 /\ Key[now] = Key[w] /\ pub[now].current /\ now # w
  BY CurrentCases DEF PubInv, Entered, Published
<1>2. pub' = [pub EXCEPT ![w] = r] /\ Key[w] \in Dated /\ ~(Observed[w] > Observed[now])
  BY DEF Entered
<1>3. /\ r \in Row(n + 1) /\ r.by = n + 1 /\ r.by # 0 /\ r.current = FALSE
      /\ r.supersedes = None /\ r.supersededBy = now
  BY <1>1 DEF Row
<1> HIDE DEF now, r
<1>4. pub'[w] = r /\ \A u \in Works \ {w} : pub'[u] = pub[u]
  BY <1>2 DEF Publications
<1>5. \A u \in Works : pub[u] \in Row(n) /\ pub[u] \in Row(n + 1)
  BY DEF Publications, Row
<1>6. pub' \in Publications(n + 1)
  BY <1>2, <1>3, <1>5 DEF Publications
<1>7. OneCurrent'
  <2>1. \A u \in Works : pub'[u].by = 0 => pub'[u] = Unpublished
    BY <1>3, <1>4 DEF PubInv, OneCurrent
  <2>2. \A u \in Works : pub'[u].by # 0 <=> pub[u].by # 0 \/ u = w
    BY <1>3, <1>4
  <2>3. \A u \in Works : pub'[u].current <=> pub[u].current /\ u # w
    BY <1>3, <1>4
  <2> QED BY <2>1, <2>2, <2>3, <1>1 DEF PubInv, OneCurrent, Published
<1>8. ASSUME NEW u \in Works
      PROVE  /\ CurrentWorks(Key[u])' = CurrentWorks(Key[u])
             /\ CurrentWork(Key[u])' = CurrentWork(Key[u])
  <2>1. ~pub[w].current
    BY DEF PubInv, OneCurrent, Unpublished
  <2>2. CurrentWorks(Key[u])' = CurrentWorks(Key[u])
    BY <1>3, <1>4, <2>1 DEF CurrentWorks
  <2> QED BY <2>2 DEF CurrentWork
<1>9. SupersessionChain'
  <2> SUFFICES ASSUME NEW u \in Works, pub'[u].by # 0
               PROVE  /\ CurrentWorks(Key[u])' = {CurrentWork(Key[u])'}
                      /\ pub'[u].current = (pub'[u].supersededBy = None)
                      /\ ~pub'[u].current =>
                            LET m == pub'[u].supersededBy IN
                            pub'[m].by # 0 /\ Key[m] = Key[u] /\ m # u
                      /\ pub'[u].supersedes # None =>
                            /\ pub'[pub'[u].supersedes].supersededBy = u
                            /\ pub'[pub'[u].supersedes].by < pub'[u].by
    BY <1>8 DEF SupersessionChain
  <2>1. CASE u = w
    <3>1. CurrentWorks(Key[w]) = {now} /\ CurrentWork(Key[w]) = now
      BY <1>1, CurrentOf DEF PubInv
    <3>2. pub'[w] = r /\ pub'[now] = pub[now]
      BY <1>1, <1>4
    <3>3. now # None
      BY <1>1, ReviewAssumption
    <3> QED BY <2>1, <3>1, <3>2, <3>3, <1>1, <1>3, <1>8
  <2>2. CASE u # w
    <3>1. pub'[u] = pub[u] /\ pub[u] \in Row(n) /\ pub[u].by # 0
      BY <2>2, <1>4, <1>5
    <3>2. ~pub[u].current => pub[u].supersededBy \in Works \ {w}
      BY <3>1 DEF PubInv, SupersessionChain, Row
    <3>3. pub[u].supersedes # None => pub[u].supersedes \in Works \ {w}
      <4>1. pub[w].supersededBy = None
        BY DEF PubInv, OneCurrent, Unpublished
      <4> QED BY <3>1, <4>1, ReviewAssumption DEF PubInv, SupersessionChain, Row
    <3> QED BY <3>1, <3>2, <3>3, <1>4, <1>8 DEF PubInv, SupersessionChain
  <2> QED BY <2>1, <2>2
<1>10. CurrentIsFreshest'
  <2> SUFFICES ASSUME NEW u \in Works, pub'[u].by # 0, Key[u] \in Dated
               PROVE  \/ Observed[u] < Observed[CurrentWork(Key[u])']
                      \/ /\ Observed[u] = Observed[CurrentWork(Key[u])']
                         /\ pub'[CurrentWork(Key[u])'].by <= pub'[u].by
    BY DEF CurrentIsFreshest
  <2>1. CASE u = w
    <3>1. CurrentWork(Key[u])' = now
      BY <2>1, <1>8 DEF now
    <3>2. pub'[now].by \in 0 .. n /\ pub'[u].by = n + 1
      BY <2>1, <1>1, <1>3, <1>4, <1>5 DEF Row
    <3>3. Observed[u] \in Nat /\ Observed[now] \in Nat /\ ~(Observed[u] > Observed[now])
      BY <2>1, <1>1, <1>2, ReviewAssumption
    <3>4. pub'[u].by \in Nat /\ pub'[now].by <= pub'[u].by
      BY <3>2
    <3>5. Observed[u] < Observed[now]
          \/ (Observed[u] = Observed[now] /\ pub'[now].by <= pub'[u].by)
      BY <3>3, <3>4
    <3> QED BY <3>1, <3>5
  <2>2. CASE u # w
    <3>1. pub'[u] = pub[u] /\ pub[u].by # 0
      BY <2>2, <1>4
    <3>2. CurrentWork(Key[u]) \in Works \ {w}
      BY <3>1, CurrentCases DEF PubInv, Published
    <3> QED BY <3>1, <3>2, <1>4, <1>8 DEF PubInv, CurrentIsFreshest
  <2> QED BY <2>1, <2>2
<1>11. \A u \in Works : pub'[u].by = IF u = w THEN n + 1 ELSE pub[u].by
  BY <1>3, <1>4
<1> QED BY <1>2, <1>6, <1>7, <1>8, <1>9, <1>10, <1>11 DEF PubInv, Entered

(* A new Report that takes the place of the current one, or is the first.  *)
LEMMA TookKeeps ==
    ASSUME PubInv, NEW n \in Nat, pub \in Publications(n), NEW w \in Works, pub[w].by = 0,
           Took(w, n + 1, CurrentWork(Key[w]))
    PROVE  /\ PubInv' /\ pub' \in Publications(n + 1)
           /\ \A u \in Works : pub'[u].by = IF u = w THEN n + 1 ELSE pub[u].by
           /\ \A u \in Works :
                 CurrentWork(Key[u])' = IF Key[u] = Key[w] THEN w ELSE CurrentWork(Key[u])
<1> DEFINE now == CurrentWork(Key[w])
           r == [by |-> n + 1, current |-> TRUE, supersedes |-> now, supersededBy |-> None]
<1>1. \/ now = None /\ \A x \in Published : Key[x] # Key[w]
      \/ now \in Works \ {w} /\ pub[now].by # 0 /\ Key[now] = Key[w] /\ pub[now].current
  BY CurrentCases DEF PubInv, Published
<1>2. /\ now = None \/ Key[w] \notin Dated \/ Observed[w] > Observed[now]
      /\ pub' = [u \in Works |-> IF u = w THEN r
                  ELSE IF u = now THEN [pub[u] EXCEPT !.current = FALSE, !.supersededBy = w]
                  ELSE pub[u]]
  BY DEF Took
<1>3. \A u \in Works : pub[u] \in Row(n)
  BY DEF Publications
<1>4. /\ r \in Row(n + 1) /\ r.by = n + 1 /\ r.by # 0 /\ r.current = TRUE
      /\ r.supersedes = now /\ r.supersededBy = None
  BY <1>1 DEF Row
<1> HIDE DEF now, r
<1>5. /\ pub'[w] = r
      /\ \A u \in Works \ {w, now} : pub'[u] = pub[u]
      /\ now \in Works =>
            /\ pub'[now].by = pub[now].by /\ pub'[now].supersedes = pub[now].supersedes
            /\ pub'[now].current = FALSE /\ pub'[now].supersededBy = w
            /\ pub'[now] \in Row(n + 1)
  <2>1. pub'[w] = r /\ \A u \in Works \ {w, now} : pub'[u] = pub[u]
    BY <1>2
  <2>2. ASSUME now \in Works
        PROVE  pub'[now] = [pub[now] EXCEPT !.current = FALSE, !.supersededBy = w]
    BY <1>1, <1>2, <2>2, ReviewAssumption
  <2>3. ASSUME now \in Works
        PROVE  /\ pub'[now].by = pub[now].by /\ pub'[now].supersedes = pub[now].supersedes
               /\ pub'[now].current = FALSE /\ pub'[now].supersededBy = w
               /\ pub'[now] \in Row(n + 1)
    <3> DEFINE p == pub[now]
               q == pub'[now]
    <3>1. p \in Row(n) /\ q = [p EXCEPT !.current = FALSE, !.supersededBy = w]
      BY <1>3, <2>2, <2>3
    <3> HIDE DEF p, q
    <3>2. q.by = p.by /\ q.supersedes = p.supersedes
      BY <3>1 DEF Row
    <3>3. q.current = FALSE
      BY <3>1 DEF Row
    <3>4. q.supersededBy = w
      BY <3>1 DEF Row
    <3>5. q \in Row(n)
      BY <3>1 DEF Row
    <3>6. q \in Row(n + 1)
      BY <3>5 DEF Row
    <3> QED BY <3>2, <3>3, <3>4, <3>6 DEF p, q
  <2> QED BY <2>1, <2>3
<1>6. pub' \in Publications(n + 1)
  <2>1. \A u \in Works : pub[u] \in Row(n + 1)
    BY <1>3 DEF Row
  <2>2. \A u \in Works : pub'[u] \in Row(n + 1)
    BY <1>4, <1>5, <2>1
  <2> QED BY <1>2, <2>2 DEF Publications
<1> w # now
  BY <1>1, ReviewAssumption
<1>7. \A u \in Works : /\ pub'[u].by # 0 <=> pub[u].by # 0 \/ u = w
                       /\ pub'[u].current <=> u = w \/ (u # now /\ pub[u].current)
  <2> TAKE u \in Works
  <2>1. CASE u = w
    BY <2>1, <1>4, <1>5
  <2>2. CASE u = now
    BY <2>2, <1>1, <1>5, ReviewAssumption
  <2>3. CASE u # w /\ u # now
    BY <2>3, <1>5
  <2> QED BY <2>1, <2>2, <2>3
<1>8. OneCurrent'
  <2>1. \A u \in Works : pub'[u].by = 0 => pub'[u] = Unpublished
    <3> SUFFICES ASSUME NEW u \in Works, pub'[u].by = 0 PROVE pub'[u] = Unpublished
      OBVIOUS
    <3>1. u # w /\ pub[u].by = 0
      BY <1>7
    <3>2. u # now
      BY <3>1, <1>1, ReviewAssumption
    <3> QED BY <3>1, <3>2, <1>5 DEF PubInv, OneCurrent
  <2>2. \A u \in Works : Key[u] = Key[w] /\ pub'[u].by # 0 /\ pub'[u].current => u = w
    BY <1>1, <1>7 DEF PubInv, OneCurrent, Published
  <2>3. ASSUME NEW u \in Published'
        PROVE  \E v \in Published' : Key[v] = Key[u] /\ pub'[v].current
    <3>1. u \in Works /\ (pub[u].by # 0 \/ u = w)
      BY <1>7 DEF Published
    <3>2. w \in Published' /\ pub'[w].current
      BY <1>7 DEF Published
    <3>3. CASE Key[u] = Key[w]
      BY <3>2, <3>3
    <3>4. CASE Key[u] # Key[w]
      <4>1. PICK v \in Published : Key[v] = Key[u] /\ pub[v].current
        BY <3>1, <3>4 DEF PubInv, OneCurrent, Published
      <4>2. v # now /\ v \in Published' /\ pub'[v].current
        BY <3>4, <4>1, <1>1, <1>7, ReviewAssumption DEF Published
      <4> QED BY <4>1, <4>2
    <3> QED BY <3>3, <3>4
  <2>4. ASSUME NEW u \in Published', NEW v \in Published',
               Key[v] = Key[u], pub'[u].current, pub'[v].current
        PROVE  u = v
    BY <1>7, <2>2, <2>4 DEF PubInv, OneCurrent, Published
  <2> QED BY <2>1, <2>3, <2>4 DEF OneCurrent, Published
<1>9. ASSUME NEW u \in Works
      PROVE  /\ Key[u] = Key[w] => CurrentWorks(Key[u])' = {w} /\ CurrentWork(Key[u])' = w
             /\ Key[u] # Key[w] => /\ CurrentWorks(Key[u])' = CurrentWorks(Key[u])
                                   /\ CurrentWork(Key[u])' = CurrentWork(Key[u])
  <2>1. \A x \in Works : pub[x].current => pub[x].by # 0
    BY DEF PubInv, OneCurrent, Unpublished
  <2>2. CASE Key[u] = Key[w]
    <3>1. CurrentWorks(Key[u])' = {w}
      BY <2>1, <2>2, <1>1, <1>7 DEF CurrentWorks, PubInv, OneCurrent, Published
    <3> QED BY <2>2, <3>1 DEF CurrentWork
  <2>3. CASE Key[u] # Key[w]
    <3>1. CurrentWorks(Key[u])' = CurrentWorks(Key[u])
      BY <2>3, <1>1, <1>7, ReviewAssumption DEF CurrentWorks
    <3> QED BY <2>3, <3>1 DEF CurrentWork
  <2> QED BY <2>2, <2>3
<1>10. SupersessionChain'
  <2> SUFFICES ASSUME NEW u \in Works, pub'[u].by # 0
               PROVE  /\ CurrentWorks(Key[u])' = {CurrentWork(Key[u])'}
                      /\ pub'[u].current = (pub'[u].supersededBy = None)
                      /\ ~pub'[u].current =>
                            LET m == pub'[u].supersededBy IN
                            pub'[m].by # 0 /\ Key[m] = Key[u] /\ m # u
                      /\ pub'[u].supersedes # None =>
                            /\ pub'[pub'[u].supersedes].supersededBy = u
                            /\ pub'[pub'[u].supersedes].by < pub'[u].by
    BY DEF SupersessionChain
  <2>1. CASE u = w
    <3>1. now # None => pub'[now].supersededBy = w /\ pub'[now].by \in 0 .. n
      BY <1>1, <1>3, <1>5 DEF Row
    <3>2. n \in Nat /\ (now # None => pub'[now].by < n + 1)
      BY <3>1
    <3> QED BY <2>1, <3>1, <3>2, <1>4, <1>5, <1>9
  <2>2. CASE u = now
    <3>1. now \in Works /\ pub[now].by # 0 /\ Key[now] = Key[w]
      BY <2>2, <1>1, ReviewAssumption
    <3>2. /\ pub'[now].current = FALSE /\ pub'[now].supersededBy = w /\ w # None
          /\ pub'[now].by = pub[now].by /\ pub'[now].supersedes = pub[now].supersedes
      BY <3>1, <1>5, ReviewAssumption
    <3>3. pub[now].supersedes # None => /\ pub[now].supersedes \in Works \ {w, now}
                                        /\ pub[pub[now].supersedes].supersededBy = now
                                        /\ pub[pub[now].supersedes].by < pub[now].by
      <4>1. pub[w].supersededBy = None /\ pub[now] \in Row(n)
        BY <3>1, <1>3 DEF PubInv, OneCurrent, Unpublished
      <4>2. pub[now].supersededBy = None
        BY <3>1, <1>1, ReviewAssumption DEF PubInv, SupersessionChain
      <4> QED BY <3>1, <4>1, <4>2, ReviewAssumption DEF PubInv, SupersessionChain, Row
    <3>4. pub'[w].by # 0
      BY <1>4, <1>5
    <3> QED BY <2>2, <3>1, <3>2, <3>3, <3>4, <1>5, <1>9
  <2>3. CASE u # w /\ u # now
    <3>1. pub'[u] = pub[u] /\ pub[u] \in Row(n) /\ pub[u].by # 0
      BY <2>3, <1>3, <1>5
    <3>2. ~pub[u].current => pub[u].supersededBy \in Works \ {w}
      BY <3>1 DEF PubInv, SupersessionChain, Row
    <3>3. pub[u].supersedes # None => pub[u].supersedes \in Works \ {w, now}
      <4>1. pub[w].supersededBy = None
        BY DEF PubInv, OneCurrent, Unpublished
      <4>2. now \in Works => pub[now].supersededBy = None
        BY <1>1, ReviewAssumption DEF PubInv, SupersessionChain
      <4> QED BY <3>1, <4>1, <4>2, ReviewAssumption DEF PubInv, SupersessionChain, Row
    <3>4. CASE Key[u] = Key[w]
      BY <3>1, <3>2, <3>3, <3>4, <1>5, <1>7, <1>9 DEF PubInv, SupersessionChain
    <3>5. CASE Key[u] # Key[w]
      BY <3>1, <3>2, <3>3, <3>5, <1>5, <1>7, <1>9 DEF PubInv, SupersessionChain
    <3> QED BY <3>4, <3>5
  <2> QED BY <2>1, <2>2, <2>3
<1>11. CurrentIsFreshest'
  <2> SUFFICES ASSUME NEW u \in Works, pub'[u].by # 0, Key[u] \in Dated
               PROVE  \/ Observed[u] < Observed[CurrentWork(Key[u])']
                      \/ /\ Observed[u] = Observed[CurrentWork(Key[u])']
                         /\ pub'[CurrentWork(Key[u])'].by <= pub'[u].by
    BY DEF CurrentIsFreshest
  <2>1. CASE u = w
    <3>1. CurrentWork(Key[u])' = u /\ Observed[u] \in Nat /\ pub'[u].by = n + 1
      BY <2>1, <1>4, <1>5, <1>9, ReviewAssumption
    <3> QED BY <3>1
  <2>2. CASE u # w /\ Key[u] = Key[w]
    <3>1. pub[u].by # 0
      BY <2>2, <1>7
    <3>2. /\ now \in Works /\ Observed[w] > Observed[now]
          /\ CurrentWork(Key[u]) = now /\ CurrentWork(Key[u])' = w
      <4>1. now \in Works
        BY <3>1, <2>2, <1>1 DEF Published
      <4>2. Observed[w] > Observed[now]
        BY <4>1, <2>2, <1>2, ReviewAssumption
      <4>3. CurrentWork(Key[u]) = now /\ CurrentWork(Key[u])' = w
        BY <2>2, <1>9 DEF now
      <4> QED BY <4>1, <4>2, <4>3
    <3>3. Observed[u] <= Observed[now]
      BY <3>1, <3>2, ReviewAssumption DEF PubInv, CurrentIsFreshest
    <3>4. Observed[u] < Observed[w]
      BY <3>2, <3>3, ReviewAssumption
    <3> QED BY <3>2, <3>4
  <2>3. CASE Key[u] # Key[w]
    <3>1. pub'[u] = pub[u] /\ pub[u].by # 0
      BY <2>3, <1>1, <1>5, <1>7, ReviewAssumption
    <3>2. CurrentWork(Key[u]) \in Works \ {w, now}
      BY <3>1, <2>3, <1>1, CurrentCases, ReviewAssumption DEF PubInv, Published
    <3> QED BY <3>1, <3>2, <2>3, <1>5, <1>9 DEF PubInv, CurrentIsFreshest
  <2> QED BY <2>1, <2>2, <2>3
<1>12. \A u \in Works : pub'[u].by = IF u = w THEN n + 1 ELSE pub[u].by
  BY <1>4, <1>5
<1> QED BY <1>6, <1>8, <1>9, <1>10, <1>11, <1>12 DEF PubInv

LEMMA SamePublication ==
    ASSUME PubInv, pub' = pub
    PROVE  PubInv'
<1>1. ASSUME NEW u \in Works
      PROVE  /\ CurrentWorks(Key[u])' = CurrentWorks(Key[u])
             /\ CurrentWork(Key[u])' = CurrentWork(Key[u])
  <2>1. CurrentWorks(Key[u])' = CurrentWorks(Key[u])
    BY DEF CurrentWorks
  <2> QED BY <2>1 DEF CurrentWork
<1>2. OneCurrent'
  BY DEF PubInv, OneCurrent, Published
<1>3. SupersessionChain'
  BY <1>1 DEF PubInv, SupersessionChain
<1>4. CurrentIsFreshest'
  BY <1>1 DEF PubInv, CurrentIsFreshest
<1> QED BY <1>2, <1>3, <1>4 DEF PubInv

LEMMA MorePublications ==
    ASSUME NEW n \in Nat, pub \in Publications(n)
    PROVE  pub \in Publications(n + 1)
<1>1. \A u \in Works : pub[u] \in Row(n + 1)
  BY DEF Publications, Row
<1> QED BY <1>1 DEF Publications

(* Whatever an Evaluation does to the publication rows, they stay in order.*)
LEMMA PublicationKeeps ==
    ASSUME PubInv, NEW n \in Nat, pub \in Publications(n), NEW w \in Works,
           pub' = Publication(w, n + 1)
    PROVE  /\ PubInv' /\ pub' \in Publications(n + 1)
           /\ \A u \in Works : pub'[u].by = IF u = w /\ pub[u].by = 0 THEN n + 1 ELSE pub[u].by
           /\ pub[w].by # 0 => pub' = pub
           /\ pub[w].by = 0 =>
                 \/ /\ CurrentWork(Key[w]) # None
                    /\ \A u \in Works : CurrentWork(Key[u])' = CurrentWork(Key[u])
                 \/ \A u \in Works :
                       CurrentWork(Key[u])' = IF Key[u] = Key[w] THEN w ELSE CurrentWork(Key[u])
<1>1. CASE pub[w].by # 0 /\ pub' = pub
  BY <1>1, SamePublication, MorePublications
<1>2. CASE pub[w].by = 0 /\ Entered(w, n + 1, CurrentWork(Key[w]))
  BY <1>2, EnteredKeeps
<1>3. CASE pub[w].by = 0 /\ Took(w, n + 1, CurrentWork(Key[w]))
  BY <1>3, TookKeeps
<1> QED BY <1>1, <1>2, <1>3, PublicationCases

-----------------------------------------------------------------------------
Lifecycles == {"pending", "running", "completed", "failed", "refused"}
TaskStates == {"open", "done", "cancelled"}
ReviewRow == [attempt : Attempts, critic : Critics \cup {None}, lifecycle : Lifecycles,
              task : TaskStates, read : SUBSET Reads]
EvaluationRow == [review : 1 .. Len(review), verdict : Verdicts, report : BOOLEAN]

(* One row of qf_review_task has been written: its click and critic stand. *)
Moved(i, l, t, rd) ==
    /\ review' \in Seq(ReviewRow) /\ Len(review') = Len(review)
    /\ \A j \in DOMAIN review \ {i} : review'[j] = review[j]
    /\ review'[i].attempt = review[i].attempt /\ review'[i].critic = review[i].critic
    /\ review'[i].lifecycle = l /\ review'[i].task = t /\ review'[i].read = rd

LEMMA RowWritten ==
    ASSUME review \in Seq(ReviewRow), NEW i \in DOMAIN review, NEW r \in ReviewRow,
           review' = [review EXCEPT ![i] = r],
           r.attempt = review[i].attempt, r.critic = review[i].critic
    PROVE  Moved(i, r.lifecycle, r.task, r.read)
<1>1. review' \in Seq(ReviewRow) /\ Len(review') = Len(review)
  BY ExceptSeq
<1>2. review'[i] = r /\ \A j \in DOMAIN review \ {i} : review'[j] = review[j]
  OBVIOUS
<1> QED BY <1>1, <1>2 DEF Moved

LEMMA WroteLifecycle ==
    ASSUME review \in Seq(ReviewRow), NEW i \in DOMAIN review, NEW l \in Lifecycles,
           review' = [review EXCEPT ![i].lifecycle = l]
    PROVE  Moved(i, l, review[i].task, review[i].read)
<1> DEFINE r == [review[i] EXCEPT !.lifecycle = l]
<1>1. review[i] \in ReviewRow
  BY ElementOfSeq
<1>2. /\ r \in ReviewRow /\ r.lifecycle = l /\ r.attempt = review[i].attempt
      /\ r.critic = review[i].critic /\ r.task = review[i].task /\ r.read = review[i].read
  BY <1>1 DEF ReviewRow
<1>3. review' = [review EXCEPT ![i] = r]
  OBVIOUS
<1> HIDE DEF r
<1> QED BY <1>2, <1>3, RowWritten

LEMMA WroteTask ==
    ASSUME review \in Seq(ReviewRow), NEW i \in DOMAIN review, NEW t \in TaskStates,
           review' = [review EXCEPT ![i].task = t]
    PROVE  Moved(i, review[i].lifecycle, t, review[i].read)
<1> DEFINE r == [review[i] EXCEPT !.task = t]
<1>1. review[i] \in ReviewRow
  BY ElementOfSeq
<1>2. /\ r \in ReviewRow /\ r.lifecycle = review[i].lifecycle /\ r.attempt = review[i].attempt
      /\ r.critic = review[i].critic /\ r.task = t /\ r.read = review[i].read
  BY <1>1 DEF ReviewRow
<1>3. review' = [review EXCEPT ![i] = r]
  OBVIOUS
<1> HIDE DEF r
<1> QED BY <1>2, <1>3, RowWritten

LEMMA WroteRead ==
    ASSUME review \in Seq(ReviewRow), NEW i \in DOMAIN review, NEW x \in Reads,
           review' = [review EXCEPT ![i].read = @ \cup {x}]
    PROVE  Moved(i, review[i].lifecycle, review[i].task, review[i].read \cup {x})
<1> DEFINE r == [review[i] EXCEPT !.read = review[i].read \cup {x}]
<1>1. review[i] \in ReviewRow
  BY ElementOfSeq
<1>2. /\ r \in ReviewRow /\ r.lifecycle = review[i].lifecycle /\ r.attempt = review[i].attempt
      /\ r.critic = review[i].critic /\ r.task = review[i].task
      /\ r.read = review[i].read \cup {x}
  BY <1>1 DEF ReviewRow
<1>3. review' = [review EXCEPT ![i] = r]
  OBVIOUS
<1> HIDE DEF r
<1> QED BY <1>2, <1>3, RowWritten

LEMMA WroteEnd ==
    ASSUME review \in Seq(ReviewRow), NEW i \in DOMAIN review,
           NEW l \in Lifecycles, NEW t \in TaskStates,
           review' = [review EXCEPT ![i].lifecycle = l, ![i].task = t]
    PROVE  Moved(i, l, t, review[i].read)
<1> DEFINE q == [review[i] EXCEPT !.lifecycle = l]
           r == [q EXCEPT !.task = t]
<1>1. review[i] \in ReviewRow
  BY ElementOfSeq
<1>2. /\ q \in ReviewRow /\ q.lifecycle = l /\ q.attempt = review[i].attempt
      /\ q.critic = review[i].critic /\ q.task = review[i].task /\ q.read = review[i].read
  BY <1>1 DEF ReviewRow
<1>3. review' = [review EXCEPT ![i] = r]
  OBVIOUS
<1> HIDE DEF q
<1>4. /\ r \in ReviewRow /\ r.lifecycle = l /\ r.attempt = review[i].attempt
      /\ r.critic = review[i].critic /\ r.task = t /\ r.read = review[i].read
  BY <1>2 DEF ReviewRow
<1> HIDE DEF r
<1> QED BY <1>3, <1>4, RowWritten

(* What the conjuncts of TypeOK say, one variable at a time.               *)
LEMMA TypeMeans ==
    TypeOK <=>
        /\ bound \subseteq Works /\ directed \subseteq bound
        /\ attempt \in [Attempts -> {"none", "admitted", "refused"}]
        /\ review \in Seq(ReviewRow) /\ evaluation \in Seq(EvaluationRow)
        /\ pub \in Publications(Len(evaluation))
        /\ session \in [Critics -> {"absent", "running", "ended"}]
        /\ calls \subseteq [attempt : Attempts, critic : Critics \cup {None}]
        /\ owed \subseteq 1 .. Len(review) /\ watched \subseteq 1 .. Len(review)
BY DEF TypeOK, ReviewRow, EvaluationRow, Publications, Row, Lifecycles, TaskStates

(* A review is completed exactly when it is evaluated, on its own reads;   *)
(* its Task then is done; one not yet told of is pending.                  *)
Lifecycle ==
    /\ \A i \in DOMAIN review :
          /\ review[i].lifecycle = "completed" => review[i].task = "done"
          /\ review[i].task = "done" /\ IsReview(i) => review[i].lifecycle = "completed"
          /\ review[i].lifecycle \in {"failed", "refused"} => review[i].task = "cancelled"
    /\ \A i \in owed : review[i].lifecycle = "pending"
Evaluated ==
    /\ \A e \in DOMAIN evaluation : /\ review[evaluation[e].review].lifecycle = "completed"
                                    /\ review[evaluation[e].review].read = Reads
    /\ \A i \in DOMAIN review : review[i].lifecycle = "completed" =>
          \E e \in DOMAIN evaluation : evaluation[e].review = i
ReviewInv == TypeOK /\ PubInv /\ Lifecycle /\ Evaluated /\ ReportOnFirstSupport

(* The facts about existing rows that every step but an Evaluation keeps.  *)
RowsStand ==
    /\ review' \in Seq(ReviewRow) /\ Len(review) <= Len(review')
    /\ \A j \in 1 .. Len(review) :
          /\ review'[j].attempt = review[j].attempt /\ review'[j].critic = review[j].critic
          /\ review[j].lifecycle = "completed" => review'[j].read = review[j].read
          /\ review'[j].lifecycle = "completed" <=> review[j].lifecycle = "completed"
    /\ \A j \in 1 .. Len(review') : j > Len(review) => review'[j].lifecycle # "completed"

(* Such a step leaves the Evaluations and the Reports as they were.        *)
LEMMA RowsStandKeeps ==
    ASSUME ReviewInv, RowsStand, UNCHANGED <<evaluation, pub>>
    PROVE  /\ evaluation' \in Seq(EvaluationRow)' /\ pub' \in Publications(Len(evaluation'))
           /\ PubInv' /\ Evaluated' /\ ReportOnFirstSupport'
<1>1. /\ Len(review) \in Nat /\ Len(review') \in Nat /\ evaluation \in Seq(EvaluationRow)
      /\ DOMAIN review = 1 .. Len(review) /\ DOMAIN review' = 1 .. Len(review')
      /\ pub \in Publications(Len(evaluation))
  BY TypeMeans, LenProperties DEF ReviewInv, RowsStand
<1>2. ASSUME NEW e \in DOMAIN evaluation
      PROVE  /\ evaluation[e].review \in 1 .. Len(review)
             /\ EvaluatedWork(e)' = EvaluatedWork(e)
  <2>1. evaluation[e] \in EvaluationRow
    BY <1>1, ElementOfSeq, LenProperties
  <2>2. evaluation[e].review \in 1 .. Len(review)
    BY <2>1 DEF EvaluationRow
  <2> QED BY <2>2 DEF RowsStand, EvaluatedWork, Work
<1>3. \A w \in Works : EvaluationsOf(w)' = EvaluationsOf(w)
  BY <1>2 DEF EvaluationsOf
<1>4. evaluation' \in Seq(EvaluationRow)'
  <2>1. \A e \in DOMAIN evaluation : evaluation[e] \in EvaluationRow /\ evaluation[e] \in EvaluationRow'
    <3> TAKE e \in DOMAIN evaluation
    <3>1. evaluation[e] \in EvaluationRow
      BY <1>1, ElementOfSeq, LenProperties
    <3>2. 1 .. Len(review) \subseteq 1 .. Len(review')
      BY <1>1 DEF RowsStand
    <3> QED BY <3>1, <3>2 DEF EvaluationRow
  <2>2. Len(evaluation) \in Nat /\ DOMAIN evaluation = 1 .. Len(evaluation)
        /\ evaluation = [e \in 1 .. Len(evaluation) |-> evaluation[e]]
    BY <1>1, LenProperties
  <2>3. evaluation \in Seq(EvaluationRow')
    BY <2>1, <2>2, SeqDef
  <2> QED BY <2>3
<1>5. PubInv'
  BY SamePublication DEF ReviewInv
<1>6. Evaluated'
  <2>1. ASSUME NEW e \in DOMAIN evaluation'
        PROVE  /\ review'[evaluation'[e].review].lifecycle = "completed"
               /\ review'[evaluation'[e].review].read = Reads
    BY <1>2 DEF ReviewInv, Evaluated, RowsStand
  <2>2. ASSUME NEW i \in DOMAIN review', review'[i].lifecycle = "completed"
        PROVE  \E e \in DOMAIN evaluation' : evaluation'[e].review = i
    <3>1. i \in 1 .. Len(review) /\ review[i].lifecycle = "completed"
      BY <1>1, <2>2 DEF RowsStand
    <3> QED BY <3>1, <1>1 DEF ReviewInv, Evaluated
  <2> QED BY <2>1, <2>2 DEF Evaluated
<1>7. ReportOnFirstSupport'
  <2> SUFFICES ASSUME NEW w \in Works
               PROVE  /\ pub'[w].by # 0 => /\ pub'[w].by \in EvaluationsOf(w)'
                                          /\ evaluation'[pub'[w].by].verdict = "supports"
                                          /\ review'[evaluation'[pub'[w].by].review].read = Reads
                      /\ \A e \in EvaluationsOf(w)' :
                            /\ evaluation'[e].verdict = "supports" =>
                                  pub'[w].by \in 1 .. e /\ evaluation'[e].report
                            /\ evaluation'[e].report => pub'[w].by \in 1 .. e
    BY DEF ReportOnFirstSupport
  <2>1. pub[w].by # 0 => pub[w].by \in DOMAIN evaluation
    BY DEF ReviewInv, ReportOnFirstSupport, EvaluationsOf
  <2> QED BY <2>1, <1>3, <1>6 DEF ReviewInv, ReportOnFirstSupport, Evaluated
<1> QED BY <1>1, <1>4, <1>5, <1>6, <1>7

-----------------------------------------------------------------------------
OtherTypes ==
    /\ bound \subseteq Works /\ directed \subseteq bound
    /\ attempt \in [Attempts -> {"none", "admitted", "refused"}]
    /\ session \in [Critics -> {"absent", "running", "ended"}]
    /\ calls \subseteq [attempt : Attempts, critic : Critics \cup {None}]
    /\ owed \subseteq 1 .. Len(review) /\ watched \subseteq 1 .. Len(review)

(* The facts of the current state every step starts from.                  *)
LEMMA Facts ==
    ASSUME ReviewInv
    PROVE  /\ OtherTypes /\ review \in Seq(ReviewRow) /\ evaluation \in Seq(EvaluationRow)
           /\ pub \in Publications(Len(evaluation))
           /\ Len(review) \in Nat /\ DOMAIN review = 1 .. Len(review)
           /\ Len(evaluation) \in Nat /\ DOMAIN evaluation = 1 .. Len(evaluation)
           /\ \A i \in DOMAIN review : review[i] \in ReviewRow
           /\ \A e \in DOMAIN evaluation : evaluation[e] \in EvaluationRow
<1>1. /\ OtherTypes /\ review \in Seq(ReviewRow) /\ evaluation \in Seq(EvaluationRow)
      /\ pub \in Publications(Len(evaluation))
  BY TypeMeans DEF ReviewInv, OtherTypes
<1>2. /\ Len(review) \in Nat /\ DOMAIN review = 1 .. Len(review)
      /\ Len(evaluation) \in Nat /\ DOMAIN evaluation = 1 .. Len(evaluation)
  BY <1>1, LenProperties
<1>3. \A i \in DOMAIN review : review[i] \in ReviewRow
  BY <1>1, <1>2, ElementOfSeq
<1>4. \A e \in DOMAIN evaluation : evaluation[e] \in EvaluationRow
  BY <1>1, <1>2, ElementOfSeq
<1> QED BY <1>1, <1>2, <1>3, <1>4

(* A step that stands by the rows keeps the invariant when it keeps the    *)
(* types of the rest and the lifecycle of each review.                     *)
LEMMA StandingKeeps ==
    ASSUME ReviewInv, RowsStand, UNCHANGED <<evaluation, pub>>, Lifecycle', OtherTypes'
    PROVE  ReviewInv'
<1>1. /\ evaluation' \in Seq(EvaluationRow)' /\ pub' \in Publications(Len(evaluation'))
      /\ PubInv' /\ Evaluated' /\ ReportOnFirstSupport' /\ review' \in Seq(ReviewRow)
  BY RowsStandKeeps DEF RowsStand
<1>2. TypeOK'
  BY <1>1 DEF TypeOK, OtherTypes, ReviewRow, EvaluationRow, Publications, Row,
              Lifecycles, TaskStates
<1> QED BY <1>1, <1>2 DEF ReviewInv

LEMMA QuietKeeps ==
    ASSUME ReviewInv, UNCHANGED <<review, evaluation, pub>>, owed' \subseteq owed, OtherTypes'
    PROVE  ReviewInv'
<1>1. RowsStand
  BY Facts DEF RowsStand
<1>2. Lifecycle'
  BY DEF ReviewInv, Lifecycle, IsReview, Kind
<1> QED BY <1>1, <1>2, StandingKeeps

LEMMA MovedKeeps ==
    ASSUME ReviewInv, UNCHANGED <<evaluation, pub>>, owed' \subseteq owed, OtherTypes',
           NEW i \in DOMAIN review, NEW l, NEW t, NEW rd, Moved(i, l, t, rd),
           review[i].lifecycle # "completed", l # "completed",
           t = "done" => ~IsReview(i), l \in {"failed", "refused"} => t = "cancelled",
           i \in owed' => l = "pending"
    PROVE  ReviewInv'
<1>1. Len(review) \in Nat /\ DOMAIN review = 1 .. Len(review) /\ DOMAIN review' = DOMAIN review
  BY Facts, LenProperties DEF Moved
<1>2. RowsStand
  BY <1>1 DEF RowsStand, Moved
<1>3. \A j \in DOMAIN review : IsReview(j)' = IsReview(j)
  BY DEF Moved, IsReview, Kind
<1>4. Lifecycle'
  <2>1. ASSUME NEW j \in DOMAIN review
        PROVE  /\ review'[j].lifecycle = "completed" => review'[j].task = "done"
               /\ review'[j].task = "done" /\ IsReview(j)' => review'[j].lifecycle = "completed"
               /\ review'[j].lifecycle \in {"failed", "refused"} => review'[j].task = "cancelled"
    BY <1>3 DEF ReviewInv, Lifecycle, Moved
  <2>2. \A j \in owed' : review'[j].lifecycle = "pending"
    BY <1>1, Facts DEF ReviewInv, Lifecycle, Moved, OtherTypes
  <2> QED BY <2>1, <2>2, <1>1 DEF Lifecycle
<1> QED BY <1>2, <1>4, StandingKeeps

LEMMA AdmitKeeps ==
    ASSUME ReviewInv, NEW k \in calls, Admit(k)
    PROVE  ReviewInv'
<1> DEFINE r == Opened(k)
<1>1. k.attempt \in Attempts /\ k.critic \in Critics \cup {None}
  BY Facts DEF OtherTypes
<1>2. /\ r \in ReviewRow /\ r.attempt = k.attempt /\ r.lifecycle = "pending" /\ r.task = "open"
  BY <1>1 DEF Opened, ReviewRow, Lifecycles, TaskStates
<1>3. review' = Append(review, r) /\ owed' = owed \cup {Len(review) + 1}
      /\ UNCHANGED <<evaluation, pub>>
  BY DEF Admit
<1> HIDE DEF r
<1>4. /\ review' \in Seq(ReviewRow) /\ Len(review') = Len(review) + 1 /\ Len(review) \in Nat
      /\ DOMAIN review = 1 .. Len(review) /\ DOMAIN review' = 1 .. Len(review')
      /\ \A j \in 1 .. Len(review) : review'[j] = review[j]
      /\ review'[Len(review) + 1] = r
  BY <1>2, <1>3, Facts, AppendProperties, LenProperties
<1>5. RowsStand
  BY <1>2, <1>4 DEF RowsStand
<1>6. Lifecycle'
  <2>1. ASSUME NEW j \in DOMAIN review'
        PROVE  /\ review'[j].lifecycle = "completed" => review'[j].task = "done"
               /\ review'[j].task = "done" /\ IsReview(j)' => review'[j].lifecycle = "completed"
               /\ review'[j].lifecycle \in {"failed", "refused"} => review'[j].task = "cancelled"
    <3>1. CASE j = Len(review) + 1
      BY <3>1, <1>2, <1>4
    <3>2. CASE j \in 1 .. Len(review)
      <4>1. IsReview(j)' = IsReview(j)
        BY <3>2, <1>4 DEF IsReview, Kind
      <4> QED BY <3>2, <4>1, <1>4 DEF ReviewInv, Lifecycle
    <3> QED BY <3>1, <3>2, <1>4
  <2>2. \A j \in owed' : review'[j].lifecycle = "pending"
    BY <1>2, <1>3, <1>4, Facts DEF ReviewInv, Lifecycle, OtherTypes
  <2> QED BY <2>1, <2>2 DEF Lifecycle
<1>7. OtherTypes'
  <2>1. attempt' \in [Attempts -> {"none", "admitted", "refused"}] /\ calls' \subseteq calls
    BY <1>1, Facts DEF Admit, OtherTypes
  <2>2. owed' \subseteq 1 .. Len(review') /\ watched' \subseteq 1 .. Len(review')
    BY <1>3, <1>4, Facts DEF Admit, OtherTypes
  <2> QED BY <2>1, <2>2, Facts DEF Admit, OtherTypes, seatVars
<1> QED BY <1>3, <1>5, <1>6, <1>7, StandingKeeps

(* The Evaluation is the only step that completes a review and publishes.  *)
LEMMA EvaluateKeeps ==
    ASSUME ReviewInv, NEW c \in Critics, NEW i \in DOMAIN review, NEW v \in Verdicts,
           Evaluate(c, i, v)
    PROVE  ReviewInv'
<1> DEFINE n == Len(evaluation)
           w == Work(i)
           e == [review |-> i, verdict |-> v, report |-> v = "supports" \/ pub[w].by # 0]
<1>1. /\ review[i].lifecycle = "running" /\ review[i].read = Reads
      /\ review' = [review EXCEPT ![i].lifecycle = "completed", ![i].task = "done"]
      /\ evaluation' = Append(evaluation, e)
      /\ pub' = IF v = "supports" THEN Publication(w, n + 1) ELSE pub
  BY DEF Evaluate, ReadyToEvaluate, AtWork, Running
<1>2. Moved(i, "completed", "done", review[i].read)
  BY <1>1, Facts, WroteEnd DEF Lifecycles, TaskStates
<1>3. /\ Len(review) \in Nat /\ Len(review') = Len(review) /\ n \in Nat /\ w \in Works
      /\ DOMAIN review = 1 .. Len(review) /\ DOMAIN review' = DOMAIN review
      /\ e \in EvaluationRow /\ e.review = i /\ e.verdict = v
      /\ e.report = (v = "supports" \/ pub[w].by # 0)
  <2>1. Len(review) \in Nat /\ DOMAIN review = 1 .. Len(review) /\ n \in Nat
    BY Facts
  <2>2. Len(review') = Len(review) /\ DOMAIN review' = DOMAIN review
    BY <1>2, <2>1, LenProperties DEF Moved
  <2>3. w \in Works
    BY Facts, ReviewAssumption DEF Work, ReviewRow
  <2>4. e \in EvaluationRow /\ e.review = i /\ e.verdict = v
        /\ e.report = (v = "supports" \/ pub[w].by # 0)
    BY <2>1 DEF EvaluationRow
  <2> QED BY <2>1, <2>2, <2>3, <2>4
<1> HIDE DEF w, e
<1>4. /\ evaluation' \in Seq(EvaluationRow) /\ Len(evaluation') = n + 1
      /\ DOMAIN evaluation = 1 .. n /\ DOMAIN evaluation' = 1 .. n + 1
      /\ \A d \in 1 .. n : evaluation'[d] = evaluation[d]
      /\ evaluation'[n + 1] = e
  BY <1>1, <1>3, Facts, AppendProperties, LenProperties
<1>5. /\ PubInv' /\ pub' \in Publications(n + 1)
      /\ \A u \in Works : pub'[u].by =
            IF v = "supports" /\ u = w /\ pub[u].by = 0 THEN n + 1 ELSE pub[u].by
  <2>1. CASE v = "supports"
    BY <2>1, <1>1, <1>3, PublicationKeeps, Facts DEF ReviewInv
  <2>2. CASE v # "supports"
    BY <2>2, <1>1, <1>3, SamePublication, MorePublications, Facts DEF ReviewInv
  <2> QED BY <2>1, <2>2
<1>6. TypeOK'
  <2>1. Seq(EvaluationRow)' = Seq(EvaluationRow)
    BY <1>3 DEF EvaluationRow
  <2>2. OtherTypes'
    BY <1>3, Facts DEF Evaluate, OtherTypes, seatVars, hostVars
  <2>3. review' \in Seq(ReviewRow) /\ evaluation' \in Seq(EvaluationRow)'
        /\ pub' \in Publications(Len(evaluation'))
    BY <1>2, <1>4, <1>5, <2>1 DEF Moved
  <2> QED BY <2>2, <2>3 DEF TypeOK, OtherTypes, ReviewRow, EvaluationRow, Publications, Row,
                            Lifecycles, TaskStates
<1>7. Lifecycle'
  <2>1. \A j \in DOMAIN review : IsReview(j)' = IsReview(j)
    BY <1>2 DEF Moved, IsReview, Kind
  <2>2. i \notin owed /\ owed' = owed
    BY <1>1 DEF ReviewInv, Lifecycle, Evaluate, hostVars
  <2>3. ASSUME NEW j \in DOMAIN review'
        PROVE  /\ review'[j].lifecycle = "completed" => review'[j].task = "done"
               /\ review'[j].task = "done" /\ IsReview(j)' => review'[j].lifecycle = "completed"
               /\ review'[j].lifecycle \in {"failed", "refused"} => review'[j].task = "cancelled"
    BY <1>2, <1>3, <2>1 DEF ReviewInv, Lifecycle, Moved
  <2>4. \A j \in owed' : review'[j].lifecycle = "pending"
    BY <1>2, <1>3, <2>2, Facts DEF ReviewInv, Lifecycle, Moved, OtherTypes
  <2> QED BY <2>3, <2>4 DEF Lifecycle
<1>8. \A d \in 1 .. n : /\ evaluation[d].review \in 1 .. Len(review) /\ evaluation[d].review # i
                       /\ EvaluatedWork(d)' = EvaluatedWork(d)
  <2> TAKE d \in 1 .. n
  <2>1. evaluation[d].review \in 1 .. Len(review) /\ evaluation[d].review # i
    BY <1>1, <1>3, <1>4, Facts DEF EvaluationRow, ReviewInv, Evaluated
  <2> QED BY <2>1, <1>2, <1>3, <1>4 DEF Moved, EvaluatedWork, Work
<1>9. ASSUME NEW d \in 1 .. n + 1, d = n + 1
      PROVE  EvaluatedWork(d)' = w
  <2>1. evaluation'[d].review = i /\ review'[i].attempt = review[i].attempt
    BY <1>2, <1>3, <1>4, <1>9 DEF Moved
  <2> QED BY <2>1 DEF EvaluatedWork, Work, w
<1>10. Evaluated'
  <2>1. ASSUME NEW d \in DOMAIN evaluation'
        PROVE  /\ review'[evaluation'[d].review].lifecycle = "completed"
               /\ review'[evaluation'[d].review].read = Reads
    <3>1. CASE d = n + 1
      BY <3>1, <1>1, <1>2, <1>3, <1>4 DEF Moved
    <3>2. CASE d \in 1 .. n
      BY <3>2, <1>2, <1>3, <1>4, <1>8 DEF Moved, ReviewInv, Evaluated
    <3> QED BY <3>1, <3>2, <1>3, <1>4
  <2>2. ASSUME NEW j \in DOMAIN review', review'[j].lifecycle = "completed"
        PROVE  \E d \in DOMAIN evaluation' : evaluation'[d].review = j
    <3>1. CASE j = i
      BY <3>1, <1>3, <1>4
    <3>2. CASE j # i
      <4>1. PICK d \in DOMAIN evaluation : evaluation[d].review = j
        BY <2>2, <3>2, <1>2, <1>3 DEF Moved, ReviewInv, Evaluated
      <4> QED BY <4>1, <1>3, <1>4
    <3> QED BY <3>1, <3>2
  <2> QED BY <2>1, <2>2 DEF Evaluated
<1>11. ASSUME NEW u \in Works
       PROVE  EvaluationsOf(u)' = EvaluationsOf(u) \cup (IF u = w THEN {n + 1} ELSE {})
  <2>1. \A d \in DOMAIN evaluation' : EvaluatedWork(d)' = IF d = n + 1 THEN w ELSE EvaluatedWork(d)
    <3> TAKE d \in DOMAIN evaluation'
    <3>1. d = n + 1 \/ d \in 1 .. n
      BY <1>3, <1>4
    <3>2. CASE d = n + 1
      BY <3>2, <1>4, <1>9
    <3>3. CASE d \in 1 .. n
      <4>1. d # n + 1
        BY <3>3, <1>3
      <4> QED BY <3>3, <4>1, <1>8
    <3> QED BY <3>1, <3>2, <3>3
  <2>2. EvaluationsOf(u)' = {d \in 1 .. n + 1 : u = IF d = n + 1 THEN w ELSE EvaluatedWork(d)}
    BY <2>1, <1>4 DEF EvaluationsOf
  <2>3. EvaluationsOf(u) = {d \in 1 .. n : EvaluatedWork(d) = u}
    BY <1>4 DEF EvaluationsOf
  <2> QED BY <2>2, <2>3, <1>3
<1>12. ReportOnFirstSupport'
  <2> SUFFICES ASSUME NEW u \in Works
               PROVE  /\ pub'[u].by # 0 => /\ pub'[u].by \in EvaluationsOf(u)'
                                          /\ evaluation'[pub'[u].by].verdict = "supports"
                                          /\ review'[evaluation'[pub'[u].by].review].read = Reads
                      /\ \A d \in EvaluationsOf(u)' :
                            /\ evaluation'[d].verdict = "supports" =>
                                  pub'[u].by \in 1 .. d /\ evaluation'[d].report
                            /\ evaluation'[d].report => pub'[u].by \in 1 .. d
    BY DEF ReportOnFirstSupport
  <2>1. /\ pub[u].by # 0 => /\ pub[u].by \in EvaluationsOf(u)
                           /\ evaluation[pub[u].by].verdict = "supports"
        /\ \A d \in EvaluationsOf(u) :
              /\ evaluation[d].verdict = "supports" => pub[u].by \in 1 .. d /\ evaluation[d].report
              /\ evaluation[d].report => pub[u].by \in 1 .. d
    BY DEF ReviewInv, ReportOnFirstSupport
  <2>2. EvaluationsOf(u) \subseteq 1 .. n
    BY <1>4 DEF EvaluationsOf
  <2>3. pub[u].by \in 0 .. n
    BY Facts DEF Publications, Row
  <2>4. CASE v = "supports" /\ u = w /\ pub[u].by = 0
    <3>1. pub'[u].by = n + 1
      BY <2>4, <1>5
    <3>2. pub'[u].by \in EvaluationsOf(u)' /\ evaluation'[n + 1].verdict = "supports"
      BY <2>4, <3>1, <1>3, <1>4, <1>11
    <3>3. review'[evaluation'[n + 1].review].read = Reads
      BY <1>1, <1>2, <1>3, <1>4 DEF Moved
    <3>4. ASSUME NEW d \in EvaluationsOf(u)'
          PROVE  /\ evaluation'[d].verdict = "supports" => n + 1 \in 1 .. d /\ evaluation'[d].report
                 /\ evaluation'[d].report => n + 1 \in 1 .. d
      <4>1. CASE d = n + 1
        <5>1. n + 1 \in 1 .. d
          BY <4>1, <1>3
        <5>2. evaluation'[d].report = TRUE
          BY <4>1, <2>4, <1>3, <1>4
        <5> QED BY <5>1, <5>2, Zenon
      <4>2. CASE d \in EvaluationsOf(u)
        <5>1. d \in 1 .. n /\ evaluation'[d] = evaluation[d] /\ n + 1 \notin 1 .. d
          BY <4>2, <2>2, <1>3, <1>4
        <5>2. evaluation[d] \in EvaluationRow /\ pub[u].by \notin 1 .. d
          BY <5>1, <2>4, <1>4, Facts
        <5>3. evaluation[d].verdict # "supports" /\ evaluation[d].report = FALSE
          BY <4>2, <5>2, <2>1 DEF EvaluationRow
        <5>4. evaluation'[d].verdict # "supports" /\ evaluation'[d].report = FALSE
          BY <5>1, <5>3
        <5> QED BY <5>4
      <4> QED BY <4>1, <4>2, <1>11
    <3> QED BY <3>1, <3>2, <3>3, <3>4
  <2>5. CASE ~(v = "supports" /\ u = w /\ pub[u].by = 0)
    <3>1. pub'[u].by = pub[u].by
      BY <2>5, <1>5
    <3>2. pub[u].by # 0 => /\ pub[u].by \in EvaluationsOf(u)' /\ pub[u].by \in 1 .. n
                           /\ evaluation'[pub[u].by].verdict = "supports"
      BY <2>1, <2>2, <1>4, <1>11
    <3>3. pub[u].by # 0 => review'[evaluation'[pub[u].by].review].read = Reads
      BY <3>2, <1>3, <1>4, <1>10 DEF Evaluated
    <3>4. ASSUME NEW d \in EvaluationsOf(u)'
          PROVE  /\ evaluation'[d].verdict = "supports" => pub[u].by \in 1 .. d /\ evaluation'[d].report
                 /\ evaluation'[d].report => pub[u].by \in 1 .. d
      <4>1. CASE d = n + 1 /\ u = w
        <5>1. pub[u].by # 0 <=> pub[u].by \in 1 .. d
          BY <4>1, <2>3, <1>3
        <5> QED BY <4>1, <5>1, <2>5, <1>3, <1>4
      <4>2. CASE d \in EvaluationsOf(u)
        BY <4>2, <2>1, <2>2, <1>4
      <4> QED BY <4>1, <4>2, <1>11
    <3> QED BY <3>1, <3>2, <3>3, <3>4
  <2> QED BY <2>4, <2>5
<1> QED BY <1>5, <1>6, <1>7, <1>10, <1>12 DEF ReviewInv

-----------------------------------------------------------------------------
(* The steps that write no review row, Evaluation or Report.               *)
QuietStep ==
    \/ SeatStep \/ RequestStep \/ Restart
    \/ \E k \in calls : Replay(k) \/ Refuse(k) \/ AdmissionThrows(k)
    \/ \E i \in DOMAIN review : MonitorStops(i)

LEMMA QuietStepKeeps ==
    ASSUME ReviewInv, QuietStep
    PROVE  ReviewInv'
<1> USE Facts DEF OtherTypes
<1>1. CASE SeatStep
  <2>1. UNCHANGED <<review, evaluation, pub, owed>> /\ OtherTypes'
    <3>1. ASSUME NEW w \in Works, Bind(w)
          PROVE  UNCHANGED <<review, evaluation, pub, owed>> /\ OtherTypes'
      BY <3>1 DEF Bind, hostVars
    <3>2. ASSUME NEW w \in Works, DirectorEnds(w)
          PROVE  UNCHANGED <<review, evaluation, pub, owed>> /\ OtherTypes'
      BY <3>2 DEF DirectorEnds, hostVars, rowVars
    <3>3. ASSUME NEW c \in Critics, CriticEnds(c)
          PROVE  UNCHANGED <<review, evaluation, pub, owed>> /\ OtherTypes'
      BY <3>3 DEF CriticEnds, hostVars, rowVars
    <3> QED BY <1>1, <3>1, <3>2, <3>3 DEF SeatStep
  <2> QED BY <2>1, QuietKeeps
<1>2. CASE RequestStep
  <2>1. PICK a \in Attempts : \/ RequestReview(a) \/ RequestSecondCritic(a) \/ ContinueResult(a)
                             \/ RequestRevision(a) \/ RefuseAtOnce(a)
    BY <1>2 DEF RequestStep
  <2>2. ASSUME NEW excluded, Acquire(a, excluded),
               UNCHANGED <<rowVars, directed, owed, watched>>
        PROVE  ReviewInv'
    <3>1. OtherTypes'
      BY <2>2 DEF Acquire, rowVars
    <3> QED BY <2>2, <3>1, QuietKeeps DEF rowVars
  <2>3. CASE RequestReview(a)
    BY <2>2, <2>3 DEF RequestReview
  <2>4. CASE RequestSecondCritic(a)
    BY <2>2, <2>4 DEF RequestSecondCritic
  <2>5. CASE ContinueResult(a)
    <3>1. OtherTypes'
      BY <2>5 DEF ContinueResult, rowVars
    <3> QED BY <2>5, <3>1, QuietKeeps DEF ContinueResult, rowVars
  <2>6. CASE RequestRevision(a)
    <3>1. OtherTypes'
      BY <2>6 DEF RequestRevision, rowVars, seatVars
    <3> QED BY <2>6, <3>1, QuietKeeps DEF RequestRevision, rowVars
  <2>7. CASE RefuseAtOnce(a)
    <3>1. OtherTypes'
      BY <2>7 DEF RefuseAtOnce, hostVars, seatVars
    <3> QED BY <2>7, <3>1, QuietKeeps DEF RefuseAtOnce, hostVars
  <2> QED BY <2>1, <2>3, <2>4, <2>5, <2>6, <2>7
<1>3. CASE Restart
  <2>1. OtherTypes'
    BY <1>3 DEF Restart, rowVars
  <2> QED BY <1>3, <2>1, QuietKeeps DEF Restart, rowVars
<1>4. ASSUME NEW k \in calls, Replay(k) \/ Refuse(k) \/ AdmissionThrows(k)
      PROVE  ReviewInv'
  <2>1. OtherTypes'
    BY <1>4 DEF Replay, Refuse, AdmissionThrows, rowVars, seatVars
  <2> QED BY <1>4, <2>1, QuietKeeps DEF Replay, Refuse, AdmissionThrows, rowVars
<1>5. ASSUME NEW i \in DOMAIN review, MonitorStops(i)
      PROVE  ReviewInv'
  <2>1. OtherTypes'
    BY <1>5 DEF MonitorStops, rowVars, seatVars
  <2> QED BY <1>5, <2>1, QuietKeeps DEF MonitorStops, rowVars
<1> QED BY <1>1, <1>2, <1>3, <1>4, <1>5 DEF QuietStep

(* The steps that write one review row.                                    *)
LEMMA DeliveryKeeps ==
    ASSUME ReviewInv, NEW i \in owed, Delivered(i) \/ DeliveryFailed(i)
    PROVE  ReviewInv'
<1>1. /\ i \in DOMAIN review /\ review[i].lifecycle = "pending" /\ review[i] \in ReviewRow
      /\ review[i].task = "done" => ~IsReview(i)
      /\ OtherTypes /\ review \in Seq(ReviewRow)
  BY Facts DEF OtherTypes, ReviewInv, Lifecycle
<1>2. CASE Delivered(i)
  <2>1. Moved(i, "running", review[i].task, review[i].read)
    BY <1>1, <1>2, WroteLifecycle DEF Delivered, Lifecycles
  <2>2. OtherTypes'
    BY <1>1, <1>2, <2>1, Facts DEF Delivered, OtherTypes, Moved, seatVars
  <2>3. UNCHANGED <<evaluation, pub>> /\ owed' = owed \ {i}
    BY <1>2 DEF Delivered
  <2> QED BY <1>1, <2>1, <2>2, <2>3, MovedKeeps
<1>3. CASE DeliveryFailed(i) /\ review[i].task # "open"
  <2>1. OtherTypes'
    BY <1>1, <1>3 DEF DeliveryFailed, OtherTypes, seatVars
  <2>2. UNCHANGED <<review, evaluation, pub>> /\ owed' \subseteq owed
    BY <1>3 DEF DeliveryFailed
  <2> QED BY <2>1, <2>2, QuietKeeps
<1>4. CASE DeliveryFailed(i) /\ review[i].task = "open"
  <2>1. Moved(i, "refused", "cancelled", review[i].read)
    BY <1>1, <1>4, WroteEnd DEF DeliveryFailed, Lifecycles, TaskStates
  <2>2. OtherTypes'
    BY <1>1, <1>4, <2>1, Facts DEF DeliveryFailed, OtherTypes, Moved, seatVars
  <2>3. UNCHANGED <<evaluation, pub>> /\ owed' = owed \ {i}
    BY <1>4 DEF DeliveryFailed
  <2> QED BY <1>1, <2>1, <2>2, <2>3, MovedKeeps
<1> QED BY <1>2, <1>3, <1>4

LEMMA ReadKeeps ==
    ASSUME ReviewInv, NEW c \in Critics, NEW x \in Reads, Read(c, x)
    PROVE  ReviewInv'
<1>1. PICK i \in DOMAIN review : AtWork(c, i) /\ review' = [review EXCEPT ![i].read = @ \cup {x}]
  BY DEF Read
<1>2. review[i].lifecycle = "running"
  BY <1>1 DEF AtWork, Running
<1>3. Moved(i, "running", review[i].task, review[i].read \cup {x})
  BY <1>1, <1>2, Facts, WroteRead
<1>4. UNCHANGED <<evaluation, pub, owed>> /\ OtherTypes'
  BY <1>3, Facts DEF Read, OtherTypes, Moved, seatVars, hostVars
<1>5. i \notin owed /\ (review[i].task = "done" => ~IsReview(i))
  BY <1>2 DEF ReviewInv, Lifecycle
<1> QED BY <1>2, <1>3, <1>4, <1>5, MovedKeeps

LEMMA TaskStepKeeps ==
    ASSUME ReviewInv, NEW i \in DOMAIN review,
           \/ MonitorGivesUp(i) \/ CancelTask(i)
           \/ \E w \in Works : CompleteRevision(i, w)
    PROVE  ReviewInv'
<1>1. /\ review[i] \in ReviewRow /\ OtherTypes /\ review \in Seq(ReviewRow)
      /\ review[i].task = "open" =>
            /\ review[i].lifecycle \notin {"completed", "failed", "refused"}
      /\ i \in owed => review[i].lifecycle = "pending"
  BY Facts DEF ReviewInv, Lifecycle
<1>2. CASE MonitorGivesUp(i) /\ review[i].task = "open"
  <2>1. review[i].lifecycle = "running" /\ UNCHANGED <<evaluation, pub, owed>>
    BY <1>2 DEF MonitorGivesUp
  <2>2. Moved(i, "failed", "cancelled", review[i].read)
    BY <1>1, <1>2, WroteEnd DEF MonitorGivesUp, Lifecycles, TaskStates
  <2>3. OtherTypes'
    BY <1>1, <1>2, <2>2, Facts DEF MonitorGivesUp, Closed, OtherTypes, Moved
  <2> QED BY <1>1, <2>1, <2>2, <2>3, MovedKeeps
<1>3. CASE MonitorGivesUp(i) /\ review[i].task # "open"
  <2>1. OtherTypes'
    BY <1>1, <1>3 DEF MonitorGivesUp, OtherTypes
  <2> QED BY <1>3, <2>1, QuietKeeps DEF MonitorGivesUp
<1>4. CASE CancelTask(i)
  <2>1. Moved(i, review[i].lifecycle, "cancelled", review[i].read)
    BY <1>1, <1>4, WroteTask DEF CancelTask, TaskStates
  <2>2. OtherTypes' /\ UNCHANGED <<evaluation, pub, owed>>
    BY <1>1, <1>4, <2>1, Facts DEF CancelTask, OtherTypes, Moved, seatVars, hostVars
  <2> QED BY <1>1, <1>4, <2>1, <2>2, MovedKeeps DEF CancelTask
<1>5. ASSUME NEW w \in Works, CompleteRevision(i, w)
      PROVE  ReviewInv'
  <2>1. Moved(i, review[i].lifecycle, "done", review[i].read)
    BY <1>1, <1>5, WroteTask DEF CompleteRevision, TaskStates
  <2>2. OtherTypes' /\ UNCHANGED <<evaluation, pub, owed>>
    BY <1>1, <1>5, <2>1, Facts DEF CompleteRevision, OtherTypes, Moved, hostVars
  <2> QED BY <1>1, <1>5, <2>1, <2>2, MovedKeeps DEF CompleteRevision
<1> QED BY <1>2, <1>3, <1>4, <1>5

-----------------------------------------------------------------------------
LEMMA InitReviewInv == Init => ReviewInv
<1> SUFFICES ASSUME Init PROVE ReviewInv
  OBVIOUS
<1>1. /\ review \in Seq(ReviewRow) /\ evaluation \in Seq(EvaluationRow)
      /\ DOMAIN review = {} /\ DOMAIN evaluation = {} /\ Len(evaluation) = 0
  BY EmptySeq DEF Init
<1>2. \A w \in Works : pub[w] = Unpublished /\ pub[w].by = 0
  BY DEF Init, Unpublished
<1>3. pub \in Publications(Len(evaluation))
  BY <1>1 DEF Init, Publications, Row, Unpublished
<1>4. TypeOK
  BY <1>1, <1>3, TypeMeans DEF Init
<1>5. PubInv
  BY <1>2 DEF PubInv, OneCurrent, SupersessionChain, CurrentIsFreshest, Published
<1>6. ReportOnFirstSupport
  BY <1>1, <1>2 DEF ReportOnFirstSupport, EvaluationsOf
<1>7. Lifecycle /\ Evaluated
  BY <1>1 DEF Init, Lifecycle, Evaluated
<1> QED BY <1>4, <1>5, <1>6, <1>7 DEF ReviewInv

LEMMA NextReviewInv == ReviewInv /\ [Next]_vars => ReviewInv'
<1> SUFFICES ASSUME ReviewInv, [Next]_vars PROVE ReviewInv'
  OBVIOUS
<1>1. CASE UNCHANGED vars
  <2>1. UNCHANGED <<review, evaluation, pub>> /\ owed' = owed /\ OtherTypes'
    BY <1>1, Facts DEF vars, rowVars, seatVars, hostVars, OtherTypes
  <2> QED BY <2>1, QuietKeeps
<1>2. CASE DeliveryStep
  BY <1>2, DeliveryKeeps DEF DeliveryStep
<1>3. CASE SeatStep \/ RequestStep \/ Restart
  BY <1>3, QuietStepKeeps DEF QuietStep
<1>4. CASE AdmissionStep
  BY <1>4, AdmitKeeps, QuietStepKeeps DEF AdmissionStep, QuietStep
<1>5. CASE CriticStep
  BY <1>5, ReadKeeps, EvaluateKeeps DEF CriticStep
<1>6. CASE TaskStep
  BY <1>6, TaskStepKeeps, QuietStepKeeps DEF TaskStep, QuietStep
<1> QED BY <1>1, <1>2, <1>3, <1>4, <1>5, <1>6 DEF Next

LEMMA ReviewInvariant == Spec => []ReviewInv
BY InitReviewInv, NextReviewInv, PTL DEF Spec

(* Every row of a review is as the types say, whatever the sequence of     *)
(* clicks, deliveries, Evaluations and restarts.                           *)
THEOREM ReviewTypeCorrect == Spec => []TypeOK
BY ReviewInvariant, PTL DEF ReviewInv

(* The columns of qf_review_publication tell one story for each authority. *)
THEOREM ChainUnbroken == Spec => []SupersessionChain
<1>1. ReviewInv => SupersessionChain
  BY DEF ReviewInv, PubInv
<1> QED BY <1>1, ReviewInvariant, PTL

(* No late review hides newer evidence from the readers of an authority.   *)
THEOREM FreshestIsCurrent == Spec => []CurrentIsFreshest
<1>1. ReviewInv => CurrentIsFreshest
  BY DEF ReviewInv, PubInv
<1> QED BY <1>1, ReviewInvariant, PTL

(* A Report rests on the first supporting Evaluation of its work, written  *)
(* after all its reads; later ones are tied to it and do not replace it.   *)
THEOREM ReportRestsOnFirstSupport == Spec => []ReportOnFirstSupport
BY ReviewInvariant, PTL DEF ReviewInv

(* A completed review was evaluated and has a done Task, a failed or       *)
(* undeliverable one a cancelled Task.                                     *)
THEOREM ReviewEndsWithTask == Spec => []LifecycleMatchesTask
<1>1. ReviewInv => LifecycleMatchesTask
  <2> SUFFICES ASSUME ReviewInv, NEW i \in DOMAIN review, IsReview(i)
               PROVE  /\ (review[i].lifecycle = "completed") = (review[i].task = "done")
                      /\ review[i].lifecycle \in {"failed", "refused"}
                            => review[i].task = "cancelled"
                      /\ review[i].lifecycle = "completed"
                            <=> \E e \in DOMAIN evaluation : evaluation[e].review = i
    BY DEF LifecycleMatchesTask
  <2> QED BY DEF ReviewInv, Lifecycle, Evaluated
<1> QED BY <1>1, ReviewInvariant, PTL

-----------------------------------------------------------------------------
ClickStands ==
    \A a \in Attempts : attempt[a] # "none" =>
        /\ attempt'[a] = attempt[a]
        /\ \A i \in DOMAIN review' : review'[i].attempt = a => i \in DOMAIN review

(* The outcome recorded first for a click stands.                          *)
THEOREM ClickDecidedOnce == Spec => ClickActsOnce
<1>1. ReviewInv /\ [Next]_vars => ClickStands
  <2> SUFFICES ASSUME ReviewInv, [Next]_vars, NEW a \in Attempts, attempt[a] # "none"
               PROVE  /\ attempt'[a] = attempt[a]
                      /\ \A i \in DOMAIN review' : review'[i].attempt = a => i \in DOMAIN review
    BY DEF ClickStands
  <2>1. CASE UNCHANGED vars
    BY <2>1 DEF vars, rowVars
  <2>2. CASE DeliveryStep
    BY <2>2 DEF DeliveryStep, Delivered, DeliveryFailed
  <2>3. CASE SeatStep \/ RequestStep \/ Restart
    BY <2>3, Facts DEF SeatStep, Bind, DirectorEnds, CriticEnds, RequestStep, RequestReview,
       RequestSecondCritic, ContinueResult, RequestRevision, RefuseAtOnce, Restart, rowVars,
       OtherTypes
  <2>4. CASE AdmissionStep
    <3>1. PICK k \in calls : Replay(k) \/ Admit(k) \/ Refuse(k) \/ AdmissionThrows(k)
      BY <2>4 DEF AdmissionStep
    <3>2. CASE Replay(k) \/ Refuse(k) \/ AdmissionThrows(k)
      BY <3>2, Facts DEF Replay, Refuse, AdmissionThrows, rowVars, OtherTypes
    <3>3. CASE Admit(k)
      <4>1. k.attempt # a /\ attempt'[a] = attempt[a]
        BY <3>3, Facts DEF Admit, OtherTypes
      <4>2. Opened(k).attempt = k.attempt /\ review' = Append(review, Opened(k))
        BY <3>3 DEF Admit, Opened
      <4>3. DOMAIN review' = 1 .. Len(review) + 1 /\ review'[Len(review) + 1] = Opened(k)
        BY <4>2, Facts, AppendProperties
      <4> QED BY <4>1, <4>2, <4>3, Facts
    <3> QED BY <3>1, <3>2, <3>3
  <2>5. CASE CriticStep
    BY <2>5 DEF CriticStep, Read, Evaluate
  <2>6. CASE TaskStep
    BY <2>6 DEF TaskStep, MonitorGivesUp, MonitorStops, CancelTask, CompleteRevision, rowVars
  <2> QED BY <2>1, <2>2, <2>3, <2>4, <2>5, <2>6 DEF Next
<1> QED BY <1>1, ReviewInvariant, PTL DEF Spec, ClickActsOnce, ClickStands

-----------------------------------------------------------------------------
PublishStep == [\E w \in Works : Authority!Publish(w)]_(Authority!authorityVars)

LEMMA SameReports ==
    ASSUME pub' = pub
    PROVE  UNCHANGED Authority!authorityVars
<1>1. ASSUME NEW k PROVE CurrentWork(k)' = CurrentWork(k)
  <2>1. CurrentWorks(k)' = CurrentWorks(k)
    BY DEF CurrentWorks
  <2> QED BY <2>1 DEF CurrentWork
<1> QED BY <1>1 DEF Authority!authorityVars

LEMMA EvaluatePublishes ==
    ASSUME ReviewInv, NEW c \in Critics, NEW i \in DOMAIN review, NEW v \in Verdicts,
           Evaluate(c, i, v)
    PROVE  PublishStep
<1>1. pub' = IF v = "supports" THEN Publication(Work(i), Len(evaluation) + 1) ELSE pub
  BY DEF Evaluate
<1>2. PICK w \in Works : w = Work(i)
  BY Facts, ReviewAssumption DEF Work, ReviewRow
<1>3. CASE pub' = pub
  BY <1>3, SameReports DEF PublishStep
<1>4. CASE v = "supports" /\ pub[w].by = 0
  <2> DEFINE n == Len(evaluation)
  <2>1. n \in Nat /\ pub \in Publications(n) /\ pub' = Publication(w, n + 1) /\ PubInv
    BY <1>1, <1>2, <1>4, Facts DEF ReviewInv
  <2> HIDE DEF n
  <2>2. \A u \in Works : pub'[u].by = IF u = w THEN n + 1 ELSE pub[u].by
    BY <1>2, <1>4, <2>1, PublicationKeeps
  <2>3. n + 1 # 0
    BY <2>1
  <2>4. \/ /\ CurrentWork(Key[w]) # None
           /\ \A u \in Works : CurrentWork(Key[u])' = CurrentWork(Key[u])
        \/ \A u \in Works :
              CurrentWork(Key[u])' = IF Key[u] = Key[w] THEN w ELSE CurrentWork(Key[u])
    BY <1>2, <1>4, <2>1, PublicationKeeps
  <2>5. Published' = Published \cup {w} /\ w \notin Published
    BY <1>2, <1>4, <2>2, <2>3 DEF Published
  <2> DEFINE cur == [k \in {Key[u] : u \in Works} |-> CurrentWork(k)]
  <2>6. \/ cur' = [cur EXCEPT ![Key[w]] = w]
        \/ cur[Key[w]] # None /\ cur' = cur
    <3>1. CASE CurrentWork(Key[w]) # None
               /\ \A u \in Works : CurrentWork(Key[u])' = CurrentWork(Key[u])
      <4>1. \A k \in {Key[u] : u \in Works} : CurrentWork(k)' = CurrentWork(k)
        BY <3>1
      <4>2. cur' = cur
        BY <4>1
      <4> QED BY <3>1, <4>2, <1>2
    <3>2. CASE \A u \in Works :
                  CurrentWork(Key[u])' = IF Key[u] = Key[w] THEN w ELSE CurrentWork(Key[u])
      <4>1. \A k \in {Key[u] : u \in Works} :
               CurrentWork(k)' = IF k = Key[w] THEN w ELSE CurrentWork(k)
        BY <3>2
      <4>2. cur' = [cur EXCEPT ![Key[w]] = w]
        BY <4>1
      <4> QED BY <4>2
    <3> QED BY <3>1, <3>2, <2>4
  <2>7. Authority!Publish(w)
    BY <2>5, <2>6 DEF Authority!Publish, Published
  <2> QED BY <2>7 DEF PublishStep
<1>5. CASE v = "supports" /\ pub[w].by # 0
  <2>1. pub' = pub
    BY <1>1, <1>2, <1>5, Facts, PublicationKeeps DEF ReviewInv
  <2> QED BY <2>1, SameReports DEF PublishStep
<1> QED BY <1>1, <1>3, <1>4, <1>5

(* Whatever reviewers and handlers do, readers of Reports see what         *)
(* ReportAuthority promises.                                               *)
THEOREM ReviewImplementsAuthority == Spec => ImplementsAuthority
<1>1. Init => Authority!AuthorityInit
  <2> SUFFICES ASSUME Init PROVE Authority!AuthorityInit
    OBVIOUS
  <2>1. \A w \in Works : pub[w].by = 0 /\ pub[w].current = FALSE
    BY DEF Init, Unpublished
  <2>2. \A k : CurrentWork(k) = None
    BY <2>1 DEF CurrentWork, CurrentWorks
  <2> QED BY <2>1, <2>2 DEF Authority!AuthorityInit, Authority!Authorities
<1>2. ReviewInv /\ [Next]_vars => PublishStep
  <2> SUFFICES ASSUME ReviewInv, [Next]_vars PROVE PublishStep
    OBVIOUS
  <2>1. CASE \E c \in Critics, i \in DOMAIN review, v \in Verdicts : Evaluate(c, i, v)
    BY <2>1, EvaluatePublishes
  <2>2. CASE pub' = pub
    BY <2>2, SameReports DEF PublishStep
  <2>3. CASE UNCHANGED vars
    BY <2>3, <2>2 DEF vars, rowVars
  <2>4. CASE DeliveryStep \/ SeatStep \/ RequestStep \/ Restart
    BY <2>4, <2>2 DEF DeliveryStep, Delivered, DeliveryFailed, SeatStep, Bind, DirectorEnds,
       CriticEnds, RequestStep, RequestReview, RequestSecondCritic, ContinueResult,
       RequestRevision, RefuseAtOnce, Restart, rowVars
  <2>5. CASE AdmissionStep \/ TaskStep
    BY <2>5, <2>2 DEF AdmissionStep, Replay, Admit, Refuse, AdmissionThrows, TaskStep,
       MonitorGivesUp, MonitorStops, CancelTask, CompleteRevision, rowVars
  <2>6. CASE CriticStep
    <3>1. ASSUME NEW c \in Critics, NEW x \in Reads, Read(c, x)
          PROVE  pub' = pub
      BY <3>1 DEF Read
    <3> QED BY <2>6, <3>1, <2>1, <2>2 DEF CriticStep
  <2> QED BY <2>3, <2>4, <2>5, <2>6 DEF Next
<1> QED BY <1>1, <1>2, ReviewInvariant, PTL
        DEF Spec, ImplementsAuthority, Authority!AuthoritySpec, PublishStep
=============================================================================
