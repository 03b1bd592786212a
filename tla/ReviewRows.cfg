\* One question researched twice: the first work w1 and its revision w2. Two reviews of
\* w1, a second critic and a revision of it are asked for, and w2 is reviewed as a
\* continuation. One read stands for those an Evaluation needs.
SPECIFICATION Spec
CONSTANTS
    w1 = w1
    w2 = w2
    w3 = w3
    r1 = r1
    r2 = r2
    r3 = r3
    s1 = s1
    s2 = s2
    v1 = v1
    key = key
    None = None
    Works = {w1, w2}
    Revised = {w2}
    Key <- AllOneKey
    Dated = {key}
    Observed <- ReviewTimes
    Critics = {c1, c2}
    Reads = {artifact}
    Attempts = {r1, r2, r3, s1, v1}
    Action <- Actions
    Subject <- Subjects
    Continued = {r2}
    MaxReviews = 4
SYMMETRY Symmetry
INVARIANTS TypeOK SupersessionChain CurrentIsFreshest ReportOnFirstSupport LifecycleMatchesTask
PROPERTIES ClickActsOnce ImplementsAuthority
