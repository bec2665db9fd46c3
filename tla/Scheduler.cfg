SPECIFICATION MCSpec
CONSTANTS
    s1 = s1
    s2 = s2
    a1 = a1
    a2 = a2
    t1 = t1
    t2 = t2
    t3 = t3
    Schedulers = {s1, s2}
    Agents = {a1, a2}
    Tasks = {t1, t2, t3}
    Priority <- UrgentFirst
    Eligible <- OnlyA1RunsT1
    Churn = {a2}
    LateHeartbeats = TRUE
    Unreliable = TRUE
INVARIANTS
    TypesOK
    TaskInOnePlace
    ObservationsKept
    VerdictsSound
PROPERTIES
    NoTaskForgotten
    WorkEnds
