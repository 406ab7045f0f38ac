SPECIFICATION LiveSpec
CONSTANTS
    Workers = {w1, w2, w3}
    Tasks = {t1, t2, t3, t4}
    NoTask = NoTask
INVARIANTS
    WorkConserving
    ExactlyOnce
PROPERTIES
    Implements
    AcceptedRun
    DestructorReturns
    EveryLoopRuns
