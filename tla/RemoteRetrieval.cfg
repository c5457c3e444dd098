SPECIFICATION FairSpec
CONSTANTS
    Runs = {r1, r2, r3}
    PayloadBytes = 2
    AcceptQueue = 2
    MaxRetrievals = 2
    MaxFaults = 1
INVARIANTS TypeOK WholeAnswers ConnectionOrder
PROPERTIES PromiseSpec Served
CHECK_DEADLOCK FALSE
