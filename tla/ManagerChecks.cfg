SPECIFICATION FairSpec
CONSTANTS
    p1 = p1
    N = 2
    Profiles = {p1}
    ProfileOf <- OneProfile
    Driven = {p1}
    NoProfile = NoProfile
    MaxWorkers = 1
    Verdicts = {"SUCCESS", "FAILED"}
INVARIANT ManagerInv
INVARIANT CancelledIsNeverRun
INVARIANT ReportIsTrue
INVARIANT WorkersInv
INVARIANT WorkerTellsTheTruth
PROPERTY ImplementsProfileRunner
PROPERTY EveryCallReturns
