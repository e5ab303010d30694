SPECIFICATION FairSpec
CONSTANTS
    u1 = u1
    t1 = t1
    t2 = t2
    r1 = r1
    r2 = r2
    Users = {u1}
    Workers = {t1}
    Runs = {r1, r2}
    NoRun = NoRun
    Types = {"once", "daily"}
    MaxTries = 1
    MaxRounds = 1
INVARIANT AutomationInv
INVARIANT ChallengeStopsEngines
INVARIANT WaitingIsArmed
PROPERTY ImplementsProfileSlot
PROPERTY RunsAreReleased
PROPERTY DueIsDecided
