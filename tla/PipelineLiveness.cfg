SPECIFICATION FairSpec
CONSTANTS
    s1 = s1
    s2 = s2
    N = 2
    Scripts = {2}
    Slots = {s1, s2}
    NoSlot = NoSlot
    Verdicts = {"SUCCESS"}
    BatchLimit = 1
    MaxFaults = 1
    MaxMigrations = 0
PROPERTY TasksSettle
