SPECIFICATION FairSpec
CONSTANTS
    s1 = s1
    s2 = s2
    N = 2
    Scripts = {}
    Slots = {s1}
    NoSlot = NoSlot
    Verdicts = {"SUCCESS"}
    BatchLimit = 1
    MaxFaults = 0
    MaxMigrations = 1
PROPERTY MigratedAgentIsServed
