SPECIFICATION Spec
CONSTANTS
    s1 = s1
    s2 = s2
    N = 2
    Scripts = {1}
    Slots = {s1, s2}
    NoSlot = NoSlot
    Verdicts = {"SUCCESS"}
    BatchLimit = 2
    MaxFaults = 1
    MaxMigrations = 1
INVARIANT PipelineInv
INVARIANT OutcomeIsTheRecordedResult
INVARIANT OneExecutionPerProcess
PROPERTY ImplementsTaskLifecycle
SYMMETRY SlotSymmetry
