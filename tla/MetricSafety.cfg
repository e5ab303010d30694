SPECIFICATION FairSpec
CONSTANTS
    r1 = r1
    r2 = r2
    loop = loop
    callback = callback
    Runs = {r1, r2}
    Foreign = {r2}
    Loop = loop
    Callbacks = {callback}
    MaxTime = 2
INVARIANT MetricInv
PROPERTY CountedOnce
PROPERTY RunsAreReported
