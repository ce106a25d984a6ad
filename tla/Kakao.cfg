SPECIFICATION Spec
CONSTANTS
    Absent = Absent
    None = None
    d = d
    o = o
    Proc = {d, o}
    Dispatcher = d
    Key = {k1, k2}
    Sender = {w1, w2}
    MaxBroken = 1
    MaxCrashes = 1
    MaxCalls = 2
    MaxSlips = 2
    MaxUses = 1
INVARIANTS IInv OneUserUnlessBroken QueuedOnceUnlessExcused NothingLostUnlessFailed
PROPERTY OutboxDrains
CHECK_DEADLOCK FALSE
