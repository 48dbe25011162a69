\* Every start value of the counter, every pace of polling.
SPECIFICATION FairSpec
CONSTANTS
    Wrap = 40
    OuterLimit = 25
    InnerLimit = 2
    MaxStep = 2
INVARIANTS NeverEarly NeverMissed
PROPERTIES WaitEnds
