SPECIFICATION AgentIOSpec
CONSTANTS
    MaxRemovals = 5
    TrafficType = {t1}
    Pod = {p1, p2, p3}
    maxPodMetrics = 2
    MaxBatch = 2
    MaxFlows = 4
    None = none
    Msg = {m1, m2}
    Poison = {m2}
    MaxDeliver = 4
    OldCaps = {0, 2, 4, 5}
    NakBaseDelay = 2
    NakMaxDelay = 5
    MaxFaults = 3
INVARIANTS OneCounterPerByte RunningMeasures RingMatchesPods EachByteOneCounter LossExplained LadderBinds
PROPERTIES StartEnds PollCompletes BatchesSettled
CHECK_DEADLOCK FALSE
