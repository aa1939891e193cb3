\* Two jobs and one slot; no symmetry, it is unsound for liveness.
SPECIFICATION FairSpec
CONSTANTS
    Job = {1, 2}
    Server = {s1}
    Worker = {w1, w2}
    MaxAttempts = 1
    PerServer = 1
    Plans <- OnePhase
    Causes = {"transient"}
    MaxRetries = 0
    MaxFaults = 0
    MaxExits = 0
PROPERTY QueuedIsServed
\* The queue may come to rest.
CHECK_DEADLOCK FALSE
\* These hold as well and can be added: ActiveEnds
