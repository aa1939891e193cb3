\* One run, two retries, one failing statement and one exit; the drawn graphs;
\* an upload and its retry, two rollbacks, a cleanup and a failure.
SPECIFICATION MCFairSpec
CONSTANTS
    start = start
    work = work
    branch = branch
    upload = upload
    stop = stop
    somePath = somePath
    Node <- Nodes
    Start = start
    Kind <- Kinds
    Source <- Sources
    Edge <- Edges
    Drafted <- Drafts
    Caller = {starter, retry1, retry2}
    Starter = starter
    MaxFaults = 1
    MaxExits = 1
    Path = {somePath}
    Target <- Once
    Roller = {roll1, roll2}
    Cleaner = {clean}
    MaxRetries = 1
    MaxFailures = 1
SYMMETRY Symmetry
INVARIANTS AdmittedRuns Serial SucceededIsPath RunningIsDriven RolledBackRestored RestoresOnce
\* A run that has ended stays so.
CHECK_DEADLOCK FALSE
\* These hold as well and can be added: TypeOK PausedAgrees RestoreTypeOK ExpiredIsGone,
\* and without SYMMETRY the property EveryCallReturns
