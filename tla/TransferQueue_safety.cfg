\* One job, two workers, every kind of error, one fault and one exit.
SPECIFICATION Spec
CONSTANTS
    Job = {1}
    Server = {s1}
    Worker = {w1, w2}
    MaxAttempts = 2
    PerServer = 1
    Plans <- RealPlans
    Causes = {"transient", "manual", "permanent", "uncertain", "cancelled"}
    MaxRetries = 1
    MaxFaults = 1
    MaxExits = 1
SYMMETRY Symmetry
INVARIANTS NoDoubleRun EndedIsQuiet CancelDelivered JobMatchesExecution
PROPERTY ImplementsJobQueue
\* The queue may come to rest.
CHECK_DEADLOCK FALSE
\* These hold as well and can be added: TypeOK AttemptBudget ActiveIsOwned
