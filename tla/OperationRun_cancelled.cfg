\* One target, one start and a cancellation that acts on what it read before.
SPECIFICATION Spec
CONSTANTS
    N = 1
    Starter = {start1}
    Roller = {}
    Canceller = {cancel1}
    MaxFailures = 0
INVARIANT CancelledIsUntouched
CHECK_DEADLOCK FALSE
