\* Two targets, two confirmations, two rollbacks, a cancellation and a failure; each kind of
\* thing that is rolled back from a snapshot.
SPECIFICATION MCSpec
CONSTANTS
    N = 2
    Starter = {start1, start2}
    Roller = {roll1, roll2}
    Canceller = {cancel1}
    MaxFailures = 1
    Kind = {"setting", "permissions", "service", "policy", "container", "swap",
            "firewall", "address", "profile"}
SYMMETRY Symmetry
INVARIANTS Exclusive RolledBackIsOriginal WayBack SnapshotsRestore
\* A run that has ended stays so.
CHECK_DEADLOCK FALSE
\* These hold as well and can be added: TypeOK
