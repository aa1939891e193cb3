\* The run, inspections one after the other, one other user of the pool, exits, lines that fail.
SPECIFICATION MCSpec
CONSTANTS
    Caller = {main, inspect, browse}
    Main = main
    Inspector = {inspect}
    Browser = {browse}
    Addr = {old, new}
    Old = old
    New = new
    Key = {k1, k2}
    Machine = k1
    Lost = {old}
INVARIANTS SessionIsCurrent HostIsConfirmed SucceededIsReached 
\* These hold as well and can be added: TypeOK
CHECK_DEADLOCK FALSE
