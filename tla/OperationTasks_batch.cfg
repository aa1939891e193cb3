\* Two servers with one permit, one run of a script, one search; two failing
\* statements, one exit.
SPECIFICATION MCFairSpec
CONSTANTS
    Run = {s1, s2, p1, l1}
    Server = {s1, s2}
    ScriptRuns = {p1}
    SearchRuns = {l1}
    Permits = 1
    MaxVersions = 2
    MaxLines = 3
    Limit = 1
    MaxFailures = 2
    MaxExits = 1
INVARIANTS SuccessIsReal RunsWhatWasShown BatchIsAccurate GateIsTrue PagesTellAll
PROPERTIES BatchSettles EndedItemsRest
\* Everything may have ended.
CHECK_DEADLOCK FALSE
