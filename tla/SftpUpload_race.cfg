\* Two uploads race for one remote path; two connections may break. No symmetry: it is unsound for liveness.
SPECIFICATION FairSpec
CONSTANTS
    Upload = {u1, u2}
    Prior <- Either
    MaxBreaks = 2
INVARIANTS TargetVerified RefusedLeavesTarget
PROPERTY OnlyOverwriteReplaces
\* These hold as well and can be added: TypeOK NoLitter, and the property EveryUploadReturns
