\* Two roots, two files, two migrations, a power failure; or two update commands
\* at a time, one new version, both sources. No symmetry: it is unsound for liveness.
SPECIFICATION MCFairSpec
CONSTANTS
    Root = {A, B}
    File = {db, vault}
    MaxWrites = 2
    MaxMigrations = 2
    MaxFailures = 1
    Call = {c1, c2}
    MaxVersion = 1
INVARIANTS AlwaysRecoverable NoWayBack StoreKept BusyIsOwned
PROPERTIES ComesBack InstallsWhatIsShown
\* These hold as well and can be added: TypeOK UpdatesTypeOK
