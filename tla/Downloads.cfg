\* Windows of up to 3 reads and 7 bytes over files of 0 to 9 bytes; two calls for one
\* destination side by side, an exit cuts off those at work.
SPECIFICATION MCFairSpec
CONSTANTS
    Totals = {0, 1, 6, 8, 9}
    PacketLens <- SomeLens
    ReadLens <- SomeLens
    Overhead = 1
    DefaultChunk = 2
    MaxChunk = 3
    MaxRequests = 3
    MaxBytes = 7
    Download = {d1, d2}
    Blocks = 2
    MaxActive = 2
    MaxExits = 1
INVARIANTS InOrder WithinLimits NoLitter
PROPERTY Terminates
\* These hold as well and can be added: TypeOK WindowPartitioned NeverRejectsShortReads
\* OkIsComplete DownloadTypeOK UnsharedIsVerified
