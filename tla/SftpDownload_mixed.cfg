\* Two calls for one destination side by side, as the queue's workers run them.
SPECIFICATION DownloadSpec
CONSTANTS
    Download = {d1, d2}
    Blocks = 2
    MaxActive = 2
    MaxExits = 0
INVARIANT DestinationVerified
