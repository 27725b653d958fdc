SPECIFICATION TrackedSpec
CONSTANTS
    File = {a, b}
    Size = {1}
    MaxEdits = 3
INVARIANTS
    CacheNeverStale
    CurrentSources
    CurrentBytes
