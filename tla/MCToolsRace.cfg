CONSTANTS
    Callers = {"w1", "w2"}
    Files = {"f"}
    Names = {"read_file"}
    CacheSize = 2
    MaxSeconds = 2
    MaxWrites = 2
SPECIFICATION ToSpec
INVARIANTS
    CacheNotRaced
