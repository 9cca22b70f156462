\* Two goroutines, two runs, two shards: refinement of RunCache, and every call
\* returns.  No symmetry: it is unsound for liveness.
SPECIFICATION FairSpec
CONSTANTS
    Runs = {r1, r2}
    Clients = {c1, c2}
    NumShards = 2
    EvictPercent = 10
PROPERTIES ImplementsRunCache CallsReturn
