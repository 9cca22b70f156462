\* Three goroutines that ingest, evict and search three runs over two shards;
\* seven tenths of the runs, rounded down, are evicted at a time.
SPECIFICATION Spec
CONSTANTS
    Runs = {r1, r2, r3}
    Clients = {c1, c2, c3}
    NumShards = 2
    EvictPercent = 70
SYMMETRY Symmetry
INVARIANTS TypeOK Agreement NoInternalError SingleLoader PlansAreWhole
