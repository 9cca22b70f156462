\* Two search clients beside the poller and the monitor, over two runs.
SPECIFICATION Spec
CONSTANTS
    Runs = {r1, r2}
    Clients = {c1, c2}
    MaxRunsPerRequest = 2
SYMMETRY Symmetry
INVARIANTS TypeOK SearchIsHonest OneIngester
