\* The backfiller with three runs of two products and one more ingesting goroutine
\* (the poller), a check after every second ingestion.
SPECIFICATION FairSpec
CONSTANTS
    r1 = r1
    r2 = r2
    r3 = r3
    Runs = {r1, r2, r3}
    Backfiller = Backfiller
    Clients = {Backfiller, Poller}
    Backlogs <- SomeBacklogs
    MaxIngestedRuns = 2
INVARIANT BackfillHalts
PROPERTIES SendersAreReceived MonitorKeepsChecking StopEndsMonitor
