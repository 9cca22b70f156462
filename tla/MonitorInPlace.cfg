\* The service starts while Datastore has no runs for the default products.
SPECIFICATION FairSpec
CONSTANTS
    r1 = r1
    r2 = r2
    r3 = r3
    Runs = {r1, r2, r3}
    Backfiller = Backfiller
    Clients = {Backfiller, Poller}
    Backlogs <- NoBacklog
    MaxIngestedRuns = 2
PROPERTY MonitorInPlace
