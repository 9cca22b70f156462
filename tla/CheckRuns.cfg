\* As GitHub.cfg; two tasks about one suite are enough.
SPECIFICATION GitHubSpec
CONSTANTS
    Events <- AllEvents
    PageSize = 2
    MaxPages = 2
    Apps = {wptfyi}
    Arrivals <- MCArrivals
    OlderMaster <- MCOlder
    NoRun = NoRun
    CheckName <- MCCheckName
    Browser = "chrome"
    MaxTasks = 3
    MaxEvents = 1
    MaxFaults = 1
CHECK_DEADLOCK FALSE
INVARIANT CheckRunsAreUpdated
