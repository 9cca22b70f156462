\* The webhook as before, for every event; then the checks of a pull request and of a
\* commit on master: three runs, three tasks and one suite event before or after
\* them, one of GitHub's or the search cache's calls failing.  The system may stop.
SPECIFICATION GitHubSpec
CONSTANTS
    Events <- AllEvents
    PageSize = 2
    MaxPages = 2
    Apps = {wptfyi}
    Arrivals <- MCArrivals
    OlderMaster <- MCOlder
    NoRun = NoRun
    CheckName <- MCCheckName
    Browser = "chrome"
    MaxTasks = 3
    MaxEvents = 2
    MaxFaults = 1
CHECK_DEADLOCK FALSE
INVARIANTS ReportsAreComplete NoPullRequestOnMaster LabelsAreExact AnswerIsTruthful ChecksSettle
