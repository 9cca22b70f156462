\* Up to two loads, three loads and other steps of the user in all; a search is tried twice.
SPECIFICATION FairSpec
CONSTANTS
    NoQuery = NoQuery
    Queries <- MCQueries
    TestList <- MCTestList
    Names <- MCNames
    Results <- MCResults
    Matches <- MCMatches
    ServedDiff <- MCServedDiff
    DiffAnswer <- MCDiffAnswer
    Parts = 300
    DiffFilter = {"A", "D", "C"}
    Attempts = 2
    MaxReloads = 2
    MaxSteps = 3
INVARIANTS IdlePage TableIsTrue
PROPERTY LoadsEnd
CHECK_DEADLOCK FALSE
