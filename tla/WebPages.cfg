\* Each page by itself: six years of Interop with two clicks; six steps of triage, five of the
\* list of runs, three edits of a query, two loads of a test file, texts of a term and a fragment;
\* two triages of one file, with polls as far apart as the cache of metadata lasts.
SPECIFICATION PagesSpec
CONSTANTS
    Years = {2021, 2022, 2023, 2024, 2025, 2026}
    InteropFeatures = {"2021-aspect-ratio"}
    CsvScore <- MCCsvScore
    CsvHeader <- MCCsvHeader
    CsvDate <- MCCsvDate
    Rank <- MCRank
    MaxInteropSteps = 2
    DirCells <- MCDirCells
    FileCells <- MCFileCells
    Folders = {"d"}
    ProductSets = {"c", "cf"}
    Merged <- MCMerged
    NotLoaded = NotLoaded
    MaxTriageSteps = 6
    RunQueries = {"a", "b", "c"}
    PagesOf <- MCPagesOf
    NoPage = NoPage
    MaxRunsSteps = 5
    OpenedUrls <- MCOpenedUrls
    TypedLabels <- MCTypedLabels
    TypedSHAs <- MCTypedSHAs
    SearchTexts = {"", "a", "true"}
    MaxQuerySteps = 3
    TestPaths = {"t", "u", "v"}
    FileRuns <- MCFileRuns
    ResultFile <- MCResultFile
    NoFile = NoFile
    FileSearches = {"s"}
    NoSearch = NoSearch
    SubtestsFound <- MCSubtestsFound
    NotListed = NotListed
    MaxFileSteps = 2
    SearchRuns <- MCSearchRuns
    Fragments <- MCFragments
    MaxSize = 3
    Triages = {"t1", "t2"}
    FolderOf <- MCFolderOf
    PollInterval = 2
    CacheExpiry = 2
    NotCached = NotCached
INVARIANTS UrlShowsView DashboardIsTrue TriageIsComplete MetadataIsFresh RunsListIsTrue QueryIsObeyed FormIsObeyed TestTableIsTrue  AllMetadataIsShown
PROPERTY TriagesOnlyAdd
CHECK_DEADLOCK FALSE
