------------------------------ MODULE ResultsPage ------------------------------
(* The results page (wpt-results) with the loaders it is built on (test-runs,   *)
(* loading-state): a query is turned into runs, the runs into search results    *)
(* and perhaps a diff, each by a request that is answered whenever it is.       *)
(* Handlers run to their end; everything between a request and its answer may   *)
(* be interleaved with other answers and with the user.                         *)
EXTENDS ResultsTable, FiniteSets, FiniteSetsExt

CONSTANTS
    Queries,        \* records [runs, search, diff, values, saysView]: what the server
                    \* resolves the query to, and what its text looks like
    NoQuery,        \* the query before the page has one
    TestList,       \* every test, in the order in which results are sorted
    Results,        \* Results[test][run]: the test's entry in the run's summary
    Matches,        \* Matches[search]: the tests a search selects
    ServedDiff,     \* ServedDiff[test]: the difference a search with "diff" returns
    DiffAnswer,     \* what /api/diff answers: [diff, renames]
    Attempts,       \* how often a search is sent while the answer is 422
    MaxReloads,     \* bound on the loads of a behaviour
    MaxSteps        \* bound on the loads and the user's other steps together

ASSUME BoundsAssumption == Attempts \in Nat \ {0} /\ MaxReloads \in Nat /\ MaxSteps \in Nat
ASSUME NoQueryAssumption == NoQuery \notin Queries

VARIABLES
    query, view,            \* the query, its "view" apart ("" if there is none)
    fetched,                \* _fetchedQuery
    structuredSearch,       \* bound to the search box
    path,
    testRuns, searchResults, diffRun, diffResults,
    nodes, totals,          \* displayedNodes, displayedTotals
    sortCol, isPathSorted, onlyShowDifferences,
    resultsLoadFailed, noResults,
    loadingCount,
    loads,                  \* the requests in flight
    reloads, clicks,        \* how often data was loaded and the user clicked
    disturbed               \* since the last reload with nothing in flight: another
                            \* reload, or a search other than the query's

queryVars == <<query, view, fetched>>
dataVars == <<testRuns, searchResults, diffRun, diffResults>>
tableVars == <<nodes, totals, sortCol, isPathSorted, onlyShowDifferences>>
loadVars == <<resultsLoadFailed, noResults, loadingCount, loads>>
vars == <<queryVars, structuredSearch, path, dataVars, tableVars, loadVars, reloads, clicks, disturbed>>

NoDiffResults == [loaded |-> FALSE, diff |-> <<>>, renames |-> {}]

Init ==
    /\ query = NoQuery /\ view = "" /\ fetched = <<NoQuery, "">>
    /\ structuredSearch = "" /\ path = <<"/">>
    /\ testRuns = <<>> /\ searchResults = <<>> /\ diffRun = FALSE /\ diffResults = NoDiffResults
    /\ nodes = <<>> /\ totals = <<>> /\ sortCol = <<>>
    /\ isPathSorted = FALSE /\ onlyShowDifferences = FALSE
    /\ resultsLoadFailed = FALSE /\ noResults = FALSE /\ loadingCount = 0 /\ loads = {}
    /\ reloads = 0 /\ clicks = 0 /\ disturbed = FALSE

-------------------------------------------------------------------------------
(* loading-state *)

\* load(): new requests begin and old ones end; whoever makes the count zero
\* calls onLoadingComplete, which decides about the "No results." banner.
Loading(begun, ended) ==
    /\ loads' = (loads \ ended) \union begun
    /\ loadingCount' = loadingCount + Cardinality(begun) - Cardinality(ended)
    /\ noResults' = IF loadingCount' = 0 /\ loadingCount > 0
                    THEN ~ resultsLoadFailed' /\ searchResults' = <<>>
                    ELSE noResults

Request(kind, epoch, runs, search, diff) ==
    [kind |-> kind, epoch |-> epoch, runs |-> runs, search |-> search, diff |-> diff,
     tries |-> 1, waiting |-> FALSE]

-------------------------------------------------------------------------------
(* The table *)

Diffs(d, results) == [run |-> d, asked |-> query.diff, results |-> results]

\* A result with more statuses than there are runs makes the aggregation throw.
Throws(p, results, runs) ==
    \E r \in ToSet(results) : Under(p, r.test) /\ Len(r.rs) > Len(runs)

\* refreshDisplayedNodes.  Without results only the rows are cleared; when the
\* aggregation throws nothing is.
Refresh(p, results, runs, diffs, only) ==
    IF results = <<>> THEN nodes' = <<>> /\ UNCHANGED totals
    ELSE IF Throws(p, results, runs) THEN UNCHANGED <<nodes, totals>>
    ELSE /\ nodes' = SelectSeq(RowsOf(p, results, Len(runs), diffs), LAMBDA row : only => row.diff # <<>>)
         /\ totals' = TotalsOf(p, results, Len(runs), diffs)

-------------------------------------------------------------------------------
(* Queries *)

\* queryChanged is not called for an empty query, and returns at once for one that
\* says "view" and has one value.
IgnoresQuery(q, v) ==
    LET values == q.values + (IF v = "" THEN 0 ELSE 1)
    IN  values = 0 \/ (values = 1 /\ (q.saysView \/ v # ""))

\* Mutation: the failure of the query before is still shown.
ReloadKeepingFailure ==
    /\ diffRun' = (diffRun /\ query'.diff)
    /\ testRuns' = <<>> /\ searchResults' = <<>> /\ totals' = <<>> /\ sortCol' = <<>>
    /\ nodes' = <<>>
    /\ UNCHANGED resultsLoadFailed
    /\ reloads < MaxReloads /\ reloads + clicks < MaxSteps /\ reloads' = reloads + 1
    /\ Loading({Request("runs", reloads', query'.runs, query'.search, query'.diff)}, {})
    /\ disturbed' = (loads # {})
    /\ UNCHANGED <<diffResults, isPathSorted, onlyShowDifferences>>

\* reloadData and loadData: what was shown is cleared and the runs are requested.
reloadData ==
    /\ diffRun' = (diffRun /\ query'.diff)
    /\ testRuns' = <<>> /\ searchResults' = <<>> /\ totals' = <<>> /\ sortCol' = <<>>
    /\ nodes' = <<>>
    /\ resultsLoadFailed' = FALSE
    /\ reloads < MaxReloads /\ reloads + clicks < MaxSteps /\ reloads' = reloads + 1
    /\ Loading({Request("runs", reloads', query'.runs, query'.search, query'.diff)}, {})
    /\ disturbed' = (loads # {})
    /\ UNCHANGED <<diffResults, isPathSorted, onlyShowDifferences>>

\* queryChanged
QueryChanged(q, v) ==
    /\ query' = q /\ view' = v
    /\ IF IgnoresQuery(q, v) \/ fetched = <<q, v>>
       THEN UNCHANGED <<fetched, dataVars, tableVars, loadVars, reloads, disturbed>>
       ELSE fetched' = <<q, v>> /\ reloadData

\* The URL, the query builder or a committed search gives another query; a view
\* once chosen is not taken back.
ChangeQuery(q, v) ==
    /\ <<q, v>> # <<query, view>>
    /\ v = "" => view = ""
    /\ structuredSearch' = q.search
    /\ QueryChanged(q, v)
    /\ UNCHANGED <<path, clicks>>

\* clickInterop, clickDefault: a view of the same results is a query of its own.
ClickView(v) ==
    /\ reloads + clicks < MaxSteps /\ clicks' = clicks + 1
    /\ query # NoQuery
    /\ \/ v = "interop" /\ view # "interop"
       \/ v = "subtest" /\ view \in {"interop", "test"}
    /\ QueryChanged(query, v)
    /\ UNCHANGED <<structuredSearch, path>>

\* test-search latches what is typed half a second later: the search is bound to
\* the page, but neither committed to the query nor requested.
TypeSearch(s) ==
    /\ reloads + clicks < MaxSteps /\ clicks' = clicks + 1
    /\ structuredSearch' = s /\ s # structuredSearch
    /\ UNCHANGED <<queryVars, path, dataVars, tableVars, loadVars, reloads, disturbed>>

-------------------------------------------------------------------------------
(* Answers *)

\* fetchResults and fetchDiff for the runs that have arrived.
Arrived(l, runs) ==
    LET compared == query.diff /\ Len(runs) = 2
        begun == IF runs = <<>> THEN {}
                 ELSE {Request("search", l.epoch, runs, structuredSearch, query.diff)} \union
                      (IF compared THEN {Request("diff", l.epoch, runs, "", TRUE)} ELSE {})
    IN  /\ testRuns' = runs
        /\ sortCol' = IF runs = <<>> THEN sortCol ELSE [i \in DOMAIN runs |-> FALSE]
        /\ diffRun' = (diffRun \/ compared)
        /\ disturbed' = (disturbed \/ structuredSearch # fetched[1].search \/ query.diff # fetched[1].diff)
        /\ UNCHANGED <<searchResults, resultsLoadFailed, reloads>>
        /\ Loading(begun, {l})

\* /api/runs answers; an HTTP error counts as no runs; the network may fail.
AnswerRuns(l) ==
    /\ l.kind = "runs"
    /\ \/ \E runs \in {l.runs, <<>>} : Arrived(l, runs)
       \/ /\ resultsLoadFailed' = TRUE
          /\ UNCHANGED <<testRuns, searchResults, diffRun, sortCol, reloads, disturbed>>
          /\ Loading({}, {l})
    /\ UNCHANGED <<queryVars, structuredSearch, path, diffResults, nodes, totals, isPathSorted,
                   onlyShowDifferences, clicks>>

\* What /api/search answers.
SearchAnswer(l) ==
    LET found == SelectSeq(TestList, LAMBDA t : t \in Matches[l.search])
    IN  [i \in DOMAIN found |->
            [test |-> found[i],
             rs |-> [j \in DOMAIN l.runs |-> Results[found[i]][l.runs[j]]],
             diff |-> IF l.diff /\ Len(l.runs) = 2 THEN ServedDiff[found[i]] ELSE <<>>]]

\* Mutation: the search is tried again whenever the answer is 422.
RetryForever(l) == ~ l.waiting

\* retry(): another try comes after an answer 422, but for the last one.
MayRetry(l) == ~ l.waiting /\ l.tries < Attempts

\* Some run is not in the cache yet (422).
AnswerNotCached(l) ==
    /\ l.kind = "search" /\ MayRetry(l)
    /\ loads' = (loads \ {l}) \union {[l EXCEPT !.waiting = TRUE]}
    /\ UNCHANGED <<queryVars, structuredSearch, path, dataVars, tableVars, resultsLoadFailed,
                   noResults, loadingCount, reloads, clicks, disturbed>>

\* The waiting time is over and the search is sent again.
Retry(l) ==
    /\ l.kind = "search" /\ l.waiting
    /\ loads' = (loads \ {l}) \union
                {[l EXCEPT !.waiting = FALSE, !.tries = IF @ < Attempts THEN @ + 1 ELSE @]}
    /\ UNCHANGED <<queryVars, structuredSearch, path, dataVars, tableVars, resultsLoadFailed,
                   noResults, loadingCount, reloads, clicks, disturbed>>

\* The search is answered with results, or has failed for good.
AnswerSearch(l) ==
    /\ l.kind = "search" /\ ~ l.waiting
    /\ \/ /\ resultsLoadFailed' = TRUE
          /\ UNCHANGED <<searchResults, nodes, totals>>
       \/ /\ searchResults' = SearchAnswer(l)
          /\ Refresh(path, searchResults', testRuns, Diffs(diffRun, diffResults), onlyShowDifferences)
          /\ UNCHANGED resultsLoadFailed
    /\ Loading({}, {l})
    /\ UNCHANGED <<queryVars, structuredSearch, path, testRuns, diffRun, diffResults, sortCol,
                   isPathSorted, onlyShowDifferences, reloads, clicks, disturbed>>

\* The diff is answered, or fails without a word.
AnswerDiff(l) ==
    /\ l.kind = "diff"
    /\ \/ UNCHANGED <<diffResults, nodes, totals>>
       \/ /\ diffResults' = [loaded |-> TRUE] @@ DiffAnswer
          /\ Refresh(path, searchResults, testRuns, Diffs(diffRun, diffResults'), onlyShowDifferences)
    /\ UNCHANGED <<searchResults, resultsLoadFailed>>
    /\ Loading({}, {l})
    /\ UNCHANGED <<queryVars, structuredSearch, path, testRuns, diffRun, sortCol, isPathSorted,
                   onlyShowDifferences, reloads, clicks, disturbed>>

-------------------------------------------------------------------------------
(* The user's other steps *)

Click ==
    /\ reloads + clicks < MaxSteps /\ clicks' = clicks + 1
    /\ UNCHANGED <<queryVars, structuredSearch, dataVars, loadVars, reloads, disturbed>>

\* Mutation: the rows of the directory before stay.
GoWithoutRefresh(p) ==
    /\ path' = p
    /\ sortCol' = [i \in DOMAIN testRuns |-> FALSE] /\ isPathSorted' = FALSE
    /\ UNCHANGED <<nodes, totals, onlyShowDifferences>>

\* pathUpdated
GoTo(p) ==
    /\ path' = p
    /\ Refresh(p, searchResults, testRuns, Diffs(diffRun, diffResults), onlyShowDifferences)
    /\ sortCol' = [i \in DOMAIN testRuns |-> FALSE] /\ isPathSorted' = FALSE
    /\ UNCHANGED onlyShowDifferences

\* A link of the table, the path above it, or an autocompleted test.
Navigate(p) == p # path /\ GoTo(p) /\ Click

\* "n" and "p": the next or previous result; from a directory, its first result,
\* or, if it has none, the first or last of all.
Move(forward) ==
    LET n == Len(searchResults)
        inPath == {i \in 1..n : IsPrefix(path, searchResults[i].test)}
        at == Min(inPath)
        next == CASE inPath = {} -> IF forward THEN 1 ELSE 0
                  [] inPath # {} /\ searchResults[at].test # path -> at
                  [] OTHER -> IF forward THEN at + 1 ELSE at - 1
    IN  /\ n > 0
        /\ GoTo(searchResults[((n + next - 1) % n) + 1].test)
        /\ Click

toggleDiffFilter ==
    /\ onlyShowDifferences' = ~ onlyShowDifferences
    /\ diffRun
    /\ Refresh(path, searchResults, testRuns, Diffs(diffRun, diffResults), onlyShowDifferences')
    /\ UNCHANGED <<path, sortCol, isPathSorted>>
    /\ Click

sortTestName ==
    /\ isPathSorted' = ~ isPathSorted
    /\ sortCol' = [i \in DOMAIN testRuns |-> FALSE]
    /\ nodes' = SortSeq(nodes, LAMBDA a, b : IF isPathSorted' THEN NameBefore(a, b) ELSE NameBefore(b, a))
    /\ UNCHANGED <<path, totals, onlyShowDifferences>>
    /\ Click

\* The second click on a column reverses its order.  Rows of another load that
\* lack the column make the comparison throw, and nothing is sorted.
sortTestResults(i) ==
    /\ i \in DOMAIN sortCol
    /\ Len(nodes) > 1 => \A k \in DOMAIN nodes : i \in DOMAIN nodes[k].results
    /\ nodes' = SortSeq(nodes, LAMBDA a, b : IF sortCol[i] THEN RateBefore(b, a, i, view)
                                             ELSE RateBefore(a, b, i, view))
    /\ sortCol' = [j \in DOMAIN sortCol |-> j = i /\ ~ sortCol[i]]
    /\ isPathSorted' = FALSE
    /\ UNCHANGED <<path, totals, onlyShowDifferences>>
    /\ Click

-------------------------------------------------------------------------------
Directories == {p \in ToSet(Names) : \E t \in ToSet(TestList) : Under(p, t)}

Answer(l) == AnswerRuns(l) \/ AnswerNotCached(l) \/ Retry(l) \/ AnswerSearch(l) \/ AnswerDiff(l)

Next ==
    \/ \E q \in Queries, v \in {"", "interop", "test"} : ChangeQuery(q, v)
    \/ \E v \in {"interop", "subtest"} : ClickView(v)
    \/ \E s \in DOMAIN Matches : TypeSearch(s)
    \/ \E l \in loads : Answer(l)
    \/ \E p \in Directories \union {<<"/">>} : Navigate(p)
    \/ \E forward \in BOOLEAN : Move(forward)
    \/ toggleDiffFilter
    \/ sortTestName
    \/ \E i \in DOMAIN sortCol : sortTestResults(i)

Spec == Init /\ [][Next]_vars

\* A request is answered or fails in the end, and timers fire; what the user and
\* the server choose is their own.
FairSpec == Spec /\ WF_vars(\E l \in loads : Answer(l))

-------------------------------------------------------------------------------
(* Properties *)

\* With nothing in flight the page says what it has: the banner "No results."
\* stands exactly when nothing failed and there are none, in whatever order the
\* answers came; and unless loads overlapped or an uncommitted search was sent,
\* the runs and results are those of the query last fetched (or of no run, if
\* /api/runs failed), and never stand beside "Failed to fetch test runs.".
IdlePage ==
    (loads = {} /\ reloads > 0) =>
        /\ noResults <=> ~ resultsLoadFailed /\ searchResults = <<>>
        /\ ~ disturbed =>
              \/ resultsLoadFailed /\ searchResults = <<>>
              \/ ~ resultsLoadFailed /\ testRuns = <<>> /\ searchResults = <<>>
              \/ /\ ~ resultsLoadFailed
                 /\ testRuns = fetched[1].runs
                 /\ searchResults = SearchAnswer(fetched[1])

\* What a cell reads tells all, some and none passing apart, whatever is rounded.  A cell
\* that has lost its total (wpt-results.js:1172) cannot be compared with it: there it must
\* be that almost all tests of a directory pass, that the number is one hundredth below
\* all of them, and that the percentage beside it is neither none nor all.
TellsApart(m, c, cell) ==
    cell.kind = "numbers" /\ c.total > 0 =>
        /\ cell.passes = 0 <=> c.passes = 0
        /\ \/ /\ cell.total = <<c.total>>
              /\ cell.passes \in 0..(c.total * 100)
              /\ cell.passes = c.total * 100 <=> c.passes = AllOf(m, c.total)
           \/ /\ cell.total = <<>> /\ m = "tests"
              /\ cell.passes = c.total * 100 - 1
              /\ c.passes \notin {0, AllOf(m, c.total)}
        /\ m = "tests" => /\ cell.percent = 0 <=> c.passes = 0
                          /\ cell.percent = 1000 <=> c.passes = AllOf(m, c.total)
                          /\ cell.percent \in 0..1000

CellIsHonest(row, i) ==
    LET m == MeasureOf(view, row.isDir)
    IN  TellsApart(m, row.results[i].count[m],
                   CellOf(view, row.results[i].count, row.results[i].status, row.isDir))

\* Whatever was answered, toggled, sorted and navigated before, each row sums up
\* the tests under its path and the bottom row all those listed, in each measure;
\* no test is listed twice or, without the filter, left out; and cells are honest.
\* Listed are the tests that the differences last loaded do not name as renamed
\* (wpt-results.js:843), even if they are those of a query long gone: reloadData (621)
\* keeps them, so that a page that compares nothing may hide tests of its runs.
TableIsTrue ==
    (~ disturbed /\ searchResults # <<>>) =>
        LET Test(k) == searchResults[k].test
            listed == {k \in DOMAIN searchResults : Under(path, Test(k)) /\ Listed(Test(k), diffResults)}
            Mine(row) == {k \in listed : Test(k) = row.path \/ Under(row.path, Test(k))}
            renamed == {k \in listed : \E pair \in diffResults.renames : pair[2] = Test(k)}
            counts == [k \in listed |-> [i \in DOMAIN testRuns |-> CountOf(searchResults[k].rs[i], diffRun)]]
            IsSum(count, ks, i) == \A m \in Measures, f \in {"passes", "total"} :
                count[m][f] = MapThenSumSet(LAMBDA k : counts[k][i][m][f], ks)
        IN  /\ \A n \in DOMAIN nodes, i \in DOMAIN testRuns :
                  /\ Mine(nodes[n]) \intersect renamed = {} =>
                        IsSum(nodes[n].results[i].count, Mine(nodes[n]), i)
                  /\ ~ diffRun => CellIsHonest(nodes[n], i)
            /\ listed # {} => \A i \in DOMAIN testRuns : IsSum(totals[i], listed, i)
            /\ \A k \in listed : Cardinality({n \in DOMAIN nodes : k \in Mine(nodes[n])})
                                  \in (IF onlyShowDifferences THEN {0, 1} ELSE {1})

\* The spinner stops: every load comes to its end, with at most Attempts tries of
\* a search that is answered 422.
LoadsEnd == loadingCount > 0 ~> loadingCount = 0

===============================================================================
