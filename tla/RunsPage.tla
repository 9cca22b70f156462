-------------------------------- MODULE RunsPage --------------------------------
(* The list of runs (wpt-runs): the runs of a query are fetched page by page as   *)
(* the user scrolls, grouped by revision and listed by the date of the first run  *)
(* of each.  The form may ask for other runs at any time.                         *)
EXTENDS Integers, FiniteSets, SequencesExt, Subsequences

CONSTANTS
    RunQueries,
    PagesOf(_),         \* the pages that /api/runs has for a query: sequences of runs,
                        \* [id, revision, date]
    NoPage,
    MaxRunsSteps        \* bound on the user's steps

\* A page is a sequence of runs, each with the time of its start; none that is empty has a
\* next one.
ASSUME PagesAssumption ==
    \A query \in RunQueries :
        LET pages == PagesOf(query)
            runs == UNION {ToSet(pages[k]) : k \in DOMAIN pages}
        IN  /\ pages \in Seq(Seq(runs))
            /\ \A run \in runs : run.date \in Int
            /\ \A k \in 1..(Len(pages) - 1) : pages[k] # <<>>

ASSUME NoPageAssumption ==
    \A query \in RunQueries : \A k \in DOMAIN PagesOf(query) : NoPage # [query |-> query, page |-> k]

VARIABLES
    runsPage,           \* the properties of wpt-runs; armed says whether iron-scroll-threshold
                        \* will tell of the end of the page being reached
    runLoads,           \* its requests in flight
    excused,            \* what has happened to the list: "mixed", requests of two queries were in
                        \* flight at once; "failed", one of them failed; "token", an
                        \* unchanged query was submitted; "threshold", a query was
                        \* submitted after the end of the page was reached
    runsSteps

runsVars == <<runsPage, runLoads, excused, runsSteps>>

-------------------------------------------------------------------------------

RunsAt(runs, sha) == {run \in ToSet(runs) : run.revision = sha}

firstRunDate(runs) == CHOOSE d \in {run.date : run \in runs} : \A run \in runs : d <= run.date

FirstAt(runs, sha) ==
    CHOOSE i \in DOMAIN runs : runs[i].revision = sha /\ \A j \in 1..(i - 1) : runs[j].revision # sha

\* The pairs of revisions of which the first was run later, or as late and is listed first.
LaterFirst(runs) ==
    {pair \in {run.revision : run \in ToSet(runs)} \X {run.revision : run \in ToSet(runs)} :
        LET Date(sha) == firstRunDate(RunsAt(runs, sha))
        IN  \/ Date(pair[1]) > Date(pair[2])
            \/ Date(pair[1]) = Date(pair[2]) /\ FirstAt(runs, pair[1]) <= FirstAt(runs, pair[2])}

\* testRunsLoaded: the revisions in the order of their first runs, the latest first.
testRunsLoaded(runs) ==
    LET shas == InOrder({run.revision : run \in ToSet(runs)}, LaterFirst(runs))
    IN  [i \in DOMAIN shas |-> [sha |-> shas[i], runs |-> Within(runs, RunsAt(runs, shas[i]))]]

NextPage(query, k) == IF k < Len(PagesOf(query)) THEN [query |-> query, page |-> k + 1] ELSE NoPage

RunsOn(page) == IF page.page \in DOMAIN PagesOf(page.query) THEN PagesOf(page.query)[page.page] ELSE <<>>

LoadRuns(query, kind, page) ==
    [kind |-> kind, query |-> query, page |-> page,
     id |-> CHOOSE i \in 1..(Cardinality(runLoads) + 1) : \A l \in runLoads : l.id # i]

RunsInit ==
    \E query \in RunQueries :
        /\ runsPage = [query |-> query, testRuns |-> <<>>, testRunsBySHA |-> <<>>, grouped |-> FALSE,
                       nextPageToken |-> NoPage, loadingFailed |-> FALSE, noResults |-> FALSE, armed |-> TRUE]
        /\ runLoads = {[kind |-> "ready", query |-> query, page |-> 1, id |-> 1]}
        /\ excused = {} /\ runsSteps = 0

\* testRuns is set, which has its observer group the runs.
WithRuns(page, runs) ==
    [page EXCEPT !.testRuns = runs, !.testRunsBySHA = testRunsLoaded(runs), !.grouped = TRUE]

\* A load ends, and with the last one onLoadingComplete is called.
EndLoad(l, page) ==
    /\ runLoads' = runLoads \ {l}
    /\ runsPage' = IF runLoads' # {} THEN page
                   ELSE [page EXCEPT !.loadingFailed = ~ page.grouped,
                                     !.noResults = page.grouped /\ page.testRunsBySHA = <<>>]
    /\ UNCHANGED runsSteps

\* loadRuns: ready() sets the scroll threshold again when it is done, a submit does not.
RunsArrive(l) ==
    /\ l.kind \in {"ready", "submit"}
    /\ EndLoad(l, [WithRuns(runsPage, RunsOn(l)) EXCEPT
                      !.nextPageToken = NextPage(l.query, 1),
                      !.armed = @ \/ l.kind = "ready"])
    /\ UNCHANGED excused

\* The server answers with an error: there are no runs.
RunsRefused(l) ==
    /\ l.kind \in {"ready", "submit"}
    /\ EndLoad(l, [WithRuns(runsPage, <<>>) EXCEPT !.armed = @ \/ l.kind = "ready"])
    /\ excused' = excused \union {"failed"}

\* No answer, or an error for a further page.
RunsFail(l) ==
    /\ EndLoad(l, runsPage)
    /\ excused' = excused \union {"failed"}

\* loadMoreRuns: the page goes before the last run.
MoreRunsArrive(l) ==
    /\ l.kind = "more"
    /\ LET runs == runsPage.testRuns
           more == RunsOn(l)
           at == IF runs = <<>> THEN 0 ELSE Len(runs) - 1
       IN  EndLoad(l, [WithRuns(runsPage, SubSeq(runs, 1, at) \o more \o SubSeq(runs, at + 1, Len(runs))) EXCEPT
                          !.nextPageToken = NextPage(l.query, l.page),
                          !.armed = @ \/ more # <<>>])
    /\ UNCHANGED excused

RunsStep == runsSteps < MaxRunsSteps /\ runsSteps' = runsSteps + 1

\* handleLoadNextPage at the end of the page: the threshold tells of it once.
handleLoadNextPage ==
    /\ runsPage.armed /\ runsPage.testRuns # <<>>
    /\ RunsStep
    /\ runsPage' = [runsPage EXCEPT !.armed = FALSE, !.nextPageToken = NoPage]
    /\ LET token == runsPage.nextPageToken
       IN  runLoads' = IF token = NoPage THEN runLoads
                       ELSE runLoads \union {LoadRuns(token.query, "more", token.page)}
    /\ UNCHANGED excused

\* Mutation: the runs of the query before are kept.
SubmitKeepingRuns(query) ==
    /\ RunsStep
    /\ query # runsPage.query
    /\ runsPage' = [runsPage EXCEPT !.query = query]
    /\ runLoads' = runLoads \union {LoadRuns(query, "more", 1)}
    /\ UNCHANGED excused

\* handleSubmitQuery: an unchanged query costs only the token of the next page.
handleSubmitQuery(query) ==
    /\ RunsStep
    /\ IF query = runsPage.query
       THEN /\ runsPage' = [runsPage EXCEPT !.nextPageToken = NoPage]
            /\ excused' = excused \union {"token"}
            /\ UNCHANGED runLoads
       ELSE /\ runsPage' = [WithRuns(runsPage, <<>>) EXCEPT !.query = query, !.nextPageToken = NoPage]
            /\ runLoads' = runLoads \union {LoadRuns(query, "submit", 1)}
            /\ excused' = (IF runLoads # {} THEN {"mixed"} ELSE {})
                              \union (IF runsPage.armed THEN {} ELSE {"threshold"})

RunsNext ==
    \/ \E l \in runLoads : RunsArrive(l) \/ RunsRefused(l) \/ RunsFail(l) \/ MoreRunsArrive(l)
    \/ handleLoadNextPage
    \/ \E query \in RunQueries : handleSubmitQuery(query)

RunsSpec == RunsInit /\ [][RunsNext]_runsVars

-------------------------------------------------------------------------------
(* Property *)

\* With no request in flight, and none before that was still in flight at another query:
\* the list is the first pages of the query's runs, no run is lost or listed twice, each
\* stands with its revision, the revisions by date; the banners tell an empty list from a
\* failure.  Unless a load failed, an unchanged query was submitted or one was submitted
\* at the end of the page, the next page can be had.
RunsListIsTrue ==
    (runLoads = {} /\ "mixed" \notin excused) =>
        LET pages == PagesOf(runsPage.query)
            PagesTo(k) == FlattenSeq(SubSeq(pages, 1, k))
            Shown(k) == /\ \A i \in DOMAIN PagesTo(k) : \E j \in DOMAIN runsPage.testRunsBySHA :
                              /\ runsPage.testRunsBySHA[j].sha = PagesTo(k)[i].revision
                              /\ Contains(runsPage.testRunsBySHA[j].runs, PagesTo(k)[i])
                        /\ Len(FlattenSeq([j \in DOMAIN runsPage.testRunsBySHA |-> runsPage.testRunsBySHA[j].runs]))
                              = Len(PagesTo(k))
            Oldest(j) == \E run \in ToSet(runsPage.testRunsBySHA[j].runs) :
                            \A k \in (j + 1)..Len(runsPage.testRunsBySHA) :
                               \E other \in ToSet(runsPage.testRunsBySHA[k].runs) : other.date <= run.date
        IN  /\ \E k \in 0..Len(pages) :
                  /\ Shown(k)
                  /\ excused = {} =>
                        /\ pages # <<>> => k > 0
                        /\ runsPage.nextPageToken = NextPage(runsPage.query, k)
                        /\ k < Len(pages) => runsPage.armed
            /\ \A j \in DOMAIN runsPage.testRunsBySHA : Oldest(j)
            /\ ~ (runsPage.loadingFailed /\ runsPage.noResults)
            /\ "failed" \notin excused => ~ runsPage.loadingFailed
            /\ runsPage.testRuns # <<>> => ~ runsPage.loadingFailed /\ ~ runsPage.noResults

===============================================================================
