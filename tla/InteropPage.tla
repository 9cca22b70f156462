------------------------------ MODULE InteropPage ------------------------------
(* The Interop dashboard (interop-dashboard, interop-summary) and the data      *)
(* manager that reads its scores out of the CSV files of results-analysis.      *)
(* Scores are whole numbers from 0 to 1000.  Columns of scores are numbered     *)
(* from 1; the column after the browsers' is Interop's own.                     *)
EXTENDS InteropData, FiniteSets, FiniteSetsExt, SequencesExt

CONSTANTS
    Years,                          \* the years whose dashboards are opened
    InteropFeatures,                \* the areas whose graphs are chosen
    CsvScore(_, _, _, _, _),        \* the score the CSV file of a year, mobile or not,
                                    \* stable or not, has for an area and a browser
    CsvHeader(_, _),                \* its areas in the order of its columns
    CsvDate(_),                     \* the date of its last line
    Rank(_),                        \* the place of an area's description in the alphabet
    MaxInteropSteps                 \* bound on the user's steps

VARIABLES
    dashboard,      \* the properties of the page's components; phase says whether the page
                    \* is "loading", "failed", "shown" or "rendered"
    location,       \* the parameters of the page's URL
    past,           \* the session history: the URLs before, each with its document
    interopSteps    \* how many steps the user has taken

interopVars == <<dashboard, location, past, interopSteps>>

summary == "summary"

-------------------------------------------------------------------------------
(* InteropDataManager *)

numBrowsers(year, mobile) == IF mobile THEN InfoOf(year).mobile_browsers ELSE InfoOf(year).browsers

focusAreasList(year, mobile) == IF mobile THEN InfoOf(year).mobile_areas ELSE InfoOf(year).areas

tableSections(year, mobile) == IF mobile THEN InfoOf(year).mobile_sections ELSE InfoOf(year).sections

\* Cell p of the last line of a CSV file, the date apart: for each browser a version
\* and its scores; in the mobile file Interop has no version.
CsvCell(year, mobile, stable, p) ==
    LET header == CsvHeader(year, mobile)
        b == (p - 1) \div (Len(header) + 1) + 1
        k == (p - 1) % (Len(header) + 1)
    IN  IF mobile /\ b > numBrowsers(year, mobile)
        THEN CsvScore(year, mobile, stable, header[k + 1], b)
        ELSE IF k = 0 THEN "version" ELSE CsvScore(year, mobile, stable, header[k], b)

\* _loadCsv: the score of an area in column b.
AreaScore(year, mobile, stable, area, b) ==
    LET header == CsvHeader(year, mobile)
        j == CHOOSE k \in DOMAIN header : header[k] = area
        start == (b - 1) * (Cardinality(focusAreasList(year, mobile)) + 1)
        versionOffset == IF mobile /\ b > numBrowsers(year, mobile) THEN 0 ELSE 1
    IN  CsvCell(year, mobile, stable, start + versionOffset + j)

\* Mutation: the areas that do not count do.
AllCounted(year, mobile) == focusAreasList(year, mobile)

CountedAreas(year, mobile) == focusAreasList(year, mobile) \intersect InfoOf(year).counted

\* #getInvestigationScoreAndWeight: the sum of the scores reached by the date.
InvestigationSum(year, date) ==
    LET Reached(area) == SelectSeq(area.scores, LAMBDA entry : date >= entry[1])
    IN  FoldLeft(+, 0, [i \in DOMAIN InfoOf(year).investigations |->
            LET reached == Reached(InfoOf(year).investigations[i])
            IN  IF reached = <<>> THEN 0 ELSE Last(reached)[2]])

\* #calcInvestigationTotalScore: the last listed scores, whatever their dates.
investigationTotalScore(year) ==
    InvestigationSum(year, 99999999) \div Len(InfoOf(year).investigations)

SummaryScore(year, mobile, stable, b) ==
    LET counted == CountedAreas(year, mobile)
        n == Cardinality(InfoOf(year).counted \intersect focusAreasList(year, mobile))
        w == InfoOf(year).weight
        k == Max({Len(InfoOf(year).investigations), 1})
        areas == MapThenSumSet(LAMBDA a : AreaScore(year, mobile, stable, a, b), counted)
    IN  (areas * (100 - w) * k + InvestigationSum(year, CsvDate(year)) * w * n) \div (100 * n * k)

-------------------------------------------------------------------------------
(* The URL *)

\* ready(): what a URL asks for; the mobile view has a feature flag and no stable view.
ReadUrl(url, flag) ==
    [mobile |-> url.mobile /\ flag,
     stable |-> url.stable /\ ~ (url.mobile /\ flag),
     embedded |-> url.embedded,
     feature |-> url.feature]

\* Mutation: the URL does not say that the page is embedded.
UrlWithoutEmbedded(d) ==
    [feature |-> d.feature, stable |-> d.stable, embedded |-> FALSE, mobile |-> d.mobile]

\* updateUrlParams
UrlOf(d) == [feature |-> d.feature, stable |-> d.stable, embedded |-> d.embedded, mobile |-> d.mobile]

\* A dashboard about to be loaded from a URL.
OpenPage(year, url, flag, doc) ==
    LET view == ReadUrl(url, flag)
    IN  [mobile |-> view.mobile, stable |-> view.stable, embedded |-> view.embedded, feature |-> view.feature,
         phase |-> "loading", year |-> year, flag |-> flag, doc |-> doc,
         sortColumn |-> 0, isSortedAsc |-> TRUE, order |-> <<>>, bubbles |-> <<>>,
         switched |-> FALSE, back |-> FALSE]

InteropUrls(year) ==
    [feature : {summary} \union (InteropFeatures \intersect InfoOf(year).areas),
     stable : BOOLEAN, embedded : BOOLEAN, mobile : BOOLEAN]

InteropInit ==
    /\ \E year \in Years, flag \in BOOLEAN :
          /\ location \in InteropUrls(year)
          /\ dashboard = OpenPage(year, location, flag, 1)
    /\ past = <<>> /\ interopSteps = 0

\* The observer: whatever changes of the view is pushed to the session history.
PushUrl(d) ==
    /\ past' = Append(past, [doc |-> dashboard.doc, year |-> dashboard.year, url |-> location])
    /\ location' = UrlOf(d)
    /\ dashboard' = [d EXCEPT !.back = FALSE]

-------------------------------------------------------------------------------
(* The table and the summary *)

\* numericalSort: the column of scores that a column of the table shows.  In the
\* mobile view the third column is an empty one for Safari.
ScoreColumn(d, column) == IF d.mobile /\ column = 4 THEN 3 ELSE column

\* sortRows: the rows of the first section.
sortRows(d) ==
    LET rows == tableSections(d.year, d.mobile)[1].rows
        Key(row) == IF d.sortColumn = 0 THEN Rank(row)
                    ELSE AreaScore(d.year, d.mobile, d.stable, row, ScoreColumn(d, d.sortColumn))
        keyed == SortSeq([i \in DOMAIN rows |-> <<Key(rows[i]), i, rows[i]>>],
                         LAMBDA x, y : x[1] < y[1] \/ (x[1] = y[1] /\ x[2] < y[2]))
        sorted == [i \in DOMAIN rows |-> keyed[i][3]]
    IN  IF d.mobile /\ d.sortColumn = 3 THEN rows
        ELSE IF d.isSortedAsc THEN sorted ELSE Reverse(sorted)

\* roundScore
roundScore(year, score) ==
    IF year < 2024 THEN score \div 10
    ELSE IF (score + 5) \div 10 = 100 /\ score < 1000 THEN 99
    ELSE (score + 5) \div 10

\* updateSummaryScores: Interop's bubble, the browsers' and that of the investigations.
SummaryBubbles(d) ==
    LET n == numBrowsers(d.year, d.mobile)
        Bubble(b) == roundScore(d.year, SummaryScore(d.year, d.mobile, d.stable, b))
    IN  <<Bubble(n + 1)>> \o [b \in 1..n |-> Bubble(b)] \o
            (IF InfoOf(d.year).investigations = <<>> THEN <<>>
             ELSE <<roundScore(d.year, investigationTotalScore(d.year))>>)

\* getNumericalSubtotalScore, in tenths of a percent.
Subtotal(d, section, b) ==
    LET rows == tableSections(d.year, d.mobile)[section].rows
    IN  FoldLeft(+, 0, [i \in DOMAIN rows |-> AreaScore(d.year, d.mobile, d.stable, rows[i], b)])
            \div Len(rows)

-------------------------------------------------------------------------------
(* Actions *)

\* ready(): the scores have arrived, or not; a year without mobile browsers has none
\* for the mobile view, and its page stays blank.
DashboardReady ==
    /\ UNCHANGED interopSteps
    /\ dashboard.phase = "loading"
    /\ IF numBrowsers(dashboard.year, dashboard.mobile) > 0
       THEN PushUrl([dashboard EXCEPT !.phase = "shown", !.order = sortRows(dashboard)])
       ELSE dashboard' = [dashboard EXCEPT !.phase = "failed"] /\ UNCHANGED <<location, past>>

DashboardFails ==
    /\ UNCHANGED interopSteps
    /\ dashboard.phase = "loading"
    /\ dashboard' = [dashboard EXCEPT !.phase = "failed"]
    /\ UNCHANGED <<location, past>>

\* afterNextRender: the bubbles are there to be filled and the headers to be clicked.
AfterRender ==
    /\ UNCHANGED interopSteps
    /\ dashboard.phase = "shown"
    /\ dashboard' = [dashboard EXCEPT !.phase = "rendered", !.bubbles = SummaryBubbles(dashboard)]
    /\ UNCHANGED <<location, past>>

\* The user does something on a page that is shown.
UserStep ==
    /\ dashboard.phase \in {"shown", "rendered"}
    /\ interopSteps < MaxInteropSteps /\ interopSteps' = interopSteps + 1

\* Switching between stable and experimental browsers; the rows stay where they are.
SwitchTo(stable) ==
    LET d == [dashboard EXCEPT !.stable = stable, !.switched = TRUE]
    IN  PushUrl(IF d.phase = "rendered" THEN [d EXCEPT !.bubbles = SummaryBubbles(d)] ELSE d)

\* toggleMobileView: another page, without a feature and not embedded.
toggleMobileView(mobile, stable) ==
    LET url == [feature |-> summary, stable |-> stable, embedded |-> FALSE, mobile |-> mobile]
    IN  /\ past' = Append(past, [doc |-> dashboard.doc, year |-> dashboard.year, url |-> location])
        /\ location' = url
        /\ dashboard' = OpenPage(dashboard.year, url, dashboard.flag, dashboard.doc + 1)

\* clickExperimental (FALSE) and clickStable (TRUE)
ClickChannel(stable) ==
    /\ UserStep
    /\ dashboard.stable # stable \/ dashboard.mobile
    /\ IF dashboard.mobile THEN toggleMobileView(FALSE, stable) ELSE SwitchTo(stable)

clickMobile ==
    /\ UserStep /\ dashboard.flag /\ numBrowsers(dashboard.year, TRUE) > 0
    /\ ~ dashboard.mobile
    /\ toggleMobileView(TRUE, FALSE)

ChooseFeature(feature) ==
    /\ UserStep /\ feature # dashboard.feature
    /\ PushUrl([dashboard EXCEPT !.feature = feature])

\* Every column of the table has a header, in the mobile view one more.
handleSortClick(column) ==
    /\ dashboard.phase = "rendered" /\ UserStep
    /\ LET d == [dashboard EXCEPT
                    !.isSortedAsc = IF dashboard.sortColumn = column THEN ~ @ ELSE FALSE,
                    !.sortColumn = column, !.switched = FALSE]
       IN  dashboard' = [d EXCEPT !.order = sortRows(d)]
    /\ UNCHANGED <<location, past>>

\* The browser's Back: within a document the URL alone changes, and nothing listens.
GoBack ==
    /\ past # <<>>
    /\ interopSteps < MaxInteropSteps /\ interopSteps' = interopSteps + 1
    /\ LET e == Last(past)
       IN  /\ location' = e.url
           /\ dashboard' = IF e.doc = dashboard.doc
                           THEN [dashboard EXCEPT !.back = TRUE]
                           ELSE OpenPage(e.year, e.url, dashboard.flag, e.doc)
    /\ past' = Front(past)

Columns(d) == 0..(numBrowsers(d.year, d.mobile) + (IF d.mobile THEN 2 ELSE 1))

InteropNext ==
    \/ DashboardReady
    \/ DashboardFails
    \/ AfterRender
    \/ \E stable \in BOOLEAN : ClickChannel(stable)
    \/ clickMobile
    \/ \E feature \in {summary} \union (InteropFeatures \intersect focusAreasList(dashboard.year, dashboard.mobile)) :
          ChooseFeature(feature)
    \/ \E column \in Columns(dashboard) : handleSortClick(column)
    \/ GoBack

InteropSpec == InteropInit /\ [][InteropNext]_interopVars

-------------------------------------------------------------------------------
(* Properties *)

\* Unless the user went back in the page's history, its URL, loaded again, shows the
\* same view: whatever was clicked, and whatever of the URL was not to be had.
UrlShowsView ==
    (dashboard.phase \in {"shown", "rendered"} /\ ~ dashboard.back) =>
        LET view == ReadUrl(location, dashboard.flag)
        IN  view = [f \in DOMAIN view |-> dashboard[f]]

\* The bubbles, the table and the CSV file agree.  A bubble reads 100 exactly when
\* every area that counts is at 1000 in the file (and the investigations, where
\* they weigh); where they do not weigh it is the rounded TOTAL of the first table.
\* The table has every row, in the order its sorted column reads, if the channel was
\* not switched since the click.
DashboardIsTrue ==
    dashboard.phase = "rendered" =>
        LET d == dashboard
            n == numBrowsers(d.year, d.mobile)
            info == InfoOf(d.year)
            rows == tableSections(d.year, d.mobile)[1].rows
            File(area, b) == CsvScore(d.year, d.mobile, d.stable, area, b)
            bubbles == [b \in 1..(n + 1) |-> d.bubbles[IF b = n + 1 THEN 1 ELSE b + 1]]
            shown == IF d.mobile /\ d.sortColumn = 4 THEN 3 ELSE d.sortColumn
        IN  /\ \A b \in 1..(n + 1) :
                  /\ bubbles[b] = 100 <=>
                        /\ \A area \in info.counted \intersect focusAreasList(d.year, d.mobile) : File(area, b) = 1000
                        /\ info.weight > 0 =>
                              InvestigationSum(d.year, CsvDate(d.year)) = 1000 * Len(info.investigations)
                  /\ info.weight = 0 => bubbles[b] = roundScore(d.year, Subtotal(d, 1, b))
            /\ Len(d.order) = Len(rows) /\ ToSet(d.order) = ToSet(rows)
            /\ (~ d.switched /\ shown \in 1..(n + 1) /\ ~ (d.mobile /\ d.sortColumn = 3)) =>
                  \A i \in 1..(Len(d.order) - 1) :
                      IF d.isSortedAsc THEN File(d.order[i], shown) <= File(d.order[i + 1], shown)
                      ELSE File(d.order[i], shown) >= File(d.order[i + 1], shown)

===============================================================================
