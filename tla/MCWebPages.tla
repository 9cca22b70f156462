------------------------------- MODULE MCWebPages -------------------------------
(* Instances of the pages of the web app, and of the server of metadata, for TLC.   *)
(* What one gets from another is an input of its module, so one of them is chosen  *)
(* and the others stay as they were opened.                                        *)
EXTENDS InteropPage, TriagePage, RunsPage, RunQuery, TestFilePage, SearchQuery, MetadataServer

VARIABLE page

webVars == <<interopVars, triageVars, runsVars, queryVars, fileVars, searchBox, serverVars, page>>

Pages == {"interop", "triage", "runs", "query", "file", "search", "server"}

-------------------------------------------------------------------------------
(* Interop: one browser is complete, one almost, the others are not. *)

MCCsvHeader(year, mobile) ==
    LET sections == SelectSeq(tableSections(year, mobile), LAMBDA section : ~ section.group)
    IN  Reverse(FlattenSeq([i \in DOMAIN sections |-> sections[i].rows]))

MCCsvScore(year, mobile, stable, area, b) ==
    LET header == MCCsvHeader(year, mobile)
        j == CHOOSE k \in DOMAIN header : header[k] = area
    IN  CASE b = 1 -> 1000
          [] b = 2 -> IF j = 1 THEN 991 ELSE 1000
          [] OTHER -> (j * 137 + b * 31 + (IF stable THEN 211 ELSE 0)) % 1001

MCCsvDate(year) == year * 10000 + 1231

MCRank(area) == IF area \in Counted2022 THEN 1 ELSE IF area \in Counted2024 THEN 0 ELSE 2

-------------------------------------------------------------------------------
(* Triage: a test and a folder, one of the links is for the whole folder. *)

MCDirCells == {[test |-> "x", product |-> "chrome"], [test |-> "x", product |-> ""],
               [test |-> "d", product |-> "chrome"]}

MCFileCells == {[test |-> "s1", product |-> "chrome"], [test |-> "s2", product |-> "firefox"]}

MCMerged == [c |-> {}, cf |-> {[test |-> "d", all |-> TRUE, product |-> "firefox", url |-> "ok", label |-> ""]}]

-------------------------------------------------------------------------------
(* Runs: revisions over several pages, out of order and with equal dates; a last page  *)
(* without runs.                                                                     *)

Run(id, rev, date) == [id |-> id, revision |-> rev, date |-> date]

MCPagesOf(query) ==
    CASE query = "a" -> <<<<Run(1, "x", 9), Run(2, "y", 8)>>, <<Run(3, "y", 5), Run(4, "z", 6)>>, <<Run(5, "x", 1)>>>>
      [] query = "b" -> <<<<Run(6, "x", 9)>>, <<Run(7, "w", 9)>>, <<>>>>
      [] OTHER -> <<>>

-------------------------------------------------------------------------------
(* Queries *)

Chosen(name, labels) == [browser_name |-> name, labels |-> labels]

MCOpenedUrls == {
    NoQuery,
    [NoQuery EXCEPT !.label = <<"experimental">>, !.aligned = TRUE],
    [NoQuery EXCEPT !.product = DefaultProducts],
    [NoQuery EXCEPT !.label = <<"azure">>, !.others.q = "true"],
    [NoQuery EXCEPT !.product = <<Chosen("chrome", <<"beta">>), Chosen("firefox", <<>>)>>,
                    !.diff = TRUE, !.others.view = "interop"],
    [NoQuery EXCEPT !.sha = <<"s1">>, !.label = <<"master", "stable">>, !.others.from = "2020"]}

MCTypedLabels == {<<>>, <<"foo">>, <<"beta", "azure">>, <<"stable">>}

MCTypedSHAs == {<<>>, <<"latest">>, <<"s1">>}

-------------------------------------------------------------------------------
(* A test file: subtests in both files, in one of them, and in neither. *)

Sub(name, status) == [name |-> name, status |-> status]

MCFileRuns == <<"r1", "r2">>

MCResultFile(path, run) ==
    CASE path = "t" /\ run = "r1" ->
            [status |-> "OK", duration |-> "1s",
             subtests |-> <<Sub("a", "PASS"), Sub("b", "FAIL"), Sub("c", "PASS")>>]
      [] path = "t" /\ run = "r2" ->
            [status |-> "OK", duration |-> "2s",
             subtests |-> <<Sub("x", "PASS"), Sub("w", "FAIL"), Sub("b", "PASS"),
                            Sub("y", "FAIL"), Sub("z", "PASS"), Sub("a", "FAIL")>>]
      [] path = "u" /\ run = "r1" -> NoFile
      [] OTHER ->
            [status |-> "OK", duration |-> "1s",
             subtests |-> IF path = "v" /\ run = "r1" THEN <<>> ELSE <<Sub("a", "PASS"), Sub("b", "PASS")>>]

MCSubtestsFound(path, search) ==
    CASE path = "u" -> NotListed
      [] path = "v" -> {"a"}
      [] OTHER -> {"b", "x", "z"}

-------------------------------------------------------------------------------
(* Searches *)

MCSearchRuns == <<"chrome", "firefox", "chrome">>

MCFragments == {StatusExp("", TRUE, "pass"), StatusExp("chrome", FALSE, "missing"),
                StatusExp("chrome", TRUE, "fail"), FactExp("a")}

-------------------------------------------------------------------------------
(* Metadata: two triages about tests of one folder. *)

MCFolderOf == [t1 |-> "d", t2 |-> "d"]

-------------------------------------------------------------------------------
(* One page at a time *)

Init ==
    /\ page \in Pages
    /\ InteropInit /\ (page # "interop" => /\ dashboard = OpenPage(2024, location, FALSE, 1)
                                           /\ location = [feature |-> summary, stable |-> FALSE,
                                                          embedded |-> FALSE, mobile |-> FALSE])
    /\ TriageInit /\ (page # "triage" => ~ pathIsATestFile)
    /\ RunsInit /\ (page # "runs" => runsPage.query = "a")
    /\ QueryInit /\ (page # "query" => pageUrl = NoQuery)
    /\ FilePageInit /\ (page # "file" => filePage.path = "t" /\ filePage.search = NoSearch)
    /\ SearchInit
    /\ ServerInit

Interop == page = "interop" /\ InteropNext /\ UNCHANGED <<triageVars, runsVars, queryVars, fileVars, searchBox, serverVars, page>>
Triage == page = "triage" /\ TriageNext /\ UNCHANGED <<interopVars, runsVars, queryVars, fileVars, searchBox, serverVars, page>>
Runs == page = "runs" /\ RunsNext /\ UNCHANGED <<interopVars, triageVars, queryVars, fileVars, searchBox, serverVars, page>>
Query == page = "query" /\ QueryNext /\ UNCHANGED <<interopVars, triageVars, runsVars, fileVars, searchBox, serverVars, page>>
File == page = "file" /\ FilePageNext /\ UNCHANGED <<interopVars, triageVars, runsVars, queryVars, searchBox, serverVars, page>>
Search == page = "search" /\ SearchNext /\ UNCHANGED <<interopVars, triageVars, runsVars, queryVars, fileVars, serverVars, page>>
Server == page = "server" /\ ServerNext /\ UNCHANGED <<interopVars, triageVars, runsVars, queryVars, fileVars, searchBox, page>>

Next == Interop \/ Triage \/ Runs \/ Query \/ File \/ Search \/ Server

PagesSpec == Init /\ [][Next]_webVars

SearchSpec == Init /\ page = "search" /\ [][Search]_webVars

===============================================================================
