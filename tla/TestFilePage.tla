------------------------------ MODULE TestFilePage ------------------------------
(* The page of one test file (test-file-results): the result files of all runs    *)
(* are fetched beside a search, merged into a table of subtests and filtered by   *)
(* what the search found; test-file-results-table counts and compares the rows.   *)
EXTENDS Subsequences, SequencesExt

CONSTANTS
    TestPaths,
    FileRuns,               \* the runs compared, a sequence of two
    ResultFile(_, _),       \* of a path in a run: [status, duration, subtests], or NoFile
    NoFile,
    FileSearches,
    NoSearch,
    SubtestsFound(_, _),    \* the subtests a search finds in a test, or NotListed
    NotListed,
    MaxFileSteps            \* bound on the user's steps

ASSUME FileRunsAssumption == DOMAIN FileRuns = {1, 2}

\* A file names each subtest once; "OK" is a status of the harness, not of a subtest.
ASSUME FilesAssumption ==
    \A path \in TestPaths, i \in {1, 2} :
        LET file == ResultFile(path, FileRuns[i])
        IN  file # NoFile =>
                /\ file.subtests \in Seq([name : STRING, status : STRING \ {"OK"}])
                /\ \A j, k \in DOMAIN file.subtests : j # k => file.subtests[j].name # file.subtests[k].name

VARIABLES
    filePage,               \* path, search, resultsTable and onlyShowDifferences
    fileLoads,              \* calls of loadData that have not returned
    fileExcused,            \* of the loads since all was quiet: "mixed", two were in flight at
                            \* once; "failed", one was rejected
    fileSteps

fileVars == <<filePage, fileLoads, fileExcused, fileSteps>>

Null == "null"

-------------------------------------------------------------------------------
(* The table *)

Field(file, field) == IF file = NoFile THEN Null ELSE file[field]

resultsTableHeaders(files) ==
    <<[name |-> "status", results |-> [i \in DOMAIN files |-> Field(files[i], "status")]],
      [name |-> "Duration", results |-> [i \in DOMAIN files |-> Field(files[i], "duration")]]>>

SubtestNames(file) ==
    IF file = NoFile THEN <<>> ELSE [k \in DOMAIN file.subtests |-> file.subtests[k].name]

\* The places of the names merged: where the last one that was there already is, and which.
NewNames(allNames) == [all |-> allNames, lastOffset |-> 1, lastMatch |-> 1]

PlaceOf(name, names) == CHOOSE k \in DOMAIN names : names[k] = name

\* Mutation: new names go right behind the last name found.
MergeBehindMatch(m, name, i) ==
    IF Contains(m.all, name) THEN [m EXCEPT !.lastOffset = PlaceOf(name, m.all), !.lastMatch = i]
    ELSE [m EXCEPT !.all = InsertAt(@, m.lastOffset + 1, name)]

\* A name that is not there yet goes behind the names of its own file since the last that is.
MergeName(m, name, i) ==
    IF Contains(m.all, name) THEN [m EXCEPT !.lastOffset = PlaceOf(name, m.all), !.lastMatch = i]
    ELSE [m EXCEPT !.all = InsertAt(@, m.lastOffset + i - m.lastMatch, name)]

mergeNamesInto(names, allNames) ==
    LET Upto[i \in 0..Len(names)] ==
            IF i = 0 THEN NewNames(allNames) ELSE MergeName(Upto[i - 1], names[i], i)
    IN  IF allNames = <<>> THEN names ELSE Upto[Len(names)].all

SubtestStatus(file, name) ==
    LET mine == IF file = NoFile THEN {} ELSE {s \in ToSet(file.subtests) : s.name = name}
    IN  IF mine = {} THEN Null ELSE (CHOOSE s \in mine : TRUE).status

\* The table of all runs' result files, a row for each subtest below the first two.
fetchTestFile(path) ==
    LET files == [i \in DOMAIN FileRuns |-> ResultFile(path, FileRuns[i])]
        allNames == mergeNamesInto(SubtestNames(files[2]), mergeNamesInto(SubtestNames(files[1]), <<>>))
    IN  resultsTableHeaders(files) \o
        [k \in DOMAIN allNames |->
            [name |-> allNames[k], results |-> [i \in DOMAIN files |-> SubtestStatus(files[i], allNames[k])]]]

Found(path, search) == IF search = NoSearch THEN NotListed ELSE SubtestsFound(path, search)

filterResultsTableBySearch(table, subtests) ==
    IF subtests = NotListed THEN table
    ELSE ElementsAt(table, {k \in DOMAIN table : k <= 2 \/ table[k].name \in subtests})

-------------------------------------------------------------------------------
(* What is shown *)

\* The filter for differences spares the first row only.
computeRows(table, onlyShowDifferences) ==
    IF ~ onlyShowDifferences THEN table
    ELSE ElementsAt(table, {k \in DOMAIN table : k = 1 \/ table[k].results[1] # table[k].results[2]})

subtestRowCount(rows) ==
    IF Len(rows) > 2 /\ rows[2].name = "Duration" THEN Len(rows) - 2 ELSE 0

\* What stands below the second row is counted; a subtest missing from a run is not.
computeTotals(rows) ==
    [i \in IF Len(rows) <= 2 THEN {} ELSE DOMAIN rows[1].results |->
        [passes |-> Cardinality({k \in 3..Len(rows) : rows[k].results[i] = "PASS"}),
         total |-> Cardinality({k \in 3..Len(rows) : rows[k].results[i] # Null})]]

diffDisplay(results) ==
    LET Passed(i) == results[i] \in {"OK", "PASS"}
    IN  CASE results[1] = results[2] -> ""
          [] Passed(1) /\ ~ Passed(2) -> "-1"
          [] Passed(2) /\ ~ Passed(1) -> "+1"
          [] OTHER -> "0"

-------------------------------------------------------------------------------
(* Loading *)

\* loadData, called whenever the path or the search has changed: the table is cleared.
loadData(path, search) ==
    /\ fileSteps < MaxFileSteps /\ fileSteps' = fileSteps + 1
    /\ filePage' = [filePage EXCEPT !.path = path, !.search = search, !.resultsTable = <<>>]
    /\ fileLoads' = fileLoads \union
          {[path |-> path, search |-> search, id |-> fileSteps, filesLoaded |-> FALSE,
            searched |-> search = NoSearch, tries |-> 1, waiting |-> FALSE]}
    /\ fileExcused' = IF fileLoads # {} THEN fileExcused \union {"mixed"} ELSE {}

FilePageInit ==
    \E path \in TestPaths, search \in FileSearches \union {NoSearch} :
        /\ filePage = [path |-> path, search |-> search, resultsTable |-> <<>>, onlyShowDifferences |-> FALSE]
        /\ fileLoads = {[path |-> path, search |-> search, id |-> MaxFileSteps, filesLoaded |-> FALSE,
                         searched |-> search = NoSearch, tries |-> 1, waiting |-> FALSE]}
        /\ fileExcused = {} /\ fileSteps = 0

OpenFile(path) == path # filePage.path /\ loadData(path, filePage.search)

SearchFile(search) == search # filePage.search /\ loadData(filePage.path, search)

\* One of the two answers of a load is there: the table, when both are.
WithAnswer(l, loaded) ==
    /\ IF loaded.filesLoaded /\ loaded.searched
       THEN /\ fileLoads' = fileLoads \ {l}
            /\ filePage' = [filePage EXCEPT !.resultsTable =
                                filterResultsTableBySearch(fetchTestFile(l.path), Found(l.path, l.search))]
       ELSE fileLoads' = (fileLoads \ {l}) \union {loaded} /\ UNCHANGED filePage
    /\ UNCHANGED <<fileExcused, fileSteps>>

\* A result file that the server refuses is one without results.
ResultFilesArrive(l) ==
    ~ l.filesLoaded /\ WithAnswer(l, [l EXCEPT !.filesLoaded = TRUE])

SearchArrives(l) ==
    ~ l.searched /\ ~ l.waiting /\ WithAnswer(l, [l EXCEPT !.searched = TRUE])

\* retry: the search is repeated as often as there are runs.
SearchNotCached(l) ==
    /\ ~ l.searched /\ ~ l.waiting /\ l.tries < Len(FileRuns) + 1
    /\ WithAnswer(l, [l EXCEPT !.waiting = TRUE])

SearchAgain(l) ==
    l.waiting /\ WithAnswer(l, [l EXCEPT !.waiting = FALSE, !.tries = @ + 1])

\* No connection, an error of the search or its last retry: the load is rejected.
LoadFails(l) ==
    /\ ~ l.filesLoaded \/ (~ l.searched /\ ~ l.waiting)
    /\ fileLoads' = fileLoads \ {l}
    /\ fileExcused' = fileExcused \union {"failed"}
    /\ UNCHANGED <<filePage, fileSteps>>

ToggleFileDifferences ==
    /\ fileSteps < MaxFileSteps /\ fileSteps' = fileSteps + 1
    /\ filePage' = [filePage EXCEPT !.onlyShowDifferences = ~ @]
    /\ UNCHANGED <<fileLoads, fileExcused>>

FilePageNext ==
    \/ \E path \in TestPaths : OpenFile(path)
    \/ \E search \in FileSearches \union {NoSearch} : SearchFile(search)
    \/ ToggleFileDifferences
    \/ \E l \in fileLoads :
          ResultFilesArrive(l) \/ SearchArrives(l) \/ SearchNotCached(l) \/ SearchAgain(l) \/ LoadFails(l)

FilePageSpec == FilePageInit /\ [][FilePageNext]_fileVars

-------------------------------------------------------------------------------
(* Property *)

\* The subtests that some file has and the search found.
Wanted(files, found) ==
    LET names == UNION {ToSet(SubtestNames(files[i])) : i \in DOMAIN files}
    IN  IF found = NotListed THEN names ELSE names \intersect found

TableTells(table, files, found, onlyShowDifferences) ==
    LET wanted == Wanted(files, found)
        Status(i, name) == SubtestStatus(files[i], name)
        shown == IF onlyShowDifferences THEN {name \in wanted : Status(1, name) # Status(2, name)} ELSE wanted
        rows == computeRows(table, onlyShowDifferences)
        totals == computeTotals(rows)
        first == SubtestNames(files[1])
        last == SubtestNames(files[2])
        Place(name) == CHOOSE k \in 3..Len(table) : table[k].name = name
        Ordered(ns) == \A j, k \in DOMAIN ns : j < k /\ {ns[j], ns[k]} \subseteq wanted => Place(ns[j]) < Place(ns[k])
        Signs(sign) == Cardinality({k \in 3..Len(rows) : diffDisplay(rows[k].results) = sign})
    IN  /\ {table[k].name : k \in 3..Len(table)} = wanted /\ Len(table) = Cardinality(wanted) + 2
        /\ \A k \in 3..Len(table), i \in DOMAIN files : table[k].results[i] = Status(i, table[k].name)
        /\ Ordered(IF first = <<>> THEN last ELSE first)
        /\ found = NotListed => \A k \in 2..Len(last) :
              last[k] \notin ToSet(first) => Place(last[k]) = Place(last[k - 1]) + 1
        /\ Len(rows) > 2 /\ rows[2] = table[2] =>
              /\ \A i \in DOMAIN files : totals[i].passes = Cardinality({name \in shown : Status(i, name) = "PASS"})
              /\ totals[2].passes - totals[1].passes = Signs("+1") - Signs("-1")
              /\ subtestRowCount(rows) = Cardinality(shown)

\* With no load left, and none that overlapped another: the table is empty after a failure,
\* and otherwise has each subtest that some run has, and the search found, exactly once
\* with its results, in the order of the first file that has any; without a search, a
\* subtest that only the last run has stands below the one before it in that file.  Unless
\* the row of durations was filtered out, the totals count the passes of the subtests shown,
\* and the signs of the rows add up to their difference.
TestTableIsTrue ==
    (fileLoads = {} /\ "mixed" \notin fileExcused) =>
        IF "failed" \in fileExcused THEN filePage.resultsTable = <<>>
        ELSE TableTells(filePage.resultsTable,
                        [i \in DOMAIN FileRuns |-> ResultFile(filePage.path, FileRuns[i])],
                        Found(filePage.path, filePage.search), filePage.onlyShowDifferences)

===============================================================================
