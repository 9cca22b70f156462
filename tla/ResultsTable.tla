----------------------------- MODULE ResultsTable -----------------------------
(* The table of test results that wpt-results makes of the answer of a search:  *)
(* how results are summed up per directory entry, compared, and displayed.      *)
(* Statuses are the one-letter codes of a result summary; "undefined" is the    *)
(* status of summaries older than statuses.  A pass rate is a whole number of   *)
(* parts, Parts of them being one.                                              *)
EXTENDS Integers, Sequences, SequencesExt

CONSTANTS
    Names,          \* the paths of directory entries, in the order of their names
    Parts,          \* the unit of pass rates: a multiple of every subtest count
    DiffFilter      \* the kinds of change a diff shows: of "A", "D", "C", "U"

ASSUME PartsAssumption == Parts \in Nat /\ Parts % 100 = 0 /\ Parts > 0

PASSING_STATUSES == {"O", "P"}

HasStatus(r) == r.status \notin {"", "undefined"}

isTestMissing(total, status) == status = "" /\ total = 0

isViewTestPass(total, passes, status) ==
    /\ passes = total
    /\ ~ isTestMissing(total, status)
    /\ status \in {"undefined", ""} \union PASSING_STATUSES

-------------------------------------------------------------------------------
(* Sums.  A count has three measures: whole tests weighted by their pass rate   *)
(* (interop view), subtests (default view) and tests passed (test view).        *)

Measures == {"tests", "subtests", "testView"}

\* The pass rate of one test; an old summary without subtests does not count.
aggregateTotalsByTest(r) ==
    LET rate == IF r.total = 0 THEN 0 ELSE (r.passes * Parts) \div r.total
    IN  IF ~ r.newAggProcess
        THEN [passes |-> rate, total |-> IF r.total = 0 THEN 0 ELSE 1]
        ELSE [passes |-> IF r.status \in PASSING_STATUSES /\ r.total = 0 THEN Parts ELSE rate,
              total |-> 1]

\* The subtests of one test.  In a diff the harness status is one more subtest;
\* otherwise it stands in for the subtests of a test that has none.
aggregateTotalsBySubtest(r, diffRun) ==
    LET extra == HasStatus(r) /\ (diffRun \/ r.total = 0)
        good == IF diffRun THEN "O" ELSE "P"
    IN  [passes |-> r.passes + (IF extra /\ r.status = good THEN 1 ELSE 0),
         total |-> r.total + (IF extra THEN 1 ELSE 0)]

CountOf(r, diffRun) ==
    LET subtests == aggregateTotalsBySubtest(r, diffRun)
    IN  [tests |-> aggregateTotalsByTest(r),
         subtests |-> subtests,
         testView |-> [passes |-> IF isViewTestPass(subtests.total, subtests.passes, r.status)
                                  THEN 1 ELSE 0,
                       total |-> 1]]

singleSubtest(r) ==
    r.total = 0 /\ r.status \notin {"undefined", "O"}

-------------------------------------------------------------------------------
(* Differences between two runs *)

Larger(a, b) == IF a > b THEN a ELSE b

\* <<more passes, more failures, more tests>>, or <<>> when the filter hides it.
computeDifferences(before, after) ==
    LET Count(r) == [passes |-> r.passes + (IF r.status \in PASSING_STATUSES THEN 1 ELSE 0),
                     total |-> r.total + (IF HasStatus(r) THEN 1 ELSE 0)]
        b == Count(before)
        a == Count(after)
        deleted == b.total > 0 /\ a.total = 0
        added == a.total > 0 /\ b.total = 0
        diff == <<Larger(a.passes - b.passes, 0),
                  Larger((a.total - a.passes) - (b.total - b.passes), 0),
                  a.total - b.total>>
        changed == diff # <<0, 0, 0>>
        kinds == {k \in {"A", "D", "C", "U"} :
                     CASE k = "A" -> added [] k = "D" -> deleted
                       [] k = "C" -> changed [] k = "U" -> ~ changed}
    IN  IF \/ deleted /\ "D" \notin DiffFilter
           \/ added /\ "A" \notin DiffFilter
           \/ kinds \intersect DiffFilter = {}
        THEN <<>>
        ELSE diff

-------------------------------------------------------------------------------
(* Rows: the entries of the directory "path".  A path is a sequence of pieces of *)
(* names and of "/", so that "/a" is the start of "/a/x" and of "/ab" alike.    *)
(* A result is a record of the test, one status per run, and the difference the *)
(* server has computed (<<>> if none).                                          *)

DirPrefix(path) == IF path = <<"/">> THEN path ELSE Append(path, "/")

Under(path, test) == IsPrefix(DirPrefix(path), test)

\* The test's directory entry: its path up to the first "/" after the prefix.
NameIn(path, test) ==
    LET slashes == {i \in DOMAIN test : test[i] = "/" /\ i > Len(DirPrefix(path))}
    IN  IF slashes = {} THEN test
        ELSE SubSeq(test, 1, (CHOOSE i \in slashes : \A j \in slashes : i <= j) - 1)

\* A test that was renamed is listed under its new name only.
Listed(test, diffResults) == \A pair \in diffResults.renames : pair[1] # test

\* The sum of the counts of run i.  The test that was renamed to one of these tests
\* adds its subtests to the first run.
SumOf(rows, i, results, diffs) ==
    LET old == SelectSeq(results, LAMBDA r : \E pair \in diffs.results.renames :
                   pair[1] = r.test /\ \E new \in ToSet(rows) : new.test = pair[2])
        counted == SelectSeq(rows, LAMBDA r : i <= Len(r.rs))
        Total(m, f) == FoldLeft(+, 0, [k \in DOMAIN counted |-> CountOf(counted[k].rs[i], diffs.run)[m][f]])
        Renamed(m, f) == IF i # 1 \/ m # "subtests" THEN 0
                         ELSE FoldLeft(+, 0, [k \in DOMAIN old |-> old[k].rs[1][f]])
    IN  [m \in Measures |-> [passes |-> Total(m, "passes") + Renamed(m, "passes"),
                             total |-> Total(m, "total") + Renamed(m, "total")]]

DiffOf(r, diffResults) ==
    IF diffResults.loaded
    THEN IF r.test \in DOMAIN diffResults.diff THEN diffResults.diff[r.test] ELSE <<>>
    ELSE IF r.diff # <<>> THEN r.diff
    ELSE computeDifferences(r.rs[1], r.rs[2])

AddDiff(old, new) ==
    IF new = <<>> THEN old
    ELSE IF old = <<>> THEN new
    ELSE [i \in 1..3 |-> old[i] + new[i]]

ListedUnder(path, results, diffs) ==
    SelectSeq(results, LAMBDA r : Under(path, r.test) /\ Listed(r.test, diffs.results))

\* The row of the given name: its tests summed up, the status that of the last one.
RowOf(name, rows, runs, results, diffs) ==
    [path |-> name,
     isDir |-> \A r \in ToSet(rows) : r.test # name,
     results |-> [i \in 1..runs |->
         LET counted == SelectSeq(rows, LAMBDA r : i <= Len(r.rs))
             last == IF counted = <<>> THEN [status |-> "undefined", total |-> 1] ELSE Last(counted).rs[i]
         IN  [count |-> SumOf(rows, i, results, diffs), status |-> last.status, single |-> singleSubtest(last)]],
     diff |-> IF ~ diffs.asked THEN <<>>
              ELSE FoldLeft(AddDiff, <<>>, [k \in DOMAIN rows |->
                       IF Len(rows[k].rs) = 2 THEN DiffOf(rows[k], diffs.results) ELSE <<>>])]

\* All rows, in the order in which their first test appears.
RowsOf(path, results, runs, diffs) ==
    LET listed == ListedUnder(path, results, diffs)
        names == FoldLeft(LAMBDA seen, r : IF NameIn(path, r.test) \in ToSet(seen) THEN seen
                                           ELSE Append(seen, NameIn(path, r.test)), <<>>, listed)
    IN  [k \in DOMAIN names |->
            RowOf(names[k], SelectSeq(listed, LAMBDA r : NameIn(path, r.test) = names[k]),
                  runs, results, diffs)]

\* The bottom row; <<>> when no test is listed.
TotalsOf(path, results, runs, diffs) ==
    LET listed == ListedUnder(path, results, diffs)
    IN  IF listed = <<>> THEN <<>> ELSE [i \in 1..runs |-> SumOf(listed, i, <<>>, diffs)]

-------------------------------------------------------------------------------
(* Cells *)

MeasureOf(view, isDir) ==
    CASE view = "test" -> "testView"
      [] view = "interop" /\ isDir -> "tests"
      [] OTHER -> "subtests"

\* One hundredth is the last digit shown of a number of passing tests.
InHundredths(m, passes) == IF m = "tests" THEN (passes * 100 + Parts \div 2) \div Parts
                           ELSE passes * 100

\* The number of passing tests that means all.
AllOf(m, total) == IF m = "tests" THEN total * Parts ELSE total

\* Some do not pass, but rounding would hide it.
AlmostAll(m, passes, total) ==
    passes \notin {0, AllOf(m, total)} /\ InHundredths(m, passes) = total * 100

\* Mutation: a number of passing tests is rounded like any other number.
RoundedPasses(m, passes, total) == InHundredths(m, passes)

\* The number of passing tests as shown, in hundredths: rounded, but neither down
\* to none nor up to all.
ShownPasses(m, passes, total) ==
    LET rounded == InHundredths(m, passes)
    IN  CASE passes = 0 -> 0
          [] passes = AllOf(m, total) -> total * 100
          [] passes \notin {0, AllOf(m, total)} /\ rounded < 1 -> 1
          [] AlmostAll(m, passes, total) -> rounded - 1
          [] OTHER -> rounded

\* The total beside it, which an almost complete number goes without (1172).
ShownTotal(m, passes, total) == IF AlmostAll(m, passes, total) THEN <<>> ELSE <<total>>

\* The percentage that the interop view adds, in tenths: rounded down, but not to none.
ShownPercent(passes, all) ==
    LET rounded == (passes * 1000) \div all
    IN  CASE passes = 0 -> 0
          [] passes = all -> 1000
          [] passes # 0 /\ passes # all /\ rounded = 0 -> 1
          [] passes # 0 /\ passes # all /\ rounded = 1000 -> 999
          [] OTHER -> rounded

\* formatCellDisplay: what a cell reads.  A test of its own reads PASS or its
\* status in the test view; a test without subtests counts its status.
CellOf(view, count, status, isDir) ==
    LET m == MeasureOf(view, isDir)
        c == count[m]
    IN  CASE c.total = 0 /\ status \in {"", "undefined"} ->
                 [kind |-> "missing", passes |-> 0, total |-> <<>>, percent |-> 0]
          [] c.total = 0 /\ status \notin {"", "undefined"} ->
                 [kind |-> "numbers", passes |-> IF status = "P" /\ view = "subtest" THEN 100 ELSE 0,
                  total |-> IF view = "subtest" THEN <<1>> ELSE <<0>>, percent |-> 0]
          [] c.total # 0 /\ view = "test" /\ ~ isDir ->
                 [kind |-> IF isViewTestPass(c.total, c.passes, status) THEN "pass" ELSE "fail",
                  passes |-> 0, total |-> <<>>, percent |-> 0]
          [] OTHER -> [kind |-> "numbers", passes |-> ShownPasses(m, c.passes, c.total),
                       total |-> ShownTotal(m, c.passes, c.total),
                       percent |-> IF m = "tests" THEN ShownPercent(c.passes, c.total * Parts) ELSE 0]

-------------------------------------------------------------------------------
(* Order *)

\* compareTestNameDefaultOrder
NameBefore(a, b) ==
    (CHOOSE i \in DOMAIN Names : Names[i] = a.path) < (CHOOSE i \in DOMAIN Names : Names[i] = b.path)

\* sortTestResults: by pass rate in the measure of the view (that of directories,
\* whatever the row), 0/0 first, ties by name.
RateBefore(a, b, column, view) ==
    LET m == MeasureOf(view, TRUE)
        ca == a.results[column].count[m]
        cb == b.results[column].count[m]
        rates == <<ca.passes * cb.total, cb.passes * ca.total>>
    IN  CASE ca.total = 0 /\ cb.total = 0 -> NameBefore(a, b)
          [] ca.total = 0 /\ cb.total # 0 -> TRUE
          [] ca.total # 0 /\ cb.total = 0 -> FALSE
          [] OTHER -> rates[1] < rates[2] \/ (rates[1] = rates[2] /\ NameBefore(a, b))

===============================================================================
