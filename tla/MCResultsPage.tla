----------------------------- MODULE MCResultsPage -----------------------------
(* An instance of ResultsPage for TLC: three tests, in and beside a directory,  *)
(* with the statuses of old and new summaries, one of them almost passing, one  *)
(* missing from a run and one renamed.                                          *)
EXTENDS ResultsPage

x == <<"/", "a", "/", "x">>
y == <<"/", "a", "/", "y">>
ab == <<"/", "a", "b">>

MCTestList == <<x, y, ab>>
MCNames == <<<<"/", "a">>, x, y, ab>>

Entry(status, passes, total) ==
    [status |-> status, passes |-> passes, total |-> total, newAggProcess |-> status # "undefined"]

MCResults ==
    (x :> [r1 |-> Entry("O", 299, 300), r2 |-> Entry("O", 300, 300)]) @@
    (y :> [r1 |-> Entry("P", 0, 0), r2 |-> Entry("", 0, 0)]) @@
    (ab :> [r1 |-> Entry("undefined", 1, 2), r2 |-> Entry("F", 0, 0)])

MCMatches == [s |-> {y, ab}] @@ ("" :> {x, y, ab})
MCServedDiff == (x :> <<>>) @@ (y :> <<>>) @@ (ab :> <<0, 1, 1>>)
MCDiffAnswer == [diff |-> (x :> <<1, 0, 0>>), renames |-> {<<ab, y>>}]

MCQueries ==
    {[runs |-> <<"r1", "r2">>, search |-> "", diff |-> FALSE, values |-> 2, saysView |-> FALSE],
     [runs |-> <<"r1", "r2">>, search |-> "s", diff |-> TRUE, values |-> 3, saysView |-> FALSE],
     [runs |-> <<"r2">>, search |-> "s", diff |-> FALSE, values |-> 1, saysView |-> TRUE]}

===============================================================================
