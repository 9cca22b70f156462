-------------------------- MODULE MCTaskclusterRuns ---------------------------
(* Instances of TaskclusterRuns for TLC. *)
EXTENDS TaskclusterRuns

Task(id, browser, suite, state) ==
    [id |-> id, browser |-> browser, suite |-> suite, state |-> state]

States == {"completed", "failed"}

\* Both sides of a pull request and the infrastructure tests of one browser, and
\* two chunks of one product with tasks that do not count.
PullRequest ==
    {<<Task("t1", "chrome", "results", a), Task("t2", "chrome", "without_changes", b),
       Task("t3", "chrome", "tests", c)>> : a, b, c \in States}

Chunks ==
    {<<Task("t1", "chrome", "tests", a), Task("t2", "chrome", "stability", "failed"),
       Task("t3", "chrome", "tests", b), Task("t4", "firefox", "tests", "completed"),
       Task("t5", "chrome", "unrecognized", "failed")>> : a, b \in States}

Groups == PullRequest \union Chunks
            \union {<<>>, <<Task(NoTask, "chrome", "tests", "completed")>>}

Statuses ==
    [kind : {"status"}, ours : BOOLEAN, completed : BOOLEAN, master : BOOLEAN,
     sender : {Nobody, "user:x"}, only : {NoTask, "t1"}, tasks : Groups]

CheckSuites ==
    [kind : {"check_suite"}, ours : BOOLEAN, completed : BOOLEAN, master : BOOLEAN,
     sender : {"user:x"}, only : {NoTask}, tasks : Groups]

AllEvents == Statuses \union CheckSuites

\* A pull request tested on a commit that has been merged.
MergedPullRequest ==
    {e \in Statuses : e.ours /\ e.completed /\ e.master /\ e.tasks \in PullRequest}
===============================================================================
