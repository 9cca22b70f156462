------------------------------- MODULE MCGitHub --------------------------------
(* An instance of the Taskcluster webhook and the checks for TLC: of a pull      *)
(* request's group that was uploaded as a whole the runs are created and their   *)
(* comparison is put on GitHub.                                                  *)
EXTENDS MCTaskclusterRuns, Checks

githubVars == <<vars, checksVars>>

\* A run of each side and another of the head; two runs on master.
MCArrivals == {[label |-> "pr_base", time |-> 2], [label |-> "pr_head", time |-> 1],
               [label |-> "pr_head", time |-> 3],
               [label |-> "master", time |-> 1], [label |-> "master", time |-> 2]}

MCOlder == [label |-> "master", time |-> 0]

MCCheckName == <<"wpt.fyi", "chrome">>

\* All that the group has of the product was uploaded.
Uploaded ==
    /\ response = 200
    /\ event.kind = "status" /\ event.sender = Nobody /\ event.only = NoTask
    /\ LET ofBrowser == {u \in uploads : u.product[1] = Browser}
       IN  {u.product[2] : u \in ofBrowser} =
              IF event.master THEN {NoSide} ELSE {"pr_head", "pr_base", NoSide}

GitHubInit == Init /\ ChecksInit

\* Runs are created of what was uploaded.
GitHubNext ==
    \/ Next /\ UNCHANGED checksVars
    \/ /\ Uploaded /\ ChecksNext /\ UNCHANGED vars
       /\ \A r \in testRuns' : \E u \in uploads : r.label \in u.labels

GitHubSpec == GitHubInit /\ [][GitHubNext]_githubVars

===============================================================================
