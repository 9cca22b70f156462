-------------------------------- MODULE Checks --------------------------------
(* api/checks: when the runs of both sides of a pull request are there, or one   *)
(* on master and one before it, their comparison is put on GitHub as a check run *)
(* of every check suite of the commit.  Tasks of a queue do it, one for each run *)
(* that is created and each request of a user; GitHub's events come any time.    *)
(* This is about one commit and one product; the suites differ in their app.     *)
EXTENDS Integers, Sequences, FiniteSets, FiniteSetsExt

CONSTANTS
    Apps,           \* the GitHub apps that suites may belong to
    Arrivals,       \* runs that may be created: records [label, time]
    OlderMaster,    \* the newest run on master before the commit's
    NoRun,
    CheckName,      \* the name of the product's check runs, split at "-"
    Browser,        \* the product's browser
    MaxTasks,       \* bound on the tasks of a behaviour
    MaxEvents,      \* bound on GitHub's events: suites and requests to check again
    MaxFaults       \* bound on the calls that fail

ASSUME ArrivalsAssumption ==
    /\ OlderMaster # NoRun /\ NoRun \notin Arrivals
    /\ \A r \in Arrivals : r.label \in {"master", "pr_head", "pr_base"} /\ r.time \in Nat
\* No two runs of a commit start at the same time.
ASSUME TimesAssumption ==
    \A r, s \in Arrivals : r.time = s.time /\ (r.label = "master" <=> s.label = "master") => r = s
ASSUME LimitsAssumption == {MaxTasks, MaxEvents, MaxFaults} \subseteq Nat

VARIABLES
    testRuns,       \* Datastore: the commit's runs of the product
    suites,         \* Datastore: the CheckSuites, records [app, id]
    checkRuns,      \* GitHub: the check runs in the order of their creation
    tasks,          \* the check-processing queue and its handlers
    scheduled,      \* the tasks scheduled so far
    hooks,          \* the handlers of suite events
    events, faults,
    excused         \* history: what a check run may be missing or wrong for

checksVars == <<testRuns, suites, checkRuns, tasks, scheduled, hooks, events, faults, excused>>

ChecksInit ==
    /\ testRuns = {} /\ suites = {} /\ checkRuns = <<>>
    /\ tasks = {} /\ scheduled = 0 /\ hooks = {}
    /\ events = 0 /\ faults = 0
    /\ excused = {}

-------------------------------------------------------------------------------
(* Which runs are compared *)

NoPair == <<NoRun, NoRun>>

Newest(runs) == CHOOSE r \in runs : \A other \in runs : other.time <= r.time

\* Mutation: only runs of other commits count as the run before.
OtherCommit(runs, head) == OlderMaster

\* loadMasterRunBefore: of any commit, so that it may be an earlier run of this one.
Before(runs, head) ==
    LET earlier == {r \in runs : r.label = "master" /\ r.time < head.time}
    IN  IF earlier = {} THEN OlderMaster ELSE Newest(earlier)

\* Mutation: a base run that is newer than the head does not look for it.
HeadFirst(runs, first) ==
    LET bases == {r \in runs : r.label = "pr_base"}
    IN  CASE first.label = "master" -> <<first, Before(runs, first)>>
          [] first.label = "pr_head" /\ bases # {} -> <<first, Newest(bases)>>
          [] OTHER -> NoPair

\* The run that goes with the newest one: the other side's newest, or the one before it
\* on master.
PairOf(runs, first) ==
    LET heads == {r \in runs : r.label = "pr_head"}
        bases == {r \in runs : r.label = "pr_base"}
    IN  CASE first.label = "master" -> <<first, Before(runs, first)>>
          [] first.label = "pr_base" /\ heads # {} -> <<Newest(heads), first>>
          [] first.label = "pr_head" /\ bases # {} -> <<first, Newest(bases)>>
          [] OTHER -> NoPair

\* loadRunsToCompare
Comparison(runs) ==
    IF runs = {} THEN NoPair
    ELSE PairOf(runs, Newest(runs))

-------------------------------------------------------------------------------
(* The queue *)

Queued(id, code) == [id |-> id, pc |-> "queued", pair |-> NoPair, todo |-> {}, suite |-> <<>>,
                     existing |-> {}, code |-> code]

NewTask == Queued(scheduled + 1, 0)

Fault == faults < MaxFaults /\ faults' = faults + 1

\* ScheduleResultsProcessing.  A failure is only logged.
Schedule ==
    \/ /\ scheduled < MaxTasks /\ scheduled' = scheduled + 1
       /\ tasks' = tasks \union {NewTask}
       /\ UNCHANGED <<faults, excused>>
    \/ /\ Fault
       /\ excused' = excused \union {"unscheduled"}
       /\ UNCHANGED <<tasks, scheduled>>

\* HandleResultsCreate, as far as the checks see it (the rest is in ResultsPipeline).  The
\* commit is one on master or one of a pull request.
CreateRun(r) ==
    /\ r \notin testRuns
    /\ \A other \in testRuns : other.label = "master" <=> r.label = "master"
    /\ testRuns' = testRuns \union {r}
    /\ Schedule
    /\ UNCHANGED <<suites, checkRuns, hooks, events>>

Become(t, next) == tasks' = (tasks \ {t}) \union {next}

\* The answer: with 200 the task is over, else the queue tries it again.
AnswerTask(t, code) ==
    IF code = 200 THEN tasks' = tasks \ {t}
    ELSE Become(t, Queued(t.id, code))

\* The task has been tried for five minutes.
Expire(t) ==
    /\ t.pc = "queued" /\ t.code # 0
    /\ tasks' = tasks \ {t}
    /\ excused' = IF t.code = 404 THEN excused ELSE excused \union {"expired"}
    /\ UNCHANGED <<testRuns, suites, checkRuns, scheduled, hooks, events, faults>>

-------------------------------------------------------------------------------
(* updateCheckHandler *)

\* The runs to compare and the suites are loaded, here at once.  Without a suite there is
\* nothing to do.
Begin(t) ==
    /\ t.pc = "queued"
    /\ LET pair == Comparison(testRuns)
       IN  IF pair = NoPair THEN AnswerTask(t, 404)
           ELSE IF suites = {} THEN AnswerTask(t, 200)
           ELSE Become(t, [t EXCEPT !.pc = "compare", !.pair = pair, !.todo = suites])
    /\ LET others == {other \in tasks : other.pc # "queued"}
       IN  excused' = excused
             \union (IF others = {} THEN {} ELSE {"overlapped"})
             \union (IF \A other \in others : other.pair = Comparison(testRuns) THEN {} ELSE {"overtaken"})
    /\ UNCHANGED <<testRuns, suites, checkRuns, scheduled, hooks, events, faults>>

\* ParseProductSpec: what stands before the first "-" is taken for the browser.
ParsedBrowser(name) == name[1]

\* The latest check run of the suite's app the name of which matches, if any.
Existing(suite) ==
    LET matching == {i \in DOMAIN checkRuns : /\ checkRuns[i].app = suite.app
                                              /\ ParsedBrowser(checkRuns[i].name) = Browser}
    IN  IF matching = {} THEN {} ELSE {Max(matching)}

\* getDiffSummary for the next suite, then getExistingCheckRuns.  Check runs that cannot be
\* listed are none.
Compare(t) ==
    /\ t.pc = "compare"
    /\ \E s \in t.todo :
         LET found(existing) ==
                 Become(t, [t EXCEPT !.pc = "push", !.suite = <<s>>, !.todo = @ \ {s}, !.existing = existing])
         IN  \/ found(Existing(s)) /\ UNCHANGED <<faults, excused>>
             \/ Fault /\ found({}) /\ excused' = excused \union {"unlisted"}
    /\ UNCHANGED <<testRuns, suites, checkRuns, scheduled, hooks, events>>

\* A query fails, the search cache lacks a run (422), or the instance dies, whatever was done
\* for the suites before.
Fail(t) ==
    /\ Fault /\ AnswerTask(t, 500)
    /\ UNCHANGED <<testRuns, suites, checkRuns, scheduled, hooks, events, excused>>

\* After the last suite the answer is 200.
NextSuite(t) ==
    IF t.todo = {} THEN AnswerTask(t, 200)
    ELSE Become(t, [t EXCEPT !.pc = "compare", !.suite = <<>>, !.existing = {}])

CheckRun(t) == [app |-> t.suite[1].app, name |-> CheckName, pair |-> t.pair]

\* updateExistingCheckRunSummary or createCheckRun; that it failed is only logged.
Push(t) ==
    /\ t.pc = "push"
    /\ \/ /\ checkRuns' = IF t.existing = {} THEN Append(checkRuns, CheckRun(t))
                          ELSE [i \in DOMAIN checkRuns |-> IF i \in t.existing THEN CheckRun(t) ELSE checkRuns[i]]
          /\ UNCHANGED <<faults, excused>>
       \/ /\ Fault /\ excused' = excused \union {"unpushed"}
          /\ UNCHANGED checkRuns
    /\ NextSuite(t)
    /\ UNCHANGED <<testRuns, suites, scheduled, hooks, events>>

-------------------------------------------------------------------------------
(* Events *)

\* The suite is there; only when it is requested again there is more to do.
Ready(h) == IF h.again THEN {[h EXCEPT !.pc = "schedule"]} ELSE {}

\* A suite is requested, for a push or for a pull request from a fork, or requested again.
\* getOrCreateCheckSuite looks for the suite, ...
SuiteEvent(app, again) ==
    /\ events < MaxEvents /\ events' = events + 1
    /\ LET h == [id |-> events', app |-> app, again |-> again, pc |-> "put"]
       IN  hooks' = hooks \union (IF \E s \in suites : s.app = app THEN Ready(h) ELSE {h})
    /\ UNCHANGED <<testRuns, suites, checkRuns, tasks, scheduled, faults, excused>>

\* ... and puts a new one, without a transaction.  A suite that comes after the last task
\* has looked for suites is late, unless it was asked for again.
PutSuite(h) ==
    /\ h.pc = "put"
    /\ suites' = suites \union {[app |-> h.app, id |-> h.id]}
    /\ hooks' = (hooks \ {h}) \union Ready(h)
    /\ excused' = IF Comparison(testRuns) # NoPair /\ ~ h.again /\ \A t \in tasks : t.code # 0 \/ t.pc # "queued"
                  THEN excused \union {"late"} ELSE excused
    /\ UNCHANGED <<testRuns, checkRuns, tasks, scheduled, events, faults>>

\* scheduleProcessingForExistingRuns
ScheduleExisting(h) ==
    /\ h.pc = "schedule"
    /\ hooks' = hooks \ {h}
    /\ IF testRuns # {} THEN Schedule ELSE UNCHANGED <<tasks, scheduled, faults, excused>>
    /\ UNCHANGED <<testRuns, suites, checkRuns, events>>

\* A check run is requested again, or its "Recompute" is clicked.
RequestAgain ==
    /\ checkRuns # <<>>
    /\ events < MaxEvents /\ events' = events + 1
    /\ Schedule
    /\ UNCHANGED <<testRuns, suites, checkRuns, hooks>>

-------------------------------------------------------------------------------
Handle(t) == Expire(t) \/ Begin(t) \/ Compare(t) \/ Push(t) \/ Fail(t)

ChecksNext ==
    \/ \E r \in Arrivals : CreateRun(r)
    \/ \E t \in tasks : Handle(t)
    \/ \E app \in Apps, again \in BOOLEAN : SuiteEvent(app, again)
    \/ \E h \in hooks : PutSuite(h) \/ ScheduleExisting(h)
    \/ RequestAgain

ChecksSpec == ChecksInit /\ [][ChecksNext]_checksVars

-------------------------------------------------------------------------------
(* Properties *)

Mine(app) == {i \in DOMAIN checkRuns : checkRuns[i].app = app}

\* What is to be compared: the newest runs of both sides, or on master the two newest runs,
\* the second of which is of an earlier commit when this one has no other.
Wanted ==
    LET Side(label) == {r \in testRuns : r.label = label}
        last == Newest(testRuns)
    IN  IF \A r \in testRuns : r.label = "master"
        THEN <<last, IF testRuns = {last} THEN OlderMaster ELSE Newest(testRuns \ {last})>>
        ELSE <<Newest(Side("pr_head")), Newest(Side("pr_base"))>>

\* With nothing left to do, the newest check run of every suite compares the newest runs of
\* both sides or of master, in whatever order runs and suites came and however often tasks
\* failed and were tried again.  Excused are a task that could not be scheduled or that
\* expired after a failure, a late suite, handlers that overlap with different runs, and a
\* check run that GitHub did not take.
ChecksSettle ==
    (/\ tasks = {} /\ hooks = {} /\ excused \subseteq {"unlisted", "overlapped"} /\ testRuns # {}
     /\ \/ \A r \in testRuns : r.label = "master"
        \/ \A label \in {"pr_head", "pr_base"} : \E r \in testRuns : r.label = label) =>
        \A s \in suites : Mine(s.app) # {} /\ checkRuns[Max(Mine(s.app))].pair = Wanted

\* runs.go:29: "Update, not create, if a run name matches this completed TestRun."  Unless
\* handlers overlapped or the check runs could not be listed, an app has one check run for
\* the product.
CheckRunsAreUpdated ==
    excused \intersect {"overlapped", "unlisted"} = {} => \A app \in Apps : Cardinality(Mine(app)) <= 1

===============================================================================
