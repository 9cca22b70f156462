--------------------------- MODULE TaskclusterRuns ----------------------------
(***************************************************************************)
(* tcStatusWebhookHandler (api/taskcluster/webhook.go): one GitHub event   *)
(* about a Taskcluster task group becomes one upload per product.          *)
(*                                                                         *)
(* The tasks of the group are listed page by page, sorted into products,   *)
(* and CreateAllRuns starts a goroutine for each product.  All goroutines  *)
(* start from the same slice of labels.  A Go slice is a window on an      *)
(* array; append writes into that array while its capacity lasts, so the   *)
(* array is state and the goroutines race for it.  The race is modelled at *)
(* the grain of one label read or written.                                 *)
(***************************************************************************)
EXTENDS Integers, Sequences, FiniteSets

CONSTANTS
    Events,     \* the events GitHub may deliver: records of the fields below
    PageSize,   \* tasks per page of the listing
    MaxPages    \* pages of check runs that ListCheckRuns reads before it gives up

ASSUME PageAssumption == PageSize \in Nat \ {0} /\ MaxPages \in Nat \ {0}

\* An event has a kind ("status" or "check_suite"), ours (it is Taskcluster's),
\* completed, master, sender, only (the one task it is about, or NoTask) and
\* tasks, the task group as a sequence.  A task has an id, a browser, a state and
\* a suite: one of DOMAIN Side, or "stability" or "unrecognized".
NoTask == "no task"
Nobody == "nobody"
NoSide == "no side"

VARIABLES
    event,      \* the event this request delivers
    pc,         \* where the handler is
    listed,     \* how many tasks have been listed
    pages,      \* how many pages have been read
    array,      \* the array behind the slice labels
    step,       \* product |-> where its goroutine is
    at,         \* product |-> the index its loop has reached
    len,        \* product |-> the length of labelsForRun
    own,        \* product |-> its own array, once append had to copy
    body,       \* product |-> the labels joined into the request so far
    uploads,    \* the requests the results receiver got
    errors,     \* the products whose error is in the channel
    response    \* the status of the response (0 while there is none)

listVars   == <<listed, pages>>
workerVars == <<array, step, at, len, own, body>>
vars == <<event, pc, listVars, workerVars, uploads, errors, response>>

Init ==
    /\ event \in Events
    /\ pc = "received"
    /\ listed = 0
    /\ pages = 0
    /\ array = <<>>
    /\ step = <<>> /\ at = <<>> /\ len = <<>> /\ own = <<>> /\ body = <<>>
    /\ uploads = {}
    /\ errors = {}
    /\ response = 0

Respond(status) == pc' = "responded" /\ response' = status

-------------------------------------------------------------------------------
(* Which tasks count, and for which product. *)

\* The pull request side a task's suite stands for, as the product's last part.
Side == [tests |-> NoSide, results |-> "pr_head", without_changes |-> "pr_base"]

Product(task) == <<task.browser, Side[task.suite]>>

\* Stability checks, unrecognized names, and the tasks a status about a single
\* task does not name, are skipped.
Relevant(tasks) ==
    {t \in tasks : /\ event.only \in {NoTask, t.id}
                   /\ t.suite \notin {"stability", "unrecognized"}}

\* Mutation: a failed task only withholds its own URL.
ProductsDespiteFailures(tasks) ==
    {Product(t) : t \in {u \in Relevant(tasks) : u.state = "completed"}}

\* A product with any unsuccessful task is withheld altogether.
ProductsOf(tasks) ==
    {Product(t) : t \in Relevant(tasks)}
      \ {Product(t) : t \in {u \in Relevant(tasks) : u.state # "completed"}}

URLs(tasks, p) ==
    {t.id : t \in {u \in Relevant(tasks) : Product(u) = p /\ u.state = "completed"}}

Listed == {event.tasks[i] : i \in 1 .. listed}

EventLabels ==
    (IF event.master THEN {"master"} ELSE {})
      \union (IF event.sender = Nobody THEN {} ELSE {event.sender})

\* mapset.ToSlice: the labels in no particular order, capacity equal to length.
Arrangements(set) ==
    {s \in [1 .. Cardinality(set) -> set] : \A i, j \in DOMAIN s : s[i] = s[j] => i = j}

\* Task groups are sequences of such tasks; a sender's label is "user:" and a login.
ASSUME EventsAssumption ==
    \A e \in Events :
        /\ Len(e.tasks) \in Nat /\ DOMAIN e.tasks = 1 .. Len(e.tasks)
        /\ \A i \in DOMAIN e.tasks : e.tasks[i].suite \in DOMAIN Side \union {"stability", "unrecognized"}
        /\ e.sender # "master"

-------------------------------------------------------------------------------
(* The handler *)

\* Uninteresting events are ignored; a check suite that is not completed should
\* not have been delivered.
Receive ==
    /\ pc = "received"
    /\ IF ~event.ours \/ (event.kind = "status" /\ ~event.completed)
       THEN Respond(204)
       ELSE IF event.completed
            THEN pc' = "listing" /\ UNCHANGED response
            ELSE Respond(400)
    /\ UNCHANGED <<event, listVars, workerVars, uploads, errors>>

Reached == IF listed + PageSize < Len(event.tasks) THEN listed + PageSize ELSE Len(event.tasks)

\* Mutation: at the page limit the runs read so far are returned as if complete.
GiveUpQuietly == pc' = "extract" /\ UNCHANGED response

GiveUp == Respond(500)

\* GetTaskGroupInfo follows continuation tokens to the end; ListCheckRuns fails
\* when there are still more after MaxPages pages.  Any call may fail.
ListPage ==
    /\ pc = "listing"
    /\ \/ /\ listed' = Reached
          /\ pages' = pages + 1
          /\ IF Reached = Len(event.tasks)
             THEN pc' = "extract" /\ UNCHANGED response
             ELSE IF event.kind = "check_suite" /\ pages + 1 = MaxPages
                  THEN GiveUp
                  ELSE UNCHANGED <<pc, response>>
       \/ Respond(500) /\ UNCHANGED listVars
    /\ UNCHANGED <<event, workerVars, uploads, errors>>

\* A task without an ID, or a check suite without check runs, is an error; with
\* nothing to upload the answer is errNoResults.  The uploader's credentials may
\* be unavailable.
ExtractFails ==
    /\ pc = "extract"
    /\ \/ \E t \in Listed : t.id = NoTask
       \/ event.kind = "check_suite" /\ listed = 0
       \/ ProductsOf(Listed) # {}
    /\ Respond(500)
    /\ UNCHANGED <<event, listVars, workerVars, uploads, errors>>

NoResults ==
    /\ pc = "extract"
    /\ \A t \in Listed : t.id # NoTask
    /\ ~(event.kind = "check_suite" /\ listed = 0)
    /\ ProductsOf(Listed) = {}
    /\ Respond(204)
    /\ UNCHANGED <<event, listVars, workerVars, uploads, errors>>

CreateAllRuns ==
    /\ pc = "extract"
    /\ \A t \in Listed : t.id # NoTask
    /\ ProductsOf(Listed) # {}
    /\ array' \in Arrangements(EventLabels)
    /\ LET products == ProductsOf(Listed)
       IN  /\ step' = [p \in products |-> IF p[2] = NoSide THEN "join" ELSE "range"]
           /\ at'   = [p \in products |-> 1]
           /\ len'  = [p \in products |-> Cardinality(EventLabels)]
           /\ own'  = [p \in products |-> <<>>]
           /\ body' = [p \in products |-> {}]
    /\ pc' = "creating"
    /\ UNCHANGED <<event, listVars, uploads, errors, response>>

\* wg.Wait() has returned: the errors are collected, and any of them makes a 500.
Collect ==
    /\ pc = "creating"
    /\ \A p \in DOMAIN step : step[p] = "done"
    /\ Respond(IF errors = {} THEN 200 ELSE 500)
    /\ UNCHANGED <<event, listVars, workerVars, uploads, errors>>

-------------------------------------------------------------------------------
(* The goroutine of product p. *)

\* Mutation: the master label is not looked for.
StripNothing(p) ==
    /\ step[p] = "range"
    /\ step' = [step EXCEPT ![p] = "append"]
    /\ UNCHANGED <<event, pc, listVars, array, at, len, own, body, uploads, errors, response>>

\* for i, label := range labelsForRun: the first "master" is cut out by shifting
\* the labels after it to the left, in the array that all goroutines share.
StripMaster(p) ==
    /\ step[p] = "range"
    /\ IF at[p] > Len(array)
       THEN step' = [step EXCEPT ![p] = "append"] /\ UNCHANGED <<array, at, len>>
       ELSE IF array[at[p]] # "master"
       THEN at' = [at EXCEPT ![p] = @ + 1] /\ UNCHANGED <<array, step, len>>
       ELSE /\ array' = [i \in DOMAIN array |->
                           IF i \in at[p] .. (Len(array) - 1) THEN array[i + 1] ELSE array[i]]
            /\ len' = [len EXCEPT ![p] = Len(array) - 1]
            /\ step' = [step EXCEPT ![p] = "append"]
            /\ UNCHANGED at
    /\ UNCHANGED <<event, pc, listVars, own, body, uploads, errors, response>>

\* Mutation: the side's label is appended to a slice that is then dropped.
AppendNothing(p) ==
    /\ step[p] = "append"
    /\ step' = [step EXCEPT ![p] = "join"]
    /\ at' = [at EXCEPT ![p] = 1]
    /\ UNCHANGED <<event, pc, listVars, array, len, own, body, uploads, errors, response>>

\* append(labelsForRun, lastBit): within the capacity it writes into the shared
\* array, beyond it the labels are copied to an array of p's own.
AppendSide(p) ==
    /\ step[p] = "append"
    /\ IF len[p] < Len(array)
       THEN /\ array' = [array EXCEPT ![len[p] + 1] = p[2]]
            /\ UNCHANGED own
       ELSE /\ own' = [own EXCEPT ![p] = Append(array, p[2])]
            /\ UNCHANGED array
    /\ len' = [len EXCEPT ![p] = @ + 1]
    /\ at' = [at EXCEPT ![p] = 1]
    /\ step' = [step EXCEPT ![p] = "join"]
    /\ UNCHANGED <<event, pc, listVars, body, uploads, errors, response>>

\* strings.Join in CreateRun reads the labels one after the other.
Join(p) ==
    /\ step[p] = "join"
    /\ IF at[p] > len[p]
       THEN step' = [step EXCEPT ![p] = "post"] /\ UNCHANGED <<at, body>>
       ELSE /\ body' = [body EXCEPT ![p] =
                          @ \union {IF own[p] = <<>> THEN array[at[p]] ELSE own[p][at[p]]}]
            /\ at' = [at EXCEPT ![p] = @ + 1]
            /\ UNCHANGED step
    /\ UNCHANGED <<event, pc, listVars, array, len, own, uploads, errors, response>>

\* The POST to the results receiver succeeds, fails, or arrives although the
\* client sees it fail (a timeout).
Post(p) ==
    /\ step[p] = "post"
    /\ LET upload == [product |-> p, labels |-> body[p], results |-> URLs(Listed, p)]
       IN  \/ uploads' = uploads \union {upload} /\ UNCHANGED errors
           \/ uploads' \in {uploads, uploads \union {upload}} /\ errors' = errors \union {p}
    /\ step' = [step EXCEPT ![p] = "done"]
    /\ UNCHANGED <<event, pc, listVars, array, at, len, own, body, response>>

-------------------------------------------------------------------------------
Handler == Receive \/ ListPage \/ ExtractFails \/ NoResults \/ CreateAllRuns \/ Collect

Worker(p) == StripMaster(p) \/ AppendSide(p) \/ Join(p) \/ Post(p)

Next == Handler \/ \E p \in DOMAIN step : Worker(p)

Spec == Init /\ [][Next]_vars

\* The handler and its goroutines keep running: every call they make returns, the
\* uploads at the latest after the HTTP client's UploadTimeout.

-------------------------------------------------------------------------------
(* Properties *)

\* However the task group was listed, an upload carries all results of its product
\* in that group (or of the one task a status names), none of which failed, and a
\* product is uploaded once.
ReportsAreComplete ==
    \A u \in uploads :
        LET parts == {t \in {event.tasks[i] : i \in DOMAIN event.tasks} :
                         /\ event.only = NoTask \/ event.only = t.id
                         /\ t.suite \in DOMAIN Side
                         /\ Product(t) = u.product}
        IN  /\ u.results = {t.id : t \in parts}
            /\ \A t \in parts : t.state = "completed"
            /\ \A v \in uploads : v.product = u.product => v = u

\* No run of a pull request's changes or of their base is labelled "master", even
\* when Taskcluster tests the merged commit, whatever the goroutines do to the
\* labels they share.
NoPullRequestOnMaster ==
    \A u \in uploads : u.product[2] # NoSide => "master" \notin u.labels

\* Unless a group on master contains pull request suites, every run has exactly
\* the event's labels and that of its side.
LabelsAreExact ==
    (\A p \in DOMAIN step : ~(event.master /\ p[2] # NoSide)) =>
        \A u \in uploads : u.labels = EventLabels \union ({u.product[2]} \ {NoSide})

\* GitHub is told what happened: 200 means that every product of the group without
\* a failed task has been uploaded, and 204 and 400 that nothing has been.
AnswerIsTruthful ==
    /\ response = 200 => {u.product : u \in uploads} = ProductsOf(Listed)
                         /\ listed = Len(event.tasks)
    /\ response \in {204, 400} => uploads = {}

\* webhook.go:615: chrome-dev-pr_head => [chrome, dev, pr_head].  A run of one side
\* of a pull request has its side's label and not the other's, and a run of no side
\* has neither.
SidesDoNotMix ==
    \A u \in uploads : u.labels \intersect {"pr_head", "pr_base"} = {u.product[2]} \ {NoSide}

===============================================================================
