--------------------------- MODULE ResultsPipeline ----------------------------
(***************************************************************************)
(* From an upload to a TestRun: HandleResultsUpload and the API behind it  *)
(* (api/receiver), the task queue results-arrival, the instances of the    *)
(* results processor (results-processor/processor.py, main.py), and        *)
(* HandleResultsCreate, which they call back.                              *)
(*                                                                         *)
(* Nothing here is one transaction.  The queue delivers at least once, an  *)
(* instance may be restarted at any point, and a create call goes on in    *)
(* the web server when its caller is gone.                                 *)
(***************************************************************************)
EXTENDS Integers, FiniteSets

CONSTANTS
    IDs,        \* the IDs that ReserveID hands out: one for every upload
    Reports,    \* contents of valid reports: revision and checksum, so that a
                \* RawResultsURL is one of them
    Instances,  \* instances of the results processor
    MaxFaults   \* bound: crashes, failed and duplicated calls in a behaviour

ASSUME FaultsAssumption == MaxFaults \in Nat

None    == "none"
Invalid == "invalid report"    \* what load_report or finalize refuses

ASSUME NamesAssumption == None \notin IDs \union Reports /\ Invalid \notin Reports

\* PendingTestRunStage; 0 is that of an entity that does not exist yet.
Stage == [RECEIVED |-> 600, PROCESSING |-> 700, VALID |-> 800,
          INVALID |-> 850, EMPTY |-> 851, DUPLICATE |-> 852]

VARIABLES
    upload,   \* id |-> where the request that got this ID is
    content,  \* id |-> what its files say
    stage,    \* id |-> PendingTestRun.Stage
    task,     \* id |-> the task in results-arrival: "none", "queued" or "done"
    run,      \* id |-> the report its TestRun is about, or None
    pc,       \* instance |-> where its process_report is
    job,      \* instance |-> the ID it works on, or None
    call,     \* instance |-> where the web server is with its create call.  Bound:
              \* an instance makes no call before its previous one has ended
    called,   \* instance |-> the ID that call is about, or None
    faults,
    \* History, for the properties only.
    dropped,  \* IDs whose task was dropped because there is nothing to show
    raced,    \* reports created while another creation of theirs was under way
    deliveries  \* id |-> how often its task was delivered (2: more than once)

serverVars    == <<call, called>>
processorVars == <<pc, job>>
vars == <<upload, content, stage, task, run, processorVars, serverVars, faults,
          dropped, raced, deliveries>>

Init ==
    /\ upload = [id \in IDs |-> "unused"]
    /\ content = [id \in IDs |-> None]
    /\ stage = [id \in IDs |-> 0]
    /\ task = [id \in IDs |-> "none"]
    /\ run = [id \in IDs |-> None]
    /\ pc = [i \in Instances |-> "idle"]
    /\ job = [i \in Instances |-> None]
    /\ call = [i \in Instances |-> "none"]
    /\ called = [i \in Instances |-> None]
    /\ faults = 0
    /\ dropped = {}
    /\ raced = {}
    /\ deliveries = [id \in IDs |-> 0]

Fault == faults < MaxFaults /\ faults' = faults + 1

-------------------------------------------------------------------------------
(* PendingTestRun *)

\* Mutation: any stage may follow any other.
AnyTransition(id, next) == [stage EXCEPT ![id] = next]

Transition(id, next) == IF stage[id] > next THEN stage ELSE [stage EXCEPT ![id] = next]

\* PATCH /api/status/ID.  Whatever goes wrong is logged, and the processor goes on.
UpdateStatus(id, next) == stage' \in {stage, Transition(id, next)}

-------------------------------------------------------------------------------
(* The receiver: one upload *)

\* The request is accepted for processing and ReserveID gives it an ID.
ReserveID(id, c) ==
    /\ upload[id] = "unused"
    /\ upload' = [upload EXCEPT ![id] = "reserved"]
    /\ content' = [content EXCEPT ![id] = c]
    /\ UNCHANGED <<stage, task, run, processorVars, serverVars, faults, dropped, raced, deliveries>>

\* UpdatePendingTestRun; if it fails the uploader gets a 500.
MarkReceived(id) ==
    /\ upload[id] = "reserved"
    /\ \/ /\ stage' = Transition(id, Stage.RECEIVED)
          /\ upload' = [upload EXCEPT ![id] = "received"]
       \/ /\ upload' = [upload EXCEPT ![id] = "failed"]
          /\ UNCHANGED stage
    /\ UNCHANGED <<content, task, run, processorVars, serverVars, faults, dropped, raced, deliveries>>

\* ScheduleTask; it may fail (500), also after the task has been created.
ScheduleTask(id) ==
    /\ upload[id] = "received"
    /\ \/ /\ task' = [task EXCEPT ![id] = "queued"]
          /\ upload' = [upload EXCEPT ![id] = "accepted"]
       \/ /\ task' \in {task, [task EXCEPT ![id] = "queued"]}
          /\ upload' = [upload EXCEPT ![id] = "failed"]
    /\ UNCHANGED <<content, stage, run, processorVars, serverVars, faults, dropped, raced, deliveries>>

-------------------------------------------------------------------------------
(* process_report, in the one request at a time that _serial_task admits to an  *)
(* instance.  An answer below 300 takes the task off the queue; an exception, a *)
(* 503 or no answer leaves it there to be delivered again.                      *)

Goto(i, label) == pc' = [pc EXCEPT ![i] = label]

Attempts(id) == {i \in Instances : job[i] = id}

\* The queue delivers a task: normally when no other instance is at it.
Deliver(i, id) ==
    /\ task[id] = "queued"
    /\ pc[i] = "idle"
    /\ \/ Attempts(id) = {} /\ UNCHANGED faults
       \/ Attempts(id) # {} /\ Fault
    /\ job' = [job EXCEPT ![i] = id]
    /\ Goto(i, "start")
    /\ deliveries' = [deliveries EXCEPT ![id] = IF @ = 0 THEN 1 ELSE 2]
    /\ UNCHANGED <<upload, content, stage, task, run, serverVars, dropped, raced>>

\* Mutation: the instance's lock file stays locked after an attempt.
IdleStillLocked(i) == Goto(i, "locked") /\ job' = [job EXCEPT ![i] = None]

Idle(i) == Goto(i, "idle") /\ job' = [job EXCEPT ![i] = None]

\* Mutation: the task is acknowledged before its report is processed.
StartAcknowledging(i) ==
    /\ pc[i] = "start"
    /\ UpdateStatus(job[i], Stage.PROCESSING)
    /\ Goto(i, "download")
    /\ task' = [task EXCEPT ![job[i]] = "done"]
    /\ UNCHANGED <<upload, content, run, job, serverVars, faults, dropped, raced, deliveries>>

Start(i) ==
    /\ pc[i] = "start"
    /\ UpdateStatus(job[i], Stage.PROCESSING)
    /\ Goto(i, "download")
    /\ UNCHANGED <<upload, content, task, run, job, serverVars, faults, dropped, raced, deliveries>>

\* The task is answered, and done.
Return(i) == Idle(i) /\ task' = [task EXCEPT ![job[i]] = "done"]

\* Mutation: the attempt goes on after it has found nothing to download.
LoadGoingOn(i) ==
    /\ pc[i] = "download"
    /\ content[job[i]] \in Reports
    /\ stage' \in {stage, Transition(job[i], Stage.EMPTY)}
    /\ Goto(i, "check")
    /\ UNCHANGED <<upload, content, run, job, task, serverVars, faults, dropped, raced, deliveries>>

\* download, load_report and finalize: the results are there, or no file could be
\* downloaded, or the report is invalid.
Load(i) ==
    /\ pc[i] = "download"
    /\ \/ /\ content[job[i]] \in Reports
          /\ Goto(i, "check")
          /\ UNCHANGED <<stage, task, job, dropped>>
       \/ /\ UpdateStatus(job[i], Stage.EMPTY)
          /\ dropped' = dropped \union {job[i]}
          /\ Return(i)
       \/ /\ content[job[i]] = Invalid
          /\ UpdateStatus(job[i], Stage.INVALID)
          /\ dropped' = dropped \union {job[i]}
          /\ Return(i)
    /\ UNCHANGED <<upload, content, run, serverVars, faults, raced, deliveries>>

ExistingRun(c) == \E id \in IDs : run[id] = c

\* check_existing_run, before the upload to GCS and again after it.
CheckExisting(i, next) ==
    /\ IF ExistingRun(content[job[i]])
       THEN UpdateStatus(job[i], Stage.DUPLICATE) /\ Return(i)
       ELSE Goto(i, next) /\ UNCHANGED <<stage, task, job>>
    /\ UNCHANGED <<upload, content, run, serverVars, faults, dropped, raced, deliveries>>

Check(i) == pc[i] = "check" /\ CheckExisting(i, "upload")

\* upload_raw and upload_split.
UploadResults(i) ==
    /\ pc[i] = "upload"
    /\ Goto(i, "recheck")
    /\ UNCHANGED <<upload, content, stage, task, run, job, serverVars, faults, dropped, raced, deliveries>>

\* Mutation: there is no second check.
RecheckNothing(i) ==
    /\ pc[i] = "recheck"
    /\ Goto(i, "create")
    /\ UNCHANGED <<upload, content, stage, task, run, job, serverVars, faults, dropped, raced, deliveries>>

Recheck(i) == pc[i] = "recheck" /\ CheckExisting(i, "create")

\* create_run posts to /api/results/create.
CreateRun(i) ==
    /\ pc[i] = "create"
    /\ call[i] = "none"
    /\ call' = [call EXCEPT ![i] = "insert"]
    /\ called' = [called EXCEPT ![i] = job[i]]
    /\ Goto(i, "waiting")
    /\ UNCHANGED <<upload, content, stage, task, run, job, faults, dropped, raced, deliveries>>

\* The response arrives, and the processor goes on to the screenshots; an error
\* response is an exception.
Response(i) ==
    /\ pc[i] = "waiting"
    /\ call[i] \in {"created", "rejected"}
    /\ IF call[i] = "created"
       THEN Goto(i, "hooks") /\ UNCHANGED job
       ELSE Idle(i)
    /\ call' = [call EXCEPT ![i] = "none"]
    /\ called' = [called EXCEPT ![i] = None]
    /\ UNCHANGED <<upload, content, stage, task, run, faults, dropped, raced, deliveries>>

\* run_hooks; what the hooks throw is only printed.
Hooks(i) ==
    /\ pc[i] = "hooks"
    /\ Return(i)
    /\ UNCHANGED <<upload, content, stage, run, serverVars, faults, dropped, raced, deliveries>>

\* An exception (gsutil fails, a request fails) or a restart of the instance: the
\* attempt ends without an answer, the call it made does not.
Crash(i) ==
    /\ pc[i] # "idle"
    /\ Fault
    /\ Idle(i)
    /\ UNCHANGED <<upload, content, stage, task, run, serverVars, dropped, raced, deliveries>>

-------------------------------------------------------------------------------
(* HandleResultsCreate, for the call of instance i. *)

\* From the last check to the insertion, no other creation is noticed.
Creating(c) ==
    {id \in IDs : /\ content[id] = c
                  /\ \E i \in Instances : \/ pc[i] = "create" /\ job[i] = id
                                          \/ call[i] = "insert" /\ called[i] = id}

\* Mutation: the handler goes on after a failed insertion.
AddTestRunIgnoringErrors(i) ==
    /\ call[i] = "insert"
    /\ \/ /\ run[called[i]] = None
          /\ run' = [run EXCEPT ![called[i]] = content[called[i]]]
          /\ UNCHANGED faults
       \/ Fault /\ UNCHANGED run
    /\ call' = [call EXCEPT ![i] = "update"]
    /\ UNCHANGED <<upload, content, stage, task, processorVars, called, dropped, raced, deliveries>>

\* Mutation: the entity is put, whether it exists or not.
PutTestRun(i) ==
    /\ call[i] = "insert"
    /\ run' = [run EXCEPT ![called[i]] = content[called[i]]]
    /\ call' = [call EXCEPT ![i] = "update"]
    /\ raced' = IF Creating(content[called[i]]) = {called[i]}
                THEN raced ELSE raced \union {content[called[i]]}
    /\ UNCHANGED <<upload, content, stage, task, processorVars, called, faults, dropped, deliveries>>

\* AddTestRun inserts, in a transaction, an entity that must not exist yet; the
\* transaction may also fail.
AddTestRun(i) ==
    /\ call[i] = "insert"
    /\ \/ /\ run[called[i]] = None
          /\ run' = [run EXCEPT ![called[i]] = content[called[i]]]
          /\ call' = [call EXCEPT ![i] = "update"]
          /\ raced' = IF Creating(content[called[i]]) = {called[i]}
                      THEN raced ELSE raced \union {content[called[i]]}
          /\ UNCHANGED faults
       \/ /\ run[called[i]] # None
          /\ call' = [call EXCEPT ![i] = "rejected"]
          /\ UNCHANGED <<run, faults, raced>>
       \/ /\ Fault
          /\ call' = [call EXCEPT ![i] = "rejected"]
          /\ UNCHANGED <<run, raced>>
    /\ UNCHANGED <<upload, content, stage, task, processorVars, called, dropped, deliveries>>

\* The pending run becomes VALID; failing to say so is not an error.
MarkValid(i) ==
    /\ call[i] = "update"
    /\ UpdateStatus(called[i], Stage.VALID)
    /\ call' = [call EXCEPT ![i] = "created"]
    /\ UNCHANGED <<upload, content, task, run, processorVars, called, faults, dropped, raced, deliveries>>

\* Nobody waits for the response any more.
Orphaned(i) ==
    /\ pc[i] # "waiting"
    /\ call[i] \in {"created", "rejected"}
    /\ call' = [call EXCEPT ![i] = "none"]
    /\ called' = [called EXCEPT ![i] = None]
    /\ UNCHANGED <<upload, content, stage, task, run, processorVars, faults, dropped, raced, deliveries>>

-------------------------------------------------------------------------------
Receiver(id) ==
    \/ \E c \in Reports \union {Invalid} : ReserveID(id, c)
    \/ MarkReceived(id) \/ ScheduleTask(id)

Process(i) ==
    \/ Start(i) \/ Load(i) \/ Check(i) \/ UploadResults(i) \/ Recheck(i)
    \/ CreateRun(i) \/ Response(i) \/ Hooks(i)

Serve(i) == AddTestRun(i) \/ MarkValid(i) \/ Orphaned(i)

Next ==
    \/ \E id \in IDs : Receiver(id)
    \/ \E i \in Instances : Process(i) \/ Serve(i) \/ Crash(i)
    \/ \E i \in Instances, id \in IDs : Deliver(i, id)

Spec == Init /\ [][Next]_vars

\* The queue retries a task for 14 days, every request handler and every attempt
\* ends, and the instances are neither all stuck nor busy with other tasks for
\* ever.  Nothing obliges anybody to upload.
Fairness ==
    /\ \A id \in IDs : WF_vars(\E i \in Instances : Deliver(i, id) /\ Attempts(id) = {})
    /\ \A i \in Instances : WF_vars(Process(i)) /\ WF_vars(Serve(i))

FairSpec == Spec /\ Fairness

-------------------------------------------------------------------------------
(* Properties *)

\* The stage that the status page shows for a run is true of the results at that
\* time and from then on: VALID runs exist, the report of a DUPLICATE has a run
\* (perhaps its own: a retry finds what the first attempt created), an INVALID
\* report created none.  An EMPTY upload has no run either, nor ever gets one, if its
\* task was delivered once; a second delivery whose download fails (processor.py:390)
\* writes EMPTY over the VALID of a run that exists, for 851 is above 800.
StageIsJustified ==
    \A id \in IDs :
        /\ stage[id] = Stage.VALID => run[id] = content[id]
        /\ stage[id] = Stage.DUPLICATE => ExistingRun(content[id])
        /\ stage[id] = Stage.INVALID => run[id] = None /\ content[id] = Invalid
        /\ stage[id] = Stage.EMPTY => run[id] = None \/ deliveries[id] > 1
        /\ stage[id] >= Stage.PROCESSING => task[id] # "none"

\* Of the create calls for one ID, which repeated deliveries make and crashes leave to
\* run on, the web server tells at most one at a time that it has created the run: the
\* check and the put are one transaction (datastore_cloud.go:167).
CreatedOnce ==
    \A i, j \in Instances :
        i # j /\ call[i] \in {"update", "created"} /\ call[j] \in {"update", "created"}
            => called[i] # called[j]

\* A task leaves the queue only when its results are in Datastore, or when there
\* is nothing to put there: whatever crashes in between, they are not lost.
NoResultsLost ==
    \A id \in IDs : task[id] = "done" => ExistingRun(content[id]) \/ id \in dropped

\* Checking for an existing run is "only a best effort" (processor.py:110), but two
\* runs of one report come about only when two creations of it overlapped between
\* their second check and their insertion, not when two uploads to GCS did.
UniqueUnlessRaced ==
    \A id, other \in IDs :
        id # other /\ run[id] # None /\ run[id] = run[other] => run[id] \in raced

\* A pending run never goes back to an earlier stage, however late an update comes.
StageOnlyAdvances == [][\A id \in IDs : stage'[id] >= stage[id]]_vars

\* Every task is processed in the end, although attempts crash, are repeated, and
\* find the results of earlier attempts.
TasksFinish == \A id \in IDs : task[id] = "queued" ~> task[id] = "done"

===============================================================================
