-------------------------- MODULE ResultsPipelineProofs --------------------------
(* Results are not lost, stages are true and only advance, and runs are unique     *)
(* unless their creations raced, for any uploads, reports and instances and any    *)
(* number of faults.                                                               *)
EXTENDS ResultsPipeline, TLAPS

(* The inductive invariant *)

StageValues == {0, Stage.RECEIVED, Stage.PROCESSING, Stage.VALID, Stage.INVALID, Stage.EMPTY,
                Stage.DUPLICATE}

\* What the report is known to be good in.
PastLoading == {"check", "upload", "recheck", "create", "waiting", "hooks"}

PipelineTypes ==
    /\ upload \in [IDs -> {"unused", "reserved", "received", "accepted", "failed"}]
    /\ content \in [IDs -> Reports \union {Invalid, None}]
    /\ stage \in [IDs -> StageValues]
    /\ task \in [IDs -> {"none", "queued", "done"}]
    /\ run \in [IDs -> Reports \union {None}]
    /\ pc \in [Instances -> {"idle", "start", "download"} \union PastLoading]
    /\ job \in [Instances -> IDs \union {None}]
    /\ call \in [Instances -> {"none", "insert", "update", "created", "rejected"}]
    /\ called \in [Instances -> IDs \union {None}]
    /\ deliveries \in [IDs -> 0..2]

\* An upload has a content before it has a task, and a task before it has a run.
EntryInv(id) ==
    /\ upload[id] \in {"unused", "reserved", "received"} => task[id] = "none"
    /\ upload[id] # "unused" => content[id] # None
    /\ run[id] # None => run[id] = content[id] /\ task[id] # "none"

StageInv(id) ==
    /\ stage[id] = Stage.VALID => run[id] = content[id]
    /\ stage[id] = Stage.DUPLICATE => ExistingRun(content[id])
    /\ stage[id] = Stage.INVALID => run[id] = None /\ content[id] = Invalid
    /\ stage[id] >= Stage.PROCESSING => task[id] # "none"

\* A task that was delivered once has one attempt, which made the one call there is, and
\* has no run before that call; nothing is left of an attempt that found nothing to load.
OnceInv(id) ==
    deliveries[id] < 2 =>
        /\ \A i, j \in Instances : job[i] = id /\ job[j] = id => i = j
        /\ \A i, j \in Instances : job[i] = id /\ called[j] = id => i = j /\ pc[i] = "waiting"
        /\ \A i \in Instances : job[i] = id /\ pc[i] \notin {"waiting", "hooks"} => run[id] = None
        /\ deliveries[id] = 0 => stage[id] # Stage.EMPTY
        /\ deliveries[id] = 0 \/ stage[id] = Stage.EMPTY =>
              run[id] = None /\ \A i \in Instances : job[i] # id /\ called[i] # id

\* What an instance works on, and what it has called the web server for.
AttemptInv(i) ==
    /\ pc[i] = "idle" <=> job[i] = None
    /\ job[i] # None => task[job[i]] # "none"
    /\ pc[i] \in PastLoading => content[job[i]] \in Reports
    /\ pc[i] = "waiting" => called[i] = job[i]
    /\ pc[i] = "hooks" => run[job[i]] = content[job[i]]

CallInv(i) ==
    /\ call[i] = "none" <=> called[i] = None
    /\ called[i] # None => task[called[i]] # "none" /\ content[called[i]] \in Reports
    /\ call[i] \in {"update", "created"} => run[called[i]] = content[called[i]]

LostInv(id) == task[id] = "done" => ExistingRun(content[id]) \/ id \in dropped

\* i is between its last check and the insertion of id.
Creates(i, id) ==
    \/ pc[i] = "create" /\ job[i] = id
    \/ call[i] = "insert" /\ called[i] = id

\* What i still creates has no run, but its own or one that raced.
CreateInv(i, id) ==
    Creates(i, id) =>
        \A other \in IDs : run[other] = content[id] => other = id \/ content[id] \in raced

PipelineInv ==
    /\ PipelineTypes
    /\ \A id \in IDs : EntryInv(id) /\ StageInv(id) /\ LostInv(id) /\ OnceInv(id)
    /\ \A i \in Instances : AttemptInv(i) /\ CallInv(i) /\ \A id \in IDs : CreateInv(i, id)
    /\ UniqueUnlessRaced /\ CreatedOnce

-------------------------------------------------------------------------------
LEMMA InitHolds == Init => PipelineInv
<1> SUFFICES ASSUME Init PROVE PipelineInv
  OBVIOUS
<1>1. PipelineTypes
  BY DEF Init, PipelineTypes, StageValues
<1>2. ASSUME NEW id \in IDs PROVE EntryInv(id) /\ StageInv(id) /\ LostInv(id) /\ OnceInv(id)
  BY NamesAssumption DEF Init, EntryInv, StageInv, LostInv, OnceInv, Stage
<1>3. ASSUME NEW i \in Instances PROVE AttemptInv(i) /\ CallInv(i)
  BY DEF Init, AttemptInv, CallInv, PastLoading
<1>4. ASSUME NEW i \in Instances, NEW id \in IDs PROVE CreateInv(i, id)
  BY DEF Init, CreateInv, Creates
<1>5. UniqueUnlessRaced /\ CreatedOnce
  BY DEF Init, UniqueUnlessRaced, CreatedOnce
<1> QED BY <1>1, <1>2, <1>3, <1>4, <1>5 DEF PipelineInv

-------------------------------------------------------------------------------
(* What the parts of the actions do *)

\* A stage is kept or set, and never goes back (models.go:271).
LEMMA UpdateResult ==
    ASSUME PipelineTypes, NEW id \in IDs, NEW next \in StageValues, UpdateStatus(id, next)
    PROVE  /\ stage' \in [IDs -> StageValues]
           /\ stage'[id] \in {stage[id], next} /\ stage'[id] >= stage[id]
           /\ \A other \in IDs \ {id} : stage'[other] = stage[other]
<1>1. next \in Int /\ stage[id] \in Int
  BY DEF PipelineTypes, StageValues, Stage
<1>2. CASE stage' = stage
  BY <1>1, <1>2 DEF PipelineTypes
<1>3. CASE stage' = [stage EXCEPT ![id] = next] /\ ~ (stage[id] > next)
  BY <1>1, <1>3 DEF PipelineTypes
<1> QED BY <1>2, <1>3 DEF UpdateStatus, Transition

LEMMA GotoResult ==
    ASSUME PipelineTypes, NEW i \in Instances,
           NEW label \in {"idle", "start", "download"} \union PastLoading, Goto(i, label)
    PROVE  /\ pc' \in [Instances -> {"idle", "start", "download"} \union PastLoading]
           /\ pc'[i] = label /\ \A j \in Instances \ {i} : pc'[j] = pc[j]
BY DEF Goto, PipelineTypes

LEMMA IdleResult ==
    ASSUME PipelineTypes, NEW i \in Instances, Idle(i)
    PROVE  /\ pc' \in [Instances -> {"idle", "start", "download"} \union PastLoading]
           /\ job' \in [Instances -> IDs \union {None}]
           /\ pc'[i] = "idle" /\ job'[i] = None
           /\ \A j \in Instances \ {i} : pc'[j] = pc[j] /\ job'[j] = job[j]
<1>1. Goto(i, "idle") /\ job' = [job EXCEPT ![i] = None]
  BY DEF Idle
<1> QED BY <1>1, GotoResult DEF PipelineTypes

LEMMA ReturnResult ==
    ASSUME PipelineTypes, NEW i \in Instances, job[i] \in IDs, Return(i)
    PROVE  /\ task' \in [IDs -> {"none", "queued", "done"}]
           /\ task'[job[i]] = "done" /\ \A id \in IDs \ {job[i]} : task'[id] = task[id]
BY DEF Return, PipelineTypes

\* An instance that is not idle works on an upload, one that calls on the one of its call.
LEMMA JobIsUpload ==
    ASSUME PipelineInv, NEW i \in Instances
    PROVE  (pc[i] # "idle" => job[i] \in IDs) /\ (call[i] # "none" => called[i] \in IDs)
BY DEF PipelineInv, PipelineTypes, AttemptInv, CallInv

-------------------------------------------------------------------------------
(* Types *)

LEMMA TypesKept == ASSUME PipelineInv, [Next]_vars PROVE PipelineTypes'
<1> USE DEF serverVars, processorVars
<1>0. PipelineTypes
  BY DEF PipelineInv
<1>1. ASSUME NEW id \in IDs, Receiver(id) PROVE PipelineTypes'
  <2>1. CASE \E c \in Reports \union {Invalid} : ReserveID(id, c)
    BY <1>0, <2>1 DEF ReserveID, PipelineTypes
  <2>2. CASE MarkReceived(id)
    <3>1. stage' = Transition(id, Stage.RECEIVED) \/ stage' = stage
      BY <2>2 DEF MarkReceived
    <3>2. stage' \in [IDs -> StageValues]
      BY <1>0, <3>1 DEF Transition, PipelineTypes, StageValues
    <3> QED BY <1>0, <2>2, <3>2 DEF MarkReceived, PipelineTypes
  <2>3. CASE ScheduleTask(id)
    BY <1>0, <2>3 DEF ScheduleTask, PipelineTypes
  <2> QED BY <1>1, <2>1, <2>2, <2>3 DEF Receiver
<1>2. ASSUME NEW i \in Instances, Start(i) PROVE PipelineTypes'
  <2>1. stage' \in [IDs -> StageValues]
    BY <1>0, <1>2, JobIsUpload, UpdateResult DEF Start, StageValues
  <2>2. pc' \in [Instances -> {"idle", "start", "download"} \union PastLoading]
    BY <1>0, <1>2, GotoResult DEF Start
  <2> QED BY <1>0, <1>2, <2>1, <2>2 DEF Start, PipelineTypes
<1>3. ASSUME NEW i \in Instances, job[i] \in IDs, Return(i)
      PROVE  /\ pc' \in [Instances -> {"idle", "start", "download"} \union PastLoading]
             /\ job' \in [Instances -> IDs \union {None}]
             /\ task' \in [IDs -> {"none", "queued", "done"}]
  BY <1>0, <1>3, IdleResult, ReturnResult DEF Return
<1>4. ASSUME NEW i \in Instances, Load(i) PROVE PipelineTypes'
  <2>1. job[i] \in IDs
    BY <1>4, JobIsUpload DEF Load
  <2>2. stage' \in [IDs -> StageValues]
    BY <1>0, <1>4, <2>1, UpdateResult DEF Load, StageValues, PipelineTypes
  <2>3. /\ pc' \in [Instances -> {"idle", "start", "download"} \union PastLoading]
        /\ job' \in [Instances -> IDs \union {None}] /\ task' \in [IDs -> {"none", "queued", "done"}]
    <3>1. CASE Goto(i, "check") /\ UNCHANGED <<task, job>>
      BY <1>0, <3>1, GotoResult DEF PastLoading, PipelineTypes
    <3>2. CASE Return(i)
      BY <1>3, <2>1, <3>2
    <3> QED BY <1>4, <3>1, <3>2 DEF Load
  <2> QED BY <1>0, <1>4, <2>2, <2>3 DEF Load, PipelineTypes
<1>5. ASSUME NEW i \in Instances, NEW next \in PastLoading, pc[i] # "idle", CheckExisting(i, next)
      PROVE  PipelineTypes'
  <2>1. job[i] \in IDs
    BY <1>5, JobIsUpload
  <2>2. stage' \in [IDs -> StageValues]
    BY <1>0, <1>5, <2>1, UpdateResult DEF CheckExisting, StageValues, PipelineTypes
  <2>3. /\ pc' \in [Instances -> {"idle", "start", "download"} \union PastLoading]
        /\ job' \in [Instances -> IDs \union {None}] /\ task' \in [IDs -> {"none", "queued", "done"}]
    <3>1. CASE Goto(i, next) /\ UNCHANGED <<task, job>>
      BY <1>0, <3>1, GotoResult DEF PipelineTypes
    <3>2. CASE Return(i)
      BY <1>3, <2>1, <3>2
    <3> QED BY <1>5, <3>1, <3>2 DEF CheckExisting
  <2> QED BY <1>0, <1>5, <2>2, <2>3 DEF CheckExisting, PipelineTypes
<1>6. ASSUME NEW i \in Instances, UploadResults(i) PROVE PipelineTypes'
  BY <1>0, <1>6, GotoResult DEF UploadResults, PipelineTypes, PastLoading
<1>7. ASSUME NEW i \in Instances, CreateRun(i) PROVE PipelineTypes'
  <2>1. pc' \in [Instances -> {"idle", "start", "download"} \union PastLoading]
    BY <1>0, <1>7, GotoResult DEF CreateRun, PastLoading
  <2> QED BY <1>0, <1>7, <2>1 DEF CreateRun, PipelineTypes
<1>8. ASSUME NEW i \in Instances, Response(i) PROVE PipelineTypes'
  <2>1. /\ pc' \in [Instances -> {"idle", "start", "download"} \union PastLoading]
        /\ job' \in [Instances -> IDs \union {None}]
    <3>1. CASE Goto(i, "hooks") /\ UNCHANGED job
      BY <1>0, <3>1, GotoResult DEF PastLoading, PipelineTypes
    <3>2. CASE Idle(i)
      BY <1>0, <3>2, IdleResult
    <3> QED BY <1>8, <3>1, <3>2 DEF Response
  <2> QED BY <1>0, <1>8, <2>1 DEF Response, PipelineTypes
<1>9. ASSUME NEW i \in Instances, Hooks(i) PROVE PipelineTypes'
  <2>1. job[i] \in IDs
    BY <1>9, JobIsUpload DEF Hooks
  <2> QED BY <1>0, <1>3, <1>9, <2>1 DEF Hooks, PipelineTypes
<1>10. ASSUME NEW i \in Instances, Crash(i) PROVE PipelineTypes'
  BY <1>0, <1>10, IdleResult DEF Crash, PipelineTypes
<1>11. ASSUME NEW i \in Instances, AddTestRun(i) PROVE PipelineTypes'
  <2>1. called[i] \in IDs
    BY <1>11, JobIsUpload DEF AddTestRun
  <2>2. run' \in [IDs -> Reports \union {None}]
    <3>1. content[called[i]] \in Reports
      BY <1>11, <2>1, NamesAssumption DEF PipelineInv, CallInv, AddTestRun
    <3> QED BY <1>0, <1>11, <2>1, <3>1 DEF AddTestRun, PipelineTypes
  <2>3. call' \in [Instances -> {"none", "insert", "update", "created", "rejected"}]
    BY <1>0, <1>11 DEF AddTestRun, PipelineTypes
  <2> QED BY <1>0, <1>11, <2>2, <2>3 DEF AddTestRun, PipelineTypes
<1>12. ASSUME NEW i \in Instances, MarkValid(i) PROVE PipelineTypes'
  <2>1. stage' \in [IDs -> StageValues]
    BY <1>0, <1>12, JobIsUpload, UpdateResult DEF MarkValid, StageValues
  <2> QED BY <1>0, <1>12, <2>1 DEF MarkValid, PipelineTypes
<1>13. ASSUME NEW i \in Instances, Orphaned(i) PROVE PipelineTypes'
  BY <1>0, <1>13 DEF Orphaned, PipelineTypes
<1>14. ASSUME NEW i \in Instances, NEW id \in IDs, Deliver(i, id) PROVE PipelineTypes'
  <2>1. pc' \in [Instances -> {"idle", "start", "download"} \union PastLoading]
    BY <1>0, <1>14, GotoResult DEF Deliver
  <2>2. deliveries' \in [IDs -> 0..2]
    BY <1>0, <1>14 DEF Deliver, PipelineTypes
  <2>3. job' \in [Instances -> IDs \union {None}]
    BY <1>0, <1>14 DEF Deliver, PipelineTypes
  <2> QED BY <1>0, <1>14, <2>1, <2>2, <2>3 DEF Deliver, PipelineTypes
<1>15. CASE UNCHANGED vars
  BY <1>0, <1>15 DEF vars, PipelineTypes
<1>16. ASSUME NEW i \in Instances, Check(i) \/ Recheck(i) PROVE PipelineTypes'
  BY <1>5, <1>16 DEF Check, Recheck, PastLoading
<1> QED BY <1>1, <1>2, <1>4, <1>6, <1>7, <1>8, <1>9, <1>10, <1>11, <1>12, <1>13, <1>14, <1>15,
           <1>16 DEF Next, Process, Serve

-------------------------------------------------------------------------------
(* What lasts *)

LEMMA ContentStays ==
    ASSUME PipelineInv, [Next]_vars, NEW id \in IDs, upload[id] # "unused"
    PROVE  upload'[id] # "unused" /\ content'[id] = content[id]
<1>1. ASSUME NEW other \in IDs, Receiver(other) PROVE upload'[id] # "unused" /\ content'[id] = content[id]
  BY <1>1 DEF Receiver, ReserveID, MarkReceived, ScheduleTask, PipelineInv, PipelineTypes
<1>2. CASE UNCHANGED <<upload, content>>
  BY <1>2
<1> QED BY <1>1, <1>2 DEF Next, Process, Serve, Start, Load, Check, CheckExisting, UploadResults,
           Recheck, CreateRun, Response, Hooks, Crash, Deliver, AddTestRun, MarkValid, Orphaned, vars

\* A task is created by its upload and ended by an attempt that returns.
LEMMA TaskStep ==
    ASSUME PipelineInv, [Next]_vars, NEW id \in IDs
    PROVE  \/ task'[id] = task[id]
           \/ ScheduleTask(id) /\ task'[id] = "queued"
           \/ task'[id] = "done" /\ \E i \in Instances : job[i] = id /\ pc[i] # "idle" /\ Return(i) /\ Process(i)
<1>1. ASSUME NEW i \in Instances, pc[i] # "idle", Return(i), Process(i)
      PROVE  \/ task'[id] = task[id]
             \/ task'[id] = "done" /\ \E j \in Instances : job[j] = id /\ pc[j] # "idle" /\ Return(j) /\ Process(j)
  BY <1>1, JobIsUpload, ReturnResult DEF PipelineInv
<1>2. ASSUME NEW other \in IDs, Receiver(other)
      PROVE  task'[id] = task[id] \/ (ScheduleTask(id) /\ task'[id] = "queued")
  <2>1. CASE ScheduleTask(other)
    <3>1. task' = task \/ task' = [task EXCEPT ![other] = "queued"]
      BY <2>1 DEF ScheduleTask
    <3> QED BY <2>1, <3>1 DEF PipelineInv, PipelineTypes
  <2>2. CASE UNCHANGED task
    BY <2>2
  <2> QED BY <1>2, <2>1, <2>2 DEF Receiver, ReserveID, MarkReceived
<1>3. CASE UNCHANGED task
  BY <1>3
<1>4. ASSUME NEW i \in Instances, Process(i) PROVE UNCHANGED task \/ (pc[i] # "idle" /\ Return(i))
  BY <1>4 DEF Process, Start, Load, Check, CheckExisting, UploadResults, Recheck, CreateRun, Response, Hooks
<1> QED BY <1>1, <1>2, <1>3, <1>4 DEF Next, Serve, Crash, Deliver, AddTestRun, MarkValid, Orphaned, vars

LEMMA TaskStays ==
    ASSUME PipelineInv, [Next]_vars, NEW id \in IDs, task[id] # "none"
    PROVE  task'[id] # "none" /\ content'[id] = content[id] /\ content[id] # None
BY TaskStep, ContentStays DEF PipelineInv, EntryInv

\* A run is inserted by a call, where there is none.
LEMMA RunStep ==
    ASSUME PipelineInv, [Next]_vars
    PROVE  \/ run' = run /\ raced' = raced
           \/ \E i \in Instances :
                 /\ AddTestRun(i) /\ called[i] \in IDs /\ run[called[i]] = None
                 /\ run' = [run EXCEPT ![called[i]] = content[called[i]]]
                 /\ raced' = IF Creating(content[called[i]]) = {called[i]}
                             THEN raced ELSE raced \union {content[called[i]]}
<1>1. ASSUME NEW i \in Instances, AddTestRun(i)
      PROVE  \/ run' = run /\ raced' = raced
             \/ /\ called[i] \in IDs /\ run[called[i]] = None
                /\ run' = [run EXCEPT ![called[i]] = content[called[i]]]
                /\ raced' = IF Creating(content[called[i]]) = {called[i]}
                            THEN raced ELSE raced \union {content[called[i]]}
  <2>1. called[i] \in IDs
    BY <1>1, JobIsUpload DEF AddTestRun
  <2> QED BY <1>1, <2>1 DEF AddTestRun
<1>2. CASE UNCHANGED <<run, raced>>
  BY <1>2
<1> QED BY <1>1, <1>2 DEF Next, Receiver, ReserveID, MarkReceived, ScheduleTask, Process, Serve, Start,
           Load, Check, CheckExisting, UploadResults, Recheck, CreateRun, Response, Hooks, Crash,
           Deliver, MarkValid, Orphaned, vars

LEMMA RunStays ==
    ASSUME PipelineInv, [Next]_vars, NEW id \in IDs, run[id] # None
    PROVE  run'[id] = run[id]
BY RunStep DEF PipelineInv, PipelineTypes

LEMMA ExistingStays ==
    ASSUME PipelineInv, [Next]_vars, NEW c \in Reports \union {Invalid}, ExistingRun(c)
    PROVE  \E other \in IDs : run'[other] = c
<1>1. PICK other \in IDs : run[other] = c
  BY DEF ExistingRun
<1>2. c # None
  BY NamesAssumption DEF None, Invalid
<1> QED BY <1>1, <1>2, RunStays

LEMMA DroppedStays == ASSUME [Next]_vars PROVE dropped \subseteq dropped'
BY DEF Next, Receiver, ReserveID, MarkReceived, ScheduleTask, Process, Serve, Start, Load, Check,
       CheckExisting, UploadResults, Recheck, CreateRun, Response, Hooks, Crash, Deliver, AddTestRun,
       MarkValid, Orphaned, vars

\* Who sets a stage, and what is the case then.
LEMMA StageStep ==
    ASSUME PipelineInv, [Next]_vars, NEW id \in IDs
    PROVE  /\ stage'[id] >= stage[id]
           /\ \/ stage'[id] = stage[id]
              \/ stage'[id] = Stage.RECEIVED
              \/ /\ task[id] # "none"
                 /\ \/ stage'[id] = Stage.PROCESSING
                    \/ stage'[id] = Stage.EMPTY /\ \E i \in Instances : Load(i) /\ job[i] = id /\ Return(i)
                    \/ stage'[id] = Stage.INVALID /\ content[id] = Invalid
                    \/ stage'[id] = Stage.DUPLICATE /\ ExistingRun(content[id])
                    \/ stage'[id] = Stage.VALID /\ run[id] = content[id]
<1>0. PipelineTypes /\ stage[id] \in Int
  BY DEF PipelineInv, PipelineTypes, StageValues, Stage
<1> DEFINE Goal == /\ stage'[id] >= stage[id]
                   /\ \/ stage'[id] = stage[id]
                      \/ stage'[id] = Stage.RECEIVED
                      \/ /\ task[id] # "none"
                         /\ \/ stage'[id] = Stage.PROCESSING
                            \/ stage'[id] = Stage.EMPTY /\ \E i \in Instances : Load(i) /\ job[i] = id /\ Return(i)
                            \/ stage'[id] = Stage.INVALID /\ content[id] = Invalid
                            \/ stage'[id] = Stage.DUPLICATE /\ ExistingRun(content[id])
                            \/ stage'[id] = Stage.VALID /\ run[id] = content[id]
<1>1. CASE UNCHANGED stage
  BY <1>0, <1>1
<1>2. ASSUME NEW other \in IDs, MarkReceived(other) PROVE Goal
  <2>1. \/ stage' = stage
        \/ stage' = [stage EXCEPT ![other] = Stage.RECEIVED] /\ ~ (stage[other] > Stage.RECEIVED)
    BY <1>2 DEF MarkReceived, Transition
  <2>2. stage'[id] = stage[id] \/ (stage'[id] = Stage.RECEIVED /\ ~ (stage[id] > Stage.RECEIVED))
    BY <1>0, <2>1 DEF PipelineTypes
  <2> QED BY <1>0, <2>2 DEF Stage
<1>3. ASSUME NEW i \in Instances, NEW next \in StageValues, job[i] \in IDs, UpdateStatus(job[i], next)
      PROVE  /\ stage'[id] >= stage[id]
             /\ stage'[id] = stage[id] \/ (id = job[i] /\ stage'[id] = next)
  BY <1>0, <1>3, UpdateResult
<1>4. ASSUME NEW i \in Instances, pc[i] # "idle" PROVE job[i] \in IDs /\ task[job[i]] # "none"
  BY <1>4, JobIsUpload, NamesAssumption DEF PipelineInv, AttemptInv
<1>5. ASSUME NEW i \in Instances, Start(i) PROVE Goal
  BY <1>3, <1>4, <1>5 DEF Start, StageValues
<1>6. ASSUME NEW i \in Instances, Load(i) PROVE Goal
  BY <1>1, <1>3, <1>4, <1>6 DEF Load, StageValues
<1>7. ASSUME NEW i \in Instances, Check(i) \/ Recheck(i) PROVE Goal
  BY <1>1, <1>3, <1>4, <1>7 DEF Check, Recheck, CheckExisting, StageValues
<1>8. ASSUME NEW i \in Instances, MarkValid(i) PROVE Goal
  <2>1. called[i] \in IDs /\ task[called[i]] # "none" /\ run[called[i]] = content[called[i]]
    BY <1>8, JobIsUpload, NamesAssumption DEF MarkValid, PipelineInv, CallInv
  <2>2. /\ stage'[id] >= stage[id]
        /\ stage'[id] = stage[id] \/ (id = called[i] /\ stage'[id] = Stage.VALID)
    BY <1>0, <1>8, <2>1, UpdateResult DEF MarkValid, StageValues
  <2> QED BY <2>1, <2>2
<1> QED BY <1>1, <1>2, <1>5, <1>6, <1>7, <1>8 DEF Next, Receiver, ReserveID, ScheduleTask, Process,
           Serve, UploadResults, CreateRun, Response, Hooks, Crash, Deliver, AddTestRun, Orphaned, vars

-------------------------------------------------------------------------------
(* Uploads, stages and what must not be lost *)

LEMMA EntryKept ==
    ASSUME PipelineInv, [Next]_vars, NEW id \in IDs
    PROVE  EntryInv(id)'
<1>1. EntryInv(id) /\ PipelineTypes
  BY DEF PipelineInv
<1>2. upload'[id] \in {"unused", "reserved", "received"} =>
          upload[id] \in {"unused", "reserved", "received"} /\ ~ ScheduleTask(id)
  <2>1. ASSUME NEW other \in IDs, Receiver(other)
        PROVE  upload'[id] \in {"unused", "reserved", "received"} =>
                  upload[id] \in {"unused", "reserved", "received"} /\ ~ ScheduleTask(id)
    BY <1>1, <2>1 DEF Receiver, ReserveID, MarkReceived, ScheduleTask, PipelineTypes
  <2>2. CASE UNCHANGED upload
    BY <1>1, <2>2 DEF ScheduleTask, PipelineTypes
  <2> QED BY <2>1, <2>2 DEF Next, Process, Serve, Start, Load, Check, CheckExisting, UploadResults,
             Recheck, CreateRun, Response, Hooks, Crash, Deliver, AddTestRun, MarkValid, Orphaned, vars
<1>3. upload'[id] \in {"unused", "reserved", "received"} => task'[id] = "none"
  <2>1. ASSUME task[id] = "none", NEW i \in Instances, job[i] = id PROVE FALSE
    BY <2>1, NamesAssumption DEF PipelineInv, AttemptInv
  <2> QED BY <1>1, <1>2, <2>1, TaskStep DEF EntryInv
<1>4. upload'[id] # "unused" => content'[id] # None
  <2>1. CASE upload[id] # "unused"
    BY <1>1, <2>1, ContentStays DEF EntryInv
  <2>2. ASSUME NEW other \in IDs, upload[id] = "unused", Receiver(other)
        PROVE  upload'[id] # "unused" => content'[id] # None
    <3>1. ASSUME NEW c \in Reports \union {Invalid}, ReserveID(other, c)
          PROVE  upload'[id] # "unused" => content'[id] # None
      <4>1. c # None
        BY NamesAssumption DEF None, Invalid
      <4> QED BY <1>1, <2>2, <3>1, <4>1 DEF ReserveID, PipelineTypes
    <3>2. CASE MarkReceived(other) \/ ScheduleTask(other)
      BY <1>1, <2>2, <3>2 DEF MarkReceived, ScheduleTask, PipelineTypes
    <3> QED BY <2>2, <3>1, <3>2 DEF Receiver
  <2>3. CASE upload[id] = "unused" /\ UNCHANGED upload
    BY <2>3
  <2> QED BY <2>1, <2>2, <2>3 DEF Next, Process, Serve, Start, Load, Check, CheckExisting, UploadResults,
             Recheck, CreateRun, Response, Hooks, Crash, Deliver, AddTestRun, MarkValid, Orphaned, vars
<1>5. run'[id] # None => run'[id] = content'[id] /\ task'[id] # "none"
  <2>1. CASE run[id] # None
    BY <1>1, <2>1, RunStays, TaskStays DEF EntryInv
  <2>2. ASSUME NEW i \in Instances, called[i] = id, run'[id] = content[id], AddTestRun(i)
        PROVE  run'[id] = content'[id] /\ task'[id] # "none"
    <3>1. task[id] # "none"
      BY <2>2, NamesAssumption DEF PipelineInv, CallInv
    <3> QED BY <2>2, <3>1, TaskStays
  <2>3. CASE run[id] = None
    <3>1. CASE run'[id] = run[id]
      BY <2>3, <3>1
    <3>2. ASSUME NEW i \in Instances, AddTestRun(i), called[i] \in IDs,
                 run' = [run EXCEPT ![called[i]] = content[called[i]]]
          PROVE  run'[id] = run[id] \/ (called[i] = id /\ run'[id] = content[id])
      BY <1>1, <3>2 DEF PipelineTypes
    <3> QED BY <2>2, <2>3, <3>1, <3>2, RunStep
  <2> QED BY <2>1, <2>3
<1> QED BY <1>3, <1>4, <1>5 DEF EntryInv

\* Nobody creates a run of what is invalid.
LEMMA InvalidStaysOut ==
    ASSUME PipelineInv, [Next]_vars, NEW id \in IDs, content[id] = Invalid, run[id] = None
    PROVE  run'[id] = None
<1>1. ASSUME NEW i \in Instances, AddTestRun(i), called[i] \in IDs PROVE content[called[i]] \in Reports
  BY <1>1, NamesAssumption DEF PipelineInv, CallInv, AddTestRun
<1>2. CASE run' = run
  BY <1>2
<1>3. ASSUME NEW i \in Instances, AddTestRun(i), called[i] \in IDs,
             run' = [run EXCEPT ![called[i]] = content[called[i]]]
      PROVE  run'[id] = None
  BY <1>1, <1>3, NamesAssumption DEF PipelineInv, PipelineTypes
<1> QED BY <1>2, <1>3, RunStep

LEMMA StageKept ==
    ASSUME PipelineInv, [Next]_vars, NEW id \in IDs
    PROVE  StageInv(id)'
<1>1. StageInv(id) /\ PipelineTypes /\ EntryInv(id)
  BY DEF PipelineInv
<1>2. CASE task[id] = "none"
  <2>1. stage[id] \in {0, Stage.RECEIVED}
    BY <1>1, <1>2 DEF StageInv, PipelineTypes, StageValues, Stage
  <2>2. stage'[id] \in {0, Stage.RECEIVED}
    BY <1>2, <2>1, StageStep
  <2> QED BY <2>2 DEF StageInv, Stage
<1>3. CASE task[id] # "none"
  <2>1. /\ task'[id] # "none" /\ content'[id] = content[id]
        /\ content[id] \in Reports \union {Invalid}
    BY <1>1, <1>3, TaskStays DEF PipelineTypes
  <2>2. run[id] = content[id] => run'[id] = content'[id]
    BY <1>3, <2>1, RunStays, TaskStays
  <2>3. ExistingRun(content[id]) => ExistingRun(content[id])'
    BY <2>1, ExistingStays DEF ExistingRun
  <2>4. run[id] = None /\ content[id] = Invalid => run'[id] = None
    BY InvalidStaysOut
  <2>5. content[id] = Invalid => run[id] = None
    <3>1. Invalid # None
      BY DEF None, Invalid
    <3>2. run[id] \in Reports \union {None}
      BY <1>1 DEF PipelineTypes
    <3> QED BY <1>1, <3>1, <3>2, NamesAssumption DEF EntryInv
  <2>7. CASE stage'[id] = stage[id]
    BY <1>1, <2>1, <2>2, <2>3, <2>4, <2>7 DEF StageInv
  <2>8. CASE stage'[id] \in {Stage.RECEIVED, Stage.PROCESSING}
    BY <2>1, <2>8 DEF StageInv, Stage
  <2>9. CASE stage'[id] = Stage.EMPTY
    BY <2>1, <2>9 DEF StageInv, Stage
  <2>10. CASE stage'[id] = Stage.INVALID /\ content[id] = Invalid
    BY <2>1, <2>4, <2>5, <2>10 DEF StageInv, Stage
  <2>11. CASE stage'[id] = Stage.DUPLICATE /\ ExistingRun(content[id])
    BY <2>1, <2>3, <2>11 DEF StageInv, Stage
  <2>12. CASE stage'[id] = Stage.VALID /\ run[id] = content[id]
    BY <2>1, <2>2, <2>12 DEF StageInv, Stage
  <2> QED BY <2>7, <2>8, <2>9, <2>10, <2>11, <2>12, StageStep
<1> QED BY <1>2, <1>3

\* An attempt that returns has seen a run of its report, or dropped it.
LEMMA LostKept ==
    ASSUME PipelineInv, [Next]_vars, NEW id \in IDs
    PROVE  LostInv(id)'
<1>1. PipelineTypes /\ LostInv(id)
  BY DEF PipelineInv
<1>2. CASE task[id] = "done"
  <2>1. content'[id] = content[id] /\ content[id] \in Reports \union {Invalid}
    BY <1>1, <1>2, TaskStays DEF PipelineTypes
  <2> QED BY <1>1, <1>2, <2>1, ExistingStays, DroppedStays DEF LostInv, ExistingRun
<1>3. ASSUME NEW i \in Instances, job[i] = id, pc[i] # "idle", Return(i), Process(i)
      PROVE  LostInv(id)'
  <2>1. task[id] # "none"
    BY <1>3, NamesAssumption DEF PipelineInv, AttemptInv
  <2>2. content'[id] = content[id] /\ content[id] \in Reports \union {Invalid}
    BY <1>1, <2>1, TaskStays DEF PipelineTypes
  <2>3. pc'[i] = "idle"
    BY <1>1, <1>3, IdleResult DEF Return
  <2>4. ExistingRun(content[id]) \/ id \in dropped'
    <3>1. CASE Load(i)
      BY <1>1, <1>3, <2>3, <3>1, GotoResult DEF Load, PastLoading
    <3>2. CASE Check(i) \/ Recheck(i)
      BY <1>1, <1>3, <2>3, <3>2, GotoResult DEF Check, Recheck, CheckExisting, PastLoading
    <3>3. CASE Hooks(i)
      BY <1>3, <3>3 DEF Hooks, PipelineInv, AttemptInv, ExistingRun
    <3>4. CASE Start(i) \/ UploadResults(i) \/ CreateRun(i)
      BY <1>1, <2>3, <3>4, GotoResult DEF Start, UploadResults, CreateRun, PastLoading
    <3>5. CASE Response(i)
      <4>1. task' = task
        BY <3>5 DEF Response
      <4>2. task'[id] = "done"
        BY <1>1, <1>3, ReturnResult
      <4> QED BY <1>1, <4>1, <4>2, DroppedStays DEF LostInv
    <3> QED BY <1>3, <3>1, <3>2, <3>3, <3>4, <3>5 DEF Process
  <2> QED BY <2>2, <2>4, ExistingStays DEF LostInv, ExistingRun
<1>4. CASE task'[id] # "done"
  BY <1>4 DEF LostInv
<1> QED BY <1>2, <1>3, <1>4, TaskStep

-------------------------------------------------------------------------------
(* Attempts, calls and creations *)

LEMMA AttemptKept ==
    ASSUME PipelineInv, [Next]_vars, NEW i \in Instances
    PROVE  AttemptInv(i)'
<1>1. PipelineTypes /\ AttemptInv(i) /\ CallInv(i)
  BY DEF PipelineInv
<1>2. \A id \in IDs : task[id] # "none" => task'[id] # "none" /\ content'[id] = content[id]
  BY TaskStays
<1>3. \A id \in IDs : run[id] \in Reports => run'[id] = run[id]
  BY RunStays, NamesAssumption
<1>4. None \notin IDs
  BY NamesAssumption
<1>5. ASSUME pc'[i] = pc[i], job'[i] = job[i], called'[i] = called[i] \/ pc[i] # "waiting"
      PROVE  AttemptInv(i)'
  BY <1>1, <1>2, <1>3, <1>5 DEF AttemptInv, PipelineTypes, PastLoading
<1>6. ASSUME Idle(i) PROVE AttemptInv(i)'
  BY <1>1, <1>6, IdleResult DEF AttemptInv, PastLoading
\* The attempt goes on with its upload.
<1>7. ASSUME pc[i] # "idle", job'[i] = job[i], pc'[i] \in {"download"} \union PastLoading,
             pc'[i] \in PastLoading => content[job[i]] \in Reports,
             pc'[i] = "waiting" => called'[i] = job[i],
             pc'[i] = "hooks" => run[job[i]] = content[job[i]]
      PROVE  AttemptInv(i)'
  BY <1>1, <1>2, <1>3, <1>4, <1>7 DEF AttemptInv, PipelineTypes, PastLoading
<1>8. CASE Start(i)
  BY <1>1, <1>7, <1>8, GotoResult DEF Start, PastLoading
<1>9. CASE Load(i)
  BY <1>1, <1>6, <1>7, <1>9, GotoResult DEF Load, Return, PastLoading
<1>10. CASE Check(i)
  BY <1>1, <1>6, <1>7, <1>10, GotoResult DEF Check, CheckExisting, Return, PastLoading, AttemptInv
<1>11. CASE Recheck(i)
  BY <1>1, <1>6, <1>7, <1>11, GotoResult DEF Recheck, CheckExisting, Return, PastLoading, AttemptInv
<1>12. CASE UploadResults(i)
  BY <1>1, <1>7, <1>12, GotoResult DEF UploadResults, PastLoading, AttemptInv
<1>13. CASE CreateRun(i)
  <2>1. pc'[i] = "waiting" /\ job' = job /\ called'[i] = job[i]
    BY <1>1, <1>13, GotoResult DEF CreateRun, PastLoading, PipelineTypes
  <2> QED BY <1>1, <1>7, <1>13, <2>1 DEF CreateRun, AttemptInv, PastLoading
<1>14. CASE Response(i)
  <2>1. CASE call[i] = "created" /\ Goto(i, "hooks") /\ UNCHANGED job
    <3>1. pc'[i] = "hooks"
      BY <1>1, <2>1, GotoResult DEF PastLoading
    <3>2. pc[i] = "waiting"
      BY <1>14 DEF Response
    <3>3. called[i] = job[i] /\ content[job[i]] \in Reports
      BY <1>1, <3>2 DEF AttemptInv, PastLoading
    <3>4. run[job[i]] = content[job[i]]
      BY <1>1, <2>1, <3>3 DEF CallInv
    <3> QED BY <1>7, <2>1, <3>1, <3>2, <3>3, <3>4 DEF PastLoading
  <2> QED BY <1>6, <1>14, <2>1 DEF Response
<1>15. CASE Hooks(i) \/ Crash(i)
  BY <1>6, <1>15 DEF Hooks, Crash, Return
<1>16. ASSUME NEW id \in IDs, Deliver(i, id) PROVE AttemptInv(i)'
  <2>1. pc'[i] = "start" /\ job'[i] = id /\ task[id] # "none"
    BY <1>1, <1>16, GotoResult DEF Deliver, PipelineTypes
  <2> QED BY <1>2, <1>4, <2>1 DEF AttemptInv, PastLoading
\* The others leave it alone.
<1>17. ASSUME NEW j \in Instances \ {i},
              Process(j) \/ Crash(j) \/ \E id \in IDs : Deliver(j, id)
       PROVE  pc'[i] = pc[i] /\ job'[i] = job[i] /\ called'[i] = called[i]
  BY <1>1, <1>17 DEF Process, Start, Load, Check, CheckExisting, UploadResults, Recheck, CreateRun,
     Response, Hooks, Crash, Deliver, Return, Idle, Goto, PipelineTypes, serverVars
<1>18. ASSUME NEW j \in Instances, Serve(j)
       PROVE  pc' = pc /\ job' = job /\ (called'[i] = called[i] \/ pc[i] # "waiting")
  BY <1>1, <1>18 DEF Serve, AddTestRun, MarkValid, Orphaned, PipelineTypes, processorVars
<1>19. CASE UNCHANGED <<pc, job, called>>
  BY <1>5, <1>19
<1> QED BY <1>5, <1>8, <1>9, <1>10, <1>11, <1>12, <1>13, <1>14, <1>15, <1>16, <1>17, <1>18, <1>19
        DEF Next, Process, Receiver, ReserveID, MarkReceived, ScheduleTask, vars, processorVars, serverVars

LEMMA CallKept ==
    ASSUME PipelineInv, [Next]_vars, NEW i \in Instances
    PROVE  CallInv(i)'
<1>1. PipelineTypes /\ AttemptInv(i) /\ CallInv(i)
  BY DEF PipelineInv
<1>2. \A id \in IDs : task[id] # "none" => task'[id] # "none" /\ content'[id] = content[id]
  BY TaskStays
<1>3. \A id \in IDs : run[id] \in Reports => run'[id] = run[id]
  BY RunStays, NamesAssumption
<1>4. None \notin IDs
  BY NamesAssumption
<1>5. ASSUME called'[i] = called[i], call'[i] = call[i] \/ (call[i] # "none" /\ call'[i] = "rejected")
      PROVE  CallInv(i)'
  BY <1>1, <1>2, <1>3, <1>5 DEF CallInv, PipelineTypes
<1>6. ASSUME called'[i] = None, call'[i] = "none" PROVE CallInv(i)'
  BY <1>6 DEF CallInv
<1>7. CASE CreateRun(i)
  <2>1. job[i] \in IDs /\ task[job[i]] # "none" /\ content[job[i]] \in Reports
    BY <1>1, <1>7, JobIsUpload DEF CreateRun, AttemptInv, PastLoading
  <2>2. call'[i] = "insert" /\ called'[i] = job[i]
    BY <1>1, <1>7 DEF CreateRun, PipelineTypes
  <2> QED BY <1>2, <1>4, <2>1, <2>2 DEF CallInv
<1>8. CASE Response(i) \/ Orphaned(i)
  BY <1>1, <1>6, <1>8 DEF Response, Orphaned, PipelineTypes
<1>9. CASE AddTestRun(i)
  <2>1. called' = called /\ called[i] \in IDs
    BY <1>9, JobIsUpload DEF AddTestRun
  <2>2. CASE call'[i] = "rejected"
    BY <1>5, <1>9, <2>1, <2>2 DEF AddTestRun
  <2>3. CASE run' = [run EXCEPT ![called[i]] = content[called[i]]] /\ call' = [call EXCEPT ![i] = "update"]
    <3>1. run'[called[i]] = content[called[i]] /\ call'[i] = "update"
      BY <1>1, <2>1, <2>3 DEF PipelineTypes
    <3> QED BY <1>1, <1>2, <1>4, <2>1, <3>1 DEF CallInv
  <2> QED BY <1>1, <1>9, <2>2, <2>3 DEF AddTestRun, PipelineTypes
<1>10. CASE MarkValid(i)
  <2>1. called' = called /\ call[i] = "update" /\ call'[i] = "created"
    BY <1>1, <1>10 DEF MarkValid, PipelineTypes
  <2> QED BY <1>1, <1>2, <1>3, <2>1 DEF CallInv, PipelineTypes
<1>11. ASSUME NEW j \in Instances \ {i}, CreateRun(j) \/ Response(j) \/ Serve(j)
       PROVE  called'[i] = called[i] /\ call'[i] = call[i]
  BY <1>1, <1>11 DEF CreateRun, Response, Serve, AddTestRun, MarkValid, Orphaned, PipelineTypes
<1>12. CASE UNCHANGED serverVars
  BY <1>5, <1>12 DEF serverVars
<1> QED BY <1>5, <1>7, <1>8, <1>9, <1>10, <1>11, <1>12
        DEF Next, Process, Serve, Receiver, ReserveID, MarkReceived, ScheduleTask, Start, Load, Check,
            CheckExisting, UploadResults, Recheck, Hooks, Crash, Deliver, vars

\* A creation begins with a check that finds no run of the report.
LEMMA WhoCreates ==
    ASSUME PipelineInv, [Next]_vars, NEW i \in Instances, NEW id \in IDs, Creates(i, id)'
    PROVE  \/ Creates(i, id)
           \/ run' = run /\ content' = content /\ ~ ExistingRun(content[id])
<1>1. PipelineTypes
  BY DEF PipelineInv
<1>2. CASE Recheck(i)
  <2>1. CASE ExistingRun(content[job[i]])
    <3>1. pc'[i] = "idle" /\ call' = call /\ called' = called
      BY <1>1, <1>2, <2>1, IdleResult DEF Recheck, CheckExisting, Return, serverVars
    <3> QED BY <3>1 DEF Creates
  <2>2. CASE ~ ExistingRun(content[job[i]])
    <3>1. job' = job /\ call' = call /\ called' = called /\ run' = run /\ content' = content
      BY <1>2, <2>2 DEF Recheck, CheckExisting, serverVars
    <3> QED BY <2>2, <3>1 DEF Creates
  <2> QED BY <2>1, <2>2
<1>3. ASSUME NEW label \in {"start", "download", "check", "upload"},
             Goto(i, label), call' = call, called' = called
      PROVE  Creates(i, id)
  BY <1>1, <1>3, GotoResult DEF Creates, PastLoading
<1>4. ASSUME Idle(i), call'[i] = call[i] \/ call'[i] = "none", called'[i] = called[i] \/ called'[i] = None
      PROVE  Creates(i, id)
  BY <1>1, <1>4, IdleResult, NamesAssumption DEF Creates
<1>5. CASE Start(i)
  BY <1>3, <1>5 DEF Start, serverVars
<1>6. CASE Load(i)
  BY <1>3, <1>4, <1>6 DEF Load, Return, serverVars
<1>7. CASE Check(i)
  BY <1>3, <1>4, <1>7 DEF Check, CheckExisting, Return, serverVars
<1>8. CASE UploadResults(i)
  BY <1>1, <1>8, GotoResult DEF UploadResults, Creates, PastLoading, serverVars
<1>9. CASE CreateRun(i)
  BY <1>1, <1>9, GotoResult DEF CreateRun, Creates, PastLoading, PipelineTypes
<1>10. CASE Response(i)
  <2>1. call'[i] = "none" /\ pc'[i] \in {"hooks", "idle"}
    BY <1>1, <1>10, GotoResult, IdleResult DEF Response, PastLoading, PipelineTypes
  <2> QED BY <2>1 DEF Creates
<1>11. CASE Hooks(i) \/ Crash(i)
  BY <1>4, <1>11 DEF Hooks, Crash, Return, serverVars
<1>12. ASSUME NEW other \in IDs, Deliver(i, other) PROVE Creates(i, id)
  BY <1>3, <1>12 DEF Deliver, serverVars
<1>13. CASE Serve(i)
  BY <1>1, <1>13 DEF Serve, AddTestRun, MarkValid, Orphaned, Creates, PipelineTypes, processorVars
<1>14. ASSUME pc'[i] = pc[i], job'[i] = job[i], call'[i] = call[i], called'[i] = called[i]
       PROVE  Creates(i, id)
  BY <1>14 DEF Creates
<1>15. ASSUME NEW j \in Instances \ {i},
              Process(j) \/ Crash(j) \/ Serve(j) \/ \E other \in IDs : Deliver(j, other)
       PROVE  pc'[i] = pc[i] /\ job'[i] = job[i] /\ call'[i] = call[i] /\ called'[i] = called[i]
  BY <1>1, <1>15 DEF Process, Start, Load, Check, CheckExisting, UploadResults, Recheck, CreateRun,
     Response, Hooks, Crash, Deliver, Serve, AddTestRun, MarkValid, Orphaned, Return, Idle, Goto,
     PipelineTypes, serverVars, processorVars
<1> QED BY <1>2, <1>5, <1>6, <1>7, <1>8, <1>9, <1>10, <1>11, <1>12, <1>13, <1>14, <1>15
        DEF Next, Process, Receiver, ReserveID, MarkReceived, ScheduleTask, vars, processorVars, serverVars

LEMMA RacedStays == ASSUME PipelineInv, [Next]_vars PROVE raced \subseteq raced'
BY RunStep

LEMMA CreateKept ==
    ASSUME PipelineInv, [Next]_vars, NEW i \in Instances, NEW id \in IDs
    PROVE  CreateInv(i, id)'
<1> SUFFICES ASSUME Creates(i, id)', NEW other \in IDs, run'[other] = content'[id]
             PROVE  other = id \/ content'[id] \in raced'
  BY DEF CreateInv
<1>1. PipelineTypes
  BY DEF PipelineInv
<1>2. CASE run' = run /\ content' = content /\ ~ ExistingRun(content[id])
  BY <1>2 DEF ExistingRun
<1>3. CASE Creates(i, id)
  <2>1. task[id] # "none"
    BY <1>3, NamesAssumption DEF Creates, PipelineInv, AttemptInv, CallInv
  <2>2. content'[id] = content[id]
    BY <2>1, TaskStays
  <2>3. CASE run'[other] = run[other]
    BY <1>3, <2>2, <2>3, RacedStays DEF PipelineInv, CreateInv
  <2>4. ASSUME NEW j \in Instances, called[j] = other, run'[other] = content[other],
               raced' = IF Creating(content[other]) = {other} THEN raced ELSE raced \union {content[other]}
        PROVE  other = id \/ content'[id] \in raced'
    <3>1. id \in Creating(content[other])
      BY <1>3, <2>2, <2>4 DEF Creating, Creates
    <3> QED BY <2>2, <2>4, <3>1
  <2>5. ASSUME NEW j \in Instances, called[j] \in IDs, run' = [run EXCEPT ![called[j]] = content[called[j]]]
        PROVE  run'[other] = run[other] \/ (called[j] = other /\ run'[other] = content[other])
    BY <1>1, <2>5 DEF PipelineTypes
  <2> QED BY <2>3, <2>4, <2>5, RunStep
<1> QED BY <1>2, <1>3, WhoCreates

LEMMA UniqueKept == ASSUME PipelineInv, [Next]_vars PROVE UniqueUnlessRaced'
<1> SUFFICES ASSUME NEW id \in IDs, NEW other \in IDs, id # other, run'[id] # None, run'[id] = run'[other]
             PROVE  run'[id] \in raced'
  BY DEF UniqueUnlessRaced
<1>1. PipelineTypes /\ UniqueUnlessRaced
  BY DEF PipelineInv
<1>2. CASE run' = run
  BY <1>1, <1>2, RacedStays DEF UniqueUnlessRaced
<1>3. ASSUME NEW i \in Instances, AddTestRun(i), called[i] \in IDs, run[called[i]] = None,
             run' = [run EXCEPT ![called[i]] = content[called[i]]]
      PROVE  run'[id] \in raced'
  <2>1. /\ run'[called[i]] = content[called[i]]
        /\ \A x \in IDs \ {called[i]} : run'[x] = run[x]
    BY <1>1, <1>3 DEF PipelineTypes
  <2>2. CreateInv(i, called[i]) /\ Creates(i, called[i])
    BY <1>3 DEF PipelineInv, AddTestRun, Creates
  <2>3. CASE id # called[i] /\ other # called[i]
    BY <1>1, <2>1, <2>3, RacedStays DEF UniqueUnlessRaced
  <2>4. CASE id = called[i]
    BY <2>1, <2>2, <2>4, RacedStays DEF CreateInv
  <2>5. CASE other = called[i]
    BY <2>1, <2>2, <2>5, RacedStays DEF CreateInv
  <2> QED BY <2>3, <2>4, <2>5
<1> QED BY <1>2, <1>3, RunStep

-------------------------------------------------------------------------------
(* Tasks that are delivered once *)

Before == {"start", "download", "check", "upload", "recheck", "create"}

\* How far an attempt and its call get in a step.
LEMMA AttemptStep ==
    ASSUME PipelineInv, [Next]_vars, NEW i \in Instances
    PROVE  \/ pc'[i] = pc[i] /\ job'[i] = job[i] /\ called'[i] \in {called[i], None}
           \/ pc'[i] = "idle" /\ job'[i] = None /\ called'[i] \in {called[i], None}
           \/ /\ pc[i] \in Before /\ pc'[i] \in Before
              /\ job'[i] = job[i] /\ called'[i] = called[i]
           \/ /\ CreateRun(i) /\ pc[i] = "create" /\ pc'[i] = "waiting"
              /\ job'[i] = job[i] /\ called'[i] = job[i]
           \/ /\ pc[i] = "waiting" /\ pc'[i] = "hooks"
              /\ job'[i] = job[i] /\ called'[i] = None
           \/ \E id \in IDs : Deliver(i, id) /\ pc'[i] = "start" /\ job'[i] = id /\ called'[i] = called[i]
<1>1. PipelineTypes
  BY DEF PipelineInv
<1>2. CASE Start(i)
  BY <1>1, <1>2, GotoResult DEF Start, Before, PastLoading, serverVars
<1>3. CASE Load(i)
  BY <1>1, <1>3, GotoResult, IdleResult DEF Load, Return, Before, PastLoading, serverVars
<1>4. CASE Check(i)
  BY <1>1, <1>4, GotoResult, IdleResult DEF Check, CheckExisting, Return, Before, PastLoading, serverVars
<1>5. CASE Recheck(i)
  BY <1>1, <1>5, GotoResult, IdleResult DEF Recheck, CheckExisting, Return, Before, PastLoading, serverVars
<1>6. CASE UploadResults(i)
  BY <1>1, <1>6, GotoResult DEF UploadResults, Before, PastLoading, serverVars
<1>7. CASE CreateRun(i)
  <2>1. pc'[i] = "waiting" /\ job'[i] = job[i] /\ called'[i] = job[i]
    BY <1>1, <1>7, GotoResult DEF CreateRun, PastLoading, PipelineTypes
  <2> QED BY <1>7, <2>1 DEF CreateRun
<1>8. CASE Response(i)
  <2>1. called'[i] = None
    BY <1>1, <1>8 DEF Response, PipelineTypes
  <2> QED BY <1>1, <1>8, <2>1, GotoResult, IdleResult DEF Response, PastLoading
<1>9. CASE Hooks(i) \/ Crash(i)
  BY <1>1, <1>9, IdleResult DEF Hooks, Crash, Return, serverVars
<1>10. CASE \E id \in IDs : Deliver(i, id)
  <2>1. PICK id \in IDs : Deliver(i, id)
    BY <1>10
  <2>2. pc'[i] = "start" /\ job'[i] = id /\ called'[i] = called[i]
    BY <1>1, <2>1, GotoResult DEF Deliver, PipelineTypes, serverVars
  <2> QED BY <2>1, <2>2
<1>11. ASSUME NEW j \in Instances, Serve(j)
       PROVE  pc' = pc /\ job' = job /\ called'[i] \in {called[i], None}
  BY <1>1, <1>11 DEF Serve, AddTestRun, MarkValid, Orphaned, PipelineTypes, processorVars
<1>12. ASSUME NEW j \in Instances \ {i},
              Process(j) \/ Crash(j) \/ \E id \in IDs : Deliver(j, id)
       PROVE  pc'[i] = pc[i] /\ job'[i] = job[i] /\ called'[i] = called[i]
  BY <1>1, <1>12 DEF Process, Start, Load, Check, CheckExisting, UploadResults, Recheck, CreateRun,
     Response, Hooks, Crash, Deliver, Return, Idle, Goto, PipelineTypes, serverVars
<1>13. CASE UNCHANGED <<pc, job, called>>
  BY <1>13
<1> QED BY <1>2, <1>3, <1>4, <1>5, <1>6, <1>7, <1>8, <1>9, <1>10, <1>11, <1>12, <1>13
        DEF Next, Process, Receiver, ReserveID, MarkReceived, ScheduleTask, vars, processorVars, serverVars

\* Deliveries are counted, and nothing else is.
LEMMA DeliveriesStep ==
    ASSUME PipelineInv, [Next]_vars, NEW id \in IDs
    PROVE  \/ deliveries'[id] = deliveries[id] /\ \A i \in Instances : ~ Deliver(i, id)
           \/ /\ deliveries'[id] = IF deliveries[id] = 0 THEN 1 ELSE 2
              /\ UNCHANGED <<stage, run, called>>
              /\ \E i \in Instances : Deliver(i, id) /\ job' = [job EXCEPT ![i] = id] /\ Goto(i, "start")
<1>1. PipelineTypes
  BY DEF PipelineInv
<1>2. CASE \E i \in Instances : Deliver(i, id)
  BY <1>1, <1>2 DEF Deliver, PipelineTypes, serverVars
<1>3. ASSUME NEW i \in Instances, NEW other \in IDs \ {id}, Deliver(i, other)
      PROVE  deliveries'[id] = deliveries[id]
  BY <1>1, <1>3 DEF Deliver, PipelineTypes
<1>4. deliveries'[id] = deliveries[id] \/ \E i \in Instances : Deliver(i, id)
  BY <1>3 DEF Next, Receiver, ReserveID, MarkReceived, ScheduleTask, Process, Serve, Start,
     Load, Check, CheckExisting, UploadResults, Recheck, CreateRun, Response, Hooks, Crash, AddTestRun,
     MarkValid, Orphaned, vars
<1> QED BY <1>2, <1>4

LEMMA OnceKept ==
    ASSUME PipelineInv, [Next]_vars, NEW id \in IDs
    PROVE  OnceInv(id)'
<1>1. PipelineTypes /\ OnceInv(id) /\ None \notin IDs
  BY NamesAssumption DEF PipelineInv
<1> SUFFICES ASSUME deliveries'[id] < 2 PROVE OnceInv(id)'
  BY DEF OnceInv
\* The first delivery.
<1>2. ASSUME NEW i \in Instances, deliveries'[id] = (IF deliveries[id] = 0 THEN 1 ELSE 2),
             UNCHANGED <<stage, run, called>>, job' = [job EXCEPT ![i] = id], Goto(i, "start")
      PROVE  OnceInv(id)'
  <2>1. deliveries[id] = 0 /\ deliveries'[id] = 1
    BY <1>2
  <2>2. /\ stage[id] # Stage.EMPTY /\ run[id] = None
        /\ \A j \in Instances : job[j] # id /\ called[j] # id
    BY <1>1, <2>1 DEF OnceInv
  <2>3. \A j \in Instances : job'[j] = id => j = i
    BY <1>1, <1>2, <2>2 DEF PipelineTypes
  <2> QED BY <1>2, <2>1, <2>2, <2>3 DEF OnceInv
\* No delivery.
<1>3. ASSUME deliveries'[id] = deliveries[id], \A i \in Instances : ~ Deliver(i, id)
      PROVE  OnceInv(id)'
  <2>1. /\ \A i, j \in Instances : job[i] = id /\ job[j] = id => i = j
        /\ \A i, j \in Instances : job[i] = id /\ called[j] = id => i = j /\ pc[i] = "waiting"
        /\ \A i \in Instances : job[i] = id /\ pc[i] \notin {"waiting", "hooks"} => run[id] = None
        /\ deliveries[id] = 0 => stage[id] # Stage.EMPTY
        /\ deliveries[id] = 0 \/ stage[id] = Stage.EMPTY =>
              run[id] = None /\ \A i \in Instances : job[i] # id /\ called[i] # id
    BY <1>1, <1>3 DEF OnceInv
  <2>2. ASSUME NEW i \in Instances, job'[i] = id
        PROVE  /\ job[i] = id
               /\ \/ pc'[i] = pc[i] /\ called'[i] \in {called[i], None}
                  \/ pc[i] \in Before /\ pc'[i] \in Before /\ called'[i] = called[i]
                  \/ pc[i] \in Before /\ pc'[i] = "waiting"
                  \/ pc[i] = "waiting" /\ pc'[i] = "hooks" /\ called'[i] = None
    <3>1. ASSUME NEW other \in IDs, Deliver(i, other), job'[i] = other PROVE FALSE
      BY <1>3, <2>2, <3>1
    <3> QED BY <1>1, <2>2, <3>1, AttemptStep DEF Before
  <2>3. ASSUME NEW j \in Instances, called'[j] = id
        PROVE  \/ called[j] = id
               \/ job[j] = id /\ job'[j] = id /\ pc[j] = "create" /\ pc'[j] = "waiting" /\ CreateRun(j)
    BY <1>1, <2>3, AttemptStep
  <2>4. \A i, j \in Instances : job'[i] = id /\ job'[j] = id => i = j
    BY <2>1, <2>2
  <2>5. ASSUME NEW i \in Instances, NEW j \in Instances, job'[i] = id, called'[j] = id
        PROVE  i = j /\ pc'[i] = "waiting"
    <3>1. CASE called[j] = id
      BY <1>1, <2>1, <2>2, <2>5, <3>1 DEF Before
    <3>2. CASE job[j] = id /\ pc'[j] = "waiting"
      BY <2>1, <2>2, <2>5, <3>2
    <3> QED BY <2>3, <2>5, <3>1, <3>2
  <2>6. run'[id] = run[id] \/ \E j \in Instances : called[j] = id /\ AddTestRun(j)
    <3>1. ASSUME NEW j \in Instances, run' = [run EXCEPT ![called[j]] = content[called[j]]], called[j] \in IDs
          PROVE  run'[id] = run[id] \/ called[j] = id
      BY <1>1, <3>1 DEF PipelineTypes
    <3> QED BY <3>1, RunStep
  <2>7. ASSUME NEW i \in Instances, job'[i] = id, pc'[i] \notin {"waiting", "hooks"}
        PROVE  run'[id] = None
    <3>1. job[i] = id /\ pc[i] \notin {"waiting", "hooks"}
      BY <2>2, <2>7 DEF Before
    <3>2. \A j \in Instances : called[j] # id
      BY <2>1, <3>1
    <3> QED BY <2>1, <2>6, <3>1, <3>2
  <2>8. stage'[id] = Stage.EMPTY =>
            \/ stage[id] = Stage.EMPTY
            \/ \E i \in Instances : Load(i) /\ job[i] = id /\ Return(i)
    BY StageStep DEF Stage
  <2>9. ASSUME deliveries[id] = 0 \/ stage[id] = Stage.EMPTY
        PROVE  run'[id] = None /\ \A i \in Instances : job'[i] # id /\ called'[i] # id
    <3>1. run[id] = None /\ \A i \in Instances : job[i] # id /\ called[i] # id
      BY <2>1, <2>9
    <3> QED BY <2>2, <2>3, <2>6, <3>1
  <2>10. ASSUME NEW i \in Instances, Load(i), job[i] = id, Return(i)
         PROVE  /\ run'[id] = None /\ \A j \in Instances : job'[j] # id /\ called'[j] # id
                /\ deliveries[id] # 0
    <3>1. pc[i] = "download" /\ run' = run /\ called' = called
      BY <2>10 DEF Load, serverVars
    <3>2. run[id] = None /\ \A j \in Instances : called[j] # id
      BY <2>1, <2>10, <3>1
    <3>3. job'[i] = None
      BY <1>1, <2>10, IdleResult DEF Return
    <3>4. \A j \in Instances : job'[j] # id
      BY <1>1, <2>1, <2>2, <2>10, <3>3
    <3> QED BY <2>1, <2>10, <3>1, <3>2, <3>4
  <2> QED BY <1>3, <2>1, <2>4, <2>5, <2>7, <2>8, <2>9, <2>10 DEF OnceInv
<1> QED BY <1>2, <1>3, DeliveriesStep

\* A call inserts a run where there is none, so where no other call has.
LEMMA CreatedOnceKept == ASSUME PipelineInv, [Next]_vars PROVE CreatedOnce'
<1>1. PipelineTypes /\ CreatedOnce /\ \A i \in Instances : CallInv(i)
  BY DEF PipelineInv
<1> DEFINE Said(i) == call[i] \in {"update", "created"}
<1>2. ASSUME NEW i \in Instances, Said(i)
      PROVE  run[called[i]] # None
  BY <1>1, <1>2, NamesAssumption DEF CallInv
<1>3. ASSUME NEW i \in Instances, Said(i)'
      PROVE  called'[i] = called[i] /\ (Said(i) \/ (AddTestRun(i) /\ run[called[i]] = None))
  <2>1. CASE AddTestRun(i) \/ MarkValid(i)
    BY <1>1, <1>3, <2>1 DEF AddTestRun, MarkValid, PipelineTypes
  <2>2. CASE CreateRun(i) \/ Response(i) \/ Orphaned(i)
    BY <1>1, <1>3, <2>2 DEF CreateRun, Response, Orphaned, PipelineTypes
  <2>3. ASSUME NEW j \in Instances \ {i}, CreateRun(j) \/ Response(j) \/ Serve(j)
        PROVE  called'[i] = called[i] /\ call'[i] = call[i]
    BY <1>1, <2>3 DEF CreateRun, Response, Serve, AddTestRun, MarkValid, Orphaned, PipelineTypes
  <2>4. CASE UNCHANGED serverVars
    BY <1>3, <2>4 DEF serverVars
  <2> QED BY <1>3, <2>1, <2>2, <2>3, <2>4
          DEF Next, Process, Serve, Receiver, ReserveID, MarkReceived, ScheduleTask, Start, Load, Check,
              CheckExisting, UploadResults, Recheck, Hooks, Crash, Deliver, vars
<1>4. ASSUME NEW i \in Instances, NEW j \in Instances \ {i}, AddTestRun(i), Said(j)' PROVE Said(j)
  BY <1>1, <1>4 DEF AddTestRun, PipelineTypes
<1>5. ASSUME NEW i \in Instances, NEW j \in Instances, i # j, Said(i)', Said(j)'
      PROVE  called'[i] # called'[j]
  BY <1>1, <1>2, <1>3, <1>4, <1>5 DEF CreatedOnce
<1> QED BY <1>5 DEF CreatedOnce

-------------------------------------------------------------------------------
\* The inductive invariant of the pipeline: what an upload, an attempt and a call to the web
\* server have come to, and what a creation under way relies on.
THEOREM PipelineInvariant == Spec => []PipelineInv
<1>1. PipelineInv /\ [Next]_vars => PipelineInv'
  <2> SUFFICES ASSUME PipelineInv, [Next]_vars PROVE PipelineInv'
    OBVIOUS
  <2>1. \A id \in IDs : (EntryInv(id) /\ StageInv(id) /\ LostInv(id) /\ OnceInv(id))'
    BY EntryKept, StageKept, LostKept, OnceKept
  <2>2. \A i \in Instances : (AttemptInv(i) /\ CallInv(i) /\ \A id \in IDs : CreateInv(i, id))'
    BY AttemptKept, CallKept, CreateKept
  <2> QED BY <2>1, <2>2, TypesKept, UniqueKept, CreatedOnceKept DEF PipelineInv
<1> QED BY <1>1, InitHolds, PTL DEF Spec

\* The stage on the status page (PATCH /api/status, processor.py:332) is true of the results;
\* an upload shown as EMPTY has no run, unless its task was delivered again.
THEOREM StagesAreTrue == Spec => []StageIsJustified
<1>1. PipelineInv => StageIsJustified
  BY DEF PipelineInv, PipelineTypes, StageInv, OnceInv, StageIsJustified
<1> QED BY <1>1, PipelineInvariant, PTL

\* However attempts crash and are repeated (main.py:112), a task leaves the queue only when its
\* report has a run or nothing to show.
THEOREM ResultsAreKept == Spec => []NoResultsLost
<1>1. PipelineInv => NoResultsLost
  BY DEF PipelineInv, LostInv, NoResultsLost
<1> QED BY <1>1, PipelineInvariant, PTL

\* Two runs of a report come only of creations that overlapped after their second check
\* (processor.py:432).
THEOREM RunsAreUnique == Spec => []UniqueUnlessRaced
<1>1. PipelineInv => UniqueUnlessRaced
  BY DEF PipelineInv
<1> QED BY <1>1, PipelineInvariant, PTL

\* However often a task is delivered, one create call for its ID at most is told that it
\* created the run (datastore_cloud.go:167).
THEOREM RunsAreCreatedOnce == Spec => []CreatedOnce
<1>1. PipelineInv => CreatedOnce
  BY DEF PipelineInv
<1> QED BY <1>1, PipelineInvariant, PTL

\* A stage never goes back (models.go:271), however late an update comes.
THEOREM StagesAdvance == Spec => StageOnlyAdvances
<1>1. PipelineInv /\ [Next]_vars => [\A id \in IDs : stage'[id] >= stage[id]]_vars
  BY StageStep
<1> QED BY <1>1, PipelineInvariant, PTL DEF Spec, StageOnlyAdvances

===============================================================================
