----------------------------- MODULE SearchIndex ------------------------------
(***************************************************************************)
(* shardedWPTIndex (api/query/cache/index/index.go): the runs held by the  *)
(* search cache, their results sharded by test, the LRU that chooses what  *)
(* to evict, and the locks that keep the three in agreement while many     *)
(* goroutines ingest, evict and search.                                    *)
(*                                                                         *)
(* The index lock i.m is held across several steps, so its holders are     *)
(* state.  A shard's lock is taken inside one step by everybody except a   *)
(* query's scan (syncRunFilter), so only the scanners are state.  What a   *)
(* run's report says about each test is abstracted to the fact that a      *)
(* shard has the run's results.                                            *)
(***************************************************************************)
EXTENDS Integers, FiniteSets

CONSTANTS Runs,          \* IDs of test runs (never 0: errZeroRun changes nothing)
          Clients,       \* goroutines that call the index
          NumShards,     \* -num_shards
          EvictPercent   \* the argument of EvictRuns, in hundredths

ASSUME ShardsAssumption  == NumShards \in Nat \ {0}
ASSUME PercentAssumption == EvictPercent \in Int
ASSUME RunsFinite        == IsFiniteSet(Runs)

Shards == 1 .. NumShards

VARIABLES
    runs,      \* i.runs: the runs whose metadata the index serves
    values,    \* the keys of lru.values
    older,     \* pairs of lru.values, the first used strictly before the second
    results,   \* shard |-> the runs in that shard's results
    inFlight,  \* i.inFlight
    writer,    \* the holder of i.m.Lock(), if any
    readers,   \* the holders of i.m.RLock()
    scanners,  \* shard |-> the clients whose scan holds the shard's RLock
    pc,        \* client |-> where the client is
    run,       \* client |-> the runs its call is about
    shard,     \* client |-> the shard its loop has reached
    victims,   \* the runs the LRU gave up and the index has not deleted yet
    plan,      \* client |-> shard |-> the runs whose results the plan refers to
    toScan     \* client |-> the shards whose scan has not returned

lruVars  == <<values, older>>
lockVars == <<writer, readers>>
vars == <<runs, values, older, results, inFlight, writer, readers, scanners,
          pc, run, shard, victims, plan, toScan>>

Idle      == "idle"
Ingesting == {"load", "store", "storing", "clear"}
Binding   == {"bind", "access"}
States    == {Idle, "evicting", "bound", "scanning"} \union Ingesting \union Binding

\* Mutation: make([]index, len(shards) - 1).
ShortPlan == [s \in 1 .. (NumShards - 1) |-> {}]

NoPlan == [s \in Shards |-> {}]

Init ==
    /\ runs = {}
    /\ values = {}
    /\ older = {}
    /\ results = [s \in Shards |-> {}]
    /\ inFlight = {}
    /\ writer = {}
    /\ readers = {}
    /\ scanners = [s \in Shards |-> {}]
    /\ pc = [c \in Clients |-> Idle]
    /\ run = [c \in Clients |-> {}]
    /\ shard = [c \in Clients |-> 1]
    /\ victims = {}
    /\ plan = [c \in Clients |-> NoPlan]
    /\ toScan = [c \in Clients |-> {}]

-------------------------------------------------------------------------------
(* The locks. *)

\* Mutation: the writers do not wait for the readers.
MayLockIgnoringReaders == writer = {}

MayLock  == writer = {} /\ readers = {}
MayRLock == writer = {}

\* A shard's write lock is free: no scan holds its read lock.
MayLockShard(s) == scanners[s] = {}

Goto(c, label) == pc' = [pc EXCEPT ![c] = label]

-------------------------------------------------------------------------------
(* lru.LRU: last-access times, kept as the order they induce.  Two accesses  *)
(* may read the same time.Now(), so the order need not be total.             *)

Newest == {v \in values : \A w \in values : <<v, w>> \notin older}

Access(v) ==
    \E tied \in SUBSET (Newest \ {v}) :
        /\ tied \in {{}, Newest \ {v}}
        /\ values' = values \union {v}
        /\ older' = {p \in older : p[1] # v /\ p[2] # v}
                      \union {<<w, v>> : w \in values \ (tied \union {v})}

Clamp(percent) == IF percent < 0 THEN 0 ELSE IF percent > 100 THEN 100 ELSE percent

\* math.Max(1.0, math.Floor(n * percent))
NumToEvict(n) ==
    LET share == (n * Clamp(EvictPercent)) \div 100
    IN  IF share < 1 THEN 1 ELSE share

\* The prefixes of the sorted entries that syncEvictLRU may cut off.
Oldest(n) ==
    {old \in SUBSET values :
        /\ Cardinality(old) = n
        /\ \A v \in old, w \in values \ old : <<w, v>> \notin older}

-------------------------------------------------------------------------------
(* IngestRun *)

\* Mutation: syncMarkInProgress without the errRunLoading test.
MayIngestAgain(r) == r \notin runs

MayIngest(r) == r \notin runs /\ r \notin inFlight

\* syncMarkInProgress, one critical section under i.m.  With errRunExists or
\* errRunLoading the call returns and nothing has changed.
IngestRun(c, r) ==
    /\ pc[c] = Idle
    /\ MayLock
    /\ MayIngest(r)
    /\ inFlight' = inFlight \union {r}
    /\ run' = [run EXCEPT ![c] = {r}]
    /\ Goto(c, "load")
    /\ UNCHANGED <<runs, lruVars, results, lockVars, scanners, shard, victims,
                   plan, toScan>>

\* Mutation: a failed load returns before the deferred syncClearInProgress is set.
LoadWithoutDefer(c) ==
    /\ pc[c] = "load"
    /\ \E outcome \in {"store", Idle} : Goto(c, outcome)
    /\ UNCHANGED <<runs, lruVars, results, inFlight, lockVars, scanners, run,
                   shard, victims, plan, toScan>>

\* loader.Load returns a report (perhaps an empty one), or fails.
Load(c) ==
    /\ pc[c] = "load"
    /\ \E outcome \in {"store", "clear"} : Goto(c, outcome)
    /\ UNCHANGED <<runs, lruVars, results, inFlight, lockVars, scanners, run,
                   shard, victims, plan, toScan>>

\* syncStoreRun acquires i.m ...
StoreRun(c) ==
    /\ pc[c] = "store"
    /\ MayLock
    /\ writer' = {c}
    /\ shard' = [shard EXCEPT ![c] = 1]
    /\ Goto(c, "storing")
    /\ UNCHANGED <<runs, lruVars, results, inFlight, readers, scanners, run,
                   victims, plan, toScan>>

\* ... and syncStoreRunOnShard adds the results shard by shard; the first shard
\* that has the run already makes it return, leaving the others without it.
StoreOnShard(c) ==
    /\ pc[c] = "storing"
    /\ shard[c] \in Shards
    /\ MayLockShard(shard[c])
    /\ IF run[c] \intersect results[shard[c]] = {}
       THEN /\ results' = [results EXCEPT ![shard[c]] = @ \union run[c]]
            /\ shard' = [shard EXCEPT ![c] = @ + 1]
            /\ UNCHANGED <<writer, pc>>
       ELSE /\ writer' = {}
            /\ Goto(c, "clear")
            /\ UNCHANGED <<results, shard>>
    /\ UNCHANGED <<runs, lruVars, inFlight, readers, scanners, run, victims, plan,
                   toScan>>

\* The last shard is done: i.runs and the LRU learn of the run, i.m is released.
PublishRun(c) ==
    /\ pc[c] = "storing"
    /\ shard[c] > NumShards
    /\ runs' = runs \union run[c]
    /\ \E r \in run[c] : Access(r)
    /\ writer' = {}
    /\ Goto(c, "clear")
    /\ UNCHANGED <<results, inFlight, readers, scanners, run, shard, victims,
                   plan, toScan>>

\* The deferred syncClearInProgress: IngestRun returns.
ClearInProgress(c) ==
    /\ pc[c] = "clear"
    /\ MayLock
    /\ inFlight' = inFlight \ run[c]
    /\ run' = [run EXCEPT ![c] = {}]
    /\ Goto(c, Idle)
    /\ UNCHANGED <<runs, lruVars, results, lockVars, scanners, shard, victims,
                   plan, toScan>>

-------------------------------------------------------------------------------
(* EvictRuns (syncEvictRuns): i.m is held from the LRU's choice to the       *)
(* deletion of the last victim.  With no runs the call returns errNoRuns.    *)

EvictRuns(c) ==
    /\ pc[c] = Idle
    /\ MayLock
    /\ runs # {}
    /\ \E old \in Oldest(NumToEvict(Cardinality(values))) :
        /\ values' = values \ old
        /\ older' = {p \in older : p[1] \notin old /\ p[2] \notin old}
        /\ victims' = old
    /\ writer' = {c}
    /\ Goto(c, "evicting")
    /\ UNCHANGED <<runs, results, inFlight, readers, scanners, run, shard, plan,
                   toScan>>

\* The victims' order (oldest first) shows to nobody: i.m is held throughout.
NextVictim(c) ==
    /\ pc[c] = "evicting"
    /\ run[c] = {}
    /\ \E v \in victims :
        /\ run' = [run EXCEPT ![c] = {v}]
        /\ victims' = victims \ {v}
    /\ shard' = [shard EXCEPT ![c] = 1]
    /\ UNCHANGED <<runs, lruVars, results, inFlight, lockVars, scanners, pc, plan,
                   toScan>>

\* syncDeleteResultsFromShard; a shard without the run ends the eviction, with
\* the remaining victims gone from the LRU only.
DeleteFromShard(c) ==
    /\ pc[c] = "evicting"
    /\ run[c] # {}
    /\ shard[c] \in Shards
    /\ MayLockShard(shard[c])
    /\ IF run[c] \subseteq results[shard[c]]
       THEN /\ results' = [results EXCEPT ![shard[c]] = @ \ run[c]]
            /\ shard' = [shard EXCEPT ![c] = @ + 1]
            /\ UNCHANGED <<writer, pc, run, victims>>
       ELSE /\ writer' = {}
            /\ Goto(c, Idle)
            /\ run' = [run EXCEPT ![c] = {}]
            /\ victims' = {}
            /\ UNCHANGED <<results, shard>>
    /\ UNCHANGED <<runs, lruVars, inFlight, readers, scanners, plan, toScan>>

DeleteRun(c) ==
    /\ pc[c] = "evicting"
    /\ run[c] # {}
    /\ shard[c] > NumShards
    /\ runs' = runs \ run[c]
    /\ run' = [run EXCEPT ![c] = {}]
    /\ UNCHANGED <<lruVars, results, inFlight, lockVars, scanners, pc, shard,
                   victims, plan, toScan>>

EvictDone(c) ==
    /\ pc[c] = "evicting"
    /\ run[c] = {}
    /\ victims = {}
    /\ writer' = {}
    /\ Goto(c, Idle)
    /\ UNCHANGED <<runs, lruVars, results, inFlight, readers, scanners, run, shard,
                   victims, plan, toScan>>

-------------------------------------------------------------------------------
(* Bind (syncExtractRuns): i.m is read-locked from the first shard's         *)
(* snapshot to the last LRU access.                                          *)

Bind(c, rs) ==
    /\ pc[c] = Idle
    /\ rs # {}
    /\ MayRLock
    /\ readers' = readers \union {c}
    /\ run' = [run EXCEPT ![c] = rs]
    /\ shard' = [shard EXCEPT ![c] = 1]
    /\ Goto(c, "bind")
    /\ UNCHANGED <<runs, lruVars, results, inFlight, writer, scanners, victims,
                   plan, toScan>>

\* Mutation: a run that a shard does not know is skipped instead of refused.
MakeIndexOfKnown(c) ==
    /\ pc[c] = "bind"
    /\ plan' = [plan EXCEPT ![c][shard[c]] = run[c] \intersect results[shard[c]]]
    /\ shard' = [shard EXCEPT ![c] = @ + 1]
    /\ Goto(c, IF shard[c] = NumShards THEN "access" ELSE "bind")
    /\ UNCHANGED <<runs, lruVars, results, inFlight, lockVars, scanners, run,
                   victims, toScan>>

\* Mutation: the error return forgets to release i.m.
MakeIndexKeepingLock(c) ==
    /\ pc[c] = "bind"
    /\ IF run[c] \subseteq results[shard[c]]
       THEN /\ plan' = [plan EXCEPT ![c][shard[c]] = run[c]]
            /\ shard' = [shard EXCEPT ![c] = @ + 1]
            /\ Goto(c, IF shard[c] = NumShards THEN "access" ELSE "bind")
            /\ UNCHANGED run
       ELSE /\ plan' = [plan EXCEPT ![c] = NoPlan]
            /\ run' = [run EXCEPT ![c] = {}]
            /\ Goto(c, Idle)
            /\ UNCHANGED shard
    /\ UNCHANGED <<runs, lruVars, results, inFlight, lockVars, scanners, victims,
                   toScan>>

\* syncMakeIndex: the plan captures the shard's results of every run, or Bind
\* fails because the shard does not know one of them.
MakeIndex(c) ==
    /\ pc[c] = "bind"
    /\ IF run[c] \subseteq results[shard[c]]
       THEN /\ plan' = [plan EXCEPT ![c][shard[c]] = run[c]]
            /\ shard' = [shard EXCEPT ![c] = @ + 1]
            /\ Goto(c, IF shard[c] = NumShards THEN "access" ELSE "bind")
            /\ UNCHANGED <<readers, run>>
       ELSE /\ plan' = [plan EXCEPT ![c] = NoPlan]
            /\ readers' = readers \ {c}
            /\ run' = [run EXCEPT ![c] = {}]
            /\ Goto(c, Idle)
            /\ UNCHANGED shard
    /\ UNCHANGED <<runs, lruVars, results, inFlight, writer, scanners, victims,
                   toScan>>

\* lru.Access, once per run and interleaved with other binders; after the last
\* one i.m is released and Bind returns the plan.
AccessRun(c) ==
    /\ pc[c] = "access"
    /\ \E r \in run[c] :
        /\ Access(r)
        /\ run' = [run EXCEPT ![c] = @ \ {r}]
        /\ IF run[c] = {r}
           THEN readers' = readers \ {c} /\ Goto(c, "bound")
           ELSE UNCHANGED <<readers, pc>>
    /\ UNCHANGED <<runs, results, inFlight, writer, scanners, shard, victims, plan,
                   toScan>>

-------------------------------------------------------------------------------
(* Execute: one goroutine per shard, each holding its shard's read lock for  *)
(* the whole scan (syncRunFilter); i.m is not held.                          *)

Execute(c) ==
    /\ pc[c] = "bound"
    /\ toScan' = [toScan EXCEPT ![c] = Shards]
    /\ Goto(c, "scanning")
    /\ UNCHANGED <<runs, lruVars, results, inFlight, lockVars, scanners, run,
                   shard, victims, plan>>

BeginScan(c, s) ==
    /\ s \in toScan[c]
    /\ c \notin scanners[s]
    /\ scanners' = [scanners EXCEPT ![s] = @ \union {c}]
    /\ UNCHANGED <<runs, lruVars, results, inFlight, lockVars, pc, run, shard,
                   victims, plan, toScan>>

\* The scan sends its matches and releases the shard; Execute returns once every
\* shard has answered.
EndScan(c, s) ==
    /\ c \in scanners[s]
    /\ scanners' = [scanners EXCEPT ![s] = @ \ {c}]
    /\ toScan' = [toScan EXCEPT ![c] = @ \ {s}]
    /\ IF toScan[c] = {s}
       THEN Goto(c, Idle) /\ plan' = [plan EXCEPT ![c] = NoPlan]
       ELSE UNCHANGED <<pc, plan>>
    /\ UNCHANGED <<runs, lruVars, results, inFlight, lockVars, run, shard, victims>>

-------------------------------------------------------------------------------
Step(c) ==
    \/ \E r \in Runs : IngestRun(c, r)
    \/ Load(c) \/ StoreRun(c) \/ StoreOnShard(c) \/ PublishRun(c)
    \/ ClearInProgress(c)
    \/ EvictRuns(c) \/ NextVictim(c) \/ DeleteFromShard(c) \/ DeleteRun(c)
    \/ EvictDone(c)
    \/ \E rs \in SUBSET Runs : Bind(c, rs)
    \/ MakeIndex(c) \/ AccessRun(c) \/ Execute(c)
    \/ \E s \in Shards : BeginScan(c, s) \/ EndScan(c, s)

Next == \E c \in Clients : Step(c)

Spec == Init /\ [][Next]_vars

\* Every step inside a call is eventually taken: the Go scheduler runs every
\* goroutine, sync.RWMutex starves neither readers nor writers, and the HTTP
\* fetch of a report ends.  Nothing obliges a client to make a call.
Fairness ==
    \A c \in Clients :
        /\ WF_vars(Load(c) \/ PublishRun(c))
        /\ WF_vars(NextVictim(c) \/ DeleteRun(c) \/ EvictDone(c))
        /\ WF_vars(MakeIndex(c) \/ AccessRun(c) \/ Execute(c))
        /\ \A s \in Shards : WF_vars(BeginScan(c, s)) /\ WF_vars(EndScan(c, s))
        /\ SF_vars(StoreRun(c)) /\ SF_vars(StoreOnShard(c))
        /\ SF_vars(ClearInProgress(c))
        /\ SF_vars(DeleteFromShard(c))

FairSpec == Spec /\ Fairness

-------------------------------------------------------------------------------
(* Properties *)

\* The values the state of index.go can have.
TypeOK ==
    /\ runs \subseteq Runs
    /\ values \subseteq Runs
    /\ older \subseteq Runs \X Runs
    /\ results \in [Shards -> SUBSET Runs]
    /\ inFlight \subseteq Runs
    /\ writer \subseteq Clients
    /\ readers \subseteq Clients
    /\ scanners \in [Shards -> SUBSET Clients]
    /\ pc \in [Clients -> States]
    /\ run \in [Clients -> SUBSET Runs]
    /\ shard \in [Clients -> 1 .. (NumShards + 1)]
    /\ victims \subseteq Runs
    /\ plan \in [Clients -> [Shards -> SUBSET Runs]]
    /\ toScan \in [Clients -> SUBSET Shards]

\* Whenever no ingestion or eviction is inside i.m, the run metadata, the LRU and
\* every shard hold the same runs: nothing that takes i.m (IngestRun, EvictRuns,
\* Bind) can see a half-stored or half-evicted run.
Agreement ==
    writer = {} => /\ values = runs
                   /\ \A s \in Shards : results[s] = runs

\* The two error paths that would leave the index in pieces are never taken:
\* IngestRun only logs a failure of syncStoreRun, and syncEvictRuns returns in
\* the middle of a batch the LRU has already forgotten.
NoInternalError ==
    \A c \in Clients : shard[c] \in Shards =>
        /\ pc[c] = "storing" => run[c] \intersect results[shard[c]] = {}
        /\ pc[c] = "evicting" => run[c] \subseteq results[shard[c]]

\* One IngestRun call at a time is responsible for a run, and i.inFlight lists
\* exactly the runs somebody is responsible for: none is left behind, whichever
\* way the call ends.
SingleLoader ==
    /\ inFlight = UNION {run[c] : c \in {d \in Clients : pc[d] \in Ingesting}}
    /\ \A c, d \in Clients :
          c # d /\ pc[c] \in Ingesting /\ pc[d] \in Ingesting
            => run[c] \intersect run[d] = {}

\* A plan that Bind has returned covers the same runs in every shard, whatever
\* was evicted or ingested since: a search never mixes runs between shards.
PlansAreWhole ==
    \A c \in Clients : pc[c] \in {"access", "bound", "scanning"} =>
        \A s, t \in Shards : plan[c][s] = plan[c][t] /\ plan[c][s] # {}

\* Every call of the index returns: waiting on i.m and on a shard that is being
\* scanned is never circular, and no path forgets to unlock.
CallsReturn == \A c \in Clients : pc[c] # Idle ~> pc[c] = Idle

-------------------------------------------------------------------------------
(* The inductive invariant behind these properties, in named parts. *)

\* Who holds i.m, and how.
LockInv ==
    /\ \A c \in Clients : c \in writer <=> pc[c] \in {"storing", "evicting"}
    /\ \A c \in Clients : c \in readers <=> pc[c] \in Binding
    /\ \A c, d \in writer : c = d
    /\ writer = {} \/ readers = {}

\* Which runs the calls in progress are about.
CallInv ==
    \A c \in Clients :
        /\ pc[c] \in {Idle, "bound", "scanning"} => run[c] = {}
        /\ pc[c] \in Ingesting => \E r \in Runs : run[c] = {r}
        /\ pc[c] \in {"load", "store", "storing"} => run[c] \intersect runs = {}
        /\ pc[c] = "access" => run[c] \subseteq runs

\* i.inFlight
FlightInv ==
    /\ \A c \in Clients : pc[c] \in Ingesting => run[c] \subseteq inFlight
    /\ \A r \in inFlight : \E c \in Clients : pc[c] \in Ingesting /\ r \in run[c]
    /\ \A c, d \in Clients :
          c # d /\ pc[c] \in Ingesting /\ pc[d] \in Ingesting
            => run[c] \intersect run[d] = {}

\* How far the holder of i.m has come in changing runs, LRU and shards.
ContentInv ==
    /\ writer = {} => /\ values = runs
                      /\ victims = {}
                      /\ \A s \in Shards : results[s] = runs
    /\ \A c \in Clients : pc[c] = "storing" =>
          /\ values = runs
          /\ victims = {}
          /\ \A s \in Shards : results[s] = IF s < shard[c] THEN runs \union run[c] ELSE runs
    /\ \A c \in Clients : pc[c] = "evicting" =>
          /\ victims \union run[c] \subseteq runs
          /\ victims \intersect run[c] = {}
          /\ values = runs \ (victims \union run[c])
          /\ \A s \in Shards : results[s] = IF s < shard[c] THEN runs \ run[c] ELSE runs

\* How far Bind has come with its plan.
PlanInv ==
    \A c \in Clients :
        /\ pc[c] = "bind" => /\ run[c] # {}
                            /\ shard[c] \in Shards
                            /\ \A s \in Shards : s < shard[c] => plan[c][s] = run[c]
        /\ pc[c] \in {"access", "bound", "scanning"} =>
              \A s, t \in Shards : plan[c][s] = plan[c][t] /\ plan[c][s] # {}

\* Only an executing query scans.
ScanInv ==
    /\ \A s \in Shards : \A c \in scanners[s] : s \in toScan[c]
    /\ \A c \in Clients : toScan[c] # {} => pc[c] = "scanning"

IndexInv ==
    TypeOK /\ LockInv /\ CallInv /\ FlightInv /\ ContentInv /\ PlanInv /\ ScanInv

-------------------------------------------------------------------------------
\* The index is a RunCache: a run appears to searches when the LRU first hears of
\* it and disappears when the LRU gives it up, although both take many steps.

\* The runs whose IngestRun has neither published them nor given up.
Unpublished ==
    UNION {run[c] : c \in {d \in Clients : pc[d] \in {"load", "store", "storing"}}}

\* The runs that every shard's part of the plan of c covers.
Covered(c) ==
    IF pc[c] \in {"access", "bound", "scanning"}
    THEN {r \in Runs : \A s \in Shards : r \in plan[c][s]}
    ELSE {}

Cache == INSTANCE RunCache WITH
    held    <- values,
    loading <- inFlight,
    fresh   <- Unpublished,
    answers <- [c \in Clients |-> Covered(c)]

ImplementsRunCache == Cache!CacheSpec

===============================================================================
