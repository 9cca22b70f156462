--------------------------- MODULE SearchIndexProofs --------------------------
(***************************************************************************)
(* SearchIndex for any number of runs, clients and shards and any eviction *)
(* percentage: IndexInv is inductive, the safety properties follow, and    *)
(* SearchIndex implements RunCache.                                        *)
(*                                                                         *)
(* One lemma per action shows that it keeps IndexInv, with one step per    *)
(* part of the invariant; in the second part another one shows that it     *)
(* maps to a step of the cache or to stuttering.                           *)
(***************************************************************************)
EXTENDS SearchIndex, FiniteSetTheorems, TLAPS

\* syncMarkInProgress only adds a run that is not in i.inFlight to it: it keeps
\* the invariant.
LEMMA IngestRunKeepsInv ==
    ASSUME NEW c \in Clients, NEW r \in Runs, IndexInv, IngestRun(c, r)
    PROVE  IndexInv'
<1>1. TypeOK'
  BY ShardsAssumption DEF IngestRun, Goto, lruVars, lockVars, MayIngest, MayLock, IndexInv, TypeOK, States, Ingesting, Binding, Idle
<1>2. LockInv'
  BY ShardsAssumption DEF IngestRun, Goto, lruVars, lockVars, MayIngest, MayLock, IndexInv, TypeOK, LockInv, States, Ingesting, Binding, Idle
<1>3. CallInv'
  BY ShardsAssumption DEF IngestRun, Goto, lruVars, lockVars, MayIngest, MayLock, IndexInv, TypeOK, CallInv, LockInv, FlightInv, ContentInv, Ingesting, Binding, Idle
<1>4. FlightInv'
  BY ShardsAssumption DEF IngestRun, Goto, lruVars, lockVars, MayIngest, MayLock, IndexInv, TypeOK, CallInv, FlightInv, Ingesting, Idle
<1>5. ContentInv'
  BY ShardsAssumption DEF IngestRun, Goto, lruVars, lockVars, MayIngest, MayLock, IndexInv, TypeOK, LockInv, CallInv, ContentInv, Ingesting, Binding, Idle, Shards
<1>6. PlanInv'
  BY ShardsAssumption DEF IngestRun, Goto, lruVars, lockVars, MayIngest, MayLock, IndexInv, TypeOK, LockInv, CallInv, ContentInv, PlanInv, Binding, Idle, Shards
<1>7. ScanInv'
  BY ShardsAssumption DEF IngestRun, Goto, lruVars, lockVars, MayIngest, MayLock, IndexInv, TypeOK, ScanInv, Idle
<1> QED BY <1>1, <1>2, <1>3, <1>4, <1>5, <1>6, <1>7 DEF IndexInv

\* A report that is fetched, or is not, leaves the index alone.
LEMMA LoadKeepsInv ==
    ASSUME NEW c \in Clients, IndexInv, Load(c)
    PROVE  IndexInv'
<1>1. /\ pc[c] = "load"
      /\ \E outcome \in {"store", "clear"} : pc' = [pc EXCEPT ![c] = outcome]
      /\ UNCHANGED <<runs, values, older, results, inFlight, writer, readers, scanners,
                     run, shard, victims, plan, toScan>>
  BY DEF Load, Goto, lruVars, lockVars
<1>2. PICK outcome \in {"store", "clear"} : pc' = [pc EXCEPT ![c] = outcome]
  BY <1>1
<1>3. TypeOK'
  BY <1>1, <1>2 DEF Goto, lruVars, lockVars, IndexInv, TypeOK, States, Ingesting, Binding, Idle
<1>4. LockInv'
  BY <1>1, <1>2 DEF Goto, lruVars, lockVars, IndexInv, TypeOK, LockInv, States, Ingesting, Binding, Idle
<1>5. CallInv'
  BY <1>1, <1>2 DEF Goto, lruVars, lockVars, IndexInv, TypeOK, CallInv, LockInv, FlightInv, ContentInv, Ingesting, Binding, Idle
<1>6. FlightInv'
  BY <1>1, <1>2 DEF Goto, lruVars, lockVars, IndexInv, TypeOK, CallInv, FlightInv, Ingesting, Idle
<1>7. ContentInv'
  BY <1>1, <1>2 DEF Goto, lruVars, lockVars, IndexInv, TypeOK, LockInv, CallInv, ContentInv, Ingesting, Binding, Idle, Shards
<1>8. PlanInv'
  BY <1>1, <1>2 DEF Goto, lruVars, lockVars, IndexInv, TypeOK, LockInv, CallInv, ContentInv, PlanInv, Binding, Idle, Shards
<1>9. ScanInv'
  BY <1>1, <1>2 DEF Goto, lruVars, lockVars, IndexInv, TypeOK, ScanInv, Idle
<1> QED BY <1>3, <1>4, <1>5, <1>6, <1>7, <1>8, <1>9 DEF IndexInv

\* A writer that takes i.m finds runs, LRU and shards in agreement and no victims.
LEMMA StoreRunKeepsInv ==
    ASSUME NEW c \in Clients, IndexInv, StoreRun(c)
    PROVE  IndexInv'
<1>1. TypeOK'
  BY ShardsAssumption DEF StoreRun, Goto, lruVars, lockVars, MayLock, IndexInv, TypeOK, States, Ingesting, Binding, Idle
<1>2. LockInv'
  BY ShardsAssumption DEF StoreRun, Goto, lruVars, lockVars, MayLock, IndexInv, TypeOK, LockInv, States, Ingesting, Binding, Idle
<1>3. CallInv'
  BY ShardsAssumption DEF StoreRun, Goto, lruVars, lockVars, MayLock, IndexInv, TypeOK, CallInv, LockInv, FlightInv, ContentInv, Ingesting, Binding, Idle
<1>4. FlightInv'
  BY ShardsAssumption DEF StoreRun, Goto, lruVars, lockVars, MayLock, IndexInv, TypeOK, CallInv, FlightInv, Ingesting, Idle
<1>5. ContentInv'
  BY ShardsAssumption DEF StoreRun, Goto, lruVars, lockVars, MayLock, IndexInv, TypeOK, LockInv, CallInv, ContentInv, Ingesting, Binding, Idle, Shards
<1>6. PlanInv'
  BY ShardsAssumption DEF StoreRun, Goto, lruVars, lockVars, MayLock, IndexInv, TypeOK, LockInv, CallInv, ContentInv, PlanInv, Binding, Idle, Shards
<1>7. ScanInv'
  BY ShardsAssumption DEF StoreRun, Goto, lruVars, lockVars, MayLock, IndexInv, TypeOK, ScanInv, Idle
<1> QED BY <1>1, <1>2, <1>3, <1>4, <1>5, <1>6, <1>7 DEF IndexInv

\* Storing on one more shard keeps "the shards below the loop variable have the
\* run, the others do not"; the error branch is never taken.
LEMMA StoreOnShardKeepsInv ==
    ASSUME NEW c \in Clients, IndexInv, StoreOnShard(c)
    PROVE  IndexInv'
<1>1. run[c] \intersect results[shard[c]] = {}
  BY DEF StoreOnShard, IndexInv, TypeOK, CallInv, ContentInv, Shards
<1>2. /\ pc[c] = "storing" /\ shard[c] \in Shards
      /\ results' = [results EXCEPT ![shard[c]] = @ \union run[c]]
      /\ shard' = [shard EXCEPT ![c] = @ + 1]
      /\ UNCHANGED <<writer, pc, runs, values, older, inFlight, readers, scanners, run,
                     victims, plan, toScan>>
  BY <1>1 DEF StoreOnShard, lruVars
<1>3. TypeOK'
  BY ShardsAssumption, <1>2 DEF IndexInv, TypeOK, Shards
<1>4. LockInv'
  BY ShardsAssumption, <1>2 DEF Goto, lruVars, lockVars, IndexInv, TypeOK, LockInv, States, Ingesting, Binding, Idle
<1>5. CallInv'
  BY ShardsAssumption, <1>2 DEF Goto, lruVars, lockVars, IndexInv, TypeOK, CallInv, LockInv, FlightInv, ContentInv, Ingesting, Binding, Idle
<1>6. FlightInv'
  BY ShardsAssumption, <1>2 DEF Goto, lruVars, lockVars, IndexInv, TypeOK, CallInv, FlightInv, Ingesting, Idle
<1>7. ContentInv'
  <2>1. /\ writer = {c} /\ \A d \in Clients : pc[d] \in {"storing", "evicting"} => d = c
    BY <1>2 DEF IndexInv, LockInv, TypeOK
  <2>2. /\ values = runs /\ victims = {}
        /\ \A s \in Shards : results[s] = IF s < shard[c] THEN runs \union run[c] ELSE runs
    BY <1>2 DEF IndexInv, ContentInv
  <2>3. \A s \in Shards : results'[s] = IF s < shard'[c] THEN runs \union run[c] ELSE runs
    <3> TAKE s \in Shards
    <3>1. results'[s] = IF s = shard[c] THEN results[s] \union run[c] ELSE results[s]
      BY <1>2 DEF IndexInv, TypeOK
    <3>2. shard'[c] = shard[c] + 1 /\ shard[c] \in Int /\ s \in Int
      BY ShardsAssumption, <1>2 DEF IndexInv, TypeOK, Shards
    <3>3. s < shard'[c] <=> s < shard[c] \/ s = shard[c]
      BY <3>2
    <3> QED BY <2>2, <3>1, <3>2, <3>3
  <2> QED BY <1>2, <2>1, <2>2, <2>3 DEF ContentInv
<1>8. PlanInv'
  BY ShardsAssumption, <1>2 DEF Goto, lruVars, lockVars, IndexInv, TypeOK, LockInv, CallInv, ContentInv, PlanInv, Binding, Idle, Shards
<1>9. ScanInv'
  BY ShardsAssumption, <1>2 DEF Goto, lruVars, lockVars, IndexInv, TypeOK, ScanInv, Idle
<1> QED BY <1>3, <1>4, <1>5, <1>6, <1>7, <1>8, <1>9 DEF IndexInv

\* When the last shard is done, adding the run to i.runs and to the LRU restores
\* the agreement before i.m is released.
LEMMA PublishRunKeepsInv ==
    ASSUME NEW c \in Clients, IndexInv, PublishRun(c)
    PROVE  IndexInv'
<1>1. PICK r \in run[c] : Access(r)
  BY DEF PublishRun
<1>2. /\ run[c] = {r} /\ r \in Runs /\ writer = {c}
      /\ \A d \in Clients : pc[d] \in {"storing", "evicting"} => d = c
  BY <1>1 DEF PublishRun, IndexInv, TypeOK, LockInv, CallInv, Ingesting
<1>3. TypeOK'
  BY ShardsAssumption DEF PublishRun, Goto, lruVars, lockVars, Access, IndexInv, TypeOK, States, Ingesting, Binding, Idle
<1>4. LockInv'
  BY ShardsAssumption DEF PublishRun, Goto, lruVars, lockVars, Access, IndexInv, TypeOK, LockInv, States, Ingesting, Binding, Idle
<1>5. CallInv'
  BY ShardsAssumption DEF PublishRun, Goto, lruVars, lockVars, Access, IndexInv, TypeOK, CallInv, LockInv, FlightInv, ContentInv, Ingesting, Binding, Idle
<1>6. FlightInv'
  BY ShardsAssumption DEF PublishRun, Goto, lruVars, lockVars, Access, IndexInv, TypeOK, CallInv, FlightInv, Ingesting, Idle
<1>7. ContentInv'
  <2>1. values = runs /\ victims = {} /\ \A s \in Shards : results[s] = runs \union {r}
    <3>1. /\ values = runs /\ victims = {}
          /\ \A s \in Shards : results[s] = IF s < shard[c] THEN runs \union {r} ELSE runs
      BY <1>2 DEF PublishRun, IndexInv, ContentInv
    <3>2. \A s \in Shards : s < shard[c]
      BY ShardsAssumption DEF PublishRun, IndexInv, TypeOK, Shards
    <3> QED BY <3>1, <3>2
  <2>2. values' = values \union {r} /\ runs' = runs \union {r} /\ UNCHANGED <<results, victims>>
    BY <1>1, <1>2 DEF PublishRun, Access
  <2>3. \A d \in Clients : pc'[d] \notin {"storing", "evicting"}
    BY <1>2 DEF PublishRun, Goto, IndexInv, TypeOK
  <2> QED BY <2>1, <2>2, <2>3 DEF ContentInv
<1>8. PlanInv'
  BY ShardsAssumption DEF PublishRun, Goto, lruVars, lockVars, Access, IndexInv, TypeOK, LockInv, CallInv, ContentInv, PlanInv, Binding, Idle, Shards
<1>9. ScanInv'
  BY ShardsAssumption DEF PublishRun, Goto, lruVars, lockVars, Access, IndexInv, TypeOK, ScanInv, Idle
<1> QED BY <1>3, <1>4, <1>5, <1>6, <1>7, <1>8, <1>9 DEF IndexInv

\* The deferred syncClearInProgress removes the caller's run, and no other, from
\* i.inFlight.
LEMMA ClearInProgressKeepsInv ==
    ASSUME NEW c \in Clients, IndexInv, ClearInProgress(c)
    PROVE  IndexInv'
<1>1. TypeOK'
  BY ShardsAssumption DEF ClearInProgress, Goto, lruVars, lockVars, MayLock, IndexInv, TypeOK, States, Ingesting, Binding, Idle
<1>2. LockInv'
  BY ShardsAssumption DEF ClearInProgress, Goto, lruVars, lockVars, MayLock, IndexInv, TypeOK, LockInv, States, Ingesting, Binding, Idle
<1>3. CallInv'
  BY ShardsAssumption DEF ClearInProgress, Goto, lruVars, lockVars, MayLock, IndexInv, TypeOK, CallInv, LockInv, FlightInv, ContentInv, Ingesting, Binding, Idle
<1>4. FlightInv'
  BY ShardsAssumption DEF ClearInProgress, Goto, lruVars, lockVars, MayLock, IndexInv, TypeOK, CallInv, FlightInv, Ingesting, Idle
<1>5. ContentInv'
  BY ShardsAssumption DEF ClearInProgress, Goto, lruVars, lockVars, MayLock, IndexInv, TypeOK, LockInv, CallInv, ContentInv, Ingesting, Binding, Idle, Shards
<1>6. PlanInv'
  BY ShardsAssumption DEF ClearInProgress, Goto, lruVars, lockVars, MayLock, IndexInv, TypeOK, LockInv, CallInv, ContentInv, PlanInv, Binding, Idle, Shards
<1>7. ScanInv'
  BY ShardsAssumption DEF ClearInProgress, Goto, lruVars, lockVars, MayLock, IndexInv, TypeOK, ScanInv, Idle
<1> QED BY <1>1, <1>2, <1>3, <1>4, <1>5, <1>6, <1>7 DEF IndexInv

\* The LRU gives up victims that are all in i.runs.
LEMMA EvictRunsKeepsInv ==
    ASSUME NEW c \in Clients, IndexInv, EvictRuns(c)
    PROVE  IndexInv'
<1>1. PICK old \in SUBSET values :
         /\ values' = values \ old
         /\ older' = {p \in older : p[1] \notin old /\ p[2] \notin old}
         /\ victims' = old
  BY DEF EvictRuns, Oldest
<1>2. /\ pc[c] = Idle /\ writer = {} /\ readers = {} /\ writer' = {c}
      /\ pc' = [pc EXCEPT ![c] = "evicting"]
      /\ UNCHANGED <<runs, results, inFlight, readers, scanners, run, shard, plan, toScan>>
  BY DEF EvictRuns, MayLock, Goto
<1>3. TypeOK'
  BY <1>1, <1>2 DEF IndexInv, TypeOK, States
<1>4. LockInv'
  BY <1>1, <1>2 DEF Goto, lruVars, lockVars, MayLock, Oldest, IndexInv, TypeOK, LockInv, States, Ingesting, Binding, Idle
<1>5. CallInv'
  BY <1>1, <1>2 DEF Goto, lruVars, lockVars, MayLock, Oldest, IndexInv, TypeOK, CallInv, LockInv, FlightInv, ContentInv, Ingesting, Binding, Idle
<1>6. FlightInv'
  BY <1>1, <1>2 DEF Goto, lruVars, lockVars, MayLock, Oldest, IndexInv, TypeOK, CallInv, FlightInv, Ingesting, Idle
<1>7. ContentInv'
  BY <1>1, <1>2 DEF Goto, lruVars, lockVars, MayLock, Oldest, IndexInv, TypeOK, LockInv, CallInv, ContentInv, Ingesting, Binding, Idle, Shards
<1>8. PlanInv'
  BY <1>1, <1>2 DEF Goto, lruVars, lockVars, MayLock, Oldest, IndexInv, TypeOK, LockInv, CallInv, ContentInv, PlanInv, Binding, Idle, Shards
<1>9. ScanInv'
  BY <1>1, <1>2 DEF Goto, lruVars, lockVars, MayLock, Oldest, IndexInv, TypeOK, ScanInv, Idle
<1> QED BY <1>3, <1>4, <1>5, <1>6, <1>7, <1>8, <1>9 DEF IndexInv

\* Turning to the next victim moves it from the victims to the run being deleted.
LEMMA NextVictimKeepsInv ==
    ASSUME NEW c \in Clients, IndexInv, NextVictim(c)
    PROVE  IndexInv'
<1>1. PICK v \in victims : /\ run' = [run EXCEPT ![c] = {v}]
                           /\ victims' = victims \ {v}
  BY DEF NextVictim
<1>2. /\ pc[c] = "evicting" /\ run[c] = {} /\ shard' = [shard EXCEPT ![c] = 1]
      /\ UNCHANGED <<runs, values, older, results, inFlight, writer, readers, scanners, pc,
                     plan, toScan>>
  BY DEF NextVictim, lruVars, lockVars
<1>3. TypeOK'
  BY ShardsAssumption, <1>1, <1>2 DEF Goto, lruVars, lockVars, IndexInv, TypeOK, States, Ingesting, Binding, Idle
<1>4. LockInv'
  BY ShardsAssumption, <1>1, <1>2 DEF Goto, lruVars, lockVars, IndexInv, TypeOK, LockInv, States, Ingesting, Binding, Idle
<1>5. CallInv'
  BY ShardsAssumption, <1>1, <1>2 DEF Goto, lruVars, lockVars, IndexInv, TypeOK, CallInv, LockInv, FlightInv, ContentInv, Ingesting, Binding, Idle
<1>6. FlightInv'
  BY ShardsAssumption, <1>1, <1>2 DEF Goto, lruVars, lockVars, IndexInv, TypeOK, CallInv, FlightInv, Ingesting, Idle
<1>7. ContentInv'
  <2>1. /\ writer = {c} /\ \A d \in Clients : pc[d] \in {"storing", "evicting"} => d = c
    BY <1>2 DEF IndexInv, LockInv, TypeOK
  <2>2. victims \subseteq runs /\ values = runs \ victims /\ \A s \in Shards : results[s] = runs
    BY <1>2 DEF IndexInv, ContentInv
  <2>3. run'[c] = {v} /\ shard'[c] = 1
    BY <1>1, <1>2 DEF IndexInv, TypeOK
  <2>4. \A s \in Shards : results'[s] = IF s < shard'[c] THEN runs \ run'[c] ELSE runs
    BY <1>2, <2>2, <2>3 DEF Shards
  <2>5. \A d \in Clients : pc'[d] # "storing"
    BY <1>2, <2>1
  <2> QED BY <1>1, <1>2, <2>1, <2>2, <2>3, <2>4, <2>5 DEF ContentInv
<1>8. PlanInv'
  BY ShardsAssumption, <1>1, <1>2 DEF Goto, lruVars, lockVars, IndexInv, TypeOK, LockInv, CallInv, ContentInv, PlanInv, Binding, Idle, Shards
<1>9. ScanInv'
  BY ShardsAssumption, <1>1, <1>2 DEF Goto, lruVars, lockVars, IndexInv, TypeOK, ScanInv, Idle
<1> QED BY <1>3, <1>4, <1>5, <1>6, <1>7, <1>8, <1>9 DEF IndexInv

\* Deleting from one more shard keeps "the shards below the loop variable have
\* lost the run"; the error branch is never taken.
LEMMA DeleteFromShardKeepsInv ==
    ASSUME NEW c \in Clients, IndexInv, DeleteFromShard(c)
    PROVE  IndexInv'
<1>1. run[c] \subseteq results[shard[c]]
  <2>1. /\ pc[c] = "evicting" /\ shard[c] \in Shards /\ ~ shard[c] < shard[c]
    BY ShardsAssumption DEF DeleteFromShard, Shards
  <2>2. run[c] \subseteq runs /\ results[shard[c]] = runs
    BY <2>1 DEF IndexInv, ContentInv
  <2> QED BY <2>2
<1>2. /\ pc[c] = "evicting" /\ shard[c] \in Shards
      /\ results' = [results EXCEPT ![shard[c]] = @ \ run[c]]
      /\ shard' = [shard EXCEPT ![c] = @ + 1]
      /\ UNCHANGED <<writer, pc, runs, values, older, inFlight, readers, scanners, run,
                     victims, plan, toScan>>
  BY <1>1 DEF DeleteFromShard, lruVars
<1>3. TypeOK'
  BY ShardsAssumption, <1>2 DEF IndexInv, TypeOK, Shards
<1>4. LockInv'
  BY ShardsAssumption, <1>2 DEF Goto, lruVars, lockVars, IndexInv, TypeOK, LockInv, States, Ingesting, Binding, Idle
<1>5. CallInv'
  BY ShardsAssumption, <1>2 DEF Goto, lruVars, lockVars, IndexInv, TypeOK, CallInv, LockInv, FlightInv, ContentInv, Ingesting, Binding, Idle
<1>6. FlightInv'
  BY ShardsAssumption, <1>2 DEF Goto, lruVars, lockVars, IndexInv, TypeOK, CallInv, FlightInv, Ingesting, Idle
<1>7. ContentInv'
  <2>1. /\ writer = {c} /\ \A d \in Clients : pc[d] \in {"storing", "evicting"} => d = c
    BY <1>2 DEF IndexInv, LockInv, TypeOK
  <2>2. /\ victims \union run[c] \subseteq runs /\ victims \intersect run[c] = {}
        /\ values = runs \ (victims \union run[c])
        /\ \A s \in Shards : results[s] = IF s < shard[c] THEN runs \ run[c] ELSE runs
    BY <1>2 DEF IndexInv, ContentInv
  <2>3. \A s \in Shards : results'[s] = IF s < shard'[c] THEN runs \ run[c] ELSE runs
    <3> TAKE s \in Shards
    <3>1. results'[s] = IF s = shard[c] THEN results[s] \ run[c] ELSE results[s]
      BY <1>2 DEF IndexInv, TypeOK
    <3>2. shard'[c] = shard[c] + 1 /\ shard[c] \in Int /\ s \in Int
      BY ShardsAssumption, <1>2 DEF IndexInv, TypeOK, Shards
    <3>3. s < shard'[c] <=> s < shard[c] \/ s = shard[c]
      BY <3>2
    <3> QED BY <2>2, <3>1, <3>2, <3>3
  <2> QED BY <1>2, <2>1, <2>2, <2>3 DEF ContentInv
<1>8. PlanInv'
  BY ShardsAssumption, <1>2 DEF Goto, lruVars, lockVars, IndexInv, TypeOK, LockInv, CallInv, ContentInv, PlanInv, Binding, Idle, Shards
<1>9. ScanInv'
  BY ShardsAssumption, <1>2 DEF Goto, lruVars, lockVars, IndexInv, TypeOK, ScanInv, Idle
<1> QED BY <1>3, <1>4, <1>5, <1>6, <1>7, <1>8, <1>9 DEF IndexInv

\* After the last shard i.runs loses the run too.
LEMMA DeleteRunKeepsInv ==
    ASSUME NEW c \in Clients, IndexInv, DeleteRun(c)
    PROVE  IndexInv'
<1>1. TypeOK'
  BY ShardsAssumption DEF DeleteRun, Goto, lruVars, lockVars, IndexInv, TypeOK, States, Ingesting, Binding, Idle
<1>2. LockInv'
  BY ShardsAssumption DEF DeleteRun, Goto, lruVars, lockVars, IndexInv, TypeOK, LockInv, States, Ingesting, Binding, Idle
<1>3. CallInv'
  BY ShardsAssumption DEF DeleteRun, Goto, lruVars, lockVars, IndexInv, TypeOK, CallInv, LockInv, FlightInv, ContentInv, Ingesting, Binding, Idle
<1>4. FlightInv'
  BY ShardsAssumption DEF DeleteRun, Goto, lruVars, lockVars, IndexInv, TypeOK, CallInv, FlightInv, Ingesting, Idle
<1>5. ContentInv'
  BY ShardsAssumption DEF DeleteRun, Goto, lruVars, lockVars, IndexInv, TypeOK, LockInv, CallInv, ContentInv, Ingesting, Binding, Idle, Shards
<1>6. PlanInv'
  BY ShardsAssumption DEF DeleteRun, Goto, lruVars, lockVars, IndexInv, TypeOK, LockInv, CallInv, ContentInv, PlanInv, Binding, Idle, Shards
<1>7. ScanInv'
  BY ShardsAssumption DEF DeleteRun, Goto, lruVars, lockVars, IndexInv, TypeOK, ScanInv, Idle
<1> QED BY <1>1, <1>2, <1>3, <1>4, <1>5, <1>6, <1>7 DEF IndexInv

\* With no victims left runs, LRU and shards agree again.
LEMMA EvictDoneKeepsInv ==
    ASSUME NEW c \in Clients, IndexInv, EvictDone(c)
    PROVE  IndexInv'
<1>1. /\ writer = {c} /\ \A d \in Clients : pc[d] \in {"storing", "evicting"} => d = c
  BY DEF EvictDone, IndexInv, LockInv, TypeOK
<1>2. TypeOK'
  BY ShardsAssumption, <1>1 DEF EvictDone, Goto, lruVars, lockVars, IndexInv, TypeOK, States, Ingesting, Binding, Idle
<1>3. LockInv'
  BY ShardsAssumption, <1>1 DEF EvictDone, Goto, lruVars, lockVars, IndexInv, TypeOK, LockInv, States, Ingesting, Binding, Idle
<1>4. CallInv'
  BY ShardsAssumption, <1>1 DEF EvictDone, Goto, lruVars, lockVars, IndexInv, TypeOK, CallInv, LockInv, FlightInv, ContentInv, Ingesting, Binding, Idle
<1>5. FlightInv'
  BY ShardsAssumption, <1>1 DEF EvictDone, Goto, lruVars, lockVars, IndexInv, TypeOK, CallInv, FlightInv, Ingesting, Idle
<1>6. ContentInv'
  <2>1. values = runs /\ victims = {} /\ \A s \in Shards : results[s] = runs
    <3>1. /\ pc[c] = "evicting" /\ run[c] = {} /\ victims = {}
      BY DEF EvictDone
    <3>2. /\ values = runs \ (victims \union run[c])
          /\ \A s \in Shards : results[s] = IF s < shard[c] THEN runs \ run[c] ELSE runs
      BY <3>1 DEF IndexInv, ContentInv
    <3> QED BY <3>1, <3>2
  <2>2. \A d \in Clients : pc'[d] \notin {"storing", "evicting"}
    BY <1>1 DEF EvictDone, Goto, IndexInv, TypeOK, Idle
  <2> QED BY <2>1, <2>2 DEF EvictDone, lruVars, ContentInv
<1>7. PlanInv'
  BY ShardsAssumption, <1>1 DEF EvictDone, Goto, lruVars, lockVars, IndexInv, TypeOK, LockInv, CallInv, ContentInv, PlanInv, Binding, Idle, Shards
<1>8. ScanInv'
  BY ShardsAssumption, <1>1 DEF EvictDone, Goto, lruVars, lockVars, IndexInv, TypeOK, ScanInv, Idle
<1> QED BY <1>2, <1>3, <1>4, <1>5, <1>6, <1>7, <1>8 DEF IndexInv

\* A binder that gets the read lock finds no writer inside i.m.
LEMMA BindKeepsInv ==
    ASSUME NEW c \in Clients, NEW rs \in SUBSET Runs, IndexInv, Bind(c, rs)
    PROVE  IndexInv'
<1>1. TypeOK'
  BY ShardsAssumption DEF Bind, Goto, lruVars, lockVars, MayRLock, IndexInv, TypeOK, States, Ingesting, Binding, Idle
<1>2. LockInv'
  BY ShardsAssumption DEF Bind, Goto, lruVars, lockVars, MayRLock, IndexInv, TypeOK, LockInv, States, Ingesting, Binding, Idle
<1>3. CallInv'
  BY ShardsAssumption DEF Bind, Goto, lruVars, lockVars, MayRLock, IndexInv, TypeOK, CallInv, LockInv, FlightInv, ContentInv, Ingesting, Binding, Idle
<1>4. FlightInv'
  BY ShardsAssumption DEF Bind, Goto, lruVars, lockVars, MayRLock, IndexInv, TypeOK, CallInv, FlightInv, Ingesting, Idle
<1>5. ContentInv'
  BY ShardsAssumption DEF Bind, Goto, lruVars, lockVars, MayRLock, IndexInv, TypeOK, LockInv, CallInv, ContentInv, Ingesting, Binding, Idle, Shards
<1>6. PlanInv'
  <2>1. /\ run'[c] = rs /\ rs # {} /\ shard'[c] = 1 /\ plan' = plan /\ pc'[c] = "bind"
        /\ \A d \in Clients : d # c => run'[d] = run[d] /\ shard'[d] = shard[d] /\ pc'[d] = pc[d]
    BY DEF Bind, Goto, IndexInv, TypeOK
  <2> QED BY ShardsAssumption, <2>1 DEF IndexInv, PlanInv, Shards
<1>7. ScanInv'
  BY ShardsAssumption DEF Bind, Goto, lruVars, lockVars, MayRLock, IndexInv, TypeOK, ScanInv, Idle
<1> QED BY <1>1, <1>2, <1>3, <1>4, <1>5, <1>6, <1>7 DEF IndexInv

\* A shard that knows the runs adds them to the plan; one that does not ends Bind.
LEMMA MakeIndexKeepsInv ==
    ASSUME NEW c \in Clients, IndexInv, MakeIndex(c)
    PROVE  IndexInv'
<1>1. pc[c] = "bind" /\ shard[c] \in Shards /\ run[c] # {}
      /\ \A s \in Shards : s < shard[c] => plan[c][s] = run[c]
  BY DEF MakeIndex, IndexInv, PlanInv
<1>2. writer = {} /\ c \in readers /\ \A s \in Shards : results[s] = runs
  BY <1>1 DEF IndexInv, LockInv, ContentInv, Binding
<1>3. CASE run[c] \subseteq results[shard[c]]
  <2>1. /\ plan' = [plan EXCEPT ![c][shard[c]] = run[c]]
        /\ shard' = [shard EXCEPT ![c] = @ + 1]
        /\ pc' = [pc EXCEPT ![c] = IF shard[c] = NumShards THEN "access" ELSE "bind"]
        /\ UNCHANGED <<readers, run, runs, values, older, results, inFlight, writer,
                       scanners, victims, toScan>>
    BY <1>3 DEF MakeIndex, Goto, lruVars
  <2>2. /\ plan'[c] = [plan[c] EXCEPT ![shard[c]] = run[c]]
        /\ \A d \in Clients : d # c => plan'[d] = plan[d]
    BY <2>1 DEF IndexInv, TypeOK
  <2>3. TypeOK'
    BY ShardsAssumption, <1>1, <2>1 DEF IndexInv, TypeOK, Shards, States, Binding
  <2>4. LockInv'
    BY <1>1, <2>1 DEF IndexInv, TypeOK, LockInv, Binding
  <2>5. CallInv'
    BY <1>1, <1>2, <1>3, <2>1 DEF IndexInv, TypeOK, CallInv, Ingesting, Idle
  <2>6. FlightInv'
    BY <1>1, <2>1 DEF IndexInv, TypeOK, FlightInv, Ingesting
  <2>7. ContentInv'
    BY <1>1, <1>2, <2>1 DEF IndexInv, TypeOK, LockInv, ContentInv
  <2>8. \A s \in Shards : s < shard'[c] => plan'[c][s] = run[c]
    BY ShardsAssumption, <1>1, <2>1, <2>2 DEF IndexInv, TypeOK, Shards
  <2>9. shard[c] = NumShards => \A s \in Shards : plan'[c][s] = run[c]
    BY ShardsAssumption, <2>1, <2>8 DEF IndexInv, TypeOK, Shards
  <2>10. shard[c] # NumShards => pc'[c] = "bind" /\ shard'[c] \in Shards
    BY ShardsAssumption, <1>1, <2>1 DEF IndexInv, TypeOK, Shards
  <2>11. shard[c] = NumShards => pc'[c] = "access"
    BY <2>1 DEF IndexInv, TypeOK
  <2>12. \A d \in Clients : d # c => pc'[d] = pc[d] /\ shard'[d] = shard[d] /\ run'[d] = run[d]
    BY <2>1 DEF IndexInv, TypeOK
  <2>13. PlanInv'
    BY <1>1, <2>1, <2>2, <2>8, <2>9, <2>10, <2>11, <2>12 DEF IndexInv, PlanInv
  <2>14. ScanInv'
    BY <1>1, <2>1 DEF IndexInv, TypeOK, ScanInv
  <2> QED BY <2>3, <2>4, <2>5, <2>6, <2>7, <2>13, <2>14 DEF IndexInv
<1>4. CASE ~ run[c] \subseteq results[shard[c]]
  <2>1. /\ plan' = [plan EXCEPT ![c] = NoPlan]
        /\ readers' = readers \ {c}
        /\ run' = [run EXCEPT ![c] = {}]
        /\ pc' = [pc EXCEPT ![c] = Idle]
        /\ UNCHANGED <<shard, runs, values, older, results, inFlight, writer, scanners,
                       victims, toScan>>
    BY <1>4 DEF MakeIndex, Goto, lruVars
  <2>2. \A d \in Clients : d # c => /\ pc'[d] = pc[d] /\ shard'[d] = shard[d]
                                    /\ run'[d] = run[d] /\ plan'[d] = plan[d]
    BY <2>1 DEF IndexInv, TypeOK
  <2>3. TypeOK'
    BY <2>1 DEF IndexInv, TypeOK, States, Idle, NoPlan
  <2>4. LockInv'
    BY <1>1, <2>1 DEF IndexInv, TypeOK, LockInv, Binding, Idle
  <2>5. CallInv'
    BY <1>1, <2>1 DEF IndexInv, TypeOK, CallInv, Ingesting, Idle
  <2>6. FlightInv'
    BY <1>1, <2>1 DEF IndexInv, TypeOK, FlightInv, Ingesting, Idle
  <2>7. ContentInv'
    BY <1>1, <1>2, <2>1 DEF IndexInv, TypeOK, LockInv, ContentInv, Idle
  <2>8. PlanInv'
    BY <2>1, <2>2 DEF IndexInv, TypeOK, PlanInv, Idle
  <2>9. ScanInv'
    BY <1>1, <2>1 DEF IndexInv, TypeOK, ScanInv, Idle
  <2> QED BY <2>3, <2>4, <2>5, <2>6, <2>7, <2>8, <2>9 DEF IndexInv
<1> QED BY <1>3, <1>4

\* Recording an access never brings a run into the LRU that i.runs lacks, because
\* i.m is read-locked since the plan was made.
LEMMA AccessRunKeepsInv ==
    ASSUME NEW c \in Clients, IndexInv, AccessRun(c)
    PROVE  IndexInv'
<1>1. PICK r \in run[c] :
         /\ Access(r)
         /\ run' = [run EXCEPT ![c] = @ \ {r}]
         /\ IF run[c] = {r}
            THEN readers' = readers \ {c} /\ pc' = [pc EXCEPT ![c] = "bound"]
            ELSE UNCHANGED <<readers, pc>>
  BY DEF AccessRun, Goto
<1>2. /\ pc[c] = "access"
      /\ UNCHANGED <<runs, results, inFlight, writer, scanners, shard, victims, plan, toScan>>
  BY DEF AccessRun
<1>3. /\ r \in Runs /\ c \in readers /\ writer = {} /\ values = runs /\ run[c] \subseteq runs
  BY <1>1, <1>2 DEF IndexInv, TypeOK, LockInv, CallInv, ContentInv, Binding
<1>4. values' = runs /\ older' \subseteq Runs \X Runs
  BY <1>1, <1>3 DEF Access, IndexInv, TypeOK
<1>5. TypeOK'
  BY <1>1, <1>2, <1>3, <1>4 DEF IndexInv, TypeOK, States
<1>6. \A d \in Clients : d # c => pc'[d] = pc[d] /\ run'[d] = run[d]
  BY <1>1 DEF IndexInv, TypeOK
<1>7. /\ pc'[c] = IF run[c] = {r} THEN "bound" ELSE "access"
      /\ run'[c] = run[c] \ {r}
  BY <1>1, <1>2 DEF IndexInv, TypeOK
<1>8. LockInv'
  BY <1>1, <1>2, <1>3, <1>6, <1>7 DEF IndexInv, LockInv, Binding
<1>9. CallInv'
  BY <1>2, <1>3, <1>6, <1>7 DEF IndexInv, CallInv, Ingesting, Idle
<1>10. FlightInv'
  <2>1. \A d \in Clients : /\ pc'[d] \in Ingesting <=> pc[d] \in Ingesting
                           /\ pc[d] \in Ingesting => run'[d] = run[d]
    BY <1>2, <1>6, <1>7 DEF Ingesting
  <2> QED BY <1>2, <2>1 DEF IndexInv, FlightInv
<1>11. ContentInv'
  <2>1. victims = {} /\ \A s \in Shards : results[s] = runs
    BY <1>3 DEF IndexInv, ContentInv
  <2>2. \A d \in Clients : pc'[d] \notin {"storing", "evicting"}
    BY <1>3, <1>6, <1>7 DEF IndexInv, LockInv
  <2> QED BY <1>2, <1>4, <2>1, <2>2 DEF ContentInv
<1>12. PlanInv'
  BY <1>2, <1>6, <1>7 DEF IndexInv, PlanInv
<1>13. ScanInv'
  BY <1>2, <1>6, <1>7 DEF IndexInv, TypeOK, ScanInv
<1> QED BY <1>5, <1>8, <1>9, <1>10, <1>11, <1>12, <1>13 DEF IndexInv

\* Starting the scans keeps the plan.
LEMMA ExecuteKeepsInv ==
    ASSUME NEW c \in Clients, IndexInv, Execute(c)
    PROVE  IndexInv'
<1>1. TypeOK'
  BY ShardsAssumption DEF Execute, Goto, lruVars, lockVars, IndexInv, TypeOK, States, Ingesting, Binding, Idle
<1>2. LockInv'
  BY ShardsAssumption DEF Execute, Goto, lruVars, lockVars, IndexInv, TypeOK, LockInv, States, Ingesting, Binding, Idle
<1>3. CallInv'
  BY ShardsAssumption DEF Execute, Goto, lruVars, lockVars, IndexInv, TypeOK, CallInv, LockInv, FlightInv, ContentInv, Ingesting, Binding, Idle
<1>4. FlightInv'
  BY ShardsAssumption DEF Execute, Goto, lruVars, lockVars, IndexInv, TypeOK, CallInv, FlightInv, Ingesting, Idle
<1>5. ContentInv'
  BY ShardsAssumption DEF Execute, Goto, lruVars, lockVars, IndexInv, TypeOK, LockInv, CallInv, ContentInv, Ingesting, Binding, Idle, Shards
<1>6. PlanInv'
  BY ShardsAssumption DEF Execute, Goto, lruVars, lockVars, IndexInv, TypeOK, LockInv, CallInv, ContentInv, PlanInv, Binding, Idle, Shards
<1>7. ScanInv'
  BY ShardsAssumption DEF Execute, Goto, lruVars, lockVars, IndexInv, TypeOK, ScanInv, Idle
<1> QED BY <1>1, <1>2, <1>3, <1>4, <1>5, <1>6, <1>7 DEF IndexInv

\* A scan takes its shard's read lock.
LEMMA BeginScanKeepsInv ==
    ASSUME NEW c \in Clients, NEW s \in Shards, IndexInv, BeginScan(c, s)
    PROVE  IndexInv'
<1>1. TypeOK'
  BY ShardsAssumption DEF BeginScan, Goto, lruVars, lockVars, IndexInv, TypeOK, States, Ingesting, Binding, Idle
<1>2. LockInv'
  BY ShardsAssumption DEF BeginScan, Goto, lruVars, lockVars, IndexInv, TypeOK, LockInv, States, Ingesting, Binding, Idle
<1>3. CallInv'
  BY ShardsAssumption DEF BeginScan, Goto, lruVars, lockVars, IndexInv, TypeOK, CallInv, LockInv, FlightInv, ContentInv, Ingesting, Binding, Idle
<1>4. FlightInv'
  BY ShardsAssumption DEF BeginScan, Goto, lruVars, lockVars, IndexInv, TypeOK, CallInv, FlightInv, Ingesting, Idle
<1>5. ContentInv'
  BY ShardsAssumption DEF BeginScan, Goto, lruVars, lockVars, IndexInv, TypeOK, LockInv, CallInv, ContentInv, Ingesting, Binding, Idle, Shards
<1>6. PlanInv'
  BY ShardsAssumption DEF BeginScan, Goto, lruVars, lockVars, IndexInv, TypeOK, LockInv, CallInv, ContentInv, PlanInv, Binding, Idle, Shards
<1>7. ScanInv'
  BY ShardsAssumption DEF BeginScan, Goto, lruVars, lockVars, IndexInv, TypeOK, ScanInv, Idle
<1> QED BY <1>1, <1>2, <1>3, <1>4, <1>5, <1>6, <1>7 DEF IndexInv

\* A scan that ends releases its shard; the last one drops the plan.
LEMMA EndScanKeepsInv ==
    ASSUME NEW c \in Clients, NEW s \in Shards, IndexInv, EndScan(c, s)
    PROVE  IndexInv'
<1>1. /\ c \in scanners[s] /\ s \in toScan[c] /\ pc[c] = "scanning"
      /\ scanners' = [scanners EXCEPT ![s] = @ \ {c}]
      /\ toScan' = [toScan EXCEPT ![c] = @ \ {s}]
      /\ UNCHANGED <<runs, values, older, results, inFlight, writer, readers, run, shard,
                     victims>>
  BY DEF EndScan, IndexInv, ScanInv, lruVars, lockVars
<1>2. /\ pc' = [pc EXCEPT ![c] = IF toScan[c] = {s} THEN Idle ELSE "scanning"]
      /\ plan' = [plan EXCEPT ![c] = IF toScan[c] = {s} THEN NoPlan ELSE plan[c]]
  BY <1>1 DEF EndScan, Goto, IndexInv, TypeOK
<1>3. TypeOK'
  BY <1>1, <1>2 DEF IndexInv, TypeOK, States, Idle, NoPlan
<1>4. \A d \in Clients : d # c => pc'[d] = pc[d] /\ plan'[d] = plan[d] /\ toScan'[d] = toScan[d]
  BY <1>1, <1>2 DEF IndexInv, TypeOK
<1>5. /\ pc'[c] = IF toScan[c] = {s} THEN Idle ELSE "scanning"
      /\ plan'[c] = IF toScan[c] = {s} THEN NoPlan ELSE plan[c]
  BY <1>2 DEF IndexInv, TypeOK
<1>6. LockInv'
  BY <1>1, <1>4, <1>5 DEF IndexInv, LockInv, Binding, Idle
<1>7. CallInv'
  BY <1>1, <1>4, <1>5 DEF IndexInv, CallInv, Ingesting, Idle
<1>8. FlightInv'
  <2>1. \A d \in Clients : pc'[d] \in Ingesting <=> pc[d] \in Ingesting
    BY <1>1, <1>4, <1>5 DEF Ingesting, Idle
  <2> QED BY <1>1, <2>1 DEF IndexInv, FlightInv
<1>9. ContentInv'
  <2>1. \A d \in Clients : /\ pc'[d] = "storing" => pc[d] = "storing"
                           /\ pc'[d] = "evicting" => pc[d] = "evicting"
    BY <1>4, <1>5 DEF Idle
  <2> QED BY <1>1, <2>1 DEF IndexInv, ContentInv
<1>10. PlanInv'
  BY <1>1, <1>4, <1>5 DEF IndexInv, PlanInv, Idle
<1>11. ScanInv'
  BY <1>1, <1>4, <1>5 DEF IndexInv, TypeOK, ScanInv, Idle
<1> QED BY <1>3, <1>6, <1>7, <1>8, <1>9, <1>10, <1>11 DEF IndexInv

\* The index starts empty and unlocked, in a state of the invariant.
LEMMA InitInv == Init => IndexInv
  BY ShardsAssumption DEF Init, IndexInv, TypeOK, LockInv, CallInv, FlightInv, ContentInv,
     PlanInv, ScanInv, States, Ingesting, Binding, Idle, Shards, NoPlan

\* Steps that change nothing keep the invariant.
LEMMA StutterKeepsInv == IndexInv /\ UNCHANGED vars => IndexInv'
<1> SUFFICES ASSUME IndexInv, UNCHANGED vars
             PROVE  IndexInv'
  OBVIOUS
<1>1. TypeOK' /\ LockInv' /\ CallInv'
  BY DEF IndexInv, TypeOK, LockInv, CallInv, vars
<1>2. FlightInv' /\ ContentInv'
  BY DEF IndexInv, FlightInv, ContentInv, vars
<1>3. PlanInv' /\ ScanInv'
  BY DEF IndexInv, PlanInv, ScanInv, vars
<1> QED BY <1>1, <1>2, <1>3 DEF IndexInv

\* Whatever any goroutine does to the index keeps the invariant.
LEMMA NextKeepsInv == IndexInv /\ [Next]_vars => IndexInv'
<1> SUFFICES ASSUME IndexInv, Next
             PROVE  IndexInv'
  BY StutterKeepsInv
<1>1. PICK c \in Clients : Step(c)
  BY DEF Next
<1>2. CASE \E r \in Runs : IngestRun(c, r)
  BY <1>2, IngestRunKeepsInv
<1>3. CASE Load(c) \/ StoreRun(c) \/ StoreOnShard(c) \/ PublishRun(c) \/ ClearInProgress(c)
  BY <1>3, LoadKeepsInv, StoreRunKeepsInv, StoreOnShardKeepsInv, PublishRunKeepsInv,
     ClearInProgressKeepsInv
<1>4. CASE EvictRuns(c) \/ NextVictim(c) \/ DeleteFromShard(c) \/ DeleteRun(c) \/ EvictDone(c)
  BY <1>4, EvictRunsKeepsInv, NextVictimKeepsInv, DeleteFromShardKeepsInv,
     DeleteRunKeepsInv, EvictDoneKeepsInv
<1>5. CASE \E rs \in SUBSET Runs : Bind(c, rs)
  BY <1>5, BindKeepsInv
<1>6. CASE MakeIndex(c) \/ AccessRun(c) \/ Execute(c)
  BY <1>6, MakeIndexKeepsInv, AccessRunKeepsInv, ExecuteKeepsInv
<1>7. CASE \E s \in Shards : BeginScan(c, s) \/ EndScan(c, s)
  BY <1>7, BeginScanKeepsInv, EndScanKeepsInv
<1> QED BY <1>1, <1>2, <1>3, <1>4, <1>5, <1>6, <1>7 DEF Step

\* The invariant holds in every reachable state of the index.
THEOREM IndexInvariant == Spec => []IndexInv
<1> QED BY InitInv, NextKeepsInv, PTL DEF Spec

\* The variables always have values the Go structures can have.
THEOREM TypeCorrect == Spec => []TypeOK
<1>1. IndexInv => TypeOK
  BY DEF IndexInv
<1> QED BY <1>1, IndexInvariant, PTL

\* The runs, the LRU and every shard agree whenever no writer is inside i.m, for
\* any number of goroutines ingesting, evicting and searching.
THEOREM AgreementHolds == Spec => []Agreement
<1>1. IndexInv => Agreement
  BY DEF IndexInv, ContentInv, Agreement
<1> QED BY <1>1, IndexInvariant, PTL

\* syncStoreRun and syncEvictRuns never meet the error that would make them return
\* half-way.
THEOREM ErrorPathsUnreachable == Spec => []NoInternalError
<1>1. IndexInv => NoInternalError
  BY DEF IndexInv, TypeOK, CallInv, ContentInv, NoInternalError, Shards
<1> QED BY <1>1, IndexInvariant, PTL

\* A run has at most one loader, and i.inFlight lists the runs that have one.
THEOREM OneLoaderPerRun == Spec => []SingleLoader
<1>1. IndexInv => SingleLoader
  <2> SUFFICES ASSUME IndexInv PROVE SingleLoader
    OBVIOUS
  <2>1. inFlight = UNION {run[c] : c \in {d \in Clients : pc[d] \in Ingesting}}
    BY DEF IndexInv, FlightInv
  <2> QED BY <2>1 DEF IndexInv, FlightInv, SingleLoader
<1> QED BY <1>1, IndexInvariant, PTL

\* A plan that Bind returned covers the same runs in every shard until Execute has
\* used it up, whatever is evicted or ingested meanwhile.
THEOREM PlansStayWhole == Spec => []PlansAreWhole
<1>1. IndexInv => PlansAreWhole
  BY DEF IndexInv, PlanInv, PlansAreWhole
<1> QED BY <1>1, IndexInvariant, PTL

-------------------------------------------------------------------------------
(* SearchIndex implements RunCache.  Seven steps of the index are visible to the *)
(* abstract cache: taking a run in, giving up on its report, publishing it,      *)
(* returning from IngestRun, the LRU's choice of victims, the last shard of a    *)
(* plan and the last scan.  All the others map to stuttering.                    *)

Loaders == {"load", "store", "storing"}
Holders == {"access", "bound", "scanning"}

Answers == [c \in Clients |-> Covered(c)]

Simulated == [Cache!CacheNext]_(Cache!cacheVars)

-------------------------------------------------------------------------------
(* The refinement mapping *)

\* Which runs are unpublished, client by client.
LEMMA UnpublishedMembers ==
    \A r : r \in Unpublished <=> \E c \in Clients : pc[c] \in Loaders /\ r \in run[c]
  BY DEF Unpublished, Loaders

\* The same of the next state.
LEMMA UnpublishedMembersNext ==
    \A r : r \in Unpublished' <=> \E c \in Clients : pc'[c] \in Loaders /\ r \in run'[c]
  BY DEF Unpublished, Loaders

\* A step that moves nobody in or out of loading and changes no loader's run leaves
\* the unpublished runs alone.
LEMMA UnpublishedFrame ==
    ASSUME \A c \in Clients : /\ pc'[c] \in Loaders <=> pc[c] \in Loaders
                              /\ pc[c] \in Loaders => run'[c] = run[c]
    PROVE  Unpublished' = Unpublished
<1>1. \A r : r \in Unpublished' <=> r \in Unpublished
  BY UnpublishedMembers, UnpublishedMembersNext
<1> QED BY <1>1

\* A step that moves nobody in or out of the holders of a plan and changes no
\* holder's plan leaves the answers alone.
LEMMA AnswersFrame ==
    ASSUME \A c \in Clients : /\ pc'[c] \in Holders <=> pc[c] \in Holders
                              /\ pc[c] \in Holders => plan'[c] = plan[c]
    PROVE  Answers' = Answers
<1>1. \A c \in Clients : Covered(c)' = Covered(c)
  BY DEF Covered, Holders
<1> QED BY <1>1 DEF Answers

\* A step that changes neither the LRU's keys, i.inFlight, the unpublished runs nor
\* the answers is a stuttering step of the cache.
LEMMA StutterSimulated ==
    ASSUME UNCHANGED <<values, inFlight, Unpublished, Answers>>
    PROVE  Simulated
  BY DEF Simulated, Cache!cacheVars, Answers

\* While c holds a plan, its parts cover the same runs, and these are the answer.
LEMMA CoveredByPlan ==
    ASSUME IndexInv, NEW c \in Clients, pc[c] \in Holders, NEW s \in Shards
    PROVE  Covered(c) = plan[c][s] /\ Covered(c) # {}
<1>1. \A t \in Shards : plan[c][t] = plan[c][s] /\ plan[c][s] # {}
  BY DEF IndexInv, PlanInv, Holders
<1>2. plan[c][s] \in SUBSET Runs
  BY DEF IndexInv, TypeOK
<1> QED BY <1>1, <1>2 DEF Covered, Holders

-------------------------------------------------------------------------------
(* The visible steps *)

\* syncMarkInProgress accepts the run.
LEMMA IngestRunSimulated ==
    ASSUME IndexInv, NEW c \in Clients, NEW r \in Runs, IngestRun(c, r)
    PROVE  Simulated
<1>1. /\ pc[c] = Idle /\ writer = {} /\ r \notin runs /\ r \notin inFlight
      /\ inFlight' = inFlight \union {r}
      /\ UNCHANGED <<values, plan>>
  BY DEF IngestRun, MayLock, MayIngest, lruVars
<1>2. /\ pc'[c] = "load" /\ run'[c] = {r}
      /\ \A d \in Clients : d # c => pc'[d] = pc[d] /\ run'[d] = run[d]
  BY DEF IngestRun, Goto, IndexInv, TypeOK
<1>3. r \notin values \union inFlight
  BY <1>1 DEF IndexInv, ContentInv
<1>4. Unpublished' = Unpublished \union {r}
  <2>1. \A q : q \in Unpublished' <=> q \in Unpublished \/ q = r
    BY <1>1, <1>2, UnpublishedMembers, UnpublishedMembersNext DEF Loaders, Idle
  <2> QED BY <2>1
<1>5. Answers' = Answers
  BY <1>1, <1>2, AnswersFrame DEF Holders, Idle
<1>6. Cache!Accept(r)
  BY <1>1, <1>3, <1>4, <1>5 DEF Cache!Accept, Answers
<1> QED BY <1>6 DEF Simulated, Cache!CacheNext

\* Two loaders never share a run, so the run of a call that leaves the loaders is
\* unpublished before the step and not after it.
LEMMA LeavingLoaders ==
    ASSUME IndexInv, NEW c \in Clients, NEW r \in Runs, pc[c] \in Loaders, run[c] = {r},
           pc'[c] = "clear", run' = run, \A d \in Clients : d # c => pc'[d] = pc[d]
    PROVE  r \in Unpublished /\ Unpublished' = Unpublished \ {r}
<1>1. \A d \in Clients : d # c /\ pc[d] \in Loaders => r \notin run[d]
  BY DEF IndexInv, FlightInv, Loaders, Ingesting
<1>2. \A q : q \in Unpublished' <=> q \in Unpublished /\ q # r
  BY <1>1, UnpublishedMembers, UnpublishedMembersNext DEF Loaders
<1> QED BY <1>2, UnpublishedMembers

\* A report that cannot be loaded abandons the run; one that can changes nothing yet.
LEMMA LoadSimulated ==
    ASSUME IndexInv, NEW c \in Clients, Load(c)
    PROVE  Simulated
<1>1. PICK outcome \in {"store", "clear"} : pc' = [pc EXCEPT ![c] = outcome]
  BY DEF Load, Goto
<1>2. pc[c] = "load" /\ UNCHANGED <<values, inFlight, run, plan>>
  BY DEF Load, lruVars
<1>3. pc'[c] = outcome /\ \A d \in Clients : d # c => pc'[d] = pc[d]
  BY <1>1 DEF IndexInv, TypeOK
<1>4. Answers' = Answers
  BY <1>2, <1>3, AnswersFrame DEF Holders
<1>5. CASE outcome = "store"
  <2>1. Unpublished' = Unpublished
    BY <1>2, <1>3, <1>5, UnpublishedFrame DEF Loaders
  <2> QED BY <1>2, <1>4, <2>1, StutterSimulated
<1>6. CASE outcome = "clear"
  <2>1. PICK r \in Runs : run[c] = {r}
    BY <1>2 DEF IndexInv, CallInv, Ingesting
  <2>2. r \in Unpublished /\ Unpublished' = Unpublished \ {r}
    BY <1>2, <1>3, <1>6, <2>1, LeavingLoaders DEF Loaders
  <2>3. Cache!Abandon(r)
    BY <1>2, <1>4, <2>2 DEF Cache!Abandon, Answers
  <2> QED BY <2>3 DEF Simulated, Cache!CacheNext
<1> QED BY <1>5, <1>6

\* The run becomes searchable when i.runs and the LRU learn of it.
LEMMA PublishRunSimulated ==
    ASSUME IndexInv, NEW c \in Clients, PublishRun(c)
    PROVE  Simulated
<1>1. PICK r \in run[c] : Access(r)
  BY DEF PublishRun
<1>2. pc[c] = "storing" /\ UNCHANGED <<inFlight, run, plan>>
  BY DEF PublishRun
<1>3. r \in Runs /\ run[c] = {r}
  BY <1>1, <1>2 DEF IndexInv, CallInv, TypeOK, Ingesting
<1>4. pc'[c] = "clear" /\ \A d \in Clients : d # c => pc'[d] = pc[d]
  BY DEF PublishRun, Goto, IndexInv, TypeOK
<1>5. values' = values \union {r}
  BY <1>1 DEF Access
<1>6. r \in Unpublished /\ Unpublished' = Unpublished \ {r}
  BY <1>2, <1>3, <1>4, LeavingLoaders DEF Loaders
<1>7. Answers' = Answers
  BY <1>2, <1>4, AnswersFrame DEF Holders
<1>8. Cache!Publish(r)
  BY <1>2, <1>5, <1>6, <1>7 DEF Cache!Publish, Answers
<1> QED BY <1>3, <1>8 DEF Simulated, Cache!CacheNext

\* IngestRun returns: its run, which no loader has, may be offered again.
LEMMA ClearInProgressSimulated ==
    ASSUME IndexInv, NEW c \in Clients, ClearInProgress(c)
    PROVE  Simulated
<1>1. /\ pc[c] = "clear" /\ inFlight' = inFlight \ run[c]
      /\ UNCHANGED <<values, plan>>
  BY DEF ClearInProgress, lruVars
<1>2. /\ pc'[c] = Idle
      /\ \A d \in Clients : d # c => pc'[d] = pc[d] /\ run'[d] = run[d]
  BY DEF ClearInProgress, Goto, IndexInv, TypeOK
<1>3. PICK r \in Runs : run[c] = {r}
  BY <1>1 DEF IndexInv, CallInv, Ingesting
<1>4. r \in inFlight \ Unpublished
  <2>1. r \in inFlight
    BY <1>1, <1>3 DEF IndexInv, FlightInv, Ingesting
  <2>2. \A d \in Clients : pc[d] \in Loaders => r \notin run[d]
    BY <1>1, <1>3 DEF IndexInv, FlightInv, Loaders, Ingesting
  <2> QED BY <2>1, <2>2, UnpublishedMembers
<1>5. Unpublished' = Unpublished
  BY <1>1, <1>2, UnpublishedFrame DEF Loaders, Idle
<1>6. Answers' = Answers
  BY <1>1, <1>2, AnswersFrame DEF Holders, Idle
<1>7. Cache!Release(r)
  BY <1>1, <1>3, <1>4, <1>5, <1>6 DEF Cache!Release, Answers
<1> QED BY <1>7 DEF Simulated, Cache!CacheNext

\* math.Max(1.0, ...): an eviction always asks for a run.
LEMMA EvictsSomething == \A n : NumToEvict(n) # 0
  BY DEF NumToEvict

\* The LRU's choice is a batch of at least one held run.
LEMMA EvictRunsSimulated ==
    ASSUME IndexInv, NEW c \in Clients, EvictRuns(c)
    PROVE  Simulated
<1>1. PICK old \in Oldest(NumToEvict(Cardinality(values))) : values' = values \ old
  BY DEF EvictRuns
<1>2. old \subseteq values /\ Cardinality(old) = NumToEvict(Cardinality(values))
  BY <1>1 DEF Oldest
<1>3. old # {}
  BY <1>2, EvictsSomething, FS_EmptySet
<1>4. pc[c] = Idle /\ UNCHANGED <<inFlight, run, plan>>
  BY DEF EvictRuns
<1>5. pc'[c] = "evicting" /\ \A d \in Clients : d # c => pc'[d] = pc[d]
  BY DEF EvictRuns, Goto, IndexInv, TypeOK
<1>6. Unpublished' = Unpublished
  BY <1>4, <1>5, UnpublishedFrame DEF Loaders, Idle
<1>7. Answers' = Answers
  BY <1>4, <1>5, AnswersFrame DEF Holders, Idle
<1>8. Cache!Evict(old)
  BY <1>1, <1>2, <1>3, <1>4, <1>6, <1>7 DEF Cache!Evict, Answers
<1>9. old \in SUBSET Runs
  BY <1>2 DEF IndexInv, TypeOK
<1> QED BY <1>8, <1>9 DEF Simulated, Cache!CacheNext

\* The plan is complete when the last shard has added the runs, all held, to it;
\* before, and when a shard refuses, nobody sees it.
LEMMA MakeIndexSimulated ==
    ASSUME IndexInv, NEW c \in Clients, MakeIndex(c)
    PROVE  Simulated
<1>1. /\ pc[c] = "bind" /\ shard[c] \in Shards /\ run[c] # {} /\ run[c] \in SUBSET Runs
      /\ \A s \in Shards : s < shard[c] => plan[c][s] = run[c]
      /\ UNCHANGED <<values, inFlight>>
  BY DEF MakeIndex, lruVars, IndexInv, TypeOK, PlanInv
<1>2. values = runs /\ \A s \in Shards : results[s] = runs
  BY <1>1 DEF IndexInv, LockInv, ContentInv, Binding
<1>3. \A d \in Clients : d # c => /\ pc'[d] = pc[d] /\ run'[d] = run[d]
                                  /\ plan'[d] = plan[d]
  BY DEF MakeIndex, Goto, IndexInv, TypeOK
<1>4. pc'[c] \in {"bind", "access", Idle}
  BY DEF MakeIndex, Goto, IndexInv, TypeOK
<1>5. Unpublished' = Unpublished
  BY <1>1, <1>3, <1>4, UnpublishedFrame DEF Loaders, Idle
<1>6. CASE pc'[c] # "access"
  <2>1. Answers' = Answers
    BY <1>1, <1>3, <1>4, <1>6, AnswersFrame DEF Holders, Idle
  <2> QED BY <1>1, <1>5, <2>1, StutterSimulated
<1>7. CASE pc'[c] = "access"
  <2>1. /\ run[c] \subseteq results[shard[c]] /\ shard[c] = NumShards
        /\ plan'[c] = [plan[c] EXCEPT ![shard[c]] = run[c]]
    BY <1>7 DEF MakeIndex, Goto, IndexInv, TypeOK, Idle
  <2>2. \A s \in Shards : plan'[c][s] = run[c]
    BY ShardsAssumption, <1>1, <2>1 DEF IndexInv, TypeOK, Shards
  <2>3. Covered(c)' = run[c]
    <3>1. \E s \in Shards : TRUE
      BY <1>1
    <3>2. {r \in Runs : \A s \in Shards : r \in plan'[c][s]} = run[c]
      BY <1>1, <2>2, <3>1
    <3> QED BY <1>7, <3>2 DEF Covered
  <2>4. Covered(c) = {}
    BY <1>1 DEF Covered
  <2>5. \A d \in Clients : d # c => Covered(d)' = Covered(d)
    BY <1>3 DEF Covered
  <2>6. Answers[c] = {} /\ Answers' = [Answers EXCEPT ![c] = run[c]]
    BY <2>3, <2>4, <2>5 DEF Answers
  <2>7. run[c] \subseteq values
    BY <1>1, <1>2, <2>1
  <2>8. Cache!Answer(c, run[c])
    BY <1>1, <1>5, <2>6, <2>7 DEF Cache!Answer, Answers
  <2> QED BY <1>1, <2>8 DEF Simulated, Cache!CacheNext
<1> QED BY <1>6, <1>7

\* The last scan drops the plan; the others leave it alone.
LEMMA EndScanSimulated ==
    ASSUME IndexInv, NEW c \in Clients, NEW s \in Shards, EndScan(c, s)
    PROVE  Simulated
<1>1. pc[c] = "scanning" /\ UNCHANGED <<values, inFlight, run>>
  BY DEF EndScan, lruVars, IndexInv, ScanInv
<1>2. \A d \in Clients : d # c => pc'[d] = pc[d] /\ plan'[d] = plan[d]
  BY DEF EndScan, Goto, IndexInv, TypeOK
<1>3. \/ pc'[c] = Idle
      \/ pc'[c] = "scanning" /\ plan' = plan
  BY <1>1 DEF EndScan, Goto, IndexInv, TypeOK
<1>4. Unpublished' = Unpublished
  BY <1>1, <1>2, <1>3, UnpublishedFrame DEF Loaders, Idle
<1>5. CASE pc'[c] = "scanning" /\ plan' = plan
  <2>1. Answers' = Answers
    BY <1>1, <1>2, <1>5, AnswersFrame DEF Holders
  <2> QED BY <1>1, <1>4, <2>1, StutterSimulated
<1>6. CASE pc'[c] = Idle
  <2>1. Covered(c) # {}
    BY <1>1, CoveredByPlan DEF Holders
  <2>2. Covered(c)' = {}
    BY <1>6 DEF Covered, Idle
  <2>3. \A d \in Clients : d # c => Covered(d)' = Covered(d)
    BY <1>2 DEF Covered
  <2>4. Answers[c] # {} /\ Answers' = [Answers EXCEPT ![c] = {}]
    BY <2>1, <2>2, <2>3 DEF Answers
  <2>5. Cache!Drop(c)
    BY <1>1, <1>4, <2>4 DEF Cache!Drop, Answers
  <2> QED BY <2>5 DEF Simulated, Cache!CacheNext
<1> QED BY <1>3, <1>5, <1>6

-------------------------------------------------------------------------------
(* The steps the abstract cache does not see *)

\* The storing loop works on shards that searches cannot reach before i.m is
\* released.
LEMMA StoringSimulated ==
    ASSUME IndexInv, NEW c \in Clients, StoreRun(c) \/ StoreOnShard(c)
    PROVE  Simulated
<1>1. pc[c] \in {"store", "storing"} /\ UNCHANGED <<values, inFlight, run, plan>>
  BY DEF StoreRun, StoreOnShard, lruVars
<1>2. pc'[c] = "storing" /\ \A d \in Clients : d # c => pc'[d] = pc[d]
  <2>1. CASE StoreRun(c)
    BY <2>1 DEF StoreRun, Goto, IndexInv, TypeOK
  <2>2. CASE StoreOnShard(c)
    <3>1. run[c] \intersect results[shard[c]] = {}
      BY <2>2 DEF StoreOnShard, IndexInv, TypeOK, CallInv, ContentInv, Shards
    <3> QED BY <2>2, <3>1 DEF StoreOnShard
  <2> QED BY <2>1, <2>2
<1>3. Unpublished' = Unpublished
  BY <1>1, <1>2, UnpublishedFrame DEF Loaders
<1>4. Answers' = Answers
  BY <1>1, <1>2, AnswersFrame DEF Holders
<1> QED BY <1>1, <1>3, <1>4, StutterSimulated

\* The victims have left the cache already when their results are deleted.
LEMMA DeletingSimulated ==
    ASSUME IndexInv, NEW c \in Clients,
           NextVictim(c) \/ DeleteFromShard(c) \/ DeleteRun(c) \/ EvictDone(c)
    PROVE  Simulated
<1>1. pc[c] = "evicting" /\ UNCHANGED <<values, inFlight, plan>>
  BY DEF NextVictim, DeleteFromShard, DeleteRun, EvictDone, lruVars, lockVars
<1>2. /\ pc'[c] \in {"evicting", Idle}
      /\ \A d \in Clients : d # c => pc'[d] = pc[d] /\ run'[d] = run[d]
  <2>1. CASE NextVictim(c)
    BY <2>1 DEF NextVictim, IndexInv, TypeOK
  <2>2. CASE DeleteFromShard(c)
    BY <2>2 DEF DeleteFromShard, Goto, IndexInv, TypeOK
  <2>3. CASE DeleteRun(c) \/ EvictDone(c)
    BY <2>3 DEF DeleteRun, EvictDone, Goto, IndexInv, TypeOK
  <2> QED BY <2>1, <2>2, <2>3
<1>3. Unpublished' = Unpublished
  BY <1>1, <1>2, UnpublishedFrame DEF Loaders, Idle
<1>4. Answers' = Answers
  BY <1>1, <1>2, AnswersFrame DEF Holders, Idle
<1> QED BY <1>1, <1>3, <1>4, StutterSimulated

\* A binder that starts, and a scan that starts, do not touch a plan somebody holds.
LEMMA StartingSimulated ==
    ASSUME IndexInv, NEW c \in Clients,
           \/ \E rs \in SUBSET Runs : Bind(c, rs)
           \/ Execute(c)
           \/ \E s \in Shards : BeginScan(c, s)
    PROVE  Simulated
<1>1. UNCHANGED <<values, inFlight, plan>>
  BY DEF Bind, Execute, BeginScan, lruVars
<1>2. /\ pc[c] \in Holders <=> pc'[c] \in Holders
      /\ pc[c] \notin Loaders /\ pc'[c] \notin Loaders
      /\ \A d \in Clients : d # c => pc'[d] = pc[d] /\ run'[d] = run[d]
  <2>1. CASE \E rs \in SUBSET Runs : Bind(c, rs)
    BY <2>1 DEF Bind, Goto, IndexInv, TypeOK, Holders, Loaders, Idle
  <2>2. CASE Execute(c)
    BY <2>2 DEF Execute, Goto, IndexInv, TypeOK, Holders, Loaders
  <2>3. CASE \E s \in Shards : BeginScan(c, s)
    BY <2>3 DEF BeginScan, IndexInv, ScanInv, Holders, Loaders
  <2> QED BY <2>1, <2>2, <2>3
<1>3. Unpublished' = Unpublished
  BY <1>2, UnpublishedFrame
<1>4. Answers' = Answers
  BY <1>1, <1>2, AnswersFrame
<1> QED BY <1>1, <1>3, <1>4, StutterSimulated

\* lru.Access during Bind only touches runs the LRU has: it brings none back.
LEMMA AccessRunSimulated ==
    ASSUME IndexInv, NEW c \in Clients, AccessRun(c)
    PROVE  Simulated
<1>1. PICK r \in run[c] : Access(r)
  BY DEF AccessRun
<1>2. pc[c] = "access" /\ UNCHANGED <<inFlight, plan>>
  BY DEF AccessRun
<1>3. /\ pc'[c] \in {"access", "bound"}
      /\ \A d \in Clients : d # c => pc'[d] = pc[d] /\ run'[d] = run[d]
  BY <1>2 DEF AccessRun, Goto, IndexInv, TypeOK
<1>4. values' = values
  <2>1. r \in runs /\ values = runs
    BY <1>1, <1>2 DEF IndexInv, LockInv, CallInv, ContentInv, Binding
  <2> QED BY <1>1, <2>1 DEF Access
<1>5. Unpublished' = Unpublished
  BY <1>2, <1>3, UnpublishedFrame DEF Loaders
<1>6. Answers' = Answers
  BY <1>2, <1>3, AnswersFrame DEF Holders
<1> QED BY <1>2, <1>4, <1>5, <1>6, StutterSimulated

-------------------------------------------------------------------------------
\* An empty index is an empty cache.
LEMMA InitSimulated == Init => Cache!CacheInit
<1> SUFFICES ASSUME Init PROVE Cache!CacheInit
  OBVIOUS
<1>1. Unpublished = {}
  BY UnpublishedMembers DEF Init, Loaders, Idle
<1>2. \A c \in Clients : Covered(c) = {}
  BY DEF Init, Covered, Idle
<1> QED BY <1>1, <1>2 DEF Init, Cache!CacheInit

\* Whatever a goroutine does to the index is a step of the cache or none.
LEMMA NextSimulated == IndexInv /\ [Next]_vars => Simulated
<1> SUFFICES ASSUME IndexInv, [Next]_vars PROVE Simulated
  OBVIOUS
<1>1. CASE UNCHANGED vars
  <2>1. Unpublished' = Unpublished
    BY <1>1, UnpublishedFrame DEF vars
  <2>2. Answers' = Answers
    BY <1>1, AnswersFrame DEF vars
  <2> QED BY <1>1, <2>1, <2>2, StutterSimulated DEF vars
<1>2. CASE Next
  <2>1. PICK c \in Clients : Step(c)
    BY <1>2 DEF Next
  <2>2. CASE \/ \E r \in Runs : IngestRun(c, r)
             \/ Load(c) \/ PublishRun(c) \/ ClearInProgress(c) \/ EvictRuns(c)
    BY <2>2, IngestRunSimulated, LoadSimulated, PublishRunSimulated,
       ClearInProgressSimulated, EvictRunsSimulated
  <2>3. CASE MakeIndex(c) \/ \E s \in Shards : EndScan(c, s)
    BY <2>3, MakeIndexSimulated, EndScanSimulated
  <2>4. CASE StoreRun(c) \/ StoreOnShard(c)
    BY <2>4, StoringSimulated
  <2>5. CASE NextVictim(c) \/ DeleteFromShard(c) \/ DeleteRun(c) \/ EvictDone(c)
    BY <2>5, DeletingSimulated
  <2>6. CASE \/ \E rs \in SUBSET Runs : Bind(c, rs)
             \/ Execute(c)
             \/ \E s \in Shards : BeginScan(c, s)
    BY <2>6, StartingSimulated
  <2>7. CASE AccessRun(c)
    BY <2>7, AccessRunSimulated
  <2> QED BY <2>1, <2>2, <2>3, <2>4, <2>5, <2>6, <2>7 DEF Step
<1> QED BY <1>1, <1>2

\* The sharded index with its locks, LRU and per-shard loops behaves as a cache in
\* which runs appear and disappear in single steps.
THEOREM IndexIsARunCache == Spec => ImplementsRunCache
<1>1. IndexInv /\ [Next]_vars => [Cache!CacheNext]_(Cache!cacheVars)
  BY NextSimulated DEF Simulated
<1> QED BY InitSimulated, <1>1, IndexInvariant, PTL DEF Spec, ImplementsRunCache, Cache!CacheSpec

===============================================================================
