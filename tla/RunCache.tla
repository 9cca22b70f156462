------------------------------- MODULE RunCache -------------------------------
(***************************************************************************)
(* What the search cache promises, with no locks, shards or LRU in sight:  *)
(* the interface index.Index of api/query/cache/index/index.go.            *)
(*                                                                         *)
(* Ingesting a run is exclusive (errRunExists, errRunLoading), a run       *)
(* becomes searchable all at once, runs leave the cache in batches, and a  *)
(* search is answered only from runs that are entirely in the cache.       *)
(* SearchIndex implements this specification.                              *)
(***************************************************************************)
CONSTANTS Runs,     \* the IDs of the test runs that may be ingested
          Clients   \* the goroutines that call the index

VARIABLES held,     \* the runs a search can use
          loading,  \* the runs some IngestRun call is responsible for
          fresh,    \* the loading runs whose report is not stored yet
          answers   \* per client, the runs its current query plan covers

cacheVars == <<held, loading, fresh, answers>>

CacheTypeOK ==
    /\ held \subseteq Runs
    /\ loading \subseteq Runs
    /\ fresh \subseteq loading
    /\ answers \in [Clients -> SUBSET Runs]

CacheInit ==
    /\ held = {}
    /\ loading = {}
    /\ fresh = {}
    /\ answers = [c \in Clients |-> {}]

(***************************************************************************)
(* IngestRun accepts a run that is neither held nor being loaded.          *)
(***************************************************************************)
Accept(r) ==
    /\ r \notin held \union loading
    /\ loading' = loading \union {r}
    /\ fresh' = fresh \union {r}
    /\ UNCHANGED <<held, answers>>

(***************************************************************************)
(* The run's results become searchable, in every shard at once.            *)
(***************************************************************************)
Publish(r) ==
    /\ r \in fresh
    /\ held' = held \union {r}
    /\ fresh' = fresh \ {r}
    /\ UNCHANGED <<loading, answers>>

(***************************************************************************)
(* The report cannot be loaded: the run does not become searchable.        *)
(***************************************************************************)
Abandon(r) ==
    /\ r \in fresh
    /\ fresh' = fresh \ {r}
    /\ UNCHANGED <<held, loading, answers>>

(***************************************************************************)
(* IngestRun returns; the run may be offered again.                        *)
(***************************************************************************)
Release(r) ==
    /\ r \in loading \ fresh
    /\ loading' = loading \ {r}
    /\ UNCHANGED <<held, fresh, answers>>

(***************************************************************************)
(* EvictRuns removes a batch of at least one run.                          *)
(***************************************************************************)
Evict(batch) ==
    /\ batch # {}
    /\ batch \subseteq held
    /\ held' = held \ batch
    /\ UNCHANGED <<loading, fresh, answers>>

(***************************************************************************)
(* Bind makes a plan over runs that are all held.  The plan outlives an    *)
(* eviction: it refers to the results themselves.                          *)
(***************************************************************************)
Answer(c, rs) ==
    /\ answers[c] = {}
    /\ rs # {}
    /\ rs \subseteq held
    /\ answers' = [answers EXCEPT ![c] = rs]
    /\ UNCHANGED <<held, loading, fresh>>

(***************************************************************************)
(* The query has been executed and its plan is dropped.                    *)
(***************************************************************************)
Drop(c) ==
    /\ answers[c] # {}
    /\ answers' = [answers EXCEPT ![c] = {}]
    /\ UNCHANGED <<held, loading, fresh>>

CacheNext ==
    \/ \E r \in Runs : Accept(r) \/ Publish(r) \/ Abandon(r) \/ Release(r)
    \/ \E batch \in SUBSET Runs : Evict(batch)
    \/ \E c \in Clients : Drop(c) \/ \E rs \in SUBSET Runs : Answer(c, rs)

CacheSpec == CacheInit /\ [][CacheNext]_cacheVars
===============================================================================
