---------------------------- MODULE SearchService -----------------------------
(***************************************************************************)
(* searchHandlerImpl (api/query/cache/service/search.go): a search looks   *)
(* its runs up, spawns an ingestion for every one the index lacks          *)
(* (write-on-read), and searches the others.  Look-up, Bind and Execute    *)
(* are separate calls of the index, between which the poller ingests and   *)
(* the monitor evicts.                                                     *)
(*                                                                         *)
(* The index is the RunCache that SearchIndex implements.  IngestMonitor   *)
(* shows that an ingestion is not left waiting for the monitor, so here    *)
(* that wait is only a step that is eventually taken.                      *)
(***************************************************************************)
EXTENDS RunCache, Integers, FiniteSets

CONSTANT MaxRunsPerRequest   \* -max_runs_per_request

ASSUME MaxRunsAssumption == MaxRunsPerRequest \in Nat

VARIABLES
    search,     \* client |-> where its request is
    asked,      \* client |-> rq.RunIDs
    found,      \* client |-> ids / runs
    missing,    \* client |-> missing
    code,       \* client |-> the response's status (0 while there is none)
    wor,        \* client |-> run |-> where the write-on-read goroutine is.  Bound:
                \* a client looks no run up again before that goroutine has ended
    elsewhere   \* the runs that the poller or the backfiller is ingesting

handlerVars == <<search, asked, found, missing, code>>
vars == <<cacheVars, handlerVars, wor, elsewhere>>

Init ==
    /\ CacheInit
    /\ search = [c \in Clients |-> "idle"]
    /\ asked = [c \in Clients |-> {}]
    /\ found = [c \in Clients |-> {}]
    /\ missing = [c \in Clients |-> {}]
    /\ code = [c \in Clients |-> 0]
    /\ wor = [c \in Clients |-> [r \in Runs |-> "none"]]
    /\ elsewhere = {}

-------------------------------------------------------------------------------
(* The rest of the service, at the index's interface. *)

\* Mutation: the runs being loaded are not excluded.
OthersIngestAgain(r) ==
    /\ \/ /\ r \notin held
          /\ loading' = loading \union {r}
          /\ fresh' = fresh \union {r}
          /\ elsewhere' = elsewhere \union {r}
          /\ UNCHANGED <<held, answers>>
       \/ /\ r \in elsewhere
          /\ \/ (Publish(r) \/ Abandon(r)) /\ UNCHANGED elsewhere
             \/ Release(r) /\ elsewhere' = elsewhere \ {r}
    /\ UNCHANGED <<handlerVars, wor>>

\* IngestRun by the poller (KeepRunsUpdated), the backfiller or any other caller.
OthersIngest(r) ==
    /\ \/ Accept(r) /\ elsewhere' = elsewhere \union {r}
       \/ /\ r \in elsewhere
          /\ \/ (Publish(r) \/ Abandon(r)) /\ UNCHANGED elsewhere
             \/ Release(r) /\ elsewhere' = elsewhere \ {r}
    /\ UNCHANGED <<handlerVars, wor>>

\* EvictRuns by the monitor.
MonitorEvicts(batch) ==
    /\ Evict(batch)
    /\ UNCHANGED <<handlerVars, wor, elsewhere>>

-------------------------------------------------------------------------------
(* The write-on-read goroutine: idx.IngestRun. *)

WriteOnRead(c, r) ==
    /\ \/ /\ wor[c][r] = "called"
          /\ Accept(r)
          /\ wor' = [wor EXCEPT ![c][r] = "load"]
       \/ /\ wor[c][r] = "called"       \* errRunExists, errRunLoading
          /\ r \in held \union loading
          /\ wor' = [wor EXCEPT ![c][r] = "none"]
          /\ UNCHANGED cacheVars
       \/ /\ wor[c][r] = "load"
          /\ Publish(r) \/ Abandon(r)
          /\ wor' = [wor EXCEPT ![c][r] = "clear"]
       \/ /\ wor[c][r] = "clear"
          /\ Release(r)
          /\ wor' = [wor EXCEPT ![c][r] = "none"]
    /\ UNCHANGED <<handlerVars, elsewhere>>

-------------------------------------------------------------------------------
(* The handler *)

Respond(c, status) ==
    /\ search' = [search EXCEPT ![c] = "responded"]
    /\ code' = [code EXCEPT ![c] = status]

\* The request is read; with too many run IDs it is refused.
StartSearch(c, rs) ==
    /\ search[c] = "idle"
    /\ asked' = [asked EXCEPT ![c] = rs]
    /\ IF Cardinality(rs) > MaxRunsPerRequest
       THEN Respond(c, 400)
       ELSE search' = [search EXCEPT ![c] = "lookup"] /\ UNCHANGED code
    /\ UNCHANGED <<cacheVars, found, missing, wor, elsewhere>>

\* Mutation: a missing run is only reported, not ingested.
LookUpOnly(c, r) ==
    /\ search[c] = "lookup"
    /\ r \in asked[c] \ (found[c] \union missing[c])
    /\ \/ /\ r \in held
          /\ found' = [found EXCEPT ![c] = @ \union {r}]
          /\ UNCHANGED <<search, missing, code, wor>>
       \/ /\ r \notin held
          /\ missing' = [missing EXCEPT ![c] = @ \union {r}]
          /\ UNCHANGED <<search, found, code, wor>>
    /\ UNCHANGED <<cacheVars, asked, elsewhere>>

\* One turn of the loop over rq.RunIDs.  A run the index does not have is fetched
\* from Datastore and ingested behind the search's back; if Datastore does not
\* have it either the request fails, but not the ingestions already begun.
LookUp(c, r) ==
    /\ search[c] = "lookup"
    /\ r \in asked[c] \ (found[c] \union missing[c])
    /\ \/ /\ r \in held
          /\ found' = [found EXCEPT ![c] = @ \union {r}]
          /\ UNCHANGED <<search, missing, code, wor>>
       \/ /\ r \notin held
          /\ wor[c][r] = "none"
          /\ wor' = [wor EXCEPT ![c][r] = "called"]
          /\ missing' = [missing EXCEPT ![c] = @ \union {r}]
          /\ UNCHANGED <<search, found, code>>
       \/ /\ r \notin held
          /\ Respond(c, 400)
          /\ UNCHANGED <<found, missing, wor>>
    /\ UNCHANGED <<cacheVars, asked, elsewhere>>

\* Mutation: the runs that were evicted since the look-up are silently left out.
BindHeldRuns(c, rs) ==
    \/ /\ Answer(c, rs \intersect held)
       /\ search' = [search EXCEPT ![c] = "execute"]
       /\ UNCHANGED code
    \/ \E status \in {400, 500} : Respond(c, status) /\ UNCHANGED cacheVars

\* The parameters are parsed (400) and Bind makes a plan over all the runs it is given.
\* It fails (500) if one of them is gone, if there are none, or on a query for which there
\* is no filter: so a request may fail here whatever the index holds.
BindRuns(c, rs) ==
    \/ /\ Answer(c, rs)
       /\ search' = [search EXCEPT ![c] = "execute"]
       /\ UNCHANGED code
    \/ \E status \in {400, 500} : Respond(c, status) /\ UNCHANGED cacheVars

\* Every run has been looked up.  If all are missing the search ends with 422.
AllLookedUp(c) ==
    /\ search[c] = "lookup"
    /\ asked[c] = found[c] \union missing[c]
    /\ IF found[c] = {} /\ missing[c] # {}
       THEN Respond(c, 422) /\ UNCHANGED cacheVars
       ELSE BindRuns(c, found[c])
    /\ UNCHANGED <<asked, found, missing, wor, elsewhere>>

\* The plan is executed; runs that were missing turn 200 into 422.
StatusOf(ignored) == IF ignored = {} THEN 200 ELSE 422

Execute(c) ==
    /\ search[c] = "execute"
    /\ Drop(c)
    /\ Respond(c, StatusOf(missing[c]))
    /\ UNCHANGED <<asked, found, missing, wor, elsewhere>>

\* The client has its response; the handler's variables are gone.
EndSearch(c) ==
    /\ search[c] = "responded"
    /\ search' = [search EXCEPT ![c] = "idle"]
    /\ asked' = [asked EXCEPT ![c] = {}]
    /\ found' = [found EXCEPT ![c] = {}]
    /\ missing' = [missing EXCEPT ![c] = {}]
    /\ code' = [code EXCEPT ![c] = 0]
    /\ UNCHANGED <<cacheVars, wor, elsewhere>>

-------------------------------------------------------------------------------
Handle(c) == (\E r \in Runs : LookUp(c, r)) \/ AllLookedUp(c) \/ Execute(c) \/ EndSearch(c)

Next ==
    \/ \E r \in Runs : OthersIngest(r)
    \/ \E batch \in SUBSET Runs : MonitorEvicts(batch)
    \/ \E c \in Clients : Handle(c)
    \/ \E c \in Clients, r \in Runs : WriteOnRead(c, r)
    \/ \E c \in Clients, rs \in SUBSET Runs : StartSearch(c, rs)

Spec == Init /\ [][Next]_vars

\* Handlers and ingesting goroutines run to their end; requests, polls that find
\* a new run, and evictions are the environment's choice.
Fairness ==
    /\ \A c \in Clients : WF_vars(Handle(c))
    /\ \A c \in Clients, r \in Runs : WF_vars(WriteOnRead(c, r))
    /\ \A r \in Runs : WF_vars(r \in elsewhere /\ OthersIngest(r))

FairSpec == Spec /\ Fairness

-------------------------------------------------------------------------------
(* Properties *)

TypeOK ==
    /\ CacheTypeOK
    /\ search \in [Clients -> {"idle", "lookup", "execute", "responded"}]
    /\ asked \in [Clients -> SUBSET Runs]
    /\ found \in [Clients -> SUBSET Runs]
    /\ missing \in [Clients -> SUBSET Runs]
    /\ code \in [Clients -> {0, 200, 400, 422, 500}]
    /\ wor \in [Clients -> [Runs -> {"none", "called", "load", "clear"}]]
    /\ elsewhere \subseteq loading

\* The Runs of a response are the runs its plan has read, and its IgnoredRuns the
\* others that were asked for, although runs come and go between the look-up and
\* the Bind; a plain 200 means that every run asked for was searched.
SearchIsHonest ==
    \A c \in Clients :
        /\ search[c] = "execute" => answers[c] = found[c]
        /\ code[c] = 200 => found[c] = asked[c]
        /\ code[c] = 422 => missing[c] # {} /\ missing[c] = asked[c] \ found[c]

\* Whoever ingests a run does so alone: the poller, the backfiller and the
\* write-on-read goroutines of different searches never load the same run at once.
OneIngester ==
    \A r \in Runs :
        LET ingesting == {c \in Clients : wor[c][r] \in {"load", "clear"}}
        IN  /\ Cardinality(ingesting) + (IF r \in elsewhere THEN 1 ELSE 0) <= 1
            /\ r \in loading <=> ingesting # {} \/ r \in elsewhere

===============================================================================
