-------------------------- MODULE SearchServiceProofs ---------------------------
(* The search service proved about, for any runs, clients and limit: what a      *)
(* response says is true, and a run is ingested by one caller at a time.         *)
EXTENDS SearchService, FiniteSetTheorems, TLAPS

-------------------------------------------------------------------------------
(* The inductive invariant *)

\* The states of a write-on-read goroutine whose ingestion was accepted.
Active == {"load", "clear"}

\* A run that is to be published is not held yet.
FreshInv == fresh \intersect held = {}

\* An ingestion belongs to one write-on-read goroutine or to someone elsewhere, and a run
\* is marked as being loaded exactly as long as its ingestion lasts.
IngestInv ==
    \A r \in Runs :
        /\ \A c, d \in Clients : wor[c][r] \in Active /\ wor[d][r] \in Active => c = d
        /\ \A c \in Clients : wor[c][r] \in Active => r \notin elsewhere
        /\ r \in loading <=> r \in elsewhere \/ \E c \in Clients : wor[c][r] \in Active

\* A handler knows what it has looked up, plans over what it found, and answers at the end.
HandlerInv ==
    \A c \in Clients :
        /\ found[c] \intersect missing[c] = {}
        /\ found[c] \union missing[c] \subseteq asked[c]
        /\ search[c] # "responded" => code[c] = 0
        /\ search[c] = "idle" => found[c] = {} /\ missing[c] = {}
        /\ search[c] = "execute" => answers[c] = found[c] /\ asked[c] = found[c] \union missing[c]
        /\ code[c] = 200 => found[c] = asked[c]
        /\ code[c] = 422 => missing[c] # {} /\ asked[c] = found[c] \union missing[c]

ServiceInv == TypeOK /\ FreshInv /\ IngestInv /\ HandlerInv

-------------------------------------------------------------------------------
(* The ingesters *)

\* What an ingestion does to the index keeps the handlers' plans and answers.
LEMMA IngestionKeepsHandlers ==
    ASSUME HandlerInv, UNCHANGED <<answers, handlerVars>>
    PROVE  HandlerInv'
  BY DEF HandlerInv, handlerVars

\* Somebody elsewhere ingests a run: it is accepted only if nobody is at it.
LEMMA OthersIngestKeeps ==
    ASSUME ServiceInv, NEW r \in Runs, OthersIngest(r)
    PROVE  ServiceInv'
<1> USE DEF ServiceInv, TypeOK, CacheTypeOK, handlerVars
<1>1. CASE Accept(r) /\ elsewhere' = elsewhere \union {r} /\ UNCHANGED <<handlerVars, wor>>
  <2>1. TypeOK' /\ FreshInv'
    BY <1>1 DEF FreshInv, Accept
  <2>2. IngestInv'
    BY <1>1 DEF IngestInv, Accept
  <2>3. HandlerInv'
    BY <1>1, IngestionKeepsHandlers DEF Accept
  <2>4. QED
    BY <2>1, <2>2, <2>3
<1>2. CASE r \in elsewhere /\ Publish(r) /\ UNCHANGED elsewhere /\ UNCHANGED <<handlerVars, wor>>
  <2>1. TypeOK' /\ FreshInv'
    BY <1>2 DEF FreshInv, Publish
  <2>2. IngestInv'
    BY <1>2 DEF IngestInv, Publish
  <2>3. HandlerInv'
    BY <1>2, IngestionKeepsHandlers DEF Publish
  <2>4. QED
    BY <2>1, <2>2, <2>3
<1>3. CASE r \in elsewhere /\ Abandon(r) /\ UNCHANGED elsewhere /\ UNCHANGED <<handlerVars, wor>>
  <2>1. TypeOK' /\ FreshInv'
    BY <1>3 DEF FreshInv, Abandon
  <2>2. IngestInv'
    BY <1>3 DEF IngestInv, Abandon
  <2>3. HandlerInv'
    BY <1>3, IngestionKeepsHandlers DEF Abandon
  <2>4. QED
    BY <2>1, <2>2, <2>3
<1>4. CASE r \in elsewhere /\ Release(r) /\ elsewhere' = elsewhere \ {r} /\ UNCHANGED <<handlerVars, wor>>
  <2>1. TypeOK' /\ FreshInv'
    BY <1>4 DEF FreshInv, Release
  <2>2. IngestInv'
    BY <1>4 DEF IngestInv, Release
  <2>3. HandlerInv'
    BY <1>4, IngestionKeepsHandlers DEF Release
  <2>4. QED
    BY <2>1, <2>2, <2>3
<1>5. QED
  BY <1>1, <1>2, <1>3, <1>4 DEF OthersIngest

\* Runs that are evicted are held, hence not on their way into the index.
LEMMA MonitorEvictsKeeps ==
    ASSUME ServiceInv, NEW batch \in SUBSET Runs, MonitorEvicts(batch)
    PROVE  ServiceInv'
<1>1. TypeOK' /\ FreshInv'
  BY DEF ServiceInv, TypeOK, CacheTypeOK, FreshInv, MonitorEvicts, Evict, handlerVars
<1>2. IngestInv'
  BY DEF ServiceInv, IngestInv, MonitorEvicts, Evict
<1>3. HandlerInv'
  BY IngestionKeepsHandlers DEF ServiceInv, MonitorEvicts, Evict
<1>4. QED
  BY <1>1, <1>2, <1>3 DEF ServiceInv

\* A step of one goroutine leaves the state of the others.
LEMMA WorStep ==
    ASSUME wor \in [Clients -> [Runs -> {"none", "called", "load", "clear"}]],
           NEW c \in Clients, NEW r \in Runs, NEW s \in {"none", "called", "load", "clear"},
           wor' = [wor EXCEPT ![c][r] = s]
    PROVE  /\ wor' \in [Clients -> [Runs -> {"none", "called", "load", "clear"}]]
           /\ wor'[c][r] = s
           /\ \A d \in Clients, q \in Runs : d # c \/ q # r => wor'[d][q] = wor[d][q]
  OBVIOUS

\* A write-on-read goroutine ingests its run, or is refused because the run is there or
\* somebody is at it; whoever clears the mark is the one who set it.
LEMMA WriteOnReadKeeps ==
    ASSUME ServiceInv, NEW c \in Clients, NEW r \in Runs, WriteOnRead(c, r)
    PROVE  ServiceInv'
<1> USE DEF ServiceInv, TypeOK, CacheTypeOK, handlerVars
<1>1. CASE /\ wor[c][r] = "called" /\ Accept(r) /\ wor' = [wor EXCEPT ![c][r] = "load"]
           /\ UNCHANGED <<handlerVars, elsewhere>>
  <2>1. /\ wor' \in [Clients -> [Runs -> {"none", "called", "load", "clear"}]]
        /\ wor'[c][r] = "load"
        /\ \A d \in Clients, q \in Runs : d # c \/ q # r => wor'[d][q] = wor[d][q]
    BY <1>1, WorStep
  <2>2. TypeOK' /\ FreshInv'
    BY <1>1, <2>1 DEF FreshInv, Accept
  <2>3. IngestInv'
    BY <1>1, <2>1 DEF IngestInv, Accept, Active
  <2>4. HandlerInv'
    BY <1>1, IngestionKeepsHandlers DEF Accept
  <2>5. QED
    BY <2>2, <2>3, <2>4
<1>2. CASE /\ wor[c][r] = "called" /\ wor' = [wor EXCEPT ![c][r] = "none"]
           /\ UNCHANGED cacheVars /\ UNCHANGED <<handlerVars, elsewhere>>
  <2>1. /\ wor' \in [Clients -> [Runs -> {"none", "called", "load", "clear"}]]
        /\ wor'[c][r] = "none"
        /\ \A d \in Clients, q \in Runs : d # c \/ q # r => wor'[d][q] = wor[d][q]
    BY <1>2, WorStep
  <2>2. TypeOK' /\ FreshInv'
    BY <1>2, <2>1 DEF FreshInv, cacheVars
  <2>3. \A d \in Clients, q \in Runs : wor'[d][q] \in Active <=> wor[d][q] \in Active
    BY <1>2, <2>1 DEF Active
  <2>4. IngestInv'
    BY <1>2, <2>3 DEF IngestInv, cacheVars
  <2>5. HandlerInv'
    BY <1>2, IngestionKeepsHandlers DEF cacheVars
  <2>6. QED
    BY <2>2, <2>4, <2>5
<1>3. CASE /\ wor[c][r] = "load" /\ wor' = [wor EXCEPT ![c][r] = "clear"]
           /\ Publish(r) \/ Abandon(r)
           /\ UNCHANGED <<handlerVars, elsewhere>>
  <2>1. /\ wor' \in [Clients -> [Runs -> {"none", "called", "load", "clear"}]]
        /\ wor'[c][r] = "clear"
        /\ \A d \in Clients, q \in Runs : d # c \/ q # r => wor'[d][q] = wor[d][q]
    BY <1>3, WorStep
  <2>2. TypeOK' /\ FreshInv'
    <3>1. CASE Publish(r)
      BY <1>3, <2>1, <3>1 DEF FreshInv, Publish
    <3>2. CASE Abandon(r)
      BY <1>3, <2>1, <3>2 DEF FreshInv, Abandon
    <3>3. QED
      BY <1>3, <3>1, <3>2
  <2>3. \A d \in Clients, q \in Runs : wor'[d][q] \in Active <=> wor[d][q] \in Active
    BY <1>3, <2>1 DEF Active
  <2>4. loading' = loading /\ elsewhere' = elsewhere
    BY <1>3 DEF Publish, Abandon
  <2>5. IngestInv'
    BY <2>3, <2>4 DEF IngestInv
  <2>6. HandlerInv'
    BY <1>3, IngestionKeepsHandlers DEF Publish, Abandon
  <2>7. QED
    BY <2>2, <2>5, <2>6
<1>4. CASE /\ wor[c][r] = "clear" /\ Release(r) /\ wor' = [wor EXCEPT ![c][r] = "none"]
           /\ UNCHANGED <<handlerVars, elsewhere>>
  <2>1. /\ wor' \in [Clients -> [Runs -> {"none", "called", "load", "clear"}]]
        /\ wor'[c][r] = "none"
        /\ \A d \in Clients, q \in Runs : d # c \/ q # r => wor'[d][q] = wor[d][q]
    BY <1>4, WorStep
  <2>2. r \notin elsewhere /\ \A d \in Clients : wor'[d][r] \notin Active
    BY <1>4, <2>1 DEF IngestInv, Active
  <2>3. TypeOK' /\ FreshInv'
    BY <1>4, <2>1, <2>2 DEF FreshInv, Release
  <2>4. IngestInv'
    BY <1>4, <2>1, <2>2 DEF IngestInv, Release
  <2>5. HandlerInv'
    BY <1>4, IngestionKeepsHandlers DEF Release
  <2>6. QED
    BY <2>3, <2>4, <2>5
<1> HIDE DEF ServiceInv, TypeOK, CacheTypeOK, handlerVars
<1>5. QED
  BY <1>1, <1>2, <1>3, <1>4 DEF WriteOnRead

-------------------------------------------------------------------------------
(* The handlers *)

\* What a handler does to its own variables concerns no ingestion.
LEMMA HandlerKeepsIngestion ==
    ASSUME FreshInv, IngestInv, UNCHANGED <<held, loading, fresh, elsewhere>>,
           \A d \in Clients, q \in Runs : wor'[d][q] \in Active <=> wor[d][q] \in Active
    PROVE  FreshInv' /\ IngestInv'
  BY DEF FreshInv, IngestInv

\* A request is read.
LEMMA StartSearchKeeps ==
    ASSUME ServiceInv, NEW c \in Clients, NEW rs \in SUBSET Runs, StartSearch(c, rs)
    PROVE  ServiceInv'
<1>1. TypeOK'
  BY DEF ServiceInv, TypeOK, CacheTypeOK, StartSearch, Respond, cacheVars
<1>2. FreshInv' /\ IngestInv'
  BY HandlerKeepsIngestion DEF ServiceInv, StartSearch, cacheVars
<1>3. HandlerInv'
  BY DEF ServiceInv, TypeOK, HandlerInv, StartSearch, Respond, cacheVars
<1>4. QED
  BY <1>1, <1>2, <1>3 DEF ServiceInv

\* A run is looked up: found, missing and now on its way, or unknown.
LEMMA LookUpKeeps ==
    ASSUME ServiceInv, NEW c \in Clients, NEW r \in Runs, LookUp(c, r)
    PROVE  ServiceInv'
<1>1. TypeOK'
  <2> USE DEF ServiceInv, TypeOK, CacheTypeOK, cacheVars
  <2>1. CASE found' = [found EXCEPT ![c] = @ \union {r}] /\ UNCHANGED <<search, missing, code, wor>>
    BY <2>1 DEF LookUp
  <2>2. CASE /\ wor' = [wor EXCEPT ![c][r] = "called"]
             /\ missing' = [missing EXCEPT ![c] = @ \union {r}]
             /\ UNCHANGED <<search, found, code>>
    <3>1. wor' \in [Clients -> [Runs -> {"none", "called", "load", "clear"}]]
      BY <2>2, WorStep
    <3>2. QED
      BY <2>2, <3>1 DEF LookUp
  <2>3. CASE Respond(c, 400) /\ UNCHANGED <<found, missing, wor>>
    BY <2>3 DEF LookUp, Respond
  <2>4. QED
    BY <2>1, <2>2, <2>3 DEF LookUp
<1>2. \A d \in Clients, q \in Runs : wor'[d][q] \in Active <=> wor[d][q] \in Active
  <2>1. CASE UNCHANGED wor
    BY <2>1
  <2>2. CASE wor[c][r] = "none" /\ wor' = [wor EXCEPT ![c][r] = "called"]
    BY <2>2, WorStep DEF ServiceInv, TypeOK, Active
  <2>3. QED
    BY <2>1, <2>2 DEF LookUp
<1>3. FreshInv' /\ IngestInv'
  BY <1>2, HandlerKeepsIngestion DEF ServiceInv, LookUp, cacheVars
<1>4. HandlerInv'
  BY DEF ServiceInv, TypeOK, HandlerInv, LookUp, Respond, cacheVars
<1>5. QED
  BY <1>1, <1>3, <1>4 DEF ServiceInv

\* Everything is looked up: the plan is made over what was found, if it is still there.
LEMMA AllLookedUpKeeps ==
    ASSUME ServiceInv, NEW c \in Clients, AllLookedUp(c)
    PROVE  ServiceInv'
<1>1. TypeOK'
  <2> USE DEF ServiceInv, TypeOK, CacheTypeOK, cacheVars
  <2>1. CASE \E status \in {400, 422, 500} : Respond(c, status) /\ UNCHANGED cacheVars
    BY <2>1 DEF AllLookedUp, Respond
  <2>2. CASE Answer(c, found[c]) /\ search' = [search EXCEPT ![c] = "execute"] /\ UNCHANGED code
    BY <2>2 DEF AllLookedUp, Answer
  <2>3. QED
    BY <2>1, <2>2 DEF AllLookedUp, BindRuns
<1>2. FreshInv' /\ IngestInv'
  BY HandlerKeepsIngestion DEF ServiceInv, AllLookedUp, BindRuns, Answer, cacheVars
<1>3. HandlerInv'
  BY DEF ServiceInv, TypeOK, CacheTypeOK, HandlerInv, AllLookedUp, BindRuns, Answer, Respond, cacheVars
<1>4. QED
  BY <1>1, <1>2, <1>3 DEF ServiceInv

\* The plan is executed and the response sent.
LEMMA ExecuteKeeps ==
    ASSUME ServiceInv, NEW c \in Clients, Execute(c)
    PROVE  ServiceInv'
<1>1. TypeOK'
  BY DEF ServiceInv, TypeOK, CacheTypeOK, Execute, Drop, Respond, StatusOf, cacheVars
<1>2. FreshInv' /\ IngestInv'
  BY HandlerKeepsIngestion DEF ServiceInv, Execute, Drop, cacheVars
<1>3. HandlerInv'
  <2>1. /\ search' = [search EXCEPT ![c] = "responded"]
        /\ code' = [code EXCEPT ![c] = IF missing[c] = {} THEN 200 ELSE 422]
        /\ UNCHANGED <<asked, found, missing>>
        /\ \A d \in Clients \ {c} : answers'[d] = answers[d]
        /\ asked[c] = found[c] \union missing[c]
    BY DEF ServiceInv, TypeOK, CacheTypeOK, HandlerInv, Execute, Drop, Respond, StatusOf
  <2>2. code'[c] = (IF missing[c] = {} THEN 200 ELSE 422) /\ search'[c] = "responded"
    BY <2>1 DEF ServiceInv, TypeOK
  <2>3. \A d \in Clients \ {c} : code'[d] = code[d] /\ search'[d] = search[d]
    BY <2>1 DEF ServiceInv, TypeOK
  <2>4. SUFFICES ASSUME NEW d \in Clients
                 PROVE  /\ found[d] \intersect missing[d] = {}
                        /\ found[d] \union missing[d] \subseteq asked[d]
                        /\ search'[d] # "responded" => code'[d] = 0
                        /\ search'[d] = "idle" => found[d] = {} /\ missing[d] = {}
                        /\ search'[d] = "execute" =>
                              answers'[d] = found[d] /\ asked[d] = found[d] \union missing[d]
                        /\ code'[d] = 200 => found[d] = asked[d]
                        /\ code'[d] = 422 => missing[d] # {} /\ asked[d] = found[d] \union missing[d]
    BY <2>1 DEF HandlerInv
  <2>5. CASE d = c
    <3>1. found[c] \intersect missing[c] = {} /\ found[c] \union missing[c] \subseteq asked[c]
      BY DEF ServiceInv, HandlerInv
    <3>2. missing[c] = {} => found[c] = asked[c]
      BY <2>1
    <3>3. QED
      BY <2>1, <2>2, <2>5, <3>1, <3>2
  <2>6. CASE d # c
    BY <2>1, <2>3, <2>6 DEF ServiceInv, HandlerInv
  <2>7. QED
    BY <2>5, <2>6
<1>4. QED
  BY <1>1, <1>2, <1>3 DEF ServiceInv

\* The client goes away with its response.
LEMMA EndSearchKeeps ==
    ASSUME ServiceInv, NEW c \in Clients, EndSearch(c)
    PROVE  ServiceInv'
<1>1. TypeOK'
  BY DEF ServiceInv, TypeOK, CacheTypeOK, EndSearch, cacheVars
<1>2. FreshInv' /\ IngestInv'
  BY HandlerKeepsIngestion DEF ServiceInv, EndSearch, cacheVars
<1>3. HandlerInv'
  BY DEF ServiceInv, TypeOK, HandlerInv, EndSearch, cacheVars
<1>4. QED
  BY <1>1, <1>2, <1>3 DEF ServiceInv

-------------------------------------------------------------------------------
(* Theorems *)

\* The service before its first request.
LEMMA InitServiceInv == Init => ServiceInv
  BY DEF Init, CacheInit, ServiceInv, TypeOK, CacheTypeOK, FreshInv, IngestInv, HandlerInv, Active

\* Every step of the service preserves the invariant.
LEMMA NextServiceInv == ServiceInv /\ [Next]_vars => ServiceInv'
<1> SUFFICES ASSUME ServiceInv, [Next]_vars
             PROVE  ServiceInv'
  OBVIOUS
<1>1. ASSUME NEW r \in Runs, OthersIngest(r) PROVE ServiceInv'
  BY <1>1, OthersIngestKeeps
<1>2. ASSUME NEW batch \in SUBSET Runs, MonitorEvicts(batch) PROVE ServiceInv'
  BY <1>2, MonitorEvictsKeeps
<1>3. ASSUME NEW c \in Clients, Handle(c) PROVE ServiceInv'
  BY <1>3, LookUpKeeps, AllLookedUpKeeps, ExecuteKeeps, EndSearchKeeps DEF Handle
<1>4. ASSUME NEW c \in Clients, NEW r \in Runs, WriteOnRead(c, r) PROVE ServiceInv'
  BY <1>4, WriteOnReadKeeps
<1>5. ASSUME NEW c \in Clients, NEW rs \in SUBSET Runs, StartSearch(c, rs) PROVE ServiceInv'
  BY <1>5, StartSearchKeeps
<1>6. CASE UNCHANGED vars
  BY <1>6 DEF vars, cacheVars, handlerVars, ServiceInv, TypeOK, CacheTypeOK, FreshInv, IngestInv, HandlerInv
<1>7. QED
  BY <1>1, <1>2, <1>3, <1>4, <1>5, <1>6 DEF Next

\* The invariant of the search service: what ingesters and handlers know of each other.
THEOREM ServiceInvariant == Spec => []ServiceInv
  BY InitServiceInv, NextServiceInv, PTL DEF Spec

\* The variables of the service have their types; what is ingested elsewhere is marked as
\* being loaded.
THEOREM ServiceTypeCorrect == Spec => []TypeOK
<1>1. ServiceInv => TypeOK
  BY DEF ServiceInv
<1>2. QED
  BY <1>1, ServiceInvariant, PTL

\* A response says of every run that was asked for whether it was searched (search.go),
\* whatever was evicted or ingested while it was made.
THEOREM ResponsesAreHonest == Spec => []SearchIsHonest
<1>1. ServiceInv => SearchIsHonest
  BY DEF ServiceInv, HandlerInv, SearchIsHonest
<1>2. QED
  BY <1>1, ServiceInvariant, PTL

\* Poller, backfiller and write-on-read goroutines of any number of searches never ingest a
\* run at the same time, and a run is marked exactly while somebody ingests it.
THEOREM OneIngesterPerRun == Spec => []OneIngester
<1>1. ASSUME ServiceInv PROVE OneIngester
  <2> DEFINE ingesting(r) == {c \in Clients : wor[c][r] \in {"load", "clear"}}
  <2>1. SUFFICES ASSUME NEW r \in Runs
                 PROVE  /\ Cardinality(ingesting(r)) + (IF r \in elsewhere THEN 1 ELSE 0) <= 1
                        /\ r \in loading <=> ingesting(r) # {} \/ r \in elsewhere
    BY DEF OneIngester
  <2>2. r \in loading <=> ingesting(r) # {} \/ r \in elsewhere
    BY <1>1 DEF ServiceInv, IngestInv, Active
  <2>3. CASE ingesting(r) = {}
    BY <2>2, <2>3, FS_EmptySet
  <2>4. CASE ingesting(r) # {}
    <3>1. PICK c \in Clients : ingesting(r) = {c}
      BY <1>1, <2>4 DEF ServiceInv, IngestInv, Active
    <3>2. r \notin elsewhere
      BY <1>1, <2>4 DEF ServiceInv, IngestInv, Active
    <3>3. Cardinality(ingesting(r)) = 1
      BY <3>1, FS_Singleton
    <3> HIDE DEF ingesting
    <3>4. QED
      BY <2>2, <3>2, <3>3
  <2>5. QED
    BY <2>3, <2>4
<1>2. QED
  BY <1>1, ServiceInvariant, PTL

===============================================================================
