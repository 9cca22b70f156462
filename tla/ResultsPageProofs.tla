--------------------------- MODULE ResultsPageProofs ---------------------------
(* The results page proved about: whatever the queries, tests, results and      *)
(* answers, with nothing in flight the page says what it has (IdlePage).        *)
EXTENDS ResultsPage, FiniteSetTheorems, TLAPS

-------------------------------------------------------------------------------
(* The inductive invariant *)

RunLists == {q.runs : q \in Queries} \union {<<>>}
Searches == {q.search : q \in Queries} \union DOMAIN Matches \union {""}
DiffChoices == {q.diff : q \in Queries} \union {TRUE}

LoadType ==
    [kind : {"runs", "search", "diff"},
     epoch : Nat,
     runs : RunLists,
     search : Searches,
     diff : DiffChoices,
     tries : Nat,
     waiting : BOOLEAN]

TypeInv ==
    /\ query \in Queries \union {NoQuery}
    /\ loads # {} => query # NoQuery
    /\ structuredSearch \in Searches
    /\ loads \subseteq LoadType
    /\ reloads \in Nat
    /\ disturbed \in BOOLEAN

\* The spinner counts the requests.
CountInv == IsFiniteSet(loads) /\ loadingCount = Cardinality(loads)

\* A load has one request of a kind in flight, and none beside that for its runs: else
\* a new request could be one that is counted already.
EpochInv ==
    \A l \in loads :
        /\ l.epoch <= reloads
        /\ \A m \in loads : l.epoch = m.epoch /\ (l.kind = m.kind \/ l.kind = "runs") => l = m

BannerInv ==
    (loads = {} /\ reloads > 0) => (noResults <=> ~ resultsLoadFailed /\ searchResults = <<>>)

\* The stages of an undisturbed load: the runs are on their way; the search is; it has
\* been answered, or there is nothing to search.
WaitsForRuns ==
    \E l \in loads :
        /\ loads = {l} /\ l.kind = "runs" /\ l.runs = fetched[1].runs
        /\ ~ resultsLoadFailed /\ testRuns = <<>> /\ searchResults = <<>>

WaitsForSearch ==
    \E l \in loads :
        /\ l.kind = "search" /\ \A m \in loads \ {l} : m.kind = "diff"
        /\ l.runs = fetched[1].runs /\ l.search = fetched[1].search /\ l.diff = fetched[1].diff
        /\ ~ resultsLoadFailed /\ testRuns = fetched[1].runs /\ searchResults = <<>>

Settled ==
    \/ resultsLoadFailed /\ searchResults = <<>>
    \/ ~ resultsLoadFailed /\ testRuns = <<>> /\ searchResults = <<>>
    \/ ~ resultsLoadFailed /\ testRuns = fetched[1].runs /\ searchResults = SearchAnswer(fetched[1])

StageInv ==
    (~ disturbed /\ reloads > 0) =>
        WaitsForRuns \/ WaitsForSearch \/ (Settled /\ \A l \in loads : l.kind = "diff")

PageInv == TypeInv /\ CountInv /\ EpochInv /\ BannerInv /\ StageInv

-------------------------------------------------------------------------------
(* Requests begin and end *)

\* load(): the count stays that of the requests, and the banner is decided when the
\* last of them ends.
LEMMA LoadingCounts ==
    ASSUME CountInv, NEW begun, NEW ended,
           IsFiniteSet(begun), begun \intersect loads = {}, ended \subseteq loads,
           begun # {} \/ ended # {}, Loading(begun, ended)
    PROVE  /\ CountInv'
           /\ loads' = (loads \ ended) \union begun
           /\ loads' = {} => (noResults' <=> ~ resultsLoadFailed' /\ searchResults' = <<>>)
<1>1. loads' = (loads \ ended) \union begun
  BY DEF Loading
<1>2. /\ IsFiniteSet(ended) /\ IsFiniteSet(loads \ ended)
      /\ Cardinality(loads \ ended) = Cardinality(loads) - Cardinality(ended)
  <2>1. IsFiniteSet(ended) /\ loads \intersect ended = ended
    BY FS_Subset DEF CountInv
  <2>2. QED
    BY <2>1, FS_Difference DEF CountInv
<1>3. IsFiniteSet(loads') /\ Cardinality(loads') = Cardinality(loads) - Cardinality(ended) + Cardinality(begun)
  <2>1. (loads \ ended) \intersect begun = {}
    OBVIOUS
  <2>2. /\ IsFiniteSet((loads \ ended) \union begun)
        /\ Cardinality((loads \ ended) \union begun)
              = Cardinality(loads \ ended) + Cardinality(begun) - Cardinality({})
    BY <1>2, <2>1, FS_Union
  <2>3. Cardinality(loads \ ended) \in Nat /\ Cardinality(begun) \in Nat /\ Cardinality({}) = 0
    BY <1>2, FS_EmptySet, FS_CardinalityType
  <2>4. QED
    BY <1>1, <1>2, <2>2, <2>3
<1>4. /\ Cardinality(loads) \in Nat /\ Cardinality(ended) \in Nat /\ Cardinality(begun) \in Nat
      /\ loads # {} => Cardinality(loads) > 0
  BY <1>2, FS_CardinalityType, FS_EmptySet DEF CountInv
<1>5. CountInv'
  BY <1>3, <1>4 DEF CountInv, Loading
<1>6. ASSUME loads' = {}
      PROVE  noResults' <=> ~ resultsLoadFailed' /\ searchResults' = <<>>
  <2>1. begun = {} /\ loads # {}
    BY <1>1, <1>6
  <2>2. loadingCount' = 0 /\ loadingCount > 0
    BY <1>4, <1>5, <1>6, <2>1, FS_EmptySet DEF CountInv
  <2>3. QED
    BY <2>2 DEF Loading
<1>7. QED
  BY <1>1, <1>5, <1>6

\* What does not touch what the invariant is about preserves it.
LEMMA OthersKeep ==
    ASSUME PageInv, structuredSearch' \in Searches,
           UNCHANGED <<queryVars, testRuns, searchResults, loadVars, reloads, disturbed>>
    PROVE  PageInv'
BY DEF PageInv, TypeInv, CountInv, EpochInv, BannerInv, StageInv, WaitsForRuns, WaitsForSearch,
       Settled, queryVars, loadVars

-------------------------------------------------------------------------------
(* Queries *)

\* A load begins: if another was in flight the two may mix, else it waits for its runs.
LEMMA ReloadKeeps ==
    ASSUME PageInv, NEW q \in Queries, NEW v, query' = q, view' = v, fetched' = <<q, v>>, reloadData,
           structuredSearch' \in Searches
    PROVE  PageInv'
<1>1. reloads \in Nat /\ reloads' = reloads + 1
  BY DEF PageInv, TypeInv, reloadData
<1>2. PICK l : l = Request("runs", reloads', query'.runs, query'.search, query'.diff)
  OBVIOUS
<1>3. l \in LoadType /\ l.kind = "runs" /\ l.epoch = reloads + 1 /\ l.runs = q.runs
  <2>1. l = Request("runs", reloads + 1, q.runs, q.search, q.diff)
    BY <1>1, <1>2
  <2>2. q.runs \in RunLists /\ q.search \in Searches /\ q.diff \in DiffChoices
    BY DEF RunLists, Searches, DiffChoices
  <2>3. QED
    BY <1>1, <2>1, <2>2 DEF LoadType, Request
<1>4. (\A m \in loads : m.epoch \in Nat /\ m.epoch <= reloads) /\ l \notin loads
  <2>1. \A m \in loads : m.epoch \in Nat
    BY DEF PageInv, TypeInv, LoadType
  <2>2. \A m \in loads : m.epoch <= reloads
    BY DEF PageInv, EpochInv
  <2>3. QED
    BY <1>1, <1>3, <2>1, <2>2
<1>5. CountInv' /\ loads' = loads \union {l}
  <2>1. Loading({l}, {}) /\ IsFiniteSet({l}) /\ CountInv /\ {l} \intersect loads = {} /\ {l} # {}
    BY <1>2, <1>4, FS_Singleton DEF PageInv, reloadData
  <2>2. CountInv' /\ loads' = (loads \ {}) \union {l}
    BY <2>1, LoadingCounts, Zenon
  <2>3. QED
    BY <2>2
<1>6. TypeInv'
  BY <1>1, <1>3, <1>5, NoQueryAssumption DEF PageInv, TypeInv, reloadData
<1>7. EpochInv'
  <2>1. \A m \in loads : m.epoch \in Nat /\ m.epoch < l.epoch
    BY <1>1, <1>3, <1>4
  <2>2. \A k, m \in loads : k.epoch = m.epoch /\ (k.kind = m.kind \/ k.kind = "runs") => k = m
    BY DEF PageInv, EpochInv
  <2>3. \A k, m \in loads' : k.epoch = m.epoch /\ (k.kind = m.kind \/ k.kind = "runs") => k = m
    BY <1>1, <1>3, <1>5, <2>1, <2>2
  <2>4. \A m \in loads' : m.epoch <= reloads'
    BY <1>1, <1>3, <1>5, <2>1
  <2>5. QED
    BY <2>3, <2>4 DEF EpochInv
<1>8. BannerInv'
  BY <1>5 DEF BannerInv
<1>9. StageInv'
  <2>1. SUFFICES ASSUME loads = {}
                 PROVE  WaitsForRuns'
    BY DEF StageInv, reloadData
  <2>2. loads' = {l} /\ fetched'[1] = q
    BY <1>5, <2>1
  <2>3. QED
    BY <1>3, <2>2 DEF WaitsForRuns, reloadData
<1>10. QED
  BY <1>5, <1>6, <1>7, <1>8, <1>9 DEF PageInv

\* A change of the query begins a load, of the runs and the results or of the results only.
LEMMA QueryChangedKeeps ==
    ASSUME PageInv, NEW q \in Queries, NEW v, QueryChanged(q, v),
           structuredSearch' \in Searches
    PROVE  PageInv'
<1>1. CASE IgnoresQuery(q, v) \/ fetched = <<q, v>>
  BY <1>1, NoQueryAssumption DEF QueryChanged, PageInv, TypeInv, CountInv, EpochInv, BannerInv, StageInv,
     WaitsForRuns, WaitsForSearch, Settled, dataVars, loadVars
<1>2. CASE ~ (IgnoresQuery(q, v) \/ fetched = <<q, v>>)
  BY <1>2, ReloadKeeps DEF QueryChanged
<1>3. QED
  BY <1>1, <1>2

-------------------------------------------------------------------------------
(* Answers *)

\* A request that ends leaves the others; with the last of them the banner is decided.
LEMMA EndKeeps ==
    ASSUME PageInv, NEW l \in loads, Loading({}, {l}),
           UNCHANGED <<query, structuredSearch, reloads>>, disturbed' \in BOOLEAN
    PROVE  TypeInv' /\ CountInv' /\ EpochInv' /\ BannerInv' /\ loads' = loads \ {l}
<1>1. CountInv' /\ loads' = loads \ {l} /\ (loads' = {} => (noResults' <=> ~ resultsLoadFailed' /\ searchResults' = <<>>))
  <2>1. IsFiniteSet({}) /\ {} \intersect loads = {} /\ {l} \subseteq loads /\ {l} # {} /\ CountInv
    BY FS_EmptySet DEF PageInv
  <2>2. /\ CountInv' /\ loads' = (loads \ {l}) \union {}
        /\ loads' = {} => (noResults' <=> ~ resultsLoadFailed' /\ searchResults' = <<>>)
    BY <2>1, LoadingCounts, Zenon
  <2>3. QED
    BY <2>2
<1>2. TypeInv'
  BY <1>1 DEF PageInv, TypeInv
<1>3. EpochInv'
  BY <1>1 DEF PageInv, EpochInv
<1>4. QED
  BY <1>1, <1>2, <1>3 DEF BannerInv

\* The runs have arrived.  Nobody else's request is one of those that begin: the answered
\* one had its epoch to itself.
LEMMA ArrivedKeeps ==
    ASSUME PageInv, NEW l \in loads, l.kind = "runs", NEW runs \in {l.runs, <<>>}, Arrived(l, runs),
           UNCHANGED <<queryVars, structuredSearch>>
    PROVE  PageInv'
<1>1. /\ l \in LoadType /\ l.epoch \in Nat /\ l.runs \in RunLists /\ runs \in RunLists
      /\ structuredSearch \in Searches /\ query \in Queries /\ query.diff \in DiffChoices /\ TRUE \in DiffChoices
      /\ "" \in Searches
  <2>1. l \in LoadType /\ structuredSearch \in Searches /\ query \in Queries
    BY DEF PageInv, TypeInv
  <2>2. l.epoch \in Nat /\ l.runs \in RunLists
    BY <2>1 DEF LoadType
  <2>3. QED
    BY <2>1, <2>2 DEF RunLists, Searches, DiffChoices
<1>2. PICK s : s = Request("search", l.epoch, runs, structuredSearch, query.diff)
  OBVIOUS
<1>3. PICK d : d = Request("diff", l.epoch, runs, "", TRUE)
  OBVIOUS
<1>4. /\ s \in LoadType /\ s.kind = "search" /\ s.epoch = l.epoch
      /\ s.runs = runs /\ s.search = structuredSearch /\ s.diff = query.diff
  BY <1>1, <1>2 DEF LoadType, Request
<1>5. d \in LoadType /\ d.kind = "diff" /\ d.epoch = l.epoch
  BY <1>1, <1>3 DEF LoadType, Request
<1>6. PICK begun : /\ begun \in {{}, {s}, {s, d}} /\ (begun = {} <=> runs = <<>>)
                   /\ Loading(begun, {l})
  <2>1. DEFINE compared == query.diff /\ Len(runs) = 2
               begun == IF runs = <<>> THEN {} ELSE {s} \union (IF compared THEN {d} ELSE {})
  <2>2. Loading(begun, {l})
    BY <1>2, <1>3 DEF Arrived
  <2>3. begun \in {{}, {s}, {s, d}} /\ (begun = {} <=> runs = <<>>)
    OBVIOUS
  <2>4. QED
    BY <2>2, <2>3
<1>7. \A m \in loads : m.epoch = l.epoch => m = l
  BY DEF PageInv, EpochInv
<1>8. /\ CountInv' /\ loads' = (loads \ {l}) \union begun
      /\ loads' = {} => (noResults' <=> ~ resultsLoadFailed' /\ searchResults' = <<>>)
  <2>1. IsFiniteSet(begun)
    <3>1. IsFiniteSet({}) /\ IsFiniteSet({s}) /\ IsFiniteSet({s} \union {d})
      BY FS_EmptySet, FS_Singleton, FS_AddElement
    <3>2. {s} \union {d} = {s, d}
      OBVIOUS
    <3>3. QED
      BY <1>6, <3>1, <3>2
  <2>2. begun \intersect loads = {} /\ {l} \subseteq loads /\ {l} # {} /\ CountInv
    BY <1>4, <1>5, <1>6, <1>7 DEF PageInv
  <2>3. QED
    BY <1>6, <2>1, <2>2, LoadingCounts, Zenon
<1>9. /\ testRuns' = runs /\ UNCHANGED <<searchResults, resultsLoadFailed, reloads, query, fetched>>
      /\ disturbed' = (disturbed \/ structuredSearch # fetched[1].search \/ query.diff # fetched[1].diff)
  BY DEF Arrived, queryVars
<1>10. TypeInv'
  <2>1. loads' \subseteq LoadType
    BY <1>4, <1>5, <1>6, <1>8 DEF PageInv, TypeInv
  <2>2. QED
    BY <1>1, <1>9, <2>1, NoQueryAssumption DEF PageInv, TypeInv
<1>11. EpochInv'
  <2>1. \A m \in loads' : (m \in loads /\ m.epoch # l.epoch) \/ (m \in {s, d} /\ m.epoch = l.epoch)
    BY <1>4, <1>5, <1>6, <1>7, <1>8
  <2>2. \A m \in loads' : m.epoch <= reloads'
    BY <1>9, <2>1 DEF PageInv, EpochInv
  <2>3. ASSUME NEW k \in loads', NEW m \in loads', k.epoch = m.epoch, k.kind = m.kind \/ k.kind = "runs"
        PROVE  k = m
    <3>1. CASE k.epoch = l.epoch
      BY <1>4, <1>5, <2>1, <2>3, <3>1
    <3>2. CASE k.epoch # l.epoch
      BY <2>1, <2>3, <3>2 DEF PageInv, EpochInv
    <3>3. QED
      BY <3>1, <3>2
  <2>4. QED
    BY <2>2, <2>3 DEF EpochInv
<1>12. BannerInv'
  BY <1>8 DEF BannerInv
<1>13. StageInv'
  <2>1. SUFFICES ASSUME ~ disturbed', reloads' > 0
                 PROVE  WaitsForRuns' \/ WaitsForSearch' \/ (Settled' /\ \A m \in loads' : m.kind = "diff")
    BY DEF StageInv
  <2>2. /\ ~ disturbed /\ reloads > 0 /\ structuredSearch = fetched[1].search /\ query.diff = fetched[1].diff
    BY <1>9, <2>1
  <2>3. WaitsForRuns
    BY <2>2 DEF PageInv, StageInv, WaitsForSearch
  <2>4. loads = {l} /\ l.runs = fetched[1].runs /\ ~ resultsLoadFailed /\ searchResults = <<>>
    BY <2>3 DEF WaitsForRuns
  <2>5. CASE runs = <<>>
    BY <1>6, <1>8, <1>9, <2>4, <2>5 DEF Settled
  <2>6. CASE runs # <<>>
    <3>1. s \in loads' /\ loads' \subseteq {s, d} /\ runs = fetched[1].runs
      BY <1>6, <1>8, <2>4, <2>6
    <3>2. WaitsForSearch'
      BY <1>4, <1>5, <1>9, <2>2, <2>4, <3>1 DEF WaitsForSearch
    <3>3. QED
      BY <3>2
  <2>7. QED
    BY <2>5, <2>6
<1>14. QED
  BY <1>8, <1>10, <1>11, <1>12, <1>13 DEF PageInv

\* A search that waits or is sent again is the same request still.
LEMMA SameKeeps ==
    ASSUME PageInv, NEW l \in loads, l.kind = "search", NEW k \in LoadType,
           k.kind = l.kind, k.epoch = l.epoch, k.runs = l.runs, k.search = l.search, k.diff = l.diff,
           loads' = (loads \ {l}) \union {k},
           UNCHANGED <<queryVars, structuredSearch, testRuns, searchResults, resultsLoadFailed,
                       noResults, loadingCount, reloads, disturbed>>
    PROVE  PageInv'
<1>1. \A m \in loads \ {l} : m.epoch = l.epoch => m.kind = "diff"
  <2>1. \A m \in loads : m.kind \in {"runs", "search", "diff"}
    BY DEF PageInv, TypeInv, LoadType
  <2>2. QED
    BY <2>1 DEF PageInv, EpochInv
<1>2. TypeInv'
  BY DEF PageInv, TypeInv, queryVars
<1>3. CountInv'
  <2>1. IsFiniteSet(loads \ {l}) /\ Cardinality(loads \ {l}) = Cardinality(loads) - 1 /\ Cardinality(loads) \in Nat
    BY FS_RemoveElement, FS_CardinalityType DEF PageInv, CountInv
  <2>2. k \notin loads \ {l}
    BY <1>1
  <2>3. /\ IsFiniteSet((loads \ {l}) \union {k})
        /\ Cardinality((loads \ {l}) \union {k}) = Cardinality(loads \ {l}) + 1
    BY <2>1, <2>2, FS_AddElement
  <2>4. QED
    BY <2>1, <2>3 DEF PageInv, CountInv
<1>4. EpochInv'
  <2>1. \A m \in loads' : m.epoch <= reloads'
    BY DEF PageInv, EpochInv
  <2>2. ASSUME NEW a \in loads', NEW b \in loads', a.epoch = b.epoch, a.kind = b.kind \/ a.kind = "runs"
        PROVE  a = b
    <3>1. CASE a # k /\ b # k
      BY <2>2, <3>1 DEF PageInv, EpochInv
    <3>2. CASE a = k \/ b = k
      BY <1>1, <2>2, <3>2 DEF PageInv, EpochInv
    <3>3. QED
      BY <3>1, <3>2
  <2>3. QED
    BY <2>1, <2>2 DEF EpochInv
<1>5. BannerInv'
  BY DEF BannerInv
<1>6. StageInv'
  BY DEF PageInv, StageInv, WaitsForRuns, WaitsForSearch, queryVars
<1>7. QED
  BY <1>2, <1>3, <1>4, <1>5, <1>6 DEF PageInv

\* The runs do not arrive: the failure is all there is to say.
LEMMA RunsFailKeeps ==
    ASSUME PageInv, NEW l \in loads, l.kind = "runs", Loading({}, {l}), resultsLoadFailed' = TRUE,
           UNCHANGED <<queryVars, structuredSearch, testRuns, searchResults, reloads, disturbed>>
    PROVE  PageInv'
<1>1. TypeInv' /\ CountInv' /\ EpochInv' /\ BannerInv' /\ loads' = loads \ {l}
  BY EndKeeps DEF PageInv, TypeInv, queryVars
<1>2. StageInv'
  BY <1>1 DEF PageInv, StageInv, WaitsForRuns, WaitsForSearch, Settled, queryVars
<1>3. QED
  BY <1>1, <1>2 DEF PageInv

\* The runs arrive, or fail to, for the load that asked for them.
LEMMA AnswerRunsKeeps ==
    ASSUME PageInv, NEW l \in loads, AnswerRuns(l)
    PROVE  PageInv'
<1>1. CASE \E runs \in {l.runs, <<>>} : Arrived(l, runs)
  BY <1>1, ArrivedKeeps DEF AnswerRuns
<1>2. CASE resultsLoadFailed' = TRUE /\ UNCHANGED <<testRuns, searchResults, reloads, disturbed>> /\ Loading({}, {l})
  BY <1>2, RunsFailKeeps DEF AnswerRuns
<1>3. QED
  BY <1>1, <1>2 DEF AnswerRuns

\* A run is not in the search cache: the search is tried again later, or given up with its
\* banner.
LEMMA AnswerNotCachedKeeps ==
    ASSUME PageInv, NEW l \in loads, AnswerNotCached(l) \/ Retry(l)
    PROVE  PageInv'
<1>1. l \in LoadType /\ Attempts \in Nat
  BY BoundsAssumption DEF PageInv, TypeInv
<1>2. PICK k : /\ \/ k = [l EXCEPT !.waiting = TRUE]
                  \/ k = [l EXCEPT !.waiting = FALSE, !.tries = IF @ < Attempts THEN @ + 1 ELSE @]
               /\ loads' = (loads \ {l}) \union {k}
  BY DEF AnswerNotCached, Retry
<1>3. /\ k \in LoadType /\ k.kind = l.kind /\ k.epoch = l.epoch
      /\ k.runs = l.runs /\ k.search = l.search /\ k.diff = l.diff
  <2>1. CASE k = [l EXCEPT !.waiting = TRUE]
    BY <1>1, <2>1 DEF LoadType
  <2>2. CASE k = [l EXCEPT !.waiting = FALSE, !.tries = IF @ < Attempts THEN @ + 1 ELSE @]
    <3>1. PICK n \in Nat : k = [l EXCEPT !.waiting = FALSE, !.tries = n]
      <4>1. (IF l.tries < Attempts THEN l.tries + 1 ELSE l.tries) \in Nat
        BY <1>1 DEF LoadType
      <4>2. QED
        BY <2>2, <4>1, Zenon
    <3>2. QED
      BY <1>1, <3>1 DEF LoadType
  <2>3. QED
    BY <1>2, <2>1, <2>2
<1>4. QED
  BY <1>2, <1>3, SameKeeps DEF AnswerNotCached, Retry, dataVars

\* The search of an undisturbed load is answered for its query; in a disturbed one nothing
\* is claimed of what stands there.
LEMMA AnswerSearchKeeps ==
    ASSUME PageInv, NEW l \in loads, AnswerSearch(l)
    PROVE  PageInv'
<1>1. /\ TypeInv' /\ CountInv' /\ EpochInv' /\ BannerInv' /\ loads' = loads \ {l}
      /\ l.kind = "search" /\ UNCHANGED <<testRuns, fetched, reloads, disturbed>>
  BY EndKeeps DEF AnswerSearch, PageInv, TypeInv, queryVars
<1>2. StageInv'
  <2>1. SUFFICES ASSUME ~ disturbed, reloads > 0
                 PROVE  Settled' /\ \A m \in loads' : m.kind = "diff"
    BY <1>1 DEF StageInv
  <2>2. WaitsForSearch
    BY <1>1, <2>1 DEF PageInv, StageInv, WaitsForRuns
  <2>3. /\ \A m \in loads \ {l} : m.kind = "diff"
        /\ l.runs = fetched[1].runs /\ l.search = fetched[1].search /\ l.diff = fetched[1].diff
        /\ ~ resultsLoadFailed /\ testRuns = fetched[1].runs /\ searchResults = <<>>
    BY <1>1, <2>2 DEF WaitsForSearch
  <2>4. SearchAnswer(l) = SearchAnswer(fetched[1])
    BY <2>3 DEF SearchAnswer
  <2>5. \/ resultsLoadFailed' = TRUE /\ searchResults' = searchResults
        \/ resultsLoadFailed' = resultsLoadFailed /\ searchResults' = SearchAnswer(l)
    BY DEF AnswerSearch
  <2>6. QED
    BY <1>1, <2>3, <2>4, <2>5 DEF Settled
<1>3. QED
  BY <1>1, <1>2 DEF PageInv

\* A diff arrives or fails; the failure is remembered until the next load.
LEMMA AnswerDiffKeeps ==
    ASSUME PageInv, NEW l \in loads, AnswerDiff(l)
    PROVE  PageInv'
<1>1. /\ TypeInv' /\ CountInv' /\ EpochInv' /\ BannerInv' /\ loads' = loads \ {l} /\ l.kind = "diff"
      /\ UNCHANGED <<testRuns, searchResults, resultsLoadFailed, fetched, reloads, disturbed>>
  BY EndKeeps DEF AnswerDiff, PageInv, TypeInv, queryVars
<1>2. StageInv'
  BY <1>1 DEF PageInv, StageInv, WaitsForRuns, WaitsForSearch, Settled
<1>3. QED
  BY <1>1, <1>2 DEF PageInv

-------------------------------------------------------------------------------
(* Theorems *)

\* The page before anything is asked for.
LEMMA InitKeeps == Init => PageInv
<1> SUFFICES ASSUME Init PROVE PageInv
  OBVIOUS
<1>1. query = NoQuery /\ structuredSearch = "" /\ loads = {} /\ loadingCount = 0 /\ reloads = 0 /\ disturbed = FALSE
  BY DEF Init
<1>2. TypeInv
  <2>1. "" \in Searches
    BY DEF Searches
  <2>2. QED
    BY <1>1, <2>1 DEF TypeInv
<1>3. EpochInv /\ BannerInv /\ StageInv
  <2>1. ~ (reloads > 0)
    <3>1. reloads = 0
      BY <1>1
    <3>2. QED
      BY <3>1
  <2>2. QED
    BY <1>1, <2>1 DEF EpochInv, BannerInv, StageInv
<1>4. CountInv
  BY <1>1, FS_EmptySet DEF CountInv
<1>5. QED
  BY <1>2, <1>3, <1>4 DEF PageInv

\* Every step preserves the invariant: one step of the proof for each action.
LEMMA NextKeeps == PageInv /\ [Next]_vars => PageInv'
<1> SUFFICES ASSUME PageInv, [Next]_vars PROVE PageInv'
  OBVIOUS
<1>1. structuredSearch \in Searches /\ \A q \in Queries : q.search \in Searches
  BY DEF PageInv, TypeInv, Searches
<1>2. ASSUME NEW q \in Queries, NEW v, ChangeQuery(q, v) PROVE PageInv'
  BY <1>1, <1>2, QueryChangedKeeps DEF ChangeQuery
<1>3. ASSUME NEW v, ClickView(v) PROVE PageInv'
  BY <1>1, <1>3, QueryChangedKeeps DEF ClickView, PageInv, TypeInv
<1>4. ASSUME NEW s \in DOMAIN Matches, TypeSearch(s) PROVE PageInv'
  BY <1>4, OthersKeep DEF TypeSearch, Searches, dataVars
<1>5. ASSUME NEW l \in loads, Answer(l) PROVE PageInv'
  BY <1>5, AnswerRunsKeeps, AnswerNotCachedKeeps, AnswerSearchKeeps, AnswerDiffKeeps DEF Answer
<1>6. CASE Click
  BY <1>1, <1>6, OthersKeep DEF Click, dataVars
<1>7. CASE UNCHANGED vars
  BY <1>1, <1>7, OthersKeep DEF vars, dataVars
<1>8. /\ \A p : Navigate(p) => Click
      /\ \A forward : Move(forward) => Click
      /\ toggleDiffFilter => Click
      /\ sortTestName => Click
      /\ \A i : sortTestResults(i) => Click
  BY DEF Navigate, Move, toggleDiffFilter, sortTestName, sortTestResults
<1>9. QED
  BY <1>2, <1>3, <1>4, <1>5, <1>6, <1>7, <1>8 DEF Next

\* The invariant of the results page holds of every behaviour.
LEMMA PageInvariant == Spec => []PageInv
<1>1. QED
  BY InitKeeps, NextKeeps, PTL DEF Spec

\* loading-state: while the spinner turns a request is in flight, and while one is it
\* turns, so that onLoadingComplete comes after every answer.
THEOREM SpinnerCountsRequests == Spec => [](loadingCount = Cardinality(loads))
<1>1. PageInv => loadingCount = Cardinality(loads)
  BY DEF PageInv, CountInv
<1>2. QED
  BY <1>1, PageInvariant, PTL

\* wpt-results: with nothing in flight the banners, the runs and the results are those of
\* the query, in whatever order answers came.
THEOREM PageIsIdleHonestly == Spec => []IdlePage
<1>1. PageInv => IdlePage
  BY DEF PageInv, BannerInv, StageInv, WaitsForRuns, WaitsForSearch, Settled, IdlePage
<1>2. QED
  BY <1>1, PageInvariant, PTL

-------------------------------------------------------------------------------
(* Cells: rounding never makes all or none of a count that is neither *)

\* What the quotient of whole numbers is.
LEMMA Quotient ==
    ASSUME NEW a \in Nat, NEW b \in Nat, b > 0
    PROVE  a \div b \in Nat /\ b * (a \div b) <= a /\ a < b * (a \div b) + b
OBVIOUS

LEMMA Smaller ==
    ASSUME NEW b \in Nat, NEW x \in Nat, NEW y \in Nat, b * x < b * y + b
    PROVE  x <= y
OBVIOUS

LEMMA Product == ASSUME NEW x \in Nat, NEW y \in Nat PROVE x * y \in Nat
OBVIOUS

LEMMA PartsAreHundreds == Parts \in Nat /\ Parts >= 100
<1>1. Parts \in Nat /\ Parts % 100 = 0 /\ Parts > 0
  BY PartsAssumption
<1> QED BY <1>1

\* The unit of a measure: a test of the interop view is worth Parts.
Unit(m) == IF m = "tests" THEN Parts ELSE 1

\* A rounded number of some but not all passing tests is not beyond their number.
LEMMA RoundedIsBounded ==
    ASSUME NEW m \in Measures, NEW total \in Nat, total > 0,
           NEW passes \in Nat, passes # 0, passes < total * Unit(m)
    PROVE  InHundredths(m, passes) \in Nat /\ InHundredths(m, passes) <= total * 100
<1>1. CASE m = "tests"
  <2>1. PICK half : half = Parts \div 2
    OBVIOUS
  <2>2. half \in Nat /\ 2 * half <= Parts
    BY <2>1, PartsAreHundreds, Quotient
  <2>3. PICK q : q = (passes * 100 + half) \div Parts
    OBVIOUS
  <2>4. passes * 100 + half \in Nat
    BY <2>2
  <2>5. q \in Nat /\ Parts * q <= passes * 100 + half
    BY <2>3, <2>4, PartsAreHundreds, Quotient
  <2>6. passes < total * Parts /\ Parts \in Nat
    BY <1>1, PartsAreHundreds DEF Unit
  <2>7. total * Parts \in Nat /\ (total * Parts) * 100 = Parts * (total * 100)
    BY <2>6, Product
  <2>8. Parts * q < Parts * (total * 100) + Parts
    <3>1. passes * 100 + 100 <= (total * Parts) * 100
      BY <2>6, <2>7
    <3>2. Parts * q \in Nat
      BY <2>5, <2>6, Product
    <3> QED BY <2>2, <2>5, <2>6, <2>7, <3>1, <3>2
  <2>9. q <= total * 100
    BY <2>5, <2>6, <2>8, Smaller
  <2> QED BY <1>1, <2>1, <2>3, <2>5, <2>9 DEF InHundredths
<1>2. CASE m # "tests"
  BY <1>2 DEF InHundredths, Unit
<1> QED BY <1>1, <1>2

LEMMA PassesAreHonest ==
    ASSUME NEW m \in Measures, NEW total \in Nat, total > 0,
           NEW passes \in Nat, passes <= total * Unit(m)
    PROVE  /\ ShownPasses(m, passes, total) \in 0 .. (total * 100)
           /\ ShownPasses(m, passes, total) = 0 <=> passes = 0
           /\ ShownPasses(m, passes, total) = total * 100 <=> passes = total * Unit(m)
<1>1. PICK all : all = total * Unit(m)
  OBVIOUS
<1>2. all \in Nat /\ all > 0
  <2>1. Unit(m) \in Nat /\ Unit(m) > 0
    BY PartsAreHundreds DEF Unit
  <2>2. total * Unit(m) \in Nat
    BY <2>1, Product
  <2>3. total * Unit(m) >= Unit(m)
    BY <2>1
  <2> QED BY <1>1, <2>1, <2>2, <2>3
<1>3. PICK rounded : rounded = InHundredths(m, passes)
  OBVIOUS
<1>4. PICK shown : shown = ShownPasses(m, passes, total)
  OBVIOUS
<1>5. all = AllOf(m, total)
  BY <1>1 DEF Unit, AllOf
<1>6. CASE passes = 0
  <2>1. passes # all
    BY <1>2, <1>6
  <2>2. shown = 0
    BY <1>4, <1>5, <1>6, <2>1 DEF ShownPasses, AlmostAll
  <2> QED BY <1>1, <1>2, <1>4, <1>6, <2>2
<1>7. CASE passes = all
  <2>1. shown = total * 100
    BY <1>2, <1>4, <1>5, <1>7 DEF ShownPasses, AlmostAll
  <2> QED BY <1>1, <1>2, <1>4, <1>7, <2>1
<1>8. CASE passes # 0 /\ passes # all
  <2>1. rounded \in Nat /\ rounded <= total * 100
    BY <1>1, <1>2, <1>3, <1>8, RoundedIsBounded
  <2>2. shown = IF rounded < 1 THEN 1 ELSE IF rounded = total * 100 THEN rounded - 1 ELSE rounded
    <3>1. total * 100 >= 1 /\ total * 100 \in Nat
      OBVIOUS
    <3> QED BY <1>3, <1>4, <1>5, <1>8, <2>1, <3>1 DEF ShownPasses, AlmostAll
  <2>3. shown \in 1 .. (total * 100 - 1)
    BY <2>1, <2>2
  <2> QED BY <1>1, <1>4, <1>8, <2>3
<1> QED BY <1>6, <1>7, <1>8

LEMMA PercentIsHonest ==
    ASSUME NEW all \in Nat, all > 0, NEW passes \in Nat, passes <= all
    PROVE  /\ ShownPercent(passes, all) \in 0 .. 1000
           /\ ShownPercent(passes, all) = 0 <=> passes = 0
           /\ ShownPercent(passes, all) = 1000 <=> passes = all
<1>1. PICK shown : shown = ShownPercent(passes, all)
  OBVIOUS
<1>2. PICK rounded : rounded = (passes * 1000) \div all
  OBVIOUS
<1>3. CASE passes = 0
  <2>1. shown = 0
    BY <1>1, <1>3 DEF ShownPercent
  <2> QED BY <1>1, <1>3, <2>1
<1>4. CASE passes = all
  <2>1. shown = 1000
    BY <1>1, <1>4 DEF ShownPercent
  <2> QED BY <1>1, <1>4, <2>1
<1>5. CASE passes # 0 /\ passes # all
  <2>1. rounded \in Nat /\ all * rounded <= passes * 1000
    BY <1>2, Quotient
  <2>2. all * rounded < all * 999 + all
    BY <1>5, <2>1
  <2>3. rounded <= 999
    BY <2>1, <2>2, Smaller
  <2>4. shown = IF rounded = 0 THEN 1 ELSE rounded
    BY <1>1, <1>2, <1>5, <2>1, <2>3 DEF ShownPercent
  <2>5. shown \in 1 .. 999
    BY <2>1, <2>3, <2>4
  <2> QED BY <1>1, <1>5, <2>5
<1> QED BY <1>3, <1>4, <1>5

\* Whatever number of tests a row sums up and whatever unit their pass rates have, its cell
\* tells all, some and none passing apart, also where it goes without its total.
THEOREM CellsAreHonest ==
    ASSUME NEW row, NEW i,
           \A m \in Measures : LET c == row.results[i].count[m]
                               IN  c.total \in Nat /\ c.passes \in 0 .. (c.total * Unit(m))
    PROVE  CellIsHonest(row, i)
<1>1. PICK m : m = MeasureOf(view, row.isDir)
  OBVIOUS
<1>2. m \in Measures
  BY <1>1 DEF MeasureOf, Measures
<1>3. PICK c : c = row.results[i].count[m]
  OBVIOUS
<1>4. PICK cell : cell = CellOf(view, row.results[i].count, row.results[i].status, row.isDir)
  OBVIOUS
<1>5. c.total \in Nat /\ c.passes \in 0 .. (c.total * Unit(m)) /\ c.passes \in Nat
      /\ c.total * Parts \in Nat
  BY <1>2, <1>3, PartsAreHundreds
<1>6. SUFFICES TellsApart(m, c, cell)
  BY <1>1, <1>3, <1>4 DEF CellIsHonest
<1>7. SUFFICES ASSUME cell.kind = "numbers", c.total > 0
               PROVE  /\ cell.passes = 0 <=> c.passes = 0
                      /\ \/ /\ cell.total = <<c.total>>
                            /\ cell.passes \in 0 .. (c.total * 100)
                            /\ cell.passes = c.total * 100 <=> c.passes = AllOf(m, c.total)
                         \/ /\ cell.total = <<>> /\ m = "tests"
                            /\ cell.passes = c.total * 100 - 1
                            /\ c.passes \notin {0, AllOf(m, c.total)}
                      /\ m = "tests" => /\ cell.percent = 0 <=> c.passes = 0
                                        /\ cell.percent = 1000 <=> c.passes = AllOf(m, c.total)
                                        /\ cell.percent \in 0 .. 1000
  BY DEF TellsApart
<1>8. cell = [kind |-> "numbers", passes |-> ShownPasses(m, c.passes, c.total),
              total |-> ShownTotal(m, c.passes, c.total),
              percent |-> IF m = "tests" THEN ShownPercent(c.passes, c.total * Parts) ELSE 0]
  <2>1. c.total # 0
    BY <1>5, <1>7
  <2>2. ~ (view = "test" /\ ~ row.isDir)
    BY <1>1, <1>3, <1>4, <1>7, <2>1 DEF CellOf
  <2> QED BY <1>1, <1>3, <1>4, <2>1, <2>2 DEF CellOf
<1>9. cell.passes = ShownPasses(m, c.passes, c.total) /\ cell.total = ShownTotal(m, c.passes, c.total)
      /\ (m = "tests" => cell.percent = ShownPercent(c.passes, c.total * Parts))
  BY <1>8
<1>10. c.passes <= c.total * Unit(m) /\ (m = "tests" => c.passes <= c.total * Parts)
  BY <1>5, PartsAreHundreds DEF Unit
<1>11. c.total * Parts > 0
  BY <1>5, <1>7, PartsAreHundreds
<1>12. ASSUME m = "tests"
       PROVE  /\ cell.percent = 0 <=> c.passes = 0
              /\ cell.percent = 1000 <=> c.passes = c.total * Parts
              /\ cell.percent \in 0 .. 1000
  <2>1. PICK all : all = c.total * Parts
    OBVIOUS
  <2>2. PICK passes : passes = c.passes
    OBVIOUS
  <2>3. PICK percent : percent = cell.percent
    OBVIOUS
  <2>4. percent = ShownPercent(passes, all)
    BY <1>9, <1>12, <2>1, <2>2, <2>3
  <2>5. all \in Nat /\ all > 0 /\ passes \in Nat /\ passes <= all
    BY <1>5, <1>10, <1>11, <1>12, <2>1, <2>2
  <2>6. /\ ShownPercent(passes, all) \in 0 .. 1000
        /\ ShownPercent(passes, all) = 0 <=> passes = 0
        /\ ShownPercent(passes, all) = 1000 <=> passes = all
    BY <2>5, PercentIsHonest
  <2>7. percent \in 0 .. 1000 /\ (percent = 0 <=> passes = 0) /\ (percent = 1000 <=> passes = all)
    BY <2>4, <2>6
  <2> QED BY <2>1, <2>2, <2>3, <2>7
<1>13. AllOf(m, c.total) = c.total * Unit(m) /\ (m = "tests" => AllOf(m, c.total) = c.total * Parts)
  BY <1>5 DEF Unit, AllOf
<1>14. /\ cell.passes = 0 <=> c.passes = 0
       /\ cell.passes = c.total * 100 <=> c.passes = AllOf(m, c.total)
       /\ cell.passes \in 0 .. (c.total * 100)
  BY <1>2, <1>5, <1>7, <1>9, <1>10, <1>13, PassesAreHonest
\* The total is there, or the number is almost that of all tests.
<1>15. CASE ~ AlmostAll(m, c.passes, c.total)
  <2>1. cell.total = <<c.total>>
    BY <1>9, <1>15 DEF ShownTotal
  <2> QED BY <1>12, <1>13, <1>14, <2>1
<1>16. CASE AlmostAll(m, c.passes, c.total)
  <2>1. c.passes # 0 /\ c.passes # AllOf(m, c.total) /\ InHundredths(m, c.passes) = c.total * 100
    BY <1>16 DEF AlmostAll
  <2>2. m = "tests"
    <3>1. ASSUME m # "tests" PROVE FALSE
      BY <1>5, <2>1, <3>1 DEF InHundredths, AllOf
    <3> QED BY <3>1
  <2>3. cell.total = <<>>
    BY <1>9, <1>16 DEF ShownTotal
  <2>4. ~ (c.total * 100 < 1)
    BY <1>5, <1>7
  <2>5. cell.passes = c.total * 100 - 1
    BY <1>9, <1>16, <2>1, <2>4 DEF ShownPasses
  <2> QED BY <1>12, <1>13, <1>14, <2>1, <2>2, <2>3, <2>5
<1> QED BY <1>15, <1>16

===============================================================================
