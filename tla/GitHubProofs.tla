------------------------------ MODULE GitHubProofs ------------------------------
(* What GitHub has the service do, proved about.                                  *)
(*                                                                                *)
(* The Taskcluster webhook, for any events and any page size: the answer is true, *)
(* reports are complete, and the goroutines that share the slice of labels never  *)
(* label a pull request's run "master".                                           *)
(*                                                                                *)
(* The checks, whatever runs, suites and requests come, in whatever order tasks   *)
(* begin, fail, are tried again and overlap: with nothing left to do the newest   *)
(* check run of every suite compares the newest runs (ChecksSettle).              *)
EXTENDS TaskclusterRuns, Checks, FiniteSetTheorems, TLAPS

-------------------------------------------------------------------------------
(* The webhook: the inductive invariant *)

\* Products are made of the whole group, once it is listed; until then nothing is
\* uploaded, and the handler answers 200 when all goroutines are done without an error.
HandlerInv ==
    /\ event \in Events
    /\ listed \in 0 .. Len(event.tasks)
    /\ pc \in {"received", "listing", "extract", "creating", "responded"}
    /\ pc \in {"received", "listing", "extract"} => uploads = {} /\ errors = {} /\ DOMAIN step = {}
    /\ pc # "responded" => response = 0
    /\ pc = "extract" => listed = Len(event.tasks)
    /\ DOMAIN step # {} \/ pc = "creating" \/ response = 200 =>
          listed = Len(event.tasks) /\ DOMAIN step = ProductsOf(Listed)
    /\ pc = "responded" => \A p \in DOMAIN step : step[p] = "done"
    /\ response = 200 => errors = {}
    /\ response \in {204, 400} => uploads = {}

\* A goroutine that is done has posted what it joined, or reported an error.
UploadInv ==
    /\ \A u \in uploads :
          /\ u.product \in DOMAIN step
          /\ step[u.product] = "done"
          /\ u = [product |-> u.product, labels |-> body[u.product],
                  results |-> URLs(Listed, u.product)]
    /\ \A p \in DOMAIN step :
          step[p] = "done" => p \in errors \/ \E u \in uploads : u.product = p

Labels == EventLabels \union {"pr_head", "pr_base"}

\* The slice header of a goroutine.
Slice(p) ==
    /\ p[2] \in {NoSide, "pr_head", "pr_base"}
    /\ step[p] \in {"range", "append", "join", "post", "done"}
    /\ step[p] \in {"range", "append"} => p[2] # NoSide
    /\ at[p] \in Nat \ {0}
    /\ len[p] \in Nat
    /\ own[p] \in Seq(Labels)
    /\ own[p] = <<>> => len[p] <= Len(array)
    /\ own[p] # <<>> => len[p] = Len(own[p]) /\ step[p] \in {"join", "post", "done"}
    /\ step[p] = "range" => len[p] = Len(array)

SliceInv ==
    /\ array \in Seq(Labels)
    /\ DOMAIN at = DOMAIN step /\ DOMAIN len = DOMAIN step
    /\ DOMAIN own = DOMAIN step /\ DOMAIN body = DOMAIN step
    /\ \A p \in DOMAIN step : Slice(p)

\* "master" is in one cell at most, and behind what a goroutine of a pull request's side
\* has looked through, or outside of its slice.
NotMaster(p) ==
    /\ step[p] = "range" => \A i \in DOMAIN array : i < at[p] => array[i] # "master"
    /\ step[p] # "range" /\ own[p] = <<>> =>
          \A i \in DOMAIN array : i <= len[p] => array[i] # "master"
    /\ \A i \in DOMAIN own[p] : own[p][i] # "master"
    /\ "master" \notin body[p]

MasterInv ==
    /\ \A i, j \in DOMAIN array : array[i] = "master" /\ array[j] = "master" => i = j
    /\ \A p \in DOMAIN step : p[2] # NoSide => NotMaster(p)

\* The labels goroutine p joins, when nobody shifts the shared array.
SliceOf(p) == IF own[p] = <<>> THEN array ELSE own[p]

\* What it has read of them.
Joined(p) == {SliceOf(p)[i] : i \in 1 .. (at[p] - 1)}

ArrayLabels == {array[i] : i \in DOMAIN array}

\* No pull request's side on master: the array is never written.
Unshared == \A p \in DOMAIN step : ~(event.master /\ p[2] # NoSide)

\* Then every slice is that of the event, or its copy with the label of the side.
Exact(p) ==
    /\ len[p] = Len(SliceOf(p))
    /\ step[p] \in {"range", "append"} => own[p] = <<>> /\ body[p] = {}
    /\ step[p] \in {"join", "post", "done"} =>
          own[p] = IF p[2] = NoSide THEN <<>> ELSE Append(array, p[2])
    /\ step[p] = "join" => at[p] <= len[p] + 1 /\ body[p] = Joined(p)
    /\ step[p] \in {"post", "done"} => body[p] = EventLabels \union ({p[2]} \ {NoSide})

ExactInv ==
    Unshared /\ DOMAIN step # {} => ArrayLabels = EventLabels /\ \A p \in DOMAIN step : Exact(p)

WebhookInv == HandlerInv /\ UploadInv /\ SliceInv /\ MasterInv /\ ExactInv

-------------------------------------------------------------------------------
(* Lemmas *)

\* The labels of an event are finitely many.
LEMMA LabelsFinite == IsFiniteSet(EventLabels) /\ Cardinality(EventLabels) \in Nat
<1>1. IsFiniteSet(IF event.master THEN {"master"} ELSE {})
  BY FS_EmptySet, FS_Singleton
<1>2. IsFiniteSet(IF event.sender = Nobody THEN {} ELSE {event.sender})
  BY FS_EmptySet, FS_Singleton
<1>3. IsFiniteSet(EventLabels)
  BY <1>1, <1>2, FS_Union DEF EventLabels
<1>4. QED
  BY <1>3, FS_CardinalityType

\* Which products there are depends on the event and on how far it is listed.
LEMMA SameProducts ==
    ASSUME UNCHANGED <<event, listed>>
    PROVE  /\ Listed' = Listed
           /\ ProductsOf(Listed)' = ProductsOf(Listed)
           /\ \A p : URLs(Listed, p)' = URLs(Listed, p)
           /\ EventLabels' = EventLabels
           /\ Labels' = Labels
  BY DEF Listed, ProductsOf, Relevant, URLs, EventLabels, Labels

\* A product's last part is a side.
LEMMA SidesOfProducts ==
    ASSUME NEW group, NEW p \in ProductsOf(group),
           \A t \in group : t.suite \in DOMAIN Side \union {"stability", "unrecognized"}
    PROVE  p[2] \in {NoSide, "pr_head", "pr_base"}
<1>1. PICK t \in Relevant(group) : p = Product(t)
  BY DEF ProductsOf
<1>2. t.suite \in {"tests", "results", "without_changes"}
  BY <1>1 DEF Relevant, Side
<1>3. Side[t.suite] \in {NoSide, "pr_head", "pr_base"}
  <2>1. Side["tests"] = NoSide /\ Side["results"] = "pr_head" /\ Side["without_changes"] = "pr_base"
    BY DEF Side
  <2>2. QED
    BY <1>2, <2>1
<1>4. p[2] = Side[t.suite]
  BY <1>1 DEF Product
<1>5. QED
  BY <1>3, <1>4

-------------------------------------------------------------------------------
(* The handler *)

\* What the handler does before there are goroutines.
LEMMA HandlerKeeps ==
    ASSUME WebhookInv, UNCHANGED <<event, workerVars, uploads, errors>>, HandlerInv',
           UNCHANGED listed \/ DOMAIN step = {}
    PROVE  WebhookInv'
<1>1. UploadInv'
  BY SameProducts DEF WebhookInv, HandlerInv, UploadInv, workerVars
<1>2. SliceInv' /\ MasterInv'
  BY DEF WebhookInv, SliceInv, Slice, MasterInv, NotMaster, Labels, EventLabels, workerVars
<1>3. ExactInv'
  <2>1. EventLabels' = EventLabels /\ Unshared' = Unshared /\ UNCHANGED workerVars
    BY DEF EventLabels, Unshared, workerVars
  <2>2. ArrayLabels' = ArrayLabels
    BY <2>1 DEF ArrayLabels, workerVars
  <2>3. \A p : SliceOf(p)' = SliceOf(p) /\ Joined(p)' = Joined(p)
    BY <2>1 DEF SliceOf, Joined, workerVars
  <2>4. \A p : Exact(p)' = Exact(p)
    BY <2>1, <2>3 DEF Exact, workerVars
  <2>5. QED
    BY <2>1, <2>2, <2>4 DEF WebhookInv, ExactInv, workerVars
<1>4. QED
  BY <1>1, <1>2, <1>3 DEF WebhookInv

\* An event is received, ignored or refused.
LEMMA ReceiveKeeps == ASSUME WebhookInv, Receive PROVE WebhookInv'
<1>1. HandlerInv'
  BY SameProducts DEF WebhookInv, HandlerInv, Receive, Respond, listVars, workerVars
<1>2. QED
  BY <1>1, HandlerKeeps DEF Receive, listVars

\* A page of tasks is listed, or the listing fails.
LEMMA ListPageKeeps == ASSUME WebhookInv, ListPage PROVE WebhookInv'
<1>1. Len(event.tasks) \in Nat /\ PageSize \in Nat
  BY EventsAssumption, PageAssumption DEF WebhookInv, HandlerInv
<1>2. Reached \in 0 .. Len(event.tasks)
  BY <1>1 DEF Reached, WebhookInv, HandlerInv
<1>3. DOMAIN step = {} /\ response = 0
  BY DEF WebhookInv, HandlerInv, ListPage
<1>4. listed' \in 0 .. Len(event.tasks)
  BY <1>2 DEF WebhookInv, HandlerInv, ListPage, listVars
<1>5. HandlerInv'
  BY <1>2, <1>3, <1>4 DEF WebhookInv, HandlerInv, ListPage, GiveUp, Respond, workerVars
<1>6. QED
  BY <1>3, <1>5, HandlerKeeps DEF ListPage

\* The group has errors, or nothing to upload.
LEMMA ExtractKeeps == ASSUME WebhookInv, ExtractFails \/ NoResults PROVE WebhookInv'
<1>1. HandlerInv'
  BY SameProducts DEF WebhookInv, HandlerInv, ExtractFails, NoResults, Respond, listVars, workerVars
<1>2. QED
  BY <1>1, HandlerKeeps DEF ExtractFails, NoResults, listVars

\* All goroutines have reported.
LEMMA CollectKeeps == ASSUME WebhookInv, Collect PROVE WebhookInv'
<1>1. HandlerInv'
  BY SameProducts DEF WebhookInv, HandlerInv, Collect, Respond, listVars, workerVars
<1>2. QED
  BY <1>1, HandlerKeeps DEF Collect, listVars

\* The goroutines start, from the same slice of labels.
LEMMA CreateAllRunsKeeps == ASSUME WebhookInv, CreateAllRuns PROVE WebhookInv'
<1> DEFINE products == ProductsOf(Listed)
<1> DEFINE n == Cardinality(EventLabels)
<1>1. UNCHANGED <<event, listed, uploads, errors, response>> /\ pc = "extract" /\ pc' = "creating"
  BY DEF CreateAllRuns, listVars
<1>2. listed = Len(event.tasks) /\ uploads = {} /\ errors = {} /\ response = 0 /\ event \in Events
  BY <1>1 DEF WebhookInv, HandlerInv
<1>3. /\ step' = [p \in products |-> IF p[2] = NoSide THEN "join" ELSE "range"]
      /\ at'   = [p \in products |-> 1]
      /\ len'  = [p \in products |-> n]
      /\ own'  = [p \in products |-> <<>>]
      /\ body' = [p \in products |-> {}]
  BY DEF CreateAllRuns
<1>14. /\ DOMAIN step' = products /\ DOMAIN at' = products /\ DOMAIN len' = products
       /\ DOMAIN own' = products /\ DOMAIN body' = products
       /\ \A p \in products :
             /\ step'[p] = (IF p[2] = NoSide THEN "join" ELSE "range")
             /\ at'[p] = 1 /\ len'[p] = n /\ own'[p] = <<>> /\ body'[p] = {}
  BY <1>3
<1>4. /\ array' \in [1 .. n -> EventLabels] /\ n \in Nat
      /\ \A i, j \in 1 .. n : array'[i] = array'[j] => i = j
  BY LabelsFinite DEF CreateAllRuns, Arrangements
<1>5. array' \in Seq(EventLabels) /\ Len(array') = n /\ DOMAIN array' = 1 .. n
  BY <1>4
<1>6. \A p \in products : p[2] \in {NoSide, "pr_head", "pr_base"}
  <2>1. \A t \in Listed : t.suite \in DOMAIN Side \union {"stability", "unrecognized"}
    BY <1>2, EventsAssumption DEF Listed
  <2>2. QED
    BY <2>1, SidesOfProducts
<1>7. Listed' = Listed /\ products' = products /\ EventLabels' = EventLabels /\ Labels' = Labels
  BY <1>1, SameProducts
<1>8. HandlerInv'
  BY <1>1, <1>2, <1>3, <1>7 DEF WebhookInv, HandlerInv
<1>9. UploadInv'
  BY <1>1, <1>2, <1>3 DEF UploadInv
<1>10. SliceInv'
  <2>1. array' \in Seq(Labels') /\ <<>> \in Seq(Labels') /\ Len(array') \in Nat
    BY <1>4, <1>5, <1>7 DEF Labels
  <2>2. SUFFICES ASSUME NEW p \in products
                 PROVE  Slice(p)'
    BY <1>14, <2>1 DEF SliceInv
  <2>3. step'[p] = (IF p[2] = NoSide THEN "join" ELSE "range") /\ at'[p] = 1 /\ len'[p] = n /\ own'[p] = <<>>
    BY <1>14
  <2>4. p[2] \in {NoSide, "pr_head", "pr_base"}
    BY <1>6
  <2>5. QED
    BY <1>5, <2>1, <2>3, <2>4 DEF Slice
<1>11. MasterInv'
  <2>1. \A i, j \in DOMAIN array' : array'[i] = "master" /\ array'[j] = "master" => i = j
    BY <1>4, <1>5
  <2>2. SUFFICES ASSUME NEW p \in products, p[2] # NoSide
                 PROVE  NotMaster(p)'
    BY <1>14, <2>1 DEF MasterInv
  <2>3. step'[p] = "range" /\ at'[p] = 1 /\ own'[p] = <<>> /\ body'[p] = {}
    BY <1>14, <2>2
  <2>4. \A i \in DOMAIN array' : i >= 1
    BY <1>4, <1>5
  <2>5. QED
    BY <2>3, <2>4 DEF NotMaster
<1>12. ExactInv'
  <2>1. ArrayLabels' = EventLabels'
    <3>1. array' \in Injection(1 .. n, EventLabels)
      BY <1>4 DEF Injection, IsInjective
    <3>2. IsFiniteSet(1 .. n) /\ Cardinality(1 .. n) = n
      BY <1>4, FS_Interval
    <3>3. array' \in Surjection(1 .. n, EventLabels)
      BY <3>1, <3>2, LabelsFinite, FS_Injection
    <3>4. QED
      BY <3>3, <1>5, <1>7 DEF Surjection, ArrayLabels
  <2>2. SUFFICES ASSUME NEW p \in products
                 PROVE  Exact(p)'
    BY <1>14, <2>1 DEF ExactInv
  <2>3. /\ step'[p] = (IF p[2] = NoSide THEN "join" ELSE "range")
        /\ at'[p] = 1 /\ len'[p] = n /\ own'[p] = <<>> /\ body'[p] = {}
    BY <1>14
  <2>4. SliceOf(p)' = array'
    BY <2>3 DEF SliceOf
  <2>5. Joined(p)' = {}
    <3>1. Joined(p)' = {SliceOf(p)'[i] : i \in 1 .. (at'[p] - 1)}
      BY DEF Joined
    <3>2. at'[p] = 1
      BY <2>3
    <3>4. 1 .. (at'[p] - 1) = {}
      BY <3>2
    <3>3. QED
      BY <3>1, <3>4
  <2>6. (p[2] = NoSide /\ step'[p] = "join") \/ (p[2] # NoSide /\ step'[p] = "range")
    BY <2>3
  <2>7. at'[p] = 1 /\ len'[p] = n
    BY <2>3
  <2>9. at'[p] <= len'[p] + 1 /\ len'[p] = Len(array')
    BY <2>7, <1>4, <1>5
  <2>8. QED
    BY <2>3, <2>4, <2>5, <2>6, <2>9 DEF Exact
<1>13. QED
  BY <1>8, <1>9, <1>10, <1>11, <1>12 DEF WebhookInv

-------------------------------------------------------------------------------
(* The goroutines *)

\* While a goroutine is not done, the handler waits.
LEMMA WorkerRuns ==
    ASSUME HandlerInv, NEW p \in DOMAIN step, step[p] # "done"
    PROVE  /\ pc = "creating" /\ response = 0 /\ event \in Events
           /\ listed = Len(event.tasks) /\ DOMAIN step = ProductsOf(Listed)
  BY DEF HandlerInv

\* A goroutine does nothing to the handler's variables.
LEMMA WorkerKeepsHandler ==
    ASSUME HandlerInv, NEW p \in DOMAIN step, step[p] # "done",
           UNCHANGED <<event, pc, listed, response>>, DOMAIN step' = DOMAIN step
    PROVE  HandlerInv'
<1>1. pc = "creating" /\ response = 0
  BY WorkerRuns
<1>2. QED
  BY <1>1, SameProducts DEF HandlerInv

\* Until it posts it does nothing to what has been uploaded.
LEMMA WorkerKeepsUploads ==
    ASSUME UploadInv, UNCHANGED <<event, listed, uploads, errors>>, DOMAIN step' = DOMAIN step,
           \A q \in DOMAIN step : /\ step'[q] = "done" <=> step[q] = "done"
                                  /\ step[q] = "done" => body'[q] = body[q]
    PROVE  UploadInv'
<1>1. ASSUME NEW u \in uploads
      PROVE  /\ u.product \in DOMAIN step
             /\ step'[u.product] = "done"
             /\ u = [product |-> u.product, labels |-> body'[u.product],
                     results |-> URLs(Listed, u.product)']
  BY SameProducts DEF UploadInv
<1>2. \A q \in DOMAIN step' : step'[q] = "done" => q \in errors' \/ \E u \in uploads' : u.product = q
  BY DEF UploadInv
<1>3. QED
  BY <1>1, <1>2 DEF UploadInv

\* What a goroutine writes to the shared array leaves the headers of the others alone.
LEMMA OthersKeepSlice ==
    ASSUME NEW q, Slice(q), UNCHANGED <<event, step[q], at[q], len[q], own[q], body[q]>>,
           Len(array') = Len(array)
    PROVE  Slice(q)'
  BY DEF Slice, Labels, EventLabels

\* If it writes no "master", the others do not get to see one.
LEMMA OthersKeepNotMaster ==
    ASSUME NEW q, NotMaster(q), UNCHANGED <<step[q], at[q], len[q], own[q], body[q]>>,
           DOMAIN array' = DOMAIN array,
           \A i \in DOMAIN array : array'[i] = "master" => array[i] = "master"
    PROVE  NotMaster(q)'
  BY DEF NotMaster

\* If it writes nothing, what the others join stays what it should be.
LEMMA OthersKeepExact ==
    ASSUME NEW q, Exact(q), UNCHANGED <<event, array, step[q], at[q], len[q], own[q], body[q]>>
    PROVE  Exact(q)'
<1>1. SliceOf(q)' = SliceOf(q) /\ EventLabels' = EventLabels
  BY DEF SliceOf, EventLabels
<1>2. Joined(q)' = Joined(q)
  BY <1>1 DEF Joined
<1>3. QED
  BY <1>1, <1>2 DEF Exact

\* What the array should hold, and what it holds, change only with the event and the array.
LEMMA ArrayKeepsLabels ==
    ASSUME ArrayLabels = EventLabels, UNCHANGED <<array, event>>
    PROVE  ArrayLabels' = EventLabels'
<1>1. ArrayLabels' = ArrayLabels
  BY DEF ArrayLabels
<1>2. EventLabels' = EventLabels
  BY DEF EventLabels
<1>3. QED
  BY <1>1, <1>2

\* Without a pull request's side on master there is no "master" to strip.
LEMMA NothingToStrip ==
    ASSUME HandlerInv, ExactInv, Unshared, NEW p \in DOMAIN step, p[2] # NoSide
    PROVE  \A i \in DOMAIN array : array[i] # "master"
<1>1. ArrayLabels = EventLabels
  BY DEF ExactInv
<1>2. ~event.master /\ event.sender # "master"
  BY EventsAssumption DEF HandlerInv, Unshared
<1>3. QED
  BY <1>1, <1>2 DEF ArrayLabels, EventLabels

\* What goroutine p has to keep to, so that the invariant holds for all of them.
LEMMA WorkerKeeps ==
    ASSUME WebhookInv, NEW p \in DOMAIN step, step[p] # "done",
           UNCHANGED <<event, pc, listed, response>>,
           DOMAIN step' = DOMAIN step, DOMAIN at' = DOMAIN step, DOMAIN len' = DOMAIN step,
           DOMAIN own' = DOMAIN step, DOMAIN body' = DOMAIN step,
           \A q \in DOMAIN step \ {p} : UNCHANGED <<step[q], at[q], len[q], own[q], body[q]>>,
           array' \in Seq(Labels), Len(array') = Len(array),
           \A i \in DOMAIN array : array'[i] = "master" => array[i] = "master",
           UploadInv', Slice(p)', p[2] # NoSide => NotMaster(p)',
           Unshared => UNCHANGED array /\ Exact(p)'
    PROVE  WebhookInv'
<1>1. HandlerInv'
  BY WorkerKeepsHandler DEF WebhookInv
<1>2. DOMAIN array' = DOMAIN array /\ array \in Seq(Labels)
  BY DEF WebhookInv, SliceInv
<1>3. SliceInv'
  <2>1. \A q \in DOMAIN step \ {p} : Slice(q)'
    BY OthersKeepSlice DEF WebhookInv, SliceInv
  <2>2. Labels' = Labels
    BY DEF Labels, EventLabels
  <2>3. QED
    BY <2>1, <2>2 DEF SliceInv
<1>4. MasterInv'
  <2>1. \A q \in DOMAIN step \ {p} : q[2] # NoSide => NotMaster(q)'
    BY <1>2, OthersKeepNotMaster DEF WebhookInv, MasterInv
  <2>2. \A i, j \in DOMAIN array' : array'[i] = "master" /\ array'[j] = "master" => i = j
    BY <1>2 DEF WebhookInv, MasterInv
  <2>3. QED
    BY <2>1, <2>2 DEF MasterInv
<1>5. ExactInv'
  <2>1. SUFFICES ASSUME Unshared PROVE ArrayLabels' = EventLabels' /\ \A q \in DOMAIN step : Exact(q)'
    BY DEF ExactInv, Unshared
  <2>2. UNCHANGED <<array, event>> /\ Exact(p)' /\ ArrayLabels = EventLabels
        /\ \A q \in DOMAIN step : Exact(q)
    BY <2>1 DEF WebhookInv, ExactInv
  <2>3. \A q \in DOMAIN step \ {p} : Exact(q)'
    BY <2>2, OthersKeepExact
  <2>4. ArrayLabels' = EventLabels'
    BY <2>2, ArrayKeepsLabels
  <2>5. QED
    BY <2>2, <2>3, <2>4
<1>6. QED
  BY <1>1, <1>3, <1>4, <1>5 DEF WebhookInv

\* The label "master" is looked for and cut out.
LEMMA StripMasterKeeps ==
    ASSUME WebhookInv, NEW p \in DOMAIN step, StripMaster(p)
    PROVE  WebhookInv'
<1> DEFINE n == Len(array)
<1>1. step[p] = "range" /\ UNCHANGED <<event, pc, listVars, own, body, uploads, errors, response>>
  BY DEF StripMaster
<1>2. /\ DOMAIN at = DOMAIN step /\ DOMAIN len = DOMAIN step
      /\ DOMAIN own = DOMAIN step /\ DOMAIN body = DOMAIN step
      /\ array \in Seq(Labels) /\ n \in Nat /\ DOMAIN array = 1 .. n /\ Slice(p)
  BY DEF WebhookInv, SliceInv
<1>3. at[p] \in Nat \ {0} /\ own[p] = <<>> /\ len[p] = n /\ p[2] # NoSide /\ NotMaster(p)
  BY <1>1, <1>2 DEF Slice, WebhookInv, MasterInv
<1>4. /\ DOMAIN step' = DOMAIN step /\ DOMAIN at' = DOMAIN step /\ DOMAIN len' = DOMAIN step
      /\ DOMAIN own' = DOMAIN step /\ DOMAIN body' = DOMAIN step
      /\ \A q \in DOMAIN step \ {p} : UNCHANGED <<step[q], at[q], len[q], own[q], body[q]>>
  BY <1>2 DEF StripMaster
<1>5. step'[p] \in {"range", "append"}
  BY <1>1 DEF StripMaster
<1>6. UploadInv'
  BY <1>1, <1>4, <1>5, WorkerKeepsUploads DEF listVars, WebhookInv
<1>7. Unshared => \A i \in DOMAIN array : array[i] # "master"
  BY <1>3, NothingToStrip DEF WebhookInv
<1>8. CASE at[p] > n
  <2>1. UNCHANGED <<array, at, len>> /\ step'[p] = "append"
    BY <1>2, <1>8 DEF StripMaster
  <2>2. Slice(p)'
    BY <1>1, <1>2, <1>3, <2>1 DEF Slice, Labels, EventLabels
  <2>3. NotMaster(p)'
    BY <1>1, <1>2, <1>3, <1>8, <2>1 DEF NotMaster
  <2>4. Unshared => Exact(p)'
    BY <1>1, <1>3, <2>1 DEF WebhookInv, ExactInv, Exact, SliceOf
  <2>5. QED
    BY <1>1, <1>2, <1>4, <1>6, <2>1, <2>2, <2>3, <2>4, WorkerKeeps DEF listVars
<1>9. CASE at[p] <= n /\ array[at[p]] # "master"
  <2>1. UNCHANGED <<array, step, len>> /\ at'[p] = at[p] + 1
    BY <1>2, <1>3, <1>9 DEF StripMaster
  <2>2. Slice(p)'
    BY <1>1, <1>2, <1>3, <2>1 DEF Slice, Labels, EventLabels
  <2>3. NotMaster(p)'
    BY <1>1, <1>2, <1>3, <1>9, <2>1 DEF NotMaster
  <2>4. Unshared => Exact(p)'
    BY <1>1, <1>3, <2>1 DEF WebhookInv, ExactInv, Exact, SliceOf
  <2>5. QED
    BY <1>1, <1>2, <1>4, <1>6, <2>1, <2>2, <2>3, <2>4, WorkerKeeps DEF listVars
<1>10. CASE at[p] <= n /\ array[at[p]] = "master"
  <2>1. /\ array' = [i \in DOMAIN array |->
                        IF i \in at[p] .. (n - 1) THEN array[i + 1] ELSE array[i]]
        /\ UNCHANGED at /\ len'[p] = n - 1 /\ step'[p] = "append"
    BY <1>2, <1>3, <1>10 DEF StripMaster
  <2>2. array' \in Seq(Labels) /\ Len(array') = n
    BY <1>2, <1>3, <2>1
  <2>3. \A i \in DOMAIN array : array'[i] = "master" => i = n /\ array[i] = "master"
    BY <1>2, <1>3, <1>10, <2>1 DEF WebhookInv, MasterInv
  <2>4. Slice(p)'
    BY <1>1, <1>2, <1>3, <1>10, <2>1, <2>2 DEF Slice, Labels, EventLabels
  <2>5. NotMaster(p)'
    BY <1>1, <1>2, <1>3, <2>1, <2>2, <2>3 DEF NotMaster
  <2>6. ~Unshared
    BY <1>2, <1>3, <1>7, <1>10
  <2>7. QED
    BY <1>1, <1>2, <1>4, <1>6, <2>2, <2>3, <2>4, <2>5, <2>6, WorkerKeeps DEF listVars
<1>11. QED
  BY <1>2, <1>3, <1>8, <1>9, <1>10

\* The side's label is appended, in the shared array or in a copy.
LEMMA AppendSideKeeps ==
    ASSUME WebhookInv, NEW p \in DOMAIN step, AppendSide(p)
    PROVE  WebhookInv'
<1> DEFINE n == Len(array)
<1>1. step[p] = "append" /\ UNCHANGED <<event, pc, listVars, body, uploads, errors, response>>
  BY DEF AppendSide
<1>2. /\ DOMAIN at = DOMAIN step /\ DOMAIN len = DOMAIN step
      /\ DOMAIN own = DOMAIN step /\ DOMAIN body = DOMAIN step
      /\ array \in Seq(Labels) /\ n \in Nat /\ DOMAIN array = 1 .. n /\ Slice(p)
  BY DEF WebhookInv, SliceInv
<1>3. /\ own[p] = <<>> /\ len[p] \in Nat /\ len[p] <= n
      /\ p[2] # NoSide /\ p[2] \in {"pr_head", "pr_base"}
  BY <1>1, <1>2 DEF Slice
<1>4. NotMaster(p)
  BY <1>3 DEF WebhookInv, MasterInv
<1>5. /\ DOMAIN step' = DOMAIN step /\ DOMAIN at' = DOMAIN step /\ DOMAIN len' = DOMAIN step
      /\ DOMAIN own' = DOMAIN step /\ DOMAIN body' = DOMAIN step
      /\ \A q \in DOMAIN step \ {p} : UNCHANGED <<step[q], at[q], len[q], own[q], body[q]>>
      /\ step'[p] = "join" /\ at'[p] = 1 /\ len'[p] = len[p] + 1
  BY <1>2 DEF AppendSide
<1>6. UploadInv'
  BY <1>1, <1>5, WorkerKeepsUploads DEF listVars, WebhookInv
<1>7. Unshared => Exact(p) /\ len[p] = n
  BY <1>3 DEF WebhookInv, ExactInv, Exact, SliceOf
<1>8. CASE len[p] < n
  <2>1. array' = [array EXCEPT ![len[p] + 1] = p[2]] /\ UNCHANGED own
    BY <1>8 DEF AppendSide
  <2>2. array' \in Seq(Labels) /\ Len(array') = n
    <3>1. array \in [1 .. n -> Labels] /\ p[2] \in Labels
      BY <1>2, <1>3 DEF Labels
    <3>2. array' \in [1 .. n -> Labels]
      BY <2>1, <3>1
    <3>3. QED
      BY <1>2, <3>2
  <2>3. \A i \in DOMAIN array : array'[i] = "master" => i # len[p] + 1 /\ array[i] = "master"
    BY <1>2, <1>3, <2>1
  <2>4. Slice(p)'
    BY <1>1, <1>2, <1>3, <1>5, <1>8, <2>1, <2>2 DEF Slice, Labels, EventLabels
  <2>5. NotMaster(p)'
    BY <1>1, <1>2, <1>3, <1>4, <1>5, <2>1, <2>2, <2>3 DEF NotMaster
  <2>6. ~Unshared
    BY <1>7, <1>8
  <2>7. QED
    BY <1>1, <1>2, <1>5, <1>6, <2>2, <2>3, <2>4, <2>5, <2>6, WorkerKeeps DEF listVars
<1>9. CASE len[p] = n
  <2>1. own'[p] = Append(array, p[2]) /\ UNCHANGED array
    BY <1>2, <1>9 DEF AppendSide
  <2>2. own'[p] \in Seq(Labels) /\ own'[p] # <<>> /\ Len(own'[p]) = n + 1
    BY <1>2, <1>3, <2>1 DEF Labels
  <2>3. Labels' = Labels /\ EventLabels' = EventLabels
    BY <1>1 DEF Labels, EventLabels
  <2>4. Slice(p)'
    BY <1>2, <1>3, <1>5, <1>9, <2>1, <2>2, <2>3 DEF Slice
  <2>5. NotMaster(p)'
    <3>1. \A i \in DOMAIN array : array[i] # "master"
      BY <1>1, <1>2, <1>3, <1>4, <1>9 DEF NotMaster
    <3>2. \A i \in DOMAIN own'[p] : own'[p][i] # "master"
      BY <1>2, <1>3, <2>1, <3>1
    <3>3. QED
      BY <1>1, <1>4, <1>5, <2>1, <2>2, <3>2 DEF NotMaster
  <2>6. Unshared => Exact(p)'
    <3>1. SUFFICES ASSUME Unshared PROVE Exact(p)'
      OBVIOUS
    <3>2. SliceOf(p)' = own'[p] /\ body'[p] = {}
      BY <1>1, <1>7, <2>2, <3>1 DEF SliceOf, Exact
    <3>3. Joined(p)' = {}
      <4>1. 1 .. (at'[p] - 1) = {}
        BY <1>5
      <4>2. QED
        BY <4>1 DEF Joined
    <3>4. QED
      BY <1>2, <1>3, <1>5, <1>9, <2>1, <2>2, <3>2, <3>3 DEF Exact
  <2>7. QED
    BY <1>1, <1>2, <1>5, <1>6, <2>1, <2>4, <2>5, <2>6, WorkerKeeps DEF listVars
<1>10. QED
  BY <1>2, <1>3, <1>8, <1>9

\* The labels are joined one by one, while others may write to the array they are in.
LEMMA JoinKeeps ==
    ASSUME WebhookInv, NEW p \in DOMAIN step, Join(p)
    PROVE  WebhookInv'
<1> DEFINE label == SliceOf(p)[at[p]]
<1>1. /\ step[p] = "join"
      /\ UNCHANGED <<event, pc, listVars, array, len, own, uploads, errors, response>>
  BY DEF Join
<1>2. /\ DOMAIN at = DOMAIN step /\ DOMAIN len = DOMAIN step
      /\ DOMAIN own = DOMAIN step /\ DOMAIN body = DOMAIN step
      /\ array \in Seq(Labels) /\ Len(array) \in Nat /\ DOMAIN array = 1 .. Len(array) /\ Slice(p)
  BY DEF WebhookInv, SliceInv
<1>3. /\ at[p] \in Nat \ {0} /\ len[p] \in Nat /\ own[p] \in Seq(Labels)
      /\ DOMAIN own[p] = 1 .. Len(own[p])
      /\ own[p] = <<>> => len[p] <= Len(array)
      /\ own[p] # <<>> => len[p] = Len(own[p])
  BY <1>2 DEF Slice
<1>4. /\ DOMAIN step' = DOMAIN step /\ DOMAIN at' = DOMAIN step /\ DOMAIN len' = DOMAIN step
      /\ DOMAIN own' = DOMAIN step /\ DOMAIN body' = DOMAIN step
      /\ \A q \in DOMAIN step \ {p} : UNCHANGED <<step[q], at[q], len[q], own[q], body[q]>>
  BY <1>2 DEF Join
<1>5. step'[p] \in {"join", "post"}
  BY <1>1 DEF Join
<1>6. UploadInv'
  BY <1>1, <1>4, <1>5, WorkerKeepsUploads DEF listVars, WebhookInv
<1>7. p[2] # NoSide => NotMaster(p)
  BY DEF WebhookInv, MasterInv
<1>8. SliceOf(p)' = SliceOf(p) /\ EventLabels' = EventLabels
  BY <1>1 DEF SliceOf, EventLabels
<1>9. Unshared => Exact(p) /\ ArrayLabels = EventLabels
  BY DEF WebhookInv, ExactInv
<1>10. CASE at[p] > len[p]
  <2>1. step'[p] = "post" /\ UNCHANGED <<at, body>>
    BY <1>10 DEF Join
  <2>2. Slice(p)'
    BY <1>1, <1>2, <2>1 DEF Slice, Labels, EventLabels
  <2>3. p[2] # NoSide => NotMaster(p)'
    BY <1>1, <1>7, <2>1 DEF NotMaster
  <2>4. Unshared => Exact(p)'
    <3>1. SUFFICES ASSUME Unshared PROVE Exact(p)'
      OBVIOUS
    <3>2. at[p] - 1 = len[p] /\ body[p] = Joined(p) /\ len[p] = Len(SliceOf(p))
      BY <1>1, <1>3, <1>9, <1>10, <3>1 DEF Exact
    <3>3. Joined(p) = EventLabels \union ({p[2]} \ {NoSide})
      <4>1. Joined(p) = {SliceOf(p)[i] : i \in 1 .. Len(SliceOf(p))}
        BY <3>2 DEF Joined
      <4>2. CASE p[2] = NoSide
        BY <1>1, <1>2, <1>9, <3>1, <4>1, <4>2 DEF Exact, SliceOf, ArrayLabels
      <4>3. CASE p[2] # NoSide
        <5>1. SliceOf(p) = Append(array, p[2])
          BY <1>1, <1>2, <1>9, <3>1, <4>3 DEF Exact, SliceOf
        <5>2. Len(SliceOf(p)) = Len(array) + 1 /\ SliceOf(p)[Len(array) + 1] = p[2]
              /\ \A i \in 1 .. Len(array) : SliceOf(p)[i] = array[i]
          BY <1>2, <5>1
        <5>3. 1 .. Len(SliceOf(p)) = (1 .. Len(array)) \union {Len(array) + 1}
          BY <1>2, <5>2
        <5>4. Joined(p) = ArrayLabels \union {p[2]}
          BY <1>2, <4>1, <5>2, <5>3 DEF ArrayLabels
        <5>5. QED
          BY <1>9, <3>1, <4>3, <5>4
      <4>4. QED
        BY <4>2, <4>3
    <3>4. QED
      BY <1>1, <1>8, <1>9, <2>1, <3>1, <3>2, <3>3 DEF Exact
  <2>5. QED
    BY <1>1, <1>2, <1>4, <1>6, <2>2, <2>3, <2>4, WorkerKeeps DEF listVars
<1>11. CASE at[p] <= len[p]
  <2>1. UNCHANGED step /\ body'[p] = body[p] \union {label} /\ at'[p] = at[p] + 1
    BY <1>2, <1>3, <1>11 DEF Join, SliceOf
  <2>2. Slice(p)'
    BY <1>1, <1>2, <1>3, <2>1 DEF Slice, Labels, EventLabels
  <2>3. p[2] # NoSide => NotMaster(p)'
    <3>1. SUFFICES ASSUME p[2] # NoSide PROVE NotMaster(p)'
      OBVIOUS
    <3>2. label # "master"
      BY <1>1, <1>2, <1>3, <1>7, <1>11, <3>1 DEF NotMaster, SliceOf
    <3>3. QED
      BY <1>1, <1>7, <2>1, <3>1, <3>2 DEF NotMaster
  <2>4. Unshared => Exact(p)'
    <3>1. SUFFICES ASSUME Unshared PROVE Exact(p)'
      OBVIOUS
    <3>2. 1 .. (at'[p] - 1) = (1 .. (at[p] - 1)) \union {at[p]}
      BY <1>3, <2>1
    <3>3. Joined(p)' = Joined(p) \union {label}
      BY <1>8, <3>2 DEF Joined
    <3>4. at'[p] <= len[p] + 1
      BY <1>3, <1>11, <2>1
    <3>5. QED
      BY <1>1, <1>8, <1>9, <2>1, <3>1, <3>3, <3>4 DEF Exact
  <2>5. QED
    BY <1>1, <1>2, <1>4, <1>6, <2>2, <2>3, <2>4, WorkerKeeps DEF listVars
<1>12. QED
  BY <1>3, <1>10, <1>11

\* The upload succeeds, fails, or seems to fail.
LEMMA PostKeeps ==
    ASSUME WebhookInv, NEW p \in DOMAIN step, Post(p)
    PROVE  WebhookInv'
<1> DEFINE upload == [product |-> p, labels |-> body[p], results |-> URLs(Listed, p)]
<1>1. /\ step[p] = "post" /\ step' = [step EXCEPT ![p] = "done"]
      /\ UNCHANGED <<event, pc, listVars, array, at, len, own, body, response>>
      /\ uploads' \in {uploads, uploads \union {upload}}
      /\ errors' \in {errors, errors \union {p}}
      /\ p \in errors' \/ upload \in uploads'
  BY DEF Post
<1>2. /\ DOMAIN at = DOMAIN step /\ DOMAIN len = DOMAIN step
      /\ DOMAIN own = DOMAIN step /\ DOMAIN body = DOMAIN step
      /\ array \in Seq(Labels) /\ Slice(p)
  BY DEF WebhookInv, SliceInv
<1>3. DOMAIN step' = DOMAIN step /\ step'[p] = "done"
      /\ \A q \in DOMAIN step \ {p} : step'[q] = step[q]
  BY <1>1
<1>4. UploadInv'
  <2>1. /\ \A u \in uploads : u.product \in DOMAIN step /\ step[u.product] = "done"
        /\ \A u \in uploads : u = [product |-> u.product, labels |-> body[u.product],
                                   results |-> URLs(Listed, u.product)]
        /\ \A q \in DOMAIN step : step[q] = "done" => q \in errors \/ \E u \in uploads : u.product = q
    BY DEF WebhookInv, UploadInv
  <2>2. upload.product = p
    OBVIOUS
  <2>3. ASSUME NEW u \in uploads'
        PROVE  /\ u.product \in DOMAIN step /\ step'[u.product] = "done"
               /\ u = [product |-> u.product, labels |-> body'[u.product],
                       results |-> URLs(Listed, u.product)']
    <3>1. \A q : URLs(Listed, q)' = URLs(Listed, q)
      BY <1>1, SameProducts DEF listVars
    <3>2. CASE u \in uploads
      BY <1>1, <1>3, <2>1, <3>1, <3>2
    <3>3. CASE u = upload
      BY <1>1, <1>3, <2>2, <3>1, <3>3
    <3>4. QED
      BY <1>1, <3>2, <3>3
  <2>4. ASSUME NEW q \in DOMAIN step', step'[q] = "done"
        PROVE  q \in errors' \/ \E u \in uploads' : u.product = q
    <3>1. CASE q = p
      BY <1>1, <2>2, <3>1
    <3>2. CASE q # p
      BY <1>1, <1>3, <2>1, <2>4, <3>2
    <3>3. QED
      BY <3>1, <3>2
  <2>5. QED
    BY <1>3, <2>3, <2>4 DEF UploadInv
<1>5. Slice(p)'
  BY <1>1, <1>2, <1>3 DEF Slice, Labels, EventLabels
<1>6. p[2] # NoSide => NotMaster(p)'
  BY <1>1, <1>3 DEF WebhookInv, MasterInv, NotMaster
<1>7. Unshared => Exact(p)'
  <2>1. SliceOf(p)' = SliceOf(p) /\ EventLabels' = EventLabels
    BY <1>1 DEF SliceOf, EventLabels
  <2>2. Unshared => Exact(p)
    BY DEF WebhookInv, ExactInv
  <2>3. QED
    BY <1>1, <1>3, <2>1, <2>2 DEF Exact
<1>8. QED
  BY <1>1, <1>2, <1>3, <1>4, <1>5, <1>6, <1>7, WorkerKeeps DEF listVars

-------------------------------------------------------------------------------
(* Theorems *)

\* An event is about to be received.
LEMMA InitWebhookInv == Init => WebhookInv
<1> SUFFICES ASSUME Init PROVE WebhookInv
  OBVIOUS
<1>1. DOMAIN step = {} /\ DOMAIN at = {} /\ DOMAIN len = {} /\ DOMAIN own = {} /\ DOMAIN body = {}
      /\ DOMAIN array = {} /\ array \in Seq(Labels)
  BY DEF Init
<1>2. Len(event.tasks) \in Nat
  BY EventsAssumption DEF Init
<1>3. HandlerInv
  BY <1>1, <1>2 DEF Init, HandlerInv
<1>4. QED
  BY <1>1, <1>3 DEF Init, WebhookInv, UploadInv, SliceInv, MasterInv, ExactInv

\* Whatever the handler or a goroutine does next.
LEMMA NextWebhookInv == WebhookInv /\ [Next]_vars => WebhookInv'
<1> SUFFICES ASSUME WebhookInv, [Next]_vars
             PROVE  WebhookInv'
  OBVIOUS
<1>1. CASE Handler
  BY <1>1, ReceiveKeeps, ListPageKeeps, ExtractKeeps, CreateAllRunsKeeps, CollectKeeps DEF Handler
<1>2. ASSUME NEW p \in DOMAIN step, Worker(p) PROVE WebhookInv'
  BY <1>2, StripMasterKeeps, AppendSideKeeps, JoinKeeps, PostKeeps DEF Worker
<1>3. CASE UNCHANGED vars
  <2>1. HandlerInv'
    BY <1>3, SameProducts DEF vars, listVars, workerVars, WebhookInv, HandlerInv
  <2>2. QED
    BY <1>3, <2>1, HandlerKeeps DEF vars, listVars
<1>4. QED
  BY <1>1, <1>2, <1>3 DEF Next

\* The invariant of the webhook: how far the handler is, what each goroutine's slice of
\* labels shows, and what has been uploaded.
THEOREM WebhookInvariant == Spec => []WebhookInv
  BY InitWebhookInv, NextWebhookInv, PTL DEF Spec

\* However the group was listed, an upload carries all results of its product, none of
\* which failed (webhook.go:562 withholds a product with a failed task).
THEOREM ReportsComplete == Spec => []ReportsAreComplete
<1>1. WebhookInv => ReportsAreComplete
  <2> SUFFICES ASSUME WebhookInv, NEW u \in uploads
               PROVE  LET parts == {t \in {event.tasks[i] : i \in DOMAIN event.tasks} :
                                       /\ event.only = NoTask \/ event.only = t.id
                                       /\ t.suite \in DOMAIN Side
                                       /\ Product(t) = u.product}
                      IN  /\ u.results = {t.id : t \in parts}
                          /\ \A t \in parts : t.state = "completed"
                          /\ \A v \in uploads : v.product = u.product => v = u
    BY DEF ReportsAreComplete
  <2> DEFINE group == {event.tasks[i] : i \in DOMAIN event.tasks}
  <2> DEFINE parts == {t \in group : /\ event.only = NoTask \/ event.only = t.id
                                     /\ t.suite \in DOMAIN Side
                                     /\ Product(t) = u.product}
  <2>1. /\ u.product \in DOMAIN step
        /\ u.results = URLs(Listed, u.product)
        /\ \A v \in uploads : v.product = u.product => v = u
    BY DEF WebhookInv, UploadInv
  <2>2. /\ event \in Events /\ listed = Len(event.tasks) /\ u.product \in ProductsOf(Listed)
    BY <2>1 DEF WebhookInv, HandlerInv
  <2>3. /\ DOMAIN event.tasks = 1 .. Len(event.tasks)
        /\ \A t \in group : t.suite \in DOMAIN Side \union {"stability", "unrecognized"}
    BY <2>2, EventsAssumption
  <2>4. Listed = group
    BY <2>2, <2>3 DEF Listed
  <2>5. \A t \in group : t.suite \in DOMAIN Side <=> t.suite \notin {"stability", "unrecognized"}
    BY <2>3 DEF Side
  <2>6. parts = {t \in Relevant(Listed) : Product(t) = u.product}
    BY <2>4, <2>5 DEF Relevant
  <2>7. \A t \in parts : t.state = "completed"
    BY <2>2, <2>6 DEF ProductsOf
  <2>8. u.results = {t.id : t \in parts}
    BY <2>1, <2>6, <2>7 DEF URLs
  <2>9. QED
    BY <2>1, <2>7, <2>8
<1>2. QED
  BY <1>1, WebhookInvariant, PTL

\* No run of a pull request's changes or of their base is labelled "master" (webhook.go:623),
\* although the goroutines cut and append in the same array.
THEOREM NoMasterOnPullRequests == Spec => []NoPullRequestOnMaster
<1>1. WebhookInv => NoPullRequestOnMaster
  BY DEF WebhookInv, UploadInv, MasterInv, NotMaster, NoPullRequestOnMaster
<1>2. QED
  BY <1>1, WebhookInvariant, PTL

\* Unless a group on master contains pull request suites, every run has exactly the labels
\* of the event and of its side.
THEOREM LabelsExact == Spec => []LabelsAreExact
<1>1. WebhookInv => LabelsAreExact
  <2> SUFFICES ASSUME WebhookInv, Unshared, NEW u \in uploads
               PROVE  u.labels = EventLabels \union ({u.product[2]} \ {NoSide})
    BY DEF LabelsAreExact, Unshared
  <2>1. u.product \in DOMAIN step /\ step[u.product] = "done" /\ u.labels = body[u.product]
    BY DEF WebhookInv, UploadInv
  <2>2. Exact(u.product)
    BY <2>1 DEF WebhookInv, ExactInv
  <2>3. QED
    BY <2>1, <2>2 DEF Exact
<1>2. QED
  BY <1>1, WebhookInvariant, PTL

\* The answer to GitHub is true: after 200 every product without a failed task has been
\* uploaded, after 204 or 400 nothing has.
THEOREM AnswersAreTruthful == Spec => []AnswerIsTruthful
<1>1. WebhookInv => AnswerIsTruthful
  <2> SUFFICES ASSUME WebhookInv
               PROVE  /\ response = 200 => {u.product : u \in uploads} = ProductsOf(Listed)
                                           /\ listed = Len(event.tasks)
                      /\ response \in {204, 400} => uploads = {}
    BY DEF AnswerIsTruthful
  <2>1. response \in {204, 400} => uploads = {}
    BY DEF WebhookInv, HandlerInv
  <2>2. ASSUME response = 200
        PROVE  {u.product : u \in uploads} = ProductsOf(Listed) /\ listed = Len(event.tasks)
    <3>1. /\ pc = "responded" /\ errors = {} /\ listed = Len(event.tasks)
          /\ DOMAIN step = ProductsOf(Listed) /\ \A p \in DOMAIN step : step[p] = "done"
      BY <2>2 DEF WebhookInv, HandlerInv
    <3>2. \A p \in DOMAIN step : \E u \in uploads : u.product = p
      BY <3>1 DEF WebhookInv, UploadInv
    <3>3. \A u \in uploads : u.product \in DOMAIN step
      BY DEF WebhookInv, UploadInv
    <3>4. QED
      BY <3>1, <3>2, <3>3
  <2>3. QED
    BY <2>1, <2>2
<1>2. QED
  BY <1>1, WebhookInvariant, PTL

-------------------------------------------------------------------------------
(* The checks: the inductive invariant *)

RunLabels == {"master", "pr_head", "pr_base"}
Runs == Arrivals \union {OlderMaster, NoRun}
Suites == [app : Apps, id : Nat]
SuiteInHand == {<<>>} \union {<<s>> : s \in Suites}
CheckRunType == [app : Apps, name : {CheckName}, pair : Runs \X Runs]
TaskType ==
    [id : Nat, pc : {"queued", "compare", "push"}, pair : Runs \X Runs, todo : SUBSET Suites,
     suite : SuiteInHand, existing : SUBSET Nat, code : {0, 404, 500}]

ChecksTypeInv ==
    /\ testRuns \subseteq Arrivals
    /\ suites \subseteq Suites
    /\ checkRuns \in Seq(CheckRunType)
    /\ tasks \subseteq TaskType
    /\ scheduled \in Nat
    /\ hooks \subseteq [id : Nat, app : Apps, again : BOOLEAN, pc : {"put", "schedule"}]
    /\ events \in Nat

\* r is not older than the other runs.
IsNewest(r, runs) == \A other \in runs : other.time <= r.time

\* i is the last of the check runs is.
IsLast(i, is) == \A j \in is : j <= i

RunsOf(label) == {r \in testRuns : r.label = label}

\* Finitely many runs and check runs have come: of any runs there is a newest.
RunsInv ==
    /\ \A r, s \in testRuns : r.label = "master" <=> s.label = "master"
    /\ \A runs \in SUBSET testRuns : runs # {} => \E r \in runs : IsNewest(r, runs)
    /\ \A app \in Apps : Mine(app) # {} => \E i \in Mine(app) : IsLast(i, Mine(app))

\* What a handler knows of the check runs: those of the suite's app that it is to update.
TaskInv ==
    \A t \in tasks :
        /\ t.pc = "push" => t.suite # <<>> /\ t.existing \subseteq Mine(t.suite[1].app)
        /\ t.pc # "push" => t.existing = {} /\ t.suite = <<>>

Clean == excused \subseteq {"unlisted", "overlapped"}
Current == Comparison(testRuns)
Running == {t \in tasks : t.pc # "queued"}

\* A task that will compare the runs there are, or a hook that will schedule one.  A task that
\* found no runs to compare may expire.
Live == \E t \in tasks : t.pc = "queued" /\ t.code # 404
Coming == Live \/ \E h \in hooks : h.pc = "schedule"

\* A handler is yet to put the comparison of the current runs on the suite.
CoveredBy(t, s) == t \in Running /\ t.pair = Current /\ (s \in t.todo \/ t.suite = <<s>>)

\* The newest check run for the suite compares the current runs.
Shown(s) == \E i \in Mine(s.app) : IsLast(i, Mine(s.app)) /\ checkRuns[i].pair = Current

\* Handlers at work compare the same runs; after the one that a handler is to update only check
\* runs of these were created.
AgreeInv ==
    /\ \A t, u \in Running : t.pair = u.pair
    /\ \A t \in Running : \A i \in t.existing : \A j \in Mine(t.suite[1].app) :
          j > i => checkRuns[j].pair = t.pair

\* As long as handlers at work may compare runs that are not the newest, and as long as a suite
\* shows other runs, something is to come.
ProgressInv ==
    /\ Live \/ \A t \in Running : t.pair = Current
    /\ Coming \/ \A s \in suites : Shown(s) \/ \E t \in tasks : CoveredBy(t, s)

SettleInv == Clean => AgreeInv /\ (Current # NoPair => ProgressInv)

ChecksInv == ChecksTypeInv /\ RunsInv /\ TaskInv /\ SettleInv

-------------------------------------------------------------------------------
(* Runs *)

\* A task goes on with runs to compare, or with the next suite.
LEMMA BegunIsTask ==
    ASSUME NEW t \in TaskType, NEW pair \in Runs \X Runs, NEW todo \in SUBSET Suites,
           NEW n, n = [t EXCEPT !.pc = "compare", !.pair = pair, !.todo = todo]
    PROVE  n \in TaskType
<1>1. n = [id |-> n.id, pc |-> n.pc, pair |-> n.pair, todo |-> n.todo, suite |-> n.suite,
           existing |-> n.existing, code |-> n.code]
  BY DEF TaskType
<1>2. n.id = t.id /\ n.pc = "compare" /\ n.pair = pair /\ n.todo = todo
      /\ n.suite = t.suite /\ n.existing = t.existing /\ n.code = t.code
  BY DEF TaskType
<1>3. t.id \in Nat /\ t.suite \in SuiteInHand /\ t.existing \in SUBSET Nat /\ t.code \in {0, 404, 500}
  BY DEF TaskType
<1> QED BY <1>1, <1>2, <1>3 DEF TaskType

LEMMA NextIsTask ==
    ASSUME NEW t \in TaskType, NEW suite \in SuiteInHand,
           NEW n, n = [t EXCEPT !.pc = "compare", !.suite = suite, !.existing = {}]
    PROVE  n \in TaskType
<1>1. n = [id |-> n.id, pc |-> n.pc, pair |-> n.pair, todo |-> n.todo, suite |-> n.suite,
           existing |-> n.existing, code |-> n.code]
  BY DEF TaskType
<1>2. n.id = t.id /\ n.pc = "compare" /\ n.pair = t.pair /\ n.todo = t.todo
      /\ n.suite = suite /\ n.existing = {} /\ n.code = t.code
  BY DEF TaskType
<1>3. t.id \in Nat /\ t.pair \in Runs \X Runs /\ t.todo \in SUBSET Suites /\ t.code \in {0, 404, 500}
  BY DEF TaskType
<1> QED BY <1>1, <1>2, <1>3 DEF TaskType

\* Of runs with a newest one, Newest finds it.
LEMMA NewestIsNewest ==
    ASSUME NEW runs, NEW r \in runs, IsNewest(r, runs)
    PROVE  Newest(runs) \in runs /\ IsNewest(Newest(runs), runs)
  BY DEF Newest, IsNewest

LEMMA NewestOfSide ==
    ASSUME RunsInv, NEW label \in RunLabels, RunsOf(label) # {}
    PROVE  Newest(RunsOf(label)) \in RunsOf(label) /\ IsNewest(Newest(RunsOf(label)), RunsOf(label))
  BY NewestIsNewest DEF RunsInv, RunsOf

\* The runs of a commit are all on master or none is.
LEMMA KindOfCommit ==
    ASSUME ChecksTypeInv, RunsInv
    PROVE  testRuns = RunsOf("master") \/ testRuns = RunsOf("pr_head") \union RunsOf("pr_base")
  BY ArrivalsAssumption DEF ChecksTypeInv, RunsInv, RunsOf

LEMMA NewestRun ==
    ASSUME ChecksTypeInv, RunsInv, testRuns # {}
    PROVE  Newest(testRuns) \in testRuns /\ IsNewest(Newest(testRuns), testRuns)
  BY NewestIsNewest DEF RunsInv

\* Before a run on master there is one of the commit, the newest of those that are earlier, or
\* else an older one.
LEMMA BeforeIsRun ==
    ASSUME ChecksTypeInv, RunsInv, NEW head
    PROVE  Before(testRuns, head) \in Runs
<1> DEFINE earlier == {r \in testRuns : r.label = "master" /\ r.time < head.time}
<1>1. CASE earlier = {}
  BY <1>1 DEF Before, Runs
<1>2. CASE earlier # {}
  <2>1. Newest(earlier) \in earlier
    BY <1>2, NewestIsNewest DEF RunsInv
  <2> QED BY <1>2, <2>1 DEF Before, Runs, ChecksTypeInv
<1> QED BY <1>1, <1>2

\* What is compared are runs that there are.
LEMMA CurrentIsPair ==
    ASSUME ChecksTypeInv, RunsInv
    PROVE  Current \in Runs \X Runs
<1>1. CASE testRuns = {}
  BY <1>1 DEF Current, Comparison, NoPair, Runs
<1>2. CASE testRuns # {}
  <2> DEFINE first == Newest(testRuns)
  <2>1. first \in Arrivals
    BY <1>2, NewestRun DEF ChecksTypeInv
  <2>2. RunsOf("pr_head") # {} => Newest(RunsOf("pr_head")) \in Arrivals
    BY NewestOfSide DEF RunLabels, RunsOf, ChecksTypeInv
  <2>3. RunsOf("pr_base") # {} => Newest(RunsOf("pr_base")) \in Arrivals
    BY NewestOfSide DEF RunLabels, RunsOf, ChecksTypeInv
  <2> HIDE DEF first
  <2>4. PairOf(testRuns, first) \in Runs \X Runs
    BY <2>1, <2>2, <2>3, BeforeIsRun DEF PairOf, NoPair, Runs, RunsOf
  <2> QED BY <1>2, <2>4 DEF Current, Comparison, first
<1> QED BY <1>1, <1>2

\* With runs of all that is to be compared, what a task compares is what is wanted.
LEMMA CurrentIsWanted ==
    ASSUME ChecksTypeInv, RunsInv, testRuns # {},
           \/ \A r \in testRuns : r.label = "master"
           \/ \A label \in {"pr_head", "pr_base"} : \E r \in testRuns : r.label = label
    PROVE  Current = Wanted /\ Current # NoPair
<1> DEFINE first == Newest(testRuns)
<1>1. first \in testRuns /\ IsNewest(first, testRuns) /\ first \in Arrivals /\ first # NoRun
  BY NewestRun, ArrivalsAssumption DEF ChecksTypeInv
<1>2. Current = PairOf(testRuns, first)
  BY DEF Current, Comparison
<1> HIDE DEF first
<1>3. CASE \A r \in testRuns : r.label = "master"
  <2>1. {r \in testRuns : r.label = "master" /\ r.time < first.time} = testRuns \ {first}
    <3>1. ASSUME NEW r \in testRuns, r # first
          PROVE  r.time < first.time
      BY <1>1, <1>3, <3>1, ArrivalsAssumption, TimesAssumption DEF IsNewest, ChecksTypeInv
    <3> QED BY <1>1, <1>3, <3>1, ArrivalsAssumption
  <2>2. Current = <<first, Before(testRuns, first)>>
    BY <1>1, <1>2, <1>3 DEF PairOf
  <2>3. testRuns = {first} <=> testRuns \ {first} = {}
    BY <1>1
  <2>4. Wanted = <<first, Before(testRuns, first)>>
    BY <1>3, <2>1, <2>3 DEF Wanted, Before, first
  <2> QED BY <1>1, <2>2, <2>4 DEF NoPair
<1>4. CASE \A label \in {"pr_head", "pr_base"} : \E r \in testRuns : r.label = label
  <2> DEFINE h == Newest(RunsOf("pr_head"))
             b == Newest(RunsOf("pr_base"))
  <2>1. RunsOf("pr_head") # {} /\ RunsOf("pr_base") # {}
    BY <1>4 DEF RunsOf
  <2>2. h \in RunsOf("pr_head") /\ IsNewest(h, RunsOf("pr_head")) /\ h \in Arrivals /\ h # NoRun
    BY <2>1, NewestOfSide, ArrivalsAssumption DEF RunLabels, RunsOf, ChecksTypeInv
  <2>3. b \in RunsOf("pr_base") /\ IsNewest(b, RunsOf("pr_base")) /\ b \in Arrivals /\ b # NoRun
    BY <2>1, NewestOfSide, ArrivalsAssumption DEF RunLabels, RunsOf, ChecksTypeInv
  <2>4. Wanted = <<h, b>>
    BY <1>4 DEF Wanted, RunsOf
  <2>5. /\ first.label = "pr_head" => Current = <<first, b>>
        /\ first.label = "pr_base" => Current = <<h, first>>
    BY <1>2, <2>1 DEF PairOf, RunsOf
  <2> HIDE DEF h, b
  <2>6. first.label \in {"pr_head", "pr_base"}
    <3>1. h \in testRuns /\ h.label = "pr_head"
      BY <2>2 DEF RunsOf
    <3> QED BY <1>1, <3>1, KindOfCommit DEF RunsOf
  <2>7. CASE first.label = "pr_head"
    <3>1. first \in RunsOf("pr_head") /\ h \in testRuns /\ h.label = "pr_head"
      BY <1>1, <2>2, <2>7 DEF RunsOf
    <3>2. first.time = h.time
      BY <1>1, <2>2, <3>1, ArrivalsAssumption DEF IsNewest
    <3>3. first = h
      BY <1>1, <2>2, <2>7, <3>1, <3>2, TimesAssumption
    <3> QED BY <2>2, <2>4, <2>5, <2>7, <3>3 DEF NoPair
  <2>8. CASE first.label = "pr_base"
    <3>1. first \in RunsOf("pr_base") /\ b \in testRuns /\ b.label = "pr_base"
      BY <1>1, <2>3, <2>8 DEF RunsOf
    <3>2. first.time = b.time
      BY <1>1, <2>3, <3>1, ArrivalsAssumption DEF IsNewest
    <3>3. first = b
      BY <1>1, <2>3, <2>8, <3>1, <3>2, TimesAssumption
    <3> QED BY <2>2, <2>4, <2>5, <2>8, <3>3 DEF NoPair
  <2> QED BY <2>6, <2>7, <2>8
<1> QED BY <1>3, <1>4

-------------------------------------------------------------------------------
(* What steps leave alone *)

LEMMA SameCheckRuns ==
    ASSUME UNCHANGED checkRuns
    PROVE  \A app : Mine(app)' = Mine(app)
  BY DEF Mine

LEMMA SameRuns ==
    ASSUME UNCHANGED testRuns
    PROVE  Current' = Current /\ \A label : RunsOf(label)' = RunsOf(label)
  BY DEF Current, RunsOf

LEMMA SameShown ==
    ASSUME UNCHANGED <<testRuns, checkRuns>>
    PROVE  \A s : Shown(s)' <=> Shown(s)
<1>1. Current' = Current
  BY SameRuns
<1>2. \A app : Mine(app)' = Mine(app)
  BY SameCheckRuns
<1> QED BY <1>1, <1>2 DEF Shown, IsLast

LEMMA SameRunsInv ==
    ASSUME RunsInv, UNCHANGED <<testRuns, checkRuns>>
    PROVE  RunsInv'
<1>1. \A label : RunsOf(label)' = RunsOf(label)
  BY SameRuns
<1>2. \A app : Mine(app)' = Mine(app)
  BY SameCheckRuns
<1> QED BY <1>1, <1>2 DEF RunsInv, IsNewest, IsLast

\* Tasks that begin later, or are over, leave the handlers in agreement.
LEMMA AgreeKept ==
    ASSUME AgreeInv, Running' \subseteq Running, UNCHANGED checkRuns
    PROVE  AgreeInv'
<1>1. \A app : Mine(app)' = Mine(app)
  BY SameCheckRuns
<1> QED BY <1>1 DEF AgreeInv

-------------------------------------------------------------------------------
(* Tasks are scheduled *)

\* With a task in the queue all may be as it is.
LEMMA LiveSettles ==
    ASSUME Live, Clean => AgreeInv
    PROVE  SettleInv
  BY DEF SettleInv, ProgressInv, Coming

LEMMA QueuedType ==
    ASSUME NEW id \in Nat, NEW code \in {0, 404, 500}
    PROVE  /\ Queued(id, code) \in TaskType
           /\ Queued(id, code).pc = "queued" /\ Queued(id, code).code = code
           /\ Queued(id, code).existing = {} /\ Queued(id, code).suite = <<>>
<1>1. NoPair \in Runs \X Runs
  BY DEF NoPair, Runs
<1> QED BY <1>1 DEF Queued, TaskType, SuiteInHand

LEMMA NewTaskType ==
    ASSUME ChecksTypeInv
    PROVE  NewTask \in TaskType /\ NewTask.pc = "queued" /\ NewTask.code = 0
           /\ NewTask.existing = {} /\ NewTask.suite = <<>>
<1>1. scheduled + 1 \in Nat
  BY DEF ChecksTypeInv
<1> QED BY <1>1, QueuedType DEF NewTask

\* A task that could not be scheduled is excused; one that was is in the queue.
LEMMA ScheduleKeeps ==
    ASSUME ChecksInv, Schedule, UNCHANGED checkRuns
    PROVE  /\ tasks' \subseteq TaskType /\ scheduled' \in Nat
           /\ TaskInv' /\ SettleInv'
<1>1. \A app : Mine(app)' = Mine(app)
  BY SameCheckRuns
<1>2. CASE scheduled' = scheduled + 1 /\ tasks' = tasks \union {NewTask} /\ UNCHANGED <<faults, excused>>
  <2>1. tasks' \subseteq TaskType /\ scheduled' \in Nat
    BY <1>2, NewTaskType DEF ChecksInv, ChecksTypeInv
  <2>2. TaskInv'
    BY <1>1, <1>2, NewTaskType DEF ChecksInv, TaskInv
  <2>3. Running' \subseteq Running
    BY <1>2, NewTaskType DEF ChecksInv, Running
  <2>4. Clean' => AgreeInv'
    BY <1>2, <2>3, AgreeKept DEF ChecksInv, SettleInv, Clean
  <2>5. Live'
    BY <1>2, NewTaskType DEF ChecksInv, Live
  <2>6. SettleInv'
    BY <2>4, <2>5 DEF SettleInv, ProgressInv, Coming
  <2> QED BY <2>1, <2>2, <2>6
<1>3. CASE excused' = excused \union {"unscheduled"} /\ UNCHANGED <<tasks, scheduled>>
  BY <1>1, <1>3 DEF ChecksInv, ChecksTypeInv, TaskInv, SettleInv, Clean
<1> QED BY <1>2, <1>3 DEF Schedule

\* Of some runs the new one is the newest or the newest one stays that.
LEMMA CreateRunKeeps ==
    ASSUME ChecksInv, NEW r \in Arrivals, CreateRun(r)
    PROVE  ChecksInv'
<1>1. testRuns' = testRuns \union {r} /\ Schedule /\ UNCHANGED <<suites, checkRuns, hooks, events>>
  BY DEF CreateRun
<1>2. tasks' \subseteq TaskType /\ scheduled' \in Nat /\ TaskInv' /\ SettleInv'
  BY <1>1, ScheduleKeeps
<1>3. ChecksTypeInv'
  BY <1>1, <1>2 DEF ChecksInv, ChecksTypeInv
<1>4. RunsInv'
  <2>1. \A q, s \in testRuns' : q.label = "master" <=> s.label = "master"
    BY <1>1 DEF CreateRun, ChecksInv, RunsInv
  <2>2. ASSUME NEW runs \in SUBSET (testRuns'), runs # {}
        PROVE  \E q \in runs : IsNewest(q, runs)
    <3>1. \A q \in runs \union {r} : q.time \in Nat
      BY <1>1, ArrivalsAssumption DEF ChecksInv, ChecksTypeInv
    <3>2. runs \ {r} \in SUBSET testRuns
      BY <1>1
    <3>3. CASE runs \ {r} = {}
      BY <2>2, <3>1, <3>3 DEF IsNewest
    <3>4. CASE runs \ {r} # {}
      <4>1. PICK n \in runs \ {r} : IsNewest(n, runs \ {r})
        BY <3>2, <3>4 DEF ChecksInv, RunsInv
      <4>2. CASE r \in runs /\ ~ (r.time <= n.time)
        BY <3>1, <4>1, <4>2 DEF IsNewest
      <4>3. CASE r \notin runs \/ r.time <= n.time
        BY <4>1, <4>3 DEF IsNewest
      <4> QED BY <4>2, <4>3
    <3> QED BY <3>3, <3>4
  <2>3. \A app : Mine(app)' = Mine(app)
    BY <1>1, SameCheckRuns
  <2>4. \A app \in Apps : Mine(app)' # {} => \E i \in Mine(app)' : IsLast(i, Mine(app)')
    BY <2>3 DEF ChecksInv, RunsInv
  <2>5. \A runs \in SUBSET (testRuns') : runs # {} => \E q \in runs : IsNewest(q, runs)
    BY <2>2
  <2>6. \A runs, q : IsNewest(q, runs)' <=> IsNewest(q, runs)
    BY DEF IsNewest
  <2> QED BY <2>1, <2>4, <2>5, <2>6 DEF RunsInv, IsNewest
<1> QED BY <1>2, <1>3, <1>4 DEF ChecksInv

LEMMA RequestAgainKeeps ==
    ASSUME ChecksInv, RequestAgain
    PROVE  ChecksInv'
<1>1. Schedule /\ UNCHANGED <<testRuns, suites, checkRuns, hooks>> /\ events' = events + 1
  BY DEF RequestAgain
<1>2. tasks' \subseteq TaskType /\ scheduled' \in Nat /\ TaskInv' /\ SettleInv'
  BY <1>1, ScheduleKeeps
<1>3. ChecksTypeInv'
  BY <1>1, <1>2 DEF ChecksInv, ChecksTypeInv
<1>4. RunsInv'
  BY <1>1, SameRunsInv DEF ChecksInv
<1> QED BY <1>2, <1>3, <1>4 DEF ChecksInv

\* Without a run there is nothing to compare and nothing to show.
LEMMA ScheduleExistingKeeps ==
    ASSUME ChecksInv, NEW h \in hooks, ScheduleExisting(h)
    PROVE  ChecksInv'
<1>1. hooks' = hooks \ {h} /\ UNCHANGED <<testRuns, suites, checkRuns, events>>
  BY DEF ScheduleExisting
<1>2. RunsInv'
  BY <1>1, SameRunsInv DEF ChecksInv
<1>3. CASE testRuns # {}
  <2>1. tasks' \subseteq TaskType /\ scheduled' \in Nat /\ TaskInv' /\ SettleInv'
    BY <1>1, <1>3, ScheduleKeeps DEF ScheduleExisting
  <2>2. ChecksTypeInv'
    BY <1>1, <2>1 DEF ChecksInv, ChecksTypeInv
  <2> QED BY <1>2, <2>1, <2>2 DEF ChecksInv
<1>4. CASE testRuns = {}
  <2>1. UNCHANGED <<tasks, scheduled, excused>>
    BY <1>4 DEF ScheduleExisting
  <2>2. Current' = NoPair
    BY <1>1, <1>4 DEF Current, Comparison
  <2>3. ChecksTypeInv'
    BY <1>1, <2>1 DEF ChecksInv, ChecksTypeInv
  <2>4. TaskInv'
    BY <1>1, <2>1, SameCheckRuns DEF ChecksInv, TaskInv
  <2>5. SettleInv'
    BY <1>1, <2>1, <2>2, AgreeKept DEF ChecksInv, SettleInv, Clean, Running
  <2> QED BY <1>2, <2>3, <2>4, <2>5 DEF ChecksInv
<1> QED BY <1>3, <1>4

-------------------------------------------------------------------------------
(* Tasks are handled *)

\* A task that is back in the queue after a failure will compare the current runs.
LEMMA FailKeeps ==
    ASSUME ChecksInv, NEW t \in tasks, Fail(t)
    PROVE  ChecksInv'
<1> DEFINE n == Queued(t.id, 500)
<1>1. tasks' = (tasks \ {t}) \union {n}
      /\ UNCHANGED <<testRuns, suites, checkRuns, scheduled, hooks, events, excused>>
  BY DEF Fail, AnswerTask, Become
<1>2. n \in TaskType /\ n.pc = "queued" /\ n.code = 500 /\ n.existing = {} /\ n.suite = <<>>
  <2>1. t.id \in Nat
    BY DEF ChecksInv, ChecksTypeInv, TaskType
  <2> QED BY <2>1, QueuedType
<1> HIDE DEF n
<1>3. ChecksTypeInv'
  BY <1>1, <1>2 DEF ChecksInv, ChecksTypeInv
<1>4. RunsInv'
  BY <1>1, SameRunsInv DEF ChecksInv
<1>5. TaskInv'
  BY <1>1, <1>2, SameCheckRuns DEF ChecksInv, TaskInv
<1>6. Running' \subseteq Running
  BY <1>1, <1>2 DEF Running
<1>7. Clean' => AgreeInv'
  BY <1>1, <1>6, AgreeKept DEF ChecksInv, SettleInv, Clean
<1>8. Live'
  BY <1>1, <1>2 DEF Live
<1>9. SettleInv'
  BY <1>7, <1>8 DEF SettleInv, ProgressInv, Coming
<1> QED BY <1>3, <1>4, <1>5, <1>9 DEF ChecksInv

\* A task expires unexcused only if it never found runs to compare.
LEMMA ExpireKeeps ==
    ASSUME ChecksInv, NEW t \in tasks, Expire(t)
    PROVE  ChecksInv'
<1>1. /\ t.pc = "queued" /\ tasks' = tasks \ {t}
      /\ excused' = (IF t.code = 404 THEN excused ELSE excused \union {"expired"})
      /\ UNCHANGED <<testRuns, suites, checkRuns, scheduled, hooks, events>>
  BY DEF Expire
<1>2. ChecksTypeInv'
  BY <1>1 DEF ChecksInv, ChecksTypeInv
<1>3. RunsInv'
  BY <1>1, SameRunsInv DEF ChecksInv
<1>4. TaskInv'
  BY <1>1, SameCheckRuns DEF ChecksInv, TaskInv
<1>5. SettleInv'
  <2>1. SUFFICES ASSUME Clean' PROVE AgreeInv' /\ (Current' # NoPair => ProgressInv')
    BY DEF SettleInv
  <2>2. t.code = 404 /\ Clean
    BY <1>1, <2>1 DEF Clean
  <2>3. Running' = Running
    BY <1>1 DEF Running
  <2>4. AgreeInv'
    BY <1>1, <2>2, <2>3, AgreeKept DEF ChecksInv, SettleInv
  <2>5. Live' <=> Live
    BY <1>1, <2>2 DEF Live
  <2>6. Current' = Current /\ (Coming' <=> Coming)
    BY <1>1, <2>5, SameRuns DEF Coming
  <2>7. \A u, s : CoveredBy(u, s)' <=> CoveredBy(u, s)
    BY <2>3, <2>6 DEF CoveredBy
  <2>8. \A u : u \in Running => u \in tasks'
    BY <1>1 DEF Running
  <2>9. Current # NoPair => ProgressInv
    BY <2>2 DEF ChecksInv, SettleInv
  <2>10. ASSUME ProgressInv PROVE ProgressInv'
    <3>1. Live' \/ \A u \in Running' : u.pair = Current'
      BY <2>3, <2>5, <2>6, <2>10 DEF ProgressInv
    <3>2. ASSUME ~ Coming', NEW s \in suites
          PROVE  Shown(s)' \/ \E u \in tasks' : CoveredBy(u, s)'
      <4>1. Shown(s) \/ \E u \in tasks : CoveredBy(u, s)
        BY <2>6, <2>10, <3>2 DEF ProgressInv
      <4>2. \A u : CoveredBy(u, s) => u \in tasks'
        BY <2>8 DEF CoveredBy
      <4>3. Shown(s)' <=> Shown(s)
        BY <1>1, SameShown
      <4> QED BY <2>7, <4>1, <4>2, <4>3
    <3> QED BY <1>1, <3>1, <3>2 DEF ProgressInv
  <2> QED BY <2>4, <2>6, <2>9, <2>10
<1> QED BY <1>2, <1>3, <1>4, <1>5 DEF ChecksInv

\* A handler that begins while others compare other runs is excused; if none does, all
\* compare the current runs then, and it has all suites before it.
LEMMA BeginKeeps ==
    ASSUME ChecksInv, NEW t \in tasks, Begin(t)
    PROVE  ChecksInv'
<1> DEFINE others == {other \in tasks : other.pc # "queued"}
<1>0. PICK begun : begun = [t EXCEPT !.pc = "compare", !.pair = Current, !.todo = suites]
  OBVIOUS
<1>1. /\ t.pc = "queued"
      /\ UNCHANGED <<testRuns, suites, checkRuns, scheduled, hooks, events, faults>>
      /\ excused \subseteq excused'
      /\ "overtaken" \notin excused' => \A other \in others : other.pair = Current
  BY DEF Begin, Current
<1>2. \/ Current = NoPair /\ tasks' = (tasks \ {t}) \union {Queued(t.id, 404)}
      \/ Current # NoPair /\ suites = {} /\ tasks' = tasks \ {t}
      \/ Current # NoPair /\ tasks' = (tasks \ {t}) \union {begun}
  BY <1>0 DEF Begin, Current, AnswerTask, Become
<1>3. begun \in TaskType /\ begun.pc = "compare" /\ begun.pair = Current /\ begun.todo = suites
      /\ begun.existing = {} /\ begun.suite = <<>>
  <2>1. t \in TaskType /\ t.existing = {} /\ t.suite = <<>> /\ suites \subseteq Suites
    BY <1>1 DEF ChecksInv, ChecksTypeInv, TaskInv
  <2>2. Current \in Runs \X Runs
    BY CurrentIsPair DEF ChecksInv
  <2>3. begun.pc = "compare" /\ begun.pair = Current /\ begun.todo = suites
        /\ begun.existing = {} /\ begun.suite = <<>>
    BY <1>0, <2>1 DEF TaskType
  <2>4. begun \in TaskType
    BY <1>0, <2>1, <2>2, BegunIsTask
  <2> QED BY <2>3, <2>4
<1>4. /\ Queued(t.id, 404) \in TaskType /\ Queued(t.id, 404).pc = "queued"
      /\ Queued(t.id, 404).existing = {} /\ Queued(t.id, 404).suite = <<>>
  <2>1. t.id \in Nat
    BY DEF ChecksInv, ChecksTypeInv, TaskType
  <2> QED BY <2>1, QueuedType
<1>5. ChecksTypeInv'
  BY <1>1, <1>2, <1>3, <1>4 DEF ChecksInv, ChecksTypeInv
<1>6. RunsInv'
  BY <1>1, SameRunsInv DEF ChecksInv
<1>7. TaskInv'
  BY <1>1, <1>2, <1>3, <1>4, SameCheckRuns DEF ChecksInv, TaskInv
<1>8. SettleInv'
  <2>1. SUFFICES ASSUME Clean' PROVE AgreeInv' /\ (Current' # NoPair => ProgressInv')
    BY DEF SettleInv
  <2>2. Clean /\ AgreeInv /\ \A other \in Running : other.pair = Current
    BY <1>1, <2>1 DEF Clean, Running, ChecksInv, SettleInv
  <2>3. Current' = Current
    BY <1>1, SameRuns
  <2>4. CASE begun \notin tasks' \/ Current = NoPair
    <3>1. Running' \subseteq Running
      BY <1>2, <1>3, <1>4, <2>4 DEF Running
    <3>2. AgreeInv'
      BY <1>1, <2>2, <3>1, AgreeKept
    <3>3. Current # NoPair => suites = {}
      BY <1>2, <2>4
    <3> QED BY <1>1, <2>2, <2>3, <3>1, <3>2, <3>3 DEF ProgressInv
  <2>5. CASE begun \in tasks' /\ Current # NoPair
    <3>1. Running' \subseteq Running \union {begun}
      BY <1>2, <2>5 DEF Running
    <3>2. \A u \in Running' : u.pair = Current
      BY <1>3, <2>2, <3>1
    <3>3. AgreeInv'
      <4>1. \A app : Mine(app)' = Mine(app)
        BY <1>1, SameCheckRuns
      <4> QED BY <1>1, <1>3, <2>2, <3>1, <3>2, <4>1 DEF AgreeInv
    <3>4. \A s \in suites : CoveredBy(begun, s)'
      BY <1>3, <2>3, <2>5 DEF CoveredBy, Running
    <3> QED BY <1>1, <2>3, <2>5, <3>2, <3>3, <3>4 DEF ProgressInv
  <2> QED BY <2>4, <2>5
<1> QED BY <1>5, <1>6, <1>7, <1>8 DEF ChecksInv

\* The check runs found are the newest ones of the suite's app, or none is.
LEMMA ExistingIsLast ==
    ASSUME ChecksInv, NEW s \in Suites
    PROVE  Existing(s) \subseteq Mine(s.app) /\ \A i \in Existing(s) : IsLast(i, Mine(s.app))
<1> DEFINE matching == {i \in DOMAIN checkRuns : /\ checkRuns[i].app = s.app
                                                 /\ ParsedBrowser(checkRuns[i].name) = Browser}
<1>1. matching = {} \/ matching = Mine(s.app)
  <2>1. \A i \in DOMAIN checkRuns : checkRuns[i] \in CheckRunType
    BY DEF ChecksInv, ChecksTypeInv
  <2>2. \A i \in DOMAIN checkRuns : checkRuns[i].name = CheckName
    BY <2>1 DEF CheckRunType
  <2> QED BY <2>2 DEF Mine
<1>2. s.app \in Apps /\ \A i \in Mine(s.app) : i \in Nat
  BY DEF Suites, Mine, ChecksInv, ChecksTypeInv
<1>3. CASE matching = {}
  BY <1>3 DEF Existing
<1>4. CASE matching # {} /\ matching = Mine(s.app)
  <2>1. Existing(s) = {Max(Mine(s.app))}
    BY <1>4 DEF Existing
  <2>2. PICK i \in Mine(s.app) : IsLast(i, Mine(s.app))
    BY <1>2, <1>4 DEF ChecksInv, RunsInv
  <2>3. Max(Mine(s.app)) \in Mine(s.app) /\ \A j \in Mine(s.app) : Max(Mine(s.app)) >= j
    BY <1>2, <2>2 DEF Max, IsLast
  <2> QED BY <1>2, <2>1, <2>3 DEF IsLast
<1> QED BY <1>1, <1>3, <1>4

\* Tasks in the queue stay there.
LEMMA ComingKept ==
    ASSUME \A u \in tasks : u.pc = "queued" => u \in tasks', \A h \in hooks : h.pc = "schedule" => h \in hooks'
    PROVE  (Live => Live') /\ (Coming => Coming')
  BY DEF Live, Coming

LEMMA CompareKeeps ==
    ASSUME ChecksInv, NEW t \in tasks, Compare(t)
    PROVE  ChecksInv'
<1>1. PICK s, existing :
         /\ s \in t.todo
         /\ existing \in {Existing(s), {}}
         /\ tasks' = (tasks \ {t}) \union
               {[t EXCEPT !.pc = "push", !.suite = <<s>>, !.todo = @ \ {s}, !.existing = existing]}
         /\ excused \subseteq excused'
  BY DEF Compare, Become
<1>2. PICK n : n = [t EXCEPT !.pc = "push", !.suite = <<s>>, !.todo = @ \ {s}, !.existing = existing]
  OBVIOUS
<1>3. t.pc = "compare" /\ UNCHANGED <<testRuns, suites, checkRuns, scheduled, hooks, events>>
  BY DEF Compare
<1>4. t \in TaskType /\ s \in Suites
  BY <1>1 DEF ChecksInv, ChecksTypeInv, TaskType
<1>5. existing \subseteq Mine(s.app) /\ \A i \in existing : IsLast(i, Mine(s.app))
  BY <1>1, <1>4, ExistingIsLast
<1>6. existing \in SUBSET Nat
  BY <1>5 DEF Mine, ChecksInv, ChecksTypeInv
<1>7. /\ n \in TaskType /\ n.pc = "push" /\ n.suite = <<s>> /\ n.existing = existing
      /\ n.pair = t.pair /\ n.todo = t.todo \ {s}
  <2>1. <<s>> \in SuiteInHand /\ t.todo \ {s} \in SUBSET Suites
    BY <1>4 DEF SuiteInHand, TaskType
  <2>2. /\ n.pc = "push" /\ n.suite = <<s>> /\ n.existing = existing
        /\ n.pair = t.pair /\ n.todo = t.todo \ {s}
    BY <1>2, <1>4 DEF TaskType
  <2>3. n.id = t.id /\ n.code = t.code /\ t.id \in Nat /\ t.code \in {0, 404, 500} /\ t.pair \in Runs \X Runs
    BY <1>2, <1>4 DEF TaskType
  <2>4. n = [id |-> n.id, pc |-> n.pc, pair |-> n.pair, todo |-> n.todo, suite |-> n.suite,
             existing |-> n.existing, code |-> n.code]
    BY <1>2, <1>4 DEF TaskType
  <2>5. n \in TaskType
    BY <1>6, <2>1, <2>2, <2>3, <2>4 DEF TaskType
  <2> QED BY <2>2, <2>5
<1>8. tasks' = (tasks \ {t}) \union {n}
  BY <1>1, <1>2
<1>9. \A app : Mine(app)' = Mine(app)
  BY <1>3, SameCheckRuns
<1>10. ChecksTypeInv'
  BY <1>3, <1>7, <1>8 DEF ChecksInv, ChecksTypeInv
<1>11. RunsInv'
  BY <1>3, SameRunsInv DEF ChecksInv
<1>12. TaskInv'
  BY <1>5, <1>7, <1>8, <1>9 DEF ChecksInv, TaskInv
<1>13. SettleInv'
  <2>1. SUFFICES ASSUME Clean' PROVE AgreeInv' /\ (Current' # NoPair => ProgressInv')
    BY DEF SettleInv
  <2>2. Clean /\ AgreeInv
    BY <1>1, <2>1 DEF Clean, ChecksInv, SettleInv
  <2>3. t \in Running /\ Running' = (Running \ {t}) \union {n}
    BY <1>3, <1>7, <1>8 DEF Running
  <2>4. AgreeInv'
    <3>1. \A u, v \in Running' : u.pair = v.pair
      BY <1>7, <2>2, <2>3 DEF AgreeInv
    <3>2. \A i \in n.existing : \A j \in Mine(s.app) : ~ (j > i)
      <4>1. \A j \in Mine(s.app) : j \in Nat
        BY DEF Mine, ChecksInv, ChecksTypeInv
      <4> QED BY <1>5, <1>7, <4>1 DEF IsLast
    <3> QED BY <1>3, <1>7, <1>9, <2>2, <2>3, <3>1, <3>2 DEF AgreeInv
  <2>5. Current' = Current
    BY <1>3, SameRuns
  <2>6. (Live => Live') /\ (Coming => Coming')
    BY <1>3, <1>8, ComingKept
  <2>7. ASSUME ProgressInv PROVE ProgressInv'
    <3>1. Live' \/ \A u \in Running' : u.pair = Current'
      BY <1>7, <2>3, <2>5, <2>6, <2>7 DEF ProgressInv
    <3>2. ASSUME ~ Coming', NEW r \in suites
          PROVE  Shown(r)' \/ \E u \in tasks' : CoveredBy(u, r)'
      <4>1. CASE Shown(r)
        BY <1>3, <4>1, SameShown
      <4>2. CASE \E u \in tasks : CoveredBy(u, r)
        <5>1. PICK u \in tasks : CoveredBy(u, r)
          BY <4>2
        <5>2. CASE u # t
          BY <1>8, <2>3, <2>5, <5>1, <5>2 DEF CoveredBy
        <5>3. CASE u = t
          <6>1. t.suite # <<r>> => r \in t.todo
            BY <5>1, <5>3 DEF CoveredBy
          <6>2. CASE r \in t.todo
            BY <1>7, <1>8, <2>3, <2>5, <5>1, <5>3, <6>2 DEF CoveredBy
          <6>3. CASE t.suite = <<r>> /\ r \notin t.todo
            BY <1>3, <6>3 DEF ChecksInv, TaskInv
          <6> QED BY <6>1, <6>2, <6>3
        <5> QED BY <5>2, <5>3
      <4> QED BY <2>6, <2>7, <3>2, <4>1, <4>2 DEF ProgressInv
    <3> QED BY <1>3, <3>1, <3>2 DEF ProgressInv
  <2> QED BY <2>2, <2>4, <2>5, <2>7 DEF ChecksInv, SettleInv
<1> QED BY <1>10, <1>11, <1>12, <1>13 DEF ChecksInv

-------------------------------------------------------------------------------
(* A check run is updated or created *)

Pushed(t) ==
    checkRuns' = IF t.existing = {} THEN Append(checkRuns, CheckRun(t))
                 ELSE [i \in DOMAIN checkRuns |-> IF i \in t.existing THEN CheckRun(t) ELSE checkRuns[i]]

LEMMA CheckRunType1 ==
    ASSUME ChecksTypeInv, NEW t \in tasks, NEW s \in Suites, t.suite = <<s>>
    PROVE  CheckRun(t) \in CheckRunType /\ CheckRun(t).app = s.app /\ CheckRun(t).pair = t.pair
<1>1. t.pair \in Runs \X Runs /\ s.app \in Apps
  BY DEF ChecksTypeInv, TaskType, Suites
<1> QED BY <1>1 DEF CheckRun, CheckRunType

\* What is pushed concerns the suite's app only: its last check run, if the handler knew one,
\* or a new one.
LEMMA PushedCheckRuns ==
    ASSUME ChecksTypeInv, TaskInv, NEW t \in tasks, NEW s \in Suites, t.pc = "push", t.suite = <<s>>, Pushed(t)
    PROVE  /\ checkRuns' \in Seq(CheckRunType)
           /\ \A app : Mine(app)' = Mine(app) \union
                 (IF t.existing = {} /\ app = s.app THEN {Len(checkRuns) + 1} ELSE {})
           /\ \A app : \A j \in Mine(app)' : \/ checkRuns'[j].pair = t.pair
                                             \/ j \in Mine(app) /\ checkRuns'[j] = checkRuns[j]
           /\ \A j \in t.existing : checkRuns'[j].pair = t.pair
           /\ t.existing = {} => checkRuns'[Len(checkRuns) + 1].pair = t.pair
<1> DEFINE c == CheckRun(t)
           n == Len(checkRuns)
<1>1. c \in CheckRunType /\ c.app = s.app /\ c.pair = t.pair
  BY CheckRunType1
<1>2. checkRuns \in Seq(CheckRunType) /\ n \in Nat /\ DOMAIN checkRuns = 1 .. n
  BY DEF ChecksTypeInv
<1>3. t.existing \subseteq Mine(s.app)
  BY DEF TaskInv
<1> HIDE DEF c, n
<1>4. CASE t.existing = {}
  <2>1. checkRuns' = Append(checkRuns, c)
    BY <1>4 DEF Pushed, c
  <2>2. /\ checkRuns' \in Seq(CheckRunType) /\ DOMAIN checkRuns' = 1 .. (n + 1)
        /\ checkRuns'[n + 1] = c /\ \A i \in 1 .. n : checkRuns'[i] = checkRuns[i]
    BY <1>1, <1>2, <2>1 DEF n
  <2>3. \A app : Mine(app)' = Mine(app) \union (IF app = s.app THEN {n + 1} ELSE {})
    BY <1>1, <1>2, <2>2 DEF Mine
  <2>4. \A app : \A j \in Mine(app) : j \in 1 .. n
    BY <1>2 DEF Mine
  <2> QED BY <1>1, <1>4, <2>2, <2>3, <2>4 DEF n
<1>5. CASE t.existing # {}
  <2>1. checkRuns' = [i \in 1 .. n |-> IF i \in t.existing THEN c ELSE checkRuns[i]]
    BY <1>2, <1>5 DEF Pushed, c
  <2>2. checkRuns' \in Seq(CheckRunType) /\ DOMAIN checkRuns' = 1 .. n
    BY <1>1, <1>2, <2>1
  <2>3. \A i \in 1 .. n : checkRuns'[i].app = checkRuns[i].app
    BY <1>1, <1>3, <2>1 DEF Mine
  <2>4. \A app : Mine(app)' = Mine(app)
    BY <1>2, <2>2, <2>3 DEF Mine
  <2>5. \A j \in t.existing : j \in 1 .. n
    BY <1>2, <1>3 DEF Mine
  <2>6. \A app : \A j \in Mine(app) : j \in 1 .. n
    BY <1>2 DEF Mine
  <2> QED BY <1>1, <1>5, <2>1, <2>2, <2>4, <2>5, <2>6
<1> QED BY <1>4, <1>5

\* There still is a last check run of each app, and if all that was created since the handler
\* looked compares its runs, so does the last one of the suite's app now.
LEMMA PushedIsLast ==
    ASSUME ChecksTypeInv, RunsInv, TaskInv, NEW t \in tasks, NEW s \in Suites, t.pc = "push",
           t.suite = <<s>>, Pushed(t)
    PROVE  /\ \A app \in Apps : Mine(app)' # {} => \E i \in Mine(app)' : IsLast(i, Mine(app)')
           /\ (\A i \in t.existing : \A j \in Mine(s.app) : j > i => checkRuns[j].pair = t.pair) =>
                 \E i \in Mine(s.app)' : IsLast(i, Mine(s.app)') /\ checkRuns'[i].pair = t.pair
           /\ \A app \in Apps : (\E i \in Mine(app) : IsLast(i, Mine(app)) /\ checkRuns[i].pair = t.pair) =>
                 \E i \in Mine(app)' : IsLast(i, Mine(app)') /\ checkRuns'[i].pair = t.pair
<1> DEFINE n == Len(checkRuns)
<1>1. n \in Nat /\ \A app : \A j \in Mine(app) : j \in 1 .. n
  BY DEF ChecksTypeInv, Mine
<1>2. s.app \in Apps
  BY DEF Suites
<1> HIDE DEF n
<1>3. CASE t.existing = {}
  <2>1. \A app : Mine(app)' = Mine(app) \union (IF app = s.app THEN {n + 1} ELSE {})
    BY <1>3, PushedCheckRuns DEF n
  <2>2. n + 1 \in Mine(s.app)' /\ IsLast(n + 1, Mine(s.app)') /\ checkRuns'[n + 1].pair = t.pair
    BY <1>1, <1>3, <2>1, PushedCheckRuns DEF IsLast, n
  <2>3. \A app \in Apps : app # s.app => Mine(app)' = Mine(app)
    BY <2>1
  <2>4. \A app : \A j \in Mine(app)' : \/ checkRuns'[j].pair = t.pair
                                       \/ j \in Mine(app) /\ checkRuns'[j] = checkRuns[j]
    BY PushedCheckRuns
  <2>5. ASSUME NEW app \in Apps, Mine(app)' # {}
        PROVE  \E i \in Mine(app)' : IsLast(i, Mine(app)')
    BY <2>2, <2>3, <2>5 DEF RunsInv
  <2>6. ASSUME NEW app \in Apps, NEW i \in Mine(app), IsLast(i, Mine(app)), checkRuns[i].pair = t.pair
        PROVE  \E k \in Mine(app)' : IsLast(k, Mine(app)') /\ checkRuns'[k].pair = t.pair
    BY <2>2, <2>3, <2>4, <2>6
  <2> QED BY <2>2, <2>5, <2>6
<1>4. CASE t.existing # {}
  <2>1. ASSUME NEW app PROVE Mine(app)' = Mine(app)
    <3>1. Mine(app)' = Mine(app) \union (IF t.existing = {} /\ app = s.app THEN {Len(checkRuns) + 1} ELSE {})
      BY PushedCheckRuns
    <3> QED BY <1>4, <3>1
  <2>2. \A app : \A j \in Mine(app) : checkRuns'[j].pair = t.pair \/ checkRuns'[j] = checkRuns[j]
    BY <2>1, PushedCheckRuns
  <2>3. t.existing \subseteq Mine(s.app)
    BY DEF TaskInv
  <2>4. ASSUME \A i \in t.existing : \A j \in Mine(s.app) : j > i => checkRuns[j].pair = t.pair
        PROVE  \E i \in Mine(s.app) : IsLast(i, Mine(s.app)) /\ checkRuns'[i].pair = t.pair
    <3>1. PICK k \in t.existing : k \in Mine(s.app)
      BY <1>4, <2>3
    <3>2. PICK i \in Mine(s.app) : IsLast(i, Mine(s.app))
      BY <1>2, <3>1 DEF RunsInv
    <3>3. k <= i /\ k \in Nat /\ i \in Nat
      BY <1>1, <3>1, <3>2 DEF IsLast
    <3>4. CASE k = i
      BY <3>1, <3>2, <3>4, PushedCheckRuns
    <3>5. CASE k # i
      <4>1. checkRuns[i].pair = t.pair
        BY <2>4, <3>1, <3>2, <3>3, <3>5
      <4> QED BY <2>2, <3>2, <4>1
    <3> QED BY <3>4, <3>5
  <2>5. ASSUME NEW app \in Apps, NEW i \in Mine(app), IsLast(i, Mine(app)), checkRuns[i].pair = t.pair
        PROVE  checkRuns'[i].pair = t.pair
    BY <2>2, <2>5
  <2> QED BY <2>1, <2>4, <2>5 DEF RunsInv
<1> QED BY <1>3, <1>4

LEMMA NextSuiteKeeps ==
    ASSUME ChecksTypeInv, TaskInv, NEW t \in tasks, t.pc = "push", NextSuite(t),
           \A app : Mine(app) \subseteq Mine(app)'
    PROVE  /\ tasks' \subseteq TaskType /\ TaskInv'
           /\ Running' \subseteq {u \in TaskType : u.pair = t.pair /\ u.existing = {}} \union (Running \ {t})
           /\ \A u \in tasks : u # t => u \in tasks'
           /\ \A s \in t.todo : \E u \in tasks' : u.pc = "compare" /\ u.pair = t.pair /\ s \in u.todo
<1>1. t \in TaskType
  BY DEF ChecksTypeInv
<1>2. \A u \in tasks : u.pc = "push" => u.suite # <<>> /\ u.existing \subseteq Mine(u.suite[1].app)'
  BY DEF TaskInv
<1>3. CASE t.todo = {}
  <2>1. tasks' = tasks \ {t}
    BY <1>3 DEF NextSuite, AnswerTask
  <2> QED BY <1>2, <1>3, <2>1 DEF ChecksTypeInv, TaskInv, Running
<1>4. CASE t.todo # {}
  <2>1. PICK n : n = [t EXCEPT !.pc = "compare", !.suite = <<>>, !.existing = {}]
    OBVIOUS
  <2>2. tasks' = (tasks \ {t}) \union {n}
    BY <1>4, <2>1 DEF NextSuite, Become
  <2>3. n.pc = "compare" /\ n.pair = t.pair /\ n.todo = t.todo /\ n.suite = <<>> /\ n.existing = {}
    BY <1>1, <2>1 DEF TaskType
  <2>4. n \in TaskType
    <3>1. <<>> \in SuiteInHand
      BY DEF SuiteInHand
    <3> QED BY <1>1, <2>1, <3>1, NextIsTask
  <2>5. tasks' \subseteq TaskType
    BY <2>2, <2>4 DEF ChecksTypeInv
  <2>6. TaskInv'
    BY <1>2, <2>2, <2>3 DEF TaskInv
  <2> QED BY <2>2, <2>3, <2>4, <2>5, <2>6 DEF Running
<1> QED BY <1>3, <1>4

LEMMA PushKeeps ==
    ASSUME ChecksInv, NEW t \in tasks, Push(t)
    PROVE  ChecksInv'
<1>1. /\ t.pc = "push" /\ NextSuite(t) /\ UNCHANGED <<testRuns, suites, scheduled, hooks, events>>
      /\ \/ Pushed(t) /\ UNCHANGED excused
         \/ excused' = excused \union {"unpushed"} /\ UNCHANGED checkRuns
  BY DEF Push, Pushed
<1>2. PICK s \in Suites : t.suite = <<s>>
  BY <1>1 DEF ChecksInv, ChecksTypeInv, TaskInv, TaskType, SuiteInHand
<1>3. /\ checkRuns' \in Seq(CheckRunType) /\ \A app : Mine(app) \subseteq Mine(app)'
      /\ \A app \in Apps : Mine(app)' # {} => \E i \in Mine(app)' : IsLast(i, Mine(app)')
  <2>1. CASE Pushed(t)
    BY <1>1, <1>2, <2>1, PushedCheckRuns, PushedIsLast DEF ChecksInv
  <2>2. CASE UNCHANGED checkRuns
    BY <2>2, SameCheckRuns DEF ChecksInv, ChecksTypeInv, RunsInv, IsLast
  <2> QED BY <1>1, <2>1, <2>2
<1>4. /\ tasks' \subseteq TaskType /\ TaskInv'
      /\ Running' \subseteq {u \in TaskType : u.pair = t.pair /\ u.existing = {}} \union (Running \ {t})
      /\ \A u \in tasks : u # t => u \in tasks'
      /\ \A r \in t.todo : \E u \in tasks' : u.pc = "compare" /\ u.pair = t.pair /\ r \in u.todo
  BY <1>1, <1>3, NextSuiteKeeps DEF ChecksInv
<1>5. ChecksTypeInv'
  BY <1>1, <1>3, <1>4 DEF ChecksInv, ChecksTypeInv
<1>6. RunsInv'
  <2>1. \A label : RunsOf(label)' = RunsOf(label)
    BY <1>1, SameRuns
  <2> QED BY <1>1, <1>3, <2>1 DEF ChecksInv, RunsInv, IsNewest
<1>7. SettleInv'
  <2>1. SUFFICES ASSUME Clean' PROVE AgreeInv' /\ (Current' # NoPair => ProgressInv')
    BY DEF SettleInv
  <2>2. Pushed(t) /\ Clean /\ AgreeInv
    <3>1. "unpushed" \notin excused'
      BY <2>1 DEF Clean
    <3>2. Pushed(t) /\ excused' = excused
      BY <1>1, <3>1
    <3>3. Clean
      BY <2>1, <3>2 DEF Clean
    <3> QED BY <3>2, <3>3 DEF ChecksInv, SettleInv
  <2>3. t \in Running /\ \A u \in Running' : u.pair = t.pair
    BY <1>1, <1>4, <2>2 DEF AgreeInv, Running
  <2>4. \A app : \A j \in Mine(app)' : \/ checkRuns'[j].pair = t.pair
                                       \/ j \in Mine(app) /\ checkRuns'[j] = checkRuns[j]
    BY <1>1, <1>2, <2>2, PushedCheckRuns DEF ChecksInv
  <2>5. AgreeInv'
    <3>1. ASSUME NEW u \in Running', NEW i \in u.existing, NEW j \in Mine(u.suite[1].app)', j > i
          PROVE  checkRuns'[j].pair = u.pair
      <4>1. u \in Running
        BY <1>4, <3>1
      <4> QED BY <2>2, <2>3, <2>4, <3>1, <4>1 DEF AgreeInv
    <3> QED BY <2>3, <3>1 DEF AgreeInv
  <2>6. Current' = Current
    BY <1>1, SameRuns
  <2>7. (Live => Live') /\ (Coming => Coming')
    BY <1>1, <1>4, ComingKept
  <2>8. ASSUME ProgressInv PROVE ProgressInv'
    <3>1. Live' \/ \A u \in Running' : u.pair = Current'
      BY <2>3, <2>6, <2>7, <2>8 DEF ProgressInv
    <3>2. ASSUME ~ Coming', NEW r \in suites
          PROVE  Shown(r)' \/ \E u \in tasks' : CoveredBy(u, r)'
      <4>1. t.pair = Current /\ r \in Suites /\ r.app \in Apps
        BY <2>3, <2>7, <2>8, <3>2 DEF ProgressInv, Coming, ChecksInv, ChecksTypeInv, Suites
      <4>2. CASE Shown(r)
        <5>1. \E i \in Mine(r.app)' : IsLast(i, Mine(r.app)') /\ checkRuns'[i].pair = t.pair
          BY <1>1, <1>2, <2>2, <4>1, <4>2, PushedIsLast DEF ChecksInv, Shown
        <5> QED BY <2>6, <4>1, <5>1 DEF Shown, IsLast
      <4>3. CASE r = s
        <5>1. \E i \in Mine(s.app)' : IsLast(i, Mine(s.app)') /\ checkRuns'[i].pair = t.pair
          <6>1. \A i \in t.existing : \A j \in Mine(s.app) : j > i => checkRuns[j].pair = t.pair
            BY <1>2, <2>2, <2>3 DEF AgreeInv
          <6> QED BY <1>1, <1>2, <2>2, <6>1, PushedIsLast DEF ChecksInv
        <5> QED BY <2>6, <4>1, <4>3, <5>1 DEF Shown, IsLast
      <4>4. CASE r \in t.todo
        BY <1>4, <2>6, <4>1, <4>4 DEF CoveredBy, Running
      <4>5. CASE \E u \in tasks : u # t /\ CoveredBy(u, r)
        BY <1>4, <2>6, <4>5 DEF CoveredBy, Running
      <4>6. Shown(r) \/ \E u \in tasks : CoveredBy(u, r)
        BY <2>7, <2>8, <3>2 DEF ProgressInv
      <4>7. CoveredBy(t, r) => r \in t.todo \/ r = s
        BY <1>2 DEF CoveredBy
      <4> QED BY <4>2, <4>3, <4>4, <4>5, <4>6, <4>7
    <3> QED BY <1>1, <3>1, <3>2 DEF ProgressInv
  <2> QED BY <2>2, <2>5, <2>6, <2>8 DEF ChecksInv, SettleInv
<1> QED BY <1>4, <1>5, <1>6, <1>7 DEF ChecksInv

-------------------------------------------------------------------------------
(* Suites *)

LEMMA SuiteEventKeeps ==
    ASSUME ChecksInv, NEW app \in Apps, NEW again \in BOOLEAN, SuiteEvent(app, again)
    PROVE  ChecksInv'
<1>1. /\ events' = events + 1 /\ UNCHANGED <<testRuns, suites, checkRuns, tasks, scheduled, faults, excused>>
      /\ hooks \subseteq hooks'
  BY DEF SuiteEvent
<1>2. ChecksTypeInv'
  <2>1. PICK h : h = [id |-> events + 1, app |-> app, again |-> again, pc |-> "put"]
    OBVIOUS
  <2>2. hooks' = hooks \union (IF \E s \in suites : s.app = app THEN Ready(h) ELSE {h})
    BY <1>1, <2>1 DEF SuiteEvent
  <2>3. h \in [id : Nat, app : Apps, again : BOOLEAN, pc : {"put", "schedule"}]
    BY <2>1 DEF ChecksInv, ChecksTypeInv
  <2>4. Ready(h) \subseteq [id : Nat, app : Apps, again : BOOLEAN, pc : {"put", "schedule"}]
    BY <2>3 DEF Ready
  <2> QED BY <1>1, <2>2, <2>3, <2>4 DEF ChecksInv, ChecksTypeInv
<1>3. RunsInv'
  BY <1>1, SameRunsInv DEF ChecksInv
<1>4. TaskInv'
  BY <1>1, SameCheckRuns DEF ChecksInv, TaskInv
<1>5. SettleInv'
  <2>1. Running' = Running /\ Current' = Current /\ (Clean' <=> Clean) /\ (Live' <=> Live) /\ (Coming => Coming')
    BY <1>1 DEF Running, Current, Clean, Live, Coming
  <2>2. AgreeInv => AgreeInv'
    BY <1>1, <2>1, AgreeKept
  <2>3. \A s : Shown(s)' <=> Shown(s)
    BY <1>1, SameShown
  <2>4. \A u, s : CoveredBy(u, s)' <=> CoveredBy(u, s)
    BY <2>1 DEF CoveredBy
  <2>5. ProgressInv => ProgressInv'
    BY <1>1, <2>1, <2>3, <2>4 DEF ProgressInv
  <2> QED BY <2>1, <2>2, <2>5 DEF ChecksInv, SettleInv
<1> QED BY <1>2, <1>3, <1>4, <1>5 DEF ChecksInv

\* A new suite is one that a task of the queue will see, or it has asked for a task, or is late.
LEMMA PutSuiteKeeps ==
    ASSUME ChecksInv, NEW h \in hooks, PutSuite(h)
    PROVE  ChecksInv'
<1> DEFINE new == [app |-> h.app, id |-> h.id]
<1>1. /\ h.pc = "put" /\ suites' = suites \union {new} /\ hooks' = (hooks \ {h}) \union Ready(h)
      /\ UNCHANGED <<testRuns, checkRuns, tasks, scheduled, events, faults>>
      /\ excused \subseteq excused'
      /\ (/\ Current # NoPair /\ ~ h.again
          /\ \A t \in tasks : t.code # 0 \/ t.pc # "queued") => "late" \in excused'
  BY DEF PutSuite, Current
<1>2. h \in [id : Nat, app : Apps, again : BOOLEAN, pc : {"put", "schedule"}]
  BY DEF ChecksInv, ChecksTypeInv
<1>3. ChecksTypeInv'
  <2>1. new \in Suites
    BY <1>2 DEF Suites
  <2>2. Ready(h) \subseteq [id : Nat, app : Apps, again : BOOLEAN, pc : {"put", "schedule"}]
    BY <1>2 DEF Ready
  <2> HIDE DEF new
  <2> QED BY <1>1, <2>1, <2>2 DEF ChecksInv, ChecksTypeInv
<1>4. RunsInv'
  BY <1>1, SameRunsInv DEF ChecksInv
<1>5. TaskInv'
  BY <1>1, SameCheckRuns DEF ChecksInv, TaskInv
<1>6. SettleInv'
  <2>1. SUFFICES ASSUME Clean' PROVE AgreeInv' /\ (Current' # NoPair => ProgressInv')
    BY DEF SettleInv
  <2>2. Clean /\ AgreeInv /\ "late" \notin excused'
    BY <1>1, <2>1 DEF Clean, ChecksInv, SettleInv
  <2>3. Running' = Running /\ Current' = Current /\ (Live' <=> Live)
    BY <1>1 DEF Running, Current, Live
  <2>4. AgreeInv'
    BY <1>1, <2>2, <2>3, AgreeKept
  <2>5. Coming => Coming'
    BY <1>1, ComingKept
  <2>6. \A u, s : /\ Shown(s)' <=> Shown(s)
                  /\ CoveredBy(u, s)' <=> CoveredBy(u, s)
    BY <1>1, <2>3, SameShown DEF CoveredBy
  <2>7. Current # NoPair => Coming'
    <3>1. CASE h.again
      <4>1. Ready(h) = {[h EXCEPT !.pc = "schedule"]}
        BY <3>1 DEF Ready
      <4>2. [h EXCEPT !.pc = "schedule"].pc = "schedule"
        BY <1>2
      <4> QED BY <1>1, <4>1, <4>2 DEF Coming
    <3>2. CASE ~ h.again
      <4>1. Current # NoPair => \E t \in tasks : t.code = 0 /\ t.pc = "queued"
        BY <1>1, <2>2, <3>2
      <4> QED BY <2>3, <4>1 DEF Live, Coming
    <3> QED BY <3>1, <3>2
  <2>8. Current # NoPair => ProgressInv'
    BY <2>2, <2>3, <2>7 DEF ChecksInv, SettleInv, ProgressInv
  <2> QED BY <2>3, <2>4, <2>8
<1> QED BY <1>3, <1>4, <1>5, <1>6 DEF ChecksInv

-------------------------------------------------------------------------------
(* The theorems *)

LEMMA ChecksInitInv == ChecksInit => ChecksInv
<1> SUFFICES ASSUME ChecksInit PROVE ChecksInv
  OBVIOUS
<1>1. testRuns = {} /\ suites = {} /\ checkRuns = <<>> /\ tasks = {} /\ scheduled = 0 /\ hooks = {} /\ events = 0
  BY DEF ChecksInit
<1>2. ChecksTypeInv
  BY <1>1 DEF ChecksTypeInv
<1>3. (\A app : Mine(app) = {}) /\ \A label : RunsOf(label) = {}
  BY <1>1 DEF Mine, RunsOf
<1>4. RunsInv
  BY <1>1, <1>3 DEF RunsInv
<1>5. TaskInv
  BY <1>1 DEF TaskInv
<1>6. SettleInv
  BY <1>1 DEF SettleInv, AgreeInv, ProgressInv, Running
<1> QED BY <1>2, <1>4, <1>5, <1>6 DEF ChecksInv

LEMMA ChecksStutter == ChecksInv /\ UNCHANGED checksVars => ChecksInv'
<1> SUFFICES ASSUME ChecksInv, UNCHANGED checksVars PROVE ChecksInv'
  OBVIOUS
<1>1. UNCHANGED <<testRuns, suites, checkRuns, tasks, scheduled, hooks, events, excused>>
  BY DEF checksVars
<1>2. RunsInv'
  BY <1>1, SameRunsInv DEF ChecksInv
<1>3. ChecksTypeInv'
  BY <1>1 DEF ChecksInv, ChecksTypeInv
<1>4. TaskInv'
  BY <1>1, SameCheckRuns DEF ChecksInv, TaskInv
<1>5. Running' = Running /\ Current' = Current /\ (Clean' <=> Clean) /\ (Live' <=> Live) /\ (Coming' <=> Coming)
  BY <1>1 DEF Running, Current, Clean, Live, Coming
<1>6. AgreeInv => AgreeInv'
  BY <1>1, <1>5, AgreeKept
<1>7. \A u, s : (Shown(s)' <=> Shown(s)) /\ (CoveredBy(u, s)' <=> CoveredBy(u, s))
  BY <1>1, <1>5, SameShown DEF CoveredBy
<1>8. ProgressInv => ProgressInv'
  BY <1>1, <1>5, <1>7 DEF ProgressInv
<1> QED BY <1>2, <1>3, <1>4, <1>5, <1>6, <1>8 DEF ChecksInv, SettleInv

LEMMA ChecksNextKeeps == ChecksInv /\ [ChecksNext]_checksVars => ChecksInv'
<1> SUFFICES ASSUME ChecksInv, [ChecksNext]_checksVars PROVE ChecksInv'
  OBVIOUS
<1>1. CASE UNCHANGED checksVars
  BY <1>1, ChecksStutter
<1>2. CASE \E r \in Arrivals : CreateRun(r)
  BY <1>2, CreateRunKeeps
<1>3. CASE \E t \in tasks : Handle(t)
  BY <1>3, ExpireKeeps, BeginKeeps, CompareKeeps, PushKeeps, FailKeeps DEF Handle
<1>4. CASE \E app \in Apps, again \in BOOLEAN : SuiteEvent(app, again)
  BY <1>4, SuiteEventKeeps
<1>5. CASE \E h \in hooks : PutSuite(h) \/ ScheduleExisting(h)
  BY <1>5, PutSuiteKeeps, ScheduleExistingKeeps
<1>6. CASE RequestAgain
  BY <1>6, RequestAgainKeeps
<1> QED BY <1>1, <1>2, <1>3, <1>4, <1>5, <1>6 DEF ChecksNext

\* The tasks of the queue and the handlers that are at work know of all that is to be compared.
THEOREM ChecksInvariant == ChecksSpec => []ChecksInv
  BY ChecksInitInv, ChecksNextKeeps, PTL DEF ChecksSpec

\* With nothing left to do the newest check run of every suite compares the newest runs.
THEOREM ComparisonsArrive == ChecksSpec => []ChecksSettle
<1>1. ChecksInv => ChecksSettle
  <2>1. SUFFICES ASSUME ChecksInv, tasks = {}, hooks = {}, Clean, testRuns # {},
                        \/ \A r \in testRuns : r.label = "master"
                        \/ \A label \in {"pr_head", "pr_base"} : \E r \in testRuns : r.label = label,
                        NEW s \in suites
                 PROVE  Mine(s.app) # {} /\ checkRuns[Max(Mine(s.app))].pair = Wanted
    BY DEF ChecksSettle, Clean
  <2>2. Current = Wanted /\ Current # NoPair
    BY <2>1, CurrentIsWanted DEF ChecksInv
  <2>3. ~ Coming /\ \A u \in tasks : ~ CoveredBy(u, s)
    BY <2>1 DEF Coming, Live
  <2>4. Shown(s)
    BY <2>1, <2>2, <2>3 DEF ChecksInv, SettleInv, ProgressInv
  <2>5. PICK i \in Mine(s.app) : IsLast(i, Mine(s.app)) /\ checkRuns[i].pair = Current
    BY <2>4 DEF Shown
  <2>6. \A j \in Mine(s.app) : j \in Nat
    BY <2>1 DEF Mine, ChecksInv, ChecksTypeInv
  <2>7. Max(Mine(s.app)) = i
    BY <2>5, <2>6 DEF Max, IsLast
  <2> QED BY <2>2, <2>5, <2>7
<1> QED BY <1>1, ChecksInvariant, PTL

===============================================================================
