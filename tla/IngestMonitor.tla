---------------------------- MODULE IngestMonitor -----------------------------
(***************************************************************************)
(* The goroutines around the search cache's index at start-up and after:   *)
(* the memory monitor (api/query/cache/monitor/monitor.go), the backfiller *)
(* that FillIndex starts with it (backfill/backfill.go), and everybody     *)
(* else who ingests runs (the poller, searches that miss a run).           *)
(*                                                                         *)
(* The index itself is the RunCache that SearchIndex implements.  Here are *)
(* the protocols around it: the ingest channel on which every IngestRun    *)
(* meets the monitor, the eviction that ends the backfill, and Stop.       *)
(***************************************************************************)
EXTENDS RunCache, Integers, Sequences

CONSTANTS
    Backfiller,       \* the goroutine that backfills; the other Clients ingest too
    Backlogs,         \* what the start-up query may return: rows of runs, the i-th
                      \* row holding the i-th run of each product
    MaxIngestedRuns   \* -monitor_max_ingested_runs

ASSUME BackfillerAssumption  == Backfiller \in Clients
ASSUME MaxIngestedAssumption == MaxIngestedRuns \in Nat
ASSUME BacklogsAssumption    == Backlogs \subseteq Seq(Seq(Runs))

NoChan == -1

VARIABLES
    ingest,      \* client |-> where its IngestRun call is
    target,      \* client |-> the run its call is about
    sendOn,      \* client |-> the channel it is sending on
    idxChan,     \* i.c, as numbers: m.runIngested is 0 until Stop makes channel 1
    monChan,     \* m.runIngested
    selChan,     \* the channel the monitor's select receives from
    mon,         \* where the monitor goroutine is
    isRunning,   \* m.isRunning
    reqs,        \* the ingestions counted since the last check
    backfilling, \* i.backfilling
    backlog,     \* runsByProduct
    row, col,    \* the backfiller's loop variables
    bf,          \* where the backfiller's loop is
    \* History, for the properties only.
    stopped,     \* a call of Stop has succeeded
    afterHalt    \* runs the backfiller stored while i.backfilling was false

ingestVars   == <<ingest, target, sendOn>>
monitorVars  == <<idxChan, monChan, selChan, mon, isRunning, reqs, stopped>>
backfillVars == <<backlog, row, col, bf>>
vars == <<cacheVars, ingestVars, monitorVars, backfilling, backfillVars, afterHalt>>

Init ==
    /\ CacheInit
    /\ backlog \in Backlogs
    /\ ingest = [g \in Clients |-> "none"]
    /\ target = [g \in Clients |-> {}]
    /\ sendOn = [g \in Clients |-> NoChan]
    /\ idxChan = NoChan
    /\ monChan = 0
    /\ selChan = NoChan
    \* With nothing to backfill startBackfillMonitor returns before it spawns
    \* either goroutine.
    /\ mon = IF backlog = <<>> THEN "off" ELSE "spawned"
    /\ bf = IF backlog = <<>> THEN "done" ELSE "outer"
    /\ isRunning = FALSE
    /\ reqs = 0
    /\ backfilling = TRUE
    /\ row = 1
    /\ col = 1
    /\ stopped = FALSE
    /\ afterHalt = 0

-------------------------------------------------------------------------------
(* IngestRun, as its caller sees it.                                         *)

\* The goroutine g enters IngestRun(r).
Call(g, r) ==
    /\ ingest[g] = "none"
    /\ ingest' = [ingest EXCEPT ![g] = "called"]
    /\ target' = [target EXCEPT ![g] = {r}]
    /\ UNCHANGED sendOn

Return(g) ==
    /\ ingest' = [ingest EXCEPT ![g] = "none"]
    /\ target' = [target EXCEPT ![g] = {}]

\* if i.c != nil { i.c <- true }: with no monitor there is nobody to wait for.
SyncWithMonitor(g) ==
    /\ ingest[g] = "called"
    /\ ingest' = [ingest EXCEPT ![g] = IF idxChan = NoChan THEN "mark" ELSE "send"]
    /\ sendOn' = [sendOn EXCEPT ![g] = idxChan]
    /\ UNCHANGED <<cacheVars, target, monitorVars, backfilling, backfillVars, afterHalt>>

\* A run that is held or being loaded makes the call return at once.
Mark(g) ==
    /\ ingest[g] = "mark"
    /\ \E r \in target[g] :
          \/ /\ Accept(r)
             /\ ingest' = [ingest EXCEPT ![g] = "load"]
             /\ UNCHANGED target
          \/ /\ r \in held \union loading
             /\ Return(g)
             /\ UNCHANGED cacheVars
    /\ UNCHANGED <<sendOn, monitorVars, backfilling, backfillVars, afterHalt>>

LoadAndStore(g) ==
    /\ ingest[g] = "load"
    /\ \E r \in target[g] : Publish(r)
    /\ ingest' = [ingest EXCEPT ![g] = "clear"]
    /\ afterHalt' = IF g = Backfiller /\ ~backfilling THEN afterHalt + 1 ELSE afterHalt
    /\ UNCHANGED <<target, sendOn, monitorVars, backfilling, backfillVars>>

LoadFails(g) ==
    /\ ingest[g] = "load"
    /\ \E r \in target[g] : Abandon(r)
    /\ ingest' = [ingest EXCEPT ![g] = "clear"]
    /\ UNCHANGED <<target, sendOn, monitorVars, backfilling, backfillVars,
                   afterHalt>>

Clear(g) ==
    /\ ingest[g] = "clear"
    /\ \E r \in target[g] : Release(r)
    /\ Return(g)
    /\ UNCHANGED <<sendOn, monitorVars, backfilling, backfillVars, afterHalt>>

-------------------------------------------------------------------------------
(* indexMonitor *)

\* start(): the guard against a second Start.
MonitorStart ==
    /\ mon = "spawned"
    /\ isRunning' = TRUE
    /\ mon' = "started"
    /\ UNCHANGED <<cacheVars, ingestVars, idxChan, monChan, selChan, reqs, stopped,
                   backfilling, backfillVars, afterHalt>>

\* Mutation: the index is given a channel that the monitor does not receive from.
SetOtherIngestChan ==
    /\ mon = "started"
    /\ idxChan' = monChan + 1
    /\ mon' = "loop"
    /\ UNCHANGED <<cacheVars, ingestVars, monChan, selChan, isRunning, reqs, stopped,
                   backfilling, backfillVars, afterHalt>>

SetIngestChan ==
    /\ mon = "started"
    /\ idxChan' = monChan
    /\ mon' = "loop"
    /\ UNCHANGED <<cacheVars, ingestVars, monChan, selChan, isRunning, reqs, stopped,
                   backfilling, backfillVars, afterHalt>>

\* Mutation: m.isRunning is never looked at.
MonitorLoopForever ==
    /\ mon = "loop"
    /\ mon' = "select"
    /\ selChan' = monChan
    /\ UNCHANGED <<cacheVars, ingestVars, idxChan, monChan, isRunning, reqs, stopped,
                   backfilling, backfillVars, afterHalt>>

\* The head of the outer loop: return errStopped, or set the timer and select.
MonitorLoop ==
    /\ mon = "loop"
    /\ IF isRunning
       THEN mon' = "select" /\ selChan' = monChan
       ELSE mon' = "returned" /\ UNCHANGED selChan
    /\ UNCHANGED <<cacheVars, ingestVars, idxChan, monChan, isRunning, reqs, stopped,
                   backfilling, backfillVars, afterHalt>>

\* Mutation: the timer's case does not break out of the inner loop to the check.
MonitorTimerWithoutCheck ==
    /\ mon = "select"
    /\ reqs' = 0
    /\ selChan' = monChan
    /\ UNCHANGED <<cacheVars, ingestVars, idxChan, monChan, mon, isRunning, stopped,
                   backfilling, backfillVars, afterHalt>>

MonitorTimer ==
    /\ mon = "select"
    /\ reqs' = 0
    /\ mon' = "check"
    /\ UNCHANGED <<cacheVars, ingestVars, idxChan, monChan, selChan, isRunning,
                   stopped, backfilling, backfillVars, afterHalt>>

\* The channel is unbuffered: the send of g and the receive are one step.
MonitorReceive(g) ==
    /\ mon = "select"
    /\ ingest[g] = "send"
    /\ sendOn[g] = selChan
    /\ ingest' = [ingest EXCEPT ![g] = "mark"]
    /\ sendOn' = [sendOn EXCEPT ![g] = NoChan]
    /\ IF reqs + 1 = MaxIngestedRuns
       THEN reqs' = 0 /\ mon' = "check" /\ UNCHANGED selChan
       ELSE reqs' = reqs + 1 /\ selChan' = monChan /\ UNCHANGED mon
    /\ UNCHANGED <<cacheVars, target, idxChan, monChan, isRunning, stopped, backfilling,
                   backfillVars, afterHalt>>

\* check(): above the soft limit, backfillIndex.EvictRuns clears the flag first.
MonitorCheck ==
    /\ mon = "check"
    /\ \/ mon' = "loop" /\ UNCHANGED backfilling
       \/ mon' = "evict" /\ backfilling' = FALSE
    /\ UNCHANGED <<cacheVars, ingestVars, idxChan, monChan, selChan, isRunning, reqs,
                   stopped, backfillVars, afterHalt>>

\* With no runs held EvictRuns fails with errNoRuns, which is only logged.
MonitorEvict ==
    /\ mon = "evict"
    /\ \/ /\ held = {}
          /\ UNCHANGED <<cacheVars>>
       \/ \E batch \in SUBSET held : Evict(batch)
    /\ mon' = "loop"
    /\ UNCHANGED <<ingestVars, idxChan, monChan, selChan, isRunning, reqs, stopped,
                   backfilling, backfillVars, afterHalt>>

\* backfillMonitor.Stop; it fails with errStopped, but still ends the backfill,
\* when the monitor is not running.
Stop ==
    /\ mon # "off"
    /\ backfilling' = FALSE
    /\ IF isRunning
       THEN isRunning' = FALSE /\ monChan' = monChan + 1 /\ stopped' = TRUE
       ELSE UNCHANGED <<isRunning, monChan, stopped>>
    /\ UNCHANGED <<cacheVars, ingestVars, idxChan, selChan, mon, reqs, backfillVars, afterHalt>>

-------------------------------------------------------------------------------
(* The backfiller, and the others who ingest. *)

BackfillUnchanged == UNCHANGED <<cacheVars, monitorVars, backfilling, backlog, afterHalt>>

\* for i := 0; i < most && backfilling; i++
BackfillRow ==
    /\ bf = "outer"
    /\ ingest[Backfiller] = "none"
    /\ bf' = IF row <= Len(backlog) /\ backfilling THEN "inner" ELSE "done"
    /\ col' = 1
    /\ UNCHANGED <<ingestVars, row>>
    /\ BackfillUnchanged

\* Mutation: a cleared flag ends the backfill only at the end of a row.
BackfillWholeRow ==
    /\ bf = "inner"
    /\ ingest[Backfiller] = "none"
    /\ IF col <= Len(backlog[row])
       THEN /\ Call(Backfiller, backlog[row][col])
            /\ col' = col + 1
            /\ UNCHANGED <<row, bf>>
       ELSE /\ row' = row + 1
            /\ bf' = "outer"
            /\ UNCHANGED <<ingestVars, col>>
    /\ BackfillUnchanged

\* The rows of products with fewer runs are shorter (continue); a cleared flag
\* breaks out of the row, and so out of the outer loop as well.
BackfillRun ==
    /\ bf = "inner"
    /\ ingest[Backfiller] = "none"
    /\ IF col <= Len(backlog[row]) /\ backfilling
       THEN /\ Call(Backfiller, backlog[row][col])
            /\ col' = col + 1
            /\ UNCHANGED <<row, bf>>
       ELSE /\ row' = row + 1
            /\ bf' = "outer"
            /\ UNCHANGED <<ingestVars, col>>
    /\ BackfillUnchanged

\* Another goroutine offers a run: the poller the latest ones, again and again,
\* whatever became of them; a search one that it missed.
OfferRun(c, r) ==
    /\ c # Backfiller
    /\ Call(c, r)
    /\ UNCHANGED <<cacheVars, monitorVars, backfilling, backfillVars, afterHalt>>

-------------------------------------------------------------------------------
IngestStep(g) ==
    \/ SyncWithMonitor(g) \/ Mark(g) \/ LoadAndStore(g) \/ LoadFails(g) \/ Clear(g)

MonitorStep ==
    \/ MonitorStart \/ SetIngestChan \/ MonitorLoop \/ MonitorTimer
    \/ MonitorCheck \/ MonitorEvict
    \/ \E g \in Clients : MonitorReceive(g)

BackfillStep == BackfillRow \/ BackfillRun

Next ==
    \/ \E g \in Clients : IngestStep(g)
    \/ MonitorStep \/ BackfillStep \/ Stop
    \/ \E c \in Clients, r \in Runs : OfferRun(c, r)

Spec == Init /\ [][Next]_vars

\* Every goroutine that can move does (an HTTP fetch of a report ends, one way or
\* the other).  A sender that keeps meeting a receiving monitor is received: the
\* senders of a Go channel queue in order.  Searches, polls and Stop are the
\* environment's choice; that the timer fires does not wait for ingestions.
Fairness ==
    /\ \A g \in Clients : WF_vars(IngestStep(g)) /\ SF_vars(MonitorReceive(g))
    /\ WF_vars(MonitorStart \/ SetIngestChan \/ MonitorLoop)
    /\ WF_vars(MonitorCheck \/ MonitorEvict)
    /\ WF_vars(MonitorTimer)
    /\ WF_vars(BackfillStep)

FairSpec == Spec /\ Fairness

-------------------------------------------------------------------------------
(* Properties *)

\* Once memory pressure or Stop has ended the backfill, at most the one run whose
\* ingestion the backfiller had already begun still enters the index: the check
\* of i.backfilling and the IngestRun after it are not atomic.
BackfillHalts == afterHalt <= 1

\* No ingestion waits for the monitor for ever, unless Stop has been called.
SendersAreReceived ==
    \A g \in Clients : ingest[g] = "send" ~> ingest[g] # "send" \/ stopped

\* While it is not stopped, a monitor that was started looks at the heap again and
\* again, however many or few runs are ingested.
MonitorKeepsChecking == mon # "off" => []<>(mon = "check" \/ stopped)

\* After Stop the monitor's Start returns.
StopEndsMonitor == stopped ~> mon = "returned"

\* main.go:174: when main goes on to start the poller, index, backfiller and
\* monitor are "now in place": ingestions meet the monitor.
MonitorInPlace == <>(idxChan # NoChan)

===============================================================================
