--------------------------- MODULE IngestMonitorProofs ---------------------------
(* Memory pressure and Stop end the backfill, for any backlog, goroutines and      *)
(* number of ingestions between checks.                                            *)
EXTENDS IngestMonitor, TLAPS

\* The backfiller is in an ingestion that may still store its run.
Pending == ingest[Backfiller] \in {"called", "send", "mark", "load"}

\* The flag is cleared before a run is stored after it, and is never set again.
HaltInv ==
    /\ ingest \in [Clients -> {"none", "called", "send", "mark", "load", "clear"}]
    /\ backfilling \in BOOLEAN /\ afterHalt \in Nat
    /\ backfilling => afterHalt = 0
    /\ afterHalt <= 1
    /\ afterHalt = 1 => ~ Pending

LEMMA InitHalts == Init => HaltInv
BY BackfillerAssumption DEF Init, HaltInv, Pending

\* The steps of the others and of the monitor bring no run of the backfiller nearer to the index.
LEMMA HaltKept == ASSUME HaltInv, [Next]_vars PROVE HaltInv'
<1> USE BackfillerAssumption DEF HaltInv, Pending
<1>1. ASSUME NEW g \in Clients, SyncWithMonitor(g) PROVE HaltInv'
  BY <1>1 DEF SyncWithMonitor
<1>2. ASSUME NEW g \in Clients, Mark(g) PROVE HaltInv'
  BY <1>2 DEF Mark, Return
\* The store of the one run that the backfiller had begun.
<1>3. ASSUME NEW g \in Clients, LoadAndStore(g) PROVE HaltInv'
  <2>1. ingest' = [ingest EXCEPT ![g] = "clear"] /\ backfilling' = backfilling
    BY <1>3 DEF LoadAndStore
  <2>2. CASE g = Backfiller /\ ~ backfilling
    <3>1. afterHalt = 0 /\ afterHalt' = 1
      BY <1>3, <2>2 DEF LoadAndStore
    <3> QED BY <2>1, <2>2, <3>1
  <2>3. CASE ~ (g = Backfiller /\ ~ backfilling)
    <3>1. afterHalt' = afterHalt
      BY <1>3, <2>3 DEF LoadAndStore
    <3> QED BY <2>1, <3>1
  <2> QED BY <2>2, <2>3
<1>4. ASSUME NEW g \in Clients, LoadFails(g) PROVE HaltInv'
  BY <1>4 DEF LoadFails
<1>5. ASSUME NEW g \in Clients, Clear(g) PROVE HaltInv'
  BY <1>5 DEF Clear, Return
<1>6. ASSUME NEW g \in Clients, MonitorReceive(g) PROVE HaltInv'
  BY <1>6 DEF MonitorReceive
<1>7. CASE MonitorCheck \/ Stop
  <2>1. ingest' = ingest /\ afterHalt' = afterHalt /\ (backfilling' = backfilling \/ backfilling' = FALSE)
    BY <1>7 DEF MonitorCheck, Stop, ingestVars
  <2>2. backfilling' \in BOOLEAN /\ (backfilling' => backfilling)
    <3>1. CASE backfilling' = FALSE
      BY <3>1, Zenon
    <3>2. CASE backfilling' = backfilling
      BY <3>2
    <3> QED BY <2>1, <3>1, <3>2
  <2> QED BY <2>1, <2>2
\* Only while the flag is set does the backfiller begin another ingestion.
<1>8. CASE BackfillRun
  <2>1. CASE backfilling
    BY <1>8, <2>1 DEF BackfillRun, BackfillUnchanged, Call, ingestVars
  <2>2. CASE ~ backfilling
    BY <1>8, <2>2 DEF BackfillRun, BackfillUnchanged, ingestVars
  <2> QED BY <2>1, <2>2
<1>9. ASSUME NEW c \in Clients, NEW r \in Runs, OfferRun(c, r) PROVE HaltInv'
  BY <1>9 DEF OfferRun, Call
<1>10. CASE UNCHANGED <<ingest, backfilling, afterHalt>>
  BY <1>10
<1> QED BY <1>1, <1>2, <1>3, <1>4, <1>5, <1>6, <1>7, <1>8, <1>9, <1>10
        DEF Next, IngestStep, MonitorStep, BackfillStep, MonitorStart, SetIngestChan, MonitorLoop,
            MonitorTimer, MonitorEvict, BackfillRow, BackfillUnchanged, vars, ingestVars

-------------------------------------------------------------------------------
\* Once the flag i.backfilling (backfill.go:148) has been cleared, at most one run of the
\* backfiller still enters the index: the one it had begun.
THEOREM BackfillEnds == Spec => []BackfillHalts
<1>1. HaltInv => BackfillHalts
  BY DEF HaltInv, BackfillHalts
<1> QED BY <1>1, InitHalts, HaltKept, PTL DEF Spec

===============================================================================
