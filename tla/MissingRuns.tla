------------------------------ MODULE MissingRuns ------------------------------
(***************************************************************************)
(* What becomes of the runs that a search reported missing: SearchService  *)
(* with a history of the runs the service still owes each client.          *)
(***************************************************************************)
EXTENDS SearchService

VARIABLE owed   \* client |-> the runs reported missing to it that have not been held
                \* since, and that neither of the two excuses below covers

\* A load of the run fails, the client's own or the one that its attempt gave way to.
LoadFails == fresh \ (fresh' \union held')

\* The client's goroutine is refused (errRunLoading) by an ingestion that is over but for
\* clearing its mark: its run was stored, and evicted, before syncClearInProgress
\* (index.go:178-184).  Nobody delivers the run then.
RefusedTooLate(c) ==
    {r \in Runs : /\ wor[c][r] = "called" /\ wor'[c][r] = "none"
                  /\ r \notin held \union fresh}

\* A debt is made by the report, and paid by the run's presence in the index at a later
\* time; that the run was evicted, or its load failed, before the report pays nothing.
Remember ==
    owed' = [c \in Clients |->
                (owed[c] \union (missing'[c] \ missing[c]))
                    \ (held' \union LoadFails \union RefusedTooLate(c))]

MissingSpec ==
    /\ Init /\ owed = [c \in Clients |-> {}]
    /\ [][Next /\ Remember]_<<vars, owed>>
    /\ Fairness

\* A run reported missing becomes searchable after the report, whoever ingests it in the end
\* ("runs have initiated write-on-read", search.go:85-86), unless a load of it fails after
\* the report, or the goroutine spawned for it is refused too late, as said above.
MissingRunsArrive ==
    \A c \in Clients, r \in Runs : r \in owed[c] ~> r \notin owed[c]

===============================================================================
