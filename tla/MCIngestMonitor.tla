--------------------------- MODULE MCIngestMonitor ----------------------------
(* Instances of IngestMonitor for TLC. *)
EXTENDS IngestMonitor

CONSTANTS r1, r2, r3

\* Two products with a run each, the second run of one product in a row of its own.
SomeBacklogs == {<< <<r1, r2>>, <<r3>> >>}

\* Datastore returned no runs.
NoBacklog == {<<>>}
===============================================================================
