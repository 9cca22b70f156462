\* Two instances of the processor and two uploads, which may be of the same report;
\* one fault.  Once all uploads are processed the system may stop.
SPECIFICATION FairSpec
CONSTANTS
    IDs = {u1, u2}
    Reports = {rep}
    Instances = {p1, p2}
    MaxFaults = 1
CHECK_DEADLOCK FALSE
INVARIANTS StageIsJustified CreatedOnce NoResultsLost UniqueUnlessRaced
PROPERTIES StageOnlyAdvances TasksFinish
