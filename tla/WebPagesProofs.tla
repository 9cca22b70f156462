---------------------------- MODULE WebPagesProofs -----------------------------
(* Theorems of the pages and of the server of metadata: every triage is shown and   *)
(* none is taken back, what is sent covers what was selected, the URL shows the     *)
(* view, the list of runs has the first pages of the query, and the table of a test *)
(* has what its files say.  The pages have nothing in common but the reader; what   *)
(* selecting from a sequence gives is proved in RunQueryProofs.                     *)
EXTENDS MetadataServer, TriagePage, InteropPage, RunsPage, TestFilePage,
        RunQueryProofs, FiniteSetTheorems, TLAPS

-------------------------------------------------------------------------------
(* Metadata server: every triage is shown and none is taken back, as long as the    *)
(* cache does not outlive a polling interval                                        *)

Files == [ServerFolders -> SUBSET Triages]

TriageStates == {"unsent", "archive", "create", "add", "put", "noted", "unnoted", "failed"}

Requests == [Triages -> [at : TriageStates, base : Files]]

PullRequests == [Triages -> [state : {"none", "open", "merged", "closed"},
                             before : SUBSET Triages, after : SUBSET Triages]]

Entries == [content : Files, left : 1 .. CacheExpiry]

Polls == [at : {"asleep", "list", "check"}, prs : SUBSET Triages, closed : SUBSET Triages]

ServerTypes ==
    /\ master \in Files
    /\ triage \in Requests
    /\ pr \in PullRequests
    /\ pendingSet \subseteq Triages /\ pendingMaps \subseteq Triages
    /\ cached \in Entries \union {NotCached}
    /\ reader \in [at : {"idle", "archive"}, base : Files]
    /\ toBeRemovedPRs \subseteq Triages
    /\ poller \in Polls
    /\ pollIn \in 0 .. PollInterval
    /\ poller.at # "asleep" => pollIn = 0

CacheHas(t) == cached = NotCached \/ t \in cached.content[FolderOf[t]]

\* No request is about to put into Redis a commit without t.
ReadersHave(t) ==
    /\ reader.at = "archive" => t \in reader.base[FolderOf[t]]
    /\ \A u \in Triages : triage[u].at = "archive" => t \in triage[u].base[FolderOf[t]]

\* A pull request adds to its file; what has been merged is on the branch.
RepoInv(t) ==
    /\ triage[t].at \in {"unsent", "archive", "create"} => pr[t].state = "none"
    /\ pr[t].state = "open" => pr[t].before \subseteq pr[t].after /\ t \in pr[t].after
    /\ pr[t].state = "merged" => t \in master[FolderOf[t]]

\* The poller holds only closed pull requests to be so.
ListInv(t) == t \in toBeRemovedPRs \union poller.closed => pr[t].state \in {"merged", "closed"}

\* When a merged pull request is to be removed, what does not show it goes before that.
Due(t) ==
    /\ CacheHas(t) \/ cached.left <= pollIn
    /\ ReadersHave(t) \/ pollIn = PollInterval

DueInv(t) == t \in toBeRemovedPRs /\ pr[t].state = "merged" => Due(t)

Gone(t) ==
    \/ triage[t].at = "put" /\ t \notin pendingSet
    \/ triage[t].at = "noted" /\ t \notin pendingSet \intersect pendingMaps

\* What is no longer pending has been merged, and nothing is without it any more.
ShownInv(t) ==
    Gone(t) => pr[t].state # "open" /\ (pr[t].state = "merged" => CacheHas(t) /\ ReadersHave(t))

ServerInv ==
    ServerTypes /\ \A t \in Triages : RepoInv(t) /\ ListInv(t) /\ DueInv(t) /\ ShownInv(t)

-------------------------------------------------------------------------------
LEMMA FolderIsServed == ASSUME NEW t \in Triages PROVE FolderOf[t] \in ServerFolders
BY DEF ServerFolders

\* Nothing that is put into Redis is taken for an empty cache.
LEMMA EntryIsCached ==
    ASSUME NEW c \in Files, NEW n \in 1 .. CacheExpiry
    PROVE  [content |-> c, left |-> n] # NotCached
BY NotCachedAssumption DEF Files, ServerFolders

LEMMA ToKeepsTypes ==
    ASSUME triage \in Requests, NEW t \in Triages, NEW next \in TriageStates, To(t, next)
    PROVE  /\ triage' \in Requests
           /\ triage'[t].at = next /\ triage'[t].base = triage[t].base
           /\ \A u \in Triages \ {t} : triage'[u] = triage[u]
BY DEF To, Requests

\* What a handler puts into Redis, in terms of what it was and what was read.
LEMMA FillResult ==
    ASSUME NEW base \in Files, Fill(base), ServerTypes
    PROVE  \/ cached' = cached
           \/ /\ cached' \in Entries /\ cached' # NotCached
              /\ cached'.content = base /\ cached'.left = CacheExpiry
<1>1. CacheExpiry \in 1 .. CacheExpiry
  BY ExpiryAssumption
<1>2. [content |-> base, left |-> CacheExpiry] # NotCached
  BY <1>1, EntryIsCached
<1> QED BY <1>1, <1>2 DEF Fill, Entries

-------------------------------------------------------------------------------
LEMMA InitHolds == ServerInit => ServerInv
<1> SUFFICES ASSUME ServerInit PROVE ServerInv
  OBVIOUS
<1>1. ServerTypes
  BY ExpiryAssumption DEF ServerInit, ServerTypes, Files, Requests, TriageStates, PullRequests, Polls
<1>2. ASSUME NEW t \in Triages PROVE RepoInv(t) /\ ListInv(t) /\ DueInv(t) /\ ShownInv(t)
  BY DEF ServerInit, RepoInv, ListInv, DueInv, ShownInv, Gone
<1> QED BY <1>1, <1>2 DEF ServerInv

-------------------------------------------------------------------------------
(* Types *)

LEMMA TypesKept ==
    ASSUME ServerInv, [ServerNext]_serverVars
    PROVE  ServerTypes'
<1> USE DEF ServerInv, ServerTypes, repoVars, redisVars, pollVars
<1>1. CASE ReadMetadata
  BY <1>1 DEF ReadMetadata
<1>2. CASE ReadArchive
  BY <1>2, FillResult DEF ReadArchive
<1>3. ASSUME NEW t \in Triages, TriageSHA(t) PROVE ServerTypes'
  BY <1>3 DEF TriageSHA, Requests, TriageStates
<1>4. ASSUME NEW t \in Triages, TriageArchive(t) PROVE ServerTypes'
  <2>1. triage[t].base \in Files
    BY DEF Requests
  <2>2. cached' \in Entries \union {NotCached}
    BY <1>4, <2>1, FillResult DEF TriageArchive
  <2>3. triage' \in Requests
    BY <1>4, ToKeepsTypes DEF TriageArchive, TriageStates
  <2> QED BY <1>4, <2>2, <2>3 DEF TriageArchive
<1>5. ASSUME NEW t \in Triages, CreatePR(t) PROVE ServerTypes'
  <2>1. triage[t].base[FolderOf[t]] \subseteq Triages
    BY FolderIsServed DEF Files, Requests
  <2>2. triage' \in Requests
    BY <1>5, ToKeepsTypes DEF CreatePR, TriageStates
  <2>3. pr' \in PullRequests
    BY <1>5, <2>1 DEF CreatePR, FilesOf, PullRequests
  <2> QED BY <1>5, <2>2, <2>3 DEF CreatePR
<1>6. ASSUME NEW t \in Triages, AddPending(t) PROVE ServerTypes'
  <2>1. triage' \in Requests
    BY <1>6, ToKeepsTypes DEF AddPending, TriageStates
  <2> QED BY <1>6, <2>1 DEF AddPending
<1>7. ASSUME NEW t \in Triages, PutPending(t) PROVE ServerTypes'
  <2>1. triage' \in Requests
    BY <1>7, ToKeepsTypes DEF PutPending, TriageStates
  <2> QED BY <1>7, <2>1 DEF PutPending
<1>8. ASSUME NEW t \in Triages, Merge(t) PROVE ServerTypes'
  <2>1. pr' \in PullRequests
    BY <1>8 DEF Merge, PullRequests
  <2>2. master' \in Files
    BY <1>8, FolderIsServed DEF Merge, Files, PullRequests
  <2> QED BY <1>8, <2>1, <2>2 DEF Merge
<1>9. ASSUME NEW t \in Triages, Close(t) PROVE ServerTypes'
  <2>1. pr' \in PullRequests
    BY <1>9 DEF Close, PullRequests
  <2> QED BY <1>9, <2>1 DEF Close
<1>10. ASSUME NEW t \in Triages, CheckPR(t) PROVE ServerTypes'
  <2>1. poller' \in Polls /\ poller'.at = poller.at
    <3>1. CASE poller' = [poller EXCEPT !.prs = @ \ {t}]
      BY <3>1 DEF Polls
    <3>2. CASE poller' = [poller EXCEPT !.prs = @ \ {t}, !.closed = @ \union {t}]
      <4>1. poller.closed \union {t} \subseteq Triages /\ poller.prs \ {t} \subseteq Triages
        BY DEF Polls
      <4>2. poller' = [at |-> poller.at, prs |-> poller.prs \ {t}, closed |-> poller.closed \union {t}]
        BY <3>2 DEF Polls
      <4> QED BY <4>1, <4>2 DEF Polls
    <3> QED BY <1>10, <3>1, <3>2 DEF CheckPR
  <2> QED BY <1>10, <2>1 DEF CheckPR
<1>11. CASE RemoveOrphans
  BY <1>11 DEF RemoveOrphans, Polls
<1>12. CASE ListPRs
  BY <1>12, ExpiryAssumption DEF ListPRs, Sleep, Polls
<1>13. CASE EndPoll
  BY <1>13, ExpiryAssumption DEF EndPoll, Sleep, Polls
<1>14. CASE RestartPoller
  BY <1>14, ExpiryAssumption DEF RestartPoller, Polls
<1>15. CASE Tick
  <2>1. cached' \in Entries \union {NotCached}
    BY <1>15, ExpiryAssumption DEF Tick, Entries
  <2>2. pollIn' \in 0 .. PollInterval /\ (poller.at # "asleep" => pollIn' = 0)
    BY <1>15, ExpiryAssumption DEF Tick
  <2> QED BY <1>15, <2>1, <2>2 DEF Tick
<1>16. CASE UNCHANGED serverVars
  BY <1>16 DEF serverVars
<1> QED BY <1>1, <1>2, <1>3, <1>4, <1>5, <1>6, <1>7, <1>8, <1>9, <1>10, <1>11, <1>12, <1>13,
           <1>14, <1>15, <1>16 DEF ServerNext

-------------------------------------------------------------------------------
(* Pull requests and the branch *)

\* The branch only grows, because a pull request is merged onto the file it started from.
LEMMA MasterGrows ==
    ASSUME ServerInv, [ServerNext]_serverVars, NEW f \in ServerFolders
    PROVE  master[f] \subseteq master'[f]
<1>1. ASSUME NEW t \in Triages, Merge(t) PROVE master[f] \subseteq master'[f]
  <2>1. pr[t].before \subseteq pr[t].after
    BY <1>1 DEF Merge, ServerInv, RepoInv
  <2> QED BY <1>1, <2>1, FolderIsServed DEF Merge, ServerInv, ServerTypes, Files
<1>2. CASE UNCHANGED master
  BY <1>2
<1> QED BY <1>1, <1>2 DEF ServerNext, serverVars, repoVars, ReadMetadata, ReadArchive, TriageSHA,
                          TriageArchive, CreatePR, AddPending, PutPending, Close, RemoveOrphans,
                          ListPRs, CheckPR, EndPoll, RestartPoller, Tick

LEMMA RepoKept ==
    ASSUME ServerInv, [ServerNext]_serverVars, NEW t \in Triages
    PROVE  RepoInv(t)'
<1> USE DEF ServerInv, ServerTypes, RepoInv
<1>1. ASSUME NEW u \in Triages, TriageSHA(u) PROVE RepoInv(t)'
  BY <1>1 DEF TriageSHA, Requests, repoVars
<1>2. ASSUME NEW u \in Triages, TriageArchive(u) PROVE RepoInv(t)'
  <2>1. triage'[t].at = triage[t].at \/ t = u
    BY <1>2, ToKeepsTypes DEF TriageArchive, TriageStates
  <2>2. triage[u].at = "archive" /\ UNCHANGED repoVars
    BY <1>2 DEF TriageArchive
  <2> QED BY <2>1, <2>2 DEF repoVars
<1>3. ASSUME NEW u \in Triages, CreatePR(u) PROVE RepoInv(t)'
  <2>1. u # t => triage'[t] = triage[t] /\ pr'[t] = pr[t]
    BY <1>3, ToKeepsTypes DEF CreatePR, TriageStates, PullRequests
  <2>2. triage'[u].at \in {"add", "failed"}
    BY <1>3, ToKeepsTypes DEF CreatePR, TriageStates
  <2>3. pr'[u] = pr[u] \/ pr'[u] = [state |-> "open", before |-> triage[u].base[FolderOf[u]],
                                     after |-> triage[u].base[FolderOf[u]] \union {u}]
    BY <1>3 DEF CreatePR, FilesOf, PullRequests
  <2>4. master' = master
    BY <1>3 DEF CreatePR
  <2> QED BY <2>1, <2>2, <2>3, <2>4
<1>4. ASSUME NEW u \in Triages, AddPending(u) \/ PutPending(u) PROVE RepoInv(t)'
  <2>1. triage'[t].at = triage[t].at \/ triage'[t].at \in {"put", "noted", "unnoted"}
    BY <1>4, ToKeepsTypes DEF AddPending, PutPending, TriageStates
  <2>2. UNCHANGED repoVars
    BY <1>4 DEF AddPending, PutPending
  <2> QED BY <2>1, <2>2 DEF repoVars
<1>5. ASSUME NEW u \in Triages, Merge(u) PROVE RepoInv(t)'
  <2>1. triage' = triage
    BY <1>5 DEF Merge
  <2>2. u # t => pr'[t] = pr[t]
    BY <1>5 DEF Merge, PullRequests
  <2>3. pr[u].state = "open" /\ pr'[u].state = "merged"
    BY <1>5 DEF Merge, PullRequests
  <2>4. master[FolderOf[t]] \subseteq master'[FolderOf[t]]
    BY FolderIsServed, MasterGrows
  <2>5. u \in master'[FolderOf[u]]
    <3>1. u \in pr[u].after
      BY <2>3
    <3> QED BY <1>5, <3>1, FolderIsServed DEF Merge, Files
  <2> QED BY <2>1, <2>2, <2>3, <2>4, <2>5
<1>6. ASSUME NEW u \in Triages, Close(u) PROVE RepoInv(t)'
  <2>1. triage' = triage /\ master' = master
    BY <1>6 DEF Close
  <2>2. u # t => pr'[t] = pr[t]
    BY <1>6 DEF Close, PullRequests
  <2>3. pr[u].state = "open" /\ pr'[u].state = "closed"
    BY <1>6 DEF Close, PullRequests
  <2> QED BY <2>1, <2>2, <2>3
<1>7. CASE UNCHANGED <<master, triage, pr>>
  BY <1>7
<1> QED BY <1>1, <1>2, <1>3, <1>4, <1>5, <1>6, <1>7
        DEF ServerNext, serverVars, repoVars, ReadMetadata, ReadArchive, RemoveOrphans, ListPRs,
            CheckPR, EndPoll, RestartPoller, Tick

\* How the state of a pull request changes: only from a request that creates it, to its end.
LEMMA StateOfPR ==
    ASSUME ServerInv, [ServerNext]_serverVars, NEW t \in Triages
    PROVE  \/ pr'[t].state = pr[t].state
           \/ pr[t].state = "none" /\ triage[t].at = "create" /\ pr'[t].state = "open"
           \/ pr[t].state = "open" /\ pr'[t].state \in {"merged", "closed"} /\ triage' = triage
<1> USE DEF ServerInv, ServerTypes
<1>1. ASSUME NEW u \in Triages, CreatePR(u)
      PROVE  pr'[t].state = pr[t].state \/ (pr[t].state = "none" /\ triage[t].at = "create"
                                            /\ pr'[t].state = "open")
  <2>1. CASE pr' = pr
    BY <2>1
  <2>2. CASE pr' = [pr EXCEPT ![u] = [state |-> "open", before |-> triage[u].base[FolderOf[u]],
                                      after |-> FilesOf(u)]]
    BY <1>1, <2>2 DEF CreatePR, PullRequests, RepoInv
  <2> QED BY <1>1, <2>1, <2>2 DEF CreatePR
<1>2. ASSUME NEW u \in Triages, Merge(u) \/ Close(u)
      PROVE  pr'[t].state = pr[t].state \/ (pr[t].state = "open" /\ triage' = triage
                                            /\ pr'[t].state \in {"merged", "closed"})
  BY <1>2 DEF Merge, Close, PullRequests
<1>3. CASE UNCHANGED pr
  BY <1>3
<1> QED BY <1>1, <1>2, <1>3 DEF ServerNext, serverVars, repoVars, ReadMetadata, ReadArchive,
            TriageSHA, TriageArchive, AddPending, PutPending, RemoveOrphans, ListPRs, CheckPR,
            EndPoll, RestartPoller, Tick

LEMMA ListKept ==
    ASSUME ServerInv, [ServerNext]_serverVars, NEW t \in Triages
    PROVE  ListInv(t)'
<1> USE DEF ServerInv, ServerTypes, ListInv
<1>1. pr[t].state \in {"merged", "closed"} => pr'[t].state \in {"merged", "closed"}
  BY StateOfPR
<1>2. t \in toBeRemovedPRs' \union poller'.closed =>
          t \in toBeRemovedPRs \union poller.closed \/ pr[t].state \in {"merged", "closed"}
  <2>1. ASSUME NEW u \in Triages, CheckPR(u)
        PROVE  t \in poller'.closed => t \in poller.closed \/ pr[t].state \in {"merged", "closed"}
    <3>1. CASE poller'.closed = poller.closed
      BY <3>1
    <3>2. CASE pr[u].state \in {"merged", "closed"} /\ poller'.closed = poller.closed \union {u}
      BY <3>2
    <3> QED BY <2>1, <3>1, <3>2 DEF CheckPR, Polls
  <2>2. ASSUME NEW u \in Triages, CheckPR(u) PROVE toBeRemovedPRs' = toBeRemovedPRs
    BY <2>2 DEF CheckPR
  <2>3. CASE RemoveOrphans
    BY <2>3 DEF RemoveOrphans, Polls
  <2>4. CASE ListPRs \/ EndPoll \/ RestartPoller
    BY <2>4 DEF ListPRs, EndPoll, RestartPoller, Sleep
  <2>5. CASE UNCHANGED <<toBeRemovedPRs, poller>>
    BY <2>5
  <2> QED BY <2>1, <2>2, <2>3, <2>4, <2>5 DEF ServerNext, serverVars, pollVars, ReadMetadata,
            ReadArchive, TriageSHA, TriageArchive, CreatePR, AddPending, PutPending, Merge, Close, Tick
<1> QED BY <1>1, <1>2

-------------------------------------------------------------------------------
(* The cache and those who fill it *)

\* Once a triage has been merged, whoever asks for the branch gets it.
LEMMA ReadersKept ==
    ASSUME ServerInv, [ServerNext]_serverVars, NEW t \in Triages,
           pr[t].state = "merged", ReadersHave(t)
    PROVE  ReadersHave(t)'
<1> USE DEF ServerInv, ServerTypes, ReadersHave
<1>1. t \in master[FolderOf[t]]
  BY DEF RepoInv
<1>2. CASE ReadMetadata
  BY <1>1, <1>2 DEF ReadMetadata
<1>3. CASE ReadArchive
  BY <1>3 DEF ReadArchive
<1>4. ASSUME NEW u \in Triages, TriageSHA(u) PROVE ReadersHave(t)'
  BY <1>1, <1>4 DEF TriageSHA, Requests
<1>5. ASSUME NEW u \in Triages, NEW next \in TriageStates \ {"archive"}, To(u, next), UNCHANGED reader
      PROVE  ReadersHave(t)'
  BY <1>5, ToKeepsTypes DEF TriageStates
<1>6. ASSUME NEW u \in Triages, TriageArchive(u) PROVE ReadersHave(t)'
  BY <1>5, <1>6 DEF TriageArchive, TriageStates
<1>7. ASSUME NEW u \in Triages, CreatePR(u) PROVE ReadersHave(t)'
  BY <1>5, <1>7 DEF CreatePR, TriageStates
<1>8. ASSUME NEW u \in Triages, AddPending(u) PROVE ReadersHave(t)'
  BY <1>5, <1>8 DEF AddPending, TriageStates
<1>9. ASSUME NEW u \in Triages, PutPending(u) PROVE ReadersHave(t)'
  BY <1>5, <1>9 DEF PutPending, TriageStates
<1>10. CASE UNCHANGED <<reader, triage>>
  BY <1>10
<1> QED BY <1>2, <1>3, <1>4, <1>6, <1>7, <1>8, <1>9, <1>10
        DEF ServerNext, serverVars, Merge, Close, RemoveOrphans, ListPRs, CheckPR, EndPoll,
            RestartPoller, Tick

\* Who fills the cache: a request that has read the archive of its commit.
LEMMA WhoFills ==
    ASSUME ServerInv, [ServerNext]_serverVars
    PROVE  \/ cached' = cached
           \/ Tick
           \/ /\ cached' \in Entries /\ cached'.left = CacheExpiry /\ UNCHANGED pollIn
              /\ \/ reader.at = "archive" /\ cached'.content = reader.base
                 \/ \E u \in Triages : triage[u].at = "archive" /\ cached'.content = triage[u].base
<1> USE DEF ServerInv, ServerTypes
<1>1. CASE ReadArchive
  BY <1>1, FillResult DEF ReadArchive, pollVars
<1>2. ASSUME NEW u \in Triages, TriageArchive(u), cached' # cached
      PROVE  /\ cached' \in Entries /\ cached'.left = CacheExpiry /\ UNCHANGED pollIn
             /\ triage[u].at = "archive" /\ cached'.content = triage[u].base
  <2>1. triage[u].base \in Files
    BY DEF Requests
  <2> QED BY <1>2, <2>1, FillResult DEF TriageArchive, pollVars
<1>3. CASE UNCHANGED cached
  BY <1>3
<1> QED BY <1>1, <1>2, <1>3
        DEF ServerNext, serverVars, redisVars, ReadMetadata, TriageSHA, CreatePR, AddPending, PutPending,
            Merge, Close, RemoveOrphans, ListPRs, CheckPR, EndPoll, RestartPoller

LEMMA CacheAges ==
    ASSUME ServerTypes, Tick
    PROVE  \/ cached = NotCached /\ cached' = NotCached
           \/ cached # NotCached /\ cached' = NotCached
           \/ /\ cached # NotCached /\ cached' \in Entries
              /\ cached'.content = cached.content /\ cached'.left = cached.left - 1
BY ExpiryAssumption DEF Tick, ServerTypes, Entries

LEMMA CacheKept ==
    ASSUME ServerInv, [ServerNext]_serverVars, NEW t \in Triages,
           CacheHas(t), ReadersHave(t)
    PROVE  CacheHas(t)'
<1>1. CASE cached' = cached
  BY <1>1 DEF CacheHas
<1>2. CASE Tick
  BY <1>2, CacheAges DEF CacheHas, ServerInv
<1>3. CASE \/ reader.at = "archive" /\ cached'.content = reader.base
           \/ \E u \in Triages : triage[u].at = "archive" /\ cached'.content = triage[u].base
  BY <1>3 DEF CacheHas, ReadersHave
<1> QED BY <1>1, <1>2, <1>3, WhoFills

-------------------------------------------------------------------------------
(* The removal *)

\* When the poll is there, nothing is without what it removes.
LEMMA DueMeansShown ==
    ASSUME ServerTypes, NEW t \in Triages, Due(t), pollIn = 0
    PROVE  CacheHas(t) /\ ReadersHave(t)
<1>1. ReadersHave(t)
  BY ExpiryAssumption DEF Due
<1>2. CacheHas(t)
  BY DEF Due, CacheHas, ServerTypes, Entries
<1> QED BY <1>1, <1>2

LEMMA DueKept ==
    ASSUME ServerInv, [ServerNext]_serverVars, NEW t \in Triages
    PROVE  DueInv(t)'
<1> USE DEF ServerInv
<1> SUFFICES ASSUME t \in toBeRemovedPRs', pr'[t].state = "merged"
             PROVE  Due(t)'
  BY DEF DueInv
<1>1. CASE pollIn' = PollInterval /\ UNCHANGED cached
  <2>1. CacheHas(t)' \/ cached'.left <= pollIn'
    BY <1>1, ExpiryAssumption DEF CacheHas, ServerTypes, Entries
  <2> QED BY <1>1, <2>1 DEF Due
<1>2. CASE RestartPoller
  BY <1>2 DEF RestartPoller
<1>3. CASE UNCHANGED toBeRemovedPRs /\ (Tick \/ UNCHANGED pollIn)
  <2>1. pr[t].state = "merged"
    BY <1>3, StateOfPR DEF ListInv
  <2>2. Due(t)
    BY <1>3, <2>1 DEF DueInv
  <2>3. ReadersHave(t)' \/ pollIn' = PollInterval
    <3>1. CASE ReadersHave(t)
      BY <2>1, <3>1, ReadersKept
    <3>2. CASE ~ ReadersHave(t) /\ UNCHANGED pollIn
      BY <2>2, <3>2 DEF Due
    <3>3. CASE Tick
      <4>1. ReadersHave(t)
        BY <3>3 DEF Tick, ReadersHave
      <4> QED BY <3>1, <4>1
    <3> QED BY <1>3, <3>1, <3>2, <3>3
  <2>4. CacheHas(t)' \/ cached'.left <= pollIn'
    <3>1. CASE cached' = cached /\ UNCHANGED pollIn
      BY <2>2, <3>1 DEF Due, CacheHas
    <3>2. CASE Tick
      <4>1. pollIn' = pollIn - 1
        BY <3>2 DEF Tick
      <4>2. CASE cached' = NotCached
        BY <4>2 DEF CacheHas
      <4>3. CASE /\ cached # NotCached /\ cached' \in Entries
                 /\ cached'.content = cached.content /\ cached'.left = cached.left - 1
        <5>1. CASE t \in cached.content[FolderOf[t]]
          BY <4>3, <5>1 DEF CacheHas
        <5>2. CASE cached.left <= pollIn
          BY <4>1, <4>3, <5>2 DEF ServerTypes, Entries
        <5> QED BY <2>2, <4>3, <5>1, <5>2 DEF Due, CacheHas
      <4> QED BY <3>2, <4>2, <4>3, CacheAges
    <3>3. CASE /\ cached'.left = CacheExpiry /\ UNCHANGED pollIn
               /\ \/ reader.at = "archive" /\ cached'.content = reader.base
                  \/ \E u \in Triages : triage[u].at = "archive" /\ cached'.content = triage[u].base
      <4>1. CASE ReadersHave(t)
        BY <3>3, <4>1 DEF CacheHas, ReadersHave
      <4>2. CASE pollIn = PollInterval
        BY <3>3, <4>2, ExpiryAssumption
      <4> QED BY <2>2, <4>1, <4>2 DEF Due
    <3> QED BY <1>3, <3>1, <3>2, <3>3, WhoFills
  <2> QED BY <2>3, <2>4 DEF Due
<1>4. ListPRs => UNCHANGED <<cached, toBeRemovedPRs>> /\ (pollIn' = PollInterval \/ UNCHANGED pollIn)
  BY DEF ListPRs, Sleep, redisVars
<1>5. EndPoll => pollIn' = PollInterval /\ UNCHANGED cached
  BY DEF EndPoll, Sleep, redisVars
<1>6. Tick => UNCHANGED toBeRemovedPRs
  BY DEF Tick
<1>7. ListPRs \/ EndPoll \/ RestartPoller \/ Tick \/ UNCHANGED <<toBeRemovedPRs, pollIn>>
  BY DEF ServerNext, serverVars, pollVars, ReadMetadata, ReadArchive, TriageSHA, TriageArchive,
         CreatePR, AddPending, PutPending, Merge, Close, RemoveOrphans, CheckPR
<1> QED BY <1>1, <1>2, <1>3, <1>4, <1>5, <1>6, <1>7

LEMMA ShownKept ==
    ASSUME ServerInv, [ServerNext]_serverVars, NEW t \in Triages
    PROVE  ShownInv(t)'
<1> USE DEF ServerInv
<1> SUFFICES ASSUME Gone(t)'
             PROVE  pr'[t].state # "open" /\ (pr'[t].state = "merged" => CacheHas(t)' /\ ReadersHave(t)')
  BY DEF ShownInv
<1>1. CASE Gone(t)
  <2>1. pr[t].state # "open" /\ triage[t].at # "create"
    BY <1>1 DEF ShownInv, Gone
  <2>2. pr'[t].state = pr[t].state
    BY <2>1, StateOfPR
  <2>3. pr[t].state = "merged" => CacheHas(t) /\ ReadersHave(t)
    BY <1>1 DEF ShownInv
  <2> QED BY <2>1, <2>2, <2>3, ReadersKept, CacheKept
<1>2. CASE RemoveOrphans /\ ~ Gone(t)
  <2>1. UNCHANGED <<triage, pr, cached, reader>> /\ pollIn = 0
    BY <1>2 DEF RemoveOrphans, repoVars
  <2>2. t \in toBeRemovedPRs
    BY <1>2, <2>1 DEF RemoveOrphans, Gone
  <2>3. pr[t].state \in {"merged", "closed"}
    BY <2>2 DEF ListInv
  <2>4. pr[t].state = "merged" => CacheHas(t) /\ ReadersHave(t)
    BY <2>1, <2>2, DueMeansShown DEF DueInv
  <2> QED BY <2>1, <2>3, <2>4 DEF CacheHas, ReadersHave
<1>3. ASSUME NEW u \in Triages, ~ Gone(t), AddPending(u) PROVE FALSE
  <2>1. CASE u = t
    BY <1>3, <2>1, ToKeepsTypes DEF AddPending, Gone, ServerTypes, TriageStates
  <2>2. CASE u # t
    <3>1. triage'[t] = triage[t]
      BY <1>3, <2>2, ToKeepsTypes DEF AddPending, ServerTypes, TriageStates
    <3> QED BY <1>3, <3>1 DEF AddPending, Gone
  <2> QED BY <2>1, <2>2
<1>4. ASSUME NEW u \in Triages, ~ Gone(t), PutPending(u) PROVE FALSE
  <2>1. CASE u = t
    BY <1>4, <2>1, ToKeepsTypes DEF PutPending, Gone, ServerTypes, TriageStates
  <2>2. CASE u # t
    <3>1. triage'[t] = triage[t]
      BY <1>4, <2>2, ToKeepsTypes DEF PutPending, ServerTypes, TriageStates
    <3> QED BY <1>4, <3>1 DEF PutPending, Gone
  <2> QED BY <2>1, <2>2
<1>5. ASSUME NEW u \in Triages, TriageSHA(u) \/ TriageArchive(u) \/ CreatePR(u)
      PROVE  /\ UNCHANGED <<pendingSet, pendingMaps>>
             /\ triage'[t] = triage[t] \/ triage'[t].at \in {"archive", "create", "add", "failed"}
  <2>1. CASE TriageSHA(u)
    BY <2>1 DEF TriageSHA, ServerTypes, Requests, redisVars
  <2>2. CASE TriageArchive(u)
    BY <2>2, ToKeepsTypes DEF TriageArchive, ServerTypes, TriageStates
  <2>3. CASE CreatePR(u)
    BY <2>3, ToKeepsTypes DEF CreatePR, ServerTypes, TriageStates, redisVars
  <2> QED BY <1>5, <2>1, <2>2, <2>3
<1>6. ASSUME ~ Gone(t), UNCHANGED <<pendingSet, pendingMaps>>,
             triage'[t] = triage[t] \/ triage'[t].at \in {"archive", "create", "add", "failed"}
      PROVE  FALSE
  BY <1>6 DEF Gone
<1>7. \/ RemoveOrphans
      \/ \E u \in Triages : AddPending(u) \/ PutPending(u) \/ TriageSHA(u) \/ TriageArchive(u) \/ CreatePR(u)
      \/ UNCHANGED <<pendingSet, pendingMaps, triage>>
  BY DEF ServerNext, serverVars, redisVars, ReadMetadata, ReadArchive, Merge, Close, ListPRs,
         CheckPR, EndPoll, RestartPoller, Tick
<1> QED BY <1>1, <1>2, <1>3, <1>4, <1>5, <1>6, <1>7

-------------------------------------------------------------------------------
\* The inductive invariant of the server of metadata: what a pull request adds, which ones the
\* poller takes for closed, and who may still show the branch without a merged triage.
THEOREM MetadataInvariant == ServerSpec => []ServerInv
<1>1. ServerInv /\ [ServerNext]_serverVars => ServerInv'
  BY TypesKept, RepoKept, ListKept, DueKept, ShownKept DEF ServerInv
<1> QED BY <1>1, InitHolds, PTL DEF ServerSpec

\* A triage that the handler (metadata_handler.go:180) has noted is shown as pending or as
\* merged at any time, whatever the cache holds when the poller removes it.
THEOREM EveryTriageIsShown == ServerSpec => []AllMetadataIsShown
<1>1. ServerInv => AllMetadataIsShown
  <2> SUFFICES ASSUME ServerInv, NEW t \in Triages, triage[t].at = "noted",
                      pr[t].state \in {"open", "merged"}, t \notin pendingSet \intersect pendingMaps
               PROVE  t \in Served[FolderOf[t]]
    BY DEF AllMetadataIsShown
  <2>1. pr[t].state = "merged" /\ CacheHas(t)
    BY DEF ServerInv, ShownInv, Gone
  <2> QED BY <2>1 DEF ServerInv, RepoInv, CacheHas, Served
<1> QED BY <1>1, MetadataInvariant, PTL

\* No pull request of a triage (triage_metadata.go:172) takes back the links of another that
\* has been merged since it was made.
THEOREM NothingIsTakenBack == ServerSpec => TriagesOnlyAdd
<1>1. ServerInv /\ [ServerNext]_serverVars
      => [\A f \in ServerFolders : master[f] \subseteq master'[f]]_serverVars
  BY MasterGrows
<1> QED BY <1>1, MetadataInvariant, PTL DEF ServerSpec, TriagesOnlyAdd

-------------------------------------------------------------------------------
(* Triage: what is sent covers what was selected *)

AllCells == DirCells \union FileCells

\* The links that can be made of the cells.
Links ==
    [test : {cell.test : cell \in AllCells}, all : BOOLEAN, product : {cell.product : cell \in AllCells},
     url : {"", "ok", "bad"}, label : {"", "ok"}]

PageCells == IF pathIsATestFile THEN FileCells ELSE DirCells

SelectionInv == selectedMetadata \subseteq PageCells /\ IsFiniteSet(selectedMetadata)

SelectedProducts == {cell.product : cell \in selectedMetadata}

TestsOf(p) == {cell.test : cell \in {c \in selectedMetadata : c.product = p}}

\* An entry is about the tests selected of its product, and the dialog knows whether it is
\* filled and whether it is valid.
EntryInv(p) ==
    LET entry == dialog.displayed[p]
    IN  /\ entry = [url |-> entry.url, label |-> entry.label, invalidUrl |-> entry.invalidUrl,
                    tests |-> entry.tests]
        /\ entry.url \in {"", "ok", "bad"} /\ entry.label \in {"", "ok"}
        /\ entry.tests = TestsOf(p)
        /\ entry.label # "" => p = ""
        /\ entry.invalidUrl = (entry.url = "bad")
        /\ dialog.filled[p] = (entry.url # "" \/ entry.label # "")

EmptyEntries == {p \in SelectedProducts : ~ dialog.filled[p]}

DialogShape ==
    /\ dialog = [open |-> dialog.open, displayed |-> dialog.displayed, filled |-> dialog.filled,
                 numEmpty |-> dialog.numEmpty,
                 triageSubmitDisabled |-> dialog.triageSubmitDisabled, escaped |-> dialog.escaped]
    /\ {dialog.open, dialog.triageSubmitDisabled, dialog.escaped} \subseteq BOOLEAN

\* The counter counts the empty entries, and but for a dialog opened again after Escape the
\* button is enabled only if there are none and no invalid ones.
OpenInv ==
    /\ DOMAIN dialog.displayed = SelectedProducts /\ DOMAIN dialog.filled = SelectedProducts
    /\ \A p \in SelectedProducts : EntryInv(p)
    /\ dialog.numEmpty = Cardinality(EmptyEntries)
    /\ ~ dialog.escaped /\ ~ dialog.triageSubmitDisabled =>
          \A p \in SelectedProducts : dialog.filled[p] /\ ~ dialog.displayed[p].invalidUrl

DialogInv ==
    /\ DialogShape
    /\ ~ dialog.open /\ ~ dialog.escaped => dialog.triageSubmitDisabled
    /\ dialog.open => OpenInv

SentInv == TriageIsComplete /\ accepted \subseteq Links /\ \A p \in patches : p.map \subseteq Links

TriageInv == SelectionInv /\ DialogInv /\ SentInv

-------------------------------------------------------------------------------
LEMMA TriageInitHolds == TriageInit => TriageInv
<1> SUFFICES ASSUME TriageInit PROVE TriageInv
  OBVIOUS
<1>1. SelectionInv
  BY FS_EmptySet DEF TriageInit, SelectionInv
<1>2. DialogInv
  BY DEF TriageInit, DialogInv, DialogShape, ClosedDialog
<1>3. SentInv
  BY DEF TriageInit, SentInv, TriageIsComplete
<1> QED BY <1>1, <1>2, <1>3 DEF TriageInv

\* Steps that leave the dialog and what is in flight alone.
LEMMA SentStays ==
    ASSUME SentInv, UNCHANGED <<patches, accepted>>
    PROVE  SentInv'
BY DEF SentInv, TriageIsComplete

LEMMA SelectionStays ==
    ASSUME SelectionInv, UNCHANGED <<pathIsATestFile, selectedMetadata>>
    PROVE  SelectionInv'
BY DEF SelectionInv, PageCells

LEMMA DialogStays ==
    ASSUME DialogInv, UNCHANGED <<dialog, selectedMetadata>>
    PROVE  DialogInv'
<1>1. SelectedProducts' = SelectedProducts /\ \A p : TestsOf(p)' = TestsOf(p)
  BY DEF SelectedProducts, TestsOf
<1>2. EmptyEntries' = EmptyEntries
  BY <1>1 DEF EmptyEntries
<1>3. \A p \in SelectedProducts : EntryInv(p) => EntryInv(p)'
  BY <1>1 DEF EntryInv
<1>4. OpenInv => OpenInv'
  BY <1>1, <1>2, <1>3 DEF OpenInv
<1> QED BY <1>4 DEF DialogInv, DialogShape

LEMMA ClosedStays ==
    ASSUME DialogInv, ~ dialog.open, UNCHANGED dialog
    PROVE  DialogInv'
BY DEF DialogInv, DialogShape

LEMMA ClosedHolds ==
    ASSUME dialog' = ClosedDialog(TRUE, FALSE), selectedMetadata' = {}
    PROVE  DialogInv' /\ SelectionInv'
<1>1. DialogInv'
  BY DEF ClosedDialog, DialogInv, DialogShape
<1>2. SelectionInv'
  BY FS_EmptySet DEF SelectionInv
<1> QED BY <1>1, <1>2

-------------------------------------------------------------------------------
(* One lemma for each step of the dialog *)

LEMMA SelectKeeps ==
    ASSUME TriageInv, NEW cell \in PageCells, handleSelect(cell)
    PROVE  SelectionInv'
<1>1. /\ selectedMetadata' = (selectedMetadata \ {cell}) \union ({cell} \ selectedMetadata)
      /\ pathIsATestFile' = pathIsATestFile
  BY DEF handleSelect
<1>2. IsFiniteSet(selectedMetadata) /\ selectedMetadata \subseteq PageCells
  BY DEF TriageInv, SelectionInv
<1>3. IsFiniteSet(selectedMetadata')
  <2>1. CASE cell \in selectedMetadata
    <3>1. selectedMetadata' = selectedMetadata \ {cell}
      BY <1>1, <2>1
    <3> QED BY <1>2, <3>1, FS_RemoveElement
  <2>2. CASE cell \notin selectedMetadata
    <3>1. selectedMetadata' = selectedMetadata \union {cell}
      BY <1>1, <2>2
    <3> QED BY <1>2, <3>1, FS_AddElement
  <2> QED BY <2>1, <2>2
<1> QED BY <1>1, <1>2, <1>3 DEF SelectionInv, PageCells

\* The products selected are finitely many.
LEMMA ProductsAreFinite ==
    ASSUME SelectionInv
    PROVE  IsFiniteSet(SelectedProducts)
<1> DEFINE product == [cell \in selectedMetadata |-> cell.product]
<1>1. product \in Surjection(selectedMetadata, SelectedProducts)
  BY DEF Surjection, SelectedProducts
<1> QED BY <1>1, FS_Surjection DEF SelectionInv

LEMMA OpenKeeps ==
    ASSUME TriageInv, openAmendMetadata
    PROVE  DialogInv'
<1>0. PICK displayed : displayed = [p \in SelectedProducts |->
        [url |-> "", label |-> "", invalidUrl |-> FALSE, tests |-> TestsOf(p)]]
  OBVIOUS
<1>1. /\ ~ dialog.open /\ UNCHANGED selectedMetadata
      /\ dialog' = [dialog EXCEPT
            !.open = TRUE, !.displayed = displayed, !.filled = [p \in SelectedProducts |-> FALSE],
            !.numEmpty = Cardinality(SelectedProducts)]
  BY Zenon, <1>0 DEF openAmendMetadata, SelectedProducts, TestsOf, selectionVars
<1>2. /\ dialog'.open = TRUE
      /\ dialog'.displayed = displayed
      /\ dialog'.filled = [p \in SelectedProducts |-> FALSE]
      /\ dialog'.numEmpty = Cardinality(SelectedProducts)
      /\ dialog'.triageSubmitDisabled = dialog.triageSubmitDisabled
      /\ dialog'.escaped = dialog.escaped
  BY <1>1 DEF TriageInv, DialogInv, DialogShape
<1>3. DialogShape'
  BY <1>1 DEF TriageInv, DialogInv, DialogShape
<1>4. SelectedProducts' = SelectedProducts /\ \A p : TestsOf(p)' = TestsOf(p)
  BY <1>1 DEF SelectedProducts, TestsOf
<1>5. ~ dialog'.escaped => dialog'.triageSubmitDisabled
  BY <1>1, <1>2 DEF TriageInv, DialogInv
<1>6. \A p \in SelectedProducts : EntryInv(p)'
  <2> SUFFICES ASSUME NEW p \in SelectedProducts PROVE EntryInv(p)'
    OBVIOUS
  <2>1. PICK entry : entry = dialog'.displayed[p]
    OBVIOUS
  <2>2. entry = [url |-> "", label |-> "", invalidUrl |-> FALSE, tests |-> TestsOf(p)]
    <3>1. displayed[p] = [url |-> "", label |-> "", invalidUrl |-> FALSE, tests |-> TestsOf(p)]
      BY <1>0
    <3> QED BY <1>2, <2>1, <3>1
  <2>3. dialog'.filled[p] = FALSE
    BY <1>2
  <2>4. entry.url = "" /\ entry.label = "" /\ entry.tests = TestsOf(p)
        /\ entry.invalidUrl = (entry.url = "bad")
    BY <2>2
  <2>5. entry = [url |-> entry.url, label |-> entry.label, invalidUrl |-> entry.invalidUrl,
                 tests |-> entry.tests]
    BY <2>2
  <2>6. dialog'.filled[p] = (entry.url # "" \/ entry.label # "")
    BY <2>3, <2>4
  <2> QED BY <1>4, <2>1, <2>4, <2>5, <2>6 DEF EntryInv
<1>7. EmptyEntries' = SelectedProducts
  BY <1>2, <1>4 DEF EmptyEntries
<1>8. OpenInv'
  BY <1>0, <1>2, <1>4, <1>5, <1>6, <1>7 DEF OpenInv
<1> QED BY <1>2, <1>3, <1>8 DEF DialogInv

LEMMA NotPositive == \A n \in Nat : ~ (n > 0) => n = 0
OBVIOUS

\* What is typed fills an entry, changes or empties it: the counter follows.
LEMMA InputKeeps ==
    ASSUME TriageInv, NEW product, NEW field \in {"url", "label"}, NEW value \in {"", "ok", "bad"},
           handleFieldInput(product, field, value)
    PROVE  DialogInv'
<1>1. /\ dialog.open /\ product \in SelectedProducts /\ UNCHANGED selectedMetadata
      /\ field = "label" => product = "" /\ value # "bad"
      /\ dialog' = AfterInput(product, field, value)
  <2>1. dialog.open /\ product \in DOMAIN dialog.displayed
    BY DEF handleFieldInput
  <2>2. DOMAIN dialog.displayed = SelectedProducts
    BY <2>1 DEF TriageInv, DialogInv, OpenInv
  <2> QED BY <2>1, <2>2 DEF handleFieldInput, selectionVars
<1>2. DialogShape /\ OpenInv
  BY <1>1 DEF TriageInv, DialogInv
<1>3. PICK entry : entry = [dialog.displayed[product] EXCEPT ![field] = value,
                               !.invalidUrl = IF field = "url" THEN value = "bad" ELSE @]
  OBVIOUS
<1>4. PICK displayed : displayed = [dialog.displayed EXCEPT ![product] = entry]
  OBVIOUS
<1>5. PICK empty \in BOOLEAN : empty = (entry.url = "" /\ entry.label = "")
  OBVIOUS
<1>6. PICK numEmpty : numEmpty = CASE empty /\ dialog.filled[product] -> dialog.numEmpty + 1
                                   [] ~ empty /\ ~ dialog.filled[product] -> dialog.numEmpty - 1
                                   [] OTHER -> dialog.numEmpty
  OBVIOUS
<1>7. PICK disabled \in BOOLEAN : disabled = (numEmpty > 0 \/ \E p \in DOMAIN displayed : displayed[p].invalidUrl)
  OBVIOUS
<1>8. dialog' = [dialog EXCEPT !.displayed = displayed, !.numEmpty = numEmpty, !.filled[product] = ~ empty,
                    !.triageSubmitDisabled = disabled]
  BY <1>1, <1>3, <1>4, <1>5, <1>6, <1>7 DEF AfterInput
<1>9. /\ dialog'.open /\ dialog'.displayed = displayed /\ dialog'.numEmpty = numEmpty
      /\ dialog'.filled = [dialog.filled EXCEPT ![product] = ~ empty]
      /\ dialog'.triageSubmitDisabled = disabled
      /\ dialog'.escaped = dialog.escaped
  BY <1>1, <1>2, <1>8 DEF DialogShape
<1>10. DialogShape'
  <2>1. disabled \in BOOLEAN
    BY <1>7
  <2> QED BY <1>2, <1>8, <1>9, <2>1 DEF DialogShape
<1>11. SelectedProducts' = SelectedProducts /\ \A p : TestsOf(p)' = TestsOf(p)
  BY <1>1 DEF SelectedProducts, TestsOf
<1>12. EntryInv(product)
  BY <1>1, <1>2 DEF OpenInv
<1>13. /\ entry = [url |-> entry.url, label |-> entry.label, invalidUrl |-> entry.invalidUrl,
                   tests |-> entry.tests]
       /\ entry.url \in {"", "ok", "bad"} /\ entry.label \in {"", "ok"}
       /\ entry.tests = TestsOf(product)
       /\ entry.label # "" => product = ""
       /\ entry.invalidUrl = (entry.url = "bad")
  <2>1. PICK old : old = dialog.displayed[product]
    OBVIOUS
  <2>2. CASE field = "url"
    <3>1. entry = [old EXCEPT !.url = value, !.invalidUrl = (value = "bad")]
      BY <1>3, <2>1, <2>2
    <3>2. entry = [url |-> value, label |-> old.label, invalidUrl |-> (value = "bad"), tests |-> old.tests]
      BY <1>12, <2>1, <3>1 DEF EntryInv
    <3> QED BY <1>12, <2>1, <3>2 DEF EntryInv
  <2>3. CASE field = "label"
    <3>1. entry = [old EXCEPT !.label = value, !.invalidUrl = old.invalidUrl]
      BY <1>3, <2>1, <2>3
    <3>2. entry = [url |-> old.url, label |-> value, invalidUrl |-> old.invalidUrl, tests |-> old.tests]
      BY <1>12, <2>1, <3>1 DEF EntryInv
    <3> QED BY <1>1, <1>12, <2>1, <2>3, <3>2 DEF EntryInv
  <2> QED BY <2>2, <2>3
<1>14. /\ DOMAIN displayed = SelectedProducts /\ displayed[product] = entry
       /\ \A p \in SelectedProducts \ {product} : displayed[p] = dialog.displayed[p]
  BY <1>1, <1>2, <1>4 DEF OpenInv
<1>15. /\ DOMAIN dialog'.filled = SelectedProducts /\ dialog'.filled[product] = ~ empty
       /\ \A p \in SelectedProducts \ {product} : dialog'.filled[p] = dialog.filled[p]
  BY <1>1, <1>2, <1>9 DEF OpenInv
<1>16. ASSUME NEW p \in SelectedProducts PROVE EntryInv(p)'
  <2>1. CASE p = product
    BY <1>5, <1>9, <1>11, <1>13, <1>14, <1>15, <2>1 DEF EntryInv
  <2>2. CASE p # product
    <3>1. EntryInv(p)
      BY <1>2 DEF OpenInv
    <3>2. dialog'.displayed[p] = dialog.displayed[p] /\ dialog'.filled[p] = dialog.filled[p]
      BY <1>9, <1>14, <1>15, <2>2
    <3> QED BY <1>11, <3>1, <3>2 DEF EntryInv
  <2> QED BY <2>1, <2>2
<1>17. IsFiniteSet(EmptyEntries) /\ dialog.numEmpty = Cardinality(EmptyEntries)
  BY <1>2, ProductsAreFinite, FS_Subset DEF EmptyEntries, OpenInv, TriageInv
<1>18. IsFiniteSet(EmptyEntries') /\ numEmpty = Cardinality(EmptyEntries')
  <2>1. EmptyEntries' = IF empty THEN EmptyEntries \union {product} ELSE EmptyEntries \ {product}
    BY <1>1, <1>11, <1>15 DEF EmptyEntries
  <2>2. product \in EmptyEntries <=> ~ dialog.filled[product]
    BY <1>1 DEF EmptyEntries
  <2>3. CASE empty /\ dialog.filled[product]
    <3>1. EmptyEntries' = EmptyEntries \union {product} /\ product \notin EmptyEntries
      BY <2>1, <2>2, <2>3
    <3>2. numEmpty = dialog.numEmpty + 1
      BY <1>6, <2>3
    <3> QED BY <1>17, <3>1, <3>2, FS_AddElement
  <2>4. CASE ~ empty /\ ~ dialog.filled[product]
    <3>1. EmptyEntries' = EmptyEntries \ {product} /\ product \in EmptyEntries
      BY <2>1, <2>2, <2>4
    <3>2. numEmpty = dialog.numEmpty - 1
      BY <1>6, <2>4
    <3> QED BY <1>17, <3>1, <3>2, FS_RemoveElement
  <2>5. CASE (empty <=> ~ dialog.filled[product])
    <3>1. EmptyEntries' = EmptyEntries
      BY <2>1, <2>2, <2>5
    <3>2. numEmpty = dialog.numEmpty
      BY <1>6, <2>5
    <3> QED BY <1>17, <3>1, <3>2
  <2> QED BY <2>3, <2>4, <2>5
<1>19. ASSUME ~ disabled PROVE \A p \in SelectedProducts : dialog'.filled[p] /\ ~ displayed[p].invalidUrl
  <2>1. numEmpty = 0
    <3>1. numEmpty \in Nat
      BY <1>18, FS_CardinalityType
    <3>2. ~ (numEmpty > 0)
      BY <1>7, <1>19
    <3> QED BY Zenon, <3>1, <3>2, NotPositive
  <2>2. EmptyEntries' = {}
    BY <1>18, <2>1, FS_EmptySet
  <2>3. \A p \in SelectedProducts : dialog'.filled[p]
    BY <1>11, <2>2 DEF EmptyEntries
  <2> QED BY <1>7, <1>14, <1>19, <2>3
<1>20. OpenInv'
  BY <1>9, <1>11, <1>14, <1>15, <1>16, <1>18, <1>19 DEF OpenInv
<1> QED BY <1>9, <1>10, <1>20 DEF DialogInv

LEMMA EscapeKeeps ==
    ASSUME TriageInv, EscapeDialog
    PROVE  DialogInv'
<1>1. DialogShape /\ dialog' = [dialog EXCEPT !.open = FALSE, !.escaped = TRUE]
  BY DEF TriageInv, DialogInv, EscapeDialog
<1>2. DialogShape' /\ ~ dialog'.open /\ dialog'.escaped
  BY <1>1 DEF DialogShape
<1> QED BY <1>2 DEF DialogInv

-------------------------------------------------------------------------------
\* The button is enabled, so every selected cell has a link, and a valid one.
LEMMA EveryCellIsSaid ==
    ASSUME TriageInv, dialog.open, ~ dialog.triageSubmitDisabled, ~ dialog.escaped,
           NEW cell \in selectedMetadata
    PROVE  \E link \in triagedMetadataMap :
              /\ link.test = cell.test /\ link.product = cell.product
              /\ link.url = "ok" \/ (link.url = "" /\ link.label = "ok" /\ cell.product = "")
<1>1. OpenInv
  BY DEF TriageInv, DialogInv
<1>2. PICK p : p = cell.product
  OBVIOUS
<1>3. p \in SelectedProducts /\ cell.test \in TestsOf(p)
  BY <1>2 DEF SelectedProducts, TestsOf
<1>4. PICK entry : entry = dialog.displayed[p]
  OBVIOUS
<1>5. /\ p \in DOMAIN dialog.displayed /\ cell.test \in entry.tests
      /\ entry.url \in {"", "ok", "bad"} /\ entry.label \in {"", "ok"}
      /\ entry.label # "" => p = ""
      /\ entry.url # "bad" /\ (entry.url # "" \/ entry.label # "")
  <2>1. EntryInv(p) /\ DOMAIN dialog.displayed = SelectedProducts
        /\ dialog.filled[p] /\ ~ entry.invalidUrl
    BY <1>1, <1>3, <1>4 DEF OpenInv
  <2> QED BY <1>3, <1>4, <2>1 DEF EntryInv
<1>6. pathIsATestFile => p # ""
  BY <1>2, CellsAssumption DEF TriageInv, SelectionInv, PageCells
<1>7. IF pathIsATestFile THEN entry.url # "" ELSE entry.url # "" \/ entry.label # ""
  BY <1>5, <1>6
<1>8. PICK link : link = [test |-> cell.test, all |-> ~ pathIsATestFile /\ cell.test \in Folders, product |-> p,
                          url |-> entry.url, label |-> IF pathIsATestFile THEN "" ELSE entry.label]
  OBVIOUS
<1>9. link \in triagedMetadataMap
  <2>1. p \in {q \in DOMAIN dialog.displayed :
                  IF pathIsATestFile THEN dialog.displayed[q].url # ""
                  ELSE dialog.displayed[q].url # "" \/ dialog.displayed[q].label # ""}
    BY <1>4, <1>5, <1>7
  <2>2. link \in {[test |-> t, all |-> ~ pathIsATestFile /\ t \in Folders, product |-> p,
                   url |-> dialog.displayed[p].url,
                   label |-> IF pathIsATestFile THEN "" ELSE dialog.displayed[p].label] :
                      t \in dialog.displayed[p].tests}
    BY <1>4, <1>5, <1>8
  <2> QED BY Zenon, <2>1, <2>2 DEF triagedMetadataMap
<1>10. link.url = "ok" \/ (link.url = "" /\ link.label = "ok" /\ p = "")
  BY <1>5, <1>6, <1>8
<1> QED BY <1>2, <1>8, <1>9, <1>10

\* What is sent are links of selected cells.
LEMMA MapIsLinks ==
    ASSUME TriageInv, dialog.open
    PROVE  triagedMetadataMap \subseteq Links
<1>1. OpenInv /\ selectedMetadata \subseteq AllCells
  BY DEF TriageInv, DialogInv, SelectionInv, PageCells, AllCells
<1> SUFFICES ASSUME NEW link \in triagedMetadataMap PROVE link \in Links
  OBVIOUS
<1>2. PICK p \in SelectedProducts : \E t \in dialog.displayed[p].tests :
        link = [test |-> t, all |-> ~ pathIsATestFile /\ t \in Folders, product |-> p,
                url |-> dialog.displayed[p].url,
                label |-> IF pathIsATestFile THEN "" ELSE dialog.displayed[p].label]
  <2>1. PICK q \in DOMAIN dialog.displayed : \E t \in dialog.displayed[q].tests :
          link = [test |-> t, all |-> ~ pathIsATestFile /\ t \in Folders, product |-> q,
                  url |-> dialog.displayed[q].url,
                  label |-> IF pathIsATestFile THEN "" ELSE dialog.displayed[q].label]
    BY Zenon DEF triagedMetadataMap
  <2> QED BY <1>1, <2>1 DEF OpenInv
<1>3. PICK t \in TestsOf(p) :
        link = [test |-> t, all |-> ~ pathIsATestFile /\ t \in Folders, product |-> p,
                url |-> dialog.displayed[p].url,
                label |-> IF pathIsATestFile THEN "" ELSE dialog.displayed[p].label]
  <2>1. dialog.displayed[p].tests = TestsOf(p)
    BY <1>1 DEF OpenInv, EntryInv
  <2> QED BY <1>2, <2>1
<1>4. t \in {cell.test : cell \in AllCells} /\ p \in {cell.product : cell \in AllCells}
  BY <1>1, <1>3 DEF TestsOf, SelectedProducts
<1>5. dialog.displayed[p].url \in {"", "ok", "bad"} /\ dialog.displayed[p].label \in {"", "ok"}
  BY <1>1 DEF OpenInv, EntryInv
<1> QED BY <1>3, <1>4, <1>5 DEF Links

LEMMA SubmitTriageKeeps ==
    ASSUME TriageInv, triageSubmit
    PROVE  SentInv'
<1>1. dialog.open /\ ~ dialog.triageSubmitDisabled /\ UNCHANGED accepted
      /\ \/ UNCHANGED patches
         \/ patches' = patches \union {[map |-> triagedMetadataMap, cells |-> selectedMetadata,
                                        escaped |-> dialog.escaped]}
  BY DEF triageSubmit, TriageStep
<1>2. CASE UNCHANGED patches
  BY <1>1, <1>2, SentStays DEF TriageInv
<1>3. CASE patches' = patches \union {[map |-> triagedMetadataMap, cells |-> selectedMetadata,
                                       escaped |-> dialog.escaped]}
  <2>1. PICK p : p = [map |-> triagedMetadataMap, cells |-> selectedMetadata, escaped |-> dialog.escaped]
    OBVIOUS
  <2>2. p.map = triagedMetadataMap /\ p.cells = selectedMetadata /\ p.escaped = dialog.escaped
        /\ patches' = patches \union {p}
    BY <1>3, <2>1
  <2>3. p.map \subseteq Links
    BY <1>1, <2>2, MapIsLinks
  <2>4. ASSUME ~ p.escaped, NEW cell \in p.cells
        PROVE  \E link \in p.map :
                  /\ link.test = cell.test /\ link.product = cell.product
                  /\ link.url = "ok" \/ (link.url = "" /\ link.label = "ok" /\ cell.product = "")
    <3>1. cell \in selectedMetadata /\ ~ dialog.escaped
      BY <2>2, <2>4
    <3> QED BY <1>1, <2>2, <3>1, EveryCellIsSaid
  <2>5. TriageIsComplete'
    <3> SUFFICES ASSUME NEW q \in patches', ~ q.escaped, NEW cell \in q.cells
                 PROVE  \E link \in q.map :
                           /\ link.test = cell.test /\ link.product = cell.product
                           /\ link.url = "ok" \/ (link.url = "" /\ link.label = "ok" /\ cell.product = "")
      BY DEF TriageIsComplete
    <3>1. CASE q = p
      BY <2>4, <3>1
    <3>2. CASE q \in patches
      BY <3>2 DEF TriageInv, SentInv, TriageIsComplete
    <3> QED BY <2>2, <3>1, <3>2
  <2> QED BY <1>1, <2>2, <2>3, <2>5 DEF TriageInv, SentInv
<1> QED BY <1>1, <1>2, <1>3

LEMMA AnswerKeepsSent ==
    ASSUME SentInv, NEW p \in patches, AnswerPatch(p)
    PROVE  SentInv'
<1>1. patches' = patches \ {p} /\ (accepted' = accepted \union p.map \/ accepted' = accepted)
  BY DEF AnswerPatch
<1> QED BY <1>1 DEF SentInv, TriageIsComplete

LEMMA TriageNextKeepsInv ==
    ASSUME TriageInv, [TriageNext]_triageVars
    PROVE  TriageInv'
<1>0. SelectionInv /\ DialogInv /\ SentInv
  BY DEF TriageInv
<1>1. ASSUME NEW ps \in ProductSets, ChangeProducts(ps) PROVE TriageInv'
  BY <1>0, <1>1, SelectionStays, DialogStays, SentStays DEF ChangeProducts, selectionVars, TriageInv
<1>2. ASSUME NEW l \in metadataLoads, ServeMetadata(l) PROVE TriageInv'
  BY <1>0, <1>2, SelectionStays, DialogStays, SentStays DEF ServeMetadata, selectionVars, TriageInv
<1>3. ASSUME NEW l \in metadataLoads, AnswerMetadata(l) PROVE TriageInv'
  BY <1>0, <1>3, SelectionStays, DialogStays, SentStays DEF AnswerMetadata, selectionVars, TriageInv
<1>4. CASE ToggleTriageMode
  <2>1. SelectionInv'
    BY <1>0, <1>4, FS_EmptySet DEF ToggleTriageMode, SelectionInv, PageCells
  <2>2. DialogInv' /\ SentInv'
    BY <1>0, <1>4, ClosedStays, SentStays DEF ToggleTriageMode, TriageStep
  <2> QED BY <2>1, <2>2 DEF TriageInv
<1>5. CASE ChangePath
  <2>1. SelectionInv'
    BY <1>5, FS_EmptySet DEF ChangePath, SelectionInv
  <2>2. DialogInv' /\ SentInv'
    BY <1>0, <1>5, ClosedStays, SentStays DEF ChangePath, TriageStep
  <2> QED BY <2>1, <2>2 DEF TriageInv
<1>6. ASSUME NEW cell \in PageCells, handleSelect(cell) PROVE TriageInv'
  <2>1. DialogInv' /\ SentInv'
    BY <1>0, <1>6, ClosedStays, SentStays DEF handleSelect, TriageStep
  <2> QED BY <1>6, <2>1, SelectKeeps DEF TriageInv
<1>7. CASE openAmendMetadata
  <2>1. SelectionInv' /\ SentInv'
    BY <1>0, <1>7, SelectionStays, SentStays DEF openAmendMetadata, TriageStep, selectionVars
  <2> QED BY <1>7, <2>1, OpenKeeps DEF TriageInv
<1>8. ASSUME NEW product \in DOMAIN dialog.displayed, NEW field \in {"url", "label"},
             NEW value \in {"", "ok", "bad"}, handleFieldInput(product, field, value)
      PROVE  TriageInv'
  <2>1. SelectionInv' /\ SentInv'
    BY <1>0, <1>8, SelectionStays, SentStays DEF handleFieldInput, TriageStep, selectionVars
  <2> QED BY <1>8, <2>1, InputKeeps DEF TriageInv
<1>9. CASE EscapeDialog
  <2>1. SelectionInv' /\ SentInv'
    BY <1>0, <1>9, SelectionStays, SentStays DEF EscapeDialog, TriageStep, selectionVars
  <2> QED BY <1>9, <2>1, EscapeKeeps DEF TriageInv
<1>10. CASE DismissDialog
  BY <1>0, <1>10, ClosedHolds, SentStays DEF DismissDialog, TriageStep, TriageInv
<1>11. CASE triageSubmit
  BY <1>11, ClosedHolds, SubmitTriageKeeps DEF triageSubmit, TriageInv
<1>12. ASSUME NEW p \in patches, AnswerPatch(p) PROVE TriageInv'
  BY <1>0, <1>12, SelectionStays, DialogStays, AnswerKeepsSent DEF AnswerPatch, selectionVars, TriageInv
<1>13. CASE UNCHANGED triageVars
  BY <1>0, <1>13, SelectionStays, DialogStays, SentStays DEF triageVars, selectionVars, TriageInv
<1> QED
  BY <1>1, <1>2, <1>3, <1>4, <1>5, <1>6, <1>7, <1>8, <1>9, <1>10, <1>11, <1>12, <1>13
  DEF TriageNext, PageCells

\* What is selected, displayed and counted agree, whatever is selected, typed and sent.
THEOREM TriageInvariant == TriageSpec => []TriageInv
<1> QED BY TriageInitHolds, TriageNextKeepsInv, PTL DEF TriageSpec

\* A triage sent covers every selected cell with a valid link.
THEOREM TriagesAreComplete == TriageSpec => []TriageIsComplete
<1>1. TriageInv => TriageIsComplete
  BY DEF TriageInv, SentInv
<1> QED BY <1>1, TriageInvariant, PTL

-------------------------------------------------------------------------------
(* Metadata: the page knows what was accepted *)

LoadInv ==
    /\ stale \in BOOLEAN
    /\ \A l \in metadataLoads :
          /\ l = [kind |-> l.kind, served |-> l.served, answer |-> l.answer, id |-> l.id]
          /\ l.kind \in {"merged", "pending"} /\ l.served \in BOOLEAN

NoneOf(kind) == \A l \in metadataLoads : l.kind # kind

\* Until loads of a kind overlap or fail, one of a kind is in flight; what was answered is
\* what is displayed or accepted now, and so is what the page has unless a load will replace it.
FreshInv ==
    /\ \A l, m \in metadataLoads : l.kind = m.kind => l = m
    /\ \A l \in metadataLoads :
          l.served => l.answer = (IF l.kind = "merged" THEN products ELSE accepted)
    /\ NoneOf("merged") => mergedMetadata = products
    /\ NoneOf("pending") => pendingMetadata = accepted

MetadataInv == LoadInv /\ (~ stale => FreshInv)

LEMMA MetadataInitHolds == TriageInit => MetadataInv
<1> SUFFICES ASSUME TriageInit PROVE MetadataInv
  OBVIOUS
<1>1. PICK l : l = [kind |-> "pending", id |-> 1, served |-> FALSE, answer |-> NotLoaded]
  OBVIOUS
<1>2. metadataLoads = {l} /\ l.kind = "pending" /\ ~ l.served /\ l.served \in BOOLEAN
      /\ l = [kind |-> l.kind, served |-> l.served, answer |-> l.answer, id |-> l.id]
  BY <1>1 DEF TriageInit
<1>3. LoadInv
  BY <1>2 DEF TriageInit, LoadInv
<1>4. FreshInv
  BY <1>2 DEF TriageInit, FreshInv, NoneOf
<1> QED BY <1>3, <1>4 DEF MetadataInv

\* A request is sent when what it asks for changes.
LEMMA LoadKeeps ==
    ASSUME LoadInv, NEW kind \in {"merged", "pending"}, LoadMetadata(kind)
    PROVE  /\ LoadInv'
           /\ stale \in BOOLEAN /\ (~ stale' => ~ stale /\ NoneOf(kind))
           /\ \E l : metadataLoads' = metadataLoads \union {l} /\ l.kind = kind /\ ~ l.served
<1>1. PICK l : l = LoadOf(kind)
  OBVIOUS
<1>2. PICK i : l = [kind |-> kind, served |-> FALSE, answer |-> NotLoaded, id |-> i]
  BY <1>1 DEF LoadOf
<1>3. l.kind = kind /\ ~ l.served /\ l.served \in BOOLEAN
      /\ l = [kind |-> l.kind, served |-> l.served, answer |-> l.answer, id |-> l.id]
  BY <1>2
<1>4. metadataLoads' = metadataLoads \union {l}
      /\ stale' = (stale \/ \E m \in metadataLoads : m.kind = kind)
  BY <1>1 DEF LoadMetadata
<1>5. stale' \in BOOLEAN
  BY <1>4
<1>6. LoadInv'
  BY <1>3, <1>4, <1>5 DEF LoadInv
<1> QED BY <1>3, <1>4, <1>6 DEF LoadInv, NoneOf

\* Loads of one kind are sent when there are none, and their subject changes then.
LEMMA SendKeepsFresh ==
    ASSUME FreshInv, NEW kind \in {"merged", "pending"}, NoneOf(kind), LoadInv,
           NEW l, metadataLoads' = metadataLoads \union {l}, l.kind = kind, ~ l.served,
           UNCHANGED <<mergedMetadata, pendingMetadata>>,
           IF kind = "merged" THEN UNCHANGED accepted ELSE UNCHANGED products
    PROVE  FreshInv'
<1>1. \A m \in metadataLoads : m.kind # kind /\ m.kind \in {"merged", "pending"}
  BY DEF NoneOf, LoadInv
<1>2. \A m, n \in metadataLoads' : m.kind = n.kind => m = n
  BY <1>1 DEF FreshInv
<1>3. \A m \in metadataLoads' : m.served => m.answer = (IF m.kind = "merged" THEN products' ELSE accepted')
  BY <1>1 DEF FreshInv
<1>4. NoneOf("merged")' => mergedMetadata' = products'
  BY DEF FreshInv, NoneOf
<1>5. NoneOf("pending")' => pendingMetadata' = accepted'
  BY DEF FreshInv, NoneOf
<1> QED BY <1>2, <1>3, <1>4, <1>5 DEF FreshInv

LEMMA ServeKeeps ==
    ASSUME MetadataInv, NEW l \in metadataLoads, ServeMetadata(l)
    PROVE  MetadataInv'
<1>1. PICK m : m = [l EXCEPT !.served = TRUE, !.answer = IF l.kind = "merged" THEN products ELSE accepted]
  OBVIOUS
<1>2. l = [kind |-> l.kind, served |-> l.served, answer |-> l.answer, id |-> l.id]
      /\ l.kind \in {"merged", "pending"}
  BY DEF MetadataInv, LoadInv
<1>3. m = [kind |-> l.kind, served |-> TRUE, answer |-> IF l.kind = "merged" THEN products ELSE accepted,
           id |-> l.id]
  BY <1>1, <1>2
<1>4. /\ m.kind = l.kind /\ m.served = TRUE /\ m.answer = IF l.kind = "merged" THEN products ELSE accepted
      /\ m = [kind |-> m.kind, served |-> m.served, answer |-> m.answer, id |-> m.id]
  BY <1>3
<1>5. /\ metadataLoads' = (metadataLoads \ {l}) \union {m}
      /\ UNCHANGED <<stale, products, accepted, mergedMetadata, pendingMetadata>>
  BY <1>1 DEF ServeMetadata
<1>6. LoadInv'
  BY <1>2, <1>4, <1>5 DEF MetadataInv, LoadInv
<1>7. ASSUME FreshInv PROVE FreshInv'
  <2>1. \A x, y \in metadataLoads' : x.kind = y.kind => x = y
    BY <1>4, <1>5, <1>7 DEF FreshInv
  <2>2. \A x \in metadataLoads' : x.served => x.answer = (IF x.kind = "merged" THEN products' ELSE accepted')
    BY <1>4, <1>5, <1>7 DEF FreshInv
  <2>3. \A kind : NoneOf(kind)' => NoneOf(kind)
    BY <1>4, <1>5 DEF NoneOf
  <2> QED BY <1>5, <1>7, <2>1, <2>2, <2>3 DEF FreshInv
<1> QED BY <1>5, <1>6, <1>7 DEF MetadataInv

LEMMA AnswerKeeps ==
    ASSUME MetadataInv, NEW l \in metadataLoads, AnswerMetadata(l)
    PROVE  MetadataInv'
<1>1. /\ l.served /\ metadataLoads' = metadataLoads \ {l} /\ UNCHANGED <<products, accepted>>
      /\ l.kind \in {"merged", "pending"}
  BY DEF AnswerMetadata, MetadataInv, LoadInv
<1>2. CASE stale' = TRUE
  BY <1>1, <1>2 DEF MetadataInv, LoadInv
<1>3. CASE /\ mergedMetadata' = IF l.kind = "merged" THEN l.answer ELSE mergedMetadata
           /\ pendingMetadata' = IF l.kind = "pending" THEN l.answer ELSE pendingMetadata
           /\ UNCHANGED stale
  <2>1. LoadInv'
    BY <1>1, <1>3 DEF MetadataInv, LoadInv
  <2>2. ASSUME FreshInv PROVE FreshInv'
    <3>1. l.answer = IF l.kind = "merged" THEN products ELSE accepted
      BY <1>1, <2>2 DEF FreshInv
    <3>2. NoneOf("merged")' => mergedMetadata' = products'
      BY <1>1, <1>3, <2>2, <3>1 DEF FreshInv, NoneOf
    <3>3. NoneOf("pending")' => pendingMetadata' = accepted'
      BY <1>1, <1>3, <2>2, <3>1 DEF FreshInv, NoneOf
    <3> QED BY <1>1, <2>2, <3>2, <3>3 DEF FreshInv
  <2> QED BY <1>3, <2>1, <2>2 DEF MetadataInv
<1> QED BY <1>2, <1>3 DEF AnswerMetadata

LEMMA MetadataStays ==
    ASSUME MetadataInv, UNCHANGED <<metadataVars, accepted>>
    PROVE  MetadataInv'
BY DEF MetadataInv, LoadInv, FreshInv, NoneOf, metadataVars

LEMMA MetadataNextKeepsInv ==
    ASSUME MetadataInv, [TriageNext]_triageVars
    PROVE  MetadataInv'
<1>1. ASSUME NEW ps \in ProductSets, ChangeProducts(ps) PROVE MetadataInv'
  <2>1. LoadMetadata("merged") /\ UNCHANGED <<accepted, mergedMetadata, pendingMetadata>> /\ LoadInv
    BY <1>1 DEF ChangeProducts, MetadataInv
  <2> QED BY <2>1, LoadKeeps, SendKeepsFresh DEF MetadataInv
<1>2. ASSUME NEW p \in patches, AnswerPatch(p) PROVE MetadataInv'
  <2>1. UNCHANGED <<products, mergedMetadata, pendingMetadata>> /\ LoadInv
    BY <1>2 DEF AnswerPatch, MetadataInv
  <2>2. CASE LoadMetadata("pending")
    BY <2>1, <2>2, LoadKeeps, SendKeepsFresh DEF MetadataInv
  <2>3. CASE UNCHANGED <<accepted, metadataLoads, stale>>
    BY <2>1, <2>3, MetadataStays DEF metadataVars
  <2> QED BY <1>2, <2>2, <2>3 DEF AnswerPatch
<1>3. ASSUME TriageStep PROVE MetadataInv'
  BY <1>3, MetadataStays DEF TriageStep
<1>4. CASE UNCHANGED triageVars
  BY <1>4, MetadataStays DEF triageVars
<1> QED
  BY <1>1, <1>2, <1>3, <1>4, ServeKeeps, AnswerKeeps
  DEF TriageNext, ToggleTriageMode, ChangePath, handleSelect, openAmendMetadata, handleFieldInput,
      EscapeDialog, DismissDialog, triageSubmit

\* What the page has is shown, once it has both kinds.
LEMMA FreshIsShown ==
    ASSUME NotLoaded \notin SUBSET Links, TriageInv, MetadataInv
    PROVE  MetadataIsFresh
<1> SUFFICES ASSUME metadataLoads = {}, ~ stale
             PROVE  /\ pendingMetadata = accepted
                    /\ products # NotLoaded =>
                          /\ mergedMetadata = products
                          /\ \A link \in accepted \union Merged[products] : link.url # "" =>
                                \E node \in displayedMetadata({link.test}) :
                                    node.url = link.url /\ node.test = link.test
  BY DEF MetadataIsFresh
<1>1. pendingMetadata = accepted /\ mergedMetadata = products
  BY DEF MetadataInv, FreshInv, NoneOf
<1>2. accepted # NotLoaded
  BY DEF TriageInv, SentInv
<1>3. ASSUME products # NotLoaded, NEW link \in accepted \union Merged[products], link.url # ""
      PROVE  \E node \in displayedMetadata({link.test}) : node.url = link.url /\ node.test = link.test
  <2>1. link \in metadata
    BY <1>1, <1>2, <1>3 DEF metadata
  <2>2. PICK node : node = [test |-> link.test, all |-> link.all, product |-> link.product, url |-> link.url]
    OBVIOUS
  <2>3. node \in displayedMetadata({link.test})
    BY <1>3, <2>1, <2>2 DEF displayedMetadata, Relevant
  <2> QED BY <2>2, <2>3
<1> QED BY <1>1, <1>3

\* With nothing in flight the page shows the triages that were accepted and the metadata of the
\* products it shows.  That nothing was loaded must be told from every answer.
THEOREM PagesAreFresh ==
    ASSUME NotLoaded \notin SUBSET Links
    PROVE  TriageSpec => []MetadataIsFresh
<1>1. TriageInit => TriageInv /\ MetadataInv
  BY TriageInitHolds, MetadataInitHolds
<1>2. (TriageInv /\ MetadataInv) /\ [TriageNext]_triageVars => (TriageInv /\ MetadataInv)'
  BY TriageNextKeepsInv, MetadataNextKeepsInv
<1>3. TriageInv /\ MetadataInv => MetadataIsFresh
  BY FreshIsShown
<1> QED BY <1>1, <1>2, <1>3, PTL DEF TriageSpec

-------------------------------------------------------------------------------
(* Interop: the URL shows the view *)

Urls == [feature : {summary} \union InteropFeatures, stable : BOOLEAN, embedded : BOOLEAN, mobile : BOOLEAN]

Visits == [doc : Nat, year : Years, url : Urls]

ViewFields == {"mobile", "stable", "embedded", "feature", "phase", "year", "flag", "doc", "sortColumn",
               "isSortedAsc", "order", "bubbles", "switched", "back"}

\* The mobile view has a feature flag and no stable view.
ViewInv(d) ==
    /\ DOMAIN d = ViewFields
    /\ d.mobile \in BOOLEAN /\ d.stable \in BOOLEAN /\ d.embedded \in BOOLEAN /\ d.flag \in BOOLEAN
    /\ d.back \in BOOLEAN
    /\ d.feature \in {summary} \union InteropFeatures
    /\ d.year \in Years /\ d.doc \in Nat
    /\ d.mobile => d.flag /\ ~ d.stable

\* d is the view of the URL.
ShownBy(url, d) ==
    /\ d.mobile = (url.mobile /\ d.flag)
    /\ d.stable = (url.stable /\ ~ d.mobile)
    /\ d.embedded = url.embedded
    /\ d.feature = url.feature

InteropInv ==
    /\ ViewInv(dashboard)
    /\ location \in Urls /\ past \in Seq(Visits)
    /\ dashboard.phase \in {"shown", "rendered"} /\ ~ dashboard.back => ShownBy(location, dashboard)

-------------------------------------------------------------------------------
LEMMA OpenPageFields ==
    ASSUME NEW year \in Years, NEW url \in Urls, NEW flag \in BOOLEAN, NEW doc \in Nat,
           NEW d, d = OpenPage(year, url, flag, doc)
    PROVE  ViewInv(d) /\ d.phase = "loading"
<1>1. PICK view : view = ReadUrl(url, flag)
  OBVIOUS
<1>2. /\ view.mobile = (url.mobile /\ flag) /\ view.stable = (url.stable /\ ~ (url.mobile /\ flag))
      /\ view.embedded = url.embedded /\ view.feature = url.feature
  BY <1>1 DEF ReadUrl
<1>3. d = [mobile |-> view.mobile, stable |-> view.stable, embedded |-> view.embedded,
           feature |-> view.feature, phase |-> "loading", year |-> year, flag |-> flag, doc |-> doc,
           sortColumn |-> 0, isSortedAsc |-> TRUE, order |-> <<>>, bubbles |-> <<>>,
           switched |-> FALSE, back |-> FALSE]
  BY <1>1 DEF OpenPage
<1>4. DOMAIN d = ViewFields
  BY <1>3 DEF ViewFields
<1>5. d.mobile = view.mobile /\ d.stable = view.stable /\ d.embedded = view.embedded /\ d.feature = view.feature
      /\ d.phase = "loading" /\ d.year = year /\ d.flag = flag /\ d.doc = doc /\ d.back = FALSE
  BY <1>3
<1>6. /\ url.mobile \in BOOLEAN /\ url.stable \in BOOLEAN /\ url.embedded \in BOOLEAN
      /\ url.feature \in {summary} \union InteropFeatures
  BY DEF Urls
<1> QED BY <1>2, <1>4, <1>5, <1>6 DEF ViewInv

LEMMA InteropInitHolds == InteropInit => InteropInv
<1> SUFFICES ASSUME InteropInit PROVE InteropInv
  OBVIOUS
<1>1. PICK year \in Years, flag \in BOOLEAN :
        location \in InteropUrls(year) /\ dashboard = OpenPage(year, location, flag, 1)
  BY DEF InteropInit
<1>2. location \in Urls
  BY <1>1 DEF InteropUrls, Urls
<1>3. ViewInv(dashboard) /\ dashboard.phase = "loading"
  BY <1>1, <1>2, OpenPageFields
<1>4. past \in Seq(Visits)
  BY DEF InteropInit
<1> QED BY <1>2, <1>3, <1>4 DEF InteropInv

\* What goes to the history.
LEMMA VisitKept ==
    ASSUME InteropInv, past' = Append(past, [doc |-> dashboard.doc, year |-> dashboard.year, url |-> location])
    PROVE  past' \in Seq(Visits)
BY DEF InteropInv, ViewInv, Visits

\* The observer writes the view that is shown.
LEMMA PushKeeps ==
    ASSUME InteropInv, NEW d, ViewInv(d), PushUrl(d)
    PROVE  InteropInv'
<1>1. past' \in Seq(Visits)
  BY VisitKept DEF PushUrl
<1>2. location' \in Urls
  BY DEF PushUrl, UrlOf, ViewInv, Urls
<1>3. /\ DOMAIN dashboard' = DOMAIN d
      /\ dashboard'.mobile = d.mobile /\ dashboard'.stable = d.stable /\ dashboard'.embedded = d.embedded
      /\ dashboard'.feature = d.feature /\ dashboard'.flag = d.flag /\ dashboard'.year = d.year
      /\ dashboard'.doc = d.doc /\ dashboard'.back = FALSE
  BY DEF PushUrl, ViewInv, ViewFields
<1>4. ViewInv(dashboard)'
  BY <1>3 DEF ViewInv
<1>5. /\ location'.mobile = d.mobile /\ location'.stable = d.stable /\ location'.embedded = d.embedded
      /\ location'.feature = d.feature
  BY DEF PushUrl, UrlOf
<1>6. ShownBy(location, dashboard)'
  BY <1>3, <1>5 DEF ShownBy, ViewInv
<1> QED BY <1>1, <1>2, <1>4, <1>6 DEF InteropInv

LEMMA OpenKeepsPage ==
    ASSUME NEW year \in Years, NEW flag \in BOOLEAN, NEW doc \in Nat, location' \in Urls,
           dashboard' = OpenPage(year, location', flag, doc), past' \in Seq(Visits)
    PROVE  InteropInv'
BY OpenPageFields DEF InteropInv

\* Steps that change neither the view nor the URL.
LEMMA RestKeeps ==
    ASSUME InteropInv, UNCHANGED <<location, past>>,
           DOMAIN dashboard' = DOMAIN dashboard,
           \A f \in {"mobile", "stable", "embedded", "feature", "flag", "year", "doc", "back"} :
              dashboard'[f] = dashboard[f],
           dashboard'.phase \in {"shown", "rendered"} => dashboard.phase \in {"shown", "rendered"}
    PROVE  InteropInv'
<1>1. /\ dashboard'.mobile = dashboard.mobile /\ dashboard'.stable = dashboard.stable
      /\ dashboard'.embedded = dashboard.embedded /\ dashboard'.feature = dashboard.feature
      /\ dashboard'.flag = dashboard.flag /\ dashboard'.year = dashboard.year
      /\ dashboard'.doc = dashboard.doc /\ dashboard'.back = dashboard.back
  OBVIOUS
<1> QED BY <1>1 DEF InteropInv, ViewInv, ShownBy

LEMMA InteropNextKeepsInv ==
    ASSUME InteropInv, [InteropNext]_interopVars
    PROVE  InteropInv'
<1>0. /\ ViewInv(dashboard) /\ DOMAIN dashboard = ViewFields /\ location \in Urls /\ past \in Seq(Visits)
      /\ dashboard.year \in Years /\ dashboard.doc \in Nat /\ dashboard.flag \in BOOLEAN
  BY DEF InteropInv, ViewInv
<1>1. CASE DashboardReady
  <2>1. CASE numBrowsers(dashboard.year, dashboard.mobile) > 0
    <3>1. PICK d : d = [dashboard EXCEPT !.phase = "shown", !.order = sortRows(dashboard)]
      OBVIOUS
    <3>2. ViewInv(d)
      BY <1>0, <3>1 DEF ViewInv, ViewFields
    <3> QED BY <1>1, <2>1, <3>1, <3>2, PushKeeps DEF DashboardReady
  <2>2. CASE ~ numBrowsers(dashboard.year, dashboard.mobile) > 0
    <3>1. dashboard' = [dashboard EXCEPT !.phase = "failed"] /\ UNCHANGED <<location, past>>
      BY <1>1, <2>2 DEF DashboardReady
    <3> QED BY <1>0, <3>1, RestKeeps DEF ViewFields
  <2> QED BY <2>1, <2>2
<1>2. CASE DashboardFails
  <2>1. dashboard' = [dashboard EXCEPT !.phase = "failed"] /\ UNCHANGED <<location, past>>
    BY <1>2 DEF DashboardFails
  <2> QED BY <1>0, <2>1, RestKeeps DEF ViewFields
<1>3. CASE AfterRender
  <2>1. dashboard.phase = "shown" /\ UNCHANGED <<location, past>>
        /\ dashboard' = [dashboard EXCEPT !.phase = "rendered", !.bubbles = SummaryBubbles(dashboard)]
    BY <1>3 DEF AfterRender
  <2> QED BY <1>0, <2>1, RestKeeps DEF ViewFields
<1>4. ASSUME NEW mobile \in BOOLEAN, NEW stable \in BOOLEAN, toggleMobileView(mobile, stable)
      PROVE  InteropInv'
  <2>1. past' \in Seq(Visits)
    BY <1>4, VisitKept DEF toggleMobileView
  <2>2. location' = [feature |-> summary, stable |-> stable, embedded |-> FALSE, mobile |-> mobile]
        /\ dashboard' = OpenPage(dashboard.year, location', dashboard.flag, dashboard.doc + 1)
    BY <1>4 DEF toggleMobileView
  <2>3. location' \in Urls
    BY <2>2 DEF Urls
  <2>4. dashboard.doc + 1 \in Nat
    BY <1>0
  <2> QED BY <1>0, <2>1, <2>2, <2>3, <2>4, OpenKeepsPage
<1>5. ASSUME NEW stable \in BOOLEAN, ClickChannel(stable) PROVE InteropInv'
  <2>1. CASE dashboard.mobile
    BY <1>4, <1>5, <2>1 DEF ClickChannel
  <2>2. CASE ~ dashboard.mobile
    <3>1. PICK d : d = [dashboard EXCEPT !.stable = stable, !.switched = TRUE]
      OBVIOUS
    <3>2. ViewInv(d) /\ ~ d.mobile
      BY <1>0, <2>2, <3>1 DEF ViewInv, ViewFields
    <3>3. PICK b : b = [d EXCEPT !.bubbles = SummaryBubbles(d)]
      OBVIOUS
    <3>4. ViewInv(b)
      BY <3>2, <3>3 DEF ViewInv, ViewFields
    <3>5. PushUrl(d) \/ PushUrl(b)
      BY <1>5, <2>2, <3>1, <3>3 DEF ClickChannel, SwitchTo
    <3> QED BY <3>2, <3>4, <3>5, PushKeeps
  <2> QED BY <2>1, <2>2
<1>6. CASE clickMobile
  BY <1>4, <1>6 DEF clickMobile
<1>7. ASSUME NEW feature \in {summary} \union InteropFeatures, ChooseFeature(feature) PROVE InteropInv'
  <2>1. PICK d : d = [dashboard EXCEPT !.feature = feature]
    OBVIOUS
  <2>2. ViewInv(d)
    BY <1>0, <2>1 DEF ViewInv, ViewFields
  <2> QED BY <1>7, <2>1, <2>2, PushKeeps DEF ChooseFeature
<1>8. ASSUME NEW column \in Columns(dashboard), handleSortClick(column) PROVE InteropInv'
  <2>1. PICK d : d = [dashboard EXCEPT
                        !.isSortedAsc = IF dashboard.sortColumn = column THEN ~ @ ELSE FALSE,
                        !.sortColumn = column, !.switched = FALSE]
    OBVIOUS
  <2>2. dashboard' = [d EXCEPT !.order = sortRows(d)] /\ UNCHANGED <<location, past>>
    BY <1>8, <2>1 DEF handleSortClick
  <2>3. DOMAIN d = ViewFields
        /\ \A f \in {"mobile", "stable", "embedded", "feature", "flag", "year", "doc", "back", "phase"} :
              d[f] = dashboard[f]
    BY <1>0, <2>1 DEF ViewFields
  <2>4. DOMAIN dashboard' = ViewFields
        /\ \A f \in {"mobile", "stable", "embedded", "feature", "flag", "year", "doc", "back", "phase"} :
              dashboard'[f] = dashboard[f]
    BY <2>2, <2>3 DEF ViewFields
  <2> QED BY <1>0, <2>2, <2>4, RestKeeps
<1>9. CASE GoBack
  <2>1. PICK e : e = Last(past)
    OBVIOUS
  <2>2. /\ past # <<>> /\ past' = Front(past) /\ location' = e.url
        /\ dashboard' = IF e.doc = dashboard.doc THEN [dashboard EXCEPT !.back = TRUE]
                        ELSE OpenPage(e.year, e.url, dashboard.flag, e.doc)
    BY <1>9, <2>1 DEF GoBack
  <2>3. e \in Visits /\ past' \in Seq(Visits)
    BY <1>0, <2>1, <2>2 DEF Last, Front
  <2>4. e.url \in Urls /\ e.year \in Years /\ e.doc \in Nat
    BY <2>3 DEF Visits
  <2>5. CASE e.doc = dashboard.doc
    <3>1. dashboard' = [dashboard EXCEPT !.back = TRUE]
      BY <2>2, <2>5
    <3>2. ViewInv(dashboard)' /\ dashboard'.back = TRUE
      BY <1>0, <3>1 DEF ViewInv, ViewFields
    <3> QED BY <2>2, <2>3, <2>4, <3>2 DEF InteropInv
  <2>6. CASE e.doc # dashboard.doc
    BY <1>0, <2>2, <2>3, <2>4, <2>6, OpenKeepsPage
  <2> QED BY <2>5, <2>6
<1>10. CASE UNCHANGED interopVars
  BY <1>10 DEF interopVars, InteropInv, ViewInv, ShownBy
<1> QED BY <1>1, <1>2, <1>3, <1>5, <1>6, <1>7, <1>8, <1>9, <1>10 DEF InteropNext

\* The dashboard keeps its view, its URL and its history in step.
THEOREM InteropInvariant == InteropSpec => []InteropInv
<1> QED BY InteropInitHolds, InteropNextKeepsInv, PTL DEF InteropSpec

\* The page's URL, loaded again, shows the same view.
THEOREM UrlsShowViews == InteropSpec => []UrlShowsView
<1>1. ASSUME InteropInv PROVE UrlShowsView
  <2> SUFFICES ASSUME dashboard.phase \in {"shown", "rendered"}, ~ dashboard.back
               PROVE  LET view == ReadUrl(location, dashboard.flag)
                      IN  view = [f \in DOMAIN view |-> dashboard[f]]
    BY DEF UrlShowsView
  <2>1. ShownBy(location, dashboard)
    BY <1>1 DEF InteropInv
  <2>2. PICK view : view = ReadUrl(location, dashboard.flag)
    OBVIOUS
  <2>3. view = [mobile |-> dashboard.mobile, stable |-> dashboard.stable,
                embedded |-> dashboard.embedded, feature |-> dashboard.feature]
    BY <2>1, <2>2 DEF ShownBy, ReadUrl
  <2>4. view = [f \in DOMAIN view |-> dashboard[f]]
    BY <2>3
  <2> QED BY <2>2, <2>4
<1> QED BY <1>1, InteropInvariant, PTL

\* roundScore: in whatever year a score was counted, a bubble or a cell of the dashboard reads
\* 100 for a score of all tests passing and for no other, though it is rounded.
THEOREM FullScoresAreFull ==
    ASSUME NEW year \in Nat, NEW score \in 0 .. 1000
    PROVE  /\ roundScore(year, score) \in 0 .. 100
           /\ roundScore(year, score) = 100 <=> score = 1000
<1>1. PICK down : down = score \div 10
  OBVIOUS
<1>2. PICK near : near = (score + 5) \div 10
  OBVIOUS
<1>3. down \in 0 .. 100 /\ (down = 100 <=> score = 1000)
  BY <1>1
<1>4. near \in 0 .. 100 /\ (score = 1000 => near = 100)
  BY <1>2
<1>5. roundScore(year, score) = IF year < 2024 THEN down
                                ELSE IF near = 100 /\ score < 1000 THEN 99 ELSE near
  BY <1>1, <1>2 DEF roundScore
<1> QED BY <1>3, <1>4, <1>5

-------------------------------------------------------------------------------
(* List of runs: FlattenSeq, step by step *)

\* f has, at each i, the first i sequences of ss one after another.
Joins(f, ss) ==
    f = [i \in 1..Len(ss) |-> IF i = 1 THEN ss[i] ELSE f[i - 1] \o ss[i]]

LEMMA JoinsStep ==
    ASSUME NEW S, NEW ss \in Seq(Seq(S)), NEW s \in Seq(S), NEW f \in [1..Len(ss) -> Seq(S)], Joins(f, ss)
    PROVE  \E g \in [1..(Len(ss) + 1) -> Seq(S)] :
              /\ Joins(g, Append(ss, s))
              /\ g[Len(ss) + 1] = IF ss = <<>> THEN s ELSE f[Len(ss)] \o s
<1>1. PICK T : T = Seq(S)
  OBVIOUS
<1>2. PICK n : n = Len(ss)
  OBVIOUS
<1>3. PICK last : last = IF ss = <<>> THEN s ELSE f[n] \o s
  OBVIOUS
<1>4. PICK g : g = [i \in 1..(n + 1) |-> IF i <= n THEN f[i] ELSE last]
  OBVIOUS
<1>5. n \in Nat /\ (ss = <<>> <=> n = 0)
  BY <1>2
<1>6. last \in T
  <2>1. CASE ss = <<>>
    BY <1>1, <1>3, <2>1
  <2>2. CASE ss # <<>>
    <3>1. f[n] \in Seq(S)
      BY <1>2, <1>5, <2>2
    <3> QED BY <1>1, <1>3, <2>2, <3>1
  <2> QED BY <2>1, <2>2
<1>7. g \in [1..(n + 1) -> T]
  BY <1>1, <1>2, <1>4, <1>5, <1>6
<1>8. \A i \in 1..n : g[i] = f[i] /\ f[i] = IF i = 1 THEN ss[i] ELSE f[i - 1] \o ss[i]
  <2>1. \A i \in 1..n : f[i] = IF i = 1 THEN ss[i] ELSE f[i - 1] \o ss[i]
    BY <1>2, Zenon DEF Joins
  <2>2. \A i \in 1..n : i \in 1..(n + 1) /\ i <= n
    BY <1>5
  <2>3. \A i \in 1..n : g[i] = f[i]
    BY <1>4, <2>2
  <2> QED BY <2>1, <2>3
<1>9. PICK more : more = Append(ss, s)
  OBVIOUS
<1>10. Len(more) = n + 1 /\ more[n + 1] = s /\ \A i \in 1..n : more[i] = ss[i]
  BY <1>2, <1>9
<1>11. g[n + 1] = last
  BY <1>4, <1>5
<1>12. ASSUME NEW i \in 1..(n + 1) PROVE g[i] = IF i = 1 THEN more[i] ELSE g[i - 1] \o more[i]
  <2>1. CASE i = n + 1
    <3>1. CASE n = 0
      BY <1>3, <1>5, <1>10, <1>11, <2>1, <3>1
    <3>2. CASE n # 0
      <4>1. i # 1 /\ i - 1 = n /\ g[n] = f[n]
        BY <1>5, <1>8, <2>1, <3>2
      <4> QED BY <1>3, <1>5, <1>10, <1>11, <2>1, <3>2, <4>1
    <3> QED BY <3>1, <3>2
  <2>2. CASE i # n + 1
    <3>1. i \in 1..n /\ (i # 1 => i - 1 \in 1..n)
      BY <1>5, <2>2
    <3> QED BY <1>8, <1>10, <3>1
  <2> QED BY <2>1, <2>2
<1>13. Joins(g, more)
  <2>1. g = [i \in 1..(n + 1) |-> g[i]]
    BY <1>4
  <2> QED BY <1>10, <1>12, <2>1 DEF Joins
<1> QED BY <1>1, <1>2, <1>3, <1>7, <1>9, <1>11, <1>13

LEMMA JoinsExists ==
    ASSUME NEW S, NEW ss \in Seq(Seq(S))
    PROVE  \E f \in [1..Len(ss) -> Seq(S)] : Joins(f, ss)
<1> DEFINE First(n) == SubSeq(ss, 1, n)
           Has(n) == \E f \in [1..n -> Seq(S)] : Joins(f, First(n))
<1>1. PICK T : T = Seq(S)
  OBVIOUS
<1>2. \A n \in 0..Len(ss) : First(n) \in Seq(T) /\ Len(First(n)) = n
  BY <1>1
<1>3. \A n \in 1..Len(ss) : First(n) = Append(First(n - 1), ss[n]) /\ ss[n] \in T
  BY <1>1
<1>4. First(0) = <<>> /\ First(Len(ss)) = ss
  OBVIOUS
<1>5. Has(0)
  <2>1. PICK f : f = [i \in 1..0 |-> <<>>]
    OBVIOUS
  <2>2. f \in [1..0 -> Seq(S)]
    BY <2>1
  <2>3. Joins(f, <<>>)
    BY <2>1 DEF Joins
  <2> QED BY <1>4, <2>2, <2>3
<1>6. ASSUME NEW n \in 1..Len(ss), Has(n - 1) PROVE Has(n)
  <2>1. PICK f \in [1..(n - 1) -> Seq(S)] : Joins(f, First(n - 1))
    BY <1>6
  <2>2. First(n - 1) \in Seq(Seq(S)) /\ Len(First(n - 1)) = n - 1 /\ ss[n] \in Seq(S) /\ (n - 1) + 1 = n
    BY <1>1, <1>2, <1>3
  <2> HIDE DEF First
  <2>3. PICK first, page : first = First(n - 1) /\ page = ss[n]
    OBVIOUS
  <2>4. first \in Seq(Seq(S)) /\ Len(first) = n - 1 /\ page \in Seq(S) /\ Len(first) + 1 = n
    BY <2>2, <2>3
  <2>5. f \in [1..Len(first) -> Seq(S)] /\ Joins(f, first)
    BY <2>1, <2>3, <2>4, Zenon
  <2>6. \E g \in [1..(Len(first) + 1) -> Seq(S)] : Joins(g, Append(first, page))
    BY <2>4, <2>5, JoinsStep, Zenon
  <2> QED BY <1>3, <2>3, <2>4, <2>6, Zenon
<1> HIDE DEF Has
<1>7. PICK I : I = {n \in 1..Len(ss) : ~ Has(n)}
  OBVIOUS
<1>8. I = {}
  <2> SUFFICES ASSUME NEW i \in I PROVE FALSE
    OBVIOUS
  <2>1. I \subseteq 1..Len(ss) /\ Len(ss) \in Nat
    BY <1>7
  <2>2. PICK k \in I : \A j \in I : k <= j
    BY <2>1, LeastExists
  <2>3. k \in 1..Len(ss) /\ ~ Has(k) /\ k - 1 \notin I
    BY <1>7, <2>1, <2>2
  <2>4. Has(k - 1)
    BY <1>5, <1>7, <2>1, <2>3
  <2> QED BY <1>6, <2>3, <2>4
<1>9. Has(Len(ss))
  <2>1. Len(ss) \in Nat
    OBVIOUS
  <2>2. CASE Len(ss) = 0
    BY <1>5, <2>2
  <2>3. CASE Len(ss) # 0
    BY <1>7, <1>8, <2>1, <2>3
  <2> QED BY <2>2, <2>3
<1> QED BY <1>4, <1>9 DEF Has

LEMMA JoinsOnly ==
    ASSUME NEW ss, Len(ss) \in Nat, NEW f, Joins(f, ss), NEW g, Joins(g, ss)
    PROVE  f = g
<1>1. PICK n : n = Len(ss)
  OBVIOUS
<1>2. f = [i \in 1..n |-> IF i = 1 THEN ss[i] ELSE f[i - 1] \o ss[i]]
  BY <1>1, Zenon DEF Joins
<1>3. g = [i \in 1..n |-> IF i = 1 THEN ss[i] ELSE g[i - 1] \o ss[i]]
  BY <1>1, Zenon DEF Joins
<1>4. PICK I : I = {i \in 1..n : f[i] # g[i]}
  OBVIOUS
<1>5. I = {}
  <2> SUFFICES ASSUME NEW i \in I PROVE FALSE
    OBVIOUS
  <2>1. I \subseteq 1..n /\ n \in Nat
    BY <1>1, <1>4
  <2>2. PICK k \in I : \A j \in I : k <= j
    BY <2>1, LeastExists
  <2>3. k \in 1..n /\ f[k] # g[k] /\ k - 1 \notin I
    BY <1>4, <2>1, <2>2
  <2>4. k # 1 => f[k - 1] = g[k - 1]
    BY <1>4, <2>1, <2>3
  <2>5. f[k] = IF k = 1 THEN ss[k] ELSE f[k - 1] \o ss[k]
    BY <1>2, <2>3
  <2>6. g[k] = IF k = 1 THEN ss[k] ELSE g[k - 1] \o ss[k]
    BY <1>3, <2>3
  <2> QED BY <2>3, <2>4, <2>5, <2>6
<1>6. f = [i \in 1..n |-> f[i]] /\ g = [i \in 1..n |-> g[i]]
  <2>1. DOMAIN f = 1..n /\ DOMAIN g = 1..n
    BY <1>2, <1>3
  <2>2. f = [i \in DOMAIN f |-> f[i]]
    BY <1>2
  <2>3. g = [i \in DOMAIN g |-> g[i]]
    BY <1>3
  <2> QED BY <2>1, <2>2, <2>3
<1>7. \A i \in 1..n : f[i] = g[i]
  BY <1>4, <1>5
<1> QED BY <1>6, <1>7

LEMMA FlattenIs ==
    ASSUME NEW ss, Len(ss) \in Nat \ {0}, NEW f, Joins(f, ss)
    PROVE  FlattenSeq(ss) = f[Len(ss)]
<1> DEFINE g == CHOOSE h : h = [i \in 1..Len(ss) |-> IF i = 1 THEN ss[i] ELSE h[i - 1] \o ss[i]]
<1>1. FlattenSeq(ss) = g[Len(ss)]
  BY DEF FlattenSeq
<1>2. Joins(g, ss)
  <2>1. \E h : h = [i \in 1..Len(ss) |-> IF i = 1 THEN ss[i] ELSE h[i - 1] \o ss[i]]
    BY Zenon DEF Joins
  <2> QED BY <2>1, Zenon DEF Joins
<1> HIDE DEF g
<1>3. g = f
  BY <1>2, JoinsOnly
<1> QED BY <1>1, <1>3

\* FlattenSeq, from one sequence to the next.
LEMMA FlattenAppend ==
    ASSUME NEW S, NEW ss \in Seq(Seq(S)), NEW s \in Seq(S)
    PROVE  /\ FlattenSeq(<<>>) = <<>>
           /\ FlattenSeq(ss) \in Seq(S)
           /\ FlattenSeq(Append(ss, s)) = FlattenSeq(ss) \o s
<1>1. FlattenSeq(<<>>) = <<>>
  <2>1. Len(<<>>) = 0
    OBVIOUS
  <2> QED BY <2>1, Zenon DEF FlattenSeq
<1>2. PICK f \in [1..Len(ss) -> Seq(S)] : Joins(f, ss)
  BY JoinsExists
<1>3. Len(ss) \in Nat /\ (ss = <<>> <=> Len(ss) = 0)
  OBVIOUS
<1>4. PICK flat : flat = FlattenSeq(ss)
  OBVIOUS
<1>5. ss # <<>> => flat = f[Len(ss)]
  BY <1>2, <1>3, <1>4, FlattenIs
<1>6. flat \in Seq(S)
  <2>1. CASE ss = <<>>
    <3>1. <<>> \in Seq(S)
      OBVIOUS
    <3>2. flat = <<>>
      BY <1>1, <1>4, <2>1, Zenon
    <3> QED BY <3>1, <3>2, Zenon
  <2>2. CASE ss # <<>>
    <3>1. Len(ss) \in 1..Len(ss)
      BY <1>3, <2>2
    <3>2. f[Len(ss)] \in Seq(S)
      BY <3>1, Zenon
    <3> QED BY <1>5, <2>2, <3>2, Zenon
  <2> QED BY <2>1, <2>2, Zenon
<1>7. PICK more : more = Append(ss, s)
  OBVIOUS
<1>8. PICK g : Joins(g, more) /\ g[Len(ss) + 1] = IF ss = <<>> THEN s ELSE f[Len(ss)] \o s
  BY <1>2, <1>7, JoinsStep
<1>9. FlattenSeq(more) = g[Len(ss) + 1]
  <2>1. Len(more) = Len(ss) + 1 /\ Len(more) \in Nat \ {0}
    BY <1>3, <1>7
  <2>2. FlattenSeq(more) = g[Len(more)]
    BY <1>8, <2>1, FlattenIs
  <2> QED BY <2>1, <2>2
<1>10. g[Len(ss) + 1] = flat \o s
  <2>1. CASE ss = <<>>
    <3>1. flat \o s = s
      BY <1>1, <1>4, <2>1
    <3> QED BY <1>8, <2>1, <3>1
  <2>2. CASE ss # <<>>
    BY <1>5, <1>8, <2>2
  <2> QED BY <2>1, <2>2
<1> QED BY <1>1, <1>4, <1>6, <1>7, <1>9, <1>10
LEMMA StepByStep ==
    ASSUME NEW n \in Nat, NEW A, 0 \in A, \A k \in 0..(n - 1) : k \in A => k + 1 \in A
    PROVE  \A k \in 0..n : k \in A
<1>1. PICK I : I = {k \in 1..n : k \notin A}
  OBVIOUS
<1>2. I \subseteq 1..n
  BY <1>1
<1>3. ASSUME NEW i \in I PROVE FALSE
  <2>1. PICK k \in I : \A j \in I : k <= j
    BY <1>2, LeastExists
  <2>2. k \in 1..n /\ k \notin A /\ k - 1 \notin I
    BY <1>1, <1>2, <2>1
  <2>3. k - 1 \in 0..(n - 1) /\ k - 1 \in A /\ (k - 1) + 1 = k
    BY <1>1, <2>2
  <2> QED BY <2>2, <2>3
<1> QED BY <1>1, <1>3

LEMMA EarliestExists ==
    ASSUME NEW n \in Nat, NEW I, I \subseteq 1..n, I # {}, NEW d \in [I -> Int]
    PROVE  \E i \in I : \A j \in I : d[i] <= d[j]
<1> DEFINE UpTo(k) == {j \in I : j <= k}
           Has(k) == UpTo(k) # {} => \E i \in UpTo(k) : \A j \in UpTo(k) : d[i] <= d[j]
<1>1. Has(0)
  <2>1. \A j \in I : ~ (j <= 0)
    OBVIOUS
  <2> QED BY <2>1
<1>2. ASSUME NEW k \in 0..(n - 1), Has(k) PROVE Has(k + 1)
  <2>1. CASE k + 1 \notin I
    <3>1. \A j \in I : j <= k + 1 <=> j <= k
      BY <2>1
    <3>2. UpTo(k + 1) = UpTo(k)
      BY <3>1
    <3> QED BY <1>2, <3>2
  <2>2. CASE k + 1 \in I
    <3>1. \A j \in I : j <= k + 1 <=> j <= k \/ j = k + 1
      BY <2>2
    <3>2. CASE UpTo(k) = {}
      <4>1. \A j \in UpTo(k + 1) : j = k + 1
        BY <3>1, <3>2
      <4>2. k + 1 \in UpTo(k + 1) /\ d[k + 1] \in Int
        BY <2>2
      <4> HIDE DEF UpTo
      <4> QED BY <4>1, <4>2
    <3>3. CASE UpTo(k) # {}
      <4>1. PICK i \in UpTo(k) : \A j \in UpTo(k) : d[i] <= d[j]
        BY <1>2, <3>3
      <4>2. \A j \in UpTo(k + 1) : j \in UpTo(k) \/ j = k + 1
        BY <3>1
      <4>3. k + 1 \in UpTo(k + 1) /\ i \in UpTo(k + 1) /\ d[i] \in Int /\ d[k + 1] \in Int
        BY <2>2, <3>1
      <4>4. \A j \in UpTo(k) : d[j] \in Int
        OBVIOUS
      <4> HIDE DEF UpTo
      <4>5. CASE d[i] <= d[k + 1]
        BY <4>1, <4>2, <4>3, <4>5
      <4>6. CASE ~ (d[i] <= d[k + 1])
        <5>1. \A j \in UpTo(k) : d[k + 1] <= d[j]
          BY <4>1, <4>3, <4>4, <4>6
        <5> QED BY <4>2, <4>3, <5>1
      <4> QED BY <4>5, <4>6
    <3> QED BY <3>2, <3>3
  <2> QED BY <2>1, <2>2
<1>3. UpTo(n) = I
  <2>1. \A j \in I : j <= n
    OBVIOUS
  <2> QED BY <2>1
<1> HIDE DEF Has
<1>4. PICK A : A = {k \in 0..n : Has(k)}
  OBVIOUS
<1>5. n \in A
  <2>1. 0 \in A /\ \A k \in 0..(n - 1) : k \in A => k + 1 \in A
    BY <1>1, <1>2, <1>4
  <2>2. \A k \in 0..n : k \in A
    BY <2>1, StepByStep
  <2> QED BY <2>2
<1>6. Has(n)
  BY <1>4, <1>5
<1> QED BY <1>3, <1>6 DEF Has

\* The runs of the first k pages.
PagesTo(pages, k) == FlattenSeq(SubSeq(pages, 1, k))

LEMMA PagesToIs ==
    ASSUME NEW S, NEW pages \in Seq(Seq(S))
    PROVE  /\ PagesTo(pages, 0) = <<>>
           /\ \A k \in 0..Len(pages) : PagesTo(pages, k) \in Seq(S)
           /\ \A k \in 0..(Len(pages) - 1) : PagesTo(pages, k + 1) = PagesTo(pages, k) \o pages[k + 1]
<1>1. PICK T : T = Seq(S)
  OBVIOUS
<1>2. SubSeq(pages, 1, 0) = <<>>
  OBVIOUS
<1>3. PagesTo(pages, 0) = <<>>
  <2>1. <<>> \in Seq(Seq(S)) /\ <<>> \in Seq(S)
    OBVIOUS
  <2>2. FlattenSeq(<<>>) = <<>>
    BY <2>1, FlattenAppend
  <2> QED BY <1>2, <2>2 DEF PagesTo
<1>4. ASSUME NEW k \in 0..Len(pages) PROVE SubSeq(pages, 1, k) \in Seq(Seq(S)) /\ PagesTo(pages, k) \in Seq(S)
  <2>1. SubSeq(pages, 1, k) \in Seq(T)
    BY <1>1
  <2>2. <<>> \in Seq(S)
    OBVIOUS
  <2>3. SubSeq(pages, 1, k) \in Seq(Seq(S))
    BY <1>1, <2>1
  <2> QED BY <2>2, <2>3, FlattenAppend DEF PagesTo
<1>5. ASSUME NEW k \in 0..(Len(pages) - 1) PROVE PagesTo(pages, k + 1) = PagesTo(pages, k) \o pages[k + 1]
  <2>1. SubSeq(pages, 1, k + 1) = Append(SubSeq(pages, 1, k), pages[k + 1]) /\ pages[k + 1] \in T
    BY <1>1
  <2>2. k \in 0..Len(pages)
    OBVIOUS
  <2>3. PICK first : first = SubSeq(pages, 1, k) /\ first \in Seq(Seq(S))
    BY <1>4, <2>2
  <2>4. PICK page : page = pages[k + 1] /\ page \in Seq(S)
    BY <1>1, <2>1
  <2>5. FlattenSeq(Append(first, page)) = FlattenSeq(first) \o page
    BY <2>3, <2>4, FlattenAppend
  <2> QED BY <2>1, <2>3, <2>4, <2>5, Zenon DEF PagesTo
<1> QED BY <1>3, <1>4, <1>5

-------------------------------------------------------------------------------
(* List of runs: the groups of testRunsLoaded *)

Revisions(runs) == {run.revision : run \in ToSet(runs)}

Dated(S) == \A run \in S : run.date \in Int

LEMMA SetOf ==
    ASSUME NEW S, NEW runs \in Seq(S)
    PROVE  /\ ToSet(runs) \subseteq S
           /\ \A run : run \in ToSet(runs) <=> \E i \in 1..Len(runs) : runs[i] = run
           /\ IsFiniteSet(ToSet(runs)) /\ IsFiniteSet(Revisions(runs))
<1>1. PICK T : T = {runs[i] : i \in 1..Len(runs)}
  OBVIOUS
<1>2. ToSet(runs) = T
  <2>1. DOMAIN runs = 1..Len(runs)
    OBVIOUS
  <2> QED BY <1>1, <2>1, Zenon DEF ToSet
<1>3. T \subseteq S /\ \A run : run \in T <=> \E i \in 1..Len(runs) : runs[i] = run
  BY <1>1
<1>4. IsFiniteSet(1..Len(runs))
  <2>1. Len(runs) \in Int
    OBVIOUS
  <2> QED BY <2>1, FS_Interval
<1>5. IsFiniteSet(T)
  <2>1. PICK f : f = [i \in 1..Len(runs) |-> runs[i]]
    OBVIOUS
  <2>2. f \in Surjection(1..Len(runs), T)
    BY <1>1, <2>1 DEF Surjection
  <2> QED BY <1>4, <2>2, FS_Surjection
<1>6. IsFiniteSet(Revisions(runs))
  <2>1. PICK R : R = {run.revision : run \in T}
    OBVIOUS
  <2>2. PICK f : f = [run \in T |-> run.revision]
    OBVIOUS
  <2>3. f \in Surjection(T, R)
    BY <2>1, <2>2 DEF Surjection
  <2>4. IsFiniteSet(R)
    BY <1>5, <2>3, FS_Surjection
  <2> QED BY <1>2, <2>1, <2>4 DEF Revisions
<1> QED BY <1>2, <1>3, <1>5, <1>6

\* The first run of a revision and the place of its first run in the list.
LEMMA FirstsAre ==
    ASSUME NEW S, Dated(S), NEW runs \in Seq(S), NEW sha \in Revisions(runs)
    PROVE  /\ \E run \in RunsAt(runs, sha) : firstRunDate(RunsAt(runs, sha)) = run.date
           /\ \A run \in RunsAt(runs, sha) : firstRunDate(RunsAt(runs, sha)) <= run.date
           /\ firstRunDate(RunsAt(runs, sha)) \in Int
           /\ FirstAt(runs, sha) \in 1..Len(runs) /\ runs[FirstAt(runs, sha)].revision = sha
<1>1. PICK I : I = {i \in 1..Len(runs) : runs[i].revision = sha}
  OBVIOUS
<1>2. Len(runs) \in Nat /\ DOMAIN runs = 1..Len(runs) /\ I \subseteq 1..Len(runs)
  BY <1>1
<1>3. I # {}
  <2>1. PICK run \in ToSet(runs) : run.revision = sha
    BY DEF Revisions
  <2>2. PICK i \in 1..Len(runs) : runs[i] = run
    BY <2>1, SetOf
  <2> QED BY <1>1, <2>1, <2>2
<1>4. PICK R : R = RunsAt(runs, sha)
  OBVIOUS
<1>5. \A run : run \in R <=> \E i \in I : runs[i] = run
  <2>1. \A run : run \in R <=> run \in ToSet(runs) /\ run.revision = sha
    BY <1>4 DEF RunsAt
  <2> QED BY <1>1, <2>1, SetOf
<1>6. \A i \in I : runs[i].date \in Int
  BY <1>2 DEF Dated
<1>7. PICK i \in I : \A j \in I : runs[i].date <= runs[j].date
  <2>1. PICK d : d = [j \in I |-> runs[j].date]
    OBVIOUS
  <2>2. d \in [I -> Int]
    BY <1>6, <2>1
  <2>3. PICK i \in I : \A j \in I : d[i] <= d[j]
    BY <1>2, <1>3, <2>2, EarliestExists
  <2> QED BY <2>1, <2>3
<1>8. PICK date : date = firstRunDate(R)
  OBVIOUS
<1>9. (\E run \in R : date = run.date) /\ (\A run \in R : date <= run.date)
  <2>1. runs[i] \in R /\ \A run \in R : runs[i].date <= run.date
    BY <1>5, <1>7
  <2>2. \E d \in {run.date : run \in R} : \A run \in R : d <= run.date
    BY <2>1
  <2>3. date \in {run.date : run \in R} /\ \A run \in R : date <= run.date
    BY <1>8, <2>2 DEF firstRunDate
  <2> QED BY <2>3
<1>10. date \in Int
  BY <1>5, <1>6, <1>9
<1>11. PICK at : at = FirstAt(runs, sha)
  OBVIOUS
<1>12. at \in 1..Len(runs) /\ runs[at].revision = sha
  <2>1. PICK k \in I : \A j \in I : k <= j
    BY <1>2, <1>3, LeastExists
  <2>2. \A j \in 1..(k - 1) : runs[j].revision # sha
    <3> SUFFICES ASSUME NEW j \in 1..(k - 1), runs[j].revision = sha PROVE FALSE
      OBVIOUS
    <3>1. j \in I /\ k \in Int /\ ~ (k <= j)
      BY <1>1, <1>2
    <3> QED BY <2>1, <3>1
  <2>3. k \in DOMAIN runs /\ runs[k].revision = sha
    BY <1>1, <1>2
  <2>4. at \in DOMAIN runs /\ runs[at].revision = sha
    BY <1>11, <2>2, <2>3 DEF FirstAt
  <2> QED BY <1>2, <2>4
<1> QED BY <1>4, <1>8, <1>9, <1>10, <1>11, <1>12

LEMMA LaterFirstOrders ==
    ASSUME NEW S, Dated(S), NEW runs \in Seq(S)
    PROVE  Orders(LaterFirst(runs), Revisions(runs))
<1> DEFINE Date(sha) == firstRunDate(RunsAt(runs, sha))
<1>1. \A sha \in Revisions(runs) : Date(sha) \in Int /\ FirstAt(runs, sha) \in Int
                                   /\ runs[FirstAt(runs, sha)].revision = sha
  BY FirstsAre
<1>2. \A x, y : <<x, y>> \in LaterFirst(runs) <=>
                   /\ x \in Revisions(runs) /\ y \in Revisions(runs)
                   /\ \/ Date(x) > Date(y)
                      \/ Date(x) = Date(y) /\ FirstAt(runs, x) <= FirstAt(runs, y)
  BY DEF LaterFirst, Revisions
<1> HIDE DEF Date
<1>3. ASSUME NEW x \in Revisions(runs), NEW y \in Revisions(runs), FirstAt(runs, x) = FirstAt(runs, y) PROVE x = y
  BY <1>1, <1>3
<1>4. ASSUME NEW x \in Revisions(runs), NEW y \in Revisions(runs)
      PROVE  /\ <<x, y>> \in LaterFirst(runs) \/ <<y, x>> \in LaterFirst(runs)
             /\ <<x, y>> \in LaterFirst(runs) /\ <<y, x>> \in LaterFirst(runs) => x = y
  BY <1>1, <1>2, <1>3
<1>5. ASSUME NEW x \in Revisions(runs), NEW y \in Revisions(runs), NEW z \in Revisions(runs),
             <<x, y>> \in LaterFirst(runs), <<y, z>> \in LaterFirst(runs)
      PROVE  <<x, z>> \in LaterFirst(runs)
  BY <1>1, <1>2, <1>5
<1> QED BY <1>4, <1>5 DEF Orders

\* The groups of testRunsLoaded: each revision once, the latest first, with its runs.
Ranked(groups, runs) ==
    \A j, k \in 1..Len(groups) :
        j < k => /\ groups[j].sha # groups[k].sha
                 /\ <<groups[j].sha, groups[k].sha>> \in LaterFirst(runs)

Grouped(groups, runs, S) ==
    /\ Len(groups) \in Nat /\ DOMAIN groups = 1..Len(groups)
    /\ \A j \in 1..Len(groups) : /\ groups[j].sha \in Revisions(runs)
                                 /\ groups[j].runs = Within(runs, RunsAt(runs, groups[j].sha))
                                 /\ groups[j].runs \in Seq(S)
                                 /\ \A run : run \in ToSet(groups[j].runs) <=> run \in RunsAt(runs, groups[j].sha)
    /\ \A sha \in Revisions(runs) : \E j \in 1..Len(groups) : groups[j].sha = sha
    /\ Ranked(groups, runs)

LEMMA GroupsAre ==
    ASSUME NEW S, Dated(S), NEW runs \in Seq(S)
    PROVE  Grouped(testRunsLoaded(runs), runs, S)
<1> PICK groups : groups = testRunsLoaded(runs)
  OBVIOUS
<1>1. PICK R, m, shas : /\ R = Revisions(runs) /\ m = Cardinality(R)
                        /\ shas = InOrder(R, LaterFirst(runs))
  OBVIOUS
<1>2. /\ m \in Nat /\ shas \in [1..m -> R]
      /\ \A sha \in R : \E j \in 1..m : shas[j] = sha
      /\ \A j, k \in 1..m : j < k => <<shas[j], shas[k]>> \in LaterFirst(runs) /\ shas[j] # shas[k]
  <2>1. IsFiniteSet(R) /\ Orders(LaterFirst(runs), R)
    BY <1>1, SetOf, LaterFirstOrders
  <2> QED BY <1>1, <2>1, InOrderIsOrdered
<1>3. groups = [i \in 1..m |-> [sha |-> shas[i], runs |-> Within(runs, RunsAt(runs, shas[i]))]]
  <2>1. DOMAIN shas = 1..m
    BY <1>2
  <2> QED BY <1>1, <2>1, Zenon DEF testRunsLoaded, Revisions
<1>4. Len(groups) = m /\ DOMAIN groups = 1..m
  BY <1>2, <1>3
<1>5. \A j \in 1..m : groups[j].sha = shas[j] /\ groups[j].runs = Within(runs, RunsAt(runs, shas[j]))
  BY <1>3
<1>6. ASSUME NEW j \in 1..m
      PROVE  /\ groups[j].runs \in Seq(S)
             /\ \A run : run \in ToSet(groups[j].runs) <=> run \in RunsAt(runs, shas[j])
  <2>1. PICK e : e = groups[j].runs /\ e = Within(runs, RunsAt(runs, shas[j]))
    BY <1>5
  <2>2. e \in Seq(S) /\ \A run : Contains(e, run) <=> Contains(runs, run) /\ run \in RunsAt(runs, shas[j])
    BY <2>1, WithinHas
  <2>3. \A run : (run \in ToSet(e) <=> Contains(e, run)) /\ (run \in ToSet(runs) <=> Contains(runs, run))
    BY <2>2, SetOf DEF Contains
  <2>4. \A run : run \in RunsAt(runs, shas[j]) => run \in ToSet(runs)
    BY DEF RunsAt
  <2> QED BY <2>1, <2>2, <2>3, <2>4
<1>7. \A sha \in Revisions(runs) : \E j \in 1..m : groups[j].sha = sha
  BY <1>1, <1>2, <1>5
<1>8. \A j, k \in 1..m : j < k => /\ groups[j].sha # groups[k].sha
                                 /\ <<groups[j].sha, groups[k].sha>> \in LaterFirst(runs)
  BY <1>2, <1>5
<1>9. \A j \in 1..m : groups[j].sha \in Revisions(runs) /\ groups[j].sha = shas[j]
  BY <1>1, <1>2, <1>5
<1> QED BY <1>2, <1>4, <1>5, <1>6, <1>7, <1>8, <1>9 DEF Grouped, Ranked

\* No run is missing in the groups.
LEMMA GroupsHaveAll ==
    ASSUME NEW S, Dated(S), NEW runs \in Seq(S), NEW groups, groups = testRunsLoaded(runs), NEW run \in ToSet(runs)
    PROVE  \E j \in DOMAIN groups : groups[j].sha = run.revision /\ Contains(groups[j].runs, run)
<1>0. Grouped(groups, runs, S)
  BY GroupsAre
<1>1. run.revision \in Revisions(runs)
  BY DEF Revisions
<1>2. PICK j \in 1..Len(groups) : groups[j].sha = run.revision
  BY <1>1, <1>0 DEF Grouped
<1>3. run \in RunsAt(runs, groups[j].sha)
  BY <1>2 DEF RunsAt
<1>4. groups[j].runs \in Seq(S) /\ run \in ToSet(groups[j].runs)
  BY <1>3, <1>0 DEF Grouped
<1>5. Contains(groups[j].runs, run)
  BY <1>4, SetOf DEF Contains
<1> QED BY <1>2, <1>5, <1>0 DEF Grouped

\* The groups stand in the order of their first runs.
LEMMA GroupsAreOrdered ==
    ASSUME NEW S, Dated(S), NEW runs \in Seq(S), NEW groups, groups = testRunsLoaded(runs), NEW j \in DOMAIN groups
    PROVE  \E run \in ToSet(groups[j].runs) :
              \A k \in (j + 1)..Len(groups) : \E other \in ToSet(groups[k].runs) : other.date <= run.date
<1>0. Grouped(groups, runs, S)
  BY GroupsAre
<1> DEFINE Date(sha) == firstRunDate(RunsAt(runs, sha))
<1>1. /\ Len(groups) \in Nat /\ j \in 1..Len(groups) /\ \A k \in (j + 1)..Len(groups) : k \in 1..Len(groups) /\ j < k
      /\ \A k \in 1..Len(groups) : /\ groups[k].sha \in Revisions(runs)
                                   /\ \A run : run \in ToSet(groups[k].runs) <=> run \in RunsAt(runs, groups[k].sha)
  <2>1. Len(groups) \in Nat /\ j \in 1..Len(groups)
    BY <1>0 DEF Grouped
  <2>2. \A k \in (j + 1)..Len(groups) : k \in 1..Len(groups) /\ j < k
    BY <2>1
  <2> QED BY <1>0, <2>1, <2>2 DEF Grouped
<1>2. \A k \in 1..Len(groups) : /\ Date(groups[k].sha) \in Int
                                /\ \E run \in RunsAt(runs, groups[k].sha) : Date(groups[k].sha) = run.date
  <2>1. \A sha \in Revisions(runs) : /\ Date(sha) \in Int
                                     /\ \E run \in RunsAt(runs, sha) : Date(sha) = run.date
    BY FirstsAre, Zenon
  <2> HIDE DEF Date
  <2> QED BY <1>1, <2>1, Zenon
<1>3. \A k \in (j + 1)..Len(groups) : Date(groups[k].sha) <= Date(groups[j].sha)
  <2> SUFFICES ASSUME NEW k \in (j + 1)..Len(groups) PROVE Date(groups[k].sha) <= Date(groups[j].sha)
    OBVIOUS
  <2>1. <<groups[j].sha, groups[k].sha>> \in LaterFirst(runs)
    BY <1>1, <1>0 DEF Grouped, Ranked
  <2>2. Date(groups[j].sha) > Date(groups[k].sha) \/ Date(groups[j].sha) = Date(groups[k].sha)
    BY <2>1 DEF LaterFirst
  <2> QED BY <1>1, <1>2, <2>2
<1> HIDE DEF Date
<1>4. PICK run \in RunsAt(runs, groups[j].sha) : Date(groups[j].sha) = run.date
  BY <1>1, <1>2
<1>5. ASSUME NEW k \in (j + 1)..Len(groups) PROVE \E other \in ToSet(groups[k].runs) : other.date <= run.date
  <2>1. PICK other \in RunsAt(runs, groups[k].sha) : Date(groups[k].sha) = other.date
    BY <1>1, <1>2
  <2> QED BY <1>1, <1>3, <1>4, <2>1
<1> QED BY <1>1, <1>4, <1>5

LEMMA WithinCounts ==
    ASSUME NEW S, NEW runs \in Seq(S), NEW T
    PROVE  Len(Within(runs, T)) = Cardinality({i \in 1..Len(runs) : runs[i] \in T})
<1>1. PICK I : I = {i \in 1..Len(runs) : runs[i] \in T}
  OBVIOUS
<1>2. I \subseteq 1..Len(runs) /\ \A i \in 1..Len(runs) : i \in I <=> runs[i] \in T
  BY <1>1
<1>3. Within(runs, T) = ElementsAt(runs, I)
  BY <1>2, WithinTakes
<1>4. Cardinality(I) \in Nat /\ Walks(Ascending(I), Cardinality(I), I)
  <2>1. Len(runs) \in Nat
    OBVIOUS
  <2> QED BY <1>2, <2>1, AscendingWalks
<1>5. PICK n : n = Cardinality(I)
  OBVIOUS
<1>6. DOMAIN Ascending(I) = 1..n
  BY <1>4, <1>5 DEF Walks
<1>7. ElementsAt(runs, I) = [k \in 1..n |-> runs[Ascending(I)[k]]]
  BY <1>6 DEF ElementsAt
<1>8. n \in Nat
  BY <1>4, <1>5
<1>9. Len([k \in 1..n |-> runs[Ascending(I)[k]]]) = n
  BY <1>8
<1> QED BY <1>1, <1>3, <1>5, <1>7, <1>9

\* No run is listed twice: the groups have as many as there are.
LEMMA GroupsCount ==
    ASSUME NEW S, Dated(S), NEW runs \in Seq(S), NEW groups, groups = testRunsLoaded(runs)
    PROVE  Len(FlattenSeq([j \in DOMAIN groups |-> groups[j].runs])) = Len(runs)
<1>0. Grouped(groups, runs, S)
  BY GroupsAre
<1>1. PICK m, each : m = Len(groups) /\ each = [j \in 1..m |-> groups[j].runs]
  OBVIOUS
<1>2. m \in Nat /\ DOMAIN groups = 1..m /\ (\A j \in 1..m : each[j] \in Seq(S)) /\ Len(each) = m
  BY <1>1, <1>0 DEF Grouped
<1>3. each \in Seq(Seq(S))
  BY <1>1, <1>2
<1> DEFINE At(k) == {i \in 1..Len(runs) : \E j \in 1..k : runs[i].revision = groups[j].sha}
           Of(j) == {i \in 1..Len(runs) : runs[i].revision = groups[j].sha}
           Counts(k) == Len(PagesTo(each, k)) = Cardinality(At(k))
<1>4. \A k : At(k) \subseteq 1..Len(runs) /\ IsFiniteSet(At(k)) /\ Cardinality(At(k)) \in Nat
  <2>1. Len(runs) \in Nat
    OBVIOUS
  <2> QED BY <2>1, AscendingIs
<1>5. \A j \in 1..m : /\ Len(each[j]) = Cardinality(Of(j)) /\ IsFiniteSet(Of(j))
                      /\ Cardinality(Of(j)) \in Nat
  <2> SUFFICES ASSUME NEW j \in 1..m
               PROVE  Len(each[j]) = Cardinality(Of(j)) /\ IsFiniteSet(Of(j)) /\ Cardinality(Of(j)) \in Nat
    OBVIOUS
  <2>1. each[j] = Within(runs, RunsAt(runs, groups[j].sha))
    BY <1>1, <1>0 DEF Grouped
  <2>2. \A i \in 1..Len(runs) : runs[i] \in RunsAt(runs, groups[j].sha) <=> runs[i].revision = groups[j].sha
    BY SetOf DEF RunsAt
  <2>3. {i \in 1..Len(runs) : runs[i] \in RunsAt(runs, groups[j].sha)} = Of(j)
    BY <2>2
  <2>4. Len(each[j]) = Cardinality(Of(j))
    BY <2>1, <2>3, WithinCounts
  <2>5. Len(runs) \in Nat
    OBVIOUS
  <2> QED BY <2>4, <2>5, AscendingIs
<1>6. Counts(0)
  <2>1. At(0) = {}
    <3>1. 1..0 = {}
      OBVIOUS
    <3> QED BY <3>1
  <2>2. PagesTo(each, 0) = <<>>
    BY <1>3, PagesToIs
  <2>3. Cardinality({}) = 0
    BY FS_EmptySet
  <2> QED BY <2>1, <2>2, <2>3
<1>7. ASSUME NEW k \in 0..(m - 1), Counts(k) PROVE Counts(k + 1)
  <2>1. PagesTo(each, k + 1) = PagesTo(each, k) \o each[k + 1] /\ PagesTo(each, k) \in Seq(S)
    <3>1. k \in 0..Len(each) /\ k \in 0..(Len(each) - 1)
      BY <1>2
    <3> QED BY <1>3, <3>1, PagesToIs
  <2>2. k + 1 \in 1..m /\ each[k + 1] \in Seq(S)
    BY <1>2
  <2>3. Len(PagesTo(each, k + 1)) = Cardinality(At(k)) + Cardinality(Of(k + 1))
    <3>1. Len(PagesTo(each, k) \o each[k + 1]) = Len(PagesTo(each, k)) + Len(each[k + 1])
      BY <2>1, <2>2
    <3> QED BY <1>5, <1>7, <2>1, <2>2, <3>1
  <2>4. At(k + 1) = At(k) \union Of(k + 1)
    <3>1. \A j : j \in 1..(k + 1) <=> j \in 1..k \/ j = k + 1
      OBVIOUS
    <3> QED BY <3>1
  <2>5. At(k) \intersect Of(k + 1) = {}
    <3>1. \A j \in 1..k : j \in 1..m /\ j < k + 1
      BY <1>2
    <3>2. \A i, j \in 1..m : i < j => groups[i].sha # groups[j].sha
      <4>1. \A i, j \in 1..Len(groups) : i < j => groups[i].sha # groups[j].sha
        <5>1. Ranked(groups, runs)
          BY <1>0, Zenon DEF Grouped
        <5> QED BY <5>1, Zenon DEF Ranked
      <4>2. Len(groups) = m
        BY <1>1, Zenon
      <4> QED BY <4>1, <4>2, Zenon
    <3>3. \A j \in 1..k : groups[j].sha # groups[k + 1].sha
      <4> SUFFICES ASSUME NEW j \in 1..k PROVE groups[j].sha # groups[k + 1].sha
        OBVIOUS
      <4>1. j \in 1..m /\ k + 1 \in 1..m /\ j < k + 1
        BY <2>2, <3>1
      <4> QED BY <3>2, <4>1, Zenon
    <3> QED BY <3>3
  <2> HIDE DEF At, Of
  <2>6. Cardinality(At(k + 1)) = Cardinality(At(k)) + Cardinality(Of(k + 1)) - Cardinality({})
    BY <1>4, <1>5, <2>2, <2>4, <2>5, FS_Union
  <2>7. Cardinality({}) = 0
    BY FS_EmptySet
  <2> QED BY <1>4, <1>5, <2>2, <2>3, <2>6, <2>7
<1>8. Counts(m)
  <2> HIDE DEF Counts
  <2>1. PICK A : A = {k \in 0..m : Counts(k)}
    OBVIOUS
  <2>2. 0 \in A /\ \A k \in 0..(m - 1) : k \in A => k + 1 \in A
    BY <1>2, <1>6, <1>7, <2>1
  <2>3. m \in A
    <3>1. \A k \in 0..m : k \in A
      BY <1>2, <2>2, StepByStep
    <3> QED BY <1>2, <3>1
  <2> QED BY <2>1, <2>3
<1>9. Cardinality(At(m)) = Len(runs)
  <2>1. \A i \in 1..Len(runs) : runs[i].revision \in Revisions(runs)
    BY SetOf DEF Revisions
  <2>2. \A i \in 1..Len(runs) : \E j \in 1..m : runs[i].revision = groups[j].sha
    BY <1>1, <2>1, <1>0 DEF Grouped
  <2>3. At(m) = 1..Len(runs)
    BY <2>2
  <2>4. Len(runs) \in Nat
    OBVIOUS
  <2>5. Cardinality(1..Len(runs)) = Len(runs)
    <3>1. PICK n : n = Len(runs) /\ n \in Nat
      BY <2>4
    <3>2. 1 \in Int /\ n \in Int
      BY <3>1
    <3>3. Cardinality(1..n) = IF 1 > n THEN 0 ELSE n - 1 + 1
      BY <3>2, FS_Interval, Zenon
    <3>4. Cardinality(1..n) = n
      BY <3>1, <3>3
    <3> QED BY <3>1, <3>4, Zenon
  <2> QED BY <2>3, <2>5
<1>10. PagesTo(each, m) = FlattenSeq(each)
  <2>1. SubSeq(each, 1, m) = each
    BY <1>2, <1>3
  <2> QED BY <2>1 DEF PagesTo
<1> QED BY <1>1, <1>2, <1>8, <1>9, <1>10

-------------------------------------------------------------------------------
(* List of runs: only runs of the query are listed, and the banners are true        *)

\* The runs of a query, on whatever page.
RunsOf(query) == UNION {ToSet(PagesOf(query)[k]) : k \in DOMAIN PagesOf(query)}

\* wpt-runs: unless requests of two queries were in flight at once, only runs of the page's
\* query are listed.
ListedRunsAreAsked ==
    "mixed" \notin excused =>
        \A i \in DOMAIN runsPage.testRuns : runsPage.testRuns[i] \in RunsOf(runsPage.query)

\* wpt-runs: with no request in flight, "no results" is said of an empty list, and a failure
\* only if something failed and beside no list.
BannersAreTrue ==
    runLoads = {} =>
        /\ runsPage.noResults = (runsPage.grouped /\ runsPage.testRunsBySHA = <<>>)
        /\ runsPage.loadingFailed => "failed" \in excused /\ runsPage.testRuns = <<>> /\ ~ runsPage.noResults

RunsShape(p) ==
    p = [query |-> p.query, testRuns |-> p.testRuns, testRunsBySHA |-> p.testRunsBySHA, grouped |-> p.grouped,
         nextPageToken |-> p.nextPageToken, loadingFailed |-> p.loadingFailed, noResults |-> p.noResults,
         armed |-> p.armed]

IsList(s) == \E S : s \in Seq(S)

\* A page that lists runs of its query, when only requests of it were sent.
PageOf(p, why) ==
    /\ RunsShape(p)
    /\ p.query \in RunQueries
    /\ IsList(p.testRuns)
    /\ p.testRuns # <<>> => p.grouped
    /\ p.nextPageToken # NoPage => p.nextPageToken.query \in RunQueries
    /\ "mixed" \notin why => /\ p.testRuns \in Seq(RunsOf(p.query))
                             /\ p.nextPageToken # NoPage => p.nextPageToken.query = p.query

LoadsInv ==
    \A l \in runLoads : /\ l.query \in RunQueries
                        /\ "mixed" \notin excused => l.query = runsPage.query

\* The list has been grouped, or the request of ready() is in flight or has failed.
GroupedInv == runsPage.grouped \/ (\E l \in runLoads : l.kind = "ready") \/ "failed" \in excused

EndedInv ==
    runLoads = {} =>
        /\ runsPage.noResults = (runsPage.grouped /\ runsPage.testRunsBySHA = <<>>)
        /\ runsPage.loadingFailed = ~ runsPage.grouped

RunListInv == PageOf(runsPage, excused) /\ LoadsInv /\ GroupedInv /\ EndedInv

LEMMA EmptyIsList == IsList(<<>>)
<1>1. <<>> \in Seq({})
  OBVIOUS
<1> QED BY <1>1 DEF IsList

LEMMA PageIsRuns ==
    ASSUME NEW l, l.query \in RunQueries
    PROVE  RunsOn(l) \in Seq(RunsOf(l.query))
<1>1. PICK pages : pages = PagesOf(l.query)
  OBVIOUS
<1>2. pages \in Seq(Seq(RunsOf(l.query)))
  BY <1>1, PagesAssumption DEF RunsOf
<1>3. RunsOn(l) = IF l.page \in DOMAIN pages THEN pages[l.page] ELSE <<>>
  BY <1>1 DEF RunsOn
<1>4. PICK T : T = Seq(RunsOf(l.query))
  OBVIOUS
<1>5. \A k \in DOMAIN pages : pages[k] \in T
  BY <1>2, <1>4
<1>6. <<>> \in T
  BY <1>4
<1> QED BY <1>3, <1>4, <1>5, <1>6

LEMMA InsertedRuns ==
    ASSUME NEW S, NEW runs \in Seq(S), NEW more \in Seq(S), NEW at,
           at = IF runs = <<>> THEN 0 ELSE Len(runs) - 1
    PROVE  SubSeq(runs, 1, at) \o more \o SubSeq(runs, at + 1, Len(runs)) \in Seq(S)
<1>1. at \in 0 .. Len(runs)
  OBVIOUS
<1>2. SubSeq(runs, 1, at) \in Seq(S) /\ SubSeq(runs, at + 1, Len(runs)) \in Seq(S)
  BY <1>1
<1> QED BY <1>2

LEMMA EndKeepsList ==
    ASSUME RunListInv, NEW l \in runLoads, NEW p, EndLoad(l, p),
           PageOf(p, excused), p.query = runsPage.query,
           excused' = excused \/ excused' = excused \union {"failed"},
           p.grouped \/ "failed" \in excused'
    PROVE  RunListInv'
<1>1. runLoads' = runLoads \ {l}
  BY DEF EndLoad
<1>2. runsPage' = IF runLoads' # {} THEN p
                  ELSE [p EXCEPT !.loadingFailed = ~ p.grouped,
                                 !.noResults = p.grouped /\ p.testRunsBySHA = <<>>]
  BY DEF EndLoad
<1>3. /\ RunsShape(runsPage')
      /\ runsPage'.query = p.query /\ runsPage'.testRuns = p.testRuns
      /\ runsPage'.testRunsBySHA = p.testRunsBySHA
      /\ runsPage'.grouped = p.grouped /\ runsPage'.nextPageToken = p.nextPageToken
  BY <1>2 DEF PageOf, RunsShape
<1>4. PageOf(runsPage', excused')
  BY <1>3 DEF PageOf
<1>5. LoadsInv'
  BY <1>1, <1>3 DEF RunListInv, LoadsInv
<1>6. GroupedInv'
  BY <1>1, <1>3 DEF RunListInv, GroupedInv
<1>7. EndedInv'
  <2>1. SUFFICES ASSUME runLoads' = {}
                 PROVE  /\ runsPage'.noResults = (p.grouped /\ p.testRunsBySHA = <<>>)
                        /\ runsPage'.loadingFailed = ~ p.grouped
    BY <1>3 DEF EndedInv
  <2>2. runsPage' = [p EXCEPT !.loadingFailed = ~ p.grouped,
                              !.noResults = p.grouped /\ p.testRunsBySHA = <<>>]
    BY <1>2, <2>1
  <2> QED BY <2>2 DEF PageOf, RunsShape
<1> QED BY <1>4, <1>5, <1>6, <1>7 DEF RunListInv

\* A page with other runs, grouped.
LEMMA WithRunsIsPage ==
    ASSUME NEW p, NEW why, PageOf(p, why), NEW runs, IsList(runs),
           "mixed" \notin why => runs \in Seq(RunsOf(p.query))
    PROVE  PageOf(WithRuns(p, runs), why) /\ WithRuns(p, runs).query = p.query /\ WithRuns(p, runs).grouped
<1>1. PICK n : n = WithRuns(p, runs)
  OBVIOUS
<1>2. /\ RunsShape(n) /\ n.query = p.query /\ n.testRuns = runs /\ n.grouped = TRUE
      /\ n.nextPageToken = p.nextPageToken
  BY <1>1 DEF PageOf, RunsShape, WithRuns
<1> QED BY <1>1, <1>2 DEF PageOf

\* A page with another token.
LEMMA TokenIsPage ==
    ASSUME NEW q, NEW why, PageOf(q, why), NEW p, RunsShape(p),
           p.query = q.query, p.testRuns = q.testRuns, p.grouped = q.grouped,
           p.nextPageToken # NoPage => /\ p.nextPageToken.query \in RunQueries
                                       /\ "mixed" \notin why => p.nextPageToken.query = q.query
    PROVE  PageOf(p, why)
BY DEF PageOf

LEMMA RunsArriveKeeps ==
    ASSUME RunListInv, NEW l \in runLoads, RunsArrive(l)
    PROVE  RunListInv'
<1>1. PICK q : q = WithRuns(runsPage, RunsOn(l))
  OBVIOUS
<1>2. PICK token, armed : token = NextPage(l.query, 1) /\ armed = (q.armed \/ l.kind = "ready")
  OBVIOUS
<1>3. PICK p : p = [q EXCEPT !.nextPageToken = token, !.armed = armed]
  OBVIOUS
<1>4. EndLoad(l, p) /\ excused' = excused
  BY <1>1, <1>2, <1>3 DEF RunsArrive
<1>5. l.query \in RunQueries /\ ("mixed" \notin excused => l.query = runsPage.query)
  BY DEF RunListInv, LoadsInv
<1>6. RunsOn(l) \in Seq(RunsOf(l.query)) /\ IsList(RunsOn(l))
  BY <1>5, PageIsRuns DEF IsList
<1>7. PageOf(q, excused) /\ q.query = runsPage.query /\ q.grouped
  BY <1>1, <1>5, <1>6, WithRunsIsPage DEF RunListInv
<1>8. token # NoPage => token.query \in RunQueries /\ ("mixed" \notin excused => token.query = q.query)
  BY <1>2, <1>5, <1>7 DEF NextPage
<1>9. PageOf(p, excused) /\ p.query = runsPage.query /\ p.grouped
  <2>1. /\ RunsShape(p) /\ p.query = q.query /\ p.testRuns = q.testRuns /\ p.grouped = q.grouped
        /\ p.nextPageToken = token
    BY <1>3, <1>7 DEF PageOf, RunsShape
  <2> QED BY <1>7, <1>8, <2>1, TokenIsPage
<1> QED BY <1>4, <1>9, EndKeepsList

LEMMA RunsRefusedKeeps ==
    ASSUME RunListInv, NEW l \in runLoads, RunsRefused(l)
    PROVE  RunListInv'
<1>1. PICK q : q = WithRuns(runsPage, <<>>)
  OBVIOUS
<1>2. PICK armed : armed = (q.armed \/ l.kind = "ready")
  OBVIOUS
<1>3. PICK p : p = [q EXCEPT !.armed = armed]
  OBVIOUS
<1>4. EndLoad(l, p) /\ excused' = excused \union {"failed"}
  BY <1>1, <1>2, <1>3 DEF RunsRefused
<1>5. IsList(<<>>) /\ <<>> \in Seq(RunsOf(runsPage.query))
  BY EmptyIsList
<1>6. PageOf(q, excused) /\ q.query = runsPage.query /\ q.grouped
  BY <1>1, <1>5, WithRunsIsPage DEF RunListInv
<1>7. /\ RunsShape(p) /\ p.query = q.query /\ p.testRuns = q.testRuns /\ p.grouped = q.grouped
      /\ p.nextPageToken = q.nextPageToken
  BY <1>3, <1>6 DEF PageOf, RunsShape
<1>8. PageOf(p, excused) /\ p.query = runsPage.query /\ p.grouped
  BY <1>6, <1>7 DEF PageOf
<1> QED BY <1>4, <1>8, EndKeepsList

LEMMA RunsFailKeeps ==
    ASSUME RunListInv, NEW l \in runLoads, RunsFail(l)
    PROVE  RunListInv'
<1>1. EndLoad(l, runsPage) /\ excused' = excused \union {"failed"}
  BY DEF RunsFail
<1> QED BY <1>1, EndKeepsList DEF RunListInv

LEMMA MoreRunsArriveKeeps ==
    ASSUME RunListInv, NEW l \in runLoads, MoreRunsArrive(l)
    PROVE  RunListInv'
<1>1. PICK runs : runs = runsPage.testRuns
  OBVIOUS
<1>2. PICK at : at = IF runs = <<>> THEN 0 ELSE Len(runs) - 1
  OBVIOUS
<1>3. PICK all : all = SubSeq(runs, 1, at) \o RunsOn(l) \o SubSeq(runs, at + 1, Len(runs))
  OBVIOUS
<1>4. PICK q : q = WithRuns(runsPage, all)
  OBVIOUS
<1>5. PICK token, armed : token = NextPage(l.query, l.page) /\ armed = (q.armed \/ RunsOn(l) # <<>>)
  OBVIOUS
<1>6. PICK p : p = [q EXCEPT !.nextPageToken = token, !.armed = armed]
  OBVIOUS
<1>7. EndLoad(l, p) /\ excused' = excused
  BY <1>1, <1>2, <1>3, <1>4, <1>5, <1>6 DEF MoreRunsArrive
<1>8. l.query \in RunQueries /\ ("mixed" \notin excused => l.query = runsPage.query)
  BY DEF RunListInv, LoadsInv
<1>9. RunsOn(l) \in Seq(RunsOf(l.query))
  BY <1>8, PageIsRuns
<1>10. PICK S : runs \in Seq(S)
  BY <1>1 DEF RunListInv, PageOf, IsList
<1>11. runs \in Seq(S \union RunsOf(l.query)) /\ RunsOn(l) \in Seq(S \union RunsOf(l.query))
  BY <1>9, <1>10
<1>12. IsList(all)
  <2>1. all \in Seq(S \union RunsOf(l.query))
    BY <1>2, <1>3, <1>11, InsertedRuns
  <2> QED BY <2>1 DEF IsList
<1>13. ASSUME "mixed" \notin excused PROVE all \in Seq(RunsOf(runsPage.query))
  <2>1. runs \in Seq(RunsOf(runsPage.query)) /\ RunsOn(l) \in Seq(RunsOf(runsPage.query))
    BY <1>1, <1>8, <1>9, <1>13 DEF RunListInv, PageOf
  <2> QED BY <1>2, <1>3, <2>1, InsertedRuns
<1>14. PageOf(q, excused) /\ q.query = runsPage.query /\ q.grouped
  BY <1>4, <1>12, <1>13, WithRunsIsPage DEF RunListInv
<1>15. token # NoPage => token.query \in RunQueries /\ ("mixed" \notin excused => token.query = q.query)
  BY <1>5, <1>8, <1>14 DEF NextPage
<1>16. PageOf(p, excused) /\ p.query = runsPage.query /\ p.grouped
  <2>1. /\ RunsShape(p) /\ p.query = q.query /\ p.testRuns = q.testRuns /\ p.grouped = q.grouped
        /\ p.nextPageToken = token
    BY <1>6, <1>14 DEF PageOf, RunsShape
  <2> QED BY <1>14, <1>15, <2>1, TokenIsPage
<1> QED BY <1>7, <1>16, EndKeepsList

LEMMA LoadNextKeeps ==
    ASSUME RunListInv, handleLoadNextPage
    PROVE  RunListInv'
<1>1. PICK token : token = runsPage.nextPageToken
  OBVIOUS
<1>2. PICK l : l = LoadRuns(token.query, "more", token.page)
  OBVIOUS
<1>3. /\ runsPage' = [runsPage EXCEPT !.armed = FALSE, !.nextPageToken = NoPage]
      /\ runLoads' = IF token = NoPage THEN runLoads ELSE runLoads \union {l}
      /\ excused' = excused
  BY <1>1, <1>2 DEF handleLoadNextPage
<1>4. /\ RunsShape(runsPage') /\ runsPage'.query = runsPage.query /\ runsPage'.testRuns = runsPage.testRuns
      /\ runsPage'.testRunsBySHA = runsPage.testRunsBySHA /\ runsPage'.grouped = runsPage.grouped
      /\ runsPage'.nextPageToken = NoPage /\ runsPage'.noResults = runsPage.noResults
      /\ runsPage'.loadingFailed = runsPage.loadingFailed
  BY <1>3 DEF RunListInv, PageOf, RunsShape
<1>5. PageOf(runsPage', excused')
  BY <1>3, <1>4 DEF RunListInv, PageOf
<1>6. l.query = token.query /\ l.kind = "more"
  BY <1>2 DEF LoadRuns
<1>7. token # NoPage => /\ token.query \in RunQueries
                        /\ "mixed" \notin excused => token.query = runsPage.query
  BY <1>1 DEF RunListInv, PageOf
<1>8. LoadsInv'
  <2>1. ASSUME NEW m \in runLoads' PROVE m \in runLoads \/ (m = l /\ token # NoPage)
    BY <1>3, <2>1
  <2>2. ASSUME NEW m \in runLoads'
        PROVE  m.query \in RunQueries /\ ("mixed" \notin excused => m.query = runsPage.query)
    BY <1>6, <1>7, <2>1, <2>2 DEF RunListInv, LoadsInv
  <2> QED BY <1>3, <1>4, <2>2 DEF LoadsInv
<1>9. GroupedInv'
  BY <1>3, <1>4 DEF RunListInv, GroupedInv
<1>10. EndedInv'
  BY <1>3, <1>4 DEF RunListInv, EndedInv
<1> QED BY <1>5, <1>8, <1>9, <1>10 DEF RunListInv

LEMMA SubmitKeepsList ==
    ASSUME RunListInv, NEW query \in RunQueries, handleSubmitQuery(query)
    PROVE  RunListInv'
<1>1. CASE query = runsPage.query
  <2>1. /\ runsPage' = [runsPage EXCEPT !.nextPageToken = NoPage]
        /\ runLoads' = runLoads /\ excused' = excused \union {"token"}
    BY <1>1 DEF handleSubmitQuery
  <2>2. /\ RunsShape(runsPage') /\ runsPage'.query = runsPage.query /\ runsPage'.testRuns = runsPage.testRuns
        /\ runsPage'.testRunsBySHA = runsPage.testRunsBySHA /\ runsPage'.grouped = runsPage.grouped
        /\ runsPage'.nextPageToken = NoPage /\ runsPage'.noResults = runsPage.noResults
        /\ runsPage'.loadingFailed = runsPage.loadingFailed
    BY <2>1 DEF RunListInv, PageOf, RunsShape
  <2>3. PageOf(runsPage', excused')
    BY <2>1, <2>2 DEF RunListInv, PageOf
  <2> QED BY <2>1, <2>2, <2>3 DEF RunListInv, LoadsInv, GroupedInv, EndedInv
<1>2. CASE query # runsPage.query
  <2>1. PICK l : l = LoadRuns(query, "submit", 1)
    OBVIOUS
  <2>2. PICK q : q = WithRuns(runsPage, <<>>)
    OBVIOUS
  <2>3. /\ runsPage' = [q EXCEPT !.query = query, !.nextPageToken = NoPage]
        /\ runLoads' = runLoads \union {l}
        /\ runLoads # {} => "mixed" \in excused'
    BY <1>2, <2>1, <2>2 DEF handleSubmitQuery
  <2>4. l.query = query
    BY <2>1 DEF LoadRuns
  <2>5. RunsShape(q) /\ q.testRuns = <<>> /\ q.grouped = TRUE
    BY <2>2 DEF RunListInv, PageOf, RunsShape, WithRuns
  <2>6. /\ RunsShape(runsPage') /\ runsPage'.query = query /\ runsPage'.testRuns = <<>>
        /\ runsPage'.grouped = TRUE /\ runsPage'.nextPageToken = NoPage
    BY <2>3, <2>5 DEF RunsShape
  <2>7. IsList(<<>>) /\ <<>> \in Seq(RunsOf(query))
    BY EmptyIsList
  <2>8. PageOf(runsPage', excused')
    BY <2>6, <2>7 DEF PageOf
  <2>9. LoadsInv'
    BY <2>3, <2>4, <2>6 DEF RunListInv, LoadsInv
  <2> QED BY <2>3, <2>6, <2>8, <2>9 DEF RunListInv, GroupedInv, EndedInv
<1> QED BY <1>1, <1>2

LEMMA RunsInitKeeps == RunsInit => RunListInv
<1>1. SUFFICES ASSUME RunsInit PROVE RunListInv
  OBVIOUS
<1>2. PICK query \in RunQueries :
        /\ runsPage = [query |-> query, testRuns |-> <<>>, testRunsBySHA |-> <<>>, grouped |-> FALSE,
                       nextPageToken |-> NoPage, loadingFailed |-> FALSE, noResults |-> FALSE, armed |-> TRUE]
        /\ runLoads = {[kind |-> "ready", query |-> query, page |-> 1, id |-> 1]}
        /\ excused = {}
  BY <1>1 DEF RunsInit
<1>3. IsList(<<>>) /\ <<>> \in Seq(RunsOf(query))
  BY EmptyIsList
<1>4. RunsShape(runsPage) /\ runsPage.query = query /\ runsPage.testRuns = <<>> /\ runsPage.nextPageToken = NoPage
  BY <1>2 DEF RunsShape
<1>5. PageOf(runsPage, excused)
  BY <1>3, <1>4 DEF PageOf
<1>6. PICK l : l = [kind |-> "ready", query |-> query, page |-> 1, id |-> 1]
  OBVIOUS
<1>7. l.kind = "ready" /\ l.query = query /\ runLoads = {l}
  BY <1>2, <1>6
<1>8. LoadsInv /\ GroupedInv /\ EndedInv
  BY <1>2, <1>4, <1>7 DEF LoadsInv, GroupedInv, EndedInv
<1> QED BY <1>5, <1>8 DEF RunListInv

LEMMA RunsNextKeeps == RunListInv /\ [RunsNext]_runsVars => RunListInv'
<1> SUFFICES ASSUME RunListInv, [RunsNext]_runsVars PROVE RunListInv'
  OBVIOUS
<1>1. ASSUME NEW l \in runLoads, RunsArrive(l) \/ RunsRefused(l) \/ RunsFail(l) \/ MoreRunsArrive(l)
      PROVE  RunListInv'
  BY <1>1, RunsArriveKeeps, RunsRefusedKeeps, RunsFailKeeps, MoreRunsArriveKeeps
<1>2. CASE handleLoadNextPage
  BY <1>2, LoadNextKeeps
<1>3. ASSUME NEW query \in RunQueries, handleSubmitQuery(query) PROVE RunListInv'
  BY <1>3, SubmitKeepsList
<1>4. CASE UNCHANGED runsVars
  BY <1>4 DEF RunListInv, LoadsInv, GroupedInv, EndedInv, runsVars
<1> QED BY <1>1, <1>2, <1>3, <1>4 DEF RunsNext

\* wpt-runs: however pages of runs, submitted queries and the scrolling interleave, no run
\* of another query stands in the list, as long as the requests of two queries never overlap.
THEOREM RunsAreAsked == RunsSpec => []ListedRunsAreAsked
<1>1. RunListInv => ListedRunsAreAsked
  <2> SUFFICES ASSUME RunListInv, "mixed" \notin excused, NEW i \in DOMAIN runsPage.testRuns
               PROVE  runsPage.testRuns[i] \in RunsOf(runsPage.query)
    BY DEF ListedRunsAreAsked
  <2>1. PICK S : S = RunsOf(runsPage.query)
    OBVIOUS
  <2>2. runsPage.testRuns \in Seq(S)
    BY <2>1 DEF RunListInv, PageOf
  <2> QED BY <2>1, <2>2
<1>2. QED
  BY <1>1, RunsInitKeeps, RunsNextKeeps, PTL DEF RunsSpec

\* wpt-runs: whatever requests overlapped or failed, once all have ended the page tells an
\* empty list from a failure.
THEOREM BannersTellWhy == RunsSpec => []BannersAreTrue
<1>1. RunListInv => BannersAreTrue
  BY DEF RunListInv, PageOf, GroupedInv, EndedInv, BannersAreTrue
<1>2. QED
  BY <1>1, RunsInitKeeps, RunsNextKeeps, PTL DEF RunsSpec

-------------------------------------------------------------------------------
(* List of runs: it has the first pages of the query's runs *)

\* The page lists the runs of the first k pages, grouped.
Lists(p, k) ==
    /\ k \in 0..Len(PagesOf(p.query))
    /\ Len(p.testRuns) = Len(PagesTo(PagesOf(p.query), k))
    /\ ToSet(p.testRuns) = ToSet(PagesTo(PagesOf(p.query), k))
    /\ p.testRunsBySHA = testRunsLoaded(p.testRuns)
    /\ p.nextPageToken # NoPage => p.nextPageToken = NextPage(p.query, k)

\* A request is for the first page of an empty list, or for the page after the first k, and
\* is not sent again.
Awaits(p, k, l, why) ==
    /\ p.nextPageToken = NoPage
    /\ IF l.kind = "more"
       THEN l.page = k + 1 /\ k < Len(PagesOf(p.query)) /\ ~ p.armed
       ELSE /\ l.page = 1 /\ p.testRuns = <<>>
            /\ l.kind = "ready" \/ (why = {} => p.armed)

\* The next page can be had.
GoesOn(p, k) ==
    /\ PagesOf(p.query) # <<>> => k > 0
    /\ p.nextPageToken = NextPage(p.query, k)
    /\ k < Len(PagesOf(p.query)) => p.armed

FirstPagesInv ==
    "mixed" \notin excused =>
        /\ \A l, m \in runLoads : l = m
        /\ \E k \in Nat : /\ Lists(runsPage, k)
                          /\ \A l \in runLoads : Awaits(runsPage, k, l, excused)
                          /\ runLoads = {} /\ excused = {} => GoesOn(runsPage, k)

LEMMA PagesAre ==
    ASSUME NEW query \in RunQueries
    PROVE  /\ PagesOf(query) \in Seq(Seq(RunsOf(query))) /\ Dated(RunsOf(query))
           /\ \A k \in 1..(Len(PagesOf(query)) - 1) : PagesOf(query)[k] # <<>>
BY PagesAssumption DEF RunsOf, Dated

LEMMA ConcatHas ==
    ASSUME NEW S, NEW s \in Seq(S), NEW t \in Seq(S)
    PROVE  s \o t \in Seq(S) /\ Len(s \o t) = Len(s) + Len(t) /\ ToSet(s \o t) = ToSet(s) \union ToSet(t)
<1>1. PICK u : u = s \o t
  OBVIOUS
<1>2. u \in Seq(S) /\ Len(u) = Len(s) + Len(t)
  BY <1>1
<1>3. (\A i \in 1..Len(s) : u[i] = s[i]) /\ \A i \in 1..Len(t) : u[Len(s) + i] = t[i]
  BY <1>1
<1>4. \A x : x \in ToSet(u) <=> x \in ToSet(s) \/ x \in ToSet(t)
  <2>1. ASSUME NEW i \in 1..Len(u)
        PROVE  (\E j \in 1..Len(s) : s[j] = u[i]) \/ \E j \in 1..Len(t) : t[j] = u[i]
    <3>1. CASE i <= Len(s)
      BY <1>3, <3>1
    <3>2. CASE ~ (i <= Len(s))
      <4>1. i - Len(s) \in 1..Len(t) /\ Len(s) + (i - Len(s)) = i
        BY <1>2, <3>2
      <4> QED BY <1>3, <4>1
    <3> QED BY <3>1, <3>2
  <2>2. \A i \in 1..Len(s) : i \in 1..Len(u)
    BY <1>2
  <2>3. \A i \in 1..Len(t) : Len(s) + i \in 1..Len(u)
    BY <1>2
  <2>4. \A x : (x \in ToSet(u) <=> \E i \in 1..Len(u) : u[i] = x)
    BY <1>2, SetOf
  <2>5. \A x : (x \in ToSet(s) <=> \E i \in 1..Len(s) : s[i] = x) /\ (x \in ToSet(t) <=> \E i \in 1..Len(t) : t[i] = x)
    BY SetOf
  <2>6. ASSUME NEW x \in ToSet(u) PROVE x \in ToSet(s) \/ x \in ToSet(t)
    BY <2>1, <2>4, <2>5
  <2>7. ASSUME NEW x \in ToSet(s) PROVE x \in ToSet(u)
    BY <1>3, <2>2, <2>4, <2>5
  <2>8. ASSUME NEW x \in ToSet(t) PROVE x \in ToSet(u)
    BY <1>3, <2>3, <2>4, <2>5
  <2> QED BY <2>6, <2>7, <2>8
<1> QED BY <1>1, <1>2, <1>4

LEMMA ConcatAt ==
    ASSUME NEW S, NEW s \in Seq(S), NEW t \in Seq(S), NEW u, u = s \o t
    PROVE  /\ u \in Seq(S) /\ Len(u) = Len(s) + Len(t)
           /\ \A i \in 1..Len(s) : u[i] = s[i]
           /\ \A i \in 1..Len(t) : u[Len(s) + i] = t[i]
OBVIOUS

LEMMA SplitIs ==
    ASSUME NEW S, NEW runs \in Seq(S), NEW at \in 0..Len(runs)
    PROVE  /\ SubSeq(runs, 1, at) \in Seq(S) /\ SubSeq(runs, at + 1, Len(runs)) \in Seq(S)
           /\ SubSeq(runs, 1, at) \o SubSeq(runs, at + 1, Len(runs)) = runs
<1>1. PICK n : n = Len(runs)
  OBVIOUS
<1>2. n \in Nat /\ at \in 0..n
  BY <1>1
<1>3. PICK before, after : before = SubSeq(runs, 1, at) /\ after = SubSeq(runs, at + 1, Len(runs))
  OBVIOUS
<1>4. before \in Seq(S) /\ Len(before) = at /\ \A i \in 1..at : before[i] = runs[i]
  BY <1>3
<1>5. after \in Seq(S) /\ Len(after) = n - at /\ \A i \in 1..(n - at) : after[i] = runs[at + i]
  BY <1>1, <1>3
<1>6. PICK u : u = before \o after
  OBVIOUS
<1>7. /\ u \in Seq(S) /\ Len(u) = Len(before) + Len(after)
      /\ \A i \in 1..Len(before) : u[i] = before[i]
      /\ \A i \in 1..Len(after) : u[Len(before) + i] = after[i]
  <2>1. before \in Seq(S) /\ after \in Seq(S)
    BY <1>4, <1>5, Zenon
  <2> QED BY <1>6, <2>1, ConcatAt
<1>8. Len(u) = n
  BY <1>2, <1>4, <1>5, <1>7
<1>9. ASSUME NEW i \in 1..n PROVE u[i] = runs[i]
  <2>1. CASE i <= at
    BY <1>2, <1>4, <1>7, <2>1
  <2>2. CASE ~ (i <= at)
    <3>1. i - at \in 1..(n - at) /\ at + (i - at) = i
      BY <1>2, <2>2
    <3>2. u[i] = after[i - at]
      BY <1>4, <1>5, <1>7, <3>1
    <3> QED BY <1>5, <3>1, <3>2
  <2> QED BY <2>1, <2>2
<1>10. u = runs
  BY <1>1, <1>7, <1>8, <1>9
<1> QED BY <1>3, <1>4, <1>5, <1>6, <1>10

LEMMA BetweenHas ==
    ASSUME NEW S, NEW before \in Seq(S), NEW more \in Seq(S), NEW after \in Seq(S)
    PROVE  /\ Len(before \o more \o after) = Len(before \o after) + Len(more)
           /\ ToSet(before \o more \o after) = ToSet(before \o after) \union ToSet(more)
<1>1. Len(before \o after) = Len(before) + Len(after) /\ ToSet(before \o after) = ToSet(before) \union ToSet(after)
  BY ConcatHas
<1>2. PICK front : front = before \o more
  OBVIOUS
<1>3. front \in Seq(S) /\ Len(front) = Len(before) + Len(more) /\ ToSet(front) = ToSet(before) \union ToSet(more)
  BY <1>2, ConcatHas
<1>4. Len(front \o after) = Len(front) + Len(after) /\ ToSet(front \o after) = ToSet(front) \union ToSet(after)
  <2>1. front \in Seq(S)
    BY <1>3
  <2> QED BY <2>1, ConcatHas
<1>5. Len(before) \in Nat /\ Len(more) \in Nat /\ Len(after) \in Nat
  OBVIOUS
<1>6. PICK b, m, a : b = Len(before) /\ m = Len(more) /\ a = Len(after)
  OBVIOUS
<1>7. (b + m) + a = (b + a) + m
  BY <1>5, <1>6
<1>8. Len(front \o after) = Len(before \o after) + Len(more)
  BY <1>1, <1>3, <1>4, <1>6, <1>7, Zenon
<1>9. ToSet(front \o after) = ToSet(before \o after) \union ToSet(more)
  BY <1>1, <1>3, <1>4, Zenon
<1> QED BY <1>2, <1>8, <1>9, Zenon

Inserted(runs, at, more) == SubSeq(runs, 1, at) \o more \o SubSeq(runs, at + 1, Len(runs))

LEMMA InsertedHas ==
    ASSUME NEW S, NEW runs \in Seq(S), NEW more \in Seq(S), NEW at \in 0..Len(runs)
    PROVE  /\ Len(Inserted(runs, at, more)) = Len(runs) + Len(more)
           /\ ToSet(Inserted(runs, at, more)) = ToSet(runs) \union ToSet(more)
<1>1. PICK before, after : before = SubSeq(runs, 1, at) /\ after = SubSeq(runs, at + 1, Len(runs))
  OBVIOUS
<1>2. before \in Seq(S) /\ after \in Seq(S) /\ before \o after = runs
  BY <1>1, SplitIs
<1>3. /\ Len(before \o more \o after) = Len(before \o after) + Len(more)
      /\ ToSet(before \o more \o after) = ToSet(before \o after) \union ToSet(more)
  <2>1. before \in Seq(S) /\ after \in Seq(S)
    BY <1>2, Zenon
  <2> QED BY <2>1, BetweenHas
<1> QED BY <1>1, <1>2, <1>3, Zenon DEF Inserted

\* An empty list has no pages, or none that was loaded.
LEMMA EmptyLists ==
    ASSUME NEW p, p.query \in RunQueries, p.testRuns = <<>>, p.testRunsBySHA = testRunsLoaded(<<>>), p.nextPageToken = NoPage
    PROVE  Lists(p, 0)
<1>1. PICK pages : pages = PagesOf(p.query) /\ pages \in Seq(Seq(RunsOf(p.query)))
  BY PagesAre
<1>2. PagesTo(pages, 0) = <<>> /\ 0 \in 0..Len(pages)
  BY <1>1, PagesToIs
<1> QED BY <1>1, <1>2 DEF Lists

\* The list has one page more.
LEMMA ListsMore ==
    ASSUME NEW p, p.query \in RunQueries, NEW k, Lists(p, k), NEW more, NEW n, n.query = p.query,
           k < Len(PagesOf(p.query)), more = PagesOf(p.query)[k + 1],
           Len(n.testRuns) = Len(p.testRuns) + Len(more), ToSet(n.testRuns) = ToSet(p.testRuns) \union ToSet(more),
           n.testRunsBySHA = testRunsLoaded(n.testRuns),
           n.nextPageToken = NextPage(p.query, k + 1)
    PROVE  Lists(n, k + 1)
<1>1. PICK pages, S : pages = PagesOf(p.query) /\ S = RunsOf(p.query)
  OBVIOUS
<1>2. pages \in Seq(Seq(S))
  BY <1>1, PagesAre
<1>3. k \in 0..Len(pages) /\ k < Len(pages)
  BY <1>1 DEF Lists
<1>4. k \in 0..(Len(pages) - 1) /\ k + 1 \in 0..Len(pages) /\ k + 1 \in 1..Len(pages)
  BY <1>2, <1>3
<1>5. PagesTo(pages, k + 1) = PagesTo(pages, k) \o more /\ PagesTo(pages, k) \in Seq(S)
  BY <1>1, <1>2, <1>3, <1>4, PagesToIs
<1>6. more \in Seq(S)
  <2>1. PICK T : T = Seq(S)
    OBVIOUS
  <2>2. pages[k + 1] \in T
    BY <1>2, <1>4, <2>1
  <2> QED BY <1>1, <2>1, <2>2
<1>7. /\ Len(PagesTo(pages, k + 1)) = Len(PagesTo(pages, k)) + Len(more)
      /\ ToSet(PagesTo(pages, k + 1)) = ToSet(PagesTo(pages, k)) \union ToSet(more)
  <2>1. PICK first : first = PagesTo(pages, k)
    OBVIOUS
  <2>2. first \in Seq(S)
    BY <1>5, <2>1, Zenon
  <2>3. Len(first \o more) = Len(first) + Len(more) /\ ToSet(first \o more) = ToSet(first) \union ToSet(more)
    BY <1>6, <2>2, ConcatHas
  <2> QED BY <1>5, <2>1, <2>3, Zenon
<1> QED BY <1>1, <1>4, <1>7 DEF Lists

LEMMA EndKeepsPages ==
    ASSUME RunListInv, FirstPagesInv, "mixed" \notin excused, NEW l \in runLoads,
           NEW p, RunsShape(p), EndLoad(l, p),
           NEW k \in Nat, Lists(p, k), excused' = {} => GoesOn(p, k)
    PROVE  FirstPagesInv'
<1>1. runLoads' = {}
  BY DEF FirstPagesInv, EndLoad
<1>2. runsPage' = [p EXCEPT !.loadingFailed = ~ p.grouped,
                            !.noResults = p.grouped /\ p.testRunsBySHA = <<>>]
  BY <1>1 DEF EndLoad
<1>3. /\ runsPage'.query = p.query /\ runsPage'.testRuns = p.testRuns
      /\ runsPage'.testRunsBySHA = p.testRunsBySHA
      /\ runsPage'.nextPageToken = p.nextPageToken /\ runsPage'.armed = p.armed
  BY <1>2 DEF RunsShape
<1>4. Lists(runsPage', k) /\ (excused' = {} => GoesOn(runsPage', k))
  BY <1>3 DEF Lists, GoesOn
<1> QED BY <1>1, <1>4 DEF FirstPagesInv

LEMMA RunsArriveKeepsPages ==
    ASSUME RunListInv, FirstPagesInv, "mixed" \notin excused, NEW l \in runLoads, RunsArrive(l)
    PROVE  FirstPagesInv'
<1>1. PICK k \in Nat : Awaits(runsPage, k, l, excused)
  BY DEF FirstPagesInv
<1>2. l.page = 1 /\ runsPage.testRuns = <<>> /\ (l.kind = "ready" \/ (excused = {} => runsPage.armed))
  BY <1>1 DEF Awaits, RunsArrive
<1>3. l.query = runsPage.query /\ l.query \in RunQueries
  BY DEF RunListInv, LoadsInv
<1>4. PICK query, pages, runs : query = runsPage.query /\ pages = PagesOf(query) /\ runs = RunsOn(l)
  OBVIOUS
<1>5. PICK q : q = WithRuns(runsPage, runs)
  OBVIOUS
<1>6. PICK armed : armed = (q.armed \/ l.kind = "ready")
  OBVIOUS
<1>7. PICK p : p = [q EXCEPT !.nextPageToken = NextPage(query, 1), !.armed = armed]
  OBVIOUS
<1>8. EndLoad(l, p) /\ excused' = excused
  BY <1>3, <1>4, <1>5, <1>6, <1>7 DEF RunsArrive
<1>9. /\ RunsShape(p) /\ p.query = query /\ p.testRuns = runs /\ p.testRunsBySHA = testRunsLoaded(runs)
      /\ p.nextPageToken = NextPage(query, 1) /\ p.armed = (runsPage.armed \/ l.kind = "ready")
  BY <1>4, <1>5, <1>6, <1>7 DEF RunListInv, PageOf, RunsShape, WithRuns
<1>10. pages \in Seq(Seq(RunsOf(query)))
  BY <1>3, <1>4, PagesAre
<1>11. CASE pages = <<>>
  <2>1. runs = <<>>
    BY <1>2, <1>3, <1>4, <1>11 DEF RunsOn
  <2>2. Len(pages) = 0
    BY <1>11
  <2>3. NextPage(query, 1) = NoPage /\ NextPage(query, 0) = NoPage
    BY <1>4, <2>2 DEF NextPage
  <2>4. Lists(p, 0)
    BY <1>3, <1>4, <1>9, <2>1, <2>3, EmptyLists
  <2>5. GoesOn(p, 0)
    BY <1>4, <1>9, <1>11, <2>2, <2>3 DEF GoesOn
  <2> QED BY <1>8, <1>9, <2>4, <2>5, EndKeepsPages
<1>12. CASE pages # <<>>
  <2>1. 0 < Len(pages) /\ 1 \in DOMAIN pages
    BY <1>10, <1>12
  <2>2. runs = pages[1]
    BY <1>2, <1>3, <1>4, <2>1 DEF RunsOn
  <2>3. PICK e : e = [p EXCEPT !.testRuns = <<>>, !.testRunsBySHA = testRunsLoaded(<<>>), !.nextPageToken = NoPage]
    OBVIOUS
  <2>4. /\ e.query = query /\ e.testRuns = <<>> /\ e.testRunsBySHA = testRunsLoaded(<<>>)
        /\ e.nextPageToken = NoPage
    BY <1>9, <2>3 DEF RunsShape
  <2>5. Lists(e, 0)
    BY <1>3, <1>4, <2>4, EmptyLists
  <2>6. runs \in Seq(RunsOf(query))
    BY <1>3, <1>4, PageIsRuns
  <2>7. Len(runs) = Len(<<>>) + Len(runs) /\ ToSet(runs) = ToSet(<<>>) \union ToSet(runs)
    <3>1. PICK e0 : e0 = <<>>
      OBVIOUS
    <3>2. e0 \o runs = runs /\ e0 \in Seq(RunsOf(query))
      BY <2>6, <3>1
    <3>3. e0 \in Seq(RunsOf(query)) /\ runs \in Seq(RunsOf(query))
      BY <2>6, <3>2, Zenon
    <3>4. Len(e0 \o runs) = Len(e0) + Len(runs) /\ ToSet(e0 \o runs) = ToSet(e0) \union ToSet(runs)
      BY <3>3, ConcatHas, Zenon
    <3> QED BY <3>1, <3>2, <3>4, Zenon
  <2>8. Lists(p, 0 + 1)
    BY <1>3, <1>4, <1>9, <2>1, <2>2, <2>4, <2>5, <2>7, ListsMore
  <2>9. excused' = {} => GoesOn(p, 1)
    <3>1. excused' = {} => p.armed
      BY <1>2, <1>8, <1>9
    <3>2. 1 > 0
      OBVIOUS
    <3> QED BY <1>9, <3>1, <3>2 DEF GoesOn
  <2> QED BY <1>8, <1>9, <2>8, <2>9, EndKeepsPages
<1> QED BY <1>11, <1>12

LEMMA RunsRefusedKeepsPages ==
    ASSUME RunListInv, FirstPagesInv, "mixed" \notin excused, NEW l \in runLoads, RunsRefused(l)
    PROVE  FirstPagesInv'
<1>1. runsPage.nextPageToken = NoPage
  BY DEF FirstPagesInv, Awaits
<1>2. PICK q : q = WithRuns(runsPage, <<>>)
  OBVIOUS
<1>3. PICK armed : armed = (q.armed \/ l.kind = "ready")
  OBVIOUS
<1>4. PICK p : p = [q EXCEPT !.armed = armed]
  OBVIOUS
<1>5. EndLoad(l, p) /\ excused' = excused \union {"failed"}
  BY <1>2, <1>3, <1>4 DEF RunsRefused
<1>6. /\ RunsShape(p) /\ p.query = runsPage.query /\ p.testRuns = <<>> /\ p.testRunsBySHA = testRunsLoaded(<<>>)
      /\ p.nextPageToken = NoPage
  BY <1>1, <1>2, <1>4 DEF RunListInv, PageOf, RunsShape, WithRuns
<1>7. Lists(p, 0)
  BY <1>6, EmptyLists DEF RunListInv, PageOf
<1> QED BY <1>5, <1>6, <1>7, EndKeepsPages

LEMMA RunsFailKeepsPages ==
    ASSUME RunListInv, FirstPagesInv, "mixed" \notin excused, NEW l \in runLoads, RunsFail(l)
    PROVE  FirstPagesInv'
<1>1. PICK k \in Nat : Lists(runsPage, k)
  BY DEF FirstPagesInv
<1>2. EndLoad(l, runsPage) /\ excused' = excused \union {"failed"}
  BY DEF RunsFail
<1> QED BY <1>1, <1>2, EndKeepsPages DEF RunListInv, PageOf

LEMMA MoreRunsArriveKeepsPages ==
    ASSUME RunListInv, FirstPagesInv, "mixed" \notin excused, NEW l \in runLoads, MoreRunsArrive(l)
    PROVE  FirstPagesInv'
<1>1. PICK k \in Nat : Lists(runsPage, k) /\ Awaits(runsPage, k, l, excused)
  BY DEF FirstPagesInv
<1>2. l.kind = "more"
  BY DEF MoreRunsArrive
<1>3. PICK query, pages, runs, more :
        query = runsPage.query /\ pages = PagesOf(query) /\ runs = runsPage.testRuns /\ more = RunsOn(l)
  OBVIOUS
<1>4. l.page = k + 1 /\ k < Len(pages)
  BY <1>1, <1>2, <1>3 DEF Awaits
<1>5. l.query = query /\ query \in RunQueries /\ runs \in Seq(RunsOf(query))
  BY <1>3 DEF RunListInv, LoadsInv, PageOf
<1>6. more \in Seq(RunsOf(query))
  BY <1>3, <1>5, PageIsRuns
<1>7. pages \in Seq(Seq(RunsOf(query))) /\ \A i \in 1..(Len(pages) - 1) : pages[i] # <<>>
  BY <1>3, <1>5, PagesAre
<1>8. more = pages[k + 1]
  <2>1. k + 1 \in DOMAIN pages
    BY <1>4, <1>7
  <2> QED BY <1>3, <1>4, <1>5, <2>1 DEF RunsOn
<1>9. PICK at : at = IF runs = <<>> THEN 0 ELSE Len(runs) - 1
  OBVIOUS
<1>10. PICK all : all = SubSeq(runs, 1, at) \o more \o SubSeq(runs, at + 1, Len(runs))
  OBVIOUS
<1>11. Len(all) = Len(runs) + Len(more) /\ ToSet(all) = ToSet(runs) \union ToSet(more)
  <2>1. at \in 0..Len(runs)
    BY <1>5, <1>9
  <2>2. PICK S : S = RunsOf(query) /\ runs \in Seq(S) /\ more \in Seq(S)
    BY <1>5, <1>6
  <2>3. runs \in Seq(S) /\ more \in Seq(S)
    BY <2>2, Zenon
  <2>4. /\ Len(Inserted(runs, at, more)) = Len(runs) + Len(more)
        /\ ToSet(Inserted(runs, at, more)) = ToSet(runs) \union ToSet(more)
    BY <2>1, <2>3, InsertedHas
  <2> QED BY <1>10, <2>4, Zenon DEF Inserted
<1>12. PICK q : q = WithRuns(runsPage, all)
  OBVIOUS
<1>13. PICK armed : armed = (q.armed \/ more # <<>>)
  OBVIOUS
<1>14. PICK p : p = [q EXCEPT !.nextPageToken = NextPage(query, k + 1), !.armed = armed]
  OBVIOUS
<1>15. EndLoad(l, p) /\ excused' = excused
  BY <1>3, <1>4, <1>5, <1>9, <1>10, <1>12, <1>13, <1>14 DEF MoreRunsArrive
<1>16. /\ RunsShape(p) /\ p.query = query /\ p.testRuns = all /\ p.testRunsBySHA = testRunsLoaded(all)
       /\ p.nextPageToken = NextPage(query, k + 1) /\ p.armed = (runsPage.armed \/ more # <<>>)
  BY <1>3, <1>12, <1>13, <1>14 DEF RunListInv, PageOf, RunsShape, WithRuns
<1>17. Lists(p, k + 1)
  BY <1>1, <1>3, <1>4, <1>5, <1>8, <1>11, <1>16, ListsMore
<1>18. GoesOn(p, k + 1)
  <2>1. k + 1 > 0 /\ k + 1 \in Nat
    OBVIOUS
  <2>2. k + 1 < Len(pages) => more # <<>>
    BY <1>7, <1>8
  <2> QED BY <1>3, <1>16, <2>1, <2>2 DEF GoesOn
<1> QED BY <1>15, <1>16, <1>17, <1>18, EndKeepsPages

LEMMA LoadNextKeepsPages ==
    ASSUME RunListInv, FirstPagesInv, "mixed" \notin excused, handleLoadNextPage
    PROVE  FirstPagesInv'
<1>1. PICK k \in Nat : /\ Lists(runsPage, k)
                       /\ \A l \in runLoads : Awaits(runsPage, k, l, excused)
                       /\ runLoads = {} /\ excused = {} => GoesOn(runsPage, k)
  BY DEF FirstPagesInv
<1>2. runsPage.armed /\ runsPage.testRuns # <<>>
  BY DEF handleLoadNextPage
<1>3. runLoads = {}
  BY <1>1, <1>2 DEF Awaits
<1>4. PICK token, query : token = runsPage.nextPageToken /\ query = runsPage.query
  OBVIOUS
<1>5. PICK l : l = LoadRuns(token.query, "more", token.page)
  OBVIOUS
<1>6. /\ runsPage' = [runsPage EXCEPT !.armed = FALSE, !.nextPageToken = NoPage]
      /\ runLoads' = IF token = NoPage THEN {} ELSE {l}
      /\ excused' = excused
  BY <1>3, <1>4, <1>5 DEF handleLoadNextPage
<1>7. /\ runsPage'.query = query /\ runsPage'.testRuns = runsPage.testRuns
      /\ runsPage'.testRunsBySHA = runsPage.testRunsBySHA
      /\ runsPage'.nextPageToken = NoPage /\ runsPage'.armed = FALSE
  BY <1>4, <1>6 DEF RunListInv, PageOf, RunsShape
<1>8. Lists(runsPage', k)
  BY <1>1, <1>4, <1>7 DEF Lists
<1>9. CASE token = NoPage
  <2>1. runLoads' = {}
    BY <1>6, <1>9
  <2>2. excused = {} => GoesOn(runsPage', k)
    <3>1. SUFFICES ASSUME excused = {} PROVE GoesOn(runsPage', k)
      OBVIOUS
    <3>2. GoesOn(runsPage, k) /\ NextPage(query, k) = NoPage
      BY <1>1, <1>3, <1>4, <1>9, <3>1 DEF GoesOn
    <3>3. ~ (k < Len(PagesOf(query)))
      <4> SUFFICES ASSUME k < Len(PagesOf(query)) PROVE FALSE
        OBVIOUS
      <4>1. query \in RunQueries /\ PagesOf(query) \in Seq(Seq(RunsOf(query)))
        BY <1>4, PagesAre DEF RunListInv, PageOf
      <4>2. k + 1 \in DOMAIN PagesOf(query)
        BY <4>1
      <4> QED BY <3>2, <4>1, <4>2, NoPageAssumption DEF NextPage
    <3> QED BY <1>4, <1>7, <3>2, <3>3 DEF GoesOn
  <2> QED BY <1>6, <1>8, <2>1, <2>2 DEF FirstPagesInv
<1>10. CASE token # NoPage
  <2>1. k < Len(PagesOf(query)) /\ token = [query |-> query, page |-> k + 1]
    BY <1>1, <1>4, <1>10 DEF Lists, NextPage
  <2>2. l.kind = "more" /\ l.page = k + 1
    BY <1>5, <2>1 DEF LoadRuns
  <2>3. runLoads' = {l}
    BY <1>6, <1>10
  <2>4. Awaits(runsPage', k, l, excused')
    BY <1>7, <2>1, <2>2 DEF Awaits
  <2> QED BY <1>8, <2>3, <2>4 DEF FirstPagesInv
<1> QED BY <1>9, <1>10

LEMMA SubmitKeepsPages ==
    ASSUME RunListInv, FirstPagesInv, NEW query \in RunQueries, handleSubmitQuery(query)
    PROVE  FirstPagesInv'
<1>1. CASE query = runsPage.query
  <2>1. /\ runsPage' = [runsPage EXCEPT !.nextPageToken = NoPage]
        /\ runLoads' = runLoads /\ excused' = excused \union {"token"}
    BY <1>1 DEF handleSubmitQuery
  <2>2. SUFFICES ASSUME "mixed" \notin excused PROVE FirstPagesInv'
    BY <2>1 DEF FirstPagesInv
  <2>3. PICK k \in Nat : Lists(runsPage, k) /\ \A l \in runLoads : Awaits(runsPage, k, l, excused)
    BY <2>2 DEF FirstPagesInv
  <2>4. /\ runsPage'.query = runsPage.query /\ runsPage'.testRuns = runsPage.testRuns
        /\ runsPage'.testRunsBySHA = runsPage.testRunsBySHA
        /\ runsPage'.nextPageToken = NoPage /\ runsPage'.armed = runsPage.armed
    BY <2>1 DEF RunListInv, PageOf, RunsShape
  <2>5. Lists(runsPage', k)
    BY <2>3, <2>4 DEF Lists
  <2>6. excused' # {}
    BY <2>1
  <2>7. \A l \in runLoads' : Awaits(runsPage', k, l, excused')
    BY <2>1, <2>3, <2>4, <2>6 DEF Awaits
  <2>8. \A l, m \in runLoads' : l = m
    BY <2>1, <2>2 DEF FirstPagesInv
  <2> QED BY <2>5, <2>6, <2>7, <2>8 DEF FirstPagesInv
<1>2. CASE query # runsPage.query
  <2>1. PICK l : l = LoadRuns(query, "submit", 1)
    OBVIOUS
  <2>2. PICK q : q = WithRuns(runsPage, <<>>)
    OBVIOUS
  <2>3. /\ runsPage' = [q EXCEPT !.query = query, !.nextPageToken = NoPage]
        /\ runLoads' = runLoads \union {l}
        /\ runLoads # {} => "mixed" \in excused'
        /\ ~ runsPage.armed => "threshold" \in excused'
    BY <1>2, <2>1, <2>2 DEF handleSubmitQuery
  <2>4. SUFFICES ASSUME runLoads = {} PROVE FirstPagesInv'
    BY <2>3 DEF FirstPagesInv
  <2>5. /\ runsPage'.query = query /\ runsPage'.testRuns = <<>>
        /\ runsPage'.testRunsBySHA = testRunsLoaded(<<>>)
        /\ runsPage'.nextPageToken = NoPage /\ runsPage'.armed = runsPage.armed
    BY <2>2, <2>3 DEF RunListInv, PageOf, RunsShape, WithRuns
  <2>6. Lists(runsPage', 0)
    BY <2>5, EmptyLists
  <2>7. l.kind = "submit" /\ l.page = 1
    BY <2>1 DEF LoadRuns
  <2>8. Awaits(runsPage', 0, l, excused')
    BY <2>3, <2>5, <2>7 DEF Awaits
  <2>9. runLoads' = {l}
    BY <2>3, <2>4
  <2> QED BY <2>6, <2>8, <2>9 DEF FirstPagesInv
<1> QED BY <1>1, <1>2

LEMMA RunsInitPages == RunsInit => FirstPagesInv
<1>1. SUFFICES ASSUME RunsInit PROVE FirstPagesInv
  OBVIOUS
<1>2. PICK query \in RunQueries :
        /\ runsPage = [query |-> query, testRuns |-> <<>>, testRunsBySHA |-> <<>>, grouped |-> FALSE,
                       nextPageToken |-> NoPage, loadingFailed |-> FALSE, noResults |-> FALSE, armed |-> TRUE]
        /\ runLoads = {[kind |-> "ready", query |-> query, page |-> 1, id |-> 1]}
  BY <1>1 DEF RunsInit
<1>3. testRunsLoaded(<<>>) = <<>>
  <2>1. PICK groups : groups = testRunsLoaded(<<>>)
    OBVIOUS
  <2>2. <<>> \in Seq({}) /\ Dated({})
    BY DEF Dated
  <2>3. Grouped(groups, <<>>, {})
    BY <2>1, <2>2, GroupsAre
  <2>4. Revisions(<<>>) = {}
    <3>1. PICK e, N : e = <<>> /\ N = {}
      OBVIOUS
    <3>2. e \in Seq(N)
      BY <3>1
    <3>3. ToSet(e) \subseteq N
      BY <3>2, SetOf
    <3> QED BY <3>1, <3>3 DEF Revisions
  <2>5. Len(groups) = 0
    <3>1. \A j \in 1..Len(groups) : FALSE
      BY <2>3, <2>4 DEF Grouped
    <3>2. Len(groups) \in Nat
      BY <2>3 DEF Grouped
    <3> QED BY <3>1, <3>2
  <2>6. groups = [j \in 1..0 |-> groups[j]]
    <3>1. groups = [j \in DOMAIN groups |-> groups[j]]
      BY <2>1 DEF testRunsLoaded
    <3> QED BY <2>3, <2>5, <3>1 DEF Grouped
  <2> QED BY <2>1, <2>6
<1>4. PICK l : l = [kind |-> "ready", query |-> query, page |-> 1, id |-> 1]
  OBVIOUS
<1>5. l.kind = "ready" /\ l.page = 1 /\ runLoads = {l}
  BY <1>2, <1>4
<1>6. /\ runsPage.query = query /\ runsPage.testRuns = <<>> /\ runsPage.testRunsBySHA = testRunsLoaded(<<>>)
      /\ runsPage.nextPageToken = NoPage
  BY <1>2, <1>3
<1>7. Lists(runsPage, 0)
  BY <1>6, EmptyLists
<1>8. Awaits(runsPage, 0, l, excused)
  BY <1>5, <1>6 DEF Awaits
<1> QED BY <1>5, <1>7, <1>8 DEF FirstPagesInv

LEMMA RunsNextPages == RunListInv /\ FirstPagesInv /\ [RunsNext]_runsVars => FirstPagesInv'
<1> SUFFICES ASSUME RunListInv, FirstPagesInv, [RunsNext]_runsVars PROVE FirstPagesInv'
  OBVIOUS
<1>1. ASSUME NEW query \in RunQueries, handleSubmitQuery(query) PROVE FirstPagesInv'
  BY <1>1, SubmitKeepsPages
<1>2. CASE "mixed" \in excused /\ ~ \E query \in RunQueries : handleSubmitQuery(query)
  <2>1. "mixed" \in excused'
    BY <1>2 DEF RunsNext, RunsArrive, RunsRefused, RunsFail, MoreRunsArrive, handleLoadNextPage, runsVars
  <2> QED BY <2>1 DEF FirstPagesInv
<1>3. CASE "mixed" \notin excused
  <2>1. ASSUME NEW l \in runLoads, RunsArrive(l) \/ RunsRefused(l) \/ RunsFail(l) \/ MoreRunsArrive(l)
        PROVE  FirstPagesInv'
    BY <1>3, <2>1, RunsArriveKeepsPages, RunsRefusedKeepsPages, RunsFailKeepsPages, MoreRunsArriveKeepsPages
  <2>2. CASE handleLoadNextPage
    BY <1>3, <2>2, LoadNextKeepsPages
  <2>3. CASE UNCHANGED runsVars
    BY <2>3 DEF FirstPagesInv, runsVars
  <2> QED BY <1>1, <2>1, <2>2, <2>3 DEF RunsNext
<1> QED BY <1>1, <1>2, <1>3

LEMMA ListIsTrue == RunListInv /\ FirstPagesInv => RunsListIsTrue
<1> SUFFICES ASSUME RunListInv, FirstPagesInv, runLoads = {}, "mixed" \notin excused PROVE RunsListIsTrue
  BY DEF RunsListIsTrue
<1>1. PICK query, pages, runs, groups :
        /\ query = runsPage.query /\ pages = PagesOf(query)
        /\ runs = runsPage.testRuns /\ groups = runsPage.testRunsBySHA
  OBVIOUS
<1>2. PICK k \in Nat : Lists(runsPage, k) /\ (excused = {} => GoesOn(runsPage, k))
  BY DEF FirstPagesInv
<1>3. PICK S : S = RunsOf(query)
  OBVIOUS
<1>4. pages \in Seq(Seq(S)) /\ Dated(S) /\ runs \in Seq(S)
  BY <1>1, <1>3, PagesAre DEF RunListInv, PageOf
<1>5. PICK list : list = PagesTo(pages, k)
  OBVIOUS
<1>6. /\ k \in 0..Len(pages) /\ Len(runs) = Len(list) /\ ToSet(runs) = ToSet(list)
      /\ groups = testRunsLoaded(runs)
  BY <1>1, <1>2, <1>5 DEF Lists
<1>7. list \in Seq(S)
  BY <1>4, <1>5, <1>6, PagesToIs
<1>8. \A i \in DOMAIN list : \E j \in DOMAIN groups : groups[j].sha = list[i].revision /\ Contains(groups[j].runs, list[i])
  <2> SUFFICES ASSUME NEW i \in DOMAIN list
               PROVE  \E j \in DOMAIN groups : groups[j].sha = list[i].revision /\ Contains(groups[j].runs, list[i])
    OBVIOUS
  <2>1. list[i] \in ToSet(runs)
    BY <1>6 DEF ToSet
  <2> QED BY <1>4, <1>6, <2>1, GroupsHaveAll
<1>9. Len(FlattenSeq([j \in DOMAIN groups |-> groups[j].runs])) = Len(list)
  BY <1>4, <1>6, GroupsCount
<1>10. \A j \in DOMAIN groups : \E run \in ToSet(groups[j].runs) :
          \A i \in (j + 1)..Len(groups) : \E other \in ToSet(groups[i].runs) : other.date <= run.date
  BY <1>4, <1>6, GroupsAreOrdered
<1>11. runs # <<>> => groups # <<>>
  <2> SUFFICES ASSUME runs # <<>>, groups = <<>> PROVE FALSE
    OBVIOUS
  <2>1. runs[1] \in ToSet(runs)
    BY <1>4, SetOf
  <2>2. \E j \in DOMAIN groups : TRUE
    BY <1>4, <1>6, <2>1, GroupsHaveAll
  <2>3. DOMAIN groups = {}
    OBVIOUS
  <2> QED BY <2>2, <2>3
<1>12. /\ ~ (runsPage.loadingFailed /\ runsPage.noResults)
       /\ "failed" \notin excused => ~ runsPage.loadingFailed
       /\ runs # <<>> => ~ runsPage.loadingFailed /\ ~ runsPage.noResults
  BY <1>1, <1>11 DEF RunListInv, PageOf, GroupedInv, EndedInv
<1>13. excused = {} => /\ pages # <<>> => k > 0
                       /\ runsPage.nextPageToken = NextPage(query, k)
                       /\ k < Len(pages) => runsPage.armed
  BY <1>1, <1>2 DEF GoesOn
<1> QED BY <1>1, <1>5, <1>6, <1>8, <1>9, <1>10, <1>12, <1>13 DEF RunsListIsTrue, PagesTo

\* wpt-runs: however pages of runs, submitted queries, failures and the scrolling interleave,
\* once all requests have ended the list has the runs of the first pages of the query, each
\* once and with its revision, the revisions by date, and the next page can be had; as long
\* as the requests of two queries never overlap.
THEOREM ListsAreTrue == RunsSpec => []RunsListIsTrue
<1>1. RunsInit => RunListInv /\ FirstPagesInv
  BY RunsInitKeeps, RunsInitPages
<1>2. RunListInv /\ FirstPagesInv /\ [RunsNext]_runsVars => RunListInv' /\ FirstPagesInv'
  BY RunsNextKeeps, RunsNextPages
<1>3. QED
  BY <1>1, <1>2, ListIsTrue, PTL DEF RunsSpec

-------------------------------------------------------------------------------
(* Test file page: the table shown is that of the path and search of the page       *)

\* The table of a test filtered by a search.
TableOf(path, search) == filterResultsTableBySearch(fetchTestFile(path), Found(path, search))

\* test-file-results: unless two loads were in flight at once, the table is empty while one is
\* and after one failed, and else it is the one of the path and search of the page.
TableIsOfThePage ==
    "mixed" \notin fileExcused =>
        filePage.resultsTable = IF fileLoads # {} \/ "failed" \in fileExcused THEN <<>>
                                ELSE TableOf(filePage.path, filePage.search)

PageShape(page) ==
    page = [path |-> page.path, search |-> page.search, resultsTable |-> page.resultsTable,
            onlyShowDifferences |-> page.onlyShowDifferences]

LoadShape(l) ==
    l = [path |-> l.path, search |-> l.search, id |-> l.id, filesLoaded |-> l.filesLoaded,
         searched |-> l.searched, tries |-> l.tries, waiting |-> l.waiting]

\* The only load is the page's.
OwnLoad ==
    "mixed" \notin fileExcused =>
        /\ \A l \in fileLoads : l.path = filePage.path /\ l.search = filePage.search
        /\ \A l, m \in fileLoads : l = m
        /\ fileLoads # {} => "failed" \notin fileExcused

FileInv ==
    /\ PageShape(filePage) /\ \A l \in fileLoads : LoadShape(l)
    /\ filePage.path \in TestPaths
    /\ OwnLoad /\ TableIsOfThePage

LEMMA FileLoadKeeps ==
    ASSUME FileInv, NEW path \in TestPaths, NEW search, loadData(path, search)
    PROVE  FileInv'
<1>1. PICK l : l = [path |-> path, search |-> search, id |-> fileSteps, filesLoaded |-> FALSE,
                    searched |-> search = NoSearch, tries |-> 1, waiting |-> FALSE]
  OBVIOUS
<1>2. /\ filePage' = [filePage EXCEPT !.path = path, !.search = search, !.resultsTable = <<>>]
      /\ fileLoads' = fileLoads \union {l}
      /\ fileExcused' = IF fileLoads # {} THEN fileExcused \union {"mixed"} ELSE {}
  BY <1>1 DEF loadData
<1>3. LoadShape(l) /\ l.path = path /\ l.search = search
  BY <1>1 DEF LoadShape
<1>4. /\ PageShape(filePage') /\ filePage'.path = path /\ filePage'.search = search
      /\ filePage'.resultsTable = <<>>
  BY <1>2 DEF FileInv, PageShape
<1>5. \A m \in fileLoads' : LoadShape(m)
  BY <1>2, <1>3 DEF FileInv
<1>6. CASE fileLoads # {}
  BY <1>2, <1>4, <1>5, <1>6 DEF FileInv, OwnLoad, TableIsOfThePage
<1>7. CASE fileLoads = {}
  <2>1. fileLoads' = {l} /\ fileExcused' = {}
    BY <1>2, <1>7
  <2> QED BY <1>3, <1>4, <1>5, <2>1 DEF FileInv, OwnLoad, TableIsOfThePage
<1> QED BY <1>6, <1>7

LEMMA FileAnswerKeeps ==
    ASSUME FileInv, NEW l \in fileLoads, NEW loaded, WithAnswer(l, loaded), LoadShape(loaded),
           loaded.path = l.path, loaded.search = l.search
    PROVE  FileInv'
<1>1. fileExcused' = fileExcused
  BY DEF WithAnswer
<1>2. CASE loaded.filesLoaded /\ loaded.searched
  <2>1. /\ fileLoads' = fileLoads \ {l}
        /\ filePage' = [filePage EXCEPT !.resultsTable = TableOf(l.path, l.search)]
    BY <1>2 DEF WithAnswer, TableOf
  <2>2. /\ PageShape(filePage') /\ filePage'.path = filePage.path /\ filePage'.search = filePage.search
        /\ filePage'.resultsTable = TableOf(l.path, l.search)
    BY <2>1 DEF FileInv, PageShape
  <2>3. \A m \in fileLoads' : LoadShape(m)
    BY <2>1 DEF FileInv
  <2>4. ASSUME "mixed" \notin fileExcused
        PROVE  /\ l.path = filePage.path /\ l.search = filePage.search
               /\ fileLoads' = {} /\ "failed" \notin fileExcused
    BY <2>1, <2>4 DEF FileInv, OwnLoad
  <2>5. OwnLoad'
    BY <1>1, <2>4 DEF OwnLoad
  <2>6. TableIsOfThePage'
    BY <1>1, <2>2, <2>4 DEF TableIsOfThePage
  <2> QED BY <2>2, <2>3, <2>5, <2>6 DEF FileInv
<1>3. CASE ~ (loaded.filesLoaded /\ loaded.searched)
  <2>1. fileLoads' = (fileLoads \ {l}) \union {loaded} /\ filePage' = filePage
    BY <1>3 DEF WithAnswer
  <2>2. \A m \in fileLoads' : LoadShape(m)
    BY <2>1 DEF FileInv
  <2>3. ASSUME "mixed" \notin fileExcused
        PROVE  /\ l.path = filePage.path /\ l.search = filePage.search
               /\ fileLoads' = {loaded} /\ "failed" \notin fileExcused
               /\ filePage.resultsTable = <<>>
    BY <2>1, <2>3 DEF FileInv, OwnLoad, TableIsOfThePage
  <2>4. OwnLoad'
    BY <1>1, <2>1, <2>3 DEF OwnLoad
  <2>5. TableIsOfThePage'
    BY <1>1, <2>1, <2>3 DEF TableIsOfThePage
  <2> QED BY <2>1, <2>2, <2>4, <2>5 DEF FileInv
<1> QED BY <1>2, <1>3

LEMMA FileFailureKeeps ==
    ASSUME FileInv, NEW l \in fileLoads, LoadFails(l)
    PROVE  FileInv'
<1>1. fileLoads' = fileLoads \ {l} /\ fileExcused' = fileExcused \union {"failed"} /\ filePage' = filePage
  BY DEF LoadFails
<1>2. ASSUME "mixed" \notin fileExcused
      PROVE  fileLoads' = {} /\ filePage.resultsTable = <<>>
  BY <1>1, <1>2 DEF FileInv, OwnLoad, TableIsOfThePage
<1>3. OwnLoad'
  BY <1>1, <1>2 DEF OwnLoad
<1>4. TableIsOfThePage'
  BY <1>1, <1>2 DEF TableIsOfThePage
<1> QED BY <1>1, <1>3, <1>4 DEF FileInv

LEMMA FileInitKeeps == FilePageInit => FileInv
<1>1. SUFFICES ASSUME FilePageInit PROVE FileInv
  OBVIOUS
<1>2. PICK path \in TestPaths, search \in FileSearches \union {NoSearch} :
        /\ filePage = [path |-> path, search |-> search, resultsTable |-> <<>>, onlyShowDifferences |-> FALSE]
        /\ fileLoads = {[path |-> path, search |-> search, id |-> MaxFileSteps, filesLoaded |-> FALSE,
                         searched |-> search = NoSearch, tries |-> 1, waiting |-> FALSE]}
        /\ fileExcused = {}
  BY <1>1 DEF FilePageInit
<1>3. PICK l : l = [path |-> path, search |-> search, id |-> MaxFileSteps, filesLoaded |-> FALSE,
                    searched |-> search = NoSearch, tries |-> 1, waiting |-> FALSE]
  OBVIOUS
<1>4. LoadShape(l) /\ l.path = path /\ l.search = search /\ fileLoads = {l}
  BY <1>2, <1>3 DEF LoadShape
<1> QED BY <1>2, <1>4 DEF FileInv, PageShape, OwnLoad, TableIsOfThePage

LEMMA FileNextKeeps == FileInv /\ [FilePageNext]_fileVars => FileInv'
<1> SUFFICES ASSUME FileInv, [FilePageNext]_fileVars PROVE FileInv'
  OBVIOUS
<1>1. ASSUME NEW path \in TestPaths, OpenFile(path) PROVE FileInv'
  BY <1>1, FileLoadKeeps DEF OpenFile
<1>2. ASSUME NEW search \in FileSearches \union {NoSearch}, SearchFile(search) PROVE FileInv'
  BY <1>2, FileLoadKeeps DEF SearchFile, FileInv
<1>3. CASE ToggleFileDifferences
  <2>1. /\ filePage' = [filePage EXCEPT !.onlyShowDifferences = ~ @]
        /\ fileLoads' = fileLoads /\ fileExcused' = fileExcused
    BY <1>3 DEF ToggleFileDifferences
  <2>2. /\ PageShape(filePage') /\ filePage'.path = filePage.path /\ filePage'.search = filePage.search
        /\ filePage'.resultsTable = filePage.resultsTable
    BY <2>1 DEF FileInv, PageShape
  <2> QED BY <2>1, <2>2 DEF FileInv, OwnLoad, TableIsOfThePage
<1>4. ASSUME NEW l \in fileLoads
      PROVE  /\ ResultFilesArrive(l) => FileInv'
             /\ SearchArrives(l) => FileInv'
             /\ SearchNotCached(l) => FileInv'
             /\ SearchAgain(l) => FileInv'
             /\ LoadFails(l) => FileInv'
  <2>1. LoadShape(l)
    BY DEF FileInv
  <2>2. ASSUME ResultFilesArrive(l) PROVE FileInv'
    <3>1. PICK m : m = [l EXCEPT !.filesLoaded = TRUE]
      OBVIOUS
    <3>2. LoadShape(m) /\ m.path = l.path /\ m.search = l.search
      BY <2>1, <3>1 DEF LoadShape
    <3> QED BY <2>2, <3>1, <3>2, FileAnswerKeeps DEF ResultFilesArrive
  <2>3. ASSUME SearchArrives(l) PROVE FileInv'
    <3>1. PICK m : m = [l EXCEPT !.searched = TRUE]
      OBVIOUS
    <3>2. LoadShape(m) /\ m.path = l.path /\ m.search = l.search
      BY <2>1, <3>1 DEF LoadShape
    <3> QED BY <2>3, <3>1, <3>2, FileAnswerKeeps DEF SearchArrives
  <2>4. ASSUME SearchNotCached(l) PROVE FileInv'
    <3>1. PICK m : m = [l EXCEPT !.waiting = TRUE]
      OBVIOUS
    <3>2. LoadShape(m) /\ m.path = l.path /\ m.search = l.search
      BY <2>1, <3>1 DEF LoadShape
    <3> QED BY <2>4, <3>1, <3>2, FileAnswerKeeps DEF SearchNotCached
  <2>5. ASSUME SearchAgain(l) PROVE FileInv'
    <3>1. PICK m : m = [l EXCEPT !.waiting = FALSE, !.tries = @ + 1]
      OBVIOUS
    <3>2. LoadShape(m) /\ m.path = l.path /\ m.search = l.search
      BY <2>1, <3>1 DEF LoadShape
    <3> QED BY <2>5, <3>1, <3>2, FileAnswerKeeps DEF SearchAgain
  <2> QED BY <2>2, <2>3, <2>4, <2>5, FileFailureKeeps
<1>5. CASE UNCHANGED fileVars
  BY <1>5 DEF FileInv, OwnLoad, TableIsOfThePage, fileVars
<1> QED BY <1>1, <1>2, <1>3, <1>4, <1>5 DEF FilePageNext

\* test-file-results: whatever paths and searches are asked for, answers of the server that
\* come late, out of order or not at all never leave the table of another test or search on
\* the page, as long as no load overlaps another.
THEOREM TablesAreCurrent == FilePageSpec => []TableIsOfThePage
<1>1. FileInv => TableIsOfThePage
  BY DEF FileInv
<1>2. QED
  BY <1>1, FileInitKeeps, FileNextKeeps, PTL DEF FilePageSpec

-------------------------------------------------------------------------------
(* Test file page: the names of two files merged *)

\* The first n results of merging names, one after another, into allNames.
Merges(f, n, names, allNames) ==
    f = [i \in 0..n |-> IF i = 0 THEN NewNames(allNames) ELSE MergeName(f[i - 1], names[i], i)]

LEMMA MergesExist ==
    ASSUME NEW names, NEW allNames, NEW n \in Nat
    PROVE  \E f : Merges(f, n, names, allNames)
<1> DEFINE Has(k) == \E f : Merges(f, k, names, allNames)
<1>1. Has(0)
  <2>1. PICK f : f = [i \in 0..0 |-> NewNames(allNames)]
    OBVIOUS
  <2>2. f = [i \in 0..0 |-> IF i = 0 THEN NewNames(allNames) ELSE MergeName(f[i - 1], names[i], i)]
    BY <2>1
  <2> QED BY <2>2 DEF Merges
<1>2. ASSUME NEW k \in 0..(n - 1), Has(k) PROVE Has(k + 1)
  <2>1. PICK f : f = [i \in 0..k |-> IF i = 0 THEN NewNames(allNames) ELSE MergeName(f[i - 1], names[i], i)]
    BY <1>2 DEF Merges
  <2>2. PICK g : g = [i \in 0..(k + 1) |-> IF i <= k THEN f[i] ELSE MergeName(f[k], names[k + 1], k + 1)]
    OBVIOUS
  <2>3. \A i \in 0..k : g[i] = f[i] /\ i \in 0..(k + 1) /\ (i # 0 => i - 1 \in 0..k)
    BY <2>2
  <2>4. ASSUME NEW i \in 0..(k + 1)
        PROVE  g[i] = IF i = 0 THEN NewNames(allNames) ELSE MergeName(g[i - 1], names[i], i)
    <3>1. CASE i <= k
      <4>1. i \in 0..k
        BY <3>1
      <4>2. f[i] = IF i = 0 THEN NewNames(allNames) ELSE MergeName(f[i - 1], names[i], i)
        BY <2>1, <4>1
      <4> QED BY <2>3, <4>1, <4>2
    <3>2. CASE ~ (i <= k)
      <4>1. i = k + 1 /\ i # 0 /\ i - 1 = k
        BY <3>2
      <4>2. g[k] = f[k]
        BY <2>3
      <4> QED BY <2>2, <3>2, <4>1, <4>2
    <3> QED BY <3>1, <3>2
  <2>5. g = [i \in 0..(k + 1) |-> g[i]]
    BY <2>2
  <2>6. g = [i \in 0..(k + 1) |-> IF i = 0 THEN NewNames(allNames) ELSE MergeName(g[i - 1], names[i], i)]
    BY <2>4, <2>5
  <2> QED BY <2>6, Zenon DEF Merges
<1> HIDE DEF Has
<1>3. PICK A : A = {k \in 0..n : Has(k)}
  OBVIOUS
<1>4. 0 \in A /\ \A k \in 0..(n - 1) : k \in A => k + 1 \in A
  BY <1>1, <1>2, <1>3
<1>5. n \in A
  <2>1. \A k \in 0..n : k \in A
    BY <1>4, StepByStep
  <2> QED BY <2>1
<1> QED BY <1>3, <1>5 DEF Has

LEMMA MergedBy ==
    ASSUME NEW names, Len(names) \in Nat, NEW allNames, allNames # <<>>
    PROVE  \E f : Merges(f, Len(names), names, allNames) /\ mergeNamesInto(names, allNames) = f[Len(names)].all
<1> DEFINE f == CHOOSE h : h = [i \in 0..Len(names) |->
                    IF i = 0 THEN NewNames(allNames) ELSE MergeName(h[i - 1], names[i], i)]
<1>1. mergeNamesInto(names, allNames) = f[Len(names)].all
  BY DEF mergeNamesInto
<1>2. \E h : h = [i \in 0..Len(names) |->
                    IF i = 0 THEN NewNames(allNames) ELSE MergeName(h[i - 1], names[i], i)]
  <2>1. PICK n : n = Len(names) /\ n \in Nat
    OBVIOUS
  <2>2. \E h : Merges(h, n, names, allNames)
    BY <2>1, MergesExist
  <2> QED BY <2>1, <2>2, Zenon DEF Merges
<1>3. Merges(f, Len(names), names, allNames)
  BY <1>2, Zenon DEF Merges
<1> QED BY <1>1, <1>3

LEMMA InsertAtIs ==
    ASSUME NEW S, NEW s \in Seq(S), NEW p \in 1..(Len(s) + 1), NEW e \in S
    PROVE  /\ InsertAt(s, p, e) \in Seq(S)
           /\ Len(InsertAt(s, p, e)) = Len(s) + 1
           /\ \A a \in 1..(Len(s) + 1) :
                 InsertAt(s, p, e)[a] = IF a < p THEN s[a] ELSE IF a = p THEN e ELSE s[a - 1]
<1>1. PICK t : t = InsertAt(s, p, e)
  OBVIOUS
<1>2. t = SubSeq(s, 1, p - 1) \o <<e>> \o SubSeq(s, p, Len(s))
  BY <1>1 DEF InsertAt
<1>3. PICK u, v : u = SubSeq(s, 1, p - 1) /\ v = SubSeq(s, p, Len(s))
  OBVIOUS
<1>4. u \in Seq(S) /\ Len(u) = p - 1 /\ \A a \in 1..(p - 1) : u[a] = s[a]
  BY <1>3
<1>5. v \in Seq(S) /\ Len(v) = Len(s) - p + 1 /\ \A a \in 1..(Len(s) - p + 1) : v[a] = s[a + p - 1]
  BY <1>3
<1>6. t = (u \o <<e>>) \o v
  BY <1>2, <1>3
<1>7. t \in Seq(S) /\ Len(t) = Len(s) + 1
  BY <1>4, <1>5, <1>6
<1>8. ASSUME NEW a \in 1..(Len(s) + 1) PROVE t[a] = IF a < p THEN s[a] ELSE IF a = p THEN e ELSE s[a - 1]
  <2>1. CASE a < p
    BY <1>4, <1>5, <1>6, <2>1
  <2>2. CASE a = p
    BY <1>4, <1>5, <1>6, <2>2
  <2>3. CASE a > p
    <3>1. t[a] = v[a - p] /\ a - p \in 1..(Len(s) - p + 1)
      BY <1>4, <1>5, <1>6, <2>3
    <3> QED BY <1>5, <2>3, <3>1
  <2> QED BY <2>1, <2>2, <2>3
<1> QED BY <1>1, <1>7, <1>8

\* x stands before y; right before y.
Precedes(s, x, y) == \E a, b \in 1..Len(s) : a < b /\ s[a] = x /\ s[b] = y
Follows(s, x, y) == \E a \in 1..(Len(s) - 1) : s[a] = x /\ s[a + 1] = y

\* What is new goes between two elements that were neighbours; all others stay in order.
LEMMA InsertKeeps ==
    ASSUME NEW S, NEW s \in Seq(S), NEW p \in 1..(Len(s) + 1), NEW e \in S, NoRepeats(s), ~ Contains(s, e),
           NEW t, t = InsertAt(s, p, e)
    PROVE  /\ t \in Seq(S) /\ Len(t) = Len(s) + 1 /\ t[p] = e /\ NoRepeats(t)
           /\ \A x : Contains(t, x) <=> Contains(s, x) \/ x = e
           /\ \A x, y : Precedes(s, x, y) => Precedes(t, x, y)
           /\ \A x, y : Follows(s, x, y) => Follows(t, x, y) \/ (p > 1 /\ s[p - 1] = x)
           /\ p > 1 => Follows(t, s[p - 1], e)
<1>1. PICK n : n = Len(s)
  OBVIOUS
<1>2. n \in Nat /\ p \in 1..(n + 1)
  BY <1>1
<1>3. t \in Seq(S) /\ Len(t) = n + 1
  BY <1>1, InsertAtIs
<1>4. \A a \in 1..(n + 1) : t[a] = IF a < p THEN s[a] ELSE IF a = p THEN e ELSE s[a - 1]
  BY <1>1, InsertAtIs
<1>5. PICK to : to = [a \in 1..n |-> IF a < p THEN a ELSE a + 1]
  OBVIOUS
<1>6. \A a \in 1..n : to[a] \in 1..(n + 1) /\ to[a] # p /\ t[to[a]] = s[a]
  BY <1>2, <1>4, <1>5
<1>7. \A a, b \in 1..n : a < b => to[a] < to[b]
  BY <1>2, <1>5
<1>8. \A c \in 1..(n + 1) : c = p \/ \E a \in 1..n : to[a] = c
  <2> SUFFICES ASSUME NEW c \in 1..(n + 1), c # p PROVE \E a \in 1..n : to[a] = c
    OBVIOUS
  <2>1. CASE c < p
    <3>1. c \in 1..n /\ to[c] = c
      BY <1>2, <1>5, <2>1
    <3> QED BY <3>1
  <2>2. CASE c > p
    <3>1. c - 1 \in 1..n /\ to[c - 1] = c
      BY <1>2, <1>5, <2>2
    <3> QED BY <3>1
  <2> QED BY <1>2, <2>1, <2>2
<1>9. t[p] = e
  BY <1>2, <1>4
<1>10. \A a \in 1..n : s[a] # e
  BY <1>1 DEF Contains
<1>11. \A x : (\E c \in 1..(n + 1) : t[c] = x) <=> (\E a \in 1..n : s[a] = x) \/ x = e
  <2> TAKE x
  <2>1. ASSUME NEW c \in 1..(n + 1), t[c] = x PROVE (\E a \in 1..n : s[a] = x) \/ x = e
    BY <1>6, <1>8, <1>9, <2>1
  <2>2. ASSUME NEW a \in 1..n, s[a] = x PROVE \E c \in 1..(n + 1) : t[c] = x
    BY <1>6, <2>2
  <2> QED BY <1>2, <1>9, <2>1, <2>2
<1>12. \A x : Contains(t, x) <=> Contains(s, x) \/ x = e
  BY <1>1, <1>3, <1>11 DEF Contains
<1>13. NoRepeats(t)
  <2> SUFFICES ASSUME NEW c \in 1..(n + 1), NEW d \in 1..(n + 1), c < d PROVE t[c] # t[d]
    BY <1>3 DEF NoRepeats
  <2>1. CASE c = p
    <3>1. PICK b \in 1..n : to[b] = d
      BY <1>8, <2>1
    <3> QED BY <1>6, <1>9, <1>10, <2>1, <3>1
  <2>2. CASE d = p
    <3>1. PICK a \in 1..n : to[a] = c
      BY <1>8, <2>2
    <3> QED BY <1>6, <1>9, <1>10, <2>2, <3>1
  <2>3. CASE c # p /\ d # p
    <3>1. PICK a \in 1..n : to[a] = c
      BY <1>8, <2>3
    <3>2. PICK b \in 1..n : to[b] = d
      BY <1>8, <2>3
    <3>3. a < b
      <4>1. a \in Int /\ b \in Int /\ c \in Int /\ d \in Int
        BY <1>2
      <4>2. b < a => d < c
        BY <1>7, <3>1, <3>2
      <4>3. a # b
        BY <3>1, <3>2, <4>1
      <4> QED BY <4>1, <4>2, <4>3
    <3>4. s[a] # s[b]
      BY <1>1, <3>3 DEF NoRepeats
    <3> QED BY <1>6, <3>1, <3>2, <3>4
  <2> QED BY <2>1, <2>2, <2>3
<1>14. ASSUME NEW x, NEW y, Precedes(s, x, y) PROVE Precedes(t, x, y)
  <2>1. PICK a \in 1..n, b \in 1..n : a < b /\ s[a] = x /\ s[b] = y
    BY <1>1, <1>14 DEF Precedes
  <2>2. to[a] < to[b] /\ t[to[a]] = x /\ t[to[b]] = y /\ to[a] \in 1..(n + 1) /\ to[b] \in 1..(n + 1)
    BY <1>6, <1>7, <2>1
  <2> QED BY <1>3, <2>2 DEF Precedes
<1>15. Len(t) - 1 = n
  BY <1>2, <1>3
<1>16. ASSUME NEW x, NEW y, Follows(s, x, y) PROVE Follows(t, x, y) \/ (p > 1 /\ s[p - 1] = x)
  <2>1. PICK a \in 1..(n - 1) : s[a] = x /\ s[a + 1] = y
    BY <1>1, <1>16 DEF Follows
  <2>2. CASE a + 1 = p
    BY <1>2, <2>1, <2>2
  <2>3. CASE a + 1 # p
    <3>1. a \in 1..n /\ a + 1 \in 1..n /\ to[a + 1] = to[a] + 1
      BY <1>2, <1>5, <2>3
    <3>2. to[a] \in 1..n
      BY <1>2, <1>5, <2>3, <3>1
    <3>3. t[to[a]] = x /\ t[to[a] + 1] = y
      BY <1>6, <2>1, <3>1
    <3> QED BY <1>15, <3>2, <3>3 DEF Follows
  <2> QED BY <2>2, <2>3
<1>17. ASSUME p > 1 PROVE Follows(t, s[p - 1], e)
  <2>1. p - 1 \in 1..n /\ t[p - 1] = s[p - 1] /\ (p - 1) + 1 = p
    BY <1>2, <1>4, <1>17
  <2> QED BY <1>15, <1>9, <2>1 DEF Follows
<1> QED BY <1>1, <1>3, <1>9, <1>12, <1>13, <1>14, <1>16, <1>17

\* m is what i names have been merged into: the last of them is where the next would follow,
\* and one that is new stands right behind the one before it.
HasMerged(m, i, names, allNames, S) ==
    /\ m = [all |-> m.all, lastOffset |-> m.lastOffset, lastMatch |-> m.lastMatch]
    /\ m.all \in Seq(S) /\ NoRepeats(m.all)
    /\ m.lastOffset \in Int /\ m.lastMatch \in Int
    /\ i = 0 => m.lastOffset = m.lastMatch
    /\ i # 0 => /\ m.lastOffset + i - m.lastMatch \in 1..Len(m.all)
                /\ m.all[m.lastOffset + i - m.lastMatch] = names[i]
    /\ \A x : Contains(m.all, x) <=> Contains(allNames, x) \/ \E j \in 1..i : names[j] = x
    /\ \A x, y : Precedes(allNames, x, y) => Precedes(m.all, x, y)
    /\ \A k \in 2..i : ~ Contains(allNames, names[k]) => Follows(m.all, names[k - 1], names[k])

LEMMA MergeBegins ==
    ASSUME NEW S, NEW names, NEW allNames \in Seq(S), NoRepeats(allNames)
    PROVE  HasMerged(NewNames(allNames), 0, names, allNames, S)
<1>1. PICK m : m = NewNames(allNames)
  OBVIOUS
<1>2. m = [all |-> allNames, lastOffset |-> 1, lastMatch |-> 1]
  BY <1>1 DEF NewNames
<1>3. m.all = allNames /\ m.lastOffset = 1 /\ m.lastMatch = 1
  BY <1>2
<1>4. (\A j \in 1..0 : FALSE) /\ \A k \in 2..0 : FALSE
  OBVIOUS
<1> QED BY <1>1, <1>2, <1>3, <1>4 DEF HasMerged

LEMMA MergeStep ==
    ASSUME NEW S, NEW names \in Seq(S), NoRepeats(names), NEW allNames,
           NEW i \in 1..Len(names), NEW m, HasMerged(m, i - 1, names, allNames, S)
    PROVE  HasMerged(MergeName(m, names[i], i), i, names, allNames, S)
<1> DEFINE s == m.all
<1>1. PICK name : name = names[i]
  OBVIOUS
<1>2. PICK before : before = i - 1
  OBVIOUS
<1>3. before \in Nat /\ i = before + 1 /\ name \in S /\ i \in 1..Len(names)
  BY <1>1, <1>2
<1>4. /\ m = [all |-> s, lastOffset |-> m.lastOffset, lastMatch |-> m.lastMatch]
      /\ s \in Seq(S) /\ NoRepeats(s)
      /\ m.lastOffset \in Int /\ m.lastMatch \in Int
      /\ before = 0 => m.lastOffset = m.lastMatch
      /\ before # 0 => /\ m.lastOffset + before - m.lastMatch \in 1..Len(s)
                       /\ s[m.lastOffset + before - m.lastMatch] = names[before]
      /\ \A x : Contains(s, x) <=> Contains(allNames, x) \/ \E j \in 1..before : names[j] = x
      /\ \A x, y : Precedes(allNames, x, y) => Precedes(s, x, y)
      /\ \A k \in 2..before : ~ Contains(allNames, names[k]) => Follows(s, names[k - 1], names[k])
  <2>1. HasMerged(m, before, names, allNames, S)
    BY <1>2
  <2> QED BY <2>1 DEF HasMerged
<1>5. PICK w : w = MergeName(m, name, i)
  OBVIOUS
<1>6. \A j \in 1..before : j \in 1..Len(names) /\ names[j] # name
  BY <1>1, <1>3 DEF NoRepeats
<1>7. \A j \in 1..i : j \in 1..before \/ j = i
  BY <1>3
<1>8. \A k \in 2..i : k \in 2..before \/ k = i
  BY <1>3
<1>9. \A x : (\E j \in 1..i : names[j] = x) <=> (\E j \in 1..before : names[j] = x) \/ x = name
  <2>1. 1..before \subseteq 1..i /\ i \in 1..i
    BY <1>3
  <2> QED BY <1>1, <1>7, <2>1
<1>10. CASE Contains(s, name)
  <2>1. w = [m EXCEPT !.lastOffset = PlaceOf(name, s), !.lastMatch = i]
    BY <1>1, <1>5, <1>10 DEF MergeName
  <2>2. w = [all |-> s, lastOffset |-> PlaceOf(name, s), lastMatch |-> i]
    BY <1>4, <2>1
  <2>3. PlaceOf(name, s) \in 1..Len(s) /\ s[PlaceOf(name, s)] = name
    <3>1. \E k \in DOMAIN s : s[k] = name
      BY <1>4, <1>10 DEF Contains
    <3>2. DOMAIN s = 1..Len(s)
      BY <1>4
    <3> QED BY <3>1, <3>2 DEF PlaceOf
  <2>4. PICK p : p = PlaceOf(name, s)
    OBVIOUS
  <2>5. p \in Int /\ p + i - i = p
    BY <1>3, <2>3, <2>4
  <2>6. w.all = s /\ w.lastOffset = p /\ w.lastMatch = i /\ i \in Int /\ i # 0
    BY <1>3, <2>2, <2>4
  <2>7. \A x : Contains(s, x) <=> Contains(allNames, x) \/ \E j \in 1..i : names[j] = x
    BY <1>4, <1>9, <1>10
  <2>8. \A k \in 2..i : ~ Contains(allNames, names[k]) => Follows(s, names[k - 1], names[k])
    <3>1. Contains(allNames, name)
      BY <1>4, <1>6, <1>10
    <3> QED BY <1>1, <1>4, <1>8, <3>1
  <2>9. w = [all |-> w.all, lastOffset |-> w.lastOffset, lastMatch |-> w.lastMatch]
    BY <2>2, <2>4, <2>6
  <2>10. w.lastOffset + i - w.lastMatch \in 1..Len(w.all) /\ w.all[w.lastOffset + i - w.lastMatch] = name
    BY <2>3, <2>4, <2>5, <2>6
  <2>11. HasMerged(w, i, names, allNames, S)
    BY <1>1, <1>4, <2>5, <2>6, <2>7, <2>8, <2>9, <2>10 DEF HasMerged
  <2> QED BY <1>1, <1>5, <2>11
<1>11. CASE ~ Contains(s, name)
  <2>1. PICK p : p = m.lastOffset + i - m.lastMatch
    OBVIOUS
  <2>2. /\ p \in 1..(Len(s) + 1) /\ (before = 0 => p = 1)
        /\ before # 0 => p - 1 = m.lastOffset + before - m.lastMatch /\ p > 1
    <3>1. Len(s) \in Nat /\ m.lastOffset \in Int /\ m.lastMatch \in Int
      BY <1>4
    <3>2. CASE before = 0
      BY <1>3, <1>4, <2>1, <3>1, <3>2
    <3>3. CASE before # 0
      <4>1. PICK q : q = m.lastOffset + before - m.lastMatch
        OBVIOUS
      <4>2. q \in 1..Len(s) /\ p = q + 1
        BY <1>3, <1>4, <2>1, <3>1, <3>3, <4>1
      <4> QED BY <3>1, <3>3, <4>1, <4>2
    <3> QED BY <3>2, <3>3
  <2>3. PICK t : t = InsertAt(s, p, name)
    OBVIOUS
  <2>4. w = [m EXCEPT !.all = t]
    BY <1>1, <1>5, <1>11, <2>1, <2>3 DEF MergeName
  <2>5. w = [all |-> t, lastOffset |-> m.lastOffset, lastMatch |-> m.lastMatch]
    BY <1>4, <2>4
  <2>6. w.all = t /\ w.lastOffset = m.lastOffset /\ w.lastMatch = m.lastMatch
    BY <2>5
  <2>7. /\ t \in Seq(S) /\ Len(t) = Len(s) + 1 /\ t[p] = name /\ NoRepeats(t)
        /\ \A x : Contains(t, x) <=> Contains(s, x) \/ x = name
        /\ \A x, y : Precedes(s, x, y) => Precedes(t, x, y)
        /\ \A x, y : Follows(s, x, y) => Follows(t, x, y) \/ (p > 1 /\ s[p - 1] = x)
        /\ p > 1 => Follows(t, s[p - 1], name)
    BY <1>3, <1>4, <1>11, <2>2, <2>3, InsertKeeps
  <2>8. \A x : Contains(t, x) <=> Contains(allNames, x) \/ \E j \in 1..i : names[j] = x
    BY <1>4, <1>9, <2>7
  <2>9. \A x, y : Precedes(allNames, x, y) => Precedes(t, x, y)
    BY <1>4, <2>7
  <2>10. p > 1 => before # 0 /\ s[p - 1] = names[before]
    BY <1>3, <1>4, <2>2
  <2>11. ASSUME NEW k \in 2..before, ~ Contains(allNames, names[k]) PROVE Follows(t, names[k - 1], names[k])
    <3>1. Follows(s, names[k - 1], names[k])
      BY <1>4, <2>11
    <3>2. CASE p > 1 /\ s[p - 1] = names[k - 1]
      <4>1. names[before] = names[k - 1]
        BY <2>10, <3>2
      <4>2. k - 1 \in 1..Len(names) /\ before \in 1..Len(names) /\ k - 1 < before
        BY <1>3
      <4> QED BY <4>1, <4>2 DEF NoRepeats
    <3> QED BY <2>7, <3>1, <3>2
  <2>12. ASSUME i \in 2..i PROVE Follows(t, names[i - 1], names[i])
    <3>1. before # 0 /\ i - 1 = before
      BY <1>3, <2>12
    <3>2. p > 1 /\ s[p - 1] = names[before]
      BY <1>4, <2>2, <3>1
    <3>3. Follows(t, s[p - 1], name)
      BY <2>7, <3>2
    <3> QED BY <1>1, <3>1, <3>2, <3>3
  <2>13. \A k \in 2..i : ~ Contains(allNames, names[k]) => Follows(t, names[k - 1], names[k])
    BY <1>8, <2>11, <2>12
  <2>14. w = [all |-> w.all, lastOffset |-> w.lastOffset, lastMatch |-> w.lastMatch]
    BY <2>5, <2>6
  <2>15. /\ i # 0 /\ w.lastOffset + i - w.lastMatch \in 1..Len(w.all)
         /\ w.all[w.lastOffset + i - w.lastMatch] = names[i]
    <3>1. p \in 1..Len(t)
      BY <2>2, <2>7
    <3> QED BY <1>1, <1>3, <2>1, <2>6, <2>7, <3>1
  <2>16. HasMerged(w, i, names, allNames, S)
    BY <1>4, <2>6, <2>7, <2>8, <2>9, <2>13, <2>14, <2>15 DEF HasMerged
  <2> QED BY <1>1, <1>5, <2>16
<1> QED BY <1>10, <1>11

LEMMA MergeIs ==
    ASSUME NEW S, NEW names \in Seq(S), NoRepeats(names), NEW allNames \in Seq(S), NoRepeats(allNames),
           allNames # <<>>
    PROVE  \E m : HasMerged(m, Len(names), names, allNames, S) /\ mergeNamesInto(names, allNames) = m.all
<1>1. PICK n : n = Len(names) /\ n \in Nat
  OBVIOUS
<1>2. PICK f : Merges(f, n, names, allNames) /\ mergeNamesInto(names, allNames) = f[n].all
  BY <1>1, MergedBy
<1>3. f = [i \in 0..n |-> IF i = 0 THEN NewNames(allNames) ELSE MergeName(f[i - 1], names[i], i)]
  BY <1>2, Zenon DEF Merges
<1>4. PICK A : A = {k \in 0..n : HasMerged(f[k], k, names, allNames, S)}
  OBVIOUS
<1>5. 0 \in A
  <2>1. 0 \in 0..n
    BY <1>1
  <2>2. f[0] = NewNames(allNames)
    BY <1>3, <2>1
  <2>3. HasMerged(NewNames(allNames), 0, names, allNames, S)
    BY MergeBegins
  <2> QED BY <1>4, <2>1, <2>2, <2>3
<1>6. ASSUME NEW k \in 0..(n - 1), k \in A PROVE k + 1 \in A
  <2>1. PICK i : i = k + 1
    OBVIOUS
  <2>2. i \in 0..n /\ i \in 1..Len(names) /\ i # 0 /\ i - 1 = k
    BY <1>1, <2>1
  <2>3. f[i] = MergeName(f[i - 1], names[i], i)
    BY <1>3, <2>2
  <2>4. PICK m : m = f[k]
    OBVIOUS
  <2>5. HasMerged(m, i - 1, names, allNames, S)
    BY <1>4, <1>6, <2>2, <2>4
  <2>6. HasMerged(MergeName(m, names[i], i), i, names, allNames, S)
    BY <2>2, <2>5, MergeStep
  <2>7. HasMerged(f[i], i, names, allNames, S)
    BY <2>2, <2>3, <2>4, <2>6
  <2> QED BY <1>4, <2>1, <2>2, <2>7
<1>7. n \in A
  <2>1. \A k \in 0..n : k \in A
    BY <1>1, <1>5, <1>6, StepByStep
  <2> QED BY <1>1, <2>1
<1> QED BY <1>1, <1>2, <1>4, <1>7

\* All names of two files: each once, in the order of lead, and what only the last has right
\* behind the name before it there.
AllNames(all, S, first, last, lead) ==
    /\ all \in Seq(S) /\ NoRepeats(all)
    /\ \A x : Contains(all, x) <=> Contains(first, x) \/ Contains(last, x)
    /\ \A x, y : Precedes(lead, x, y) => Precedes(all, x, y)
    /\ \A k \in 2..Len(last) : ~ Contains(first, last[k]) => Follows(all, last[k - 1], last[k])

LEMMA NamesMerged ==
    ASSUME NEW S, NEW first \in Seq(S), NoRepeats(first), NEW last \in Seq(S), NoRepeats(last),
           NEW all, all = mergeNamesInto(last, mergeNamesInto(first, <<>>)),
           NEW lead, lead = IF first = <<>> THEN last ELSE first
    PROVE  AllNames(all, S, first, last, lead)
<1>1. mergeNamesInto(first, <<>>) = first
  BY DEF mergeNamesInto
<1>2. CASE first = <<>>
  <2>1. all = last
    BY <1>1, <1>2 DEF mergeNamesInto
  <2>2. \A x : ~ Contains(first, x)
    BY <1>2 DEF Contains
  <2>3. ASSUME NEW k \in 2..Len(last) PROVE Follows(last, last[k - 1], last[k])
    <3>1. k - 1 \in 1..(Len(last) - 1) /\ (k - 1) + 1 = k
      OBVIOUS
    <3> QED BY <3>1 DEF Follows
  <2> QED BY <1>2, <2>1, <2>2, <2>3 DEF AllNames
<1>3. CASE first # <<>>
  <2>1. PICK m : HasMerged(m, Len(last), last, first, S) /\ all = m.all
    BY <1>1, <1>3, MergeIs
  <2>2. /\ m.all \in Seq(S) /\ NoRepeats(m.all)
        /\ \A x : Contains(m.all, x) <=> Contains(first, x) \/ \E j \in 1..Len(last) : last[j] = x
        /\ \A x, y : Precedes(first, x, y) => Precedes(m.all, x, y)
        /\ \A k \in 2..Len(last) : ~ Contains(first, last[k]) => Follows(m.all, last[k - 1], last[k])
    BY <2>1 DEF HasMerged
  <2>3. \A x : Contains(last, x) <=> \E j \in 1..Len(last) : last[j] = x
    BY DEF Contains
  <2> QED BY <1>3, <2>1, <2>2, <2>3 DEF AllNames
<1> QED BY <1>2, <1>3

-------------------------------------------------------------------------------
(* Test file page: the rows of a table and their totals *)

\* t is a table of the subtests W of the files: below its first two rows each has one row.
Tables(t, files, W) ==
    /\ \E S : t \in Seq(S)
    /\ Len(t) >= 2
    /\ \A k \in {1, 2} : t[k] = resultsTableHeaders(files)[k]
    /\ \A k \in 3..Len(t) : /\ t[k].name \in W
                            /\ \A i \in {1, 2} : t[k].results[i] = SubtestStatus(files[i], t[k].name)
    /\ \A w \in W : \E k \in 3..Len(t) : t[k].name = w
    /\ \A j, k \in 3..Len(t) : j < k => t[j].name # t[k].name

\* The row of x stands above that of y.
Above(t, x, y) == \E a, b \in 3..Len(t) : a < b /\ t[a].name = x /\ t[b].name = y

\* A filter that keeps the first two rows.
LEMMA RowsKept ==
    ASSUME NEW t, NEW files, NEW W, Tables(t, files, W), NEW I, I \subseteq 1..Len(t), 1 \in I, 2 \in I,
           NEW V, \A k \in 3..Len(t) : k \in I <=> t[k].name \in V, V \subseteq W,
           NEW e, e = ElementsAt(t, I)
    PROVE  Tables(e, files, V) /\ \A x, y \in V : Above(t, x, y) => Above(e, x, y)
<1>1. PICK S : t \in Seq(S)
  BY DEF Tables
<1>2. e \in Seq(S) /\ Takes(e, t, I)
  BY <1>1, ElementsAtTakes
<1>3. PICK n : n = Len(e) /\ n \in Nat
  BY <1>2
<1>4. PICK p : /\ p \in [1..n -> I]
               /\ \A i \in I : \E k \in 1..n : p[k] = i
               /\ \A j, k \in 1..n : j < k => p[j] < p[k]
               /\ \A k \in 1..n : e[k] = t[p[k]]
  BY <1>2, <1>3 DEF Takes, Walks
<1>5. Len(t) \in Nat /\ \A k \in 1..n : p[k] \in I /\ p[k] \in 1..Len(t)
  <2>1. p \in [1..n -> I]
    BY <1>4
  <2>2. \A k \in 1..n : p[k] \in I
    BY <2>1
  <2>3. Len(t) \in Nat
    BY <1>1
  <2> QED BY <2>2, <2>3
<1>6. n >= 2 /\ p[1] = 1 /\ p[2] = 2
  <2>1. PICK k1 \in 1..n, k2 \in 1..n : p[k1] = 1 /\ p[k2] = 2
    BY <1>4
  <2>2. k1 = 1
    <3>1. 1 \in 1..n /\ (1 < k1 => p[1] < p[k1])
      BY <1>3, <1>4
    <3> QED BY <1>5, <2>1, <3>1
  <2>3. k2 # 1
    BY <2>1, <2>2
  <2>4. 2 \in 1..n /\ (2 < k2 => p[2] < p[k2]) /\ p[1] < p[2]
    BY <1>3, <1>4, <2>3
  <2>5. k2 = 2
    BY <1>5, <2>1, <2>2, <2>3, <2>4
  <2> QED BY <2>1, <2>2, <2>4, <2>5
<1>7. \A k \in 3..n : k \in 1..n /\ p[k] \in 3..Len(t) /\ p[k] \in I /\ e[k] = t[p[k]]
  <2> SUFFICES ASSUME NEW k \in 3..n PROVE k \in 1..n /\ p[k] \in 3..Len(t) /\ p[k] \in I /\ e[k] = t[p[k]]
    OBVIOUS
  <2>1. k \in 1..n /\ 2 \in 1..n /\ 2 < k
    BY <1>3, <1>6
  <2>2. p[2] < p[k] /\ p[k] \in 1..Len(t)
    BY <1>4, <1>5, <2>1
  <2> QED BY <1>4, <1>5, <1>6, <2>1, <2>2
<1>8. \A i \in I : i >= 3 => \E k \in 3..n : p[k] = i
  <2> SUFFICES ASSUME NEW i \in I, i >= 3 PROVE \E k \in 3..n : p[k] = i
    OBVIOUS
  <2>1. PICK k \in 1..n : p[k] = i
    BY <1>4
  <2>2. k # 1 /\ k # 2
    BY <1>6, <2>1
  <2> QED BY <1>3, <2>1, <2>2
<1>9. \A k \in {1, 2} : e[k] = t[k]
  <2>1. 1 \in 1..n /\ 2 \in 1..n
    BY <1>3, <1>6
  <2> QED BY <1>4, <1>6, <2>1
<1>10. \A j, k \in 3..n : j < k => p[j] < p[k]
  BY <1>4, <1>7
<1>11. Tables(e, files, V)
  <2>1. \A k \in {1, 2} : e[k] = resultsTableHeaders(files)[k]
    BY <1>9 DEF Tables
  <2>2. ASSUME NEW k \in 3..n
        PROVE  e[k].name \in V /\ \A i \in {1, 2} : e[k].results[i] = SubtestStatus(files[i], e[k].name)
    BY <1>7 DEF Tables
  <2>3. ASSUME NEW w \in V PROVE \E k \in 3..n : e[k].name = w
    <3>1. PICK i \in 3..Len(t) : t[i].name = w
      BY DEF Tables
    <3>2. PICK k \in 3..n : p[k] = i
      BY <1>8, <3>1
    <3> QED BY <1>7, <3>1, <3>2
  <2>4. ASSUME NEW j \in 3..n, NEW k \in 3..n, j < k PROVE e[j].name # e[k].name
    BY <1>7, <1>10, <2>4 DEF Tables
  <2> QED BY <1>2, <1>3, <1>6, <2>1, <2>2, <2>3, <2>4 DEF Tables
<1>12. ASSUME NEW x \in V, NEW y \in V, Above(t, x, y) PROVE Above(e, x, y)
  <2>1. PICK a, b \in 3..Len(t) : a < b /\ t[a].name = x /\ t[b].name = y
    BY <1>12 DEF Above
  <2>2. a \in I /\ b \in I /\ a >= 3 /\ b >= 3
    BY <2>1
  <2>3. PICK c, d \in 3..n : p[c] = a /\ p[d] = b
    BY <1>8, <2>2
  <2>4. c < d
    <3>1. d < c => p[d] < p[c]
      BY <1>10
    <3> QED BY <2>1, <2>3, <3>1
  <2> QED BY <1>3, <1>7, <2>1, <2>3, <2>4 DEF Above
<1> QED BY <1>11, <1>12

RowsOf(t, V) == {k \in 3..Len(t) : t[k].name \in V}

\* As many rows as subtests.
LEMMA RowsCount ==
    ASSUME NEW t, NEW files, NEW W, Tables(t, files, W), NEW V, V \subseteq W
    PROVE  IsFiniteSet(V) /\ IsFiniteSet(RowsOf(t, V)) /\ Cardinality(RowsOf(t, V)) = Cardinality(V)
<1>1. PICK K : K = RowsOf(t, V) /\ K = {k \in 3..Len(t) : t[k].name \in V}
  BY DEF RowsOf
<1>2. Len(t) \in Nat
  BY DEF Tables
<1>3. IsFiniteSet(K)
  <2>1. IsFiniteSet(3..Len(t)) /\ K \in SUBSET (3..Len(t))
    BY <1>1, <1>2, FS_Interval
  <2> QED BY <2>1, FS_Subset
<1>4. PICK b : b = [k \in K |-> t[k].name]
  OBVIOUS
<1>5. b \in [K -> V] /\ \A k \in K : k \in 3..Len(t) /\ b[k] = t[k].name
  BY <1>1, <1>4
<1>6. \A j, k \in K : b[j] = b[k] => j = k
  <2> SUFFICES ASSUME NEW j \in K, NEW k \in K, j # k PROVE b[j] # b[k]
    OBVIOUS
  <2>1. j < k \/ k < j
    BY <1>5
  <2> QED BY <1>5, <2>1 DEF Tables
<1>7. \A v \in V : \E k \in K : b[k] = v
  <2> SUFFICES ASSUME NEW v \in V PROVE \E k \in K : b[k] = v
    OBVIOUS
  <2>1. PICK k \in 3..Len(t) : t[k].name = v
    BY DEF Tables
  <2> QED BY <1>1, <1>4, <2>1
<1>8. b \in Bijection(K, V)
  BY <1>5, <1>6, <1>7 DEF Bijection, Injection, Surjection, IsInjective
<1>9. IsFiniteSet(V) /\ Cardinality(V) = Cardinality(K)
  BY <1>3, <1>8, FS_Bijection DEF ExistsBijection
<1> QED BY <1>1, <1>3, <1>9

LEMMA FileIs ==
    ASSUME NEW path \in TestPaths, NEW i \in {1, 2}, NEW file, file = ResultFile(path, FileRuns[i])
    PROVE  /\ SubtestNames(file) \in Seq(STRING) /\ NoRepeats(SubtestNames(file))
           /\ \A name : SubtestStatus(file, name) # "OK"
<1>1. CASE file = NoFile
  <2>1. SubtestNames(file) = <<>> /\ \A name : SubtestStatus(file, name) = Null
    BY <1>1 DEF SubtestNames, SubtestStatus
  <2> QED BY <2>1 DEF NoRepeats, Null
<1>2. CASE file # NoFile
  <2>1. PICK s, Subtest : s = file.subtests /\ Subtest = [name : STRING, status : STRING \ {"OK"}]
    OBVIOUS
  <2>2. s \in Seq(Subtest) /\ \A j, k \in DOMAIN s : j # k => s[j].name # s[k].name
    BY <1>2, <2>1, FilesAssumption
  <2>3. DOMAIN s = 1..Len(s) /\ Len(s) \in Nat /\ \A k \in 1..Len(s) : s[k] \in Subtest
    BY <2>2
  <2>4. PICK names : names = SubtestNames(file)
    OBVIOUS
  <2>5. names = [k \in 1..Len(s) |-> s[k].name]
    BY <1>2, <2>1, <2>3, <2>4 DEF SubtestNames
  <2>6. names \in Seq(STRING) /\ Len(names) = Len(s)
    BY <2>1, <2>3, <2>5
  <2>7. NoRepeats(names)
    BY <2>2, <2>3, <2>5, <2>6 DEF NoRepeats
  <2>8. ASSUME NEW name PROVE SubtestStatus(file, name) # "OK"
    <3>1. PICK mine : mine = {r \in ToSet(s) : r.name = name}
      OBVIOUS
    <3>2. SubtestStatus(file, name) = IF mine = {} THEN Null ELSE (CHOOSE r \in mine : TRUE).status
      BY <1>2, <2>1, <3>1 DEF SubtestStatus
    <3>3. \A r \in mine : r \in Subtest
      BY <2>3, <3>1 DEF ToSet
    <3>4. \A r \in mine : r.status # "OK"
      BY <2>1, <3>3
    <3>5. mine # {} => (CHOOSE r \in mine : TRUE) \in mine
      OBVIOUS
    <3> QED BY <3>2, <3>4, <3>5 DEF Null
  <2> QED BY <2>4, <2>6, <2>7, <2>8
<1> QED BY <1>1, <1>2

ResultFilesOf(path) == [i \in DOMAIN FileRuns |-> ResultFile(path, FileRuns[i])]

NamesOf(path, i) == SubtestNames(ResultFilesOf(path)[i])

LEMMA FilesAre ==
    ASSUME NEW path \in TestPaths, NEW i \in {1, 2}
    PROVE  /\ DOMAIN ResultFilesOf(path) = {1, 2}
           /\ NamesOf(path, i) \in Seq(STRING) /\ NoRepeats(NamesOf(path, i))
           /\ \A name : SubtestStatus(ResultFilesOf(path)[i], name) # "OK"
<1>1. DOMAIN ResultFilesOf(path) = {1, 2} /\ ResultFilesOf(path)[i] = ResultFile(path, FileRuns[i])
  BY FileRunsAssumption DEF ResultFilesOf
<1> QED BY <1>1, FileIs DEF NamesOf

\* The file that sets the order of the rows.
Lead(path) == IF NamesOf(path, 1) = <<>> THEN NamesOf(path, 2) ELSE NamesOf(path, 1)

LEMMA FetchedIs ==
    ASSUME NEW path \in TestPaths, NEW t, t = fetchTestFile(path)
    PROVE  /\ Tables(t, ResultFilesOf(path), ToSet(NamesOf(path, 1)) \union ToSet(NamesOf(path, 2)))
           /\ \A x, y : Precedes(Lead(path), x, y) => Above(t, x, y)
           /\ \A k \in 2..Len(NamesOf(path, 2)) :
                 NamesOf(path, 2)[k] \notin ToSet(NamesOf(path, 1)) =>
                     \E a \in 3..(Len(t) - 1) : /\ t[a].name = NamesOf(path, 2)[k - 1]
                                                /\ t[a + 1].name = NamesOf(path, 2)[k]
<1>1. PICK files, first, last : files = ResultFilesOf(path) /\ first = NamesOf(path, 1) /\ last = NamesOf(path, 2)
  OBVIOUS
<1>2. PICK all : all = mergeNamesInto(last, mergeNamesInto(first, <<>>))
  OBVIOUS
<1>3. first \in Seq(STRING) /\ NoRepeats(first) /\ last \in Seq(STRING) /\ NoRepeats(last)
  BY <1>1, FilesAre
<1>4. /\ all \in Seq(STRING) /\ NoRepeats(all)
      /\ \A x : Contains(all, x) <=> Contains(first, x) \/ Contains(last, x)
      /\ \A x, y : Precedes(Lead(path), x, y) => Precedes(all, x, y)
      /\ \A k \in 2..Len(last) : ~ Contains(first, last[k]) => Follows(all, last[k - 1], last[k])
  <2>1. PICK lead : lead = Lead(path) /\ lead = IF first = <<>> THEN last ELSE first
    BY <1>1 DEF Lead
  <2>2. AllNames(all, STRING, first, last, lead)
    BY <1>2, <1>3, <2>1, NamesMerged
  <2> QED BY <2>1, <2>2 DEF AllNames
<1>5. PICK n : n = Len(all) /\ n \in Nat /\ DOMAIN all = 1..n
  BY <1>4
<1>6. PICK rows : rows = [k \in 1..n |-> [name |-> all[k],
                              results |-> [i \in DOMAIN files |-> SubtestStatus(files[i], all[k])]]]
  OBVIOUS
<1>7. PICK head : head = resultsTableHeaders(files)
  OBVIOUS
<1>8. t = head \o rows
  <2> DEFINE f == ResultFilesOf(path)
             a == mergeNamesInto(NamesOf(path, 2), mergeNamesInto(NamesOf(path, 1), <<>>))
  <2>1. t = resultsTableHeaders(f) \o
               [k \in DOMAIN a |-> [name |-> a[k], results |-> [i \in DOMAIN f |-> SubtestStatus(f[i], a[k])]]]
    BY Zenon DEF fetchTestFile, ResultFilesOf, NamesOf
  <2>2. f = files /\ a = all
    BY <1>1, <1>2
  <2> HIDE DEF f, a
  <2>3. t = resultsTableHeaders(files) \o
               [k \in DOMAIN all |-> [name |-> all[k],
                    results |-> [i \in DOMAIN files |-> SubtestStatus(files[i], all[k])]]]
    BY <2>1, <2>2, Zenon
  <2> QED BY <1>5, <1>6, <1>7, <2>3, Zenon
<1>9. PICK one, two : head = <<one, two>>
  BY <1>7 DEF resultsTableHeaders
<1>10. PICK S : S = {one, two} \union {rows[k] : k \in 1..n}
  OBVIOUS
<1>11. head \in Seq(S) /\ rows \in Seq(S) /\ Len(rows) = n
  <2>1. one \in S /\ two \in S
    BY <1>10
  <2>2. head \in Seq(S)
    BY <1>9, <2>1
  <2>3. \A k \in 1..n : rows[k] \in S
    BY <1>10
  <2>4. rows = [k \in 1..n |-> rows[k]]
    BY <1>6
  <2> QED BY <1>5, <2>2, <2>3, <2>4
<1>12. /\ t \in Seq(S) /\ Len(t) = n + 2 /\ t[1] = head[1] /\ t[2] = head[2]
       /\ \A k \in 1..n : t[k + 2] = rows[k]
  <2>1. Len(head) = 2 /\ head[1] = one /\ head[2] = two
    BY <1>9
  <2>2. /\ t \in Seq(S) /\ Len(t) = Len(head) + Len(rows)
        /\ \A k \in 1..Len(head) : t[k] = head[k]
        /\ \A k \in 1..Len(rows) : t[Len(head) + k] = rows[k]
    BY <1>8, <1>11, ConcatAt
  <2>3. 1 \in 1..Len(head) /\ 2 \in 1..Len(head) /\ \A k \in 1..n : Len(head) + k = k + 2
    BY <1>5, <2>1
  <2> QED BY <1>5, <1>11, <2>1, <2>2, <2>3
<1>13. \A k \in 3..Len(t) : k - 2 \in 1..n /\ (k - 2) + 2 = k /\ t[k] = rows[k - 2]
  BY <1>5, <1>12
<1>14. DOMAIN files = {1, 2}
  BY <1>1, FilesAre
<1>15. \A k \in 1..n : /\ rows[k].name = all[k]
                       /\ \A i \in {1, 2} : rows[k].results[i] = SubtestStatus(files[i], all[k])
  BY <1>6, <1>14
<1>16. PICK W : W = ToSet(first) \union ToSet(last)
  OBVIOUS
<1>17. \A x : x \in W <=> \E k \in 1..n : all[k] = x
  <2>1. \A x : x \in ToSet(first) <=> Contains(first, x)
    BY <1>3, SetOf DEF Contains
  <2>2. \A x : x \in ToSet(last) <=> Contains(last, x)
    BY <1>3, SetOf DEF Contains
  <2> QED BY <1>4, <1>5, <1>16, <2>1, <2>2 DEF Contains
<1>18. Tables(t, files, W)
  <2>1. \A k \in {1, 2} : t[k] = resultsTableHeaders(files)[k]
    BY <1>7, <1>12
  <2>2. \A k \in 3..Len(t) : /\ t[k].name \in W
                             /\ \A i \in {1, 2} : t[k].results[i] = SubtestStatus(files[i], t[k].name)
    BY <1>13, <1>15, <1>17
  <2>3. ASSUME NEW w \in W PROVE \E k \in 3..Len(t) : t[k].name = w
    <3>1. PICK k \in 1..n : all[k] = w
      BY <1>17
    <3>2. k + 2 \in 3..Len(t)
      BY <1>5, <1>12
    <3> QED BY <1>12, <1>15, <3>1, <3>2
  <2>4. ASSUME NEW j \in 3..Len(t), NEW k \in 3..Len(t), j < k PROVE t[j].name # t[k].name
    <3>1. j - 2 \in 1..n /\ k - 2 \in 1..n /\ j - 2 < k - 2
      BY <1>13, <2>4
    <3>2. all[j - 2] # all[k - 2]
      BY <1>4, <1>5, <3>1 DEF NoRepeats
    <3> QED BY <1>13, <1>15, <3>1, <3>2
  <2>5. Len(t) >= 2 /\ \E U : t \in Seq(U)
    BY <1>5, <1>12
  <2> QED BY <2>1, <2>2, <2>3, <2>4, <2>5 DEF Tables
<1>19. ASSUME NEW x, NEW y, Precedes(Lead(path), x, y) PROVE Above(t, x, y)
  <2>1. PICK a, b \in 1..n : a < b /\ all[a] = x /\ all[b] = y
    BY <1>4, <1>5, <1>19 DEF Precedes
  <2>2. a + 2 \in 3..Len(t) /\ b + 2 \in 3..Len(t) /\ a + 2 < b + 2
    BY <1>5, <1>12, <2>1
  <2> QED BY <1>12, <1>15, <2>1, <2>2 DEF Above
<1>20. ASSUME NEW k \in 2..Len(last), last[k] \notin ToSet(first)
       PROVE  \E a \in 3..(Len(t) - 1) : t[a].name = last[k - 1] /\ t[a + 1].name = last[k]
  <2>1. ~ Contains(first, last[k])
    BY <1>3, <1>20, SetOf DEF Contains
  <2>2. PICK a \in 1..(n - 1) : all[a] = last[k - 1] /\ all[a + 1] = last[k]
    BY <1>4, <1>5, <2>1 DEF Follows
  <2>3. a \in 1..n /\ a + 1 \in 1..n /\ a + 2 \in 3..(Len(t) - 1) /\ (a + 2) + 1 = (a + 1) + 2
    BY <1>5, <1>12
  <2> QED BY <1>12, <1>15, <2>2, <2>3
<1> QED BY <1>1, <1>16, <1>18, <1>19, <1>20

LEMMA PlaceIs ==
    ASSUME NEW t, NEW files, NEW W, Tables(t, files, W), NEW a \in 3..Len(t), NEW w, t[a].name = w
    PROVE  (CHOOSE k \in 3..Len(t) : t[k].name = w) = a
<1>1. \A j, k \in 3..Len(t) : j < k => t[j].name # t[k].name
  BY DEF Tables
<1>2. ASSUME NEW k \in 3..Len(t), t[k].name = w PROVE k = a
  <2>1. (k < a => t[k].name # t[a].name) /\ (a < k => t[a].name # t[k].name)
    BY <1>1
  <2> QED BY <1>2, <2>1
<1> QED BY <1>2

\* The subtests that are wanted: all, or those that the search found.
WantedOf(path, search) == Wanted(ResultFilesOf(path), Found(path, search))

LEMMA WantedIs ==
    ASSUME NEW path \in TestPaths, NEW search,
           NEW names, names = ToSet(NamesOf(path, 1)) \union ToSet(NamesOf(path, 2))
    PROVE  WantedOf(path, search) = IF Found(path, search) = NotListed THEN names
                                    ELSE names \intersect Found(path, search)
<1>1. PICK files, all : files = ResultFilesOf(path) /\ all = UNION {ToSet(SubtestNames(files[i])) : i \in DOMAIN files}
  OBVIOUS
<1>2. DOMAIN files = {1, 2}
  BY <1>1, FilesAre
<1>3. NamesOf(path, 1) = SubtestNames(files[1]) /\ NamesOf(path, 2) = SubtestNames(files[2])
  BY <1>1 DEF NamesOf
<1>4. all = names
  BY <1>1, <1>2, <1>3
<1> QED BY <1>1, <1>4 DEF WantedOf, Wanted

LEMMA FilteredIs ==
    ASSUME NEW path \in TestPaths, NEW search, NEW t, t = TableOf(path, search),
           NEW W, W = WantedOf(path, search)
    PROVE  /\ Tables(t, ResultFilesOf(path), W)
           /\ \A x, y \in W : Precedes(Lead(path), x, y) => Above(t, x, y)
           /\ Found(path, search) = NotListed =>
                 \A k \in 2..Len(NamesOf(path, 2)) :
                     NamesOf(path, 2)[k] \notin ToSet(NamesOf(path, 1)) =>
                         \E a \in 3..(Len(t) - 1) : /\ t[a].name = NamesOf(path, 2)[k - 1]
                                                    /\ t[a + 1].name = NamesOf(path, 2)[k]
<1>1. PICK all, names, found : /\ all = fetchTestFile(path) /\ found = Found(path, search)
                               /\ names = ToSet(NamesOf(path, 1)) \union ToSet(NamesOf(path, 2))
  OBVIOUS
<1>2. Tables(all, ResultFilesOf(path), names) /\ \A x, y : Precedes(Lead(path), x, y) => Above(all, x, y)
  BY <1>1, FetchedIs
<1>3. t = filterResultsTableBySearch(all, found) /\ W = IF found = NotListed THEN names ELSE names \intersect found
  BY <1>1, WantedIs DEF TableOf
<1>4. CASE found = NotListed
  <2>1. t = all /\ W = names
    BY <1>3, <1>4 DEF filterResultsTableBySearch
  <2> QED BY <1>1, <1>2, <2>1, FetchedIs
<1>5. CASE found # NotListed
  <2>1. PICK I : I = {k \in 1..Len(all) : k <= 2 \/ all[k].name \in found}
    OBVIOUS
  <2>2. DOMAIN all = 1..Len(all) /\ Len(all) \in Nat /\ Len(all) >= 2
    BY <1>2 DEF Tables
  <2>3. t = ElementsAt(all, I)
    BY <1>3, <1>5, <2>1, <2>2 DEF filterResultsTableBySearch
  <2>4. I \subseteq 1..Len(all) /\ 1 \in I /\ 2 \in I
    BY <2>1, <2>2
  <2>5. W = names \intersect found /\ W \subseteq names
    BY <1>3, <1>5
  <2>6. \A k \in 3..Len(all) : k \in I <=> all[k].name \in W
    <3>1. \A k \in 3..Len(all) : all[k].name \in names
      BY <1>2 DEF Tables
    <3> QED BY <2>1, <2>2, <2>5, <3>1
  <2>7. Tables(t, ResultFilesOf(path), W) /\ \A x, y \in W : Above(all, x, y) => Above(t, x, y)
    BY <1>2, <2>3, <2>4, <2>5, <2>6, RowsKept
  <2> QED BY <1>1, <1>2, <1>5, <2>7
<1> QED BY <1>4, <1>5

\* The subtests shown: those wanted, or of them those whose results differ.
ShownOf(files, W, differences) ==
    IF differences THEN {w \in W : SubtestStatus(files[1], w) # SubtestStatus(files[2], w)} ELSE W

LEMMA RowsAre ==
    ASSUME NEW t, NEW files, NEW W, Tables(t, files, W), NEW differences,
           NEW rows, rows = computeRows(t, differences), Len(rows) > 2, rows[2] = t[2]
    PROVE  Tables(rows, files, ShownOf(files, W, differences))
<1>1. CASE ~ differences
  BY <1>1 DEF computeRows, ShownOf
<1>2. CASE differences
  <2>1. PICK I : I = {k \in 1..Len(t) : k = 1 \/ t[k].results[1] # t[k].results[2]}
    OBVIOUS
  <2>2. PICK S : t \in Seq(S)
    BY DEF Tables
  <2>3. DOMAIN t = 1..Len(t) /\ Len(t) \in Nat /\ Len(t) >= 2
    BY <2>2 DEF Tables
  <2>4. rows = ElementsAt(t, I)
    BY <1>2, <2>1, <2>3 DEF computeRows
  <2>5. I \subseteq 1..Len(t) /\ 1 \in I
    BY <2>1, <2>3
  \* If the row of durations were not kept, a later one would be second, and not be the same.
  <2>6. 2 \in I
    <3>1. rows \in Seq(S) /\ Takes(rows, t, I)
      BY <2>2, <2>4, <2>5, ElementsAtTakes
    <3>2. PICK p : Walks(p, Len(rows), I) /\ \A k \in 1..Len(rows) : rows[k] = t[p[k]]
      BY <3>1 DEF Takes
    <3>3. 1 \in 1..Len(rows) /\ 2 \in 1..Len(rows)
      BY <3>1
    <3>4. p[1] \in I /\ p[2] \in I /\ p[1] < p[2] /\ rows[2] = t[p[2]]
      BY <3>2, <3>3 DEF Walks
    <3>5. p[2] # 1
      <4>1. p[1] \in 1..Len(t) /\ p[2] \in 1..Len(t)
        BY <2>5, <3>4
      <4> QED BY <2>3, <3>4, <4>1
    <3>6. t[2].results[1] # t[2].results[2]
      BY <2>1, <3>4, <3>5
    <3> QED BY <2>1, <2>3, <3>6
  <2>7. PICK V : V = {w \in W : SubtestStatus(files[1], w) # SubtestStatus(files[2], w)}
    OBVIOUS
  <2>8. \A k \in 3..Len(t) : k \in I <=> t[k].name \in V
    <3>1. \A k \in 3..Len(t) : /\ t[k].name \in W
                               /\ t[k].results[1] = SubtestStatus(files[1], t[k].name)
                               /\ t[k].results[2] = SubtestStatus(files[2], t[k].name)
      BY DEF Tables
    <3> QED BY <2>1, <2>3, <2>7, <3>1
  <2>9. Tables(rows, files, V)
    BY <2>4, <2>5, <2>6, <2>7, <2>8, RowsKept
  <2> QED BY <1>2, <2>7, <2>9 DEF ShownOf
<1> QED BY <1>1, <1>2

\* The totals, the signs and the number of subtests, of a table with its first two rows.
TotalsTell(t, files, W) ==
    /\ \A i \in {1, 2} : computeTotals(t)[i].passes = Cardinality({w \in W : SubtestStatus(files[i], w) = "PASS"})
    /\ computeTotals(t)[2].passes - computeTotals(t)[1].passes
          = Cardinality({k \in 3..Len(t) : diffDisplay(t[k].results) = "+1"})
            - Cardinality({k \in 3..Len(t) : diffDisplay(t[k].results) = "-1"})
    /\ subtestRowCount(t) = Cardinality(W)

LEMMA TotalsAre ==
    ASSUME NEW t, NEW files, NEW W, Tables(t, files, W), Len(t) > 2, DOMAIN files = {1, 2},
           \A i \in {1, 2}, name \in W : SubtestStatus(files[i], name) # "OK"
    PROVE  TotalsTell(t, files, W)
<1>1. PICK V : V = [i \in {1, 2} |-> {w \in W : SubtestStatus(files[i], w) = "PASS"}]
  OBVIOUS
<1>2. \A i \in {1, 2} : V[i] \subseteq W /\ \A w \in W : w \in V[i] <=> SubtestStatus(files[i], w) = "PASS"
  BY <1>1
<1>3. \A k \in 3..Len(t) : /\ t[k].name \in W
                           /\ \A i \in {1, 2} : t[k].results[i] = SubtestStatus(files[i], t[k].name)
  BY DEF Tables
<1>4. Len(t) \in Nat /\ t[1] = resultsTableHeaders(files)[1] /\ t[2] = resultsTableHeaders(files)[2]
  BY DEF Tables
<1>5. \A i \in {1, 2} : IsFiniteSet(V[i]) /\ Cardinality(RowsOf(t, V[i])) = Cardinality(V[i])
  BY <1>2, RowsCount
<1>6. ASSUME NEW i \in {1, 2} PROVE computeTotals(t)[i].passes = Cardinality(V[i])
  <2>1. t[1].results = [j \in {1, 2} |-> Field(files[j], "status")]
    BY <1>4 DEF resultsTableHeaders
  <2>2. DOMAIN t[1].results = {1, 2} /\ ~ (Len(t) <= 2)
    BY <1>4, <2>1
  <2>3. computeTotals(t)[i].passes = Cardinality({k \in 3..Len(t) : t[k].results[i] = "PASS"})
    BY <2>2 DEF computeTotals
  <2>4. {k \in 3..Len(t) : t[k].results[i] = "PASS"} = RowsOf(t, V[i])
    BY <1>2, <1>3 DEF RowsOf
  <2> QED BY <1>5, <2>3, <2>4
<1>7. \A k \in 3..Len(t) : /\ diffDisplay(t[k].results) = "+1" <=> t[k].name \in V[2] \ V[1]
                           /\ diffDisplay(t[k].results) = "-1" <=> t[k].name \in V[1] \ V[2]
  <2> SUFFICES ASSUME NEW k \in 3..Len(t)
               PROVE  /\ diffDisplay(t[k].results) = "+1" <=> t[k].name \in V[2] \ V[1]
                      /\ diffDisplay(t[k].results) = "-1" <=> t[k].name \in V[1] \ V[2]
    OBVIOUS
  <2>1. PICK one, two : one = t[k].results[1] /\ two = t[k].results[2]
    OBVIOUS
  <2>2. one # "OK" /\ two # "OK"
    BY <1>3, <2>1
  <2>3. (t[k].name \in V[1] <=> one = "PASS") /\ (t[k].name \in V[2] <=> two = "PASS")
    BY <1>2, <1>3, <2>1
  <2>4. diffDisplay(t[k].results) =
            CASE one = two -> ""
              [] one \in {"OK", "PASS"} /\ two \notin {"OK", "PASS"} -> "-1"
              [] two \in {"OK", "PASS"} /\ one \notin {"OK", "PASS"} -> "+1"
              [] OTHER -> "0"
    BY <2>1 DEF diffDisplay
  <2> QED BY <2>2, <2>3, <2>4
<1>8. /\ {k \in 3..Len(t) : diffDisplay(t[k].results) = "+1"} = RowsOf(t, V[2] \ V[1])
      /\ {k \in 3..Len(t) : diffDisplay(t[k].results) = "-1"} = RowsOf(t, V[1] \ V[2])
  BY <1>7 DEF RowsOf
<1>9. /\ Cardinality(RowsOf(t, V[2] \ V[1])) = Cardinality(V[2] \ V[1])
      /\ Cardinality(RowsOf(t, V[1] \ V[2])) = Cardinality(V[1] \ V[2])
  <2>1. PICK more, less : more = V[2] \ V[1] /\ less = V[1] \ V[2]
    OBVIOUS
  <2>2. more \subseteq W /\ less \subseteq W
    BY <1>2, <2>1
  <2>3. Cardinality(RowsOf(t, more)) = Cardinality(more)
    BY <2>2, RowsCount
  <2>4. Cardinality(RowsOf(t, less)) = Cardinality(less)
    BY <2>2, RowsCount
  <2> QED BY <2>1, <2>3, <2>4
<1>10. Cardinality(V[2]) - Cardinality(V[1]) = Cardinality(V[2] \ V[1]) - Cardinality(V[1] \ V[2])
  <2>1. V[1] \cap V[2] = V[2] \cap V[1]
    OBVIOUS
  <2>2. /\ Cardinality(V[2] \ V[1]) = Cardinality(V[2]) - Cardinality(V[2] \cap V[1])
        /\ Cardinality(V[1] \ V[2]) = Cardinality(V[1]) - Cardinality(V[2] \cap V[1])
    BY <1>5, <2>1, FS_Difference
  <2>3. Cardinality(V[2]) \in Nat /\ Cardinality(V[1]) \in Nat /\ Cardinality(V[2] \cap V[1]) \in Nat
    BY <1>5, FS_CardinalityType, FS_Intersection
  <2> QED BY <2>2, <2>3
<1>11. computeTotals(t)[2].passes - computeTotals(t)[1].passes
           = Cardinality({k \in 3..Len(t) : diffDisplay(t[k].results) = "+1"})
             - Cardinality({k \in 3..Len(t) : diffDisplay(t[k].results) = "-1"})
  BY <1>6, <1>8, <1>9, <1>10
<1>12. subtestRowCount(t) = Cardinality(W)
  <2>1. t[2].name = "Duration"
    BY <1>4 DEF resultsTableHeaders
  <2>2. subtestRowCount(t) = Len(t) - 2
    BY <2>1 DEF subtestRowCount
  <2>3. Cardinality(RowsOf(t, W)) = Cardinality(W)
    BY RowsCount
  <2>4. RowsOf(t, W) = 3..Len(t)
    BY <1>3 DEF RowsOf
  <2>5. Cardinality(3..Len(t)) = Len(t) - 2
    BY <1>4, FS_Interval
  <2> QED BY <2>2, <2>3, <2>4, <2>5
<1>13. \A i \in {1, 2} : computeTotals(t)[i].passes = Cardinality({w \in W : SubtestStatus(files[i], w) = "PASS"})
  <2>1. \A i \in {1, 2} : V[i] = {w \in W : SubtestStatus(files[i], w) = "PASS"}
    BY <1>1
  <2> QED BY <1>6, <2>1
<1> QED BY <1>11, <1>12, <1>13, Zenon DEF TotalsTell

\* What TestTableIsTrue says of the table of a path and a search.
LEMMA TableIsTrueOf ==
    ASSUME NEW path \in TestPaths, NEW search, NEW differences, NEW t, t = TableOf(path, search),
           NEW files, files = ResultFilesOf(path), NEW found, found = Found(path, search)
    PROVE  TableTells(t, files, found, differences)
<1> DEFINE W == Wanted(files, found)
           rows == computeRows(t, differences)
           shown == ShownOf(files, W, differences)
           first == SubtestNames(files[1])
           last == SubtestNames(files[2])
           lead == IF first = <<>> THEN last ELSE first
           Place(name) == CHOOSE k \in 3..Len(t) : t[k].name = name
<1>1. /\ W = WantedOf(path, search) /\ lead = Lead(path) /\ lead \in Seq(STRING)
      /\ first = NamesOf(path, 1) /\ last = NamesOf(path, 2) /\ DOMAIN files = {1, 2}
  <2>1. NamesOf(path, 1) \in Seq(STRING) /\ NamesOf(path, 2) \in Seq(STRING) /\ DOMAIN files = {1, 2}
    BY FilesAre
  <2> QED BY <2>1 DEF WantedOf, NamesOf, Lead
<1> HIDE DEF W, first, last, lead
<1>2. /\ Tables(t, files, W)
      /\ \A x, y \in W : Precedes(lead, x, y) => Above(t, x, y)
      /\ found = NotListed => \A k \in 2..Len(last) :
            last[k] \notin ToSet(first) =>
                \E a \in 3..(Len(t) - 1) : t[a].name = last[k - 1] /\ t[a + 1].name = last[k]
  BY <1>1, FilteredIs
<1>3. \A a \in 3..Len(t) : \A w : t[a].name = w => Place(w) = a
  BY <1>2, PlaceIs
<1>4. Len(t) \in Nat /\ Len(t) >= 2
  BY <1>2 DEF Tables
<1>5. /\ \A k \in 3..Len(t) : t[k].name \in W /\ \A i \in {1, 2} : t[k].results[i] = SubtestStatus(files[i], t[k].name)
      /\ \A w \in W : \E k \in 3..Len(t) : t[k].name = w
  BY <1>2 DEF Tables
<1>6. {t[k].name : k \in 3..Len(t)} = W
  BY <1>5
<1>7. Len(t) = Cardinality(W) + 2
  <2>1. Cardinality(RowsOf(t, W)) = Cardinality(W)
    BY <1>2, RowsCount
  <2>2. RowsOf(t, W) = 3..Len(t)
    BY <1>5 DEF RowsOf
  <2>3. Cardinality(3..Len(t)) = Len(t) - 2
    BY <1>4, FS_Interval
  <2>4. Cardinality(W) = Len(t) - 2
    BY <2>1, <2>2, <2>3
  <2> QED BY <1>4, <2>4
<1> HIDE DEF Place, rows, shown
<1>8. ASSUME NEW j \in DOMAIN lead, NEW k \in DOMAIN lead, j < k, {lead[j], lead[k]} \subseteq W
      PROVE  Place(lead[j]) < Place(lead[k])
  <2>1. Precedes(lead, lead[j], lead[k])
    BY <1>1, <1>8 DEF Precedes
  <2>2. lead[j] \in W /\ lead[k] \in W
    BY <1>8
  <2>3. PICK a, b \in 3..Len(t) : a < b /\ t[a].name = lead[j] /\ t[b].name = lead[k]
    BY <1>2, <2>1, <2>2 DEF Above
  <2> QED BY <1>3, <2>3
<1>9. ASSUME found = NotListed, NEW k \in 2..Len(last), last[k] \notin ToSet(first)
      PROVE  Place(last[k]) = Place(last[k - 1]) + 1
  <2>1. PICK a \in 3..(Len(t) - 1) : t[a].name = last[k - 1] /\ t[a + 1].name = last[k]
    BY <1>2, <1>9
  <2>2. a \in 3..Len(t) /\ a + 1 \in 3..Len(t)
    BY <1>4
  <2>3. Place(last[k - 1]) = a /\ Place(last[k]) = a + 1
    BY <1>3, <2>1, <2>2
  <2> QED BY <2>3
<1>10. ASSUME Len(rows) > 2, rows[2] = t[2] PROVE TotalsTell(rows, files, shown)
  <2>1. Tables(rows, files, shown)
    BY <1>2, <1>10, RowsAre DEF rows, shown
  <2>2. \A i \in {1, 2}, name \in shown : SubtestStatus(files[i], name) # "OK"
    BY FilesAre
  <2> QED BY <1>1, <1>10, <2>1, <2>2, TotalsAre
<1>11. \A k \in 3..Len(t), i \in DOMAIN files : t[k].results[i] = SubtestStatus(files[i], t[k].name)
  BY <1>1, <1>5
<1>12. Len(rows) > 2 /\ rows[2] = t[2] =>
          /\ \A i \in DOMAIN files :
                computeTotals(rows)[i].passes = Cardinality({w \in shown : SubtestStatus(files[i], w) = "PASS"})
          /\ computeTotals(rows)[2].passes - computeTotals(rows)[1].passes
                = Cardinality({k \in 3..Len(rows) : diffDisplay(rows[k].results) = "+1"})
                  - Cardinality({k \in 3..Len(rows) : diffDisplay(rows[k].results) = "-1"})
          /\ subtestRowCount(rows) = Cardinality(shown)
  BY <1>1, <1>10, Zenon DEF TotalsTell
<1>13. \A j, k \in DOMAIN lead : j < k /\ {lead[j], lead[k]} \subseteq W => Place(lead[j]) < Place(lead[k])
  BY <1>8, Zenon
<1>14. found = NotListed => \A k \in 2..Len(last) :
          last[k] \notin ToSet(first) => Place(last[k]) = Place(last[k - 1]) + 1
  BY <1>9, Zenon
<1> QED BY <1>6, <1>7, <1>11, <1>12, <1>13, <1>14, Zenon
        DEF TableTells, W, rows, shown, first, last, lead, Place, ShownOf

LEMMA FileInvIsTrue == FileInv => TestTableIsTrue
<1> SUFFICES ASSUME FileInv, fileLoads = {}, "mixed" \notin fileExcused PROVE TestTableIsTrue
  BY DEF TestTableIsTrue
<1>1. PICK path, search, t : path = filePage.path /\ search = filePage.search /\ t = filePage.resultsTable
  OBVIOUS
<1>2. path \in TestPaths /\ t = IF "failed" \in fileExcused THEN <<>> ELSE TableOf(path, search)
  BY <1>1 DEF FileInv, TableIsOfThePage
<1>3. CASE "failed" \in fileExcused
  BY <1>1, <1>2, <1>3 DEF TestTableIsTrue
<1>4. CASE "failed" \notin fileExcused
  <2>1. TableTells(t, ResultFilesOf(path), Found(path, search), filePage.onlyShowDifferences)
    BY <1>2, <1>4, TableIsTrueOf
  <2>2. TableTells(filePage.resultsTable, ResultFilesOf(filePage.path), Found(filePage.path, filePage.search),
                   filePage.onlyShowDifferences)
    BY <1>1, <2>1
  <2> QED BY <1>4, <2>2, Zenon DEF TestTableIsTrue, ResultFilesOf
<1> QED BY <1>3, <1>4

\* test-file-results and its table: whatever paths and searches are asked for, once the loads
\* have ended the table has the row of each subtest that some run has and the search found,
\* once, with its results and in the order of the files, and the totals and signs count those
\* shown; it is empty after a failure; as long as no load overlapped another.
THEOREM TestTablesAreTrue == FilePageSpec => []TestTableIsTrue
<1>1. QED
  BY FileInvIsTrue, FileInitKeeps, FileNextKeeps, PTL DEF FilePageSpec

===============================================================================
