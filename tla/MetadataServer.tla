----------------------------- MODULE MetadataServer ------------------------------
(* The server's side of triage: /api/metadata/triage makes a pull request of the  *)
(* wpt-metadata repository and keeps what it is about in Redis as pending; the    *)
(* search cache's poller removes it when the pull request is closed; /api/metadata *)
(* serves the repository through a cache in Redis.  A page shows both.            *)
(*                                                                                 *)
(* A triage adds one link to the META.yml of a folder.  Time passes in ticks; a    *)
(* request that reads the repository is quicker than a tick, and what lasts less   *)
(* than a tick is not seen.                                                        *)
EXTENDS Integers

CONSTANTS
    Triages,        \* the triages users send
    FolderOf,       \* FolderOf[t]: the folder of the test that triage t is about
    PollInterval,   \* ticks from one poll to the next (main.go)
    CacheExpiry,    \* metadataCacheExpiry in ticks (metadata_cache.go)
    NotCached

\* Both are ten minutes.
ASSUME ExpiryAssumption ==
    PollInterval \in Nat /\ CacheExpiry \in Nat \ {0} /\ CacheExpiry <= PollInterval

ASSUME NotCachedAssumption ==
    NotCached \notin [content : [{FolderOf[t] : t \in Triages} -> SUBSET Triages], left : 1 .. CacheExpiry]

VARIABLES
    master,         \* folder |-> the links in its META.yml
    triage,         \* triage |-> where its request is, and the commit it is based on
    pr,             \* triage |-> its pull request: state, and the file before and after
    pendingSet,     \* WPT-PENDING-METADATA in Redis
    pendingMaps,    \* the PENDING-PR- objects in Redis
    cached,         \* WPT-METADATA in Redis: the content of a commit, with the ticks left
    reader,         \* a request to /api/metadata that missed the cache
    toBeRemovedPRs,
    poller,         \* what the poll is at, with the pull requests it has still to look at
    pollIn          \* ticks to the next poll

serverVars == <<master, triage, pr, pendingSet, pendingMaps, cached, reader,
                toBeRemovedPRs, poller, pollIn>>

repoVars == <<master, pr>>
redisVars == <<pendingSet, pendingMaps, cached>>
pollVars == <<toBeRemovedPRs, poller, pollIn>>

ServerFolders == {FolderOf[t] : t \in Triages}

ServerInit ==
    /\ master = [f \in ServerFolders |-> {}]
    /\ triage = [t \in Triages |-> [at |-> "unsent", base |-> master]]
    /\ pr = [t \in Triages |-> [state |-> "none", before |-> {}, after |-> {}]]
    /\ pendingSet = {} /\ pendingMaps = {}
    /\ cached = NotCached
    /\ reader = [at |-> "idle", base |-> master]
    /\ toBeRemovedPRs = {}
    /\ poller = [at |-> "asleep", prs |-> {}, closed |-> {}]
    /\ pollIn = PollInterval

-------------------------------------------------------------------------------
(* webappMetadataFetcher *)

\* The archive of the commit is downloaded and put in Redis; failing to put it is not fatal.
Fill(base) ==
    cached' \in {cached, [content |-> base, left |-> CacheExpiry]}

\* A request for metadata that is not in Redis asks for the SHA of the master branch.
ReadMetadata ==
    /\ reader.at = "idle" /\ cached = NotCached
    /\ reader' = [at |-> "archive", base |-> master]
    /\ UNCHANGED <<repoVars, triage, redisVars, pollVars>>

ReadArchive ==
    /\ reader.at = "archive"
    /\ Fill(reader.base)
    /\ reader' = [reader EXCEPT !.at = "idle"]
    /\ UNCHANGED <<repoVars, triage, pendingSet, pendingMaps, pollVars>>

-------------------------------------------------------------------------------
(* handleMetadataTriage *)

To(t, next) == triage' = [triage EXCEPT ![t].at = next]

\* A triage starts from the head of the repository, not from Redis (forceUpdate).
TriageSHA(t) ==
    /\ triage[t].at = "unsent"
    /\ triage' = [triage EXCEPT ![t] = [at |-> "archive", base |-> master]]
    /\ UNCHANGED <<repoVars, redisVars, reader, pollVars>>

TriageArchive(t) ==
    /\ triage[t].at = "archive"
    /\ \/ Fill(triage[t].base) /\ To(t, "create")
       \/ To(t, "failed") /\ UNCHANGED cached
    /\ UNCHANGED <<repoVars, pendingSet, pendingMaps, reader, pollVars>>

\* Mutation: the files are taken from Redis although the branch starts from the new SHA.
FilesFromCache(t) ==
    (IF cached = NotCached THEN triage[t].base ELSE cached.content)[FolderOf[t]] \union {t}

\* addToFiles: the link is added to what the archive of the commit has.
FilesOf(t) == triage[t].base[FolderOf[t]] \union {t}

\* createWPTMetadataPR: a branch from the commit, a tree with the file, a pull request.
\* When its label cannot be added, the triage fails although the pull request is there.
CreatePR(t) ==
    /\ triage[t].at = "create"
    /\ \/ /\ pr' = [pr EXCEPT ![t] = [state |-> "open", before |-> triage[t].base[FolderOf[t]],
                                      after |-> FilesOf(t)]]
          /\ To(t, "add") \/ To(t, "failed")
       \/ To(t, "failed") /\ UNCHANGED pr
    /\ UNCHANGED <<master, redisVars, reader, pollVars>>

\* The number goes to the set and the links to an object.  A failure is only logged.
AddPending(t) ==
    /\ triage[t].at = "add"
    /\ \/ pendingSet' = pendingSet \union {t} /\ To(t, "put")
       \/ To(t, "unnoted") /\ UNCHANGED pendingSet
    /\ UNCHANGED <<repoVars, pendingMaps, cached, reader, pollVars>>

PutPending(t) ==
    /\ triage[t].at = "put"
    /\ \/ pendingMaps' = pendingMaps \union {t} /\ To(t, "noted")
       \/ To(t, "unnoted") /\ UNCHANGED pendingMaps
    /\ UNCHANGED <<repoVars, pendingSet, cached, reader, pollVars>>

-------------------------------------------------------------------------------
(* GitHub *)

\* A pull request whose file has changed on the branch since is in conflict.
Merge(t) ==
    /\ pr[t].state = "open" /\ master[FolderOf[t]] = pr[t].before
    /\ master' = [master EXCEPT ![FolderOf[t]] = pr[t].after]
    /\ pr' = [pr EXCEPT ![t].state = "merged"]
    /\ UNCHANGED <<triage, redisVars, reader, pollVars>>

Close(t) ==
    /\ pr[t].state = "open"
    /\ pr' = [pr EXCEPT ![t].state = "closed"]
    /\ UNCHANGED <<master, triage, redisVars, reader, pollVars>>

-------------------------------------------------------------------------------
(* cleanOrphanedPendingMetadata *)

Sleep == poller' = [at |-> "asleep", prs |-> {}, closed |-> {}] /\ pollIn' = PollInterval

\* What was seen closed in the poll before is removed, as far as Redis answers.
RemoveOrphans ==
    /\ poller.at = "asleep" /\ pollIn = 0
    /\ \E left \in SUBSET toBeRemovedPRs : pendingSet' = pendingSet \ left
    /\ \E left \in SUBSET toBeRemovedPRs : pendingMaps' = pendingMaps \ left
    /\ poller' = [poller EXCEPT !.at = "list"]
    /\ UNCHANGED <<repoVars, triage, cached, reader, toBeRemovedPRs, pollIn>>

ListPRs ==
    /\ poller.at = "list"
    /\ \/ poller' = [at |-> "check", prs |-> pendingSet, closed |-> {}] /\ UNCHANGED pollIn
       \/ Sleep
    /\ UNCHANGED <<repoVars, triage, redisVars, reader, toBeRemovedPRs>>

\* Mutation: what is seen closed is removed at once.
CheckPRAndRemove(t) ==
    /\ poller.at = "check" /\ t \in poller.prs
    /\ poller' = [poller EXCEPT !.prs = @ \ {t}]
    /\ pendingSet' = IF pr[t].state \in {"merged", "closed"} THEN pendingSet \ {t} ELSE pendingSet
    /\ UNCHANGED <<repoVars, triage, pendingMaps, cached, reader, toBeRemovedPRs, pollIn>>

\* The state of a pull request; one that cannot be asked for is left for the next poll.
CheckPR(t) ==
    /\ poller.at = "check" /\ t \in poller.prs
    /\ \/ /\ pr[t].state \in {"merged", "closed"}
          /\ poller' = [poller EXCEPT !.prs = @ \ {t}, !.closed = @ \union {t}]
       \/ poller' = [poller EXCEPT !.prs = @ \ {t}]
    /\ UNCHANGED <<repoVars, triage, redisVars, reader, toBeRemovedPRs, pollIn>>

EndPoll ==
    /\ poller.at = "check" /\ poller.prs = {}
    /\ toBeRemovedPRs' = poller.closed
    /\ Sleep
    /\ UNCHANGED <<repoVars, triage, redisVars, reader>>

\* The search cache starts again and polls at once; what it was to remove is forgotten.
RestartPoller ==
    /\ toBeRemovedPRs' = {}
    /\ poller' = [at |-> "asleep", prs |-> {}, closed |-> {}] /\ pollIn' = 0
    /\ UNCHANGED <<repoVars, triage, redisVars, reader>>

-------------------------------------------------------------------------------
Tick ==
    /\ pollIn > 0 /\ reader.at = "idle" /\ \A t \in Triages : triage[t].at # "archive"
    /\ pollIn' = pollIn - 1
    /\ cached' = IF cached = NotCached THEN cached
                 ELSE IF cached.left = 1 THEN NotCached ELSE [cached EXCEPT !.left = @ - 1]
    /\ UNCHANGED <<repoVars, triage, pendingSet, pendingMaps, reader, toBeRemovedPRs, poller>>

ServerNext ==
    \/ ReadMetadata
    \/ ReadArchive
    \/ \E t \in Triages :
          \/ TriageSHA(t) \/ TriageArchive(t) \/ CreatePR(t) \/ AddPending(t) \/ PutPending(t)
          \/ Merge(t) \/ Close(t)
          \/ CheckPR(t)
    \/ RemoveOrphans
    \/ ListPRs
    \/ EndPoll
    \/ RestartPoller
    \/ Tick

ServerSpec == ServerInit /\ [][ServerNext]_serverVars

-------------------------------------------------------------------------------
(* Properties *)

\* What /api/metadata answers.
Served == IF cached = NotCached THEN master ELSE cached.content

\* /api/metadata/pending "is used along with the /api/metadata endpoint to retrieve all
\* metadata, pending or non-pending" (api/README.md:600): a triage that has been noted is
\* shown by one of them, from its pull request to its merge and ever after.
AllMetadataIsShown ==
    \A t \in Triages :
        triage[t].at = "noted" /\ pr[t].state \in {"open", "merged"} =>
            t \in pendingSet \intersect pendingMaps \/ t \in Served[FolderOf[t]]

\* However triages about the same files overlap, the pull request of one does not take
\* back the links of another that has been merged.
TriagesOnlyAdd ==
    [][\A f \in ServerFolders : master[f] \subseteq master'[f]]_serverVars

===============================================================================
