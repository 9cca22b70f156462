------------------------------- MODULE TriagePage -------------------------------
(* Triage: failing results are selected (AmendMetadataMixin), given a bug URL or  *)
(* a label in a dialog (wpt-amend-metadata) and sent to /api/metadata/triage;    *)
(* wpt-metadata shows the merged metadata and what is pending in pull requests.  *)
(* The pages of a directory (wpt-results) and of a test file (test-file-results) *)
(* share the dialog.  A link is about a test, a subtest or a whole folder.       *)
EXTENDS Integers, FiniteSets, SequencesExt

CONSTANTS
    DirCells,           \* the cells of a directory's table: [test, product]; the product of
                        \* the cell with a test's name is ""
    FileCells,          \* the cells of a test file's table, with subtests for tests
    Folders,            \* those of the tests that are folders
    ProductSets,        \* the products of the runs that may be shown
    Merged,             \* Merged[products]: the links in the metadata repository
    NotLoaded,
    MaxTriageSteps      \* bound on the user's steps

\* In the table of a test file every column is a run's.
ASSUME CellsAssumption == \A cell \in FileCells : cell.product # ""

VARIABLES
    pathIsATestFile,
    isTriageMode,
    selectedMetadata,
    dialog,             \* what wpt-amend-metadata displays, and whether it is open
    patches,            \* triages in flight
    accepted,           \* what the server has accepted: the pending metadata
    products, mergedMetadata, pendingMetadata,
    metadataLoads,      \* requests of wpt-metadata in flight
    triageSteps,
    stale               \* loads of one kind have overlapped or failed

selectionVars == <<pathIsATestFile, isTriageMode, selectedMetadata>>
metadataVars == <<products, mergedMetadata, pendingMetadata, metadataLoads, stale>>
triageVars == <<selectionVars, dialog, patches, accepted, metadataVars, triageSteps>>

ClosedDialog(disabled, escaped) ==
    [open |-> FALSE, displayed |-> <<>>, filled |-> <<>>, numEmpty |-> 0,
     triageSubmitDisabled |-> disabled, escaped |-> escaped]

-------------------------------------------------------------------------------
(* wpt-metadata *)

\* The kind's request is sent; it is answered with what the server has when it is served.
LoadOf(kind) ==
    [kind |-> kind, served |-> FALSE, answer |-> NotLoaded,
     id |-> CHOOSE i \in 1..(Cardinality(metadataLoads) + 1) : \A l \in metadataLoads : l.id # i]

\* loadMergedMetadata and loadPendingMetadata
LoadMetadata(kind) ==
    /\ metadataLoads' = metadataLoads \union {LoadOf(kind)}
    /\ stale' = (stale \/ \E l \in metadataLoads : l.kind = kind)

\* The products of the runs have changed.
ChangeProducts(ps) ==
    /\ ps # products /\ products' = ps
    /\ triageSteps < MaxTriageSteps /\ triageSteps' = triageSteps + 1
    /\ LoadMetadata("merged")
    /\ UNCHANGED <<selectionVars, dialog, patches, accepted, mergedMetadata, pendingMetadata>>

ServeMetadata(l) ==
    /\ ~ l.served
    /\ metadataLoads' = (metadataLoads \ {l}) \union
          {[l EXCEPT !.served = TRUE, !.answer = IF l.kind = "merged" THEN products ELSE accepted]}
    /\ UNCHANGED <<selectionVars, dialog, patches, accepted, products, mergedMetadata,
                   pendingMetadata, stale, triageSteps>>

\* Whatever is answered replaces what was there; a failure replaces nothing.
AnswerMetadata(l) ==
    /\ l.served
    /\ metadataLoads' = metadataLoads \ {l}
    /\ \/ /\ mergedMetadata' = IF l.kind = "merged" THEN l.answer ELSE mergedMetadata
          /\ pendingMetadata' = IF l.kind = "pending" THEN l.answer ELSE pendingMetadata
          /\ UNCHANGED stale
       \/ stale' = TRUE /\ UNCHANGED <<mergedMetadata, pendingMetadata>>
    /\ UNCHANGED <<selectionVars, dialog, patches, accepted, products, triageSteps>>

\* computeMetadata: nothing until both have arrived; then the links of either.
metadata ==
    IF NotLoaded \in {mergedMetadata, pendingMetadata} THEN {}
    ELSE Merged[mergedMetadata] \union pendingMetadata

\* shouldShowMetadata: links of the shown tests, and of folders above them.
Relevant(link, tests) == link.all \/ link.test \in tests

\* computeDisplayedMetadata: the nodes of the list at the bottom, one for each test,
\* product and URL; links without a URL are only labels.
displayedMetadata(tests) ==
    {[test |-> l.test, all |-> l.all, product |-> l.product, url |-> l.url] :
        l \in {link \in metadata : Relevant(link, tests) /\ link.url # ""}}

\* appendTestLabel: the labels that stand beside a test.
labelMap(test, tests) ==
    {l.label : l \in {link \in metadata : /\ Relevant(link, tests) /\ link.test = test /\ link.label # ""
                                          /\ link.url # "" \/ link.product = ""}}

-------------------------------------------------------------------------------
(* Selection *)

TriageInit ==
    /\ pathIsATestFile \in BOOLEAN
    /\ isTriageMode = FALSE /\ selectedMetadata = {}
    /\ dialog = ClosedDialog(TRUE, FALSE)
    /\ patches = {} /\ accepted = {}
    /\ products = NotLoaded /\ mergedMetadata = NotLoaded /\ pendingMetadata = NotLoaded
    /\ metadataLoads = {[kind |-> "pending", id |-> 1, served |-> FALSE, answer |-> NotLoaded]}
    /\ triageSteps = 0 /\ stale = FALSE

TriageStep ==
    /\ triageSteps < MaxTriageSteps /\ triageSteps' = triageSteps + 1
    /\ UNCHANGED <<metadataVars, accepted>>

\* handleTriageModeChange: the end of triage mode takes back the selection.
ToggleTriageMode ==
    /\ ~ dialog.open
    /\ isTriageMode' = ~ isTriageMode
    /\ selectedMetadata' = IF isTriageMode' THEN selectedMetadata ELSE {}
    /\ UNCHANGED <<pathIsATestFile, dialog, patches>>
    /\ TriageStep

\* pathChanged takes back the selection, too.
ChangePath ==
    /\ ~ dialog.open
    /\ pathIsATestFile' = ~ pathIsATestFile
    /\ selectedMetadata' = {}
    /\ UNCHANGED <<isTriageMode, dialog, patches>>
    /\ TriageStep

\* handleSelect: a second click takes a cell out again.
handleSelect(cell) ==
    /\ isTriageMode /\ ~ dialog.open
    /\ selectedMetadata' = (selectedMetadata \ {cell}) \union ({cell} \ selectedMetadata)
    /\ UNCHANGED <<pathIsATestFile, isTriageMode, dialog, patches>>
    /\ TriageStep

-------------------------------------------------------------------------------
(* The dialog *)

\* populateDisplayData: an entry for each product selected, empty; triageSubmitDisabled
\* is left as it was.
openAmendMetadata ==
    /\ ~ dialog.open /\ selectedMetadata # {}
    /\ LET ps == {cell.product : cell \in selectedMetadata}
       IN  dialog' = [dialog EXCEPT
              !.open = TRUE,
              !.displayed = [p \in ps |->
                  [url |-> "", label |-> "", invalidUrl |-> FALSE,
                   tests |-> {cell.test : cell \in {c \in selectedMetadata : c.product = p}}]],
              !.filled = [p \in ps |-> FALSE],
              !.numEmpty = Cardinality(ps)]
    /\ UNCHANGED <<selectionVars, patches>>
    /\ TriageStep

\* Mutation: an entry emptied again still counts as filled.
InputNeverEmptied(product, field, value) ==
    LET entry == [dialog.displayed[product] EXCEPT ![field] = value,
                     !.invalidUrl = IF field = "url" THEN value = "bad" ELSE @]
        displayed == [dialog.displayed EXCEPT ![product] = entry]
        empty == entry.url = "" /\ entry.label = ""
        numEmpty == IF ~ empty /\ ~ dialog.filled[product] THEN dialog.numEmpty - 1 ELSE dialog.numEmpty
    IN  [dialog EXCEPT !.displayed = displayed, !.numEmpty = numEmpty,
            !.filled[product] = @ \/ ~ empty,
            !.triageSubmitDisabled = numEmpty > 0 \/ \E p \in DOMAIN displayed : displayed[p].invalidUrl]

\* handleFieldInput: "bad" is what is not an http or https URL.
AfterInput(product, field, value) ==
    LET entry == [dialog.displayed[product] EXCEPT ![field] = value,
                     !.invalidUrl = IF field = "url" THEN value = "bad" ELSE @]
        displayed == [dialog.displayed EXCEPT ![product] = entry]
        empty == entry.url = "" /\ entry.label = ""
        numEmpty == CASE empty /\ dialog.filled[product] -> dialog.numEmpty + 1
                      [] ~ empty /\ ~ dialog.filled[product] -> dialog.numEmpty - 1
                      [] OTHER -> dialog.numEmpty
    IN  [dialog EXCEPT !.displayed = displayed, !.numEmpty = numEmpty, !.filled[product] = ~ empty,
            !.triageSubmitDisabled = numEmpty > 0 \/ \E p \in DOMAIN displayed : displayed[p].invalidUrl]

\* Only the entry of a test itself has a field for a label.
handleFieldInput(product, field, value) ==
    /\ dialog.open /\ product \in DOMAIN dialog.displayed
    /\ field = "label" => product = "" /\ value # "bad"
    /\ dialog.displayed[product][field] # value
    /\ dialog' = AfterInput(product, field, value)
    /\ UNCHANGED <<selectionVars, patches>>
    /\ TriageStep

\* paper-dialog closes at the Escape key or a click outside of it, close() unheard.
EscapeDialog ==
    /\ dialog.open
    /\ dialog' = [dialog EXCEPT !.open = FALSE, !.escaped = TRUE]
    /\ UNCHANGED <<selectionVars, patches>>
    /\ TriageStep

\* close()
DismissDialog ==
    /\ dialog.open
    /\ dialog' = ClosedDialog(TRUE, FALSE)
    /\ selectedMetadata' = {}
    /\ UNCHANGED <<pathIsATestFile, isTriageMode, patches>>
    /\ TriageStep

\* getTriagedMetadataMap: links for the tests of the entries that have something to say;
\* on the page of a test file only a URL does.
triagedMetadataMap ==
    LET Says(entry) == IF pathIsATestFile THEN entry.url # "" ELSE entry.url # "" \/ entry.label # ""
    IN  UNION {{[test |-> t, all |-> ~ pathIsATestFile /\ t \in Folders, product |-> p,
                 url |-> dialog.displayed[p].url,
                 label |-> IF pathIsATestFile THEN "" ELSE dialog.displayed[p].label] :
                    t \in dialog.displayed[p].tests} :
               p \in {q \in DOMAIN dialog.displayed : Says(dialog.displayed[q])}}

\* triageSubmit, from the button or the Enter key: handleTriage and close().  A triage of
\* nothing is refused, but a test file's always is about the file.
triageSubmit ==
    /\ dialog.open /\ ~ dialog.triageSubmitDisabled
    /\ patches' = IF triagedMetadataMap = {} /\ ~ pathIsATestFile THEN patches
                  ELSE patches \union {[map |-> triagedMetadataMap, cells |-> selectedMetadata,
                                        escaped |-> dialog.escaped]}
    /\ dialog' = ClosedDialog(TRUE, FALSE)
    /\ selectedMetadata' = {}
    /\ UNCHANGED <<pathIsATestFile, isTriageMode>>
    /\ TriageStep

\* Mutation: the page does not hear of its own triage.
AnswerUnheard(p) ==
    /\ patches' = patches \ {p}
    /\ accepted' = accepted \union p.map
    /\ UNCHANGED <<metadataLoads, stale>>
    /\ UNCHANGED <<selectionVars, dialog, products, mergedMetadata, pendingMetadata, triageSteps>>

\* The server has made a pull request, and triagemetadata has the page load what is
\* pending; or it has failed, which the toast says.
AnswerPatch(p) ==
    /\ patches' = patches \ {p}
    /\ \/ accepted' = accepted \union p.map /\ LoadMetadata("pending")
       \/ UNCHANGED <<accepted, metadataLoads, stale>>
    /\ UNCHANGED <<selectionVars, dialog, products, mergedMetadata, pendingMetadata, triageSteps>>

TriageNext ==
    \/ \E ps \in ProductSets : ChangeProducts(ps)
    \/ \E l \in metadataLoads : ServeMetadata(l) \/ AnswerMetadata(l)
    \/ ToggleTriageMode
    \/ ChangePath
    \/ \E cell \in IF pathIsATestFile THEN FileCells ELSE DirCells : handleSelect(cell)
    \/ openAmendMetadata
    \/ \E product \in DOMAIN dialog.displayed, field \in {"url", "label"}, value \in {"", "ok", "bad"} :
          handleFieldInput(product, field, value)
    \/ EscapeDialog
    \/ DismissDialog
    \/ triageSubmit
    \/ \E p \in patches : AnswerPatch(p)

TriageSpec == TriageInit /\ [][TriageNext]_triageVars

-------------------------------------------------------------------------------
(* Properties *)

\* What is sent covers what was selected: whatever was typed, emptied, dismissed and
\* selected anew before, every selected cell has a link with a URL, or a label if the cell
\* is a test's own.  Only a dialog left by Escape and opened again may send less.
TriageIsComplete ==
    \A p \in patches : ~ p.escaped =>
        \A cell \in p.cells : \E link \in p.map :
            /\ link.test = cell.test /\ link.product = cell.product
            /\ link.url = "ok" \/ (link.url = "" /\ link.label = "ok" /\ cell.product = "")

\* With nothing in flight the page knows of every triage that was accepted, and shows the
\* metadata of the products it shows, unless loads overlapped or failed.
MetadataIsFresh ==
    (metadataLoads = {} /\ patches = {} /\ ~ stale) =>
        /\ pendingMetadata = accepted
        /\ products # NotLoaded =>
              /\ mergedMetadata = products
              /\ \A link \in accepted \union Merged[products] : link.url # "" =>
                    \E node \in displayedMetadata({link.test}) : node.url = link.url /\ node.test = link.test

===============================================================================
