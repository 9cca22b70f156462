-------------------------------- MODULE RunQuery --------------------------------
(* Which runs a page shows: the parameters of the URL, the properties that         *)
(* TestRunsUIQuery keeps of them, the form that edits them (test-runs-query-       *)
(* builder) and the page of results (wpt-app).  QueryBuilder turns properties into *)
(* a query and a query into properties.  Query strings are records of what their   *)
(* parameters say; a parameter that is not given is "" or empty.                   *)
EXTENDS Subsequences, SequencesExt

CONSTANTS
    OpenedUrls,         \* the queries of URLs that are typed in or linked to
    TypedLabels,        \* what may be typed into the form's field for labels: sequences
    TypedSHAs,
    SearchTexts,
    MaxQuerySteps       \* bound on the user's steps

VARIABLES
    app,                \* wpt-app: its properties, and its query
    form,               \* test-runs-query-builder: the same
    pageUrl,            \* the query of the URL, kept by app-location
    resultsQuery,       \* the query that wpt-results was given
    visited,            \* the session history
    edited,             \* the form was edited since it was last given or gave a query
    querySteps

queryVars == <<app, form, pageUrl, resultsQuery, visited, edited, querySteps>>

-------------------------------------------------------------------------------
(* Products *)

Channels == {"stable", "beta", "experimental"}
Sources == {"buildbot", "taskcluster", "msedge", "azure", "github-actions"}
DefaultBrowserNames == <<"chrome", "edge", "firefox", "safari">>
AllBrowserNames == <<"android_webview", "blitz", "chrome_android", "chrome_ios", "chrome", "chromium",
    "deno", "edge", "firefox_android", "firefox", "flow", "ladybird", "node.js", "safari", "servo",
    "webkitgtk", "wpewebkit", "wktr">>

computeIsLatest(shas) == shas \in {<<>>, <<"latest">>}

\* getSpec and parseProductSpec: what is left of a product that is written and read
\* again, each label once.
Spec(product) == [product EXCEPT !.labels = Distinct(@)]

ProductNamed(name) == [browser_name |-> name, labels |-> <<>>]
DefaultProducts == [i \in DOMAIN DefaultBrowserNames |-> ProductNamed(DefaultBrowserNames[i])]
computeIsDefaultProducts(products) == products \in {<<>>, DefaultProducts}

ChannelsOf(labels) == Within(labels, Channels)
WithoutChannels(labels) == Without(labels, Channels)

-------------------------------------------------------------------------------
(* From properties to parameters *)

\* The channel that every product has, if there is one.
SharedChannel(products) ==
    IF products = <<>> \/ ChannelsOf(products[1].labels) = <<>> THEN ""
    ELSE LET channel == ChannelsOf(products[1].labels)[1]
         IN  IF \A i \in DOMAIN products : Contains(products[i].labels, channel) THEN channel ELSE ""

\* computeTestRunUIQueryParams.  ui.others are the parameters that go through unchanged.
ParamsOf(ui) ==
    LET channel == SharedChannel(ui.products)
        products == IF channel = "" THEN ui.products
                    ELSE [i \in DOMAIN ui.products |->
                             [ui.products[i] EXCEPT !.labels = WithoutChannels(@)]]
        labels == IF ui.master /\ ~ Contains(ui.labels, "master") THEN Append(ui.labels, "master") ELSE ui.labels
    IN  [sha |-> IF computeIsLatest(ui.shas) THEN <<>> ELSE ui.shas,
         label |-> IF channel = "" \/ Contains(labels, channel) THEN labels ELSE Append(labels, channel),
         product |-> LET specs == [i \in DOMAIN products |-> Spec(products[i])]
                     IN  IF computeIsDefaultProducts(specs) THEN <<>> ELSE specs,
         aligned |-> ui.aligned /\ computeIsLatest(ui.shas),
         diff |-> ui.diff,
         filter |-> IF ui.diff THEN ui.diffFilter ELSE "",
         others |-> ui.others]

\* computeQuery strips every "=true"; of a search for "true" a blank parameter is left,
\* which is read as an empty search.
computeQuery(params) == [params EXCEPT !.others.q = IF @ = "true" THEN "blank" ELSE @]

OtherParams == {"max-count", "pr", "q", "from", "to", "offset", "view", "run_id"}
\* Of these _getBatchUpdate keeps the old value where there is no new one.
StickyParams == {"from", "to", "offset", "view", "run_id"}

\* What a query may say.
AllQueries ==
    [sha : Seq(STRING), label : Seq(STRING), product : Seq([browser_name : STRING, labels : Seq(STRING)]),
     aligned : BOOLEAN, diff : BOOLEAN, filter : STRING, others : [OtherParams -> STRING]]

\* A URL says "blank" only of a search, see computeQuery.
ASSUME UrlsAssumption ==
    /\ OpenedUrls \subseteq AllQueries
    /\ \A query \in OpenedUrls, k \in OtherParams : query.others[k] = "blank" => k = "q"

ASSUME TypedAssumption ==
    TypedLabels \subseteq Seq(STRING) /\ TypedSHAs \subseteq Seq(STRING) /\ SearchTexts \subseteq STRING \ {"blank"}

NoQuery == [sha |-> <<>>, label |-> <<>>, product |-> <<>>, aligned |-> FALSE, diff |-> FALSE,
            filter |-> "", others |-> [k \in OtherParams |-> ""]]

-------------------------------------------------------------------------------
(* From parameters to properties *)

\* A component's properties before it has a query.
InitialUI == [shas |-> <<>>, aligned |-> FALSE, master |-> FALSE, labels |-> <<>>,
              products |-> DefaultProducts, diff |-> FALSE, diffFilter |-> "ADC",
              others |-> [k \in OtherParams |-> ""]]

\* Mutation: no parameter is reset when it is not given.
KeepOthers(ui, params) ==
    [k \in OtherParams |-> IF params.others[k] = "" THEN ui.others[k] ELSE params.others[k]]

OthersOf(ui, params) ==
    [k \in OtherParams |->
        IF k \in StickyParams /\ params.others[k] = "" THEN ui.others[k]
        ELSE IF params.others[k] = "blank" THEN "" ELSE params.others[k]]

\* The first channel among the labels goes to every product, in the place of its own.
ExpandedProducts(params) ==
    LET shared == ChannelsOf(params.label)
        given == IF params.product = <<>> THEN DefaultProducts ELSE params.product
        Expanded(labels) == Without(labels, Channels \ {shared[1]}) \o
                                (IF Contains(labels, shared[1]) THEN <<>> ELSE <<shared[1]>>)
    IN  IF shared = <<>> THEN given
        ELSE [i \in DOMAIN given |-> [given[i] EXCEPT !.labels = Expanded(@)]]

\* updateQueryParams with _getBatchUpdate
updateQueryParams(ui, params) ==
    [shas |-> params.sha,
     aligned |-> params.aligned,
     master |-> Contains(params.label, "master"),
     labels |-> Without(params.label, Channels \union {"master"}),
     products |-> ExpandedProducts(params),
     diff |-> params.diff,
     diffFilter |-> IF params.diff THEN params.filter ELSE ui.diffFilter,
     others |-> OthersOf(ui, params)]

\* clearQuery
Cleared(ui) ==
    [ui EXCEPT !.products = DefaultProducts, !.labels = <<>>, !.shas = <<>>, !.aligned = FALSE,
               !.others["max-count"] = ""]

\* A component's query is set: queryChanged, which is not called for an empty one.
Given(component, query) ==
    IF query \in {NoQuery, component.query} THEN [component EXCEPT !.query = query]
    ELSE [ui |-> updateQueryParams(component.ui, query), query |-> query]

\* A component's properties are set: computedQueryChanged and queryParamsChanged
\* compute the query anew, and a new query is read again.  queryParams, which the code compares
\* with and sends, is what the properties compute, except while an empty query or one that reads
\* back otherwise stands beside them (see FormIsObeyed).
WithUI(component, ui) == Given([component EXCEPT !.ui = ui], computeQuery(ParamsOf(ui)))

\* Mutation: the form takes over the runs that are shown, but not the search.
FormWithoutSearch(builder, ui) ==
    LET query == [computeQuery(ParamsOf(ui)) EXCEPT !.others.q = builder.ui.others.q]
    IN  IF query = computeQuery(ParamsOf(builder.ui)) THEN builder ELSE Given(builder, query)

\* The form's query-params is bound to wpt-app's.
Bound(builder, ui) ==
    LET query == computeQuery(ParamsOf(ui))
    IN  IF query = computeQuery(ParamsOf(builder.ui)) THEN builder ELSE Given(builder, query)

FreshUI(query) == updateQueryParams(InitialUI, query)

-------------------------------------------------------------------------------
(* Actions *)

QueryInit ==
    /\ pageUrl \in OpenedUrls
    /\ app = [ui |-> FreshUI(pageUrl), query |-> pageUrl]
    /\ form = Bound([ui |-> InitialUI, query |-> NoQuery], app.ui)
    /\ resultsQuery = pageUrl
    /\ visited = <<>> /\ edited = FALSE /\ querySteps = 0

QueryStep == querySteps < MaxQuerySteps /\ querySteps' = querySteps + 1

\* wpt-app's queryChanged hands a query that is not empty to app-location and wpt-results.
Show(builder, ui) ==
    LET component == WithUI(app, ui)
    IN  /\ app' = component
        /\ form' = Bound(Bound(builder, ui), component.ui)
        /\ edited' = FALSE
        /\ IF component.query \in {NoQuery, app.query} THEN UNCHANGED <<pageUrl, resultsQuery, visited>>
           ELSE /\ pageUrl' = component.query /\ resultsQuery' = component.query
                /\ visited' = Append(visited, pageUrl)

\* app-location sets wpt-app's query.
Locate(query) ==
    /\ QueryStep
    /\ app' = Given(app, query) /\ form' = Bound(form, app'.ui) /\ edited' = FALSE
    /\ pageUrl' = query
    /\ resultsQuery' = IF query = NoQuery THEN resultsQuery ELSE query

\* A link within the results pages is followed.
FollowLink(query) ==
    /\ query # pageUrl
    /\ Locate(query)
    /\ visited' = Append(visited, pageUrl)

HistoryBack ==
    /\ visited # <<>>
    /\ Locate(Last(visited))
    /\ visited' = Front(visited)

\* handleSearchCommit
CommitSearch(text) ==
    /\ QueryStep
    /\ text # app.ui.others.q
    /\ Show(form, [app.ui EXCEPT !.others.q = text])

\* The user edits the form.
Edit(ui) ==
    /\ QueryStep
    /\ form' = WithUI(form, ui)
    /\ edited' = TRUE
    /\ UNCHANGED <<app, pageUrl, resultsQuery, visited>>

\* handleAddProduct suggests a browser that is not there yet.
handleAddProduct ==
    LET free == Without(AllBrowserNames, {form.ui.products[i].browser_name : i \in DOMAIN form.ui.products})
    IN  Edit([form.ui EXCEPT !.products = Append(@, ProductNamed(IF free = <<>> THEN "chrome" ELSE free[1]))])

handleDeleteProduct(i) ==
    /\ i \in DOMAIN form.ui.products
    /\ Edit([form.ui EXCEPT !.products = RemoveAt(@, i)])

\* semanticLabelChanged: a label of the kind takes the place of the one before.
WithSemanticLabel(product, kind, label) ==
    [product EXCEPT !.labels = Without(@, kind) \o (IF label = "any" THEN <<>> ELSE <<label>>)]

\* handleProductChanged: a product-builder has another channel.
ChooseChannel(i, channel) ==
    /\ i \in DOMAIN form.ui.products
    /\ ChannelsOf(form.ui.products[i].labels) # <<channel>>
    /\ Edit([form.ui EXCEPT !.products[i] = WithSemanticLabel(@, Channels, channel)])

ToggleAligned == Edit([form.ui EXCEPT !.aligned = ~ @])

ToggleMaster == Edit([form.ui EXCEPT !.master = ~ @])

\* computeCanShowDiff
ToggleDiff ==
    /\ Len(form.ui.products) = 2
    /\ Edit([form.ui EXCEPT !.diff = ~ @])

\* labelsStringUpdated
labelsStringUpdated(labels) ==
    /\ labels # form.ui.labels
    /\ Edit([form.ui EXCEPT !.labels = labels])

\* shaUpdated
shaUpdated(shas) ==
    /\ shas # form.ui.shas
    /\ Edit([form.ui EXCEPT !.shas = IF computeIsLatest(shas) THEN <<>> ELSE shas])

\* handleClearAll: after clearQuery the products go, too.
handleClearAll ==
    LET cleared == WithUI(form, [Cleared(form.ui) EXCEPT !.diff = FALSE])
    IN  /\ QueryStep
        /\ form' = WithUI(cleared, [cleared.ui EXCEPT !.products = <<>>])
        /\ edited' = TRUE
        /\ UNCHANGED <<app, pageUrl, resultsQuery, visited>>

\* The builder's handleSubmit moves a source that was typed as a label to the products.
WithTypedSources(component) ==
    LET typed == Within(component.ui.labels, Sources)
    IN  IF typed = <<>> THEN component
        ELSE WithUI(component,
               [component.ui EXCEPT
                  !.labels = Without(@, Sources),
                  !.products = [i \in DOMAIN @ |-> WithSemanticLabel(@[i], Sources, Last(typed))]])

\* handleSubmitQuery
Submit(builder) ==
    /\ QueryStep
    /\ Show(builder, updateQueryParams(app.ui, ParamsOf(builder.ui)))

handleSubmit == Submit(WithTypedSources(form))

\* handleAddMasterLabel, from the toast shown for ?label=experimental.
handleAddMasterLabel ==
    /\ Contains(ParamsOf(app.ui).label, "experimental") /\ ~ app.ui.master
    /\ Submit(WithUI(form, [form.ui EXCEPT !.master = TRUE]))

QueryNext ==
    \/ \E query \in OpenedUrls : FollowLink(query)
    \/ HistoryBack
    \/ \E text \in SearchTexts : CommitSearch(text)
    \/ handleAddProduct
    \/ \E i \in DOMAIN form.ui.products : handleDeleteProduct(i)
    \/ \E i \in DOMAIN form.ui.products, channel \in Channels \union {"any"} : ChooseChannel(i, channel)
    \/ ToggleAligned
    \/ ToggleMaster
    \/ ToggleDiff
    \/ \E labels \in TypedLabels : labelsStringUpdated(labels)
    \/ \E shas \in TypedSHAs : shaUpdated(shas)
    \/ handleClearAll
    \/ handleSubmit
    \/ handleAddMasterLabel

QuerySpec == QueryInit /\ [][QueryNext]_queryVars

-------------------------------------------------------------------------------
(* Properties *)

\* wpt-app's query is not empty, and the search is not one that is lost in writing it.
QueryIsSound == app.query # NoQuery /\ app.query.others.q # "blank"

\* Unless wpt-app's query is empty: the address bar, wpt-app and wpt-results have one
\* query, and wpt-app's properties are what the URL, opened in a new tab, would give,
\* whatever was followed, submitted and gone back from before.  Only a period, an
\* offset, a view or a list of runs stay when the new query names none.
QueryIsObeyed ==
    QueryIsSound =>
        /\ pageUrl = app.query /\ resultsQuery = app.query
        /\ LET shown == ParamsOf(app.ui)
               fresh == ParamsOf(FreshUI(pageUrl))
           IN  \A k \in DOMAIN shown :
                  IF k # "others" THEN shown[k] = fresh[k]
                  ELSE \A o \in OtherParams :
                          \/ shown.others[o] = fresh.others[o]
                          \/ o \in StickyParams /\ fresh.others[o] = ""

\* Unless wpt-app's query is empty, or its properties say only what is shown by default, a
\* form that is not being edited shows the query of the results: what is submitted without
\* an edit changes nothing.  A search for "true" does not reach the form.
FormIsObeyed ==
    (QueryIsSound /\ ~ edited /\ ParamsOf(app.ui) # NoQuery /\ app.query.others.q # "true") =>
        ParamsOf(form.ui) = ParamsOf(app.ui)

===============================================================================
