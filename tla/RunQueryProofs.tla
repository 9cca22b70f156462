---------------------------- MODULE RunQueryProofs -----------------------------
(* The page shows what its URL asks for and the form what the page shows, for any  *)
(* URLs, labels, commits and searches, and any number of steps.                    *)
(*                                                                                 *)
(* Properties that were read from a query are written as a query that reads the    *)
(* same (UpdatesReturn).  So wpt-app's properties always say what its query says   *)
(* (AppInv), and the form's say what its own query does (FormInv); a query given   *)
(* to both is then read alike, but for what stays when no parameter names it.      *)
EXTENDS RunQuery, FiniteSetTheorems, TLAPS

-------------------------------------------------------------------------------
(* The address bar, the page and its results have one query *)

\* The address bar, wpt-app and wpt-results have one query, unless wpt-app's is empty.
OneQuery == app.query # NoQuery => pageUrl = app.query /\ resultsQuery = app.query

\* wpt-app: a record of its properties and its query.
AppShape == app = [ui |-> app.ui, query |-> app.query]

LEMMA GivenHasQuery ==
    ASSUME NEW component, component = [ui |-> component.ui, query |-> component.query], NEW query
    PROVE  /\ Given(component, query).query = query
           /\ Given(component, query) = [ui |-> Given(component, query).ui, query |-> Given(component, query).query]
<1>1. PICK g : g = Given(component, query)
  OBVIOUS
<1>2. CASE query \in {NoQuery, component.query}
  <2>1. g = [component EXCEPT !.query = query]
    BY <1>1, <1>2 DEF Given
  <2> QED BY <1>1, <2>1
<1>3. CASE query \notin {NoQuery, component.query}
  <2>1. g = [ui |-> updateQueryParams(component.ui, query), query |-> query]
    BY <1>1, <1>3 DEF Given
  <2> QED BY <1>1, <2>1
<1> QED BY <1>2, <1>3

LEMMA ShowKeepsQuery ==
    ASSUME OneQuery, AppShape, NEW builder, NEW ui, Show(builder, ui)
    PROVE  OneQuery' /\ AppShape'
<1>1. app' = WithUI(app, ui)
  BY DEF Show
<1>2. IF app'.query \in {NoQuery, app.query} THEN UNCHANGED <<pageUrl, resultsQuery>>
      ELSE pageUrl' = app'.query /\ resultsQuery' = app'.query
  BY <1>1 DEF Show
<1>3. AppShape'
  <2>1. PICK component : component = [app EXCEPT !.ui = ui]
    OBVIOUS
  <2>2. component = [ui |-> component.ui, query |-> component.query]
    BY <2>1 DEF AppShape
  <2>3. app' = Given(component, computeQuery(ParamsOf(ui)))
    BY <1>1, <2>1 DEF WithUI
  <2> QED BY <2>2, <2>3, GivenHasQuery DEF AppShape
<1> QED BY <1>2, <1>3 DEF OneQuery

LEMMA LocateKeepsQuery ==
    ASSUME OneQuery, AppShape, NEW query, Locate(query)
    PROVE  OneQuery' /\ AppShape'
<1>1. /\ app' = Given(app, query) /\ pageUrl' = query
      /\ resultsQuery' = IF query = NoQuery THEN resultsQuery ELSE query
  BY DEF Locate
<1>2. app'.query = query /\ AppShape'
  BY <1>1, GivenHasQuery DEF AppShape
<1> QED BY <1>1, <1>2 DEF OneQuery

LEMMA EditKeepsQuery ==
    ASSUME OneQuery, AppShape, UNCHANGED <<app, pageUrl, resultsQuery, visited>>
    PROVE  OneQuery' /\ AppShape'
BY DEF OneQuery, AppShape

LEMMA QueryInitKeeps == QueryInit => OneQuery /\ AppShape
BY DEF QueryInit, OneQuery, AppShape

LEMMA QueryNextKeeps == OneQuery /\ AppShape /\ [QueryNext]_queryVars => OneQuery' /\ AppShape'
<1> SUFFICES ASSUME OneQuery, AppShape, [QueryNext]_queryVars PROVE OneQuery' /\ AppShape'
  OBVIOUS
<1>1. ASSUME NEW query \in OpenedUrls, FollowLink(query) PROVE OneQuery' /\ AppShape'
  BY <1>1, LocateKeepsQuery DEF FollowLink
<1>2. CASE HistoryBack
  BY <1>2, LocateKeepsQuery DEF HistoryBack
<1>3. ASSUME NEW text \in SearchTexts, CommitSearch(text) PROVE OneQuery' /\ AppShape'
  BY <1>3, ShowKeepsQuery DEF CommitSearch
<1>4. CASE handleAddProduct
  BY <1>4, EditKeepsQuery DEF handleAddProduct, Edit
<1>5. ASSUME NEW i \in DOMAIN form.ui.products, handleDeleteProduct(i) PROVE OneQuery' /\ AppShape'
  BY <1>5, EditKeepsQuery DEF handleDeleteProduct, Edit
<1>6. ASSUME NEW i \in DOMAIN form.ui.products, NEW channel \in Channels \union {"any"}, ChooseChannel(i, channel)
      PROVE  OneQuery' /\ AppShape'
  BY <1>6, EditKeepsQuery DEF ChooseChannel, Edit
<1>7. CASE ToggleAligned \/ ToggleMaster \/ ToggleDiff
  BY <1>7, EditKeepsQuery DEF ToggleAligned, ToggleMaster, ToggleDiff, Edit
<1>8. ASSUME NEW labels \in TypedLabels, labelsStringUpdated(labels) PROVE OneQuery' /\ AppShape'
  BY <1>8, EditKeepsQuery DEF labelsStringUpdated, Edit
<1>9. ASSUME NEW shas \in TypedSHAs, shaUpdated(shas) PROVE OneQuery' /\ AppShape'
  BY <1>9, EditKeepsQuery DEF shaUpdated, Edit
<1>10. CASE handleClearAll
  BY <1>10, EditKeepsQuery DEF handleClearAll
<1>11. CASE handleSubmit
  BY <1>11, ShowKeepsQuery DEF handleSubmit, Submit
<1>12. CASE handleAddMasterLabel
  BY <1>12, ShowKeepsQuery DEF handleAddMasterLabel, Submit
<1>13. CASE UNCHANGED queryVars
  BY <1>13, EditKeepsQuery DEF queryVars
<1> QED BY <1>1, <1>2, <1>3, <1>4, <1>5, <1>6, <1>7, <1>8, <1>9, <1>10, <1>11, <1>12, <1>13 DEF QueryNext

\* wpt-app: whatever was followed, searched, submitted, edited and gone back from, the address
\* bar names the query that wpt-app has and that wpt-results shows, unless that is empty.
THEOREM AddressIsObeyed == QuerySpec => []OneQuery
<1> QED BY QueryInitKeeps, QueryNextKeeps, PTL DEF QuerySpec

-------------------------------------------------------------------------------
(* Sequences: what Ascending, ElementsAt, Within, Without and Distinct return *)

\* R puts any two elements of S in an order.
Orders(R, S) ==
    /\ \A x, y \in S : <<x, y>> \in R \/ <<y, x>> \in R
    /\ \A x, y \in S : <<x, y>> \in R /\ <<y, x>> \in R => x = y
    /\ \A x, y, z \in S : <<x, y>> \in R /\ <<y, z>> \in R => <<x, z>> \in R

RankIn(S, R, x) == Cardinality({y \in S : <<y, x>> \in R})

LEMMA RankIsStrict ==
    ASSUME NEW S, IsFiniteSet(S), NEW R, Orders(R, S), NEW x \in S, NEW y \in S, <<x, y>> \in R, x # y
    PROVE  RankIn(S, R, x) < RankIn(S, R, y)
<1> DEFINE X == {z \in S : <<z, x>> \in R}
           Y == {z \in S : <<z, y>> \in R}
<1>1. X \subseteq Y /\ y \in Y /\ y \notin X /\ X \subseteq S /\ Y \subseteq S
  BY DEF Orders
<1>2. IsFiniteSet(Y) /\ IsFiniteSet(X)
  BY <1>1, FS_Subset
<1> HIDE DEF X, Y
<1>3. Cardinality(X) <= Cardinality(Y) /\ (Cardinality(Y) = Cardinality(X) => Y = X)
  BY <1>1, <1>2, FS_Subset
<1>4. Cardinality(X) \in Nat /\ Cardinality(Y) \in Nat
  BY <1>2, FS_CardinalityType
<1>5. Cardinality(X) < Cardinality(Y)
  BY <1>1, <1>3, <1>4
<1> QED BY <1>5 DEF RankIn, X, Y

LEMMA RankIsPlace ==
    ASSUME NEW S, IsFiniteSet(S), NEW R, Orders(R, S), NEW x \in S
    PROVE  RankIn(S, R, x) \in 1..Cardinality(S)
<1> DEFINE X == {z \in S : <<z, x>> \in R}
<1>1. x \in X /\ X \subseteq S
  BY DEF Orders
<1>2. IsFiniteSet(X) /\ Cardinality(X) <= Cardinality(S)
  BY <1>1, FS_Subset
<1> HIDE DEF X
<1>3. Cardinality(X) \in Nat /\ Cardinality(X) # 0 /\ Cardinality(S) \in Nat
  BY <1>1, <1>2, FS_CardinalityType, FS_EmptySet
<1> QED BY <1>2, <1>3 DEF RankIn, X

\* InOrder has each element of S once, in the order R.
LEMMA InOrderIsOrdered ==
    ASSUME NEW S, IsFiniteSet(S), NEW R, Orders(R, S)
    PROVE  /\ Cardinality(S) \in Nat
           /\ InOrder(S, R) \in [1..Cardinality(S) -> S]
           /\ \A x \in S : \E k \in 1..Cardinality(S) : InOrder(S, R)[k] = x
           /\ \A j, k \in 1..Cardinality(S) :
                 j < k => <<InOrder(S, R)[j], InOrder(S, R)[k]>> \in R /\ InOrder(S, R)[j] # InOrder(S, R)[k]
<1> DEFINE n == Cardinality(S)
           rank == [x \in S |-> RankIn(S, R, x)]
<1>1. n \in Nat /\ IsFiniteSet(1..n) /\ Cardinality(1..n) = n
  BY FS_CardinalityType, FS_Interval
<1>2. rank \in [S -> 1..n]
  BY RankIsPlace
<1>3. \A x, y \in S : x # y => rank[x] < rank[y] \/ rank[y] < rank[x]
  BY RankIsStrict DEF Orders
<1>4. \A x \in S : rank[x] \in Nat
  BY <1>1, <1>2
<1> HIDE DEF rank, n
<1>5. \A x, y \in S : rank[x] = rank[y] => x = y
  BY <1>3, <1>4
<1>6. rank \in Injection(S, 1..n)
  BY <1>2, <1>5 DEF Injection, IsInjective
<1>7. rank \in Surjection(S, 1..n)
  BY <1>1, <1>6, FS_Injection DEF n
<1>8. PICK p : p = InOrder(S, R)
  OBVIOUS
<1>9. p = [k \in 1..n |-> CHOOSE x \in S : RankIn(S, R, x) = k]
  BY <1>8 DEF InOrder, RankIn, n
<1>10. \A k \in 1..n : \E x \in S : RankIn(S, R, x) = k
  <2>1. \A k \in 1..n : \E x \in S : rank[x] = k
    BY <1>7 DEF Surjection
  <2>2. \A x \in S : rank[x] = RankIn(S, R, x)
    BY DEF rank
  <2> QED BY <2>1, <2>2
<1>11. \A k \in 1..n : p[k] \in S /\ rank[p[k]] = k
  <2>1. \A k \in 1..n : p[k] \in S /\ RankIn(S, R, p[k]) = k
    BY <1>9, <1>10
  <2> QED BY <2>1 DEF rank
<1>12. p \in [1..n -> S]
  BY <1>9, <1>11
<1>13. ASSUME NEW x \in S PROVE \E k \in 1..n : p[k] = x
  BY <1>2, <1>5, <1>11
<1>14. ASSUME NEW j \in 1..n, NEW k \in 1..n, j < k PROVE <<p[j], p[k]>> \in R /\ p[j] # p[k]
  <2>1. p[j] # p[k]
    BY <1>11, <1>14
  <2>2. p[j] \in S /\ p[k] \in S
    BY <1>11
  <2>3. CASE <<p[k], p[j]>> \in R
    <3>1. RankIn(S, R, p[k]) < RankIn(S, R, p[j])
      BY <2>1, <2>2, <2>3, RankIsStrict
    <3>2. RankIn(S, R, p[k]) = k /\ RankIn(S, R, p[j]) = j
      BY <1>11, <2>2 DEF rank
    <3> QED BY <1>1, <1>14, <3>1, <3>2
  <2> QED BY <2>1, <2>2, <2>3 DEF Orders
<1> QED BY <1>1, <1>8, <1>12, <1>13, <1>14 DEF n

LEMMA AscendingOrders ==
    ASSUME NEW n \in Nat, NEW I, I \subseteq 1..n
    PROVE  /\ IsFiniteSet(I) /\ Orders({pair \in I \X I : pair[1] <= pair[2]}, I)
           /\ \A i, j \in I : <<i, j>> \in {pair \in I \X I : pair[1] <= pair[2]} <=> i <= j
<1> DEFINE R == {pair \in I \X I : pair[1] <= pair[2]}
<1>1. IsFiniteSet(I)
  <2>1. IsFiniteSet(1..n) /\ I \in SUBSET (1..n)
    BY FS_Interval
  <2> QED BY <2>1, FS_Subset
<1>2. \A x, y \in I : <<x, y>> \in R <=> x <= y
  OBVIOUS
<1> HIDE DEF R
<1>3. Orders(R, I)
  BY <1>2 DEF Orders
<1> QED BY <1>1, <1>2, <1>3 DEF R

\* Ascending has each number of I once, the smaller before the larger.
LEMMA AscendingIs ==
    ASSUME NEW n \in Nat, NEW I, I \subseteq 1..n
    PROVE  /\ IsFiniteSet(I) /\ Cardinality(I) \in Nat
           /\ Ascending(I) \in [1..Cardinality(I) -> I]
           /\ \A i \in I : \E k \in 1..Cardinality(I) : Ascending(I)[k] = i
           /\ \A j, k \in 1..Cardinality(I) : j < k => Ascending(I)[j] < Ascending(I)[k]
<1> DEFINE R == {pair \in I \X I : pair[1] <= pair[2]}
<1>1. IsFiniteSet(I) /\ Orders(R, I) /\ \A x, y \in I : <<x, y>> \in R <=> x <= y
  BY AscendingOrders
<1>2. Ascending(I) = InOrder(I, R)
  BY DEF Ascending
<1> HIDE DEF R
<1>3. PICK p : p = Ascending(I)
  OBVIOUS
<1>4. /\ Cardinality(I) \in Nat /\ p \in [1..Cardinality(I) -> I]
      /\ \A i \in I : \E k \in 1..Cardinality(I) : p[k] = i
      /\ \A j, k \in 1..Cardinality(I) : j < k => <<p[j], p[k]>> \in R /\ p[j] # p[k]
  BY <1>1, <1>2, <1>3, InOrderIsOrdered
<1>5. \A j, k \in 1..Cardinality(I) : j < k => p[j] < p[k]
  <2> SUFFICES ASSUME NEW j \in 1..Cardinality(I), NEW k \in 1..Cardinality(I), j < k PROVE p[j] < p[k]
    OBVIOUS
  <2>1. p[j] \in I /\ p[k] \in I /\ p[j] # p[k] /\ <<p[j], p[k]>> \in R
    BY <1>4
  <2>2. p[j] <= p[k]
    BY <1>1, <2>1
  <2>3. p[j] \in Int /\ p[k] \in Int
    <3>1. \A i \in I : i \in Int
      OBVIOUS
    <3> QED BY <2>1, <3>1
  <2> QED BY <2>1, <2>2, <2>3
<1> QED BY <1>1, <1>3, <1>4, <1>5

\* There is no other such sequence.
LEMMA AscendingIsOnly ==
    ASSUME NEW n \in Nat, NEW I, I \subseteq 1..n, NEW m \in Nat, NEW q \in [1..m -> I],
           \A i \in I : \E k \in 1..m : q[k] = i,
           \A j, k \in 1..m : j < k => q[j] < q[k]
    PROVE  m = Cardinality(I) /\ q = Ascending(I)
<1> DEFINE R == {pair \in I \X I : pair[1] <= pair[2]}
<1>1. IsFiniteSet(I) /\ Orders(R, I) /\ \A x, y \in I : <<x, y>> \in R <=> x <= y
  BY AscendingOrders
<1>2. Ascending(I) = [k \in 1..Cardinality(I) |-> CHOOSE x \in I : RankIn(I, R, x) = k]
  BY DEF Ascending, InOrder, RankIn
<1>3. \A j \in 1..m : q[j] \in I /\ q[j] \in Int
  <2>1. \A i \in I : i \in Int
    OBVIOUS
  <2> QED BY <2>1
<1>4. \A j, k \in 1..m : (q[j] <= q[k] <=> j <= k) /\ (q[j] = q[k] => j = k)
  <2> SUFFICES ASSUME NEW j \in 1..m, NEW k \in 1..m PROVE (q[j] <= q[k] <=> j <= k) /\ (q[j] = q[k] => j = k)
    OBVIOUS
  <2>1. j < k \/ j = k \/ k < j
    OBVIOUS
  <2>2. (j < k => q[j] < q[k]) /\ (k < j => q[k] < q[j])
    OBVIOUS
  <2> QED BY <1>3, <2>1, <2>2
<1>5. m = Cardinality(I)
  <2>1. q \in Bijection(1..m, I)
    BY <1>4 DEF Bijection, Injection, Surjection, IsInjective
  <2> QED BY <2>1, FS_CountingElements DEF ExistsBijection
<1> HIDE DEF R
<1>6. ASSUME NEW k \in 1..m PROVE RankIn(I, R, q[k]) = k
  <2> DEFINE Upto == {y \in I : <<y, q[k]>> \in R}
             b == [j \in 1..k |-> q[j]]
  <2>1. \A j \in 1..m : j \in 1..k <=> q[j] <= q[k]
    BY <1>4
  <2>2. \A j \in 1..m : q[j] \in I
    OBVIOUS
  <2>3. \A y \in I : y \in Upto <=> y <= q[k]
    BY <1>1, <2>2
  <2>4. b \in Bijection(1..k, Upto)
    <3>1. \A j \in 1..k : b[j] = q[j] /\ j \in 1..m
      OBVIOUS
    <3>2. b \in [1..k -> Upto]
      BY <2>1, <2>2, <2>3, <3>1
    <3>3. \A i, j \in 1..k : b[i] = b[j] => i = j
      BY <1>4, <3>1
    <3>4. \A y \in Upto : \E j \in 1..k : b[j] = y
      BY <2>1, <2>3, <3>1
    <3> QED BY <3>2, <3>3, <3>4 DEF Bijection, Injection, Surjection, IsInjective
  <2>5. Cardinality(Upto) = k
    BY <2>4, FS_CountingElements DEF ExistsBijection
  <2> QED BY <2>5 DEF RankIn
<1>7. ASSUME NEW k \in 1..m, NEW x \in I, RankIn(I, R, x) = k PROVE x = q[k]
  <2>1. PICK j \in 1..m : q[j] = x
    OBVIOUS
  <2> QED BY <1>6, <1>7, <2>1
<1>8. \A k \in 1..m : Ascending(I)[k] = q[k]
  <2> SUFFICES ASSUME NEW k \in 1..m PROVE Ascending(I)[k] = q[k]
    OBVIOUS
  <2>1. q[k] \in I /\ RankIn(I, R, q[k]) = k
    BY <1>6
  <2>2. (CHOOSE x \in I : RankIn(I, R, x) = k) = q[k]
    BY <1>7, <2>1
  <2> QED BY <1>2, <1>5, <2>2
<1>9. Ascending(I) = [k \in 1..m |-> Ascending(I)[k]]
  BY <1>2, <1>5
<1>10. q = [k \in 1..m |-> q[k]]
  OBVIOUS
<1> QED BY <1>5, <1>8, <1>9, <1>10

\* p goes through the positions I of a sequence.
Walks(p, m, I) ==
    /\ p \in [1..m -> I]
    /\ \A i \in I : \E k \in 1..m : p[k] = i
    /\ \A j, k \in 1..m : j < k => p[j] < p[k]

LEMMA AscendingWalks ==
    ASSUME NEW n \in Nat, NEW I, I \subseteq 1..n
    PROVE  Cardinality(I) \in Nat /\ Walks(Ascending(I), Cardinality(I), I)
BY AscendingIs DEF Walks

LEMMA AscendingWalksOnly ==
    ASSUME NEW n \in Nat, NEW I, I \subseteq 1..n, NEW m \in Nat, NEW p, Walks(p, m, I)
    PROVE  p = Ascending(I)
<1>1. /\ p \in [1..m -> I]
      /\ \A i \in I : \E k \in 1..m : p[k] = i
      /\ \A j, k \in 1..m : j < k => p[j] < p[k]
  BY DEF Walks
<1> QED BY <1>1, AscendingIsOnly

\* e has the elements of s at the positions I.
Takes(e, s, I) == \E p : Walks(p, Len(e), I) /\ \A k \in 1..Len(e) : e[k] = s[p[k]]

LEMMA ElementsAtTakes ==
    ASSUME NEW S, NEW s \in Seq(S), NEW I, I \subseteq 1..Len(s), NEW e, e = ElementsAt(s, I)
    PROVE  e \in Seq(S) /\ Takes(e, s, I)
<1>1. PICK p : p = Ascending(I)
  OBVIOUS
<1>2. PICK m : m = Cardinality(I)
  OBVIOUS
<1>3. m \in Nat /\ Walks(p, m, I)
  <2>1. Len(s) \in Nat
    OBVIOUS
  <2> QED BY <1>1, <1>2, <2>1, AscendingWalks
<1>4. DOMAIN p = 1..m
  BY <1>3 DEF Walks
<1>5. e = [k \in 1..m |-> s[p[k]]]
  BY <1>1, <1>4 DEF ElementsAt
<1>6. \A k \in 1..m : p[k] \in 1..Len(s)
  BY <1>3 DEF Walks
<1>7. e \in Seq(S) /\ Len(e) = m
  BY <1>3, <1>5, <1>6
<1> QED BY <1>3, <1>5, <1>7 DEF Takes

LEMMA ElementsAtIsOnly ==
    ASSUME NEW S, NEW s \in Seq(S), NEW I, I \subseteq 1..Len(s), NEW p, NEW e \in Seq(S), Walks(p, Len(e), I),
           \A k \in 1..Len(e) : e[k] = s[p[k]]
    PROVE  ElementsAt(s, I) = e
<1>1. p = Ascending(I)
  <2>1. Len(s) \in Nat /\ Len(e) \in Nat
    OBVIOUS
  <2> QED BY <2>1, AscendingWalksOnly
<1>2. DOMAIN p = 1..Len(e)
  BY DEF Walks
<1>3. ElementsAt(s, I) = [k \in 1..Len(e) |-> s[p[k]]]
  BY <1>1, <1>2 DEF ElementsAt
<1>4. e = [k \in 1..Len(e) |-> e[k]]
  OBVIOUS
<1> QED BY <1>3, <1>4

LEMMA AllElements ==
    ASSUME NEW S, NEW s \in Seq(S)
    PROVE  ElementsAt(s, 1..Len(s)) = s
<1>1. PICK p : p = [k \in 1..Len(s) |-> k]
  OBVIOUS
<1>2. Walks(p, Len(s), 1..Len(s))
  BY <1>1 DEF Walks
<1>3. \A k \in 1..Len(s) : s[k] = s[p[k]]
  BY <1>1
<1> QED BY <1>2, <1>3, ElementsAtIsOnly

\* What goes through I goes through I and a later position when that is appended.
LEMMA WalkFurther ==
    ASSUME NEW n \in Nat, NEW I, I \subseteq 1..n, NEW m \in Nat, NEW p, Walks(p, m, I)
    PROVE  Walks([k \in 1..(m + 1) |-> IF k <= m THEN p[k] ELSE n + 1], m + 1, I \union {n + 1})
<1>1. PICK q : q = [k \in 1..(m + 1) |-> IF k <= m THEN p[k] ELSE n + 1]
  OBVIOUS
<1>2. \A k \in 1..m : p[k] \in I /\ p[k] \in 1..n /\ q[k] = p[k]
  <2>1. \A k \in 1..m : p[k] \in I /\ q[k] = p[k]
    BY <1>1 DEF Walks
  <2> QED BY <2>1
<1>3. q[m + 1] = n + 1
  BY <1>1
<1>4. \A k \in 1..(m + 1) : k \in 1..m \/ k = m + 1
  OBVIOUS
<1>5. q \in [1..(m + 1) -> I \union {n + 1}]
  BY <1>1, <1>2, <1>3, <1>4
<1>6. \A i \in I \union {n + 1} : \E k \in 1..(m + 1) : q[k] = i
  <2>1. \A i \in I : \E k \in 1..m : q[k] = i
    BY <1>2 DEF Walks
  <2>2. 1..m \subseteq 1..(m + 1) /\ m + 1 \in 1..(m + 1)
    OBVIOUS
  <2> QED BY <1>3, <2>1, <2>2
<1>7. ASSUME NEW j \in 1..(m + 1), NEW k \in 1..(m + 1), j < k PROVE q[j] < q[k]
  <2>1. j \in 1..m
    BY <1>7
  <2>2. CASE k \in 1..m
    BY <1>2, <1>7, <2>1, <2>2 DEF Walks
  <2>3. CASE k = m + 1
    BY <1>2, <1>3, <2>1, <2>3
  <2> QED BY <1>4, <2>2, <2>3
<1> QED BY <1>1, <1>5, <1>6, <1>7 DEF Walks

\* t has one element more than s, and J one position more than I.
Further(s, t, I, J) ==
    /\ Len(t) = Len(s) + 1 /\ \A i \in 1..Len(s) : t[i] = s[i]
    /\ I \subseteq 1..Len(s) /\ J = I \union {Len(s) + 1}

\* A further element is one more or none.
LEMMA ElementsAtAppend ==
    ASSUME NEW S, NEW s \in Seq(S), NEW t \in Seq(S), NEW I, NEW J, Further(s, t, I, J)
    PROVE  /\ ElementsAt(t, I) = ElementsAt(s, I)
           /\ ElementsAt(t, J) = Append(ElementsAt(s, I), t[Len(t)])
<1>1. /\ Len(t) = Len(s) + 1 /\ \A i \in 1..Len(s) : t[i] = s[i]
      /\ I \subseteq 1..Len(s) /\ J = I \union {Len(s) + 1}
  BY DEF Further
<1>2. PICK x : x = t[Len(t)]
  OBVIOUS
<1>3. PICK n : n = Len(s)
  OBVIOUS
<1>4. n \in Nat /\ t \in Seq(S) /\ Len(t) = n + 1 /\ x \in S /\ t[n + 1] = x /\ \A i \in 1..n : t[i] = s[i]
  BY <1>1, <1>2, <1>3
<1>5. PICK e : e = ElementsAt(s, I)
  OBVIOUS
<1>6. e \in Seq(S) /\ Takes(e, s, I)
  BY <1>1, <1>5, ElementsAtTakes
<1>7. PICK p : Walks(p, Len(e), I) /\ \A k \in 1..Len(e) : e[k] = s[p[k]]
  BY <1>6 DEF Takes
<1>8. PICK m : m = Len(e)
  OBVIOUS
<1>9. I \subseteq 1..n
  BY <1>1, <1>3
<1>10. m \in Nat /\ \A k \in 1..m : p[k] \in 1..n
  <2>1. \A k \in 1..m : p[k] \in I
    BY <1>7, <1>8 DEF Walks
  <2>2. \A i \in I : i \in 1..n
    BY <1>9
  <2>3. m \in Nat
    BY <1>6, <1>8
  <2> QED BY <2>1, <2>2, <2>3
<1>11. I \subseteq 1..(n + 1) /\ I \union {n + 1} \subseteq 1..(n + 1)
  <2>1. \A i \in 1..n : i \in 1..(n + 1)
    BY <1>4
  <2>2. n + 1 \in 1..(n + 1)
    BY <1>4
  <2> QED BY <1>9, <2>1, <2>2
<1>12. ElementsAt(t, I) = e
  <2>1. \A k \in 1..Len(e) : e[k] = t[p[k]]
    BY <1>4, <1>7, <1>8, <1>10
  <2> QED BY <1>4, <1>6, <1>7, <1>11, <2>1, ElementsAtIsOnly
<1>13. PICK q : q = [k \in 1..(m + 1) |-> IF k <= m THEN p[k] ELSE n + 1]
  OBVIOUS
<1>14. Walks(q, m + 1, I \union {n + 1})
  BY <1>4, <1>7, <1>8, <1>10, <1>9, <1>13, WalkFurther
<1>15. PICK z : z = Append(e, x)
  OBVIOUS
<1>16. z \in Seq(S) /\ Len(z) = m + 1 /\ z[m + 1] = x /\ \A k \in 1..m : z[k] = e[k]
  BY <1>4, <1>6, <1>8, <1>15
<1>17. \A k \in 1..Len(z) : z[k] = t[q[k]]
  <2>1. \A k \in 1..m : z[k] = t[q[k]]
    BY <1>4, <1>7, <1>8, <1>10, <1>13, <1>16
  <2>2. z[m + 1] = t[q[m + 1]]
    BY <1>4, <1>10, <1>13, <1>16
  <2>3. \A k \in 1..Len(z) : k \in 1..m \/ k = m + 1
    BY <1>10, <1>16
  <2> QED BY <2>1, <2>2, <2>3
<1>18. ElementsAt(t, J) = z
  <2>1. J = I \union {n + 1}
    BY <1>1, <1>3
  <2>2. J \subseteq 1..Len(t) /\ Walks(q, Len(z), J)
    BY <1>4, <1>11, <1>14, <1>16, <2>1
  <2>3. t \in Seq(S) /\ z \in Seq(S)
    BY <1>4, <1>16
  <2> QED BY <1>17, <2>2, <2>3, ElementsAtIsOnly
<1>19. z = Append(e, t[Len(t)])
  BY <1>2, <1>15
<1> QED BY <1>5, <1>12, <1>18, <1>19

\* Within and Without keep the elements that they say, and no others.
LEMMA TakesThese ==
    ASSUME NEW e, NEW s, NEW I, Takes(e, s, I)
    PROVE  /\ \A k \in 1..Len(e) : \E i \in I : e[k] = s[i]
           /\ \A i \in I : \E k \in 1..Len(e) : e[k] = s[i]
<1>1. PICK p : Walks(p, Len(e), I) /\ \A k \in 1..Len(e) : e[k] = s[p[k]]
  BY DEF Takes
<1>2. (\A k \in 1..Len(e) : p[k] \in I) /\ \A i \in I : \E k \in 1..Len(e) : p[k] = i
  BY <1>1 DEF Walks
<1>3. \A k \in 1..Len(e) : \E i \in I : e[k] = s[i]
  BY <1>1, <1>2
<1>4. \A i \in I : \E k \in 1..Len(e) : e[k] = s[i]
  BY <1>1, <1>2
<1> QED BY <1>3, <1>4

LEMMA WithinTakes ==
    ASSUME NEW S, NEW s \in Seq(S), NEW T, NEW I, I \subseteq 1..Len(s), \A i \in 1..Len(s) : i \in I <=> s[i] \in T
    PROVE  Within(s, T) = ElementsAt(s, I)
<1>1. {i \in DOMAIN s : s[i] \in T} = I
  <2>1. DOMAIN s = 1..Len(s)
    OBVIOUS
  <2> QED BY <2>1, Zenon
<1> QED BY <1>1, Zenon DEF Within

LEMMA WithoutTakes ==
    ASSUME NEW S, NEW s \in Seq(S), NEW T, NEW I, I \subseteq 1..Len(s), \A i \in 1..Len(s) : i \in I <=> s[i] \notin T
    PROVE  Without(s, T) = ElementsAt(s, I)
<1>1. {i \in DOMAIN s : s[i] \notin T} = I
  <2>1. DOMAIN s = 1..Len(s)
    OBVIOUS
  <2> QED BY <2>1, Zenon
<1> QED BY <1>1, Zenon DEF Without

LEMMA WithoutHas ==
    ASSUME NEW S, NEW s \in Seq(S), NEW T, NEW e, e = Without(s, T)
    PROVE  e \in Seq(S) /\ \A x : Contains(e, x) <=> Contains(s, x) /\ x \notin T
<1>1. PICK I : I = {i \in 1..Len(s) : s[i] \notin T}
  OBVIOUS
<1>2. \A i \in 1..Len(s) : i \in I <=> s[i] \notin T
  BY <1>1
<1>3. I \subseteq 1..Len(s)
  BY <1>1
<1>4. e = ElementsAt(s, I)
  BY <1>1, <1>2, <1>3, WithoutTakes
<1>5. e \in Seq(S) /\ Takes(e, s, I)
  BY <1>4, <1>3, ElementsAtTakes
<1>6. /\ \A k \in 1..Len(e) : \E i \in I : e[k] = s[i]
      /\ \A i \in I : \E k \in 1..Len(e) : e[k] = s[i]
  BY <1>5, TakesThese
<1>7. ASSUME NEW k \in 1..Len(e) PROVE (\E i \in 1..Len(s) : s[i] = e[k]) /\ e[k] \notin T
  <2>1. PICK i \in I : e[k] = s[i]
    BY <1>6
  <2> QED BY <1>2, <1>3, <2>1
<1>8. ASSUME NEW i \in 1..Len(s), s[i] \notin T PROVE \E k \in 1..Len(e) : e[k] = s[i]
  <2>1. i \in I
    BY <1>2, <1>8
  <2> QED BY <1>6, <2>1
<1>9. ASSUME NEW x
      PROVE  (\E k \in 1..Len(e) : e[k] = x) <=> (\E i \in 1..Len(s) : s[i] = x) /\ x \notin T
  <2>1. ASSUME NEW k \in 1..Len(e), e[k] = x PROVE (\E i \in 1..Len(s) : s[i] = x) /\ x \notin T
    BY <1>7, <2>1
  <2>2. ASSUME NEW i \in 1..Len(s), s[i] = x, x \notin T PROVE \E k \in 1..Len(e) : e[k] = x
    BY <1>8, <2>2
  <2> QED BY <2>1, <2>2
<1> QED BY <1>5, <1>9 DEF Contains

LEMMA WithinHas ==
    ASSUME NEW S, NEW s \in Seq(S), NEW T, NEW e, e = Within(s, T)
    PROVE  e \in Seq(S) /\ \A x : Contains(e, x) <=> Contains(s, x) /\ x \in T
<1>1. PICK I : I = {i \in 1..Len(s) : s[i] \in T}
  OBVIOUS
<1>2. \A i \in 1..Len(s) : i \in I <=> s[i] \in T
  BY <1>1
<1>3. I \subseteq 1..Len(s)
  BY <1>1
<1>4. e = ElementsAt(s, I)
  BY <1>1, <1>2, <1>3, WithinTakes
<1>5. e \in Seq(S) /\ Takes(e, s, I)
  BY <1>4, <1>3, ElementsAtTakes
<1>6. /\ \A k \in 1..Len(e) : \E i \in I : e[k] = s[i]
      /\ \A i \in I : \E k \in 1..Len(e) : e[k] = s[i]
  BY <1>5, TakesThese
<1>7. ASSUME NEW k \in 1..Len(e) PROVE (\E i \in 1..Len(s) : s[i] = e[k]) /\ e[k] \in T
  <2>1. PICK i \in I : e[k] = s[i]
    BY <1>6
  <2> QED BY <1>2, <1>3, <2>1
<1>8. ASSUME NEW i \in 1..Len(s), s[i] \in T PROVE \E k \in 1..Len(e) : e[k] = s[i]
  <2>1. i \in I
    BY <1>2, <1>8
  <2> QED BY <1>6, <2>1
<1>9. ASSUME NEW x
      PROVE  (\E k \in 1..Len(e) : e[k] = x) <=> (\E i \in 1..Len(s) : s[i] = x) /\ x \in T
  <2>1. ASSUME NEW k \in 1..Len(e), e[k] = x PROVE (\E i \in 1..Len(s) : s[i] = x) /\ x \in T
    BY <1>7, <2>1
  <2>2. ASSUME NEW i \in 1..Len(s), s[i] = x, x \in T PROVE \E k \in 1..Len(e) : e[k] = x
    BY <1>8, <2>2
  <2> QED BY <2>1, <2>2
<1> QED BY <1>5, <1>9 DEF Contains

LEMMA WithoutNothing ==
    ASSUME NEW S, NEW s \in Seq(S), NEW T, \A x \in T : ~ Contains(s, x)
    PROVE  Without(s, T) = s
<1>1. \A i \in 1..Len(s) : s[i] \notin T
  BY DEF Contains
<1>2. {i \in DOMAIN s : s[i] \notin T} = 1..Len(s)
  BY <1>1
<1> QED BY <1>2, AllElements DEF Without

LEMMA WithinNothing ==
    ASSUME NEW S, NEW s \in Seq(S), NEW T, \A x \in T : ~ Contains(s, x)
    PROVE  Within(s, T) = <<>>
<1>1. PICK e : e = Within(s, T)
  OBVIOUS
<1>2. e \in Seq(S) /\ \A x : ~ Contains(e, x)
  BY <1>1, WithinHas
<1>3. \A k \in 1..Len(e) : Contains(e, e[k])
  BY DEF Contains
<1>4. e = <<>>
  BY <1>2, <1>3
<1> QED BY <1>1, <1>4

LEMMA WithoutAppend ==
    ASSUME NEW S, NEW s \in Seq(S), NEW x \in S, NEW T
    PROVE  /\ x \in T => Without(Append(s, x), T) = Without(s, T)
           /\ x \notin T => Without(Append(s, x), T) = Append(Without(s, T), x)
<1>1. PICK t : t = Append(s, x)
  OBVIOUS
<1>2. PICK I : I = {i \in 1..Len(s) : s[i] \notin T}
  OBVIOUS
<1>3. PICK J : J = {i \in 1..Len(t) : t[i] \notin T}
  OBVIOUS
<1>4. t \in Seq(S) /\ Len(t) = Len(s) + 1 /\ t[Len(s) + 1] = x /\ \A i \in 1..Len(s) : t[i] = s[i]
  BY <1>1
<1>5. I \subseteq 1..Len(s)
  BY <1>2
<1>6. /\ I \subseteq 1..Len(s) /\ \A i \in 1..Len(s) : i \in I <=> s[i] \notin T
      /\ J \subseteq 1..Len(t) /\ \A i \in 1..Len(t) : i \in J <=> t[i] \notin T
  BY <1>2, <1>3
<1>7. Without(s, T) = ElementsAt(s, I) /\ Without(t, T) = ElementsAt(t, J)
  BY <1>4, <1>6, WithoutTakes
<1>8. J = IF x \in T THEN I ELSE I \union {Len(s) + 1}
  <2>1. \A i : i \in 1..Len(t) <=> i \in 1..Len(s) \/ i = Len(s) + 1
    BY <1>4
  <2>2. Len(s) + 1 \notin 1..Len(s)
    OBVIOUS
  <2> QED BY <1>2, <1>3, <1>4, <2>1, <2>2
<1>9. PICK K : K = I \union {Len(s) + 1}
  OBVIOUS
<1>10. /\ ElementsAt(t, I) = ElementsAt(s, I)
      /\ ElementsAt(t, K) = Append(ElementsAt(s, I), x)
  <2>1. Further(s, t, I, K)
    BY <1>4, <1>5, <1>9 DEF Further
  <2> QED BY <1>4, <2>1, ElementsAtAppend
<1> QED BY <1>1, <1>7, <1>8, <1>10, <1>9

LEMMA WithinAppend ==
    ASSUME NEW S, NEW s \in Seq(S), NEW x \in S, NEW T
    PROVE  /\ x \in T => Within(Append(s, x), T) = Append(Within(s, T), x)
           /\ x \notin T => Within(Append(s, x), T) = Within(s, T)
<1>1. PICK t : t = Append(s, x)
  OBVIOUS
<1>2. PICK I : I = {i \in 1..Len(s) : s[i] \in T}
  OBVIOUS
<1>3. PICK J : J = {i \in 1..Len(t) : t[i] \in T}
  OBVIOUS
<1>4. t \in Seq(S) /\ Len(t) = Len(s) + 1 /\ t[Len(s) + 1] = x /\ \A i \in 1..Len(s) : t[i] = s[i]
  BY <1>1
<1>5. I \subseteq 1..Len(s)
  BY <1>2
<1>6. /\ I \subseteq 1..Len(s) /\ \A i \in 1..Len(s) : i \in I <=> s[i] \in T
      /\ J \subseteq 1..Len(t) /\ \A i \in 1..Len(t) : i \in J <=> t[i] \in T
  BY <1>2, <1>3
<1>7. Within(s, T) = ElementsAt(s, I) /\ Within(t, T) = ElementsAt(t, J)
  BY <1>4, <1>6, WithinTakes
<1>8. J = IF x \in T THEN I \union {Len(s) + 1} ELSE I
  <2>1. \A i : i \in 1..Len(t) <=> i \in 1..Len(s) \/ i = Len(s) + 1
    BY <1>4
  <2>2. Len(s) + 1 \notin 1..Len(s)
    OBVIOUS
  <2> QED BY <1>2, <1>3, <1>4, <2>1, <2>2
<1>9. PICK K : K = I \union {Len(s) + 1}
  OBVIOUS
<1>10. /\ ElementsAt(t, I) = ElementsAt(s, I)
      /\ ElementsAt(t, K) = Append(ElementsAt(s, I), x)
  <2>1. Further(s, t, I, K)
    BY <1>4, <1>5, <1>9 DEF Further
  <2> QED BY <1>4, <2>1, ElementsAtAppend
<1> QED BY <1>1, <1>7, <1>8, <1>10, <1>9

\* x is the first element of s that is in T.
IsFirst(x, s, T) == x \in T /\ \E i \in 1..Len(s) : s[i] = x /\ \A j \in 1..(i - 1) : s[j] \notin T

LEMMA FirstIsOnly ==
    ASSUME NEW S, NEW s \in Seq(S), NEW T, NEW x, NEW y, IsFirst(x, s, T), IsFirst(y, s, T)
    PROVE  x = y
<1>1. PICK i \in 1..Len(s) : s[i] = x /\ \A j \in 1..(i - 1) : s[j] \notin T
  BY DEF IsFirst
<1>2. PICK k \in 1..Len(s) : s[k] = y /\ \A j \in 1..(k - 1) : s[j] \notin T
  BY DEF IsFirst
<1>3. x \in T /\ y \in T
  BY DEF IsFirst
<1>4. ~ i < k /\ ~ k < i
  BY <1>1, <1>2, <1>3
<1> QED BY <1>1, <1>2, <1>4

LEMMA WithinStarts ==
    ASSUME NEW S, NEW s \in Seq(S), NEW T, Within(s, T) # <<>>
    PROVE  IsFirst(Within(s, T)[1], s, T)
<1>1. PICK e : e = Within(s, T)
  OBVIOUS
<1>2. PICK I : I = {i \in 1..Len(s) : s[i] \in T}
  OBVIOUS
<1>3. I \subseteq 1..Len(s) /\ \A i \in 1..Len(s) : i \in I <=> s[i] \in T
  BY <1>2
<1>4. e = ElementsAt(s, I)
  BY <1>1, <1>3, WithinTakes
<1>5. e \in Seq(S) /\ Takes(e, s, I)
  BY <1>4, <1>3, ElementsAtTakes
<1>6. PICK p : Walks(p, Len(e), I) /\ \A k \in 1..Len(e) : e[k] = s[p[k]]
  BY <1>5 DEF Takes
<1>7. Len(e) \in Nat /\ 1 \in 1..Len(e)
  BY <1>1, <1>5
<1>8. p[1] \in I /\ e[1] = s[p[1]] /\ p[1] \in 1..Len(s)
  <2>1. p[1] \in I
    BY <1>6, <1>7 DEF Walks
  <2>2. p[1] \in 1..Len(s)
    BY <1>3, <2>1
  <2> QED BY <1>6, <1>7, <2>1, <2>2
<1>9. ASSUME NEW j \in 1..(p[1] - 1), j \in I PROVE FALSE
  <2>1. PICK k \in 1..Len(e) : p[k] = j
    BY <1>6, <1>9 DEF Walks
  <2>2. k = 1 \/ p[1] < p[k]
    BY <1>6, <1>7 DEF Walks
  <2> QED BY <1>8, <2>1, <2>2
<1>10. \A j \in 1..(p[1] - 1) : j \in 1..Len(s)
  BY <1>8
<1>11. \A j \in 1..(p[1] - 1) : s[j] \notin T
  BY <1>9, <1>10, <1>3
<1> QED BY <1>1, <1>8, <1>10, <1>3, <1>11 DEF IsFirst

NoRepeats(s) == \A i, j \in 1..Len(s) : i < j => s[i] # s[j]

\* Where an element is first.
Firsts(s) == {i \in 1..Len(s) : \A j \in 1..(i - 1) : s[j] # s[i]}

LEMMA DistinctTakes ==
    ASSUME NEW S, NEW s \in Seq(S), NEW d, d = Distinct(s)
    PROVE  d = ElementsAt(s, Firsts(s)) /\ d \in Seq(S) /\ Takes(d, s, Firsts(s))
<1>1. {i \in DOMAIN s : \A j \in 1..(i - 1) : s[j] # s[i]} = Firsts(s)
  <2>1. DOMAIN s = 1..Len(s)
    OBVIOUS
  <2> QED BY <2>1, Zenon DEF Firsts
<1>2. PICK I : I = Firsts(s)
  OBVIOUS
<1>3. d = ElementsAt(s, I)
  BY <1>1, <1>2, Zenon DEF Distinct
<1>4. I \subseteq 1..Len(s)
  BY <1>2 DEF Firsts
<1>5. d \in Seq(S) /\ Takes(d, s, I)
  BY <1>3, <1>4, ElementsAtTakes
<1> QED BY <1>2, <1>3, <1>5

\* A set of positions has a least one.
LEMMA LeastExists ==
    ASSUME NEW n \in Nat, NEW I, I \subseteq 1..n, NEW i \in I
    PROVE  \E k \in I : k <= i /\ \A j \in I : k <= j
<1>1. PICK p : p = Ascending(I)
  OBVIOUS
<1>2. PICK m : m = Cardinality(I)
  OBVIOUS
<1>3. m \in Nat /\ Walks(p, m, I)
  BY <1>1, <1>2, AscendingWalks
<1>4. \A j \in I : j \in Int
  OBVIOUS
<1>5. \A j \in I : \E k \in 1..m : p[k] = j
  BY <1>3 DEF Walks
<1>6. 1 \in 1..m /\ p[1] \in I
  <2>1. 1 \in 1..m
    BY <1>3, <1>5
  <2> QED BY <1>3, <2>1 DEF Walks
<1>7. \A k \in 1..m : p[1] <= p[k]
  <2> SUFFICES ASSUME NEW k \in 1..m PROVE p[1] <= p[k]
    OBVIOUS
  <2>1. k = 1 \/ 1 < k
    OBVIOUS
  <2>2. 1 < k => p[1] < p[k]
    BY <1>3, <1>6 DEF Walks
  <2>3. p[k] \in Int /\ p[1] \in Int
    BY <1>3, <1>4, <1>6 DEF Walks
  <2> QED BY <2>1, <2>2, <2>3
<1> QED BY <1>5, <1>6, <1>7

\* An element is first somewhere.
LEMMA FirstExists ==
    ASSUME NEW S, NEW s \in Seq(S), NEW i \in 1..Len(s)
    PROVE  \E k \in Firsts(s) : s[k] = s[i]
<1>1. PICK A : A = {n \in 1..Len(s) : s[n] = s[i]}
  OBVIOUS
<1>2. i \in A /\ A \subseteq 1..Len(s) /\ Len(s) \in Nat /\ \A n \in 1..Len(s) : n \in A <=> s[n] = s[i]
  BY <1>1
<1>3. PICK k \in A : \A j \in A : k <= j
  BY <1>2, LeastExists
<1>4. k \in 1..Len(s) /\ s[k] = s[i]
  BY <1>2
<1>5. \A j \in 1..(k - 1) : s[j] # s[k]
  <2> SUFFICES ASSUME NEW j \in 1..(k - 1), s[j] = s[k] PROVE FALSE
    OBVIOUS
  <2>1. j \in 1..Len(s)
    BY <1>4
  <2>2. k <= j
    BY <1>2, <1>3, <1>4, <2>1
  <2> QED BY <1>4, <2>2
<1> QED BY <1>4, <1>5 DEF Firsts

\* Distinct has each element of s, once.
LEMMA DistinctHas ==
    ASSUME NEW S, NEW s \in Seq(S)
    PROVE  /\ Distinct(s) \in Seq(S) /\ NoRepeats(Distinct(s))
           /\ \A x : Contains(Distinct(s), x) <=> Contains(s, x)
<1>1. PICK d : d = Distinct(s)
  OBVIOUS
<1>2. PICK I : I = Firsts(s)
  OBVIOUS
<1>3. d \in Seq(S) /\ Takes(d, s, I)
  BY <1>1, <1>2, DistinctTakes
<1>4. PICK p : Walks(p, Len(d), I) /\ \A k \in 1..Len(d) : d[k] = s[p[k]]
  BY <1>3 DEF Takes
<1>5. \A i \in I : i \in 1..Len(s) /\ \A j \in 1..(i - 1) : s[j] # s[i]
  BY <1>2 DEF Firsts
<1>6. ASSUME NEW j \in 1..Len(d), NEW k \in 1..Len(d), j < k PROVE d[j] # d[k]
  <2>1. p[j] \in I /\ p[k] \in I /\ p[j] < p[k]
    BY <1>4, <1>6 DEF Walks
  <2>2. p[j] \in 1..(p[k] - 1)
    BY <1>5, <2>1
  <2> QED BY <1>4, <1>5, <2>1, <2>2
<1>7. ASSUME NEW k \in 1..Len(d) PROVE \E i \in 1..Len(s) : s[i] = d[k]
  <2>1. p[k] \in I
    BY <1>4 DEF Walks
  <2> QED BY <1>4, <1>5, <2>1
<1>8. ASSUME NEW i \in 1..Len(s) PROVE \E k \in 1..Len(d) : d[k] = s[i]
  <2>1. PICK h \in I : s[h] = s[i]
    BY <1>2, FirstExists
  <2>2. PICK k \in 1..Len(d) : p[k] = h
    BY <1>4, <2>1 DEF Walks
  <2> QED BY <1>4, <2>1, <2>2
<1>9. \A x : (\E k \in 1..Len(d) : d[k] = x) <=> \E i \in 1..Len(s) : s[i] = x
  BY <1>7, <1>8
<1>10. NoRepeats(d)
  BY <1>6 DEF NoRepeats
<1>11. \A x : Contains(d, x) <=> Contains(s, x)
  BY <1>9 DEF Contains
<1> QED BY <1>1, <1>3, <1>10, <1>11

LEMMA DistinctOnce ==
    ASSUME NEW S, NEW s \in Seq(S), NoRepeats(s)
    PROVE  Distinct(s) = s
<1>1. Firsts(s) = 1..Len(s)
  BY DEF NoRepeats, Firsts
<1>2. Distinct(s) = ElementsAt(s, Firsts(s))
  BY DistinctTakes
<1> QED BY <1>1, <1>2, AllElements

\* The first element of a kind stays the first.
LEMMA DistinctStarts ==
    ASSUME NEW S, NEW s \in Seq(S), NEW T, NEW x, IsFirst(x, s, T)
    PROVE  IsFirst(x, Distinct(s), T)
<1>1. PICK d : d = Distinct(s)
  OBVIOUS
<1>2. PICK I : I = Firsts(s)
  OBVIOUS
<1>3. d \in Seq(S) /\ Takes(d, s, I)
  BY <1>1, <1>2, DistinctTakes
<1>4. PICK p : Walks(p, Len(d), I) /\ \A k \in 1..Len(d) : d[k] = s[p[k]]
  BY <1>3 DEF Takes
<1>5. PICK i \in 1..Len(s) : s[i] = x /\ \A j \in 1..(i - 1) : s[j] \notin T
  BY DEF IsFirst
<1>6. x \in T
  BY DEF IsFirst
<1>7. i \in I
  BY <1>2, <1>5, <1>6 DEF Firsts
<1>8. PICK k \in 1..Len(d) : p[k] = i
  BY <1>4, <1>7 DEF Walks
<1>9. \A h \in I : h \in 1..Len(s)
  BY <1>2 DEF Firsts
<1>10. ASSUME NEW j \in 1..(k - 1) PROVE d[j] \notin T
  <2>1. j \in 1..Len(d) /\ j < k
    BY <1>3, <1>8
  <2>2. p[j] \in I /\ p[j] < p[k]
    BY <1>4, <1>8, <2>1 DEF Walks
  <2>3. p[j] \in 1..(i - 1)
    BY <1>8, <1>9, <2>2
  <2> QED BY <1>4, <1>5, <2>1, <2>3
<1>11. d[k] = x
  BY <1>4, <1>5, <1>8
<1> QED BY <1>1, <1>6, <1>8, <1>10, <1>11 DEF IsFirst

LEMMA EmptyIs ==
    ASSUME NEW S, NEW s \in Seq(S)
    PROVE  s = <<>> <=> \A x : ~ Contains(s, x)
<1>1. ASSUME s # <<>> PROVE Contains(s, s[1])
  BY <1>1 DEF Contains
<1>2. ASSUME s = <<>> PROVE \A x : ~ Contains(s, x)
  BY <1>2 DEF Contains
<1> QED BY <1>1, <1>2

\* Within starts with the first element of the kind, which Distinct does not move.
LEMMA DistinctWithin ==
    ASSUME NEW S, NEW s \in Seq(S), NEW T
    PROVE  /\ Within(Distinct(s), T) = <<>> <=> Within(s, T) = <<>>
           /\ Within(s, T) # <<>> => Within(Distinct(s), T)[1] = Within(s, T)[1]
<1>1. PICK d : d = Distinct(s)
  OBVIOUS
<1>2. d \in Seq(S) /\ \A x : Contains(d, x) <=> Contains(s, x)
  BY <1>1, DistinctHas
<1>3. PICK w : w = Within(s, T)
  OBVIOUS
<1>4. PICK v : v = Within(d, T)
  OBVIOUS
<1>5. w \in Seq(S) /\ \A x : Contains(w, x) <=> Contains(s, x) /\ x \in T
  BY <1>3, WithinHas
<1>6. v \in Seq(S) /\ \A x : Contains(v, x) <=> Contains(d, x) /\ x \in T
  BY <1>2, <1>4, WithinHas
<1>7. /\ w = <<>> <=> \A x : ~ Contains(w, x)
      /\ v = <<>> <=> \A x : ~ Contains(v, x)
  BY <1>5, <1>6, EmptyIs
<1>8. v = <<>> <=> w = <<>>
  BY <1>2, <1>5, <1>6, <1>7
<1>9. ASSUME w # <<>> PROVE v[1] = w[1]
  <2>1. IsFirst(w[1], s, T)
    BY <1>3, <1>9, WithinStarts
  <2>2. IsFirst(w[1], d, T)
    BY <1>1, <2>1, DistinctStarts
  <2>3. IsFirst(v[1], d, T)
    BY <1>2, <1>4, <1>8, <1>9, WithinStarts
  <2> QED BY <1>2, <2>2, <2>3, FirstIsOnly
<1> QED BY <1>1, <1>3, <1>4, <1>8, <1>9

-------------------------------------------------------------------------------
(* Labels and products: what is written is what is read *)

LEMMA AppendNothing ==
    ASSUME NEW x PROVE Append(<<>>, x) = <<x>>
OBVIOUS

LEMMA AppendKeeps ==
    ASSUME NEW S, NEW s \in Seq(S), NEW x \in S PROVE Append(s, x) \in Seq(S)
OBVIOUS

LEMMA ContainsAppend ==
    ASSUME NEW S, NEW s \in Seq(S), NEW y \in S, NEW x
    PROVE  Contains(Append(s, y), x) <=> Contains(s, x) \/ x = y
<1>1. PICK t : t = Append(s, y)
  OBVIOUS
<1>2. Len(t) = Len(s) + 1 /\ t[Len(s) + 1] = y /\ \A i \in 1..Len(s) : t[i] = s[i]
  BY <1>1
<1>3. \A i : i \in 1..Len(t) <=> i \in 1..Len(s) \/ i = Len(s) + 1
  BY <1>2
<1>4. (\E i \in 1..Len(t) : t[i] = x) <=> (\E i \in 1..Len(s) : s[i] = x) \/ x = y
  BY <1>2, <1>3
<1> QED BY <1>1, <1>4 DEF Contains

\* Strings; the provers do not know of a string that is written out that it is one.
Words == STRING \union Channels \union Sources \union Range(AllBrowserNames) \union Range(DefaultBrowserNames) \union {"", "master", "ADC", "blank"}

LEMMA WordsAre ==
    /\ \A x \in Channels : x \in Words
    /\ \A x \in Sources : x \in Words
    /\ \A i \in DOMAIN AllBrowserNames : AllBrowserNames[i] \in Words
    /\ \A i \in DOMAIN DefaultBrowserNames : DefaultBrowserNames[i] \in Words
    /\ "" \in Words /\ "master" \in Words /\ "ADC" \in Words /\ "blank" \in Words
    /\ \A x \in STRING : x \in Words
BY DEF Words, Range

Products == [browser_name : Words, labels : Seq(Words)]

\* The labels of a form's query: its own, "master" and the channel of all products.
LabelsOf(labels, master, channel) ==
    LET own == IF master THEN Append(labels, "master") ELSE labels
    IN  IF channel = "" THEN own ELSE Append(own, channel)

\* Labels of which neither says the channel or master.
PlainLabels(labels) == labels \in Seq(Words) /\ \A x \in Channels \union {"master"} : ~ Contains(labels, x)

TakenApart(all, labels, master, channel) ==
    /\ all \in Seq(Words)
    /\ Without(all, Channels \union {"master"}) = labels
    /\ Within(all, Channels) = IF channel = "" THEN <<>> ELSE <<channel>>
    /\ IF master THEN Contains(all, "master") ELSE ~ Contains(all, "master")

\* Read again, they are taken apart as they were put together.
LEMMA LabelsReturn ==
    ASSUME NEW labels, PlainLabels(labels), NEW master, NEW channel \in Channels \union {""}
    PROVE  TakenApart(LabelsOf(labels, master, channel), labels, master, channel)
<1>1. labels \in Seq(Words) /\ \A x \in Channels \union {"master"} : ~ Contains(labels, x)
  BY DEF PlainLabels
<1>2. PICK own : own = IF master THEN Append(labels, "master") ELSE labels
  OBVIOUS
<1>3. PICK all : all = IF channel = "" THEN own ELSE Append(own, channel)
  OBVIOUS
<1>4. all = LabelsOf(labels, master, channel)
  BY <1>2, <1>3 DEF LabelsOf
<1>5. PICK T : T = Channels \union {"master"}
  OBVIOUS
<1>6. own \in Seq(Words) /\ all \in Seq(Words)
  <2>1. channel \in Words
    BY WordsAre
  <2>2. "master" \in Words
    BY WordsAre
  <2>3. own \in Seq(Words)
    BY <1>1, <1>2, <2>2, AppendKeeps
  <2>4. all \in Seq(Words)
    BY <1>1, <1>3, <2>1, <2>3, AppendKeeps
  <2> QED BY <2>3, <2>4
<1>7. Without(all, T) = labels
  <2>1. Without(labels, T) = labels
    BY <1>1, <1>5, WithoutNothing
  <2>2. Without(own, T) = labels
    <3>1. CASE master
      <4>1. "master" \in T /\ "master" \in Words
        BY <1>5, WordsAre
      <4>2. own = Append(labels, "master")
        BY <1>2, <3>1
      <4>3. Without(Append(labels, "master"), T) = Without(labels, T)
        BY <1>1, <4>1, WithoutAppend
      <4> QED BY <2>1, <4>2, <4>3
    <3> QED BY <1>2, <2>1, <3>1
  <2>3. CASE channel # ""
    <3>1. channel \in T
      BY <1>5, <2>3
    <3>2. channel \in Words
      BY WordsAre
    <3> QED BY <1>1, <1>3, <1>6, <2>2, <2>3, <3>1, <3>2, WithoutAppend
  <2> QED BY <1>3, <2>2, <2>3
<1>8. Within(all, Channels) = IF channel = "" THEN <<>> ELSE <<channel>>
  <2>1. Within(labels, Channels) = <<>>
    BY <1>1, WithinNothing
  <2>2. Within(own, Channels) = <<>>
    <3>1. CASE master
      <4>1. "master" \notin Channels
        BY DEF Channels
      <4>2. "master" \in Words
        BY WordsAre
      <4> QED BY <1>1, <1>2, <2>1, <3>1, <4>1, <4>2, WithinAppend
    <3> QED BY <1>2, <2>1, <3>1
  <2>3. CASE channel # ""
    <3>1. channel \in Channels
      BY <2>3
    <3>2. channel \in Words
      BY WordsAre
    <3>3. all = Append(own, channel)
      BY <1>3, <2>3
    <3>4. Within(all, Channels) = Append(Within(own, Channels), channel)
      BY <1>1, <1>6, <3>1, <3>2, <3>3, WithinAppend
    <3>5. Append(<<>>, channel) = <<channel>>
      BY AppendNothing
    <3> QED BY <2>2, <2>3, <3>4, <3>5, Zenon
  <2> QED BY <1>3, <2>2, <2>3
<1>9. IF master THEN Contains(all, "master") ELSE ~ Contains(all, "master")
  <2>1. channel # "master" /\ ~ Contains(labels, "master")
    BY <1>1 DEF Channels
  <2>2. IF master THEN Contains(own, "master") ELSE ~ Contains(own, "master")
    <3>1. "master" \in Words
      BY WordsAre
    <3>2. CASE master
      BY <1>1, <1>2, <3>1, <3>2, ContainsAppend
    <3> QED BY <1>2, <2>1, <3>2
  <2>3. CASE channel # ""
    <3>1. channel \in Words
      BY WordsAre
    <3>2. \A x : Contains(Append(own, channel), x) <=> Contains(own, x) \/ x = channel
      BY <1>1, <1>6, <3>1, ContainsAppend
    <3> QED BY <1>3, <2>1, <2>2, <2>3, <3>2
  <2> QED BY <1>3, <2>2, <2>3
<1> QED BY <1>4, <1>5, <1>6, <1>7, <1>8, <1>9, Zenon DEF TakenApart

LEMMA ProductIs ==
    ASSUME NEW product \in Products
    PROVE  /\ product = [browser_name |-> product.browser_name, labels |-> product.labels]
           /\ product.browser_name \in Words /\ product.labels \in Seq(Words)
BY DEF Products

LEMMA Relabelled ==
    ASSUME NEW product \in Products, NEW labels \in Seq(Words)
    PROVE  /\ [product EXCEPT !.labels = labels] \in Products
           /\ [product EXCEPT !.labels = labels].browser_name = product.browser_name
           /\ [product EXCEPT !.labels = labels].labels = labels
BY DEF Products

LEMMA SpecIs ==
    ASSUME NEW product \in Products
    PROVE  /\ Spec(product) \in Products
           /\ Spec(product).browser_name = product.browser_name
           /\ Spec(product).labels = Distinct(product.labels)
<1>1. product.labels \in Seq(Words)
  BY ProductIs
<1>2. Distinct(product.labels) \in Seq(Words)
  BY <1>1, DistinctHas
<1>3. Spec(product) = [product EXCEPT !.labels = Distinct(product.labels)]
  BY DEF Spec
<1> QED BY <1>2, <1>3, Relabelled

\* Where each label is once, nothing is left out.
LEMMA SpecOnce ==
    ASSUME NEW product \in Products, NoRepeats(product.labels)
    PROVE  Spec(product) = product
<1>1. product.labels \in Seq(Words)
  BY ProductIs
<1>2. Distinct(product.labels) = product.labels
  BY <1>1, DistinctOnce
<1> QED BY <1>2, SpecIs, ProductIs

LEMMA ChannelsStart ==
    ASSUME NEW labels \in Seq(Words), ChannelsOf(labels) # <<>>
    PROVE  ChannelsOf(labels)[1] \in Channels
BY WithinStarts DEF ChannelsOf, IsFirst

LEMMA SharedIs ==
    ASSUME NEW products \in Seq(Products)
    PROVE  /\ SharedChannel(products) \in Channels \union {""}
           /\ SharedChannel(products) # "" =>
                \A i \in DOMAIN products : Contains(products[i].labels, SharedChannel(products))
<1>1. CASE products = <<>> \/ ChannelsOf(products[1].labels) = <<>>
  BY <1>1 DEF SharedChannel
<1>2. CASE ~ (products = <<>> \/ ChannelsOf(products[1].labels) = <<>>)
  <2>1. PICK channel : channel = ChannelsOf(products[1].labels)[1]
    OBVIOUS
  <2>2. products[1] \in Products
    BY <1>2
  <2>3. channel \in Channels
    BY <1>2, <2>1, <2>2, ProductIs, ChannelsStart
  <2>4. SharedChannel(products) =
          IF \A i \in DOMAIN products : Contains(products[i].labels, channel) THEN channel ELSE ""
    BY <1>2, <2>1 DEF SharedChannel
  <2> QED BY <2>3, <2>4
<1> QED BY <1>1, <1>2

\* Only the first channel and what each product has matter.
LEMMA SharedStays ==
    ASSUME NEW products \in Seq(Products), NEW others \in Seq(Products), Len(others) = Len(products),
           \A i \in 1..Len(products) : others[i].labels = Distinct(products[i].labels)
    PROVE  SharedChannel(others) = SharedChannel(products)
<1>1. CASE products = <<>>
  <2>1. others = <<>>
    BY <1>1
  <2> QED BY <1>1, <2>1
<1>2. CASE products # <<>>
  <2>1. 1 \in 1..Len(products) /\ others # <<>> /\ DOMAIN others = DOMAIN products /\ DOMAIN products = 1..Len(products)
    BY <1>2
  <2>2. \A i \in 1..Len(products) : products[i] \in Products /\ products[i].labels \in Seq(Words)
    BY ProductIs
  <2>3. \A i \in 1..Len(products), x \in Channels :
           Contains(others[i].labels, x) <=> Contains(products[i].labels, x)
    BY <2>2, DistinctHas
  <2>4. /\ ChannelsOf(others[1].labels) = <<>> <=> ChannelsOf(products[1].labels) = <<>>
        /\ ChannelsOf(products[1].labels) # <<>> =>
             ChannelsOf(others[1].labels)[1] = ChannelsOf(products[1].labels)[1]
    BY <2>1, <2>2, DistinctWithin DEF ChannelsOf
  <2>5. CASE ChannelsOf(products[1].labels) = <<>>
    BY <1>2, <2>1, <2>4, <2>5 DEF SharedChannel
  <2>6. CASE ChannelsOf(products[1].labels) # <<>>
    <3>1. PICK channel : channel = ChannelsOf(products[1].labels)[1]
      OBVIOUS
    <3>2. channel \in Channels
      BY <2>1, <2>2, <2>6, <3>1, ChannelsStart
    <3>3. SharedChannel(products) =
            IF \A i \in DOMAIN products : Contains(products[i].labels, channel) THEN channel ELSE ""
      BY <1>2, <2>6, <3>1 DEF SharedChannel
    <3>4. SharedChannel(others) =
            IF \A i \in DOMAIN others : Contains(others[i].labels, channel) THEN channel ELSE ""
      BY <2>1, <2>4, <2>6, <3>1 DEF SharedChannel
    <3>5. (\A i \in DOMAIN others : Contains(others[i].labels, channel))
            <=> (\A i \in DOMAIN products : Contains(products[i].labels, channel))
      BY <2>1, <2>3, <3>2
    <3>6. CASE \A i \in DOMAIN products : Contains(products[i].labels, channel)
      BY <3>3, <3>4, <3>5, <3>6, Zenon
    <3>7. CASE ~ \A i \in DOMAIN products : Contains(products[i].labels, channel)
      BY <3>3, <3>4, <3>5, <3>7, Zenon
    <3> QED BY <3>6, <3>7
  <2> QED BY <2>5, <2>6
<1> QED BY <1>1, <1>2

LEMMA SharedByAll ==
    ASSUME NEW products \in Seq(Products), products # <<>>, NEW channel \in Channels,
           \A i \in 1..Len(products) :
              ChannelsOf(products[i].labels) = <<channel>> /\ Contains(products[i].labels, channel)
    PROVE  SharedChannel(products) = channel
<1>1. 1 \in 1..Len(products) /\ DOMAIN products = 1..Len(products)
  OBVIOUS
<1>2. ChannelsOf(products[1].labels) # <<>> /\ ChannelsOf(products[1].labels)[1] = channel
  BY <1>1
<1>3. \A i \in DOMAIN products : Contains(products[i].labels, channel)
  BY <1>1
<1> QED BY <1>2, <1>3 DEF SharedChannel

\* A product in a query, without the channel that all have, and the product read from it.
SpecOf(product, channel) ==
    Spec(IF channel = "" THEN product ELSE [product EXCEPT !.labels = WithoutChannels(@)])

WithChannel(product, channel) ==
    IF channel = "" THEN product
    ELSE [product EXCEPT !.labels = Without(@, Channels \ {channel}) \o
                                        (IF Contains(@, channel) THEN <<>> ELSE <<channel>>)]

LEMMA SpecOfIs ==
    ASSUME NEW product \in Products, NEW channel
    PROVE  /\ SpecOf(product, channel) \in Products
           /\ channel = "" => SpecOf(product, channel).labels = Distinct(product.labels)
           /\ channel # "" => SpecOf(product, channel).labels = Distinct(Without(product.labels, Channels))
<1>1. CASE channel = ""
  BY <1>1, SpecIs DEF SpecOf
<1>2. CASE channel # ""
  <2>1. product.labels \in Seq(Words)
    BY ProductIs
  <2>2. PICK labels : labels = Without(product.labels, Channels)
    OBVIOUS
  <2>3. labels \in Seq(Words)
    BY <2>1, <2>2, WithoutHas
  <2>4. PICK plain : plain = [product EXCEPT !.labels = labels]
    OBVIOUS
  <2>5. plain \in Products /\ plain.labels = labels
    BY <2>3, <2>4, Relabelled
  <2>6. SpecOf(product, channel) = Spec(plain)
    BY <1>2, <2>2, <2>4 DEF SpecOf, WithoutChannels
  <2> QED BY <1>2, <2>2, <2>5, <2>6, SpecIs
<1> QED BY <1>1, <1>2

LEMMA AppendOne ==
    ASSUME NEW S, NEW s \in Seq(S), NEW x \in S PROVE s \o <<x>> = Append(s, x)
OBVIOUS

\* A product in a query has each label once, so that writing it again changes nothing.
LEMMA SpecReturns ==
    ASSUME NEW product \in Products, NEW channel \in Channels \union {""}
    PROVE  /\ WithChannel(SpecOf(product, channel), channel) \in Products
           /\ SpecOf(WithChannel(SpecOf(product, channel), channel), channel) = SpecOf(product, channel)
           /\ channel = "" => WithChannel(SpecOf(product, channel), channel) = SpecOf(product, channel)
           /\ channel # "" =>
                /\ ChannelsOf(WithChannel(SpecOf(product, channel), channel).labels) = <<channel>>
                /\ Contains(WithChannel(SpecOf(product, channel), channel).labels, channel)
<1>1. PICK spec : spec = SpecOf(product, channel)
  OBVIOUS
<1>2. PICK read : read = WithChannel(spec, channel)
  OBVIOUS
<1>3. spec \in Products /\ product.labels \in Seq(Words)
  BY <1>1, SpecOfIs, ProductIs
<1>4. CASE channel = ""
  <2>1. read = spec
    BY <1>2, <1>4 DEF WithChannel
  <2>2. NoRepeats(spec.labels)
    BY <1>1, <1>3, <1>4, SpecOfIs, DistinctHas
  <2>3. SpecOf(spec, channel) = Spec(spec)
    BY <1>4 DEF SpecOf
  <2>4. Spec(spec) = spec
    BY <1>3, <2>2, SpecOnce
  <2> QED BY <1>1, <1>2, <1>3, <1>4, <2>1, <2>3, <2>4
<1>5. CASE channel # ""
  <2>1. channel \in Channels /\ channel \in Words
    BY <1>5, WordsAre
  <2>2. PICK own : own = Without(product.labels, Channels)
    OBVIOUS
  <2>3. own \in Seq(Words) /\ \A x \in Channels : ~ Contains(own, x)
    <3>1. PICK given : given = product.labels
      OBVIOUS
    <3>2. given \in Seq(Words) /\ own = Without(given, Channels)
      BY <1>3, <2>2, <3>1
    <3>3. own \in Seq(Words) /\ \A x : Contains(own, x) <=> Contains(given, x) /\ x \notin Channels
      BY <3>2, WithoutHas
    <3> QED BY <3>3
  <2>4. PICK labels : labels = spec.labels
    OBVIOUS
  <2>5. labels = Distinct(own)
    BY <1>1, <1>5, <2>2, <2>4, SpecOfIs
  <2>6. labels \in Seq(Words) /\ NoRepeats(labels) /\ \A x \in Channels : ~ Contains(labels, x)
    BY <2>3, <2>5, DistinctHas
  <2>7. Without(labels, Channels \ {channel}) = labels
    BY <2>6, WithoutNothing
  <2>8. ~ Contains(labels, channel)
    BY <2>1, <2>6
  <2>9. read = [spec EXCEPT !.labels = Append(labels, channel)]
    <3>1. read = [spec EXCEPT !.labels = Without(labels, Channels \ {channel}) \o <<channel>>]
      BY <1>2, <1>5, <2>4, <2>8 DEF WithChannel
    <3>2. labels \o <<channel>> = Append(labels, channel)
      BY <2>1, <2>6, AppendOne
    <3> QED BY <2>7, <3>1, <3>2
  <2>10. Append(labels, channel) \in Seq(Words)
    BY <2>1, <2>6, AppendKeeps
  <2>11. read \in Products /\ read.labels = Append(labels, channel)
    BY <1>3, <2>9, <2>10, Relabelled
  <2>12. Contains(read.labels, channel)
    <3>1. Contains(Append(labels, channel), channel)
      BY <2>1, <2>6, ContainsAppend
    <3> QED BY <2>11, <3>1
  <2>13. ChannelsOf(read.labels) = <<channel>>
    <3>1. Within(labels, Channels) = <<>>
      BY <2>6, WithinNothing
    <3>2. Within(Append(labels, channel), Channels) = Append(Within(labels, Channels), channel)
      BY <2>1, <2>6, WithinAppend
    <3>3. Append(<<>>, channel) = <<channel>>
      BY AppendNothing
    <3> QED BY <2>11, <3>1, <3>2, <3>3, Zenon DEF ChannelsOf
  <2>14. Without(read.labels, Channels) = labels
    <3>1. Without(labels, Channels) = labels
      BY <2>6, WithoutNothing
    <3>2. Without(Append(labels, channel), Channels) = Without(labels, Channels)
      BY <2>1, <2>6, WithoutAppend
    <3> QED BY <2>11, <3>1, <3>2
  <2>15. SpecOf(read, channel) = Spec([read EXCEPT !.labels = labels])
    BY <1>5, <2>14 DEF SpecOf, WithoutChannels
  <2>16. [read EXCEPT !.labels = labels] = spec
    <3>1. [read EXCEPT !.labels = labels] \in Products
      BY <2>6, <2>11, Relabelled
    <3>2. [read EXCEPT !.labels = labels].labels = labels
      BY <2>6, <2>11, Relabelled
    <3>3. [read EXCEPT !.labels = labels].browser_name = spec.browser_name
      <4>1. [read EXCEPT !.labels = labels].browser_name = read.browser_name
        BY <2>6, <2>11, Relabelled
      <4>2. read.browser_name = spec.browser_name
        BY <1>3, <2>9, <2>10, Relabelled
      <4> QED BY <4>1, <4>2
    <3>4. PICK again : again = [read EXCEPT !.labels = labels]
      OBVIOUS
    <3>5. again = [browser_name |-> again.browser_name, labels |-> again.labels]
      BY <3>1, <3>4, ProductIs
    <3>6. spec = [browser_name |-> spec.browser_name, labels |-> spec.labels]
      BY <1>3, ProductIs
    <3> QED BY <2>4, <3>2, <3>3, <3>4, <3>5, <3>6
  <2>17. Spec(spec) = spec
    BY <1>3, <2>4, <2>6, SpecOnce
  <2> QED BY <1>1, <1>2, <1>5, <2>11, <2>12, <2>13, <2>15, <2>16, <2>17
<1> QED BY <1>4, <1>5

-------------------------------------------------------------------------------
(* Properties and parameters: written and read again, they are the same *)

QueryRecords ==
    [sha : Seq(Words), label : Seq(Words), product : Seq(Products), aligned : BOOLEAN, diff : BOOLEAN,
     filter : Words, others : [OtherParams -> Words]]

UIRecords ==
    [shas : Seq(Words), aligned : BOOLEAN, master : BOOLEAN, labels : Seq(Words), products : Seq(Products),
     diff : BOOLEAN, diffFilter : Words, others : [OtherParams -> Words]]

\* Only a search is written as "blank", and what is read is never "blank".
Queries == {query \in QueryRecords : \A k \in OtherParams : query.others[k] = "blank" => k = "q"}

UIs == {ui \in UIRecords : \A k \in OtherParams : ui.others[k] # "blank"}

SpecsOf(products, channel) == [i \in DOMAIN products |-> SpecOf(products[i], channel)]

\* The parameters, one by one.
LEMMA ParamsAre ==
    ASSUME NEW ui
    PROVE  /\ ParamsOf(ui).sha = IF computeIsLatest(ui.shas) THEN <<>> ELSE ui.shas
           /\ ParamsOf(ui).product =
                LET specs == SpecsOf(ui.products, SharedChannel(ui.products))
                IN  IF computeIsDefaultProducts(specs) THEN <<>> ELSE specs
           /\ ParamsOf(ui).aligned = (ui.aligned /\ computeIsLatest(ui.shas))
           /\ ParamsOf(ui).diff = ui.diff
           /\ ParamsOf(ui).filter = IF ui.diff THEN ui.diffFilter ELSE ""
           /\ ParamsOf(ui).others = ui.others
<1>1. PICK channel : channel = SharedChannel(ui.products)
  OBVIOUS
<1>2. PICK products : products = IF channel = "" THEN ui.products
                    ELSE [i \in DOMAIN ui.products |->
                             [ui.products[i] EXCEPT !.labels = WithoutChannels(@)]]
  OBVIOUS
<1>3. PICK specs : specs = [i \in DOMAIN products |-> Spec(products[i])]
  OBVIOUS
<1>4. ParamsOf(ui).product = IF computeIsDefaultProducts(specs) THEN <<>> ELSE specs
  BY <1>1, <1>2, <1>3 DEF ParamsOf
<1>5. specs = SpecsOf(ui.products, channel)
  <2>1. CASE channel = ""
    BY <1>2, <1>3, <2>1 DEF SpecsOf, SpecOf
  <2>2. CASE channel # ""
    BY <1>2, <1>3, <2>2 DEF SpecsOf, SpecOf
  <2> QED BY <2>1, <2>2
<1>6. ParamsOf(ui).sha = IF computeIsLatest(ui.shas) THEN <<>> ELSE ui.shas
  BY DEF ParamsOf
<1>7. ParamsOf(ui).aligned = (ui.aligned /\ computeIsLatest(ui.shas))
  BY DEF ParamsOf
<1>8. ParamsOf(ui).diff = ui.diff
  BY DEF ParamsOf
<1>9. ParamsOf(ui).filter = IF ui.diff THEN ui.diffFilter ELSE ""
  BY DEF ParamsOf
<1>10. ParamsOf(ui).others = ui.others
  BY DEF ParamsOf
<1> QED BY <1>1, <1>4, <1>5, <1>6, <1>7, <1>8, <1>9, <1>10, Zenon

\* The parameter for products depends on the products only.
LEMMA ProductIsOf ==
    ASSUME NEW u, NEW v, u.products = v.products
    PROVE  ParamsOf(u).product = ParamsOf(v).product
<1>1. PICK products : products = u.products
  OBVIOUS
<1>2. PICK specs : specs = SpecsOf(products, SharedChannel(products))
  OBVIOUS
<1>3. ParamsOf(u).product = IF computeIsDefaultProducts(specs) THEN <<>> ELSE specs
  BY <1>1, <1>2, ParamsAre
<1>4. ParamsOf(v).product = IF computeIsDefaultProducts(specs) THEN <<>> ELSE specs
  BY <1>1, <1>2, ParamsAre
<1> QED BY <1>3, <1>4

\* So do the others on the properties that they say.
LEMMA ParamsDecide ==
    ASSUME NEW u, NEW v, u.shas = v.shas, u.aligned = v.aligned, u.diff = v.diff,
           u.diff => u.diffFilter = v.diffFilter
    PROVE  /\ ParamsOf(u).sha = ParamsOf(v).sha /\ ParamsOf(u).aligned = ParamsOf(v).aligned
           /\ ParamsOf(u).diff = ParamsOf(v).diff /\ ParamsOf(u).filter = ParamsOf(v).filter
<1>1. PICK shas : shas = u.shas
  OBVIOUS
<1>2. ParamsOf(u).sha = ParamsOf(v).sha
  <2>1. ParamsOf(u).sha = IF computeIsLatest(shas) THEN <<>> ELSE shas
    BY <1>1, ParamsAre
  <2>2. ParamsOf(v).sha = IF computeIsLatest(shas) THEN <<>> ELSE shas
    BY <1>1, ParamsAre
  <2> QED BY <2>1, <2>2
<1>3. ParamsOf(u).aligned = ParamsOf(v).aligned
  <2>1. ParamsOf(u).aligned = (u.aligned /\ computeIsLatest(shas))
    BY <1>1, ParamsAre
  <2>2. ParamsOf(v).aligned = (u.aligned /\ computeIsLatest(shas))
    BY <1>1, ParamsAre
  <2> QED BY <2>1, <2>2, Zenon
<1>4. ParamsOf(u).diff = u.diff /\ ParamsOf(v).diff = v.diff
  BY ParamsAre
<1>5. ParamsOf(u).filter = ParamsOf(v).filter
  <2>1. ParamsOf(u).filter = IF u.diff THEN u.diffFilter ELSE ""
    BY ParamsAre
  <2>2. ParamsOf(v).filter = IF v.diff THEN v.diffFilter ELSE ""
    BY ParamsAre
  <2> QED BY <2>1, <2>2
<1> QED BY <1>2, <1>3, <1>4, <1>5, Zenon

LEMMA LabelIs ==
    ASSUME NEW ui, PlainLabels(ui.labels), SharedChannel(ui.products) \in Channels \union {""}
    PROVE  ParamsOf(ui).label = LabelsOf(ui.labels, ui.master, SharedChannel(ui.products))
<1>1. ui.labels \in Seq(Words) /\ \A x \in Channels \union {"master"} : ~ Contains(ui.labels, x)
  BY DEF PlainLabels
<1>2. PICK channel : channel = SharedChannel(ui.products)
  OBVIOUS
<1>3. ~ Contains(ui.labels, "master")
  BY <1>1
<1>4. PICK own : own = IF ui.master THEN Append(ui.labels, "master") ELSE ui.labels
  OBVIOUS
<1>5. ParamsOf(ui).label = IF channel = "" \/ Contains(own, channel) THEN own ELSE Append(own, channel)
  BY <1>2, <1>3, <1>4 DEF ParamsOf
<1>6. channel # "" => ~ Contains(own, channel)
  <2>1. SUFFICES ASSUME channel # "" PROVE ~ Contains(own, channel)
    OBVIOUS
  <2>2. ~ Contains(ui.labels, channel) /\ channel # "master"
    BY <1>1, <1>2, <2>1 DEF Channels
  <2>3. "master" \in Words
    BY WordsAre
  <2>4. Contains(Append(ui.labels, "master"), channel) <=> Contains(ui.labels, channel) \/ channel = "master"
    BY <1>1, <2>3, ContainsAppend
  <2> QED BY <1>4, <2>2, <2>4
<1> QED BY <1>2, <1>4, <1>5, <1>6 DEF LabelsOf

LEMMA WithoutKeeps ==
    ASSUME NEW S, NEW s \in Seq(S), NEW T PROVE Without(s, T) \in Seq(S)
BY WithoutHas

LEMMA ConcatKeeps ==
    ASSUME NEW S, NEW s \in Seq(S), NEW t \in Seq(S) PROVE s \o t \in Seq(S)
OBVIOUS

LEMMA OneIs ==
    ASSUME NEW S, NEW x \in S PROVE <<x>> \in Seq(S) /\ <<>> \in Seq(S)
OBVIOUS

LEMMA DefaultsAre == DefaultProducts \in Seq(Products) /\ DefaultProducts # <<>>
<1>1. \A i \in DOMAIN DefaultBrowserNames : DefaultBrowserNames[i] \in Words
  BY WordsAre
<1>2. <<>> \in Seq(Words)
  OBVIOUS
<1>3. \A i \in DOMAIN DefaultBrowserNames : ProductNamed(DefaultBrowserNames[i]) \in Products
  BY <1>1, <1>2 DEF ProductNamed, Products
<1>4. DOMAIN DefaultBrowserNames = 1..4
  BY DEF DefaultBrowserNames
<1>5. DefaultProducts = [i \in 1..4 |-> ProductNamed(DefaultBrowserNames[i])]
  BY <1>4 DEF DefaultProducts
<1> HIDE DEF DefaultBrowserNames
<1>6. DefaultProducts \in Seq(Products) /\ Len(DefaultProducts) = 4
  BY <1>3, <1>4, <1>5
<1> QED BY <1>6

ProductsOf(params) == IF params.product = <<>> THEN DefaultProducts ELSE params.product

\* The channel that the products of a query are given.
SharedOf(label) == IF ChannelsOf(label) = <<>> THEN "" ELSE ChannelsOf(label)[1]

LEMMA ExpandedIs ==
    ASSUME NEW params, NEW given, given = IF params.product = <<>> THEN DefaultProducts ELSE params.product
    PROVE  /\ ChannelsOf(params.label) = <<>> => ExpandedProducts(params) = given
           /\ ChannelsOf(params.label) # <<>> /\ SharedOf(params.label) # "" =>
                ExpandedProducts(params) = [i \in DOMAIN given |-> WithChannel(given[i], SharedOf(params.label))]
<1>1. CASE ChannelsOf(params.label) = <<>>
  BY <1>1 DEF ExpandedProducts
<1>2. CASE ChannelsOf(params.label) # <<>> /\ SharedOf(params.label) # ""
  <2>1. PICK channel : channel = ChannelsOf(params.label)[1]
    OBVIOUS
  <2>2. ExpandedProducts(params) = [i \in DOMAIN given |-> [given[i] EXCEPT !.labels =
            Without(@, Channels \ {channel}) \o (IF Contains(@, channel) THEN <<>> ELSE <<channel>>)]]
    BY <1>2, <2>1 DEF ExpandedProducts
  <2>3. SharedOf(params.label) = channel /\ channel # ""
    BY <1>2, <2>1 DEF SharedOf
  <2>4. ExpandedProducts(params) = [i \in DOMAIN given |-> WithChannel(given[i], channel)]
    BY <2>2, <2>3 DEF WithChannel
  <2> QED BY <1>2, <2>3, <2>4
<1> QED BY <1>1, <1>2

LEMMA WithChannelIs ==
    ASSUME NEW product \in Products, NEW channel \in Channels \union {""}
    PROVE  WithChannel(product, channel) \in Products
<1>1. CASE channel = ""
  BY <1>1 DEF WithChannel
<1>2. CASE channel # ""
  <2>1. channel \in Words
    BY <1>2, WordsAre
  <2>2. PICK labels : labels = product.labels
    OBVIOUS
  <2>3. labels \in Seq(Words)
    BY <2>2, ProductIs
  <2>4. PICK kept : kept = Without(labels, Channels \ {channel})
    OBVIOUS
  <2>5. kept \in Seq(Words)
    BY <2>3, <2>4, WithoutKeeps
  <2>6. kept \o (IF Contains(labels, channel) THEN <<>> ELSE <<channel>>) \in Seq(Words)
    <3>1. <<>> \in Seq(Words) /\ <<channel>> \in Seq(Words)
      BY <2>1, OneIs
    <3>2. PICK more : more = IF Contains(labels, channel) THEN <<>> ELSE <<channel>>
      OBVIOUS
    <3>3. more \in Seq(Words)
      BY <3>1, <3>2
    <3>4. kept \o more \in Seq(Words)
      BY <2>5, <3>3, ConcatKeeps
    <3> QED BY <3>2, <3>4
  <2>7. WithChannel(product, channel) =
          [product EXCEPT !.labels = kept \o (IF Contains(labels, channel) THEN <<>> ELSE <<channel>>)]
    BY <1>2, <2>2, <2>4 DEF WithChannel
  <2> QED BY <2>6, <2>7, Relabelled
<1> QED BY <1>1, <1>2

LEMMA SharedOfIs ==
    ASSUME NEW label \in Seq(Words)
    PROVE  /\ SharedOf(label) \in Channels \union {""}
           /\ ChannelsOf(label) = <<>> <=> SharedOf(label) = ""
<1>1. "" \notin Channels
  BY DEF Channels
<1> QED BY <1>1, ChannelsStart DEF SharedOf

LEMMA ExpandedAre ==
    ASSUME NEW params, params.label \in Seq(Words), params.product \in Seq(Products)
    PROVE  /\ ExpandedProducts(params) =
                [i \in DOMAIN ProductsOf(params) |-> WithChannel(ProductsOf(params)[i], SharedOf(params.label))]
           /\ ExpandedProducts(params) \in Seq(Products) /\ ExpandedProducts(params) # <<>>
<1>1. PICK given : given = IF params.product = <<>> THEN DefaultProducts ELSE params.product
  OBVIOUS
<1>2. given \in Seq(Products) /\ given # <<>>
  BY <1>1, DefaultsAre
<1>3. PICK channel : channel = SharedOf(params.label)
  OBVIOUS
<1>4. channel \in Channels \union {""} /\ (ChannelsOf(params.label) = <<>> <=> channel = "")
  BY <1>3, SharedOfIs
<1>5. ExpandedProducts(params) = [i \in DOMAIN given |-> WithChannel(given[i], channel)]
  <2>1. CASE channel = ""
    <3>1. ExpandedProducts(params) = given
      BY <1>3, <1>4, <1>1, <2>1, ExpandedIs
    <3>2. given = [i \in DOMAIN given |-> given[i]]
      BY <1>2
    <3>3. \A i \in DOMAIN given : WithChannel(given[i], channel) = given[i]
      BY <2>1 DEF WithChannel
    <3> QED BY <3>1, <3>2, <3>3
  <2>2. CASE channel # ""
    <3>1. ChannelsOf(params.label) # <<>> /\ SharedOf(params.label) # ""
      BY <1>3, <1>4, <2>2
    <3>2. ExpandedProducts(params) = [i \in DOMAIN given |-> WithChannel(given[i], SharedOf(params.label))]
      BY <1>1, <3>1, ExpandedIs
    <3> QED BY <1>3, <3>2
  <2> QED BY <2>1, <2>2
<1>6. \A i \in DOMAIN given : WithChannel(given[i], channel) \in Products
  <2>1. \A i \in DOMAIN given : given[i] \in Products
    BY <1>2
  <2> QED BY <1>4, <2>1, WithChannelIs
<1>7. DOMAIN given = 1..Len(given) /\ Len(given) \in Nat
  BY <1>2
<1>8. ExpandedProducts(params) \in Seq(Products) /\ Len(ExpandedProducts(params)) = Len(given)
  BY <1>5, <1>6, <1>7
<1>9. ExpandedProducts(params) # <<>>
  BY <1>2, <1>8
<1>10. given = ProductsOf(params)
  BY <1>1 DEF ProductsOf
<1> QED BY <1>3, <1>5, <1>8, <1>9, <1>10

Read(products, channel) == [i \in DOMAIN products |-> WithChannel(products[i], channel)]

\* Products that are written into a query and read again are written in the same way.
LEMMA ProductsReturn ==
    ASSUME NEW products \in Seq(Products), products # <<>>, NEW channel, channel = SharedChannel(products)
    PROVE  /\ SpecsOf(products, channel) \in Seq(Products) /\ SpecsOf(products, channel) # <<>>
           /\ SharedChannel(Read(SpecsOf(products, channel), channel)) = channel
           /\ SpecsOf(Read(SpecsOf(products, channel), channel), channel) = SpecsOf(products, channel)
<1>1. channel \in Channels \union {""}
  BY SharedIs
<1>2. PICK specs : specs = SpecsOf(products, channel)
  OBVIOUS
<1>3. PICK n : n = Len(products)
  OBVIOUS
<1>4. n \in Nat /\ n # 0 /\ DOMAIN products = 1..n /\ \A i \in 1..n : products[i] \in Products
  BY <1>3
<1>5. \A i \in 1..n : specs[i] = SpecOf(products[i], channel) /\ specs[i] \in Products
  BY <1>2, <1>4, SpecOfIs DEF SpecsOf
<1>6. specs \in Seq(Products) /\ Len(specs) = n /\ DOMAIN specs = 1..n /\ specs # <<>>
  <2>1. specs = [i \in 1..n |-> specs[i]]
    BY <1>2, <1>4 DEF SpecsOf
  <2> QED BY <1>4, <1>5, <2>1
<1>7. PICK read : read = Read(specs, channel)
  OBVIOUS
<1>8. \A i \in 1..n : read[i] = WithChannel(specs[i], channel) /\ read[i] \in Products
  <2>1. \A i \in 1..n : read[i] = WithChannel(specs[i], channel)
    BY <1>6, <1>7 DEF Read
  <2> QED BY <1>1, <1>5, <2>1, WithChannelIs
<1>9. ASSUME NEW i \in 1..n
       PROVE  /\ SpecOf(read[i], channel) = specs[i]
              /\ channel = "" => read[i] = specs[i] /\ specs[i].labels = Distinct(products[i].labels)
              /\ channel # "" => ChannelsOf(read[i].labels) = <<channel>> /\ Contains(read[i].labels, channel)
  <2>1. PICK product \in Products : product = products[i]
    BY <1>4
  <2>2. specs[i] = SpecOf(product, channel) /\ read[i] = WithChannel(SpecOf(product, channel), channel)
    BY <1>5, <1>8, <2>1
  <2>3. SpecOf(read[i], channel) = specs[i]
    BY <1>1, <2>2, SpecReturns
  <2>4. channel = "" => read[i] = specs[i]
    BY <1>1, <2>2, SpecReturns
  <2>5. channel = "" => specs[i].labels = Distinct(product.labels)
    BY <2>2, SpecOfIs
  <2>6. channel # "" => ChannelsOf(read[i].labels) = <<channel>> /\ Contains(read[i].labels, channel)
    BY <1>1, <2>2, SpecReturns
  <2> QED BY <2>1, <2>3, <2>4, <2>5, <2>6
<1>10. read \in Seq(Products) /\ Len(read) = n /\ DOMAIN read = 1..n /\ read # <<>>
  <2>1. read = [i \in 1..n |-> read[i]]
    BY <1>6, <1>7 DEF Read
  <2> QED BY <1>4, <1>8, <2>1
<1>11. SpecsOf(read, channel) = specs
  <2>1. \A i \in 1..n : SpecOf(read[i], channel) = specs[i]
    BY <1>9
  <2>2. SpecsOf(read, channel) = [i \in 1..n |-> specs[i]]
    BY <1>10, <2>1 DEF SpecsOf
  <2> QED BY <1>6, <2>2
<1>12. SharedChannel(read) = channel
  <2>1. CASE channel = ""
    <3>1. \A i \in 1..n : read[i].labels = Distinct(products[i].labels)
      BY <1>9, <2>1
    <3> QED BY <1>3, <1>10, <3>1, SharedStays
  <2>2. CASE channel # ""
    <3>1. \A i \in 1..n : ChannelsOf(read[i].labels) = <<channel>> /\ Contains(read[i].labels, channel)
      BY <1>9, <2>2
    <3>2. channel \in Channels
      BY <1>1, <2>2
    <3> QED BY <1>10, <3>1, <3>2, SharedByAll
  <2> QED BY <2>1, <2>2
<1> QED BY <1>2, <1>6, <1>7, <1>11, <1>12

\* P and Q say the same of the runs; the rest goes through unchanged.
Same(P, Q) ==
    /\ P.sha = Q.sha /\ P.label = Q.label /\ P.product = Q.product
    /\ P.aligned = Q.aligned /\ P.diff = Q.diff /\ P.filter = Q.filter

LEMMA UpdatedIs ==
    ASSUME NEW ui, NEW params
    PROVE  /\ updateQueryParams(ui, params).shas = params.sha
           /\ updateQueryParams(ui, params).aligned = params.aligned
           /\ updateQueryParams(ui, params).master = Contains(params.label, "master")
           /\ updateQueryParams(ui, params).labels = Without(params.label, Channels \union {"master"})
           /\ updateQueryParams(ui, params).products = ExpandedProducts(params)
           /\ updateQueryParams(ui, params).diff = params.diff
           /\ updateQueryParams(ui, params).diffFilter = IF params.diff THEN params.filter ELSE ui.diffFilter
           /\ updateQueryParams(ui, params).others = OthersOf(ui, params)
BY DEF updateQueryParams

LEMMA UpdatedLabels ==
    ASSUME NEW ui, NEW params, params.label \in Seq(Words), params.product \in Seq(Products),
           NEW u, u = updateQueryParams(ui, params)
    PROVE  /\ PlainLabels(u.labels) /\ u.master \in BOOLEAN /\ u.products \in Seq(Products) /\ u.products # <<>>
           /\ SharedChannel(u.products) \in Channels \union {""}
           /\ ParamsOf(u).label = LabelsOf(u.labels, u.master, SharedChannel(u.products))
<1>1. PICK label : label = params.label
  OBVIOUS
<1>2. u.labels = Without(label, Channels \union {"master"}) /\ u.master = Contains(label, "master")
      /\ u.products = ExpandedProducts(params)
  BY <1>1, UpdatedIs
<1>3. PICK labels : labels = u.labels
  OBVIOUS
<1>4. PICK T : T = Channels \union {"master"}
  OBVIOUS
<1>5. labels \in Seq(Words) /\ \A x : Contains(labels, x) <=> Contains(label, x) /\ x \notin T
  BY <1>1, <1>2, <1>3, <1>4, WithoutHas
<1>6. PlainLabels(u.labels)
  BY <1>3, <1>4, <1>5 DEF PlainLabels
<1>7. u.products \in Seq(Products) /\ u.products # <<>>
  BY <1>2, ExpandedAre
<1>8. SharedChannel(u.products) \in Channels \union {""}
  BY <1>7, SharedIs
<1>9. u.master \in BOOLEAN
  BY <1>2 DEF Contains
<1>10. ParamsOf(u).label = LabelsOf(u.labels, u.master, SharedChannel(u.products))
  BY <1>6, <1>8, LabelIs
<1> QED BY <1>6, <1>7, <1>8, <1>9, <1>10

\* What the properties were before does not matter for the runs.
LEMMA UpdatesAgree ==
    ASSUME NEW ui, NEW params, params.label \in Seq(Words), params.product \in Seq(Products),
           NEW others, NEW again, Same(params, again)
    PROVE  Same(ParamsOf(updateQueryParams(ui, params)), ParamsOf(updateQueryParams(others, again)))
<1>1. /\ params.sha = again.sha /\ params.label = again.label /\ params.product = again.product
      /\ params.aligned = again.aligned /\ params.diff = again.diff /\ params.filter = again.filter
  BY DEF Same
<1>2. PICK u : u = updateQueryParams(ui, params)
  OBVIOUS
<1>3. PICK v : v = updateQueryParams(others, again)
  OBVIOUS
<1>4. /\ u.shas = v.shas /\ u.aligned = v.aligned /\ u.master = v.master /\ u.labels = v.labels /\ u.diff = v.diff
  BY <1>1, <1>2, <1>3, UpdatedIs
<1>5. u.diff => u.diffFilter = v.diffFilter
  BY <1>1, <1>2, <1>3, UpdatedIs
<1>6. u.products = v.products
  <2>1. ExpandedProducts(params) = ExpandedProducts(again)
    BY <1>1 DEF ExpandedProducts
  <2> QED BY <1>2, <1>3, <2>1, UpdatedIs
<1>7. ParamsOf(u).label = ParamsOf(v).label
  <2>1. again.label \in Seq(Words) /\ again.product \in Seq(Products)
    BY <1>1
  <2>2. ParamsOf(u).label = LabelsOf(u.labels, u.master, SharedChannel(u.products))
    BY <1>2, UpdatedLabels
  <2>3. ParamsOf(v).label = LabelsOf(v.labels, v.master, SharedChannel(v.products))
    BY <1>3, <2>1, UpdatedLabels
  <2> QED BY <1>4, <1>6, <2>2, <2>3
<1>8. /\ ParamsOf(u).sha = ParamsOf(v).sha /\ ParamsOf(u).aligned = ParamsOf(v).aligned
      /\ ParamsOf(u).diff = ParamsOf(v).diff /\ ParamsOf(u).filter = ParamsOf(v).filter
  BY <1>4, <1>5, ParamsDecide
<1>9. ParamsOf(u).product = ParamsOf(v).product
  BY <1>6, ProductIsOf
<1> QED BY <1>2, <1>3, <1>7, <1>8, <1>9 DEF Same

\* Properties that come from a query stay what they are when they are written and read again.
LEMMA UpdatesReturn ==
    ASSUME NEW ui, NEW others, NEW params, params.label \in Seq(Words), params.product \in Seq(Products),
           params.sha \in Seq(Words), params.aligned \in BOOLEAN
    PROVE  Same(ParamsOf(updateQueryParams(others, ParamsOf(updateQueryParams(ui, params)))),
                ParamsOf(updateQueryParams(ui, params)))
<1>1. PICK u : u = updateQueryParams(ui, params)
  OBVIOUS
<1>2. PICK P : P = ParamsOf(u)
  OBVIOUS
<1>3. PICK v : v = updateQueryParams(others, P)
  OBVIOUS
<1>4. PICK Q : Q = ParamsOf(v)
  OBVIOUS
<1>5. PICK channel : channel = SharedChannel(u.products)
  OBVIOUS
<1>6. /\ PlainLabels(u.labels) /\ u.master \in BOOLEAN /\ u.products \in Seq(Products) /\ u.products # <<>>
      /\ channel \in Channels \union {""}
      /\ P.label = LabelsOf(u.labels, u.master, channel)
  BY <1>1, <1>2, <1>5, UpdatedLabels
<1>7. /\ P.label \in Seq(Words)
      /\ v.labels = u.labels /\ v.master = u.master
      /\ Within(P.label, Channels) = IF channel = "" THEN <<>> ELSE <<channel>>
  <2>1. TakenApart(P.label, u.labels, u.master, channel)
    BY <1>6, LabelsReturn
  <2>2. v.labels = Without(P.label, Channels \union {"master"}) /\ v.master = Contains(P.label, "master")
    BY <1>3, UpdatedIs
  <2>3. v.master = u.master
    BY <1>6, <2>1, <2>2, Zenon DEF TakenApart, Contains
  <2> QED BY <2>1, <2>2, <2>3, Zenon DEF TakenApart
<1>8. SharedOf(P.label) = channel
  <2>1. CASE channel = ""
    BY <1>7, <2>1 DEF SharedOf, ChannelsOf
  <2>2. CASE channel # ""
    <3>1. ChannelsOf(P.label) = <<channel>>
      BY <1>7, <2>2 DEF ChannelsOf
    <3>2. <<channel>> # <<>> /\ <<channel>>[1] = channel
      OBVIOUS
    <3> QED BY <3>1, <3>2 DEF SharedOf
  <2> QED BY <2>1, <2>2
<1>9. PICK specs : specs = SpecsOf(u.products, channel)
  OBVIOUS
<1>10. /\ specs \in Seq(Products) /\ specs # <<>>
       /\ SharedChannel(Read(specs, channel)) = channel
       /\ SpecsOf(Read(specs, channel), channel) = specs
  BY <1>5, <1>6, <1>9, ProductsReturn
<1>11. P.product = IF computeIsDefaultProducts(specs) THEN <<>> ELSE specs
  BY <1>2, <1>5, <1>9, ParamsAre
<1>12. specs = ProductsOf(P) /\ P.product \in Seq(Products)
  BY <1>10, <1>11 DEF computeIsDefaultProducts, ProductsOf
<1>13. v.products = Read(specs, channel)
  <2>1. v.products = ExpandedProducts(P)
    BY <1>3, UpdatedIs
  <2> QED BY <1>7, <1>8, <1>12, <2>1, ExpandedAre DEF Read
<1>14. Q.product = P.product
  BY <1>4, <1>10, <1>11, <1>13, ParamsAre
<1>15. Q.label = P.label
  <2>1. Q.label = LabelsOf(v.labels, v.master, SharedChannel(v.products))
    BY <1>3, <1>4, <1>7, <1>12, UpdatedLabels
  <2> QED BY <1>6, <1>7, <1>10, <1>13, <2>1
<1>16. Q.sha = P.sha
  <2>1. v.shas = P.sha /\ P.sha = IF computeIsLatest(u.shas) THEN <<>> ELSE u.shas
    <3>1. v.shas = P.sha
      BY <1>3, UpdatedIs
    <3>2. P.sha = IF computeIsLatest(u.shas) THEN <<>> ELSE u.shas
      BY <1>2, ParamsAre
    <3> QED BY <3>1, <3>2
  <2>2. Q.sha = IF computeIsLatest(v.shas) THEN <<>> ELSE v.shas
    BY <1>4, ParamsAre
  <2> QED BY <2>1, <2>2 DEF computeIsLatest
<1>17. Q.aligned = P.aligned
  <2>1. v.shas = P.sha /\ P.sha = IF computeIsLatest(u.shas) THEN <<>> ELSE u.shas
    <3>1. v.shas = P.sha
      BY <1>3, UpdatedIs
    <3>2. P.sha = IF computeIsLatest(u.shas) THEN <<>> ELSE u.shas
      BY <1>2, ParamsAre
    <3> QED BY <3>1, <3>2
  <2>2. P.aligned = (u.aligned /\ computeIsLatest(u.shas)) /\ v.aligned = P.aligned
    <3>1. P.aligned = (u.aligned /\ computeIsLatest(u.shas))
      BY <1>2, ParamsAre, Zenon
    <3>2. v.aligned = P.aligned
      BY <1>3, UpdatedIs
    <3> QED BY <3>1, <3>2, Zenon
  <2>3. Q.aligned = (v.aligned /\ computeIsLatest(v.shas))
    BY <1>4, ParamsAre
  <2>4. computeIsLatest(u.shas) => computeIsLatest(v.shas)
    BY <2>1 DEF computeIsLatest
  <2>5. P.aligned \in BOOLEAN /\ Q.aligned \in BOOLEAN
    BY <2>2, <2>3
  <2>6. P.aligned => u.aligned /\ computeIsLatest(v.shas)
    BY <2>2, <2>4
  <2> QED BY <2>2, <2>3, <2>5, <2>6, Zenon
<1>18. Q.diff = P.diff
  <2>1. Q.diff = v.diff
    BY <1>4, ParamsAre
  <2>2. v.diff = P.diff
    BY <1>3, UpdatedIs
  <2> QED BY <2>1, <2>2
<1>19. Q.filter = P.filter
  <2>1. Q.filter = (IF v.diff THEN v.diffFilter ELSE "") /\ P.filter = (IF u.diff THEN u.diffFilter ELSE "")
    BY <1>2, <1>4, ParamsAre
  <2>2. P.diff = u.diff
    BY <1>2, ParamsAre
  <2>3. v.diff = P.diff
    BY <1>3, UpdatedIs
  <2>4. v.diffFilter = IF P.diff THEN P.filter ELSE others.diffFilter
    BY <1>3, UpdatedIs
  <2> QED BY <2>1, <2>2, <2>3, <2>4
<1> QED BY <1>1, <1>2, <1>3, <1>4, <1>14, <1>15, <1>16, <1>17, <1>18, <1>19 DEF Same

-------------------------------------------------------------------------------
(* Components: what a query makes of the properties, and they of the query *)

LEMMA QueryIs ==
    ASSUME NEW query \in Queries
    PROVE  /\ query.sha \in Seq(Words) /\ query.label \in Seq(Words) /\ query.product \in Seq(Products)
           /\ query.aligned \in BOOLEAN /\ query.diff \in BOOLEAN /\ query.filter \in Words
           /\ query.others \in [OtherParams -> Words]
           /\ \A k \in OtherParams : query.others[k] = "blank" => k = "q"
BY DEF Queries, QueryRecords

LEMMA UIIs ==
    ASSUME NEW ui \in UIs
    PROVE  /\ ui.shas \in Seq(Words) /\ ui.aligned \in BOOLEAN /\ ui.master \in BOOLEAN
           /\ ui.labels \in Seq(Words) /\ ui.products \in Seq(Products)
           /\ ui.diff \in BOOLEAN /\ ui.diffFilter \in Words
           /\ ui.others \in [OtherParams -> Words] /\ \A k \in OtherParams : ui.others[k] # "blank"
BY DEF UIs, UIRecords

LEMMA OthersKeep ==
    ASSUME NEW ui \in UIs, NEW query \in Queries
    PROVE  /\ OthersOf(ui, query) \in [OtherParams -> Words]
           /\ \A k \in OtherParams : OthersOf(ui, query)[k] # "blank"
<1>1. \A k \in OtherParams : ui.others[k] \in Words /\ ui.others[k] # "blank" /\ query.others[k] \in Words
  BY UIIs, QueryIs
<1>2. "" \in Words
  BY WordsAre
<1>3. \A k \in OtherParams : OthersOf(ui, query)[k] =
         IF k \in StickyParams /\ query.others[k] = "" THEN ui.others[k]
         ELSE IF query.others[k] = "blank" THEN "" ELSE query.others[k]
  BY DEF OthersOf
<1>4. \A k \in OtherParams : OthersOf(ui, query)[k] \in Words /\ OthersOf(ui, query)[k] # "blank"
  BY <1>1, <1>2, <1>3
<1>5. OthersOf(ui, query) = [k \in OtherParams |-> OthersOf(ui, query)[k]]
  BY DEF OthersOf
<1> QED BY <1>4, <1>5

LEMMA UpdateKeeps ==
    ASSUME NEW ui \in UIs, NEW query \in Queries
    PROVE  updateQueryParams(ui, query) \in UIs
<1>1. PICK u : u = updateQueryParams(ui, query)
  OBVIOUS
<1>2. /\ query.sha \in Seq(Words) /\ query.label \in Seq(Words) /\ query.product \in Seq(Products)
      /\ query.aligned \in BOOLEAN /\ query.diff \in BOOLEAN /\ query.filter \in Words
  BY QueryIs
<1>3. u = [shas |-> u.shas, aligned |-> u.aligned, master |-> u.master, labels |-> u.labels, products |-> u.products,
           diff |-> u.diff, diffFilter |-> u.diffFilter, others |-> u.others]
  BY <1>1 DEF updateQueryParams
<1>4. u.shas \in Seq(Words) /\ u.aligned \in BOOLEAN /\ u.diff \in BOOLEAN
  BY <1>1, <1>2, UpdatedIs
<1>5. u.master \in BOOLEAN /\ u.labels \in Seq(Words) /\ u.products \in Seq(Products)
  BY <1>1, <1>2, UpdatedLabels DEF PlainLabels
<1>6. u.diffFilter \in Words
  BY <1>1, <1>2, UpdatedIs, UIIs
<1>7. u.others \in [OtherParams -> Words] /\ \A k \in OtherParams : u.others[k] # "blank"
  BY <1>1, UpdatedIs, OthersKeep
<1> QED BY <1>1, <1>3, <1>4, <1>5, <1>6, <1>7 DEF UIs, UIRecords

LEMMA ParamsKeep ==
    ASSUME NEW ui \in UIs
    PROVE  ParamsOf(ui) \in QueryRecords
<1>1. PICK P : P = ParamsOf(ui)
  OBVIOUS
<1>2. P = [sha |-> P.sha, label |-> P.label, product |-> P.product, aligned |-> P.aligned, diff |-> P.diff,
           filter |-> P.filter, others |-> P.others]
  BY <1>1 DEF ParamsOf
<1>3. <<>> \in Seq(Words) /\ <<>> \in Seq(Products) /\ "" \in Words /\ "master" \in Words
  <2>1. <<>> \in Seq(Words) /\ <<>> \in Seq(Products)
    OBVIOUS
  <2> QED BY <2>1, WordsAre
<1>4. P.sha \in Seq(Words)
  BY <1>1, <1>3, UIIs, ParamsAre
<1>5. PICK channel : channel = SharedChannel(ui.products)
  OBVIOUS
<1>6. channel \in Channels \union {""} /\ channel \in Words
  BY <1>5, UIIs, SharedIs, WordsAre
<1>7. P.label \in Seq(Words)
  <2>1. PICK own : own = IF ui.master /\ ~ Contains(ui.labels, "master") THEN Append(ui.labels, "master") ELSE ui.labels
    OBVIOUS
  <2>2. own \in Seq(Words)
    BY <1>3, <2>1, UIIs, AppendKeeps
  <2>3. P.label = IF channel = "" \/ Contains(own, channel) THEN own ELSE Append(own, channel)
    BY <1>1, <1>5, <2>1 DEF ParamsOf
  <2> QED BY <1>6, <2>2, <2>3, AppendKeeps
<1>8. P.product \in Seq(Products)
  <2>1. PICK specs : specs = SpecsOf(ui.products, channel)
    OBVIOUS
  <2>2. DOMAIN ui.products = 1..Len(ui.products) /\ Len(ui.products) \in Nat
    BY UIIs
  <2>3. \A i \in 1..Len(ui.products) : SpecOf(ui.products[i], channel) \in Products
    <3>1. \A i \in 1..Len(ui.products) : ui.products[i] \in Products
      BY UIIs
    <3> QED BY <3>1, SpecOfIs
  <2>4. specs \in Seq(Products)
    BY <2>1, <2>2, <2>3 DEF SpecsOf
  <2>5. P.product = IF computeIsDefaultProducts(specs) THEN <<>> ELSE specs
    BY <1>1, <1>5, <2>1, ParamsAre
  <2> QED BY <1>3, <2>4, <2>5
<1>9. P.aligned \in BOOLEAN
  <2>1. P.aligned = (ui.aligned /\ computeIsLatest(ui.shas))
    BY <1>1, ParamsAre, Zenon
  <2> QED BY <2>1
<1>10. P.diff \in BOOLEAN
  BY <1>1, UIIs, ParamsAre
<1>11. P.filter \in Words
  BY <1>1, <1>3, UIIs, ParamsAre
<1>12. P.others \in [OtherParams -> Words]
  BY <1>1, UIIs, ParamsAre
<1> QED BY <1>1, <1>2, <1>4, <1>7, <1>8, <1>9, <1>10, <1>11, <1>12 DEF QueryRecords

\* The query that a component computes from its properties.
QueryOf(ui) == computeQuery(ParamsOf(ui))

LEMMA SameIs ==
    /\ \A P : Same(P, P)
    /\ \A P, Q : Same(P, Q) => Same(Q, P)
    /\ \A P, Q, R : Same(P, Q) /\ Same(Q, R) => Same(P, R)
BY DEF Same

LEMMA QueryOfIs ==
    ASSUME NEW ui \in UIs
    PROVE  /\ QueryOf(ui) \in Queries
           /\ Same(ParamsOf(ui), QueryOf(ui))
           /\ \A k \in OtherParams : k # "q" => QueryOf(ui).others[k] = ui.others[k]
           /\ QueryOf(ui).others["q"] = IF ui.others["q"] = "true" THEN "blank" ELSE ui.others["q"]
<1>1. PICK P : P = ParamsOf(ui)
  OBVIOUS
<1>2. P \in QueryRecords /\ P.others = ui.others
  BY <1>1, ParamsKeep, ParamsAre
<1>3. PICK others : others = [ui.others EXCEPT !["q"] = IF @ = "true" THEN "blank" ELSE @]
  OBVIOUS
<1>4. QueryOf(ui) = [P EXCEPT !.others = others]
  <2>1. QueryOf(ui) = [P EXCEPT !.others = [P.others EXCEPT !["q"] = IF @ = "true" THEN "blank" ELSE @]]
    BY <1>1 DEF QueryOf, computeQuery
  <2> QED BY <1>2, <1>3, <2>1
<1>5. ui.others \in [OtherParams -> Words] /\ \A k \in OtherParams : ui.others[k] # "blank"
  BY UIIs
<1>6. "q" \in OtherParams /\ "blank" \in Words
  BY WordsAre DEF OtherParams
<1>7. /\ others \in [OtherParams -> Words]
      /\ \A k \in OtherParams : k # "q" => others[k] = ui.others[k]
      /\ others["q"] = IF ui.others["q"] = "true" THEN "blank" ELSE ui.others["q"]
  BY <1>3, <1>5, <1>6
<1>8. PICK query : query = [P EXCEPT !.others = others]
  OBVIOUS
<1>9. query \in QueryRecords /\ query.others = others
  BY <1>2, <1>7, <1>8 DEF QueryRecords
<1>10. Same(P, query)
  BY <1>2, <1>8 DEF Same, QueryRecords
<1>11. query \in Queries
  BY <1>5, <1>7, <1>9 DEF Queries
<1> QED BY <1>1, <1>4, <1>7, <1>8, <1>9, <1>10, <1>11

\* ui is what the query says, but for what stays when the query does not name it.
Reads(ui, query) ==
    /\ Same(ParamsOf(ui), ParamsOf(FreshUI(query)))
    /\ \A k \in OtherParams :
          \/ ui.others[k] = IF query.others[k] = "blank" THEN "" ELSE query.others[k]
          \/ k \in StickyParams /\ query.others[k] = ""

\* Written and read again, ui is the same.
Returns(ui) == Same(ParamsOf(FreshUI(ParamsOf(ui))), ParamsOf(ui))

LEMMA UpdateReads ==
    ASSUME NEW ui, NEW query \in Queries
    PROVE  Reads(updateQueryParams(ui, query), query) /\ Returns(updateQueryParams(ui, query))
<1>1. PICK u : u = updateQueryParams(ui, query)
  OBVIOUS
<1>2. Same(ParamsOf(u), ParamsOf(FreshUI(query)))
  BY <1>1, QueryIs, UpdatesAgree, SameIs DEF FreshUI
<1>3. \A k \in OtherParams : u.others[k] =
         IF k \in StickyParams /\ query.others[k] = "" THEN ui.others[k]
         ELSE IF query.others[k] = "blank" THEN "" ELSE query.others[k]
  <2>1. u.others = OthersOf(ui, query)
    BY <1>1, UpdatedIs
  <2> QED BY <2>1 DEF OthersOf
<1>4. Reads(u, query)
  BY <1>2, <1>3 DEF Reads
<1>5. Returns(u)
  BY <1>1, QueryIs, UpdatesReturn DEF Returns, FreshUI
<1> QED BY <1>1, <1>4, <1>5

LEMMA ComputedReads ==
    ASSUME NEW ui \in UIs, Returns(ui)
    PROVE  /\ Same(ParamsOf(ui), ParamsOf(FreshUI(QueryOf(ui))))
           /\ QueryOf(ui).others["q"] # "blank" => Reads(ui, QueryOf(ui))
<1>1. PICK P : P = ParamsOf(ui)
  OBVIOUS
<1>2. PICK query : query = QueryOf(ui)
  OBVIOUS
<1>3. /\ query \in Queries /\ Same(P, query)
      /\ \A k \in OtherParams : k # "q" => query.others[k] = ui.others[k]
      /\ query.others["q"] = IF ui.others["q"] = "true" THEN "blank" ELSE ui.others["q"]
  BY <1>1, <1>2, QueryOfIs
<1>4. P.label \in Seq(Words) /\ P.product \in Seq(Products)
  BY <1>1, ParamsKeep DEF QueryRecords
<1>5. Same(ParamsOf(FreshUI(P)), ParamsOf(FreshUI(query)))
  BY <1>3, <1>4, UpdatesAgree DEF FreshUI
<1>6. Same(ParamsOf(FreshUI(P)), P)
  BY <1>1 DEF Returns
<1>7. Same(P, ParamsOf(FreshUI(query)))
  BY <1>5, <1>6, SameIs
<1>8. ASSUME query.others["q"] # "blank" PROVE Reads(ui, query)
  <2>1. \A k \in OtherParams : ui.others[k] # "blank"
    BY UIIs
  <2>2. \A k \in OtherParams : query.others[k] = ui.others[k]
    BY <1>3, <1>8
  <2> QED BY <1>1, <1>7, <2>1, <2>2 DEF Reads
<1> QED BY <1>1, <1>2, <1>7, <1>8

\* wpt-app and its form: properties and a query.
Components == [ui : UIs, query : Queries]

LEMMA ComponentIs ==
    ASSUME NEW component \in Components
    PROVE  /\ component = [ui |-> component.ui, query |-> component.query]
           /\ component.ui \in UIs /\ component.query \in Queries
BY DEF Components

\* What x has of the parameters that stay, y has.
Kept(x, y) == \A k \in StickyParams : x.others[k] # "" => y.others[k] # ""

LEMMA UpdateKept ==
    ASSUME NEW ui, NEW query \in Queries
    PROVE  Kept(ui, updateQueryParams(ui, query))
<1>1. updateQueryParams(ui, query).others = OthersOf(ui, query)
  BY UpdatedIs
<1>2. \A k \in StickyParams : k \in OtherParams /\ k # "q"
  BY DEF StickyParams, OtherParams
<1>3. \A k \in StickyParams : OthersOf(ui, query)[k] =
         IF query.others[k] = "" THEN ui.others[k]
         ELSE IF query.others[k] = "blank" THEN "" ELSE query.others[k]
  BY <1>2 DEF OthersOf
<1>4. \A k \in StickyParams : query.others[k] # "blank"
  BY <1>2, QueryIs
<1> QED BY <1>1, <1>3, <1>4 DEF Kept

LEMMA GivenIs ==
    ASSUME NEW component \in Components, NEW query \in Queries
    PROVE  /\ Given(component, query) \in Components
           /\ Given(component, query).query = query
           /\ Given(component, query).ui \in {component.ui, updateQueryParams(component.ui, query)}
           /\ Kept(component.ui, Given(component, query).ui)
           /\ query \notin {NoQuery, component.query} => Reads(Given(component, query).ui, query)
           /\ query \in {NoQuery, component.query} => Given(component, query).ui = component.ui
           /\ Returns(component.ui) => Returns(Given(component, query).ui)
<1>1. PICK g : g = Given(component, query)
  OBVIOUS
<1>2. PICK ui : ui = component.ui
  OBVIOUS
<1>3. ui \in UIs /\ component = [ui |-> ui, query |-> component.query]
  BY <1>2, ComponentIs
<1>4. CASE query \in {NoQuery, component.query}
  <2>1. g = [component EXCEPT !.query = query]
    BY <1>1, <1>4 DEF Given
  <2>2. g = [ui |-> ui, query |-> query]
    BY <1>3, <2>1
  <2>3. g.ui = ui /\ g.query = query
    BY <2>2
  <2>4. g \in Components
    BY <1>3, <2>2 DEF Components
  <2>5. Kept(ui, ui)
    BY DEF Kept
  <2> QED BY <1>1, <1>2, <1>4, <2>3, <2>4, <2>5
<1>5. CASE query \notin {NoQuery, component.query}
  <2>1. PICK u : u = updateQueryParams(ui, query)
    OBVIOUS
  <2>2. g = [ui |-> u, query |-> query]
    BY <1>1, <1>2, <1>5, <2>1 DEF Given
  <2>3. g.ui = u /\ g.query = query
    BY <2>2
  <2>4. u \in UIs
    BY <1>3, <2>1, UpdateKeeps
  <2>5. g \in Components
    BY <2>2, <2>4 DEF Components
  <2>6. Kept(ui, u)
    BY <2>1, UpdateKept
  <2>7. Reads(u, query) /\ Returns(u)
    BY <2>1, UpdateReads
  <2> QED BY <1>1, <1>2, <1>5, <2>1, <2>3, <2>5, <2>6, <2>7
<1> QED BY <1>4, <1>5

LEMMA WithUIIs ==
    ASSUME NEW component \in Components, NEW ui \in UIs
    PROVE  /\ WithUI(component, ui) \in Components
           /\ WithUI(component, ui).query = QueryOf(ui)
           /\ Kept(ui, WithUI(component, ui).ui)
           /\ QueryOf(ui) \notin {NoQuery, component.query} => Reads(WithUI(component, ui).ui, QueryOf(ui))
           /\ QueryOf(ui) \in {NoQuery, component.query} => WithUI(component, ui).ui = ui
           /\ Returns(ui) => Returns(WithUI(component, ui).ui)
<1>1. PICK changed : changed = [component EXCEPT !.ui = ui]
  OBVIOUS
<1>2. changed \in Components /\ changed.ui = ui /\ changed.query = component.query
  BY <1>1 DEF Components
<1>3. WithUI(component, ui) = Given(changed, QueryOf(ui))
  BY <1>1 DEF WithUI, QueryOf
<1>4. QueryOf(ui) \in Queries
  BY QueryOfIs
<1> QED BY <1>2, <1>3, <1>4, GivenIs

LEMMA SeqGrows ==
    ASSUME NEW S, NEW T, S \subseteq T, NEW s \in Seq(S) PROVE s \in Seq(T)
OBVIOUS

LEMMA UrlsAre == \A query \in OpenedUrls : query \in Queries
<1> SUFFICES ASSUME NEW query \in OpenedUrls PROVE query \in Queries
  OBVIOUS
<1>1. query \in AllQueries /\ \A k \in OtherParams : query.others[k] = "blank" => k = "q"
  BY UrlsAssumption
<1>2. STRING \subseteq Words
  BY WordsAre
<1>3. \A s \in Seq(STRING) : s \in Seq(Words)
  BY <1>2, SeqGrows
<1>4. [browser_name : STRING, labels : Seq(STRING)] \subseteq Products
  BY <1>2, <1>3 DEF Products
<1>5. /\ query.sha \in Seq(STRING) /\ query.label \in Seq(STRING)
      /\ query.product \in Seq([browser_name : STRING, labels : Seq(STRING)])
      /\ query.aligned \in BOOLEAN /\ query.diff \in BOOLEAN /\ query.filter \in STRING
      /\ query.others \in [OtherParams -> STRING]
      /\ query = [sha |-> query.sha, label |-> query.label, product |-> query.product, aligned |-> query.aligned,
                  diff |-> query.diff, filter |-> query.filter, others |-> query.others]
  BY <1>1 DEF AllQueries
<1>6. query.product \in Seq(Products)
  <2>1. PICK S : S = [browser_name : STRING, labels : Seq(STRING)]
    OBVIOUS
  <2>2. S \subseteq Products /\ query.product \in Seq(S)
    BY <1>4, <1>5, <2>1
  <2> QED BY <2>2, SeqGrows
<1>7. query.others \in [OtherParams -> Words] /\ query.filter \in Words
  BY <1>2, <1>5
<1>8. query.sha \in Seq(Words) /\ query.label \in Seq(Words)
  BY <1>3, <1>5
<1>9. query \in QueryRecords
  BY <1>5, <1>6, <1>7, <1>8 DEF QueryRecords
<1> QED BY <1>1, <1>9 DEF Queries

LEMMA InitialIs == InitialUI \in UIs
<1>1. <<>> \in Seq(Words) /\ DefaultProducts \in Seq(Products) /\ "ADC" \in Words /\ "" \in Words
  BY DefaultsAre, WordsAre, OneIs
<1>2. PICK others : others = [k \in OtherParams |-> ""]
  OBVIOUS
<1>3. others \in [OtherParams -> Words] /\ \A k \in OtherParams : others[k] # "blank"
  BY <1>1, <1>2
<1>4. InitialUI = [shas |-> <<>>, aligned |-> FALSE, master |-> FALSE, labels |-> <<>>,
              products |-> DefaultProducts, diff |-> FALSE, diffFilter |-> "ADC", others |-> others]
  BY <1>2 DEF InitialUI
<1>5. InitialUI \in UIRecords
  BY <1>1, <1>3, <1>4 DEF UIRecords
<1>6. InitialUI.others = others
  BY <1>4
<1> QED BY <1>3, <1>5, <1>6 DEF UIs

LEMMA NoQueryIs == NoQuery \in Queries
<1>1. <<>> \in Seq(Words) /\ <<>> \in Seq(Products) /\ "" \in Words
  <2>1. <<>> \in Seq(Words) /\ <<>> \in Seq(Products)
    OBVIOUS
  <2> QED BY <2>1, WordsAre
<1>2. PICK others : others = [k \in OtherParams |-> ""]
  OBVIOUS
<1>3. others \in [OtherParams -> Words] /\ \A k \in OtherParams : others[k] # "blank"
  BY <1>1, <1>2
<1>4. NoQuery = [sha |-> <<>>, label |-> <<>>, product |-> <<>>, aligned |-> FALSE, diff |-> FALSE,
            filter |-> "", others |-> others]
  BY <1>2 DEF NoQuery
<1>5. NoQuery \in QueryRecords
  BY <1>1, <1>3, <1>4 DEF QueryRecords
<1>6. NoQuery.others = others
  BY <1>4
<1> QED BY <1>3, <1>5, <1>6 DEF Queries

LEMMA FieldsDecide ==
    ASSUME NEW u, NEW v, u.shas = v.shas, u.aligned = v.aligned, u.master = v.master, u.labels = v.labels,
           u.products = v.products, u.diff = v.diff, u.diffFilter = v.diffFilter
    PROVE  Same(ParamsOf(u), ParamsOf(v))
<1>1. ParamsOf(u).label = ParamsOf(v).label
  BY DEF ParamsOf
<1>2. /\ ParamsOf(u).sha = ParamsOf(v).sha /\ ParamsOf(u).aligned = ParamsOf(v).aligned
      /\ ParamsOf(u).diff = ParamsOf(v).diff /\ ParamsOf(u).filter = ParamsOf(v).filter
  BY ParamsDecide
<1>3. ParamsOf(u).product = ParamsOf(v).product
  BY ProductIsOf
<1> QED BY <1>1, <1>2, <1>3 DEF Same

\* Another search is another search, and nothing else.
LEMMA SearchedIs ==
    ASSUME NEW ui \in UIs, NEW text \in SearchTexts, NEW searched, searched = [ui EXCEPT !.others.q = text]
    PROVE  /\ searched \in UIs /\ Kept(ui, searched)
           /\ Same(ParamsOf(searched), ParamsOf(ui))
<1>1. PICK others : others = [ui.others EXCEPT !["q"] = text]
  OBVIOUS
<1>2. searched = [ui EXCEPT !.others = others]
  BY <1>1
<1>3. text \in Words /\ text # "blank"
  BY TypedAssumption, WordsAre
<1>4. ui.others \in [OtherParams -> Words] /\ \A k \in OtherParams : ui.others[k] # "blank"
  BY UIIs
<1>5. /\ others \in [OtherParams -> Words] /\ \A k \in OtherParams : others[k] # "blank"
      /\ \A k \in OtherParams : k # "q" => others[k] = ui.others[k]
  BY <1>1, <1>3, <1>4
<1>6. /\ searched.shas = ui.shas /\ searched.aligned = ui.aligned /\ searched.master = ui.master
      /\ searched.labels = ui.labels /\ searched.products = ui.products /\ searched.diff = ui.diff
      /\ searched.diffFilter = ui.diffFilter /\ searched.others = others
  BY <1>2 DEF UIs, UIRecords
<1>7. searched \in UIRecords
  BY <1>2, <1>5 DEF UIs, UIRecords
<1>8. searched \in UIs
  BY <1>5, <1>6, <1>7 DEF UIs
<1>9. Kept(ui, searched)
  BY <1>5, <1>6 DEF Kept, StickyParams, OtherParams
<1>10. Same(ParamsOf(searched), ParamsOf(ui))
  BY <1>6, FieldsDecide
<1> QED BY <1>8, <1>9, <1>10

-------------------------------------------------------------------------------
(* The form follows the page *)

\* wpt-app's properties are what its query says, and are written as they were read.
AppInv ==
    /\ app \in Components /\ pageUrl \in Queries /\ visited \in Seq(Queries)
    /\ Returns(app.ui)
    /\ QueryIsSound => Reads(app.ui, app.query)

\* The form's properties are what its query says, or its query is what they say.
Faithful(component) ==
    component.query # NoQuery =>
        Reads(component.ui, component.query) \/ QueryOf(component.ui) = component.query

\* The form has no more of the parameters that stay than wpt-app.
FormInv == form \in Components /\ Faithful(form) /\ Kept(form.ui, app.ui)

LEMMA KeptIs ==
    /\ \A x : Kept(x, x)
    /\ \A x, y, z : Kept(x, y) /\ Kept(y, z) => Kept(x, z)
BY DEF Kept

LEMMA WithUIFaithful ==
    ASSUME NEW component \in Components, NEW ui \in UIs
    PROVE  Faithful(WithUI(component, ui))
<1>1. PICK g : g = WithUI(component, ui)
  OBVIOUS
<1>2. g.query = QueryOf(ui)
  BY <1>1, WithUIIs
<1>3. CASE QueryOf(ui) \notin {NoQuery, component.query}
  BY <1>1, <1>2, <1>3, WithUIIs DEF Faithful
<1>4. CASE QueryOf(ui) \in {NoQuery, component.query}
  <2>1. g.ui = ui
    BY <1>1, <1>4, WithUIIs
  <2> QED BY <1>1, <1>2, <2>1 DEF Faithful
<1> QED BY <1>3, <1>4

LEMMA GivenFaithful ==
    ASSUME NEW component \in Components, NEW query \in Queries, Faithful(component)
    PROVE  Faithful(Given(component, query))
<1>1. PICK g : g = Given(component, query)
  OBVIOUS
<1>2. g.query = query
  BY <1>1, GivenIs
<1>3. CASE query \notin {NoQuery, component.query}
  BY <1>1, <1>2, <1>3, GivenIs DEF Faithful
<1>4. CASE query \in {NoQuery, component.query}
  <2>1. g.ui = component.ui
    BY <1>1, <1>4, GivenIs
  <2> QED BY <1>1, <1>2, <1>4, <2>1 DEF Faithful
<1> QED BY <1>3, <1>4

LEMMA RecordsDecide ==
    ASSUME NEW P \in QueryRecords, NEW Q \in QueryRecords, Same(P, Q),
           \A k \in OtherParams : P.others[k] = Q.others[k]
    PROVE  P = Q
<1>1. P.others = Q.others
  <2>1. P.others = [k \in OtherParams |-> P.others[k]] /\ Q.others = [k \in OtherParams |-> Q.others[k]]
    BY DEF QueryRecords
  <2> QED BY <2>1
<1>2. /\ P.sha = Q.sha /\ P.label = Q.label /\ P.product = Q.product
      /\ P.aligned = Q.aligned /\ P.diff = Q.diff /\ P.filter = Q.filter
  BY DEF Same
<1>3. P = [sha |-> P.sha, label |-> P.label, product |-> P.product, aligned |-> P.aligned, diff |-> P.diff,
           filter |-> P.filter, others |-> P.others]
  BY DEF QueryRecords
<1>4. Q = [sha |-> Q.sha, label |-> Q.label, product |-> Q.product, aligned |-> Q.aligned, diff |-> Q.diff,
           filter |-> Q.filter, others |-> Q.others]
  BY DEF QueryRecords
<1> QED BY <1>1, <1>2, <1>3, <1>4

\* What the form is bound to: it has no more of what stays, and keeps no less.
LEMMA BoundIs ==
    ASSUME NEW builder \in Components, NEW ui \in UIs, Faithful(builder), Kept(builder.ui, ui)
    PROVE  /\ Bound(builder, ui) \in Components /\ Faithful(Bound(builder, ui))
           /\ Kept(Bound(builder, ui).ui, ui)
<1>1. PICK query : query = QueryOf(ui)
  OBVIOUS
<1>2. query \in Queries /\ \A k \in OtherParams : k # "q" => query.others[k] = ui.others[k]
  BY <1>1, QueryOfIs
<1>3. Bound(builder, ui) = IF query = QueryOf(builder.ui) THEN builder ELSE Given(builder, query)
  BY <1>1 DEF Bound, QueryOf
<1>4. CASE query = QueryOf(builder.ui)
  BY <1>3, <1>4
<1>5. CASE query # QueryOf(builder.ui)
  <2>1. PICK g : g = Given(builder, query)
    OBVIOUS
  <2>2. Bound(builder, ui) = g
    BY <1>3, <1>5, <2>1
  <2>3. g \in Components /\ Faithful(g)
    BY <1>2, <2>1, GivenIs, GivenFaithful
  <2>4. Kept(g.ui, ui)
    <3>1. CASE g.ui = builder.ui
      BY <3>1
    <3>2. CASE g.ui = updateQueryParams(builder.ui, query)
      <4>1. g.ui.others = OthersOf(builder.ui, query)
        BY <3>2, UpdatedIs
      <4>2. \A k \in StickyParams : k \in OtherParams /\ k # "q"
        BY DEF StickyParams, OtherParams
      <4>3. \A k \in StickyParams : g.ui.others[k] =
               IF query.others[k] = "" THEN builder.ui.others[k]
               ELSE IF query.others[k] = "blank" THEN "" ELSE query.others[k]
        BY <4>1, <4>2 DEF OthersOf
      <4>4. \A k \in StickyParams : query.others[k] = ui.others[k]
        BY <1>2, <4>2
      <4> QED BY <4>3, <4>4 DEF Kept
    <3> QED BY <1>2, <2>1, <3>1, <3>2, GivenIs
  <2> QED BY <2>2, <2>3, <2>4
<1> QED BY <1>4, <1>5

\* The form shows what it is bound to, unless that is the default or a search for "true".
LEMMA BoundShows ==
    ASSUME NEW builder \in Components, NEW ui \in UIs, Faithful(builder), Kept(builder.ui, ui), Returns(ui),
           ParamsOf(ui) # NoQuery, ui.others["q"] # "true"
    PROVE  ParamsOf(Bound(builder, ui).ui) = ParamsOf(ui)
<1>1. PICK query : query = QueryOf(ui)
  OBVIOUS
<1>2. PICK shown : shown = Bound(builder, ui).ui
  OBVIOUS
<1>3. PICK old : old = builder.ui
  OBVIOUS
<1>4. /\ query \in Queries /\ Same(ParamsOf(ui), query)
      /\ \A k \in OtherParams : query.others[k] = ui.others[k]
  BY <1>1, QueryOfIs
<1>5. old \in UIs /\ \A k \in OtherParams : ui.others[k] # "blank" /\ old.others[k] # "blank"
  BY <1>3, ComponentIs, UIIs
<1>6. Bound(builder, ui) = IF query = QueryOf(old) THEN builder ELSE Given(builder, query)
  BY <1>1, <1>3 DEF Bound, QueryOf
<1>7. query = QueryOf(old) => shown = old
  BY <1>2, <1>3, <1>6
<1>8. query # QueryOf(old) => shown \in UIs /\ Kept(shown, ui) /\ Reads(shown, query)
  <2> SUFFICES ASSUME query # QueryOf(old) PROVE shown \in UIs /\ Kept(shown, ui) /\ Reads(shown, query)
    OBVIOUS
  <2>1. shown \in UIs /\ Kept(shown, ui)
    BY <1>2, BoundIs, ComponentIs
  <2>2. query # NoQuery
    <3>1. SUFFICES ASSUME query = NoQuery PROVE FALSE
      OBVIOUS
    <3>2. ParamsOf(ui) \in QueryRecords /\ NoQuery \in QueryRecords
      BY ParamsKeep, NoQueryIs DEF Queries
    <3>3. Same(ParamsOf(ui), NoQuery)
      BY <1>4, <3>1
    <3>4. ParamsOf(ui).others = ui.others
      BY ParamsAre
    <3>5. \A k \in OtherParams : ParamsOf(ui).others[k] = NoQuery.others[k]
      BY <1>4, <3>1, <3>4
    <3>6. ParamsOf(ui) = NoQuery
      BY <3>2, <3>3, <3>5, RecordsDecide
    <3> QED BY <3>6
  <2>3. shown = Given(builder, query).ui
    BY <1>2, <1>6
  <2>4. CASE query = builder.query
    <3>1. shown = old
      BY <1>3, <1>4, <2>3, <2>4, GivenIs
    <3>2. Reads(old, query) \/ QueryOf(old) = query
      BY <1>3, <2>2, <2>4 DEF Faithful
    <3> QED BY <2>1, <3>1, <3>2
  <2>5. CASE query # builder.query
    BY <1>4, <2>1, <2>2, <2>3, <2>5, GivenIs
  <2> QED BY <2>4, <2>5
<1>9. shown \in UIs /\ Same(ParamsOf(shown), ParamsOf(ui)) /\ \A k \in OtherParams : shown.others[k] = ui.others[k]
  <2>1. CASE query = QueryOf(old)
    <3>1. /\ Same(ParamsOf(old), query)
          /\ \A k \in OtherParams : k # "q" => query.others[k] = old.others[k]
          /\ query.others["q"] = IF old.others["q"] = "true" THEN "blank" ELSE old.others["q"]
      BY <1>5, <2>1, QueryOfIs
    <3>2. Same(ParamsOf(old), ParamsOf(ui))
      BY <1>4, <3>1, SameIs
    <3>3. "q" \in OtherParams
      BY DEF OtherParams
    <3>4. \A k \in OtherParams : old.others[k] = ui.others[k]
      BY <1>4, <1>5, <3>1, <3>3
    <3> QED BY <1>5, <1>7, <2>1, <3>2, <3>4
  <2>2. CASE query # QueryOf(old)
    <3>1. shown \in UIs /\ Kept(shown, ui) /\ Reads(shown, query)
      BY <1>8, <2>2
    <3>2. Same(ParamsOf(shown), ParamsOf(FreshUI(query)))
      BY <3>1 DEF Reads
    <3>3. Same(ParamsOf(ui), ParamsOf(FreshUI(query)))
      BY <1>1, ComputedReads
    <3>4. Same(ParamsOf(shown), ParamsOf(ui))
      BY <3>2, <3>3, SameIs
    <3>5. ASSUME NEW k \in OtherParams PROVE shown.others[k] = ui.others[k]
      <4>1. \/ shown.others[k] = IF query.others[k] = "blank" THEN "" ELSE query.others[k]
            \/ k \in StickyParams /\ query.others[k] = ""
        BY <3>1 DEF Reads
      <4>2. query.others[k] = ui.others[k] /\ ui.others[k] # "blank"
        BY <1>4, <1>5
      <4>3. k \in StickyParams => (shown.others[k] # "" => ui.others[k] # "")
        BY <3>1 DEF Kept
      <4> QED BY <4>1, <4>2, <4>3
    <3> QED BY <3>1, <3>4, <3>5
  <2> QED BY <2>1, <2>2
<1>10. /\ ParamsOf(shown) \in QueryRecords /\ ParamsOf(ui) \in QueryRecords
       /\ \A k \in OtherParams : ParamsOf(shown).others[k] = ParamsOf(ui).others[k]
  <2>1. ParamsOf(shown) \in QueryRecords /\ ParamsOf(ui) \in QueryRecords
    BY <1>9, ParamsKeep
  <2>2. ParamsOf(shown).others = shown.others /\ ParamsOf(ui).others = ui.others
    BY ParamsAre
  <2> QED BY <1>9, <2>1, <2>2
<1>11. ParamsOf(shown) = ParamsOf(ui)
  BY <1>9, <1>10, RecordsDecide
<1> QED BY <1>2, <1>11

LEMMA ShowKeepsApp ==
    ASSUME AppInv, NEW builder, NEW ui \in UIs, Returns(ui), Show(builder, ui)
    PROVE  AppInv' /\ Kept(ui, app'.ui)
<1>1. app' = WithUI(app, ui)
  BY DEF Show
<1>2. app \in Components /\ pageUrl \in Queries /\ visited \in Seq(Queries)
  BY DEF AppInv
<1>3. app' \in Components /\ app'.query = QueryOf(ui) /\ Kept(ui, app'.ui) /\ Returns(app'.ui)
  BY <1>1, <1>2, WithUIIs
<1>4. pageUrl' \in Queries /\ visited' \in Seq(Queries)
  <2>1. \/ UNCHANGED <<pageUrl, visited>>
        \/ pageUrl' = app'.query /\ visited' = Append(visited, pageUrl)
    BY <1>1 DEF Show
  <2> QED BY <1>2, <1>3, <2>1, ComponentIs, AppendKeeps
<1>5. ASSUME QueryIsSound' PROVE Reads(app'.ui, app'.query)
  <2>1. app'.query # NoQuery /\ app'.query.others["q"] # "blank"
    BY <1>5 DEF QueryIsSound
  <2>2. CASE QueryOf(ui) = app.query
    <3>1. app'.ui = ui
      BY <1>1, <1>2, <2>2, WithUIIs
    <3> QED BY <1>3, <2>1, <3>1, ComputedReads
  <2>3. CASE QueryOf(ui) # app.query
    BY <1>1, <1>2, <1>3, <2>1, <2>3, WithUIIs
  <2> QED BY <2>2, <2>3
<1> QED BY <1>3, <1>4, <1>5 DEF AppInv

LEMMA LocateKeepsApp ==
    ASSUME AppInv, NEW query \in Queries, Locate(query), visited' \in Seq(Queries)
    PROVE  AppInv' /\ Kept(app.ui, app'.ui)
<1>1. app' = Given(app, query) /\ pageUrl' = query
  BY DEF Locate
<1>2. app \in Components /\ Returns(app.ui) /\ (QueryIsSound => Reads(app.ui, app.query))
  BY DEF AppInv
<1>3. app' \in Components /\ app'.query = query /\ Kept(app.ui, app'.ui) /\ Returns(app'.ui)
  BY <1>1, <1>2, GivenIs
<1>4. ASSUME QueryIsSound' PROVE Reads(app'.ui, app'.query)
  <2>1. query # NoQuery /\ query.others["q"] # "blank"
    BY <1>3, <1>4 DEF QueryIsSound
  <2>2. CASE query = app.query
    <3>1. app'.ui = app.ui
      BY <1>1, <1>2, <2>2, GivenIs
    <3>2. QueryIsSound
      BY <2>1, <2>2 DEF QueryIsSound
    <3> QED BY <1>2, <1>3, <2>2, <3>1, <3>2
  <2>3. CASE query # app.query
    BY <1>1, <1>2, <1>3, <2>1, <2>3, GivenIs
  <2> QED BY <2>2, <2>3
<1> QED BY <1>1, <1>3, <1>4 DEF AppInv

\* The form follows wpt-app.
LEMMA BoundMatches ==
    ASSUME AppInv', NEW builder \in Components, Faithful(builder), Kept(builder.ui, app'.ui),
           form' = Bound(builder, app'.ui)
    PROVE  FormInv' /\ FormIsObeyed'
<1>1. app' \in Components /\ app'.ui \in UIs /\ Returns(app'.ui) /\ (QueryIsSound' => Reads(app'.ui, app'.query))
  BY ComponentIs DEF AppInv
<1>2. FormInv'
  BY <1>1, BoundIs DEF FormInv
<1>3. ASSUME QueryIsSound', ParamsOf(app'.ui) # NoQuery, app'.query.others["q"] # "true"
      PROVE  ParamsOf(form'.ui) = ParamsOf(app'.ui)
  <2>1. Reads(app'.ui, app'.query)
    BY <1>1, <1>3
  <2>2. "q" \in OtherParams /\ "q" \notin StickyParams
    BY DEF OtherParams, StickyParams
  <2>3. app'.ui.others["q"] # "true"
    BY <1>3, <2>1, <2>2 DEF Reads
  <2> QED BY <1>1, <1>3, <2>3, BoundShows
<1>4. FormIsObeyed'
  BY <1>3 DEF FormIsObeyed
<1> QED BY <1>2, <1>4

LEMMA ShowKeepsForm ==
    ASSUME AppInv, NEW builder \in Components, Faithful(builder), NEW ui \in UIs, Kept(builder.ui, ui), Returns(ui),
           Show(builder, ui)
    PROVE  AppInv' /\ FormInv' /\ FormIsObeyed'
<1>1. AppInv' /\ Kept(ui, app'.ui)
  BY ShowKeepsApp
<1>2. PICK between : between = Bound(builder, ui)
  OBVIOUS
<1>3. between \in Components /\ Faithful(between) /\ Kept(between.ui, ui)
  BY <1>2, BoundIs
<1>4. form' = Bound(between, app'.ui)
  BY <1>2 DEF Show
<1>5. Kept(between.ui, app'.ui)
  BY <1>1, <1>3, KeptIs
<1> QED BY <1>1, <1>3, <1>4, <1>5, BoundMatches

LEMMA LocateKeepsForm ==
    ASSUME AppInv, FormInv, NEW query \in Queries, Locate(query), visited' \in Seq(Queries)
    PROVE  AppInv' /\ FormInv' /\ FormIsObeyed'
<1>1. AppInv' /\ Kept(app.ui, app'.ui)
  BY LocateKeepsApp
<1>2. form \in Components /\ Faithful(form) /\ Kept(form.ui, app'.ui)
  BY <1>1, KeptIs DEF FormInv
<1>3. form' = Bound(form, app'.ui)
  BY DEF Locate
<1> QED BY <1>1, <1>2, <1>3, BoundMatches

LEMMA WithUIKept ==
    ASSUME NEW component \in Components, NEW ui \in UIs
    PROVE  Kept(WithUI(component, ui).ui, ui)
<1>1. PICK changed : changed = [component EXCEPT !.ui = ui]
  OBVIOUS
<1>2. changed \in Components /\ changed.ui = ui
  BY <1>1 DEF Components
<1>3. PICK query : query = QueryOf(ui)
  OBVIOUS
<1>4. WithUI(component, ui) = Given(changed, query)
  BY <1>1, <1>3 DEF WithUI, QueryOf
<1>5. query \in Queries /\ \A k \in OtherParams : k # "q" => query.others[k] = ui.others[k]
  BY <1>3, QueryOfIs
<1>6. Given(changed, query).ui \in {ui, updateQueryParams(ui, query)}
  BY <1>2, <1>5, GivenIs
<1>7. \A k \in StickyParams : k \in OtherParams /\ k # "q"
  BY DEF StickyParams, OtherParams
<1>8. Kept(updateQueryParams(ui, query), ui)
  <2>1. updateQueryParams(ui, query).others = OthersOf(ui, query)
    BY UpdatedIs
  <2>2. \A k \in StickyParams : OthersOf(ui, query)[k] =
           IF query.others[k] = "" THEN ui.others[k]
           ELSE IF query.others[k] = "blank" THEN "" ELSE query.others[k]
    BY <1>7 DEF OthersOf
  <2> QED BY <1>5, <1>7, <2>1, <2>2 DEF Kept
<1> QED BY <1>4, <1>6, <1>8, KeptIs

\* An edit of the form that leaves what stays.
LEMMA WithUIOf ==
    ASSUME NEW component \in Components, Kept(component.ui, app.ui), NEW ui \in UIs, Kept(ui, component.ui),
           NEW changed, changed = WithUI(component, ui)
    PROVE  changed \in Components /\ Faithful(changed) /\ Kept(changed.ui, app.ui)
BY WithUIIs, WithUIFaithful, WithUIKept, KeptIs

LEMMA EditedKeepsForm ==
    ASSUME AppInv, form' \in Components, Faithful(form'), Kept(form'.ui, app.ui), edited' = TRUE,
           UNCHANGED <<app, pageUrl, resultsQuery, visited>>
    PROVE  AppInv' /\ FormInv' /\ FormIsObeyed'
<1>1. AppInv'
  BY DEF AppInv, QueryIsSound
<1>2. FormInv'
  BY DEF FormInv
<1>3. FormIsObeyed'
  BY DEF FormIsObeyed
<1> QED BY <1>1, <1>2, <1>3

LEMMA EditKeepsForm ==
    ASSUME AppInv, FormInv, NEW ui \in UIs, Kept(ui, form.ui), Edit(ui)
    PROVE  AppInv' /\ FormInv' /\ FormIsObeyed'
<1>1. form' = WithUI(form, ui) /\ edited' = TRUE /\ UNCHANGED <<app, pageUrl, resultsQuery, visited>>
  BY DEF Edit
<1>2. form' \in Components /\ Faithful(form') /\ Kept(form'.ui, app.ui)
  BY <1>1, WithUIOf DEF FormInv
<1> QED BY <1>1, <1>2, EditedKeepsForm

-------------------------------------------------------------------------------
(* Edits of the form *)

\* Properties with no more of what stays.
Edits(ui) == {v \in UIs : Kept(v, ui)}

LEMMA EditsOf ==
    ASSUME NEW ui \in UIs, NEW v \in UIRecords, v.others = ui.others
    PROVE  v \in Edits(ui)
<1>1. v \in UIs
  BY DEF UIs
<1>2. Kept(v, ui)
  BY DEF Kept
<1> QED BY <1>1, <1>2 DEF Edits

LEMMA EditsAre ==
    ASSUME NEW ui \in UIs
    PROVE  /\ \A x \in Seq(Words) : [ui EXCEPT !.shas = x] \in Edits(ui)
           /\ \A x \in Seq(Words) : [ui EXCEPT !.labels = x] \in Edits(ui)
           /\ \A x \in Seq(Products) : [ui EXCEPT !.products = x] \in Edits(ui)
           /\ \A x \in BOOLEAN : [ui EXCEPT !.aligned = x] \in Edits(ui)
           /\ \A x \in BOOLEAN : [ui EXCEPT !.master = x] \in Edits(ui)
           /\ \A x \in BOOLEAN : [ui EXCEPT !.diff = x] \in Edits(ui)
           /\ \A x \in Seq(Words), y \in Seq(Products) :
                 [ui EXCEPT !.labels = x, !.products = y] \in Edits(ui)
<1>1. ui \in UIRecords
  BY DEF UIs
<1>2. ASSUME NEW x \in Seq(Words) PROVE [ui EXCEPT !.shas = x] \in Edits(ui)
  <2>1. PICK v : v = [ui EXCEPT !.shas = x]
    OBVIOUS
  <2>2. v \in UIRecords /\ v.others = ui.others
    BY <1>1, <1>2, <2>1 DEF UIRecords
  <2> QED BY <2>1, <2>2, EditsOf
<1>3. ASSUME NEW x \in Seq(Words) PROVE [ui EXCEPT !.labels = x] \in Edits(ui)
  <2>1. PICK v : v = [ui EXCEPT !.labels = x]
    OBVIOUS
  <2>2. v \in UIRecords /\ v.others = ui.others
    BY <1>1, <1>3, <2>1 DEF UIRecords
  <2> QED BY <2>1, <2>2, EditsOf
<1>4. ASSUME NEW x \in Seq(Products) PROVE [ui EXCEPT !.products = x] \in Edits(ui)
  <2>1. PICK v : v = [ui EXCEPT !.products = x]
    OBVIOUS
  <2>2. v \in UIRecords /\ v.others = ui.others
    BY <1>1, <1>4, <2>1 DEF UIRecords
  <2> QED BY <2>1, <2>2, EditsOf
<1>5. ASSUME NEW x \in BOOLEAN PROVE [ui EXCEPT !.aligned = x] \in Edits(ui)
  <2>1. PICK v : v = [ui EXCEPT !.aligned = x]
    OBVIOUS
  <2>2. v \in UIRecords /\ v.others = ui.others
    BY <1>1, <1>5, <2>1 DEF UIRecords
  <2> QED BY <2>1, <2>2, EditsOf
<1>6. ASSUME NEW x \in BOOLEAN PROVE [ui EXCEPT !.master = x] \in Edits(ui)
  <2>1. PICK v : v = [ui EXCEPT !.master = x]
    OBVIOUS
  <2>2. v \in UIRecords /\ v.others = ui.others
    BY <1>1, <1>6, <2>1 DEF UIRecords
  <2> QED BY <2>1, <2>2, EditsOf
<1>7. ASSUME NEW x \in BOOLEAN PROVE [ui EXCEPT !.diff = x] \in Edits(ui)
  <2>1. PICK v : v = [ui EXCEPT !.diff = x]
    OBVIOUS
  <2>2. v \in UIRecords /\ v.others = ui.others
    BY <1>1, <1>7, <2>1 DEF UIRecords
  <2> QED BY <2>1, <2>2, EditsOf
<1>8. ASSUME NEW x \in Seq(Words), NEW y \in Seq(Products) PROVE [ui EXCEPT !.labels = x, !.products = y] \in Edits(ui)
  <2>1. PICK v : v = [ui EXCEPT !.labels = x, !.products = y]
    OBVIOUS
  <2>2. v \in UIRecords /\ v.others = ui.others
    BY <1>1, <1>8, <2>1 DEF UIRecords
  <2> QED BY <2>1, <2>2, EditsOf
<1> QED BY <1>2, <1>3, <1>4, <1>5, <1>6, <1>7, <1>8

\* clearQuery, of a form without a diff.
LEMMA ClearedIs ==
    ASSUME NEW ui \in UIs
    PROVE  [Cleared(ui) EXCEPT !.diff = FALSE] \in Edits(ui)
<1>1. PICK others : others = [ui.others EXCEPT !["max-count"] = ""]
  OBVIOUS
<1>2. PICK v : v = [ui EXCEPT !.products = DefaultProducts, !.labels = <<>>, !.shas = <<>>, !.aligned = FALSE,
                              !.others = others, !.diff = FALSE]
  OBVIOUS
<1>3. ui.others \in [OtherParams -> Words] /\ \A k \in OtherParams : ui.others[k] # "blank"
  BY UIIs
<1>4. "" \in Words /\ DefaultProducts \in Seq(Products) /\ <<>> \in Seq(Words)
  BY WordsAre, DefaultsAre, OneIs
<1>5. others \in [OtherParams -> Words] /\ \A k \in OtherParams : others[k] \in {"", ui.others[k]}
  BY <1>1, <1>3, <1>4
<1>6. v \in UIRecords /\ v.others = others
  BY <1>2, <1>4, <1>5 DEF UIs, UIRecords
<1>7. v \in UIs
  BY <1>3, <1>5, <1>6 DEF UIs
<1>8. Kept(v, ui)
  BY <1>5, <1>6 DEF Kept, StickyParams, OtherParams
<1>9. v = [Cleared(ui) EXCEPT !.diff = FALSE]
  BY <1>1, <1>2 DEF Cleared, UIs, UIRecords
<1> QED BY <1>7, <1>8, <1>9 DEF Edits

\* A product that is added or changed is a product.
LEMMA AddedIs ==
    ASSUME NEW T, NEW name, name = IF Without(AllBrowserNames, T) = <<>> THEN "chrome" ELSE Without(AllBrowserNames, T)[1]
    PROVE  ProductNamed(name) \in Products
<1>1. AllBrowserNames \in Seq(Words)
  <2>1. DOMAIN AllBrowserNames = 1..Len(AllBrowserNames) /\ Len(AllBrowserNames) \in Nat
    BY DEF AllBrowserNames
  <2>2. AllBrowserNames = [i \in 1..Len(AllBrowserNames) |-> AllBrowserNames[i]]
    BY DEF AllBrowserNames
  <2>3. \A i \in 1..Len(AllBrowserNames) : AllBrowserNames[i] \in Words
    BY <2>1, WordsAre
  <2> QED BY <2>1, <2>2, <2>3
<1>2. PICK free : free = Without(AllBrowserNames, T)
  OBVIOUS
<1>3. free \in Seq(Words)
  BY <1>1, <1>2, WithoutKeeps
<1>4. free # <<>> => free[1] \in Words
  BY <1>3
<1>5. "chrome" \in Words
  <2>1. 1 \in DOMAIN DefaultBrowserNames /\ DefaultBrowserNames[1] = "chrome"
    BY DEF DefaultBrowserNames
  <2> QED BY <2>1, WordsAre
<1>6. name \in Words /\ <<>> \in Seq(Words)
  BY <1>2, <1>4, <1>5
<1> QED BY <1>6 DEF ProductNamed, Products

LEMMA SemanticLabelIs ==
    ASSUME NEW product \in Products, NEW kind, NEW label, label # "any" => label \in Words
    PROVE  WithSemanticLabel(product, kind, label) \in Products
<1>1. PICK labels : labels = product.labels
  OBVIOUS
<1>2. labels \in Seq(Words)
  BY <1>1, ProductIs
<1>3. PICK kept : kept = Without(labels, kind)
  OBVIOUS
<1>4. PICK added : added = IF label = "any" THEN <<>> ELSE <<label>>
  OBVIOUS
<1>5. added \in Seq(Words)
  BY <1>4, OneIs
<1>6. kept \in Seq(Words)
  BY <1>2, <1>3, WithoutKeeps
<1>7. kept \o added \in Seq(Words)
  BY <1>5, <1>6, ConcatKeeps
<1>8. WithSemanticLabel(product, kind, label) = [product EXCEPT !.labels = kept \o added]
  BY <1>1, <1>3, <1>4 DEF WithSemanticLabel
<1> QED BY <1>7, <1>8 DEF Products

-------------------------------------------------------------------------------
(* Steps *)

\* What a step has to keep.
Followed == AppInv /\ FormInv /\ FormIsObeyed

LEMMA EditKeepsFollowed ==
    ASSUME AppInv, FormInv, NEW ui \in Edits(form.ui), Edit(ui)
    PROVE  Followed'
BY EditKeepsForm DEF Edits, Followed

LEMMA FormUIIs ==
    ASSUME FormInv
    PROVE  form \in Components /\ form.ui \in UIs
BY ComponentIs DEF FormInv

LEMMA AddProductKeeps ==
    ASSUME AppInv, FormInv, handleAddProduct
    PROVE  Followed'
<1>1. PICK T : T = {form.ui.products[i].browser_name : i \in DOMAIN form.ui.products}
  OBVIOUS
<1>2. PICK name : name = IF Without(AllBrowserNames, T) = <<>> THEN "chrome" ELSE Without(AllBrowserNames, T)[1]
  OBVIOUS
<1>3. ProductNamed(name) \in Products
  BY <1>2, AddedIs
<1>4. PICK ui : ui = form.ui
  OBVIOUS
<1>5. ui \in UIs /\ ui.products \in Seq(Products)
  BY <1>4, FormUIIs, UIIs
<1>6. PICK products : products = Append(ui.products, ProductNamed(name))
  OBVIOUS
<1>7. products \in Seq(Products)
  BY <1>3, <1>5, <1>6, AppendKeeps
<1>8. [ui EXCEPT !.products = products] \in Edits(ui)
  BY <1>5, <1>7, EditsAre
<1>9. Edit([ui EXCEPT !.products = products])
  BY <1>1, <1>2, <1>4, <1>6 DEF handleAddProduct
<1> QED BY <1>4, <1>8, <1>9, EditKeepsFollowed

LEMMA RemovedIs ==
    ASSUME NEW S, NEW s \in Seq(S), NEW i \in DOMAIN s
    PROVE  RemoveAt(s, i) \in Seq(S)
<1>1. i \in 1..Len(s) /\ Len(s) \in Nat /\ \A k \in 1..Len(s) : s[k] \in S
  OBVIOUS
<1>2. SubSeq(s, 1, i - 1) \in Seq(S) /\ SubSeq(s, i + 1, Len(s)) \in Seq(S)
  BY <1>1
<1> QED BY <1>2, ConcatKeeps DEF RemoveAt

LEMMA DeleteProductKeeps ==
    ASSUME AppInv, FormInv, NEW i \in DOMAIN form.ui.products, handleDeleteProduct(i)
    PROVE  Followed'
<1>1. PICK ui : ui = form.ui
  OBVIOUS
<1>2. ui \in UIs /\ ui.products \in Seq(Products)
  BY <1>1, FormUIIs, UIIs
<1>3. PICK products : products = RemoveAt(ui.products, i)
  OBVIOUS
<1>4. products \in Seq(Products)
  BY <1>1, <1>2, <1>3, RemovedIs
<1>5. [ui EXCEPT !.products = products] \in Edits(ui)
  BY <1>2, <1>4, EditsAre
<1>6. Edit([ui EXCEPT !.products = products])
  BY <1>1, <1>3 DEF handleDeleteProduct
<1> QED BY <1>1, <1>5, <1>6, EditKeepsFollowed

LEMMA ChooseChannelKeeps ==
    ASSUME AppInv, FormInv, NEW i \in DOMAIN form.ui.products, NEW channel \in Channels \union {"any"},
           ChooseChannel(i, channel)
    PROVE  Followed'
<1>1. PICK ui : ui = form.ui
  OBVIOUS
<1>2. ui \in UIs /\ ui.products \in Seq(Products)
  BY <1>1, FormUIIs, UIIs
<1>3. PICK changed : changed = WithSemanticLabel(ui.products[i], Channels, channel)
  OBVIOUS
<1>4. ui.products[i] \in Products
  BY <1>1, <1>2
<1>5. changed \in Products
  BY <1>3, <1>4, WordsAre, SemanticLabelIs
<1>6. PICK products : products = [ui.products EXCEPT ![i] = changed]
  OBVIOUS
<1>7. products \in Seq(Products)
  BY <1>1, <1>2, <1>5, <1>6
<1>8. [ui EXCEPT !.products = products] \in Edits(ui)
  BY <1>2, <1>7, EditsAre
<1>9. Edit([ui EXCEPT !.products = products])
  BY <1>1, <1>3, <1>6 DEF ChooseChannel
<1> QED BY <1>1, <1>8, <1>9, EditKeepsFollowed

LEMMA TogglesKeep ==
    ASSUME AppInv, FormInv, ToggleAligned \/ ToggleMaster \/ ToggleDiff
    PROVE  Followed'
<1>1. PICK ui : ui = form.ui
  OBVIOUS
<1>2. ui \in UIs /\ ui.aligned \in BOOLEAN /\ ui.master \in BOOLEAN /\ ui.diff \in BOOLEAN
  BY <1>1, FormUIIs, UIIs
<1>3. CASE ToggleAligned
  <2>1. Edit([ui EXCEPT !.aligned = ~ ui.aligned])
    BY <1>1, <1>3 DEF ToggleAligned
  <2>2. [ui EXCEPT !.aligned = ~ ui.aligned] \in Edits(ui)
    BY <1>2, EditsAre
  <2> QED BY <1>1, <2>1, <2>2, EditKeepsFollowed
<1>4. CASE ToggleMaster
  <2>1. Edit([ui EXCEPT !.master = ~ ui.master])
    BY <1>1, <1>4 DEF ToggleMaster
  <2>2. [ui EXCEPT !.master = ~ ui.master] \in Edits(ui)
    BY <1>2, EditsAre
  <2> QED BY <1>1, <2>1, <2>2, EditKeepsFollowed
<1>5. CASE ToggleDiff
  <2>1. Edit([ui EXCEPT !.diff = ~ ui.diff])
    BY <1>1, <1>5 DEF ToggleDiff
  <2>2. [ui EXCEPT !.diff = ~ ui.diff] \in Edits(ui)
    BY <1>2, EditsAre
  <2> QED BY <1>1, <2>1, <2>2, EditKeepsFollowed
<1> QED BY <1>3, <1>4, <1>5

LEMMA TypedAre == (\A labels \in TypedLabels : labels \in Seq(Words)) /\ (\A shas \in TypedSHAs : shas \in Seq(Words))
<1>1. STRING \subseteq Words
  BY WordsAre
<1>2. \A s \in Seq(STRING) : s \in Seq(Words)
  BY <1>1, SeqGrows
<1> QED BY <1>2, TypedAssumption

LEMMA TypedKeeps ==
    ASSUME AppInv, FormInv,
           \/ \E labels \in TypedLabels : labelsStringUpdated(labels)
           \/ \E shas \in TypedSHAs : shaUpdated(shas)
    PROVE  Followed'
<1>1. PICK ui : ui = form.ui
  OBVIOUS
<1>2. ui \in UIs
  BY <1>1, FormUIIs
<1>3. CASE \E labels \in TypedLabels : labelsStringUpdated(labels)
  <2>1. PICK labels \in TypedLabels : labelsStringUpdated(labels)
    BY <1>3
  <2>2. [ui EXCEPT !.labels = labels] \in Edits(ui)
    BY <1>2, TypedAre, EditsAre
  <2> QED BY <1>1, <2>1, <2>2, EditKeepsFollowed DEF labelsStringUpdated
<1>4. CASE \E shas \in TypedSHAs : shaUpdated(shas)
  <2>1. PICK shas \in TypedSHAs : shaUpdated(shas)
    BY <1>4
  <2>2. PICK kept : kept = IF computeIsLatest(shas) THEN <<>> ELSE shas
    OBVIOUS
  <2>3. kept \in Seq(Words)
    BY <2>2, TypedAre, OneIs, WordsAre
  <2>4. [ui EXCEPT !.shas = kept] \in Edits(ui)
    BY <1>2, <2>3, EditsAre
  <2>5. Edit([ui EXCEPT !.shas = kept])
    BY <1>1, <2>1, <2>2 DEF shaUpdated
  <2> QED BY <1>1, <2>4, <2>5, EditKeepsFollowed
<1> QED BY <1>3, <1>4

LEMMA ClearAllKeeps ==
    ASSUME AppInv, FormInv, handleClearAll
    PROVE  Followed'
<1>1. form \in Components /\ Kept(form.ui, app.ui)
  BY DEF FormInv
<1>2. PICK ui : ui = [Cleared(form.ui) EXCEPT !.diff = FALSE]
  OBVIOUS
<1>3. ui \in UIs /\ Kept(ui, form.ui)
  BY <1>2, FormUIIs, ClearedIs DEF Edits
<1>4. PICK cleared : cleared = WithUI(form, ui)
  OBVIOUS
<1>5. cleared \in Components /\ Kept(cleared.ui, app.ui)
  BY <1>1, <1>3, <1>4, WithUIOf
<1>6. PICK empty : empty = [cleared.ui EXCEPT !.products = <<>>]
  OBVIOUS
<1>7. empty \in UIs /\ Kept(empty, cleared.ui)
  <2>1. <<>> \in Seq(Products)
    OBVIOUS
  <2> QED BY <1>5, <1>6, <2>1, ComponentIs, EditsAre DEF Edits
<1>8. form' = WithUI(cleared, empty) /\ edited' = TRUE /\ UNCHANGED <<app, pageUrl, resultsQuery, visited>>
  BY <1>2, <1>4, <1>6 DEF handleClearAll
<1>9. form' \in Components /\ Faithful(form') /\ Kept(form'.ui, app.ui)
  BY <1>5, <1>7, <1>8, WithUIOf
<1> QED BY <1>8, <1>9, EditedKeepsForm DEF Followed

\* What a step makes of wpt-app's form before it is submitted.
LEMMA TypedSourcesKeep ==
    ASSUME FormInv, NEW component, component = WithTypedSources(form)
    PROVE  component \in Components /\ Faithful(component) /\ Kept(component.ui, app.ui)
<1>1. form \in Components /\ Faithful(form) /\ Kept(form.ui, app.ui) /\ form.ui \in UIs
  BY FormUIIs DEF FormInv
<1>2. PICK ui : ui = form.ui
  OBVIOUS
<1>3. PICK labels : labels = ui.labels
  OBVIOUS
<1>4. PICK typed : typed = Within(labels, Sources)
  OBVIOUS
<1>5. ui \in UIs /\ labels \in Seq(Words) /\ ui.products \in Seq(Products)
  BY <1>1, <1>2, <1>3, UIIs
<1>6. typed \in Seq(Words)
  BY <1>4, <1>5, WithinHas
<1>7. CASE typed = <<>>
  <2>1. component = form
    BY <1>2, <1>3, <1>4, <1>7 DEF WithTypedSources
  <2> QED BY <1>1, <2>1
<1>8. CASE typed # <<>>
  <2>1. PICK source : source = Last(typed)
    OBVIOUS
  <2>2. source \in Words
    BY <1>6, <1>8, <2>1 DEF Last
  <2>3. PICK products : products = [i \in DOMAIN ui.products |-> WithSemanticLabel(ui.products[i], Sources, source)]
    OBVIOUS
  <2>4. \A i \in DOMAIN ui.products : ui.products[i] \in Products
    BY <1>5
  <2>5. \A i \in DOMAIN ui.products : WithSemanticLabel(ui.products[i], Sources, source) \in Products
    BY <2>2, <2>4, SemanticLabelIs
  <2>6. products \in Seq(Products)
    BY <1>5, <2>3, <2>5
  <2>7. PICK others : others = Without(labels, Sources)
    OBVIOUS
  <2>8. others \in Seq(Words)
    BY <1>5, <2>7, WithoutKeeps
  <2>9. PICK moved : moved = [ui EXCEPT !.labels = others, !.products = products]
    OBVIOUS
  <2>10. moved \in Edits(ui)
    BY <1>5, <2>6, <2>8, <2>9, EditsAre
  <2>11. component = WithUI(form, moved)
    BY <1>2, <1>3, <1>4, <1>8, <2>1, <2>3, <2>7, <2>9 DEF WithTypedSources
  <2> QED BY <1>1, <1>2, <2>10, <2>11, WithUIOf DEF Edits
<1> QED BY <1>7, <1>8

LEMMA ParamsAreQuery ==
    ASSUME NEW ui \in UIs
    PROVE  ParamsOf(ui) \in Queries /\ ParamsOf(ui).others = ui.others
<1>1. ParamsOf(ui) \in QueryRecords /\ ParamsOf(ui).others = ui.others
  BY ParamsKeep, ParamsAre
<1> QED BY <1>1, UIIs DEF Queries

LEMMA SubmitKeeps ==
    ASSUME AppInv, NEW builder \in Components, Faithful(builder), Submit(builder)
    PROVE  Followed'
<1>1. app.ui \in UIs /\ builder.ui \in UIs
  BY ComponentIs DEF AppInv
<1>2. PICK params : params = ParamsOf(builder.ui)
  OBVIOUS
<1>3. params \in Queries /\ params.others = builder.ui.others
  BY <1>1, <1>2, ParamsAreQuery
<1>4. PICK ui : ui = updateQueryParams(app.ui, params)
  OBVIOUS
<1>5. ui \in UIs /\ Returns(ui)
  BY <1>1, <1>3, <1>4, UpdateKeeps, UpdateReads
<1>6. Kept(builder.ui, ui)
  <2>1. ui.others = OthersOf(app.ui, params)
    BY <1>4, UpdatedIs
  <2>2. \A k \in StickyParams : k \in OtherParams
    BY DEF StickyParams, OtherParams
  <2>3. \A k \in StickyParams : ui.others[k] =
           IF params.others[k] = "" THEN app.ui.others[k]
           ELSE IF params.others[k] = "blank" THEN "" ELSE params.others[k]
    BY <2>1, <2>2 DEF OthersOf
  <2>4. \A k \in StickyParams : params.others[k] = builder.ui.others[k] /\ builder.ui.others[k] # "blank"
    BY <1>1, <1>3, <2>2, UIIs
  <2> QED BY <2>3, <2>4 DEF Kept
<1>7. Show(builder, ui)
  BY <1>2, <1>4 DEF Submit
<1> QED BY <1>5, <1>6, <1>7, ShowKeepsForm DEF Followed

LEMMA SubmitsKeep ==
    ASSUME AppInv, FormInv, handleSubmit \/ handleAddMasterLabel
    PROVE  Followed'
<1>1. CASE handleSubmit
  <2>1. PICK builder : builder = WithTypedSources(form)
    OBVIOUS
  <2>2. Submit(builder)
    BY <1>1, <2>1 DEF handleSubmit
  <2> QED BY <2>1, <2>2, TypedSourcesKeep, SubmitKeeps
<1>2. CASE handleAddMasterLabel
  <2>1. PICK ui : ui = [form.ui EXCEPT !.master = TRUE]
    OBVIOUS
  <2>2. ui \in UIs
    BY <2>1, FormUIIs, EditsAre DEF Edits
  <2>3. PICK builder : builder = WithUI(form, ui)
    OBVIOUS
  <2>4. builder \in Components /\ Faithful(builder)
    BY <2>2, <2>3, WithUIIs, WithUIFaithful DEF FormInv
  <2>5. Submit(builder)
    BY <1>2, <2>1, <2>3 DEF handleAddMasterLabel
  <2> QED BY <2>4, <2>5, SubmitKeeps
<1> QED BY <1>1, <1>2

LEMMA SearchKeeps ==
    ASSUME AppInv, FormInv, NEW text \in SearchTexts, CommitSearch(text)
    PROVE  Followed'
<1>1. app.ui \in UIs /\ Returns(app.ui)
  BY ComponentIs DEF AppInv
<1>2. form \in Components /\ Faithful(form) /\ Kept(form.ui, app.ui)
  BY DEF FormInv
<1>3. PICK searched : searched = [app.ui EXCEPT !.others.q = text]
  OBVIOUS
<1>4. searched \in UIs /\ Kept(app.ui, searched) /\ Same(ParamsOf(searched), ParamsOf(app.ui))
  BY <1>1, <1>3, SearchedIs
<1>5. Kept(form.ui, searched)
  BY <1>2, <1>4, KeptIs
<1>6. Returns(searched)
  <2>1. PICK P : P = ParamsOf(searched)
    OBVIOUS
  <2>2. PICK Q : Q = ParamsOf(app.ui)
    OBVIOUS
  <2>3. P \in Queries /\ Same(P, Q)
    BY <1>4, <2>1, <2>2, ParamsAreQuery
  <2>4. Same(ParamsOf(FreshUI(P)), ParamsOf(FreshUI(Q)))
    BY <2>3, QueryIs, UpdatesAgree DEF FreshUI
  <2>5. Same(ParamsOf(FreshUI(Q)), Q)
    BY <1>1, <2>2 DEF Returns
  <2>6. Same(ParamsOf(FreshUI(P)), P)
    BY <2>3, <2>4, <2>5, SameIs
  <2> QED BY <2>1, <2>6 DEF Returns
<1>7. Show(form, searched)
  BY <1>3 DEF CommitSearch
<1> QED BY <1>2, <1>4, <1>5, <1>6, <1>7, ShowKeepsForm DEF Followed

LEMMA FollowLinkKeeps ==
    ASSUME AppInv, FormInv, NEW query \in OpenedUrls, FollowLink(query)
    PROVE  Followed'
<1>1. query \in Queries /\ pageUrl \in Queries /\ visited \in Seq(Queries)
  BY UrlsAre DEF AppInv
<1>2. Locate(query) /\ visited' = Append(visited, pageUrl)
  BY DEF FollowLink
<1>3. visited' \in Seq(Queries)
  BY <1>1, <1>2, AppendKeeps
<1> QED BY <1>1, <1>2, <1>3, LocateKeepsForm DEF Followed

LEMMA LastFront ==
    ASSUME NEW S, NEW s \in Seq(S), s # <<>>
    PROVE  Last(s) \in S /\ Front(s) \in Seq(S)
<1>1. Last(s) \in S
  BY DEF Last
<1>2. Front(s) \in Seq(S)
  BY DEF Front
<1> QED BY <1>1, <1>2

LEMMA HistoryBackKeeps ==
    ASSUME AppInv, FormInv, HistoryBack
    PROVE  Followed'
<1>1. visited \in Seq(Queries) /\ visited # <<>>
  BY DEF AppInv, HistoryBack
<1>2. Locate(Last(visited)) /\ visited' = Front(visited)
  BY DEF HistoryBack
<1>3. PICK query : query = Last(visited)
  OBVIOUS
<1>4. query \in Queries /\ visited' \in Seq(Queries)
  BY <1>1, <1>2, <1>3, LastFront
<1> QED BY <1>2, <1>3, <1>4, LocateKeepsForm DEF Followed

LEMMA UnchangedKeeps ==
    ASSUME Followed, UNCHANGED queryVars
    PROVE  Followed'
<1>1. UNCHANGED <<app, form, pageUrl, resultsQuery, visited, edited>>
  BY DEF queryVars
<1>2. AppInv'
  BY <1>1 DEF AppInv, QueryIsSound, Followed
<1>3. FormInv'
  BY <1>1 DEF FormInv, Followed
<1>4. FormIsObeyed'
  BY <1>1 DEF FormIsObeyed, QueryIsSound, Followed
<1> QED BY <1>2, <1>3, <1>4 DEF Followed

LEMMA FollowedNext ==
    ASSUME Followed, [QueryNext]_queryVars
    PROVE  Followed'
<1> USE DEF Followed
<1>1. ASSUME NEW query \in OpenedUrls, FollowLink(query) PROVE Followed'
  BY <1>1, FollowLinkKeeps
<1>2. CASE HistoryBack
  BY <1>2, HistoryBackKeeps
<1>3. ASSUME NEW text \in SearchTexts, CommitSearch(text) PROVE Followed'
  BY <1>3, SearchKeeps
<1>4. CASE handleAddProduct
  BY <1>4, AddProductKeeps
<1>5. ASSUME NEW i \in DOMAIN form.ui.products, handleDeleteProduct(i) PROVE Followed'
  BY <1>5, DeleteProductKeeps
<1>6. ASSUME NEW i \in DOMAIN form.ui.products, NEW channel \in Channels \union {"any"}, ChooseChannel(i, channel)
      PROVE  Followed'
  BY <1>6, ChooseChannelKeeps
<1>7. CASE ToggleAligned \/ ToggleMaster \/ ToggleDiff
  BY <1>7, TogglesKeep
<1>8. ASSUME NEW labels \in TypedLabels, labelsStringUpdated(labels) PROVE Followed'
  BY <1>8, TypedKeeps
<1>9. ASSUME NEW shas \in TypedSHAs, shaUpdated(shas) PROVE Followed'
  BY <1>9, TypedKeeps
<1>10. CASE handleClearAll
  BY <1>10, ClearAllKeeps
<1>11. CASE handleSubmit \/ handleAddMasterLabel
  BY <1>11, SubmitsKeep
<1>12. CASE UNCHANGED queryVars
  BY <1>12, UnchangedKeeps
<1> QED BY <1>1, <1>2, <1>3, <1>4, <1>5, <1>6, <1>7, <1>8, <1>9, <1>10, <1>11, <1>12 DEF QueryNext

LEMMA FollowedInit ==
    ASSUME QueryInit PROVE Followed
<1>1. /\ pageUrl \in Queries
      /\ app = [ui |-> FreshUI(pageUrl), query |-> pageUrl]
      /\ visited = <<>>
  BY UrlsAre DEF QueryInit
<1>2. /\ FreshUI(pageUrl) \in UIs
      /\ Reads(FreshUI(pageUrl), pageUrl) /\ Returns(FreshUI(pageUrl))
  BY <1>1, InitialIs, UpdateKeeps, UpdateReads DEF FreshUI
<1>3. app.ui = FreshUI(pageUrl) /\ app.query = pageUrl /\ app \in Components
  BY <1>1, <1>2 DEF Components
<1>4. visited \in Seq(Queries)
  BY <1>1
<1>5. AppInv
  BY <1>1, <1>2, <1>3, <1>4 DEF AppInv
<1>6. PICK builder : builder = [ui |-> InitialUI, query |-> NoQuery]
  OBVIOUS
<1>7. builder.ui = InitialUI /\ builder.query = NoQuery
  BY <1>6
<1>8. builder \in Components /\ Faithful(builder)
  BY <1>6, <1>7, InitialIs, NoQueryIs DEF Components, Faithful
<1>9. Kept(builder.ui, app.ui)
  <2>1. \A k \in OtherParams : InitialUI.others[k] = ""
    BY DEF InitialUI
  <2>2. \A k \in StickyParams : k \in OtherParams
    BY DEF StickyParams, OtherParams
  <2> QED BY <1>7, <2>1, <2>2 DEF Kept
<1>10. form = Bound(builder, app.ui)
  BY <1>6 DEF QueryInit
<1>11. FormInv
  BY <1>2, <1>3, <1>8, <1>9, <1>10, BoundIs DEF FormInv
<1>12. ASSUME QueryIsSound, ParamsOf(app.ui) # NoQuery, app.query.others["q"] # "true"
       PROVE  ParamsOf(form.ui) = ParamsOf(app.ui)
  <2>1. "q" \in OtherParams /\ "q" \notin StickyParams
    BY DEF OtherParams, StickyParams
  <2>2. app.ui.others["q"] # "true"
    BY <1>2, <1>3, <1>12, <2>1 DEF Reads
  <2> QED BY <1>2, <1>3, <1>8, <1>9, <1>10, <1>12, <2>2, BoundShows
<1>13. FormIsObeyed
  BY <1>12 DEF FormIsObeyed
<1> QED BY <1>5, <1>11, <1>13 DEF Followed

LEMMA FollowedObeys ==
    ASSUME Followed, OneQuery PROVE QueryIsObeyed
<1>1. SUFFICES ASSUME QueryIsSound PROVE QueryIsObeyed
  BY DEF QueryIsObeyed
<1>2. pageUrl = app.query /\ resultsQuery = app.query
  BY <1>1 DEF QueryIsSound, OneQuery
<1>3. Reads(app.ui, app.query) /\ app.query \in Queries /\ app.ui \in UIs
  BY <1>1, ComponentIs DEF Followed, AppInv
<1>4. PICK query : query = app.query
  OBVIOUS
<1>5. PICK shown : shown = ParamsOf(app.ui)
  OBVIOUS
<1>6. PICK fresh : fresh = ParamsOf(FreshUI(query))
  OBVIOUS
<1>7. Same(shown, fresh)
  BY <1>3, <1>4, <1>5, <1>6 DEF Reads
<1>8. DOMAIN shown = {"sha", "label", "product", "aligned", "diff", "filter", "others"}
  BY <1>5 DEF ParamsOf
<1>9. ASSUME NEW k \in DOMAIN shown, k # "others" PROVE shown[k] = fresh[k]
  BY <1>7, <1>8, <1>9 DEF Same
<1>10. shown.others = app.ui.others /\ fresh.others = OthersOf(InitialUI, query)
  BY <1>5, <1>6, ParamsAre, UpdatedIs DEF FreshUI
<1>11. ASSUME NEW o \in OtherParams
       PROVE  shown.others[o] = fresh.others[o] \/ (o \in StickyParams /\ fresh.others[o] = "")
  <2>1. InitialUI.others[o] = ""
    BY DEF InitialUI
  <2>2. fresh.others[o] = IF query.others[o] = "blank" THEN "" ELSE query.others[o]
    BY <1>10, <2>1 DEF OthersOf
  <2>3. \/ app.ui.others[o] = IF query.others[o] = "blank" THEN "" ELSE query.others[o]
        \/ o \in StickyParams /\ query.others[o] = ""
    BY <1>3, <1>4 DEF Reads
  <2> QED BY <1>10, <2>2, <2>3
<1>12. \A k \in DOMAIN shown :
          IF k # "others" THEN shown[k] = fresh[k]
          ELSE \A o \in OtherParams :
                  \/ shown.others[o] = fresh.others[o]
                  \/ o \in StickyParams /\ fresh.others[o] = ""
  BY <1>9, <1>11
<1> QED BY <1>2, <1>4, <1>5, <1>6, <1>12 DEF QueryIsObeyed

-------------------------------------------------------------------------------
(* Theorems *)

LEMMA QueryInductive == QuerySpec => [](OneQuery /\ AppShape /\ Followed)
<1>1. QueryInit => OneQuery /\ AppShape /\ Followed
  BY QueryInitKeeps, FollowedInit
<1>2. OneQuery /\ AppShape /\ Followed /\ [QueryNext]_queryVars => OneQuery' /\ AppShape' /\ Followed'
  BY QueryNextKeeps, FollowedNext
<1> QED BY <1>1, <1>2, PTL DEF QuerySpec

\* wpt-app's queryChanged, _getBatchUpdate and computeTestRunUIQueryParams: whatever was
\* followed, searched, edited, submitted and gone back from before, the runs that the page
\* shows are those that its URL would show in a new tab; only a period, an offset, a view
\* and a list of runs outlive a query that does not name them.
THEOREM QueriesAreObeyed == QuerySpec => []QueryIsObeyed
<1>1. OneQuery /\ AppShape /\ Followed => QueryIsObeyed
  BY FollowedObeys
<1> QED BY <1>1, QueryInductive, PTL

\* The form's query-params, bound to wpt-app's: a form that is not being edited shows the
\* query of the results, in every parameter, so that handleSubmitQuery of an untouched form
\* changes nothing; except when the page shows the default runs or was searched for "true".
THEOREM FormsAreObeyed == QuerySpec => []FormIsObeyed
<1>1. OneQuery /\ AppShape /\ Followed => FormIsObeyed
  BY DEF Followed
<1> QED BY <1>1, QueryInductive, PTL

===============================================================================
