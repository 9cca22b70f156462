------------------------------ MODULE SearchQuery -------------------------------
(* The search box (test-search): what is typed becomes a query after a pause or   *)
(* with Enter, is parsed by a grammar, evaluated to a structured query, and bound *)
(* by the server to the runs of a row of results (api/query).                     *)
EXTENDS Integers, FiniteSets, SequencesExt

CONSTANTS
    SearchRuns,         \* the products of the runs searched, a sequence
    Fragments,          \* search atoms that may be typed, made by StatusExp and FactExp
    MaxSize             \* bound on what is typed: a fragment counts 1, another term 2

VARIABLES searchBox     \* queryInput, query, structuredQuery and whether the timer is set

\* A node of what is typed, and of a structured query.
Node(op, args) == [op |-> op, args |-> args, product |-> "", status |-> "", number |-> 0]

-------------------------------------------------------------------------------
(* The grammar.  A text is a list of terms; "(" Exp ")" leaves no trace in it.    *)

\* product "" stands for the word status; "missing" is what the page calls unknown.
StatusExp(product, eq, status) ==
    [Node(IF eq THEN "eq" ELSE "neq", <<>>) EXCEPT !.product = product, !.status = status]

\* A path, a pattern, a label...: what is true of a test whatever its results are.
FactExp(fact) == [Node("fact", <<>>) EXCEPT !.status = fact]

Pairs(nodes) == {p \in nodes \X nodes : p[1] # p[2]}

Exps ==
    Fragments
        \union {Node("not", <<f>>) : f \in Fragments}
        \union {Node(op, p) : op \in {"and", "or"}, p \in Pairs(Fragments)}

SingleFragments == {Node("implicit", <<f>>) : f \in Fragments}

Count(sign, n, e) == [Node(sign, <<e>>) EXCEPT !.number = n]

Qs ==
    LET lists == {<<>>} \union {<<e>> : e \in Exps} \union Pairs(Fragments)
    IN  {Node("implicit", <<e>>) : e \in Exps}
            \union {Node(op, l) : op \in {"all", "none", "seq"}, l \in lists}
            \union {Node("exists", l) : l \in lists \ {<<>>}}
            \union {Count(sign, n, e) : sign \in {"=", ">", ">=", "<", "<="}, n \in 0..2, e \in Fragments}

\* Terms of a text: queries, their negations and conjunctions, and texts in parentheses.
OrQs ==
    LET simple == SingleFragments \union {Node(op, <<f>>) : op \in {"all", "exists"}, f \in Fragments}
    IN  Qs \union {Node("Not", <<q>>) : q \in {r \in Qs : r.op # "implicit"}}
           \union {Node(op, p) : op \in {"And", "Or", "Paren"}, p \in Pairs(simple)}

SizeOf(text) == Len(text) + Len(SelectSeq(text, LAMBDA q : q \notin SingleFragments))

-------------------------------------------------------------------------------
(* QUERY_SEMANTICS *)

emptyQuery == Node("exists", <<FactExp("")>>)

OrEmpty(q) == IF q.args = <<>> THEN emptyQuery ELSE q

\* andConjunction and orConjunction
Conjunction(op, args) == IF Len(args) = 1 THEN args[1] ELSE Node(op, args)

RECURSIVE IsImplicitExists(_)
IsImplicitExists(q) ==
    \/ q.op = "exists" /\ Len(q.args) = 1
    \/ q.op \in {"and", "or"} /\ \A i \in DOMAIN q.args : IsImplicitExists(q.args[i])

RECURSIVE Unwrap(_)
Unwrap(q) ==
    IF q.op = "exists" THEN q.args[1]
    ELSE [q EXCEPT !.args = [i \in DOMAIN q.args |-> Unwrap(q.args[i])]]

\* Separate implicit exists at the root are collapsed into one.
RootOf(queries) ==
    CASE queries = <<>> -> emptyQuery
      [] queries # <<>> /\ \A i \in DOMAIN queries : IsImplicitExists(queries[i]) ->
            Node("exists", [i \in DOMAIN queries |-> Unwrap(queries[i])])
      [] OTHER -> Conjunction("and", queries)

StatusOf(fragment) == IF fragment.status = "missing" THEN "unknown" ELSE fragment.status


\* CountSpecifier: "one", "two" and "three" are "=".
CountSpecifier(sign, n) ==
    CASE sign = ">=" -> [op |-> "moreThan", number |-> n - 1]
      [] sign = ">" -> [op |-> "moreThan", number |-> n]
      [] sign = "<=" -> [op |-> "lessThan", number |-> n + 1]
      [] sign = "<" -> [op |-> "lessThan", number |-> n]
      [] OTHER -> [op |-> "count", number |-> n]

RECURSIVE Eval(_)
Eval(node) ==
    LET args == [i \in DOMAIN node.args |-> Eval(node.args[i])]
    IN  CASE node.op \in {"eq", "neq"} -> [node EXCEPT !.status = StatusOf(node)]
          [] node.op = "fact" -> node
          [] node.op \in {"not", "Not"} -> Node("not", args)
          [] node.op \in {"and", "And"} -> Conjunction("and", args)
          [] node.op \in {"or", "Or"} -> Conjunction("or", args)
          [] node.op \in {"implicit", "exists"} -> Node("exists", args)
          [] node.op \in {"all", "none", "seq"} -> OrEmpty(Node(node.op, args))
          [] node.op = "Paren" -> RootOf(args)
          [] OTHER -> LET c == CountSpecifier(node.op, node.number)
                      IN  [Node(c.op, args) EXCEPT !.number = c.number]

parseAndInterpretQuery(text) == RootOf([i \in DOMAIN text |-> Eval(text[i])])

-------------------------------------------------------------------------------
(* BindToRuns, and the filter of what is bound.  A row has the runs' statuses and *)
(* the facts of its test; runs are indices of SearchRuns.                         *)

\* exists with one argument is that argument, bound to all runs at once.
RECURSIVE Holds(_, _, _)
Holds(q, runs, row) ==
    LET Arg(i) == Holds(q.args[i], runs, row)
        By(i, run) == Holds(q.args[i], <<run>>, row)
        matching == {r \in ToSet(runs) : q.product \in {"", SearchRuns[r]}}
        exists == IF Len(q.args) = 1 THEN Arg(1)
                  ELSE \A i \in DOMAIN q.args : \E r \in ToSet(runs) : By(i, r)
        satisfied == Cardinality({r \in ToSet(runs) : By(1, r)})
    IN  CASE q.op = "eq" -> \E r \in matching : row.results[r] = q.status
          [] q.op = "neq" -> \E r \in matching : row.results[r] # q.status
          [] q.op = "fact" -> q.status \in row.facts
          [] q.op = "not" -> ~ Arg(1)
          [] q.op = "and" -> \A i \in DOMAIN q.args : Arg(i)
          [] q.op = "or" -> \E i \in DOMAIN q.args : Arg(i)
          [] q.op = "exists" -> exists
          [] q.op = "none" -> ~ exists
          [] q.op = "all" -> \A i \in DOMAIN q.args : \A r \in ToSet(runs) : By(i, r)
          [] q.op = "seq" -> \E k \in 0..(Len(runs) - Len(q.args)) :
                                \A i \in DOMAIN q.args : By(i, runs[k + i])
          [] q.op = "moreThan" -> satisfied > q.number
          [] q.op = "lessThan" -> satisfied < q.number
          [] OTHER -> satisfied = q.number

\* The rows of the index: tests that some run has.
Rows == [results : {f \in [DOMAIN SearchRuns -> {"pass", "fail", "unknown"}] :
                       \E r \in DOMAIN f : f[r] # "unknown"},
         facts : {{"", "a"}, {""}}]

Finds(text, row) == Holds(parseAndInterpretQuery(text), [r \in DOMAIN SearchRuns |-> r], row)

-------------------------------------------------------------------------------
(* The box *)

Text(terms, broken) == [terms |-> terms, broken |-> broken]
NoText == Text(<<>>, FALSE)

SearchInit == searchBox = [queryInput |-> NoText, query |-> NoText, structuredQuery |-> <<>>, timer |-> FALSE]

\* queryInputChanged sets the timer anew.
TypeText(text) ==
    /\ text # searchBox.queryInput
    /\ searchBox' = [searchBox EXCEPT !.queryInput = text, !.timer = TRUE]

TypeTerm(q) ==
    TypeText(Text(Append(searchBox.queryInput.terms, q), FALSE))

\* Something that does not parse, like a parenthesis that is not closed.
TypeGarbage == TypeText([searchBox.queryInput EXCEPT !.broken = TRUE])

\* queryUpdated: a query that does not parse leaves the structured query as it is.
queryUpdated(box, query) ==
    [box EXCEPT !.query = query, !.queryInput = query,
                !.structuredQuery = CASE query = NoText -> <<>>
                                      [] query.broken -> @
                                      [] OTHER -> <<parseAndInterpretQuery(query.terms)>>]

\* latchQuery
latchQuery ==
    /\ searchBox.timer
    /\ searchBox' = [queryUpdated(searchBox, searchBox.queryInput) EXCEPT !.timer = FALSE]

\* handleKeyUp and commitQuery: Enter does not wait for the timer, nor stop it.
commitQuery ==
    searchBox' = queryUpdated(searchBox, searchBox.queryInput)

clear ==
    /\ searchBox.query # NoText
    /\ searchBox' = [queryUpdated(searchBox, NoText) EXCEPT !.timer = TRUE]

SearchNext ==
    \/ LET left == MaxSize - SizeOf(searchBox.queryInput.terms)
       IN  \E q \in CASE left > 1 -> OrQs [] left = 1 -> SingleFragments [] OTHER -> {} : TypeTerm(q)
    \/ TypeGarbage
    \/ latchQuery
    \/ commitQuery
    \/ clear

-------------------------------------------------------------------------------
(* Properties *)

\* What an expression says of one run.
RECURSIVE Sat(_, _, _)
Sat(e, r, row) ==
    CASE e.op \in {"implicit", "exists"} -> Sat(e.args[1], r, row)
      [] e.op = "eq" -> e.product \in {"", SearchRuns[r]} /\ row.results[r] = StatusOf(e)
      [] e.op = "neq" -> e.product \in {"", SearchRuns[r]} /\ row.results[r] # StatusOf(e)
      [] e.op = "fact" -> e.status \in row.facts
      [] e.op = "not" -> ~ Sat(e.args[1], r, row)
      [] e.op \in {"and", "And"} -> \A i \in DOMAIN e.args : Sat(e.args[i], r, row)
      [] e.op \in {"or", "Or"} -> \E i \in DOMAIN e.args : Sat(e.args[i], r, row)

\* A term that is an expression: implicit queries and what joins them.
RECURSIVE Implicit(_)
Implicit(t) ==
    \/ t.op \in {"implicit", "exists"} /\ Len(t.args) = 1
    \/ t.op \in {"all", "none", "seq"} /\ t.args = <<>>
    \/ t.op \in {"And", "Or"} /\ \A i \in DOMAIN t.args : Implicit(t.args[i])

\* What a term says of a row, as api/query/README.md has it.  Of "none" with several arguments it
\* says two things: "a simplification for not exists" (227-228), where each argument may have a
\* run of its own, and that the arguments "must not all apply to any single run" (49).  Here it
\* means the former, as in atoms.go:186; the latter, which finds more rows, does not hold.
RECURSIVE Means(_, _)
Means(t, row) ==
    LET args == t.args
        runs == DOMAIN SearchRuns
        some == \A i \in DOMAIN args : \E r \in runs : Sat(args[i], r, row)
        satisfied == {r \in runs : Sat(args[1], r, row)}
        n == Cardinality(satisfied)
    IN  CASE t.op \in {"implicit", "exists"} -> some
          [] t.op \in {"all", "none", "seq"} /\ args = <<>> -> TRUE
          [] t.op = "none" -> ~ some
          [] t.op = "all" -> \A i \in DOMAIN args, r \in runs : Sat(args[i], r, row)
          [] t.op = "seq" -> \E r \in runs : \A i \in DOMAIN args :
                                r + i - 1 \in runs /\ Sat(args[i], r + i - 1, row)
          [] t.op = "Not" -> ~ Means(args[1], row)
          [] t.op \in {"And", "Paren"} -> \A i \in DOMAIN args : Means(args[i], row)
          [] t.op = "Or" -> \E i \in DOMAIN args : Means(args[i], row)
          [] t.op = ">=" -> n >= t.number
          [] t.op = "<=" -> n <= t.number
          [] t.op = ">" -> n > t.number
          [] t.op = "<" -> n < t.number
          [] t.op = "=" -> n = t.number

RECURSIVE HasOp(_, _)
HasOp(q, ops) == q.op \in ops \/ \E i \in DOMAIN q.args : HasOp(q.args[i], ops)

\* A conjunction or negation is bound to all runs at once that should be about one run.
RECURSIVE Lone(_)
Lone(q) ==
    \/ q.op \in {"exists", "none"} /\ Len(q.args) = 1 /\ HasOp(q.args[1], {"and", "not"})
    \/ \E i \in DOMAIN q.args : Lone(q.args[i])


===============================================================================
