-------------------------------- MODULE Filters --------------------------------
(* Filter expressions (types/filter.rs) and the WHERE clauses that list_memories,           *)
(* vector_search and fts_search build around them: conditions whose parameters are named     *)
(* by a running number, the list of their values, and the three-valued logic in which        *)
(* SQLite evaluates them.  A value is a number, and 0 is NULL.                                *)
(* A filter is the sequence of its conditions and of what joins them, in the order in which   *)
(* to_sql is done with them: what is joined stands before the join, and the whole comes last. *)
EXTENDS Naturals, Sequences, FiniteSets

CONSTANTS
    MemoryRows,    \* the memories: functions from column to value, and to a set of values for categories
    Expressions,   \* the filters of the calls
    CallScopes         \* agent_id, run_id, app_id of a call, each a value or 0

VARIABLES
    request,    \* the call
    clause,     \* its conditions so far, the numbers in their text, the last number and the values
    step,       \* what is built next
    answer      \* the rows returned, or {0} for an error

filterVars == <<request, clause, step, answer>>

\* One condition on a column, with the list of its values; what is joined is a set of places.
Is(field, op, values) == [kind |-> "is", field |-> field, op |-> op, values |-> values]
And(places) == [kind |-> "and", of |-> places]
Or(places) == [kind |-> "or", of |-> places]
Always == <<And({})>>

PlainColumns == {"user_id", "agent_id", "run_id", "app_id", "importance", "created_at", "content", "categories"}
PathNames == {"colour"}

Owner == 7     \* user_id of the call
Words == 8     \* its query

\* A list of categories is searched, and not compared with a value.
IsCondition(c) ==
    /\ c.kind = "is" /\ c = Is(c.field, c.op, c.values) /\ c.values \in Seq(Nat)
    /\ c.op \in {"eq", "ne", "gt", "gte", "lt", "lte", "contains", "icontains", "in"}
    /\ c.op # "in" => Len(c.values) = 1
    /\ c.field = "categories" => c.op \in {"contains", "icontains"}
IsFilter(expr) ==
    /\ Len(expr) \in Nat \ {0} /\ expr = [n \in 1..Len(expr) |-> expr[n]]
    /\ \A n \in DOMAIN expr :
          IsCondition(expr[n]) \/ \E places \in SUBSET (1..(n - 1)) : expr[n] \in {And(places), Or(places)}

ASSUME FilterAssumption ==
    /\ \A i \in DOMAIN MemoryRows :
          /\ \A column \in (PlainColumns \cup PathNames \cup {"words"}) \ {"categories"} : MemoryRows[i][column] \in Nat
          /\ MemoryRows[i].categories \subseteq Nat \ {0}
    /\ \A expr \in Expressions : IsFilter(expr)
    /\ CallScopes \subseteq [agent : Nat, run : Nat, app : Nat]

FilterInit ==
    /\ request \in [query : {"list", "scan", "words"}, scope : CallScopes, filter : Expressions,
                    importance : {0, 2}, since : {0, 3}]
    \* Only list_memories takes the last two, and fts_search takes no filter.
    /\ request.query # "list" => request.importance = 0 /\ request.since = 0
    /\ request.query = "words" => request.filter = Always
    /\ clause = [conditions |-> <<>>, names |-> <<>>, last |-> 0, params |-> <<>>]
    /\ step = "owner" /\ answer = {}

--------------------------------------------------------------------------------
(* to_sql *)

\* Letters in either case: 2 is the capital of 1.
Fold(v) == IF v = 2 THEN 1 ELSE v

\* What is no column is a path into the metadata, and NULL if its name is not a plain one.
sanitize_field_name(field) == IF field \in PlainColumns \cup PathNames THEN field ELSE "NULL"

\* A condition takes one number for each of its values.
condition_to_sql(c, offset) ==
    [kind |-> "is", field |-> sanitize_field_name(c.field), op |-> c.op,
     params |-> [i \in DOMAIN c.values |-> offset + i]]

\* The text of a filter, with the numbers in it, and the values, one part after the other
to_sql(expr, offset) ==
    LET so[n \in 0..Len(expr)] ==
            IF n = 0 THEN [sql |-> <<>>, names |-> <<>>, offset |-> offset, params |-> <<>>]
            ELSE IF expr[n].kind = "is"
            THEN LET sql == condition_to_sql(expr[n], so[n - 1].offset)
                 IN [sql |-> Append(so[n - 1].sql, sql), names |-> so[n - 1].names \o sql.params,
                     offset |-> so[n - 1].offset + Len(expr[n].values), params |-> so[n - 1].params \o expr[n].values]
            ELSE [so[n - 1] EXCEPT !.sql = Append(@, expr[n])]
    IN  so[Len(expr)]

--------------------------------------------------------------------------------
(* SQLite *)

\* $n is a name: the values belong to the names in the order in which these first occur.
FirstPlace(names, n) == CHOOSE i \in DOMAIN names : names[i] = n /\ \A j \in DOMAIN names : names[j] = n => i <= j
Bound(names, params, n) == params[Cardinality({names[j] : j \in 1..FirstPlace(names, n)})]

Unknown == "unknown"
Truth(b) == IF b THEN "true" ELSE "false"
ConjunctionOf(truths) == IF "false" \in truths THEN "false" ELSE IF Unknown \in truths THEN Unknown ELSE "true"
DisjunctionOf(truths) == IF "true" \in truths THEN "true" ELSE IF Unknown \in truths THEN Unknown ELSE "false"

Compares(op, v, p) ==
    IF v = 0 \/ p = 0 THEN Unknown
    ELSE Truth(CASE op = "eq" -> v = p [] op = "ne" -> v # p [] op = "gt" -> v > p [] op = "gte" -> v >= p
                 [] op = "lt" -> v < p [] op = "lte" -> v <= p
                 [] op \in {"contains", "icontains"} -> Fold(v) = Fold(p))   \* LIKE

ConditionTruth(row, sql, values) ==
    CASE sql.field = "categories" /\ sql.op = "contains" -> Truth(\E x \in row.categories : x = values[1])
      [] sql.field = "categories" /\ sql.op = "icontains" -> Truth(\E x \in row.categories : Fold(x) = Fold(values[1]))
      [] sql.op = "global" -> DisjunctionOf({Compares("eq", row[sql.field], values[1]), Truth(row[sql.field] = 0)})
      [] sql.op = "in" -> DisjunctionOf({Compares("eq", IF sql.field = "NULL" THEN 0 ELSE row[sql.field], values[i]) :
                                             i \in DOMAIN values})
      [] OTHER -> Compares(sql.op, IF sql.field = "NULL" THEN 0 ELSE row[sql.field], values[1])

TruthOf(row, sql, names, params) ==
    LET truth[n \in 1..Len(sql)] ==
            IF sql[n].kind = "is"
            THEN ConditionTruth(row, sql[n], [i \in DOMAIN sql[n].params |-> Bound(names, params, sql[n].params[i])])
            ELSE IF sql[n].kind = "and" THEN ConjunctionOf({truth[i] : i \in sql[n].of})
            ELSE DisjunctionOf({truth[i] : i \in sql[n].of})
    IN  truth[Len(sql)]

--------------------------------------------------------------------------------
(* The queries *)

\* Push one condition with its value.
With(c, field, op, value) ==
    [conditions |-> Append(c.conditions, <<[kind |-> "is", field |-> field, op |-> op, params |-> <<c.last + 1>>]>>),
     names |-> Append(c.names, c.last + 1), last |-> c.last + 1, params |-> Append(c.params, value)]
Perhaps(c, field, op, value) == IF value = 0 THEN c ELSE With(c, field, op, value)

FilterGoes(next) == step' = next /\ UNCHANGED <<request, answer>>

BuildOwner ==
    /\ step = "owner"
    /\ clause' = IF request.query = "words" THEN With(With(clause, "words", "eq", Words), "user_id", "eq", Owner)
                 ELSE With(clause, "user_id", "eq", Owner)
    /\ FilterGoes("scope")

\* A search takes the memories of no agent too.
BuildScope ==
    LET agent == Perhaps(clause, "agent_id", IF request.query = "list" THEN "eq" ELSE "global", request.scope.agent)
    IN  /\ step = "scope"
        /\ clause' = Perhaps(Perhaps(agent, "run_id", "eq", request.scope.run), "app_id", "eq", request.scope.app)
        /\ FilterGoes("filter")

\* Mutant: the numbers that the filter took are not counted.
FilterUncounted ==
    LET compiled == to_sql(request.filter, clause.last)
    IN  /\ step = "filter"
        /\ clause' = [conditions |-> Append(clause.conditions, compiled.sql), names |-> clause.names \o compiled.names,
                      last |-> clause.last, params |-> clause.params \o compiled.params]
        /\ FilterGoes("rest")

BuildFilter ==
    LET compiled == to_sql(request.filter, clause.last)
    IN  /\ step = "filter"
        /\ clause' = [conditions |-> Append(clause.conditions, compiled.sql), names |-> clause.names \o compiled.names,
                      last |-> compiled.offset, params |-> clause.params \o compiled.params]
        /\ FilterGoes("rest")

BuildRest ==
    /\ step = "rest"
    /\ clause' = Perhaps(Perhaps(clause, "importance", "gte", request.importance), "created_at", "gte", request.since)
    /\ FilterGoes("run")

\* sqlite_query_collect_on: the values must be as many as the names.  active_memory_condition and the order
\* and limit of the rows are left out.
RunQuery ==
    /\ step = "run"
    /\ answer' = IF Cardinality({clause.names[i] : i \in DOMAIN clause.names}) # Len(clause.params) THEN {0}
                 ELSE {i \in DOMAIN MemoryRows :
                          \A k \in DOMAIN clause.conditions :
                             TruthOf(MemoryRows[i], clause.conditions[k], clause.names, clause.params) = "true"}
    /\ step' = "done" /\ UNCHANGED <<request, clause>>

FilterNext == BuildOwner \/ BuildScope \/ BuildFilter \/ BuildRest \/ RunQuery

FilterSpec == FilterInit /\ [][FilterNext]_filterVars

--------------------------------------------------------------------------------
(* Properties *)

\* "Field contains substring (case-sensitive)" (types/filter.rs:59), and its like without case.
Meets(op, v, p) ==
    CASE op \in {"eq", "in", "contains"} -> v = p [] op = "ne" -> v # p [] op = "gt" -> v > p [] op = "gte" -> v >= p
      [] op = "lt" -> v < p [] op = "lte" -> v <= p [] op = "icontains" -> Fold(v) = Fold(p)

\* What a condition says of a memory that has a value there; of one that has none it says nothing that
\* holds, "not equal" included, and so does a condition with a null, or on a name that is not plain.
Says(c, row) ==
    LET given == {c.values[i] : i \in DOMAIN c.values} \ {0}
        v == row[c.field]
    IN  /\ c.field \in PlainColumns \cup PathNames
        /\ IF c.field = "categories"
           THEN \E p \in given, x \in v : IF c.op = "contains" THEN x = p ELSE Fold(x) = Fold(p)
           ELSE v # 0 /\ \E p \in given : Meets(c.op, v, p)

Meant(expr, row) ==
    LET meant[n \in 1..Len(expr)] ==
            IF expr[n].kind = "is" THEN Says(expr[n], row)
            ELSE IF expr[n].kind = "and" THEN \A i \in expr[n].of : meant[i]
            ELSE \E i \in expr[n].of : meant[i]
    IN  meant[Len(expr)]

\* The departure from filter.rs:59: "contains" in a text is a LIKE, which knows no case.
Caseless(c) == IF c.kind = "is" /\ c.op = "contains" /\ c.field # "categories" THEN [c EXCEPT !.op = "icontains"] ELSE c
WithoutCase(expr) == [n \in DOMAIN expr |-> Caseless(expr[n])]

\* However many parameters the parts of a filter take, and whatever options stand before and after it, each
\* value meets its own condition: a query never fails, and returns the memories of its scope that the filter
\* means, read as plain logic, but with "contains" in a text taken for "icontains".  ("Arbitrary
\* FilterExpression fields ... use an exact scan", query.rs:268)
FilterMeansWhatItSays ==
    step = "done" =>
        answer = {i \in DOMAIN MemoryRows :
                    LET row == MemoryRows[i]
                        scope == request.scope
                    IN  /\ row.user_id = Owner /\ (request.query = "words" => row.words = Words)
                        /\ scope.agent # 0 => row.agent_id = scope.agent \/ (request.query # "list" /\ row.agent_id = 0)
                        /\ scope.run # 0 => row.run_id = scope.run
                        /\ scope.app # 0 => row.app_id = scope.app
                        /\ Meant(WithoutCase(request.filter), row)
                        /\ request.importance # 0 => row.importance >= request.importance
                        /\ request.since # 0 => row.created_at >= request.since}
================================================================================
