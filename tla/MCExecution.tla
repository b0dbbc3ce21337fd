---------------------------- MODULE MCExecution ----------------------------
(* Execution for statements of every kind: each kind of expression inside    *)
(* every member of each kind of expression, in the WHERE clause of a select, *)
(* and every pair of clauses in each kind of statement.                      *)
EXTENDS Execution
LOCAL INSTANCE FiniteSetsExt
LOCAL INSTANCE SequencesExt

Node(kind, parts) == [kind |-> kind, parts |-> parts, table |-> ""]
Naming(kind, table, parts) == [kind |-> kind, parts |-> parts, table |-> table]

Several(kind, nodes) == Node(kind, [m \in {Elements[i] : i \in DOMAIN nodes} |->
                                        nodes[CHOOSE i \in DOMAIN nodes : Elements[i] = m]])
tuple(nodes) == Several("tuple", nodes)

where(x) == Node("where_t", [expression |-> x])
Select(col, conditions) == Node("select_t", [col |-> col, conditions |-> tuple(conditions)])

(* The kinds of expression, and those of them that name a table. *)
Plain == {"as_optional_t", "reference_wrapper", "cast_t", "is_null_t", "is_not_null_t", "unary_minus_t",
          "bitwise_not_t", "binary_condition", "named_collate", "collate_t", "like_t", "glob_t",
          "between_t", "distinct_t", "all_t", "as_t"}
WithTable == {"highlight_t", "match_t", "is_equal_with_table_t"}
WithArguments == [built_in_function_t |-> "args", built_in_aggregate_function_t |-> "args",
                  function_call |-> "callArgs"]

(* The expressions that have x in one of their members and a value in the others. *)
Around(x) ==
    UNION {{Node(k, [m \in Range(Serialized[k]) |-> IF m = n THEN x ELSE value]) :
                n \in Range(Serialized[k])} : k \in Plain}
    \cup UNION {{Naming(k, "t", [m \in Range(Serialized[k]) |-> IF m = n THEN x ELSE value]) :
                n \in Range(Serialized[k])} : k \in WithTable}
    \cup {Node(k, [m \in {WithArguments[k]} |-> tuple(<<value, x>>)]) : k \in DOMAIN WithArguments}
    \cup {Node("negated_condition_t", [c |-> x]),
          Node("negated_condition_t", [c |-> Node("expression_t", [value |-> x])]),
          Node("filtered_aggregate_function",
               [function |-> Node("built_in_aggregate_function_t", [args |-> tuple(<<value>>)]),
                where |-> x]),
          Node("in_t", [left |-> x, argument |-> tuple(<<value, value>>)]),
          Node("in_t", [left |-> value, argument |-> tuple(<<x, value>>)]),
          Node("dynamic_in_t", [left |-> x, argument |-> Several("vector", <<value, value>>)]),
          Node("dynamic_in_t", [left |-> x, argument |-> Several("list", <<value, value>>)]),
          Node("dynamic_in_t", [left |-> x, argument |-> Select(column("u"), <<where(value)>>)]),
          Node("exists_t", [expression |-> Select(column("u"), <<where(x)>>)])}
    \cup {Node("simple_case_t", [case_expression |-> c, else_expression |-> value,
                                 args |-> tuple(<<Node("pair", [first |-> x, second |-> value]),
                                                  Node("pair", [first |-> value, second |-> x])>>)]) :
            c \in {value, x}}

(* Every kind of expression in every member of every kind. *)
Innermost == {value, column("u")}
Nested == Around(literal) \cup UNION {Around(x) : x \in UNION {Around(y) : y \in Innermost}}
WhereStatements == {Select(column("t"), <<where(x)>>) : x \in Nested}

(* The clauses, in the order that SQL wants. *)
Joins == {Naming("constrained_join", "u",
                 [constraint |-> Node("on_t", [arg |-> Node("binary_condition", [lhs |-> column("u"), rhs |-> value])])]),
          Naming("constrained_join", "u", [constraint |-> Node("using_t", [column |-> column("u")])]),
          Leaf("cross_join_t", "u"), Leaf("natural_join_t", "u")}
Filters == {where(x) : x \in {Node("binary_condition", [lhs |-> column("u"), rhs |-> value]),
                              Node("exists_t", [expression |-> Select(column("u"), <<where(value)>>)])}}
Groupings == {Node("group_by_t", [args |-> tuple(<<column("t"), value>>)]),
              Node("group_by_with_having", [args |-> tuple(<<column("t"), value>>), expression |-> value])}
Orders == {Node("order_by_t", [expression |-> value]), literal,
           PushedOrder(Node("order_by_t", [expression |-> column("u")])),
           Node("multi_order_by_t", [args |-> tuple(<<Node("order_by_t", [expression |-> column("t")]),
                                                      Node("order_by_t", [expression |-> value])>>)])}
Limits == {Node("limit_t", [lim |-> value]), Node("limit_offset_t", [lim |-> value, off |-> value]),
           Node("limit_implicit_offset_t", [lim |-> value, off |-> value])}
From_ == {Leaf("from_t", "t")}
Clauses == <<From_, Joins, Filters, Groupings, Orders, Limits>>

(* At most two clauses. *)
ClauseLists ==
    {<<>>} \cup {<<c>> : c \in UNION Range(Clauses)}
    \cup UNION {{<<c, d>> : c \in Clauses[i], d \in UNION {Clauses[j] : j \in i + 1..Len(Clauses)}} :
                    i \in DOMAIN Clauses}

assign(lhs, rhs) == Node("assign_t", [lhs |-> lhs, rhs |-> rhs])
Set(assigns) == Node("set_t", [assigns |-> tuple(assigns)])
Values == Node("values_t", [tuple |-> tuple(<<tuple(<<value, value>>), tuple(<<value, value>>)>>)])
Upsert(x) == Node("upsert_clause", [target_args |-> tuple(<<x>>),
                                    actions |-> tuple(<<Set(<<assign(column("t"), value)>>), where(value)>>)])
InsertRaw(args) == Node("insert_raw_t", [args |-> tuple(<<Leaf("into_t", "t"), Node("columns_t", [columns |-> tuple(<<column("t")>>)])>> \o args)])
Columns == Node("columns_t", [columns |-> tuple(<<column("t"), value>>)])
Compound == Node("compound_operator", [compound |-> tuple(<<Select(Columns, <<where(value)>>), Select(value, <<>>)>>)])
Cte == Node("common_table_expression", [subselect |-> Select(Columns, <<where(value)>>)])

ClauseStatements ==
    UNION {{Select(Columns, cs), Node("get_all_t", [conditions |-> tuple(cs)]),
            Node("remove_all_t", [conditions |-> tuple(cs)]),
            Node("update_all_t", [set |-> Set(<<assign(column("t"), value), assign(column("t"), value)>>),
                                  conditions |-> tuple(cs)]),
            Node("with_t", [cte |-> tuple(<<Cte>>), expression |-> Select(Columns, cs)])} : cs \in ClauseLists}
    \cup {Node("update_all_t", [set |-> s, conditions |-> tuple(<<where(value)>>)]) :
            s \in {Set(<<>>), Leaf("dynamic_set_t", ""), PushedSet(assign(column("t"), value))}}
    \cup {Node(k, [conditions |-> tuple(<<where(value)>>)]) : k \in {"get_all_pointer_t", "get_all_optional_t"}}
    \cup {Select(Node("struct_t", [columns |-> tuple(<<column("t"), value>>)]), <<where(value)>>),
          Node("replace_raw_t", [args |-> tuple(<<Leaf("into_t", "t"), Values>>)]),
          Node("with_t", [cte |-> tuple(<<Cte>>), expression |-> Node("remove_all_t", [conditions |-> tuple(<<where(value)>>)])]),
          Select(Compound, <<>>), InsertRaw(<<Values>>), InsertRaw(<<Select(Columns, <<where(value)>>)>>),
          InsertRaw(<<Values, Upsert(column("t"))>>), InsertRaw(<<Values, Upsert(value)>>),
          InsertRaw(<<Node("dynamic_values_t", [vector |-> Several("vector", <<tuple(<<value, value>>), tuple(<<value, value>>)>>)])>>)}

(* Objects of tables with every kind of key. *)
Col(name, pk, generated) == [name |-> name, primary_key |-> pk, generated |-> generated]
ObjectTables ==
    [rowid |-> [columns |-> <<Col("id", TRUE, FALSE), Col("a", FALSE, FALSE), Col("g", FALSE, TRUE)>>,
                composite |-> <<>>, without_rowid |-> FALSE, listed |-> <<"a", "id">>],
     composite |-> [columns |-> <<Col("a", FALSE, FALSE), Col("k", FALSE, FALSE), Col("b", FALSE, FALSE)>>,
                    composite |-> <<"b", "k">>, without_rowid |-> FALSE, listed |-> <<"k", "b">>],
     plain |-> [columns |-> <<Col("id", TRUE, FALSE), Col("a", FALSE, FALSE)>>,
                composite |-> <<>>, without_rowid |-> TRUE, listed |-> <<"a", "id">>],
     computed |-> [columns |-> <<Col("id", TRUE, FALSE), Col("g", FALSE, TRUE)>>,
                   composite |-> <<>>, without_rowid |-> TRUE, listed |-> <<"id", "g">>],
     keyed |-> [columns |-> <<Col("id", TRUE, FALSE)>>, composite |-> <<>>, without_rowid |-> FALSE, listed |-> <<"id">>]]

Spans == {<<>>, <<"1">>, <<"2">>, <<"1", "2">>, <<"2", "3">>, <<"1", "2", "3">>}
ObjectStatement(kind, t, objects) == WithObjects(Leaf(kind, t), objects)

(* Too few ids, as many as the key has columns, or too many. *)
KeyStatement(kind, t, n) == WithIds(Leaf(kind, t), n)
IdCounts == 1..3

OfObjects ==
    {ObjectStatement(k, t, <<"1">>) : k \in OneObject, t \in DOMAIN ObjectTables}
    \cup {KeyStatement(k, t, n) : k \in ByKey, t \in DOMAIN ObjectTables, n \in IdCounts}
    \cup {ObjectStatement(k, t, s) : k \in RangeKinds, t \in DOMAIN ObjectTables, s \in Spans}

AllStatements == WhereStatements \cup ClauseStatements \cup OfObjects

(* With iterators and backups: the two kinds that stand on rows. *)
Together == {KeyStatement("get_t", "rowid", 1), Select(column("t"), <<where(value)>>)}
EveryStatement == AllStatements \cup Together

(* WHERE -? < ? *)
Minus == {Select(column("t"), <<where(Node("binary_condition", [lhs |-> Node("unary_minus_t", [argument |-> value]),
                                                                 rhs |-> value]))>>)}

(* SELECT rank, suit FROM ... CROSS JOIN suits *)
Cards == {Select(Node("columns_t", [columns |-> tuple(<<column("ranks"), column("suits")>>)]),
                 <<Leaf("cross_join_t", "suits")>>)}
=============================================================================
