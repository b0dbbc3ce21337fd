----------------------------- MODULE Expressions -----------------------------
(* Statement expressions as trees, and the three walks the library makes     *)
(* over them:                                                                *)
(*   - the serializer writes the SQL text, with a '?' for each value;        *)
(*   - ast_iterator visits the values to bind them to the placeholders, and  *)
(*     the columns to collect the table names;                               *)
(*   - node_tuple lists the types of the values, for get<N>.                 *)
(* They are three sets of template specialisations that nothing keeps in     *)
(* step.  For each kind of node the tables below have the members a walk     *)
(* goes into, in its order.                                                  *)
(*                                                                           *)
(* A node is a record: its kind, its parts by the names of the members, and  *)
(* the table it names ("" if none).  Its leaves are values, which are bound, *)
(* literals, which are written into the text, and columns.                   *)
EXTENDS SequencesExt

Leaf(kind, table) == [kind |-> kind, parts |-> <<>>, table |-> table]
value == Leaf("value", "")
literal == Leaf("literal_holder", "")
column(table) == Leaf("column", table)

(* The elements of a tuple, of a vector or of a list. *)
Elements == <<"1", "2", "3", "4">>
-----------------------------------------------------------------------------
(* statement_serializer *)

SerializedFunctions ==
    [highlight_t |-> <<"argument0", "argument1", "argument2">>,
     filtered_aggregate_function |-> <<"function", "where">>,
     excluded_t |-> <<"expression">>,
     as_optional_t |-> <<"expression">>,
     reference_wrapper |-> <<"get">>,
     match_t |-> <<"argument">>,
     upsert_clause |-> <<"target_args", "actions">>,
     built_in_function_t |-> <<"args">>,
     built_in_aggregate_function_t |-> <<"args">>,
     function_call |-> <<"callArgs">>,
     as_t |-> <<"expression">>]

SerializedQueries ==
    [is_equal_with_table_t |-> <<"rhs">>,
     distinct_t |-> <<"expression">>,
     all_t |-> <<"expression">>,
     cast_t |-> <<"expression">>,
     common_table_expression |-> <<"subselect">>,
     with_t |-> <<"cte", "expression">>]

SerializedOperators ==
    [compound_operator |-> <<"compound">>,
     simple_case_t |-> <<"case_expression", "args", "else_expression">>,
     pair |-> <<"first", "second">>,
     is_null_t |-> <<"t">>,
     is_not_null_t |-> <<"t">>,
     unary_minus_t |-> <<"argument">>,
     bitwise_not_t |-> <<"argument">>,
     negated_condition_t |-> <<"c">>,
     expression_t |-> <<"value">>,
     binary_condition |-> <<"lhs", "rhs">>]

SerializedConditions ==
    [named_collate |-> <<"expr">>,
     collate_t |-> <<"expr">>,
     dynamic_in_t |-> <<"left", "argument">>,
     vector |-> Elements,
     list |-> Elements,
     in_t |-> <<"left", "argument">>,
     like_t |-> <<"arg", "pattern", "arg3">>,
     glob_t |-> <<"arg", "pattern">>,
     between_t |-> <<"expr", "b1", "b2">>,
     exists_t |-> <<"expression">>]

SerializedUpdates ==
    [set_t |-> <<"assigns">>,
     assign_t |-> <<"lhs", "rhs">>,
     update_all_t |-> <<"set", "conditions">>]

SerializedInserts ==
    [columns_t |-> <<"columns">>,
     struct_t |-> <<"columns">>,
     insert_raw_t |-> <<"args">>,
     replace_raw_t |-> <<"args">>]

SerializedGetAll ==
    [get_all_t |-> <<"conditions">>,
     get_all_pointer_t |-> <<"conditions">>,
     get_all_optional_t |-> <<"conditions">>]

SerializedSelect == [select_t |-> <<"col", "conditions">>]
SerializedRemoveAll == [remove_all_t |-> <<"conditions">>]

SerializedClauses ==
    [where_t |-> <<"expression">>,
     order_by_t |-> <<"expression">>,
     multi_order_by_t |-> <<"args">>,
     constrained_join |-> <<"constraint">>,
     on_t |-> <<"arg">>,
     group_by_with_having |-> <<"args", "expression">>,
     group_by_t |-> <<"args">>,
     limit_t |-> <<"lim">>,
     limit_offset_t |-> <<"lim", "off">>,
     limit_implicit_offset_t |-> <<"off", "lim">>]

SerializedLists ==
    [using_t |-> <<"column">>,
     tuple |-> Elements,
     values_t |-> <<"tuple">>,
     dynamic_values_t |-> <<"vector">>]

Serialized ==
    SerializedFunctions @@ SerializedQueries @@ SerializedOperators @@ SerializedConditions
    @@ SerializedUpdates @@ SerializedInserts @@ SerializedGetAll @@ SerializedSelect
    @@ SerializedRemoveAll @@ SerializedClauses @@ SerializedLists
-----------------------------------------------------------------------------
(* ast_iterator: a kind that has no specialisation is passed to the callable *)
(* as a whole.                                                               *)

IteratedOperands ==
    [as_optional_t |-> <<"expression">>,
     reference_wrapper |-> <<"get">>,
     match_t |-> <<"argument">>,
     group_by_t |-> <<"args">>,
     highlight_t |-> <<"argument0", "argument1", "argument2">>,
     excluded_t |-> <<"expression">>,
     upsert_clause |-> <<"actions">>,
     where_t |-> <<"expression">>,
     binary_condition |-> <<"lhs", "rhs">>,
     assign_t |-> <<"lhs", "rhs">>,
     is_equal_with_table_t |-> <<"rhs">>,
     columns_t |-> <<"columns">>,
     struct_t |-> <<"columns">>,
     dynamic_in_t |-> <<"left", "argument">>,
     in_t |-> <<"left", "argument">>,
     vector |-> Elements]

IteratedStatements ==
    [common_table_expression |-> <<"subselect">>,
     with_t |-> <<"cte", "expression">>,
     compound_operator |-> <<"compound">>,
     insert_raw_t |-> <<"args">>,
     replace_raw_t |-> <<"args">>,
     select_t |-> <<"col", "conditions">>,
     get_all_t |-> <<"conditions">>,
     get_all_pointer_t |-> <<"conditions">>,
     get_all_optional_t |-> <<"conditions">>,
     update_all_t |-> <<"set", "conditions">>,
     remove_all_t |-> <<"conditions">>,
     set_t |-> <<"assigns">>,
     tuple |-> Elements,
     group_by_with_having |-> <<"args", "expression">>]

IteratedConditions ==
    [cast_t |-> <<"expression">>,
     exists_t |-> <<"expression">>,
     like_t |-> <<"arg", "pattern", "arg3">>,
     glob_t |-> <<"arg", "pattern">>,
     between_t |-> <<"expr", "b1", "b2">>,
     named_collate |-> <<"expr">>,
     negated_condition_t |-> <<"c">>,
     is_null_t |-> <<"t">>,
     is_not_null_t |-> <<"t">>,
     function_call |-> <<"callArgs">>,
     built_in_function_t |-> <<"args">>,
     built_in_aggregate_function_t |-> <<"args">>,
     filtered_aggregate_function |-> <<"function", "where">>,
     constrained_join |-> <<"constraint">>,
     on_t |-> <<"arg">>,
     using_t |-> <<"column">>,
     simple_case_t |-> <<"case_expression", "args", "else_expression">>,
     pair |-> <<"first", "second">>,
     as_t |-> <<"expression">>]

(* Variant: LIMIT and OFFSET are always visited in this order. *)
IteratedClausesLimitFirst ==
    [limit_t |-> <<"lim">>,
     limit_offset_t |-> <<"lim", "off">>,
     limit_implicit_offset_t |-> <<"lim", "off">>,
     distinct_t |-> <<"expression">>,
     all_t |-> <<"expression">>,
     bitwise_not_t |-> <<"argument">>,
     values_t |-> <<"tuple">>,
     dynamic_values_t |-> <<"vector">>,
     order_by_t |-> <<"expression">>,
     collate_t |-> <<"expr">>]

IteratedClauses ==
    [limit_t |-> <<"lim">>,
     limit_offset_t |-> <<"lim", "off">>,
     limit_implicit_offset_t |-> <<"off", "lim">>,
     distinct_t |-> <<"expression">>,
     all_t |-> <<"expression">>,
     bitwise_not_t |-> <<"argument">>,
     values_t |-> <<"tuple">>,
     dynamic_values_t |-> <<"vector">>,
     order_by_t |-> <<"expression">>,
     collate_t |-> <<"expr">>]

Iterated == IteratedOperands @@ IteratedStatements @@ IteratedConditions @@ IteratedClauses
-----------------------------------------------------------------------------
(* node_tuple: a kind that has no specialisation stands for itself. *)

TypedOperands ==
    [reference_wrapper |-> <<"get">>,
     tuple |-> Elements,
     as_optional_t |-> <<"expression">>,
     group_by_t |-> <<"args">>,
     group_by_with_having |-> <<"args", "expression">>,
     upsert_clause |-> <<"actions">>,
     set_t |-> <<"assigns">>,
     highlight_t |-> <<"argument0", "argument1", "argument2">>,
     excluded_t |-> <<"expression">>,
     where_t |-> <<"expression">>,
     match_t |-> <<"argument">>,
     order_by_t |-> <<"expression">>,
     is_equal_with_table_t |-> <<"rhs">>,
     binary_condition |-> <<"lhs", "rhs">>,
     assign_t |-> <<"lhs", "rhs">>,
     columns_t |-> <<"columns">>,
     struct_t |-> <<"columns">>,
     dynamic_in_t |-> <<"left", "argument">>,
     in_t |-> <<"left", "argument">>]


TypedStatements ==
    [compound_operator |-> <<"compound">>,
     common_table_expression |-> <<"subselect">>,
     with_t |-> <<"cte", "expression">>,
     select_t |-> <<"col", "conditions">>,
     insert_raw_t |-> <<"args">>,
     replace_raw_t |-> <<"args">>,
     values_t |-> <<"tuple">>,
     get_all_t |-> <<"conditions">>,
     get_all_pointer_t |-> <<"conditions">>,
     get_all_optional_t |-> <<"conditions">>,
     update_all_t |-> <<"set", "conditions">>,
     remove_all_t |-> <<"conditions">>]

TypedConditions ==
    [cast_t |-> <<"expression">>,
     exists_t |-> <<"expression">>,
     like_t |-> <<"arg", "pattern", "arg3">>,
     glob_t |-> <<"arg", "pattern">>,
     between_t |-> <<"expr", "b1", "b2">>,
     named_collate |-> <<"expr">>,
     is_null_t |-> <<"t">>,
     is_not_null_t |-> <<"t">>,
     negated_condition_t |-> <<"c">>,
     unary_minus_t |-> <<"argument">>,
     bitwise_not_t |-> <<"argument">>,
     built_in_function_t |-> <<"args">>,
     built_in_aggregate_function_t |-> <<"args">>,
     filtered_aggregate_function |-> <<"function", "where">>,
     function_call |-> <<"callArgs">>,
     constrained_join |-> <<"constraint">>,
     on_t |-> <<"arg">>,
     using_t |-> <<"column">>,
     simple_case_t |-> <<"case_expression", "args", "else_expression">>,
     pair |-> <<"first", "second">>,
     as_t |-> <<"expression">>,
     limit_t |-> <<"lim">>,
     limit_offset_t |-> <<"lim", "off">>,
     limit_implicit_offset_t |-> <<"off", "lim">>]

Typed == TypedOperands @@ TypedStatements @@ TypedConditions
-----------------------------------------------------------------------------
(* The members of a node that a walk goes into. *)
Visits(walk, node) ==
    IF node.kind \in DOMAIN walk
    THEN SelectSeq(walk[node.kind], LAMBDA m : m \in DOMAIN node.parts)
    ELSE <<>>

(* The node that a path leads to: the names of members, from the root down. *)
At(node, path) ==
    LET at[n \in 0..Len(path)] == IF n = 0 THEN node ELSE at[n - 1].parts[path[n]]
    IN  at[Len(path)]

(* The leaves of one kind in the order of a walk, each named by its path. *)
Leaves(kind, walk, node) ==
    LET leaves[path \in Seq(STRING)] ==
            LET n == At(node, path)
                ms == Visits(walk, n)
                Under(i) == IF i \in DOMAIN ms THEN leaves[Append(path, ms[i])] ELSE <<>>
            IN  IF n.kind = kind THEN << path >> ELSE Under(1) \o Under(2) \o Under(3) \o Under(4)
    IN  leaves[<<>>]

(* All the nodes of an expression; with "own", without those of subselects. *)
Nodes(walk, own, node) ==
    LET nodes[path \in Seq(STRING)] ==
            LET n == At(node, path)
                entered == {m \in Range(Visits(walk, n)) : ~(own /\ n.parts[m].kind = "select_t")}
            IN  {n} \cup UNION {nodes[Append(path, m)] : m \in entered}
    IN  nodes[<<>>]
-----------------------------------------------------------------------------
(* The tables of a select *)

(* table_name_collector: what names a table when the iteration meets it. *)
Collected == {"column", "highlight_t"}

collect_table_names(node) ==
    {n.table : n \in {l \in Nodes(Iterated, FALSE, node) : l.kind \in Collected}}

(* Of update_all only the left-hand sides of the assignments count.  A       *)
(* dynamic_set has collected them when the assignments were pushed.          *)
UpdatedTables(update) ==
    LET set == update.parts["set"]
    IN  IF set.kind = "dynamic_set_t"
        THEN {set.table} \ {""}
        ELSE UNION {collect_table_names(set.parts["assigns"].parts[m].parts["lhs"]) :
                        m \in DOMAIN set.parts["assigns"].parts}

(* push_back of dynamic_set_t and of dynamic_order_by_t writes the text at   *)
(* once, with the values in it, and keeps nothing else of the expression but *)
(* the table that is updated.                                                *)
PushedSet(assign) ==
    Leaf("dynamic_set_t", CHOOSE t \in collect_table_names(assign.parts["lhs"]) : TRUE)

PushedOrder(order_by) ==
    Leaf("dynamic_order_by_t", order_by.parts["expression"].table)

Conditions(sel) == Range(sel.parts["conditions"].parts)
Joined(sel, kinds) == {c.table : c \in {d \in Conditions(sel) : d.kind \in kinds}}

(* The FROM clause that the program writes itself, or none for a compound.   *)
NoImplicitFrom(sel) == sel.parts["col"].kind = "compound_operator" \/ Joined(sel, {"from_t"}) # {}

(* The FROM clause: the explicit one, or every collected table that is not   *)
(* named by a constrained join.  Cross and natural joins have no constraint. *)
From(sel) ==
    IF NoImplicitFrom(sel)
    THEN Joined(sel, {"from_t"})
    ELSE collect_table_names(sel) \ Joined(sel, {"constrained_join"})
=============================================================================
