-------------------------- MODULE PreparedStatement --------------------------
(* The life of a prepared statement: prepare() writes its text once; the     *)
(* program then changes values through get<N> and executes it again and      *)
(* again.  Every execute() resets the statement, which keeps the values      *)
(* bound before, binds what it finds in the expression now, and steps.       *)
EXTENDS Expressions, ObjectStatements

CONSTANTS
    Ranges,         \* the sequences of objects that a range of iterators may span
    MaxChanges      \* bound on the calls of get<N> for one statement

VARIABLES
    expression,     \* prepared_statement_t::expression, or NoStatement
    placeholders,   \* the number of '?' in the text
    slots,          \* what is bound to them
    changed,        \* the values the program has changed through get<N>
    cursor,         \* of the sqlite3_stmt: "reset", "row" or "done"
    looping,        \* execute() is inside perform_steps
    fresh           \* nothing has been changed through get<N> since it stepped

prepared == <<expression, placeholders, slots, changed, cursor, looping, fresh>>

NoStatement == Leaf("none", "")
NotBound == <<>>

RangeKinds == {"insert_range_t", "replace_range_t"}
OneObject == {"insert_t", "insert_explicit", "replace_t", "update_t"}
ByKey == {"get_t", "remove_t"}
ObjectKinds == RangeKinds \cup OneObject \cup ByKey

Objects(e) == SelectSeq(Elements, LAMBDA m : m \in DOMAIN e.parts)
WithObjects(e, objects) == [e EXCEPT !.parts = [m \in Range(objects) |-> Leaf("object", "")]]

(* The parts of a statement about one key are the tuple of its ids. *)
WithIds(e, n) == [e EXCEPT !.parts = [i \in 1..n |-> value]]

(* The values of a statement, in the order of their placeholders ... *)
Placeholders(e) ==
    IF e.kind \in ByKey THEN SerializeIds(e.table, Len(e.parts))
    ELSE IF e.kind \in ObjectKinds THEN MembersOf(Objects(e), Serialize(e.kind, e.table))
    ELSE Leaves("value", Serialized, e)

(* ... in the order in which execute() binds them ... *)
Bindings(e) ==
    IF e.kind \in ByKey THEN BindIds(Len(e.parts))
    ELSE IF e.kind \in ObjectKinds THEN MembersOf(Objects(e), Bind(e.kind, e.table))
    ELSE Leaves("value", Iterated, e)

(* ... and in the order of the types that get<N> has for them. *)
BindTuple(e) ==
    IF e.kind \in ObjectKinds THEN Bindings(e) ELSE Leaves("value", Typed, e)

(* A value as it is now; SQLite takes NULL for what is not bound. *)
Value(name) == IF name = NoId THEN NotBound ELSE <<name, name \in changed>>

(* What prepare() accepts. *)
Prepares(e) ==
    /\ e.kind \in ByKey => SerializableIds(e.kind, e.table, Len(e.parts))
    /\ e.kind \in ObjectKinds \ ByKey => Serializable(e.kind, e.table, Objects(e))
    /\ e.kind = "update_all_t" => UpdatedTables(e) # {}

InitPrepared ==
    /\ expression = NoStatement
    /\ placeholders = 0
    /\ slots = <<>>
    /\ changed = {}
    /\ cursor = "reset"
    /\ looping = FALSE
    /\ fresh = FALSE

prepare(e) ==
    /\ Prepares(e)
    /\ expression' = e
    /\ placeholders' = Len(Placeholders(e))
    /\ slots' = [i \in 1..placeholders' |-> NotBound]
    /\ UNCHANGED <<changed, cursor, looping, fresh>>

(* ~prepared_statement_base *)
finalize ==
    /\ expression # NoStatement
    /\ expression' = NoStatement
    /\ placeholders' = 0
    /\ slots' = <<>>
    /\ changed' = {}
    /\ cursor' = "reset"
    /\ fresh' = FALSE
    /\ UNCHANGED looping
-----------------------------------------------------------------------------
(* get<N>(statement) = ... *)

(* The N-th type is that of the N-th value of the tuple; the reference is to *)
(* the N-th value that the iteration visits.                                 *)
GetValue ==
    /\ expression.kind \notin RangeKinds \cup OneObject
    /\ Cardinality(changed) < MaxChanges
    /\ LET bindings == Bindings(expression)
       IN  \E N \in DOMAIN BindTuple(expression) \cap DOMAIN bindings :
                changed' = changed \cup {bindings[N]}
    /\ UNCHANGED expression

(* A reference to the object. *)
GetObject ==
    /\ expression.kind \in OneObject
    /\ changed' = Range(Bindings(expression))
    /\ UNCHANGED expression

(* References to the first and to the last iterator of the range. *)
GetRange(objects) ==
    /\ expression.kind \in RangeKinds
    /\ expression' = WithObjects(expression, objects)
    /\ UNCHANGED changed

get ==
    /\ \/ GetValue
       \/ GetObject
       \/ \E objects \in Ranges : GetRange(objects)
    /\ fresh' = FALSE
    /\ UNCHANGED <<placeholders, slots, cursor, looping>>
-----------------------------------------------------------------------------
(* storage_t::execute *)

(* The binder has bound the first n values.  SQLite has no placeholder for   *)
(* more than the text has, and any of them may be refused.                   *)
BindFirst(n, bindings) ==
    /\ n <= placeholders
    /\ slots' = [i \in 1..placeholders |-> IF i <= n THEN Value(bindings[i]) ELSE slots[i]]

(* perform_step: one step of a statement that has no rows. *)
StepWrite == cursor' = "done" /\ UNCHANGED looping

(* perform_step with an extractor: the statement stays on the row it found. *)
StepOnce == cursor' \in {"row", "done"} /\ UNCHANGED looping

(* perform_steps is entered. *)
StepAll == cursor' = "reset" /\ looping' = TRUE

Selects(e) ==
    \/ e.kind \in {"select_t", "get_all_t", "get_all_pointer_t", "get_all_optional_t"}
    \/ e.kind = "with_t" /\ e.parts["expression"].kind = "select_t"

execute ==
    /\ expression # NoStatement
    /\ LET bindings == Bindings(expression)
       IN  \/ /\ BindFirst(Len(bindings), bindings)
              /\ CASE Selects(expression) -> StepAll
                   [] expression.kind = "get_t" -> StepOnce
                   [] OTHER -> StepWrite
              /\ fresh' = TRUE
           \/ /\ \E n \in 0..Len(bindings) - 1 : BindFirst(n, bindings)
              /\ cursor' = "reset" /\ fresh' = FALSE /\ UNCHANGED looping
    /\ UNCHANGED <<expression, placeholders, changed>>

(* One turn of perform_steps: the extractor takes the row, or throws and     *)
(* leaves the statement on it; at the end of the rows, or when sqlite3_step  *)
(* fails, the statement is left at its end.                                  *)
perform_steps ==
    /\ looping
    /\ \/ cursor' = "row" /\ looping' \in BOOLEAN
       \/ cursor' = "done" /\ looping' = FALSE
    /\ UNCHANGED <<expression, placeholders, slots, changed, fresh>>

NextPrepared(statements) ==
    \/ expression = NoStatement /\ \E e \in statements : prepare(e)
    \/ ~looping /\ (finalize \/ get \/ execute)
    \/ perform_steps
-----------------------------------------------------------------------------
(* The kinds of node that the iteration does not go into although the text   *)
(* has placeholders for the values below them.                               *)
NotIterated == {"unary_minus_t", "multi_order_by_t", "list", "expression_t"}

Skips(e) ==
    \E n \in Nodes(Serialized, FALSE, e) :
        \/ n.kind \in NotIterated
        \/ n.kind = "upsert_clause" /\ Leaves("value", Serialized, n.parts["target_args"]) # <<>>

Bound(values) == slots = [i \in 1..placeholders |-> Value(values[i])]

(* The values SQLite has executed the statement with are those of the        *)
(* expression: iterate_ast, "used in finding literals to be bound to a       *)
(* statement", calls the binder "for any node of provided expression".       *)
BindsAnyNode == fresh => Bound(Placeholders(expression))

(* What SQLite executes is what was written: each placeholder of the text    *)
(* has the present value of the expression or member it was written for,     *)
(* after any sequence of changes and failed executions; the placeholder of   *)
(* an id that was not given stays without a value.  Excepted are the         *)
(* kinds of node that ast_iterator does not know, and ranges that have       *)
(* become shorter than they were when the statement was prepared: the        *)
(* placeholders left over keep the objects of an earlier execution.          *)
BoundAsWritten ==
    fresh => LET written == Placeholders(expression)
             IN  Len(written) # placeholders \/ Bound(written) \/ Skips(expression)

(* The kinds of node whose values have a type in the tuple and are not       *)
(* visited, or are visited and have none.                                    *)
NotTyped == {"distinct_t", "all_t", "collate_t", "vector", "unary_minus_t"}


(* The FROM clause that the library makes for a select does not have the     *)
(* table of a cross join: "T's table name is removed from table names set".  *)
CrossJoinIsRemoved ==
    \A sel \in {n \in Nodes(Serialized, FALSE, expression) : n.kind = "select_t"} :
        NoImplicitFrom(sel) \/ From(sel) \cap Joined(sel, {"cross_join_t"}) = {}
=============================================================================
