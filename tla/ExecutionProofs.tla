--------------------------- MODULE ExecutionProofs ---------------------------
(* Execution for any number of rows, iterators, backups and statements. *)
EXTENDS FiniteSetTheorems, Execution, TLAPS

(* What the three components do in one step of the whole. *)
LEMMA Steps ==
    ASSUME [Next]_vars
    PROVE  /\ NextPrepared(Statements) \/ UNCHANGED prepared
           /\ View!NextRows \/ UNCHANGED rows
           /\ Copy!NextBackup \/ UNCHANGED backups
<1>1. Companions \subseteq Statements
  BY ExecutionConstants
<1>2. NextPrepared(IF Others THEN Statements ELSE Companions) => NextPrepared(Statements)
  BY <1>1 DEF NextPrepared
<1> QED
  BY <1>2, Zenon DEF Next, vars
-----------------------------------------------------------------------------
(* The prepared statement *)

(* What execute() binds for a statement of objects are the members that the  *)
(* serializer wrote a placeholder for, in the same order, for any table.     *)
LEMMA ObjectsAreBoundInOrder ==
    ASSUME NEW e, e.kind \in ObjectKinds \ ByKey
    PROVE  Placeholders(e) = Bindings(e)
<1>1. Serialize(e.kind, e.table) = Bind(e.kind, e.table)
  BY DEF Serialize, Bind, SerializeInsert, BindInsert, SerializeExplicit, BindExplicit,
         SerializeReplace, BindReplace, SerializeUpdate, SerializeSet, BindUpdate
<1> QED
  BY <1>1 DEF Placeholders, Bindings

(* The ids of a statement about one key come in the order of its columns;    *)
(* the columns behind the last id have none.                                 *)
LEMMA IdsAreBoundInOrder ==
    ASSUME NEW e \in Statements, e.kind \in ByKey
    PROVE  /\ Len(e.parts) \in Nat /\ Len(Bindings(e)) = Len(e.parts)
           /\ \A i \in 1..Len(e.parts) : Bindings(e)[i] = Id(i)
           /\ \A i \in 1..Len(Placeholders(e)) :
                Placeholders(e)[i] = IF i <= Len(e.parts) THEN Id(i) ELSE NoId
<1>1. e.parts \in Seq({value}) /\ Len(KeyColumns(e.table)) \in Nat
  BY StatementsAreNodes, Zenon
<1>2. Len(e.parts) \in Nat
  BY <1>1
<1>3. Bindings(e) = [i \in 1..Len(e.parts) |-> Id(i)]
  BY DEF Bindings, BindIds
<1>4. Len(Bindings(e)) = Len(e.parts)
  BY <1>2, <1>3
<1> DEFINE keys == Len(KeyColumns(e.table))
<1>5. Placeholders(e) = [i \in 1..keys |-> IF i \in 1..Len(e.parts) THEN Id(i) ELSE NoId]
  BY DEF Placeholders, SerializeIds
<1>6. Len(Placeholders(e)) = keys
  <2> HIDE DEF keys
  <2>1. keys \in Nat
    BY <1>1 DEF keys
  <2> QED
    BY <1>5, <2>1
<1>7. ASSUME NEW i \in 1..Len(Placeholders(e))
      PROVE  Placeholders(e)[i] = IF i <= Len(e.parts) THEN Id(i) ELSE NoId
  <2> HIDE DEF keys
  <2>1. Placeholders(e)[i] = IF i \in 1..Len(e.parts) THEN Id(i) ELSE NoId
    BY <1>5, <1>6
  <2>2. i \in 1..Len(e.parts) <=> i <= Len(e.parts)
    <3>1. i \in 1..keys
      BY <1>6
    <3> QED
      BY <1>2, <3>1
  <2> QED
    BY <2>1, <2>2
<1> QED
  BY <1>2, <1>3, <1>4, <1>7

(* The walks over the other statements of the program agree: ast_iterator    *)
(* visits the values in the order in which the serializer writes them.       *)
WalksAgree ==
    \A e \in Statements :
        Prepares(e) /\ e.kind \notin ObjectKinds => Skips(e) \/ Placeholders(e) = Bindings(e)

(* Nothing is ever bound behind the ids that are given. *)
OnlyIdsAreBound ==
    expression.kind \in ByKey =>
        \A i \in 1..placeholders : i > Len(expression.parts) => slots[i] = NotBound

(* The program's statement is one it has prepared, but for the objects of a  *)
(* range.  A statement that no longer exists has left nothing behind.        *)
PreparedInv ==
    /\ expression = NoStatement => fresh = FALSE
    /\ DOMAIN expression = {"kind", "parts", "table"}
    /\ \/ expression = NoStatement
       \/ expression \in Statements /\ Prepares(expression)
       \/ expression.kind \in RangeKinds
    /\ fresh \in BOOLEAN
    /\ OnlyIdsAreBound
    /\ WalksAgree => BoundAsWritten

(* The kinds of statement are told apart. *)
LEMMA Kinds ==
    /\ NoStatement.kind \notin ObjectKinds
    /\ RangeKinds \subseteq ObjectKinds \ ByKey /\ ByKey \subseteq ObjectKinds
BY DEF NoStatement, Leaf, ObjectKinds, RangeKinds, OneObject, ByKey

(* A statement that is executed to its end has bound what is written. *)
LEMMA ExecuteBinds ==
    ASSUME PreparedInv, WalksAgree, expression # NoStatement,
           BindFirst(Len(Bindings(expression)), Bindings(expression)),
           UNCHANGED <<expression, placeholders, changed>>
    PROVE  BoundAsWritten'
<1> SUFFICES ASSUME ~Skips(expression), Len(Placeholders(expression)) = placeholders
             PROVE  Bound(Placeholders(expression))'
  BY DEF BoundAsWritten
<1>1. \A name : Value(name)' = Value(name)
  BY DEF Value
<1>2. slots' = [i \in 1..placeholders |->
                    IF i <= Len(Bindings(expression)) THEN Value(Bindings(expression)[i]) ELSE slots[i]]
  BY DEF BindFirst
<1>3. CASE expression.kind \in ByKey
  <2>1. expression \in Statements
    BY <1>3, Kinds DEF PreparedInv
  <2> DEFINE n == Len(expression.parts)
  <2>2. n \in Nat /\ Len(Bindings(expression)) = n
    BY <1>3, <2>1, IdsAreBoundInOrder
  <2>3. \A i \in 1..n : Bindings(expression)[i] = Id(i)
    BY <1>3, <2>1, IdsAreBoundInOrder
  <2>4. \A i \in 1..placeholders : Placeholders(expression)[i] = IF i <= n THEN Id(i) ELSE NoId
    BY <1>3, <2>1, IdsAreBoundInOrder
  <2>5. \A i \in 1..placeholders : i > n => slots[i] = NotBound
    BY <1>3 DEF PreparedInv, OnlyIdsAreBound
  <2>6. Value(NoId) = NotBound
    BY DEF Value
  <2> HIDE DEF n
  <2>7. ASSUME NEW i \in 1..placeholders
        PROVE  slots'[i] = Value(Placeholders(expression)[i])
    <3>1. CASE i <= n
      BY <1>2, <2>2, <2>3, <2>4, <3>1
    <3>2. CASE ~(i <= n)
      BY <1>2, <2>2, <2>4, <2>5, <2>6, <3>2
    <3> QED
      BY <3>1, <3>2
  <2>8. slots' = [i \in 1..placeholders |-> Value(Placeholders(expression)[i])]
    BY <1>2, <2>7
  <2> QED
    BY <1>1, <2>8 DEF Bound
<1>4. CASE expression.kind \notin ByKey
  <2>1. Placeholders(expression) = Bindings(expression)
    BY <1>4, ObjectsAreBoundInOrder, Kinds DEF PreparedInv, WalksAgree
  <2>2. slots' = [i \in 1..placeholders |-> Value(Placeholders(expression)[i])]
    BY <1>2, <2>1
  <2> QED
    BY <1>1, <2>2 DEF Bound
<1> QED
  BY <1>3, <1>4

LEMMA PreparedStep == PreparedInv /\ [Next]_vars => PreparedInv'
<1> SUFFICES ASSUME PreparedInv, [Next]_vars PROVE PreparedInv'
  OBVIOUS
<1>1. NextPrepared(Statements) \/ UNCHANGED prepared
  BY Steps
<1>2. CASE UNCHANGED <<expression, placeholders, slots, changed, fresh>>
  BY <1>2 DEF PreparedInv, OnlyIdsAreBound, BoundAsWritten, Bound, Value
<1>3. ASSUME NEW e \in Statements, expression = NoStatement, prepare(e)
      PROVE  PreparedInv'
  <2>1. fresh' = FALSE /\ expression' = e /\ Prepares(e)
    BY <1>3 DEF prepare, PreparedInv
  <2>2. DOMAIN e = {"kind", "parts", "table"}
    BY StatementsAreNodes, Zenon
  <2>3. OnlyIdsAreBound'
    BY <1>3 DEF prepare, OnlyIdsAreBound
  <2> QED
    BY <2>1, <2>2, <2>3 DEF PreparedInv, BoundAsWritten
<1>4. CASE finalize
  <2>1. expression' = NoStatement /\ fresh' = FALSE
    BY <1>4 DEF finalize
  <2>2. OnlyIdsAreBound'
    BY <2>1, Kinds DEF OnlyIdsAreBound
  <2>3. DOMAIN NoStatement = {"kind", "parts", "table"}
    BY DEF NoStatement, Leaf
  <2> QED
    BY <2>1, <2>2, <2>3 DEF PreparedInv, BoundAsWritten
<1>5. CASE get
  <2>1. fresh' = FALSE /\ UNCHANGED <<placeholders, slots>>
    BY <1>5 DEF get
  <2>2. \/ UNCHANGED expression
        \/ \E objects \in Ranges : expression.kind \in RangeKinds /\ expression' = WithObjects(expression, objects)
    BY <1>5 DEF get, GetValue, GetObject, GetRange
  <2>3. \/ UNCHANGED expression
        \/ /\ expression.kind \in RangeKinds /\ expression'.kind = expression.kind
           /\ DOMAIN expression' = {"kind", "parts", "table"}
    BY <2>2 DEF WithObjects, PreparedInv
  <2>4. CASE UNCHANGED expression
    BY <2>1, <2>4 DEF PreparedInv, OnlyIdsAreBound, BoundAsWritten
  <2>5. CASE ~UNCHANGED expression
    <3>1. expression'.kind \in RangeKinds /\ DOMAIN expression' = {"kind", "parts", "table"}
      BY <2>3, <2>5
    <3>2. OnlyIdsAreBound'
      BY <3>1, Kinds DEF OnlyIdsAreBound
    <3> QED
      BY <2>1, <3>1, <3>2 DEF PreparedInv, BoundAsWritten
  <2> QED
    BY <2>4, <2>5
<1>6. CASE execute
  <2> DEFINE bindings == Bindings(expression)
  <2>1. expression # NoStatement /\ UNCHANGED <<expression, placeholders, changed>>
    BY <1>6 DEF execute
  <2>2. ASSUME NEW n \in 0..Len(bindings), BindFirst(n, bindings)
        PROVE  OnlyIdsAreBound'
    <3> SUFFICES ASSUME expression.kind \in ByKey, NEW i \in 1..placeholders, i > Len(expression.parts)
                 PROVE  slots'[i] = NotBound
      BY <2>1 DEF OnlyIdsAreBound
    <3>1. expression \in Statements
      BY Kinds DEF PreparedInv
    <3>2. Len(expression.parts) \in Nat /\ Len(bindings) = Len(expression.parts)
      BY <3>1, IdsAreBoundInOrder
    <3>3. slots[i] = NotBound
      BY DEF PreparedInv, OnlyIdsAreBound
    <3>4. ~(i <= n)
      BY <3>2
    <3> QED
      BY <2>2, <3>3, <3>4 DEF BindFirst
  <2>3. CASE BindFirst(Len(bindings), bindings) /\ fresh' = TRUE
    <3>1. WalksAgree => BoundAsWritten'
      BY <2>1, <2>3, ExecuteBinds
    <3>2. OnlyIdsAreBound'
      <4> SUFFICES ASSUME expression.kind \in ByKey PROVE OnlyIdsAreBound'
        BY <2>1 DEF OnlyIdsAreBound
      <4>1. expression \in Statements
        BY Kinds DEF PreparedInv
      <4>2. Len(bindings) \in Nat
        BY <4>1, IdsAreBoundInOrder
      <4> HIDE DEF bindings
      <4>3. Len(bindings) \in 0..Len(bindings)
        BY <4>2
      <4> QED
        BY <2>2, <2>3, <4>3
    <3> QED
      BY <2>1, <2>3, <3>1, <3>2 DEF PreparedInv
  <2>4. ASSUME NEW n \in 0..Len(bindings) - 1, BindFirst(n, bindings), fresh' = FALSE
        PROVE  PreparedInv'
    <3>1. OnlyIdsAreBound'
      <4> SUFFICES ASSUME expression.kind \in ByKey PROVE OnlyIdsAreBound'
        BY <2>1 DEF OnlyIdsAreBound
      <4>1. expression \in Statements
        BY Kinds DEF PreparedInv
      <4>2. Len(bindings) \in Nat
        BY <4>1, IdsAreBoundInOrder
      <4> HIDE DEF bindings
      <4>3. n \in 0..Len(bindings)
        BY <4>2
      <4> QED
        BY <2>2, <2>4, <4>3
    <3> QED
      BY <2>1, <2>4, <3>1 DEF PreparedInv, BoundAsWritten
  <2> QED
    BY <1>6, <2>3, <2>4 DEF execute
<1>7. UNCHANGED prepared \/ perform_steps => UNCHANGED <<expression, placeholders, slots, changed, fresh>>
  BY DEF prepared, perform_steps
<1> QED
  BY <1>1, <1>2, <1>3, <1>4, <1>5, <1>6, <1>7 DEF NextPrepared

LEMMA PreparedAlways == Spec => []PreparedInv
<1>1. Init => PreparedInv
  <2> SUFFICES ASSUME Init PROVE PreparedInv
    OBVIOUS
  <2>1. expression = NoStatement /\ fresh = FALSE
    BY DEF Init, InitPrepared
  <2>2. DOMAIN NoStatement = {"kind", "parts", "table"}
    BY DEF NoStatement, Leaf
  <2> QED
    BY <2>1, <2>2, Kinds DEF PreparedInv, OnlyIdsAreBound, BoundAsWritten
<1> QED
  BY <1>1, PreparedStep, PTL DEF Spec

(* If ast_iterator and the serializer agree on each expression that the      *)
(* program prepares, then no sequence of get<N>, of replaced ranges and of   *)
(* failed executions can make SQLite execute a statement with other values   *)
(* than those of the expression.  For statements of objects and of keys,     *)
(* with any number of ids, nothing is assumed.                               *)
THEOREM ExecutesWhatIsWritten ==
    ASSUME WalksAgree
    PROVE  Spec => []BoundAsWritten
<1>1. PreparedInv => BoundAsWritten
  BY DEF PreparedInv
<1> QED
  BY <1>1, PreparedAlways, PTL
-----------------------------------------------------------------------------
(* The iterators of a view *)

(* An iterator that shares the statement shows an object, unless its last    *)
(* step has thrown; it is the row that the statement stands on, unless a     *)
(* copy has been advanced past it.                                           *)
RowsInv ==
    /\ stmt \subseteq Iterators /\ failed \subseteq stmt /\ stale \subseteq stmt
    /\ current \in [Iterators -> 0..Rows]
    /\ position \in 0..Rows + 1
    /\ \A i \in Iterators \ stmt : current[i] = 0
    /\ \A i \in stmt \ failed : current[i] # 0
    /\ \A i \in stmt \ (stale \cup failed) : current[i] = position

(* step() puts the iterator on the row of the statement, and lets it go at   *)
(* the end of the rows; the others keep what they show.                      *)
LEMMA StepShows ==
    ASSUME RowsInv, NEW i \in Iterators, View!Step(i)
    PROVE  /\ position' \in 0..Rows + 1
           /\ \E row \in 0..Rows : current' = [current EXCEPT ![i] = row]
           /\ stmt' \in {stmt \cup {i}, stmt \ {i}} /\ failed' \in {failed \cup {i}, failed \ {i}}
           /\ i \in stmt' \/ i \notin failed'
           /\ i \in stmt' \ failed' => current'[i] = position' /\ current'[i] # 0
           /\ i \notin stmt' => current'[i] = 0
<1>1. Rows \in Nat
  BY ExecutionConstants
<1>2. View!Following \in 1..Rows + 1
  BY <1>1 DEF View!Following, RowsInv
<1>3. CASE /\ position' = View!Following
           /\ View!Show(i, IF View!Following > Rows THEN View!None ELSE View!Following)
           /\ stmt' = IF View!Following > Rows THEN stmt \ {i} ELSE stmt \cup {i}
           /\ failed' = failed \ {i}
  <2>1. PICK row \in 0..Rows : row = IF View!Following > Rows THEN 0 ELSE View!Following
    BY <1>1, <1>2
  <2>2. current' = [current EXCEPT ![i] = row]
    BY <1>3, <2>1 DEF View!Show, View!None
  <2>3. current'[i] = row
    BY <2>2 DEF RowsInv
  <2>4. IF View!Following > Rows THEN stmt' = stmt \ {i} /\ row = 0
                                 ELSE stmt' = stmt \cup {i} /\ row = position' /\ row # 0
    BY <1>1, <1>2, <1>3, <2>1
  <2>5. position' \in 0..Rows + 1
    BY <1>1, <1>2, <1>3
  <2> QED
    BY <1>3, <2>2, <2>3, <2>4, <2>5
<1>4. CASE /\ i \in stmt
           /\ \/ position' = Rows + 1 /\ View!Show(i, View!None)
              \/ /\ View!Following <= Rows /\ position' = View!Following
                 /\ View!Show(i, View!Following)
           /\ failed' = failed \cup {i}
           /\ UNCHANGED stmt
  BY <1>1, <1>2, <1>4 DEF View!Show, View!None, RowsInv
<1> QED
  BY <1>3, <1>4 DEF View!Step

LEMMA RowsStep == RowsInv /\ [Next]_vars => RowsInv'
<1> SUFFICES ASSUME RowsInv, [Next]_vars PROVE RowsInv'
  OBVIOUS
<1>1. View!NextRows \/ UNCHANGED rows
  BY Steps
<1>2. CASE UNCHANGED rows
  BY <1>2 DEF rows, RowsInv
<1>3. ASSUME NEW i \in Iterators, View!begin(i)
      PROVE  RowsInv'
  <2>1. stmt = {} /\ View!Step(i) /\ UNCHANGED stale
    BY <1>3 DEF View!begin
  <2> QED
    BY <2>1, StepShows DEF RowsInv
<1>4. ASSUME NEW i \in Iterators, View!advance(i)
      PROVE  RowsInv'
  <2>1. i \in stmt /\ View!Step(i) /\ stale' = (stale \cup stmt) \ {i}
    BY <1>4 DEF View!advance
  <2>2. PICK row \in 0..Rows : current' = [current EXCEPT ![i] = row]
    BY <2>1, StepShows
  <2> QED
    BY <2>1, <2>2, StepShows DEF RowsInv
<1>5. ASSUME NEW i \in Iterators, View!destroy(i)
      PROVE  RowsInv'
  BY <1>5, ExecutionConstants DEF View!destroy, View!Show, View!None, RowsInv
<1>6. ASSUME NEW i \in Iterators, NEW j \in Iterators, View!copy(i, j)
      PROVE  RowsInv'
  BY <1>6 DEF View!copy, View!Show, RowsInv
<1> QED
  BY <1>1, <1>2, <1>3, <1>4, <1>5, <1>6 DEF View!NextRows

LEMMA RowsAlways == Spec => []RowsInv
<1>1. Init => RowsInv
  BY ExecutionConstants DEF Init, View!InitRows, View!None, RowsInv
<1> QED
  BY <1>1, RowsStep, PTL DEF Spec

(* operator* of a mapped_iterator that has its statement always finds an     *)
(* object, for any number of copies, rows and failures.                      *)
THEOREM IteratorsShowObjects == Spec => []DerefIsSafe
<1>1. RowsInv => DerefIsSafe
  BY DEF RowsInv, DerefIsSafe, View!DerefIsSafe, View!None
<1> QED
  BY <1>1, RowsAlways, PTL

(* A loop over the newest copy sees every row once and in order, and         *)
(* operator++ of one iterator never changes the object that another shows.   *)
THEOREM LoopsSeeRowsInOrder == Spec => RowsInOrder
<1> DEFINE InOrder ==
       /\ \A i \in stmt \ (stale \cup failed) :
            \/ current'[i] \in {current[i], current[i] + 1}
            \/ current'[i] = View!None /\ (current[i] = Rows \/ i \in failed' \/ position' \in {position, 0})
       /\ \A i, j \in Iterators :
            current'[i] # current[i] /\ current'[j] # current[j] => i = j
<1>1. RowsInv /\ [Next]_vars => [InOrder]_View!rows
  <2> SUFFICES ASSUME RowsInv, View!NextRows PROVE InOrder
    BY Steps DEF rows, View!rows
  <2>1. Rows \in Nat /\ stmt \subseteq Iterators /\ current \in [Iterators -> 0..Rows]
    BY ExecutionConstants DEF RowsInv
  <2>2. ASSUME NEW i \in Iterators, View!begin(i)
        PROVE  InOrder
    BY <2>1, <2>2, StepShows DEF View!begin
  <2>3. ASSUME NEW i \in Iterators, View!destroy(i)
        PROVE  InOrder
    BY <2>1, <2>3 DEF View!destroy, View!Show
  <2>4. ASSUME NEW i \in Iterators, NEW j \in Iterators, View!copy(i, j)
        PROVE  InOrder
    BY <2>1, <2>4 DEF View!copy, View!Show
  <2>5. ASSUME NEW i \in Iterators, View!advance(i)
        PROVE  InOrder
    <3>1. PICK row \in 0..Rows : current' = [current EXCEPT ![i] = row]
      BY <2>5, StepShows DEF View!advance
    <3>2. ASSUME i \in stmt \ (stale \cup failed)
          PROVE  \/ current'[i] = current[i] + 1
                 \/ current'[i] = View!None /\ (current[i] = Rows \/ i \in failed')
      <4>1. current[i] = position /\ position \in 1..Rows
        BY <2>1, <3>2 DEF RowsInv
      <4>2. View!Following = current[i] + 1
        BY <2>1, <4>1 DEF View!Following
      <4> QED
        BY <2>1, <2>5, <3>2, <4>1, <4>2 DEF View!advance, View!Step, View!Show
    <3> QED
      BY <2>1, <3>1, <3>2
  <2> QED
    BY <2>2, <2>3, <2>4, <2>5 DEF View!NextRows
<1> QED
  BY <1>1, RowsAlways, PTL DEF Spec, RowsInOrder, View!RowsInOrder
-----------------------------------------------------------------------------
(* Backups *)

Held == {b \in Backups : backup[b] # "none"}
Live == {b \in Backups : backup[b] = "live"}

(* The references that are still to be destroyed, by their ends. *)
In(m) == IF m \in dying THEN 1 ELSE 0
RefsTo(e) == IF toStorage <=> e = "storage" THEN In("to") + In("to_") ELSE In("from") + In("from_")
Referring(e) == IF e = "other" THEN RefsTo(e) + In("conRef") ELSE RefsTo(e)

(* One object at most is alive and not moved from: it has SQLite's handle    *)
(* and the holder, if there is one.  When it is destroyed the handle goes    *)
(* before the references and these before the holder.  Every object and      *)
(* every reference that is not destroyed has raised the count of its end.    *)
BackupInv ==
    /\ backup \in [Backups -> {"none", "live", "moved"}]
    /\ \A b, c \in Live : b = c
    /\ dying \subseteq {"handle", "from", "to", "holder", "from_", "to_", "conRef"}
    /\ toStorage \in BOOLEAN /\ freed \in BOOLEAN /\ misused \in BOOLEAN
    /\ count = [e \in Copy!Ends |-> Cardinality(Held) + Referring(e)]
    /\ handle # {} /\ "handle" \notin dying => \E b \in Live : handle = {b}
    /\ "handle" \in dying => "to" \in dying /\ "from" \in dying
    /\ owner # "nobody" /\ "holder" \notin dying => owner \in Live
    /\ "holder" \in dying => Live = {}
    /\ owner # "nobody" \/ "holder" \in dying => ~freed
    /\ freed => handle = {}

(* The holder is needed after it is destroyed when and only when one of the  *)
(* two mishaps has happened.                                                 *)
MishapInv ==
    /\ misused \/ (freed /\ (Held # {} \/ dying # {})) => mishaps # {}
    /\ "holder" \in dying /\ (Held # {} \/ dying \cap {"from_", "to_", "conRef"} # {}) => mishaps # {}
    /\ mishaps # {} =>
        \/ misused
        \/ freed /\ (Held # {} \/ \E m \in dying : Copy!EndOf(m) = "other")
        \/ "holder" \in dying /\ (Held # {} \/ "conRef" \in dying)

LEMMA HeldFinite == IsFiniteSet(Held) /\ Cardinality(Held) \in Nat
BY ExecutionConstants, FS_Subset, FS_CardinalityType DEF Held

(* One more object, or one less. *)
LEMMA HeldGrows ==
    ASSUME NEW b \in Backups, b \notin Held, Held' = Held \cup {b}
    PROVE  Cardinality(Held') = Cardinality(Held) + 1
BY HeldFinite, FS_AddElement

LEMMA HeldShrinks ==
    ASSUME NEW b \in Held, Held' = Held \ {b}
    PROVE  Cardinality(Held') = Cardinality(Held) - 1
BY HeldFinite, FS_RemoveElement

(* What may still be there when it is the turn of a member. *)
LEMMA TurnOf ==
    ASSUME BackupInv, NEW m \in dying, Copy!DestroyMember(m)
    PROVE  /\ m # "handle" => "handle" \notin dying
           /\ m = "holder" => "to" \notin dying /\ "from" \notin dying
           /\ m = "conRef" => "holder" \notin dying
<1>1. \A n \in dying : Copy!Rank[m] <= Copy!Rank[n]
  BY DEF Copy!DestroyMember
<1>2. m \in {"handle", "from", "to", "holder", "from_", "to_", "conRef"}
  BY DEF BackupInv
<1> QED
  BY <1>1, <1>2 DEF Copy!Rank

(* The constructor and the call count three references to a file's           *)
(* connection, and two to any other.                                         *)
LEMMA MakeStep ==
    ASSUME BackupInv, MishapInv, NEW file \in BOOLEAN, NEW into \in BOOLEAN, NEW otherBusy \in BOOLEAN,
           Copy!MakeBackup(file, into, otherBusy)
    PROVE  /\ \A c \in Backups : backup[c] = "none"
           /\ dying = {} /\ Held = {} /\ Live = {} /\ Cardinality(Held) = 0 /\ handle = {} /\ owner = "nobody"
           /\ toStorage' = into /\ freed' = FALSE /\ misused' = FALSE
           /\ count' = [e \in Copy!Ends |-> IF file /\ e = "other" THEN 3 ELSE 2]
<1>1. /\ dying = {} /\ \A c \in Backups : backup[c] = "none"
      /\ toStorage' = into /\ freed' = FALSE /\ misused' = FALSE
      /\ count' = [e \in Copy!Ends |-> count[e] + IF file /\ e = "other" THEN 3 ELSE 2]
  BY DEF Copy!MakeBackup
<1>2. Held = {} /\ Live = {}
  BY <1>1 DEF Held, Live
<1>3. Cardinality(Held) = 0
  BY <1>2, FS_EmptySet
<1>4. handle = {} /\ owner = "nobody"
  BY <1>1, <1>2 DEF BackupInv
<1>5. \A e \in Copy!Ends : count[e] = 0
  BY <1>1, <1>3 DEF BackupInv, Referring, RefsTo, In
<1> QED
  BY <1>1, <1>2, <1>3, <1>4, <1>5

LEMMA MakeBackupStep ==
    ASSUME BackupInv, MishapInv, NEW b \in Backups, NEW file \in BOOLEAN, NEW into \in BOOLEAN,
           NEW otherBusy \in BOOLEAN, Copy!make_backup(b, file, into, otherBusy)
    PROVE  (BackupInv /\ MishapInv)'
<1>1. /\ Copy!MakeBackup(file, into, otherBusy)
      /\ backup' = [backup EXCEPT ![b] = "live"] /\ handle' = {b}
      /\ owner' = IF file THEN b ELSE "nobody"
      /\ dying' = {"to_", "from_"} \cup IF file THEN {"conRef"} ELSE {}
      /\ mishaps' = {}
  BY DEF Copy!make_backup
<1>2. /\ \A c \in Backups : backup[c] = "none"
      /\ Cardinality(Held) = 0 /\ Held = {}
      /\ toStorage' = into /\ freed' = FALSE /\ misused' = FALSE
      /\ count' = [e \in Copy!Ends |-> IF file /\ e = "other" THEN 3 ELSE 2]
  BY <1>1, MakeStep
<1>3. Held' = {b} /\ Live' = {b} /\ backup' \in [Backups -> {"none", "live", "moved"}]
  BY <1>1, <1>2 DEF Held, Live, BackupInv
<1>4. Cardinality(Held') = 1
  BY <1>2, <1>3, HeldGrows
<1>5. \A e \in Copy!Ends : Referring(e)' = IF file /\ e = "other" THEN 2 ELSE 1
  BY <1>1, <1>2 DEF Referring, RefsTo, In, Copy!Ends
<1>6. count' = [e \in Copy!Ends |-> Cardinality(Held') + Referring(e)']
  BY <1>2, <1>4, <1>5
<1>7. /\ dying' \subseteq {"from_", "to_", "conRef"}
      /\ "handle" \notin dying' /\ "holder" \notin dying'
  BY <1>1
<1>8. owner' # "nobody" => owner' = b
  BY <1>1
<1>9. BackupInv'
  BY <1>1, <1>2, <1>3, <1>6, <1>7, <1>8 DEF BackupInv
<1>10. MishapInv'
  BY <1>1, <1>2, <1>7 DEF MishapInv
<1> QED
  BY <1>9, <1>10

LEMMA MakeBackupThrowsStep ==
    ASSUME BackupInv, MishapInv, NEW file \in BOOLEAN, NEW into \in BOOLEAN, NEW otherBusy \in BOOLEAN,
           Copy!MakeBackupThrows(file, into, otherBusy)
    PROVE  (BackupInv /\ MishapInv)'
<1>1. /\ Copy!MakeBackup(file, into, otherBusy)
      /\ dying' = {"to", "from", "to_", "from_"} \cup IF file THEN {"holder", "conRef"} ELSE {}
      /\ mishaps' = IF file THEN {"threw"} ELSE {}
      /\ UNCHANGED <<backup, handle, owner>>
  BY DEF Copy!MakeBackupThrows
<1>2. /\ Cardinality(Held) = 0 /\ Held = {} /\ Live = {} /\ handle = {} /\ owner = "nobody"
      /\ toStorage' = into /\ freed' = FALSE /\ misused' = FALSE
      /\ count' = [e \in Copy!Ends |-> IF file /\ e = "other" THEN 3 ELSE 2]
  BY <1>1, MakeStep
<1>3. Held' = {} /\ Live' = {} /\ Cardinality(Held') = 0
  BY <1>1, <1>2 DEF Held, Live
<1>4. \A e \in Copy!Ends : Referring(e)' = IF file /\ e = "other" THEN 3 ELSE 2
  BY <1>1, <1>2 DEF Referring, RefsTo, In, Copy!Ends
<1>5. count' = [e \in Copy!Ends |-> Cardinality(Held') + Referring(e)']
  BY <1>2, <1>3, <1>4
<1>6. BackupInv'
  BY <1>1, <1>2, <1>3, <1>5 DEF BackupInv
<1>7. MishapInv'
  BY <1>1, <1>2, <1>3 DEF MishapInv
<1> QED
  BY <1>6, <1>7

LEMMA MoveStep ==
    ASSUME BackupInv, MishapInv, NEW b \in Backups, NEW c \in Backups, Copy!move(b, c)
    PROVE  (BackupInv /\ MishapInv)'
<1>1. /\ dying = {} /\ b \in Held /\ c \notin Held /\ b # c
      /\ backup' = [backup EXCEPT ![b] = "moved", ![c] = backup[b]]
      /\ handle' = IF b \in handle THEN {c} ELSE handle
      /\ owner' = IF owner = b THEN c ELSE owner
      /\ count' = [e \in Copy!Ends |-> count[e] + 1]
      /\ misused' = (misused \/ freed)
      /\ UNCHANGED <<toStorage, freed, dying, mishaps>>
  BY DEF Copy!move, Held
<1>2. Held' = Held \cup {c} /\ backup' \in [Backups -> {"none", "live", "moved"}]
  BY <1>1 DEF Held, BackupInv
<1>3. Live' = IF b \in Live THEN {c} ELSE Live
  BY <1>1 DEF Held, Live, BackupInv
<1>4. Cardinality(Held') = Cardinality(Held) + 1 /\ Cardinality(Held) \in Nat
  BY <1>1, <1>2, HeldGrows, HeldFinite
<1>5. \A e \in Copy!Ends : Referring(e)' = Referring(e) /\ Referring(e) = 0
  BY <1>1 DEF Referring, RefsTo, In
<1>6. count' = [e \in Copy!Ends |-> Cardinality(Held') + Referring(e)']
  BY <1>1, <1>4, <1>5 DEF BackupInv
<1>7. handle' # {} => \E d \in Live' : handle' = {d}
  <2>1. handle # {} => \E d \in Live : handle = {d}
    BY <1>1 DEF BackupInv
  <2>2. b \in Live => Live = {b}
    BY DEF BackupInv
  <2> QED
    BY <1>1, <1>3, <2>1, <2>2
<1>8. owner' # "nobody" => owner' \in Live'
  <2>1. "nobody" \notin Backups
    BY ExecutionConstants
  <2>2. owner # "nobody" => owner \in Live
    BY <1>1 DEF BackupInv
  <2>3. b \in Live => Live = {b}
    BY DEF BackupInv
  <2> QED
    BY <1>1, <1>3, <2>1, <2>2, <2>3
<1>9. (owner' # "nobody" => ~freed) /\ (freed => handle' = {})
  BY <1>1, ExecutionConstants DEF BackupInv
<1>10. \A d, e \in Live' : d = e
  BY <1>3 DEF BackupInv
<1>11. BackupInv'
  BY <1>1, <1>2, <1>6, <1>7, <1>8, <1>9, <1>10 DEF BackupInv
<1>12. MishapInv'
  BY <1>1, <1>2 DEF MishapInv
<1> QED
  BY <1>11, <1>12

LEMMA DestroyStep ==
    ASSUME BackupInv, MishapInv, NEW b \in Backups, Copy!destroy(b)
    PROVE  (BackupInv /\ MishapInv)'
<1>1. /\ dying = {} /\ b \in Held
      /\ backup' = [backup EXCEPT ![b] = "none"]
      /\ dying' = {"to", "from"} \cup (IF b \in handle THEN {"handle"} ELSE {})
                                 \cup (IF owner = b THEN {"holder"} ELSE {})
      /\ mishaps' = mishaps \cup IF owner = b /\ Held \ {b} # {} THEN {"outlived"} ELSE {}
      /\ UNCHANGED <<handle, owner, toStorage, count, freed, misused>>
  BY DEF Copy!destroy, Held
<1>2. Held' = Held \ {b} /\ Live' = Live \ {b} /\ backup' \in [Backups -> {"none", "live", "moved"}]
  BY <1>1 DEF Held, Live, BackupInv
<1>3. Cardinality(Held') = Cardinality(Held) - 1 /\ Cardinality(Held) \in Nat
  BY <1>1, <1>2, HeldShrinks, HeldFinite
<1>4. \A e \in Copy!Ends : Referring(e) = 0 /\ Referring(e)' = 1
  BY <1>1 DEF Referring, RefsTo, In, BackupInv
<1>5. count' = [e \in Copy!Ends |-> Cardinality(Held') + Referring(e)']
  BY <1>1, <1>3, <1>4 DEF BackupInv
<1>6. b \in handle => handle = {b} /\ b \in Live
  BY <1>1 DEF BackupInv
<1>7. b \in Live => Live = {b}
  BY DEF BackupInv
<1>8. handle' # {} /\ "handle" \notin dying' => \E d \in Live' : handle' = {d}
  BY <1>1, <1>2, <1>6 DEF BackupInv
<1>9. "nobody" \notin Backups
  BY ExecutionConstants
<1>10. owner # "nobody" => owner \in Live /\ ~freed
  BY <1>1 DEF BackupInv
<1>11. "holder" \in dying' <=> owner = b
  BY <1>1
<1>12. /\ owner' # "nobody" /\ "holder" \notin dying' => owner' \in Live'
       /\ "holder" \in dying' => Live' = {}
       /\ owner' # "nobody" \/ "holder" \in dying' => ~freed'
  BY <1>1, <1>2, <1>7, <1>9, <1>10, <1>11
<1>13. BackupInv'
  BY <1>1, <1>2, <1>5, <1>8, <1>12 DEF BackupInv
<1>14. MishapInv'
  <2>1. freed => mishaps # {}
    BY <1>1 DEF MishapInv
  <2>2. misused => mishaps # {}
    BY DEF MishapInv
  <2>3. "holder" \in dying' /\ (Held' # {} \/ dying' \cap {"from_", "to_", "conRef"} # {}) => mishaps' # {}
    BY <1>1, <1>2
  <2>4. \E m \in dying' : Copy!EndOf(m)' = "other"
    BY <1>1 DEF Copy!EndOf
  <2>5. mishaps # {} => misused \/ freed
    BY <1>1 DEF MishapInv
  <2>6. mishaps' # mishaps => "holder" \in dying' /\ Held' # {}
    BY <1>1, <1>2
  <2> QED
    BY <1>1, <2>1, <2>2, <2>3, <2>4, <2>5, <2>6 DEF MishapInv
<1> QED
  BY <1>13, <1>14

LEMMA DestroyMemberStep ==
    ASSUME BackupInv, MishapInv, NEW m \in dying, Copy!DestroyMember(m)
    PROVE  (BackupInv /\ MishapInv)'
<1>1. /\ dying' = dying \ {m}
      /\ handle' = IF m = "handle" THEN {} ELSE handle
      /\ count' = [e \in Copy!Ends |-> IF e = Copy!EndOf(m) THEN count[e] - 1 ELSE count[e]]
      /\ misused' = (misused \/ (Copy!EndOf(m) = "other" /\ freed))
      /\ owner' = IF m = "holder" THEN "nobody" ELSE owner
      /\ freed' = (freed \/ m = "holder")
      /\ UNCHANGED <<backup, toStorage, mishaps>>
  BY DEF Copy!DestroyMember
<1>2. Held' = Held /\ Live' = Live
  BY <1>1 DEF Held, Live
<1>3. /\ m # "handle" => "handle" \notin dying
      /\ m = "holder" => "to" \notin dying /\ "from" \notin dying
  BY TurnOf
<1>4. m \in {"handle", "from", "to", "holder", "from_", "to_", "conRef"} /\ toStorage \in BOOLEAN
  BY DEF BackupInv
<1>5. \A e \in Copy!Ends : Referring(e)' = IF e = Copy!EndOf(m) THEN Referring(e) - 1 ELSE Referring(e)
  BY <1>1, <1>4 DEF Referring, RefsTo, In, Copy!EndOf, Copy!Ends
<1>6. \A e \in Copy!Ends : Referring(e) \in Int
  BY DEF Referring, RefsTo, In
<1>7. count' = [e \in Copy!Ends |-> Cardinality(Held') + Referring(e)']
  <2>1. count = [e \in Copy!Ends |-> Cardinality(Held) + Referring(e)]
    BY DEF BackupInv
  <2>2. Cardinality(Held) \in Nat
    BY HeldFinite
  <2>3. \A e \in Copy!Ends : count'[e] = Cardinality(Held) + Referring(e)'
    BY <1>1, <1>5, <1>6, <2>1, <2>2
  <2> QED
    BY <1>1, <1>2, <2>3
<1>8. "handle" \in dying' => FALSE
  BY <1>1, <1>3
<1>9. m = "holder" => Live = {} /\ ~freed
  BY DEF BackupInv
<1>10. handle' # {} => \E b \in Live : handle' = {b}
  BY <1>1, <1>3 DEF BackupInv
<1>11. freed' => handle' = {}
  BY <1>1, <1>9, <1>10 DEF BackupInv
<1>12. BackupInv'
  <2>1. /\ owner' # "nobody" /\ "holder" \notin dying' => owner' \in Live
        /\ "holder" \in dying' => Live = {}
        /\ owner' # "nobody" \/ "holder" \in dying' => ~freed'
    BY <1>1, <1>9 DEF BackupInv
  <2>2. dying' \subseteq {"handle", "from", "to", "holder", "from_", "to_", "conRef"}
    BY <1>1 DEF BackupInv
  <2>3. freed' \in BOOLEAN /\ misused' \in BOOLEAN
    BY <1>1 DEF BackupInv
  <2> QED
    BY <1>1, <1>2, <1>7, <1>8, <1>10, <1>11, <2>1, <2>2, <2>3 DEF BackupInv
<1>13. MishapInv'
  <2>1. \A n : Copy!EndOf(n)' = Copy!EndOf(n)
    BY <1>1 DEF Copy!EndOf
  <2>2. Copy!EndOf("conRef") = "other" /\ Copy!EndOf("holder") = "none"
    BY DEF Copy!EndOf
  <2>3. CASE m = "holder"
    <3>1. dying' \subseteq {"from_", "to_", "conRef"}
      BY <1>1, <1>3, <1>4, <2>3 DEF BackupInv
    <3>2. Held # {} \/ dying' # {} => mishaps # {}
      BY <1>1, <2>3, <3>1 DEF MishapInv
    <3>3. misused' = misused /\ freed' = TRUE /\ "holder" \notin dying'
      BY <1>1, <2>2, <2>3 DEF BackupInv
    <3>4. misused => mishaps # {}
      BY DEF MishapInv
    <3>5. mishaps # {} => misused \/ Held # {} \/ "conRef" \in dying
      BY <1>9, <2>3 DEF MishapInv
    <3>6. "conRef" \in dying => "conRef" \in dying'
      BY <1>1, <2>3
    <3> QED
      BY <1>1, <1>2, <2>1, <2>2, <3>2, <3>3, <3>4, <3>5, <3>6 DEF MishapInv
  <2>4. CASE m # "holder"
    <3>1. freed' = freed /\ ("holder" \in dying' <=> "holder" \in dying) /\ dying' \subseteq dying
      BY <1>1, <2>4 DEF BackupInv
    <3>2. misused' => mishaps # {}
      BY <1>1 DEF MishapInv
    <3>3. freed /\ (Held # {} \/ dying' # {}) => mishaps # {}
      BY <3>1 DEF MishapInv
    <3>4. "holder" \in dying' /\ (Held # {} \/ dying' \cap {"from_", "to_", "conRef"} # {}) => mishaps # {}
      BY <3>1 DEF MishapInv
    <3>5. "holder" \in dying => m # "conRef"
      BY TurnOf
    <3>6. ASSUME NEW n \in dying, Copy!EndOf(n) = "other", freed
          PROVE  misused' \/ \E k \in dying' : Copy!EndOf(k) = "other"
      BY <1>1, <3>6
    <3>7. mishaps # {} =>
            \/ misused'
            \/ freed /\ (Held # {} \/ \E k \in dying' : Copy!EndOf(k) = "other")
            \/ "holder" \in dying' /\ (Held # {} \/ "conRef" \in dying')
      BY <1>1, <3>1, <3>5, <3>6 DEF MishapInv
    <3> QED
      BY <1>1, <1>2, <2>1, <3>1, <3>2, <3>3, <3>4, <3>7 DEF MishapInv
  <2> QED
    BY <2>3, <2>4
<1> QED
  BY <1>12, <1>13

LEMMA BackupStep == BackupInv /\ MishapInv /\ [Next]_vars => (BackupInv /\ MishapInv)'
<1> SUFFICES ASSUME BackupInv, MishapInv, [Next]_vars PROVE (BackupInv /\ MishapInv)'
  OBVIOUS
<1>1. Copy!NextBackup \/ UNCHANGED backups
  BY Steps
<1>2. CASE UNCHANGED backups
  BY <1>2 DEF backups, BackupInv, MishapInv, Held, Live, Referring, RefsTo, In, Copy!EndOf
<1> QED
  BY <1>1, <1>2, MakeBackupStep, MakeBackupThrowsStep, MoveStep, DestroyStep, DestroyMemberStep
  DEF Copy!NextBackup

LEMMA BackupAlways == Spec => [](BackupInv /\ MishapInv)
<1>1. Init => BackupInv /\ MishapInv
  <2> SUFFICES ASSUME Init PROVE BackupInv /\ MishapInv
    OBVIOUS
  <2>1. Held = {} /\ Live = {} /\ Cardinality(Held) = 0
    BY FS_EmptySet DEF Init, Copy!InitBackup, Held, Live
  <2>2. \A e \in Copy!Ends : Referring(e) = 0
    BY DEF Init, Copy!InitBackup, Referring, RefsTo, In
  <2>3. /\ backup = [b \in Backups |-> "none"] /\ handle = {} /\ owner = "nobody"
        /\ toStorage = FALSE /\ count = [e \in Copy!Ends |-> 0]
        /\ freed = FALSE /\ dying = {} /\ misused = FALSE /\ mishaps = {}
    BY DEF Init, Copy!InitBackup
  <2>4. count = [e \in Copy!Ends |-> Cardinality(Held) + Referring(e)]
    BY <2>1, <2>2, <2>3
  <2>5. BackupInv
    BY <2>1, <2>3, <2>4 DEF BackupInv
  <2>6. MishapInv
    BY <2>3 DEF MishapInv
  <2> QED
    BY <2>5, <2>6
<1> QED
  BY <1>1, BackupStep, PTL DEF Spec

(* However many backup_t objects there are and in whatever order they are    *)
(* moved and destroyed, a connection_ref uses a destroyed holder exactly     *)
(* when the constructor has thrown or a moved-from object has outlived the   *)
(* holder.                                                                   *)
THEOREM HolderIsDestroyedLast == Spec => []HolderOutlivesReferences
<1>1. BackupInv /\ MishapInv => HolderOutlivesReferences
  <2> SUFFICES ASSUME BackupInv, MishapInv PROVE HolderOutlivesReferences
    OBVIOUS
  <2>1. (\A b \in Backups : backup[b] = "none") => Held = {}
    BY DEF Held
  <2> QED
    BY <2>1 DEF MishapInv, HolderOutlivesReferences, Copy!HolderOutlivesReferences
<1> QED
  BY <1>1, BackupAlways, PTL

(* As long as sqlite3_backup_finish has not been called both connections are *)
(* open, in every order of moves and at every step of a destruction.         *)
THEOREM HandleKeepsConnections == Spec => []HandleHasConnections
<1>1. BackupInv => HandleHasConnections
  <2> SUFFICES ASSUME BackupInv, handle # {}
               PROVE  ~freed /\ \A e \in Copy!Ends : count[e] > 0
    BY DEF HandleHasConnections, Copy!HandleHasConnections
  <2>1. ~freed
    BY DEF BackupInv
  <2> SUFFICES ASSUME NEW e \in Copy!Ends PROVE count[e] > 0
    BY <2>1
  <2>2. count[e] = Cardinality(Held) + Referring(e) /\ Cardinality(Held) \in Nat
    BY HeldFinite DEF BackupInv
  <2>3. Referring(e) \in Nat
    BY DEF Referring, RefsTo, In
  <2>4. CASE "handle" \in dying
    <3>1. Referring(e) > 0
      BY <2>4 DEF BackupInv, Referring, RefsTo, In
    <3> QED
      BY <2>2, <2>3, <3>1
  <2>5. CASE "handle" \notin dying
    <3>1. Held # {}
      BY <2>5 DEF BackupInv, Held, Live
    <3>2. Cardinality(Held) > 0
      BY <3>1, HeldFinite, FS_EmptySet
    <3> QED
      BY <2>2, <2>3, <3>2
  <2> QED
    BY <2>4, <2>5
<1> QED
  BY <1>1, BackupAlways, PTL
=============================================================================
