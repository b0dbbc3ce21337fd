---------------------------- MODULE RowIterators ----------------------------
(* The iterators of a view over the rows of a table.  A mapped_iterator      *)
(* shares its statement and its current object with its copies; begin() of   *)
(* the view prepares a statement of its own for every family of copies.      *)
EXTENDS Integers, FiniteSets

CONSTANTS
    Iterators,      \* the mapped_iterator objects of the program
    Rows,           \* the number of rows of the result
    MaxStale        \* bound on the advances of copies that another one has left behind

None == 0

VARIABLES
    stmt,           \* the iterators that share the statement
    current,        \* the row of the object each iterator shows, or None
    position,       \* of the statement: 0 before its first row, Rows + 1 after its last
    failed,         \* the iterators whose last step has thrown
    stale,          \* the iterators that a copy has advanced past
    restarts        \* how often a stale one went on

rows == <<stmt, current, position, failed, stale, restarts>>

InitRows ==
    /\ stmt = {} /\ failed = {} /\ stale = {}
    /\ current = [i \in Iterators |-> None]
    /\ position = 0
    /\ restarts = 0

(* sqlite3_step: a statement that was at its end starts again. *)
Following == IF position > Rows THEN 1 ELSE position + 1

(* Variant: the object is overwritten in place, for all that share it. *)
ShowInPlace(i, row) ==
    current' = [j \in Iterators |->
                    IF j = i \/ (current[i] # None /\ current[j] = current[i]) THEN row ELSE current[j]]

(* extract_object makes a new object; the copies keep theirs. *)
Show(i, row) == current' = [current EXCEPT ![i] = row]

(* Variant: the share of the statement is kept at the end. *)
StepKeeps(i) ==
    /\ position' = Following
    /\ Show(i, IF Following > Rows THEN None ELSE Following)
    /\ stmt' = stmt \cup {i}
    /\ failed' = failed \ {i}

(* step().  At the end the iterator drops its share of the statement.  When  *)
(* SQLite fails it keeps it, without an object; when the extraction fails it *)
(* keeps it with an incomplete object.                                       *)
Step(i) ==
    \/ /\ position' = Following
       /\ Show(i, IF Following > Rows THEN None ELSE Following)
       /\ stmt' = IF Following > Rows THEN stmt \ {i} ELSE stmt \cup {i}
       /\ failed' = failed \ {i}
    \/ /\ i \in stmt
       /\ \/ position' = Rows + 1 /\ Show(i, None)
          \/ Following <= Rows /\ position' = Following /\ Show(i, Following)
       /\ failed' = failed \cup {i}
       /\ UNCHANGED stmt

(* mapped_view::begin: an iterator that cannot be constructed is not there. *)
begin(i) ==
    /\ stmt = {}
    /\ Step(i)
    /\ restarts' = 0
    /\ UNCHANGED stale

copy(i, j) ==
    /\ i \in stmt /\ j \notin stmt
    /\ stmt' = stmt \cup {j}
    /\ Show(j, current[i])
    /\ failed' = IF i \in failed THEN failed \cup {j} ELSE failed
    /\ stale' = IF i \in stale THEN stale \cup {j} ELSE stale
    /\ UNCHANGED <<position, restarts>>

(* operator++.  The copies of the iterator are left behind. *)
advance(i) ==
    /\ i \in stmt
    /\ i \in stale => restarts < MaxStale
    /\ Step(i)
    /\ stale' = (stale \cup stmt) \ {i}
    /\ restarts' = IF i \in stale THEN restarts + 1 ELSE restarts

(* The last of the iterators that share the statement finalizes it. *)
destroy(i) ==
    /\ i \in stmt
    /\ stmt' = stmt \ {i}
    /\ Show(i, None)
    /\ failed' = failed \ {i} /\ stale' = stale \ {i}
    /\ position' = IF stmt = {i} THEN 0 ELSE position
    /\ restarts' = IF stmt = {i} THEN 0 ELSE restarts

NextRows ==
    \E i \in Iterators : begin(i) \/ advance(i) \/ destroy(i) \/ \E j \in Iterators : copy(i, j)

(* The statement stands on a row, and with it the read transaction. *)
RowsRead == stmt # {} /\ position \in 1..Rows
-----------------------------------------------------------------------------
(* operator* tests whether there is a statement and then follows the pointer *)
(* to the object: there is one, whatever the copies have done, unless the    *)
(* last step threw.  An iterator without a statement shows no object.        *)
DerefIsSafe ==
    \A i \in Iterators :
        /\ i \in stmt \ failed => current[i] # None
        /\ i \notin stmt => current[i] = None

(* A loop that advances the newest copy sees every row once, in order; and   *)
(* advancing one iterator leaves the object that another one shows alone, as *)
(* the copy that the postfix operator returns needs it.                      *)
RowsInOrder ==
    [][/\ \A i \in stmt \ (stale \cup failed) :
            \/ current'[i] \in {current[i], current[i] + 1}
            \/ current'[i] = None /\ (current[i] = Rows \/ i \in failed' \/ position' \in {position, 0})
       /\ \A i, j \in Iterators :
            current'[i] # current[i] /\ current'[j] # current[j] => i = j]_rows
=============================================================================
