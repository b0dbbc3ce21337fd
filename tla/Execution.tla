------------------------------ MODULE Execution ------------------------------
(* What one storage executes on its connection: a prepared statement, the    *)
(* iterators of a view, and a backup.  They meet in SQLite, which does not   *)
(* overwrite a database that a statement is reading.                         *)
EXTENDS PreparedStatement

CONSTANTS
    Statements,     \* the statement expressions of the program
    Companions,     \* those that it uses together with iterators and backups
    Iterators, Rows, MaxStale,
    Backups

VARIABLES stmt, current, position, failed, stale, restarts,
          backup, handle, owner, toStorage, count, freed, dying, misused, mishaps

View == INSTANCE RowIterators

ASSUME ExecutionConstants ==
    /\ Companions \subseteq Statements
    /\ MaxChanges \in Nat /\ Rows \in Nat \ {0} /\ MaxStale \in Nat
    /\ "nobody" \notin Backups /\ IsFiniteSet(Backups)

ASSUME StatementsAreNodes ==
    \A e \in Statements :
        /\ {"kind", "parts", "table"} = DOMAIN e /\ e.kind # NoStatement.kind
        /\ e.kind \in ByKey => e.parts \in Seq({value}) /\ Len(KeyColumns(e.table)) \in Nat

Reading == cursor = "row" \/ View!RowsRead

Copy == INSTANCE Backup WITH reading <- Reading

rows == <<stmt, current, position, failed, stale, restarts>>
backups == <<backup, handle, owner, toStorage, count, freed, dying, misused, mishaps>>
vars == <<prepared, rows, backups>>

Init == InitPrepared /\ View!InitRows /\ Copy!InitBackup

(* A statement that is not a companion is looked at by itself. *)
Alone == expression \notin Companions \cup {NoStatement}
Others == View!InitRows /\ Copy!InitBackup

(* A call ends before the next one begins. *)
Next ==
    \/ /\ dying = {}
       /\ NextPrepared(IF Others THEN Statements ELSE Companions)
       /\ UNCHANGED <<rows, backups>>
    \/ ~Alone /\ ~looping /\ dying = {} /\ View!NextRows /\ UNCHANGED <<prepared, backups>>
    \/ ~Alone /\ ~looping /\ Copy!NextBackup /\ UNCHANGED <<prepared, rows>>

Spec == Init /\ [][Next]_vars
-----------------------------------------------------------------------------
(* An iterator that holds its statement has an object to show, unless its    *)
(* last step threw: the test in mapped_iterator::operator* is enough.        *)
DerefIsSafe == View!DerefIsSafe

(* A loop with mapped_iterator sees every row once and in order, and copies  *)
(* keep the object they show.                                                *)
RowsInOrder == View!RowsInOrder

(* No connection_ref of a backup_t outlives the connection_holder that the   *)
(* backup_t owns, but when its constructor throws and when a moved-from      *)
(* object outlives the one that was moved to.                                *)
HolderOutlivesReferences == Copy!HolderOutlivesReferences

(* A backup_t finishes its handle before it lets go of the connections.      *)
HandleHasConnections == Copy!HandleHasConnections
=============================================================================
