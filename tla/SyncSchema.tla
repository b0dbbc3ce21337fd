----------------------------- MODULE SyncSchema -----------------------------
(* sync_schema as the sequence of SQL statements it executes, outside of any *)
(* transaction: each statement is a step, and any of them may fail, or the   *)
(* process may end, with what was done so far left in the database.  The     *)
(* program may call sync_schema again.                                       *)
(*                                                                           *)
(* The storage maps one table, an index on it and possibly sqlite_master, to *)
(* which dbstat is equal.  The database may also have a table of children    *)
(* with a foreign key to the table, and tables that already have the names   *)
(* of backup tables.                                                         *)
EXTENDS SyncColumns

CONSTANTS
    Mappings,       \* the column sequences make_table may have been given
    Databases,      \* the column sequences the table may have at first, <<>>: no table
    Taken,          \* the sets of backup names that may be in use at first
    Children,       \* what the foreign key of the children does ON DELETE: "cascade", "restrict"
    Objects,        \* the schema objects in the order of the make_storage arguments
    Builds,         \* the SQLite versions and options the program may be built with
    Interruptions,  \* bound on the failures that have no cause in the model
    MaxCalls,       \* bound on the calls of sync_schema
    MaxBackups      \* bound on the number of backup names

Target == 0                     \* the mapped table's name; n > 0 is the n-th backup name
TableNames == 0..MaxBackups
NoTable == [cols |-> <<>>, rows |-> {}]

Kinds == {"table", "index", "sqlite_master"}

ASSUME ObjectsOfStorage == Objects \in Seq(Kinds) /\ IsInjective(Objects)
ASSUME ColumnsOfTables ==
    Databases \subseteq Seq(Columns) /\ Mappings \subseteq Seq(Columns) \ {<<>>}
ASSUME BuildsOfStorage == Builds \subseteq [hasDropColumn : BOOLEAN, quotedIsText : BOOLEAN]
ASSUME SyncBounds == Interruptions \in Nat /\ MaxCalls \in Nat /\ MaxBackups \in Nat

VARIABLES
    build,          \* has ALTER TABLE DROP COLUMN; takes an unknown "name" for a string
    storage,        \* the columns given to make_table
    tables,         \* the tables of the database
    index,          \* the index exists
    children,       \* the rows of the children's table
    phase,          \* of the current call: "idle", "syncing", "done" or "failed"
    preserve,       \* its argument
    pending,        \* the objects it has not come to yet
    todo,           \* the statements it still has to execute for the current object
    result,         \* the map it is going to return
    predicted,      \* what sync_schema_simulate would have returned before the call
    before,         \* the tables before the call
    calls, faults   \* number of calls and of interruptions so far

database == <<tables, index, children>>
program == <<phase, preserve, pending, todo, result, predicted, before, calls>>
source == <<build, storage>>
vars == <<source, database, program, faults>>

Exists(n) == tables[n].cols # <<>>
Results == {"new_table_created", "already_in_sync", "old_columns_removed", "new_columns_added",
            "new_columns_added_and_old_columns_removed", "dropped_and_recreated"}

(* A row says of each column where the value comes from. *)
Origins == {"own", "other", "default", "null", "computed", "text"}

(* A table with a row of the program's data, or of somebody else's. *)
Filled(cols, origin) ==
    [cols |-> cols, rows |-> IF cols = <<>> THEN {} ELSE {[n \in NamesOf(cols) |-> origin]}]

TypeOK ==
    /\ build \in Builds /\ storage \in Mappings
    /\ \A n \in TableNames : \A r \in tables[n].rows : r \in [NamesOf(tables[n].cols) -> Origins]
    /\ DOMAIN tables = TableNames
    /\ index \in BOOLEAN /\ (index => Exists(Target))
    /\ children \in Children \cup {"none", "gone"}
    /\ phase \in {"idle", "syncing", "done", "failed"}
    /\ preserve \in BOOLEAN
    /\ pending \in Seq(Kinds)
    /\ \A o \in DOMAIN result : result[o] \in Results
    /\ calls \in 0..MaxCalls /\ faults \in 0..Interruptions

Init ==
    /\ build \in Builds /\ storage \in Mappings
    /\ \E cols \in Databases, taken \in Taken :
        tables = [n \in TableNames |-> IF n = Target THEN Filled(cols, "own")
                                       ELSE IF n \in taken THEN Filled(storage, "other") ELSE NoTable]
    /\ index \in IF Exists(Target) THEN BOOLEAN ELSE {FALSE}
    /\ children \in IF Exists(Target) THEN Children ELSE {"none"}
    /\ phase = "idle" /\ preserve = FALSE
    /\ pending = <<>> /\ todo = <<>>
    /\ result = <<>> /\ predicted = <<>> /\ before = tables
    /\ calls = 0 /\ faults = 0
-----------------------------------------------------------------------------
(* The statements, in the order in which a call executes them. *)

CreateTable(name) == [op |-> "create", at |-> name]
DropTable(name) == [op |-> "drop", at |-> name]
RenameTable(from, to) == [op |-> "rename", at |-> from, to |-> to]
CopyTable(from, to, columnNames) == [op |-> "copy", at |-> from, to |-> to, names |-> columnNames]
AddColumn(column) == [op |-> "add column", at |-> Target, column |-> column]
DropColumn(column) == [op |-> "drop column", at |-> Target, column |-> column]
CreateIndex == [op |-> "index", at |-> Target]

(* backup_table takes the first backup name that is not in use. *)
FreeNames == {n \in TableNames \ {Target} : ~Exists(n)}

(* Variant: a table that has the backup name is taken for the backup. *)
BackupTableReuses(ignored) ==
    <<CopyTable(Target, 1, NamesOf(storage) \ {c.name : c \in ignored}),
      DropTable(Target), RenameTable(1, Target)>>

(* Variant: the table is dropped before it is copied. *)
BackupTableDropsFirst(ignored) ==
    LET backup == Min(FreeNames)
    IN  <<CreateTable(backup),
          DropTable(Target),
          CopyTable(Target, backup, NamesOf(storage) \ {c.name : c \in ignored}),
          RenameTable(backup, Target)>>

(* Variant: the rows are copied back and the backup is forgotten. *)
BackupTableCopiesBack(ignored) ==
    LET backup == Min(FreeNames)
        names == NamesOf(storage) \ {c.name : c \in ignored}
    IN  <<CreateTable(backup), CopyTable(Target, backup, names), DropTable(Target),
          CreateTable(Target), CopyTable(backup, Target, names)>>

(* backup_table; copy_table copies the mapped columns but those to ignore. *)
BackupTable(ignored) ==
    LET backup == Min(FreeNames)
    IN  <<CreateTable(backup),
          CopyTable(Target, backup, NamesOf(storage) \ {c.name : c \in ignored}),
          DropTable(Target),
          RenameTable(backup, Target)>>

DropCreateWithLoss == <<DropTable(Target), CreateTable(Target)>>

DropColumns(cols) == [i \in DOMAIN cols |-> DropColumn(cols[i])]

AddColumns(cols) == [i \in DOMAIN cols |-> AddColumn(cols[i])]

(* Variant: res keeps its initial value when columns are removed in place. *)
DoingUnassigned(statements, res) ==
    [todo |-> statements,
     res |-> IF res = "old_columns_removed" THEN "already_in_sync" ELSE res]

(* What a sync_table executes, and returns when all of it has succeeded. *)
Doing(statements, res) == [todo |-> statements, res |-> res]

(* sync_table for an index: CREATE INDEX IF NOT EXISTS. *)
SyncIndex == Doing(<<CreateIndex>>, "already_in_sync")

(* sync_table for sqlite_master and dbstat returns at once. *)
SyncMaster == Doing(<<>>, "already_in_sync")

(* sync_table for any other table, by the status of the table. *)
SyncTable(status) ==
    LET diff == CalculateRemoveAddColumns(storage, tables[Target].cols)
        added == ColumnsOf(diff.columnsToAdd)
    IN  CASE status.res = "already_in_sync" -> Doing(<<>>, "already_in_sync")
          [] status.res = "new_table_created" ->
                Doing(<<CreateTable(Target)>>, "new_table_created")
          [] status.res = "old_columns_removed" ->
                Doing(IF build.hasDropColumn THEN DropColumns(diff.dbTableInfo)
                      ELSE BackupTable({}),
                      "old_columns_removed")
          [] status.res = "new_columns_added" ->
                Doing(AddColumns(diff.columnsToAdd), "new_columns_added")
          [] status.res = "new_columns_added_and_old_columns_removed" ->
                Doing(BackupTable(added \cup Generated(storage)),
                      "new_columns_added_and_old_columns_removed")
          [] status.res = "dropped_and_recreated" ->
                Doing(IF preserve /\ status.attempt
                      THEN BackupTable(added \cup Generated(diff.storageTableInfo))
                      ELSE DropCreateWithLoss,
                      status.res)
-----------------------------------------------------------------------------
(* SQLite: whether a statement fails, and what it does when it does not. *)

Composite(cols) == \E c \in ColumnsOf(cols) : c.pk > 1

(* The value of a column an INSERT or ADD COLUMN does not mention; an        *)
(* integer key numbers itself.                                               *)
Filler(c) == CASE c.gen # "no" -> "computed"
               [] c.gen = "no" /\ (c.dflt \/ c.pk > 0) -> "default"
               [] OTHER -> "null"

(* The row that INSERT ... SELECT makes of a row of another table. *)
Copied(row, names, cols) ==
    [n \in NamesOf(cols) |->
        IF n \in names
        THEN IF n \in DOMAIN row THEN row[n] ELSE "text"
        ELSE Filler(CHOOSE c \in ColumnsOf(cols) : c.name = n)]

CopyFails(s) ==
    LET from == tables[s.at]
        to == tables[s.to]
    IN  \/ s.names = {}
        \/ from.cols = <<>> \/ to.cols = <<>>
        \/ \E c \in Generated(to.cols) : c.name \in s.names
        \/ ~build.quotedIsText /\ ~(s.names \subseteq NamesOf(from.cols))
        \/ \E r \in from.rows, c \in ColumnsOf(to.cols) :
            c.notnull /\ Copied(r, s.names, to.cols)[c.name] = "null"

Fails(s) ==
    CASE s.op = "create" -> Exists(s.at)
      [] s.op = "drop" -> \/ ~Exists(s.at)
                          \/ s.at = Target /\ children = "restrict" /\ tables[Target].rows # {}
      [] s.op = "rename" -> ~Exists(s.at) \/ Exists(s.to)
      [] s.op = "copy" -> CopyFails(s)
      [] s.op = "add column" -> \/ s.column.name \in NamesOf(tables[Target].cols)
                                \/ Stored(s.column)
                                \/ s.column.pk > 0 /\ ~Composite(storage)
                                \/ LacksValue(s.column) /\ tables[Target].rows # {}
      [] s.op = "drop column" -> s.column.pk > 0 \/ Len(tables[Target].cols) = 1
      [] s.op = "index" -> ~Exists(Target)

(* Variant: the rows do not get a value of the new column. *)
WithColumnUnfilled(t, c) ==
    [cols |-> Append(t.cols, [c EXCEPT !.pk = 0]), rows |-> t.rows]

(* ADD COLUMN has the column's own constraints, not those of the table, such *)
(* as a composite primary key.                                               *)
WithColumn(t, c) ==
    [cols |-> Append(t.cols, [c EXCEPT !.pk = 0]),
     rows |-> {[n \in DOMAIN r \cup {c.name} |-> IF n = c.name THEN Filler(c) ELSE r[n]] :
                    r \in t.rows}]

WithoutColumn(t, c) ==
    [cols |-> Without(t.cols, {c.name}),
     rows |-> {[n \in DOMAIN r \ {c.name} |-> r[n]] : r \in t.rows}]

TablesAfter(s) ==
    CASE s.op = "create" -> [tables EXCEPT ![s.at] = [cols |-> storage, rows |-> {}]]
      [] s.op = "drop" -> [tables EXCEPT ![s.at] = NoTable]
      [] s.op = "rename" -> [tables EXCEPT ![s.at] = NoTable, ![s.to] = tables[s.at]]
      [] s.op = "copy" ->
            [tables EXCEPT ![s.to].rows =
                @ \cup {Copied(r, s.names, tables[s.to].cols) : r \in tables[s.at].rows}]
      [] s.op = "add column" -> [tables EXCEPT ![Target] = WithColumn(@, s.column)]
      [] s.op = "drop column" -> [tables EXCEPT ![Target] = WithoutColumn(@, s.column)]
      [] s.op = "index" -> tables

(* An index goes with its table, and so do the rows that refer to it: DROP   *)
(* TABLE deletes the table's rows first.                                     *)
Perform(s) ==
    /\ tables' = TablesAfter(s)
    /\ index' = (s.op = "index" \/ (index /\ ~(s.at = Target /\ s.op \in {"drop", "rename"})))
    /\ children' = IF /\ s.op = "drop" /\ s.at = Target
                      /\ children = "cascade" /\ tables[Target].rows # {}
                   THEN "gone" ELSE children
-----------------------------------------------------------------------------
Status(cols, withPreserve) ==
    SchemaStatus(storage, cols, withPreserve, build.hasDropColumn)

(* sync_schema_simulate; sqlite_master has no row that table_exists finds. *)
Simulate(withPreserve) ==
    [o \in Range(Objects) |->
        CASE o = "table" -> Status(tables[Target].cols, withPreserve).res
          [] o = "sqlite_master" -> Status(<<>>, withPreserve).res
          [] o = "index" -> "already_in_sync"]

(* Variant: the objects are taken in the order of the arguments. *)
IterateTupleForwards == Objects

(* iterate_tuple<true>: the objects are taken from the last to the first. *)
IterateTuple == [i \in DOMAIN Objects |-> Objects[(Len(Objects) - i) + 1]]

SyncSchema(withPreserve) ==
    /\ phase # "syncing"
    /\ calls < MaxCalls
    /\ FreeNames # {}
    /\ phase' = "syncing" /\ preserve' = withPreserve
    /\ pending' = IterateTuple /\ todo' = <<>>
    /\ result' = <<>> /\ predicted' = Simulate(withPreserve)
    /\ before' = tables
    /\ calls' = calls + 1
    /\ UNCHANGED <<source, database, faults>>

(* The next call of sync_table: what it finds out and is going to do.        *)
SyncObject ==
    /\ phase = "syncing" /\ todo = <<>> /\ pending # <<>>
    /\ LET o == Head(pending)
           doing == CASE o = "table" -> SyncTable(Status(tables[Target].cols, preserve))
                      [] o = "index" -> SyncIndex
                      [] o = "sqlite_master" -> SyncMaster
       IN  /\ pending' = Tail(pending)
           /\ todo' = doing.todo
           /\ result' = [x \in DOMAIN result \cup {o} |->
                            IF x \in DOMAIN result THEN result[x] ELSE doing.res]
    /\ UNCHANGED <<source, database, phase, preserve, predicted, before, calls, faults>>

Execute ==
    /\ phase = "syncing" /\ todo # <<>> /\ ~Fails(Head(todo))
    /\ Perform(Head(todo))
    /\ todo' = Tail(todo)
    /\ UNCHANGED <<source, phase, preserve, pending, result, predicted, before, calls, faults>>

Throw == /\ phase' = "failed" /\ pending' = <<>> /\ todo' = <<>> /\ result' = <<>>
         /\ UNCHANGED <<source, database, preserve, predicted, before, calls>>

(* The statement cannot be executed: perform_void_exec throws. *)
StatementFails ==
    /\ phase = "syncing" /\ todo # <<>> /\ Fails(Head(todo))
    /\ Throw
    /\ UNCHANGED faults

(* The disk is full, the database is locked, the process is killed ... *)
Interrupted ==
    /\ phase = "syncing"
    /\ faults < Interruptions
    /\ Throw
    /\ faults' = faults + 1

Return ==
    /\ phase = "syncing" /\ todo = <<>> /\ pending = <<>>
    /\ phase' = "done"
    /\ UNCHANGED <<source, database, preserve, pending, todo, result, predicted, before, calls, faults>>

Next ==
    \/ \E p \in BOOLEAN : SyncSchema(p)
    \/ SyncObject \/ Execute \/ StatementFails \/ Interrupted \/ Return

Spec == Init /\ [][Next]_vars
-----------------------------------------------------------------------------
(* What is so of the table after the call when a sync_schema_result is true. *)
Describes(res) ==
    LET was == NamesOf(before[Target].cols)
        is == NamesOf(tables[Target].cols)
    IN  CASE res = "new_table_created" -> was = {} /\ tables[Target].cols = storage
          [] res = "already_in_sync" -> tables[Target] = before[Target]
          [] res = "old_columns_removed" -> is \subseteq was /\ is # was
          [] res = "new_columns_added" -> was \subseteq is /\ is # was
          [] res = "new_columns_added_and_old_columns_removed" ->
                ~(is \subseteq was) /\ ~(was \subseteq is)
          [] res = "dropped_and_recreated" -> was # {} /\ tables[Target].cols = storage

(* The map tells what has become of the columns, and so has the map that     *)
(* sync_schema_simulate returned before, also when what the call found was   *)
(* left by one that was interrupted.                                         *)
ResultIsTrue ==
    phase = "done" /\ "table" \in Range(Objects) =>
        Describes(result["table"]) /\ Describes(predicted["table"])

(* Columns without the difference between virtual and stored. *)
Specified(cols) == {[c EXCEPT !.gen = (c.gen # "no")] : c \in ColumnsOf(cols)}

(* sync_schema "guarantees ... that it will make db schema the same as you   *)
(* specified": a call that returns leaves the mapped columns and no others,  *)
(* with their constraints, whatever earlier calls were interrupted.  Whether *)
(* a generated column is virtual or stored may differ.                       *)
SchemaIsAsSpecified ==
    phase = "done" => Specified(tables[Target].cols) = Specified(storage)

(* The loss of data a call announces by dropped_and_recreated. *)
MayLose ==
    LET status == Status(before[Target].cols, preserve)
    IN  status.res = "dropped_and_recreated" /\ ~(preserve /\ status.attempt)

Alive(ts) == {n \in NamesOf(storage) :
                \E t \in TableNames : \E r \in ts[t].rows : n \in DOMAIN r /\ r[n] = "own"}

(* Whenever a call fails or is interrupted, and also when it returns, the    *)
(* data of every mapped column that there was before is still in the table   *)
(* or in a backup table, unless the table is dropped with loss.              *)
DataSurvives ==
    phase = "idle" \/ MayLose
        \/ Alive(before) \ {c.name : c \in Generated(storage)} \subseteq Alive(tables)

(* "Excess tables are ignored": a table that has the name of a backup,       *)
(* somebody else's or one left by an interrupted call, is never touched.     *)
OtherTablesUntouched ==
    \A n \in TableNames \ {Target} : before[n] # NoTable => tables[n] = before[n]

(* A call that returns leaves no backup table behind. *)
NoBackupLeft ==
    phase = "done" => \A n \in TableNames \ {Target} : tables[n] = before[n]

(* A call that returns leaves the index, also when the table was recreated. *)
IndexExists == phase = "done" => index

(* Columns are removed and added "without dropping a table": the rows of     *)
(* other tables that refer to the table are deleted only by a call whose map *)
(* has dropped_and_recreated for it.                                         *)
ChildrenSurvive ==
    [][children' = "gone" /\ children # "gone" =>
        result["table"] = "dropped_and_recreated"]_vars

(* "There is no way to preserve data, so we wont try": with a new column     *)
(* that is NOT NULL and has no default the rows are not copied.              *)
UnpreservableIsNotCopied ==
    \A i \in DOMAIN todo : \A c \in ColumnsOf(storage) :
        todo[i].op = "copy" /\ LacksValue(c) => c.name \in NamesOf(before[Target].cols)
=============================================================================
