----------------------------- MODULE SyncStages -----------------------------
(* How far a call of sync_schema has come: which tables there are when some  *)
(* of its statements are still to be executed, and with it the invariant     *)
(* that the properties of SyncSchema follow from.                            *)
EXTENDS SyncSchema

TableOK(t) ==
    /\ t = [cols |-> t.cols, rows |-> t.rows]
    /\ t.cols \in Seq(Columns)
    /\ \A r \in t.rows : r \in [NamesOf(t.cols) -> Origins]

TablesOK(ts) ==
    /\ ts = [n \in TableNames |-> ts[n]]
    /\ \A n \in TableNames : TableOK(ts[n]) /\ (n # Target /\ ts[n].cols = <<>> => ts[n] = NoTable)
-----------------------------------------------------------------------------
(* How far a call has come with the table.  Its statements and what they do  *)
(* follow from the tables before the call.                                   *)

Told == Status(before[Target].cols, preserve)
Diff == CalculateRemoveAddColumns(storage, before[Target].cols)
Excess == Diff.dbTableInfo
Lacking == Diff.columnsToAdd

Created == [cols |-> storage, rows |-> {}]

CreateStage(rest) ==
    /\ Told.res = "new_table_created"
    /\ \E k \in 0..1 :
        /\ rest = SubSeq(<<CreateTable(Target)>>, k + 1, 1)
        /\ tables = IF k = 0 THEN before ELSE [before EXCEPT ![Target] = Created]

WithLoss == Told.res = "dropped_and_recreated" /\ ~(preserve /\ Told.attempt)

LossStage(rest) ==
    /\ WithLoss
    /\ \E k \in 0..2 :
        /\ rest = SubSeq(DropCreateWithLoss, k + 1, 2)
        /\ tables = IF k = 0 THEN before
                    ELSE [before EXCEPT ![Target] = IF k = 1 THEN NoTable ELSE Created]

ByBackup ==
    \/ Told.res = "old_columns_removed" /\ ~build.hasDropColumn
    \/ Told.res = "new_columns_added_and_old_columns_removed"
    \/ Told.res = "dropped_and_recreated" /\ preserve /\ Told.attempt

Ignored ==
    IF Told.res = "old_columns_removed" THEN {}
    ELSE ColumnsOf(Lacking) \cup Generated(IF Told.res = "dropped_and_recreated" THEN Diff.storageTableInfo
                                           ELSE storage)

CopiedNames == NamesOf(storage) \ {c.name : c \in Ignored}
Copy == [cols |-> storage, rows |-> {Copied(r, CopiedNames, storage) : r \in before[Target].rows}]

BackupPlan(b) ==
    <<CreateTable(b), CopyTable(Target, b, CopiedNames), DropTable(Target), RenameTable(b, Target)>>

BackupTables(b, k) ==
    CASE k = 0 -> before
      [] k = 1 -> [before EXCEPT ![b] = Created]
      [] k = 2 -> [before EXCEPT ![b] = Copy]
      [] k = 3 -> [before EXCEPT ![b] = Copy, ![Target] = NoTable]
      [] k = 4 -> [before EXCEPT ![Target] = Copy]

BackupStage(rest) ==
    /\ ByBackup
    /\ \E b \in TableNames \ {Target}, k \in 0..4 :
        /\ before[b] = NoTable
        /\ rest = SubSeq(BackupPlan(b), k + 1, 4)
        /\ tables = BackupTables(b, k)

OthersStay == \A n \in TableNames \ {Target} : tables[n] = before[n]

(* A row without some of its columns, and the columns that k statements drop. *)
Minus(row, names) == [n \in DOMAIN row \ names |-> row[n]]
Dropped(k) == {Excess[i].name : i \in 1..k}

DropStage(rest) ==
    /\ Told.res = "old_columns_removed" /\ build.hasDropColumn
    /\ OthersStay
    /\ \E k \in 0..Len(Excess) :
        /\ rest = SubSeq(DropColumns(Excess), k + 1, Len(Excess))
        /\ ColumnsOf(tables[Target].cols) = {c \in ColumnsOf(before[Target].cols) : c.name \notin Dropped(k)}
        /\ tables[Target].rows = {Minus(r, Dropped(k)) : r \in before[Target].rows}

(* A row is kept when there is one that has all its values. *)
Has(q, r) == \A n \in DOMAIN r : n \in DOMAIN q /\ q[n] = r[n]
Keeps(rows, r) == \E q \in rows : Has(q, r)

(* The columns that k statements add. *)
Added(k) == {[Lacking[i] EXCEPT !.pk = 0] : i \in 1..k}

AddStage(rest) ==
    /\ Told.res = "new_columns_added"
    /\ OthersStay
    /\ \E k \in 0..Len(Lacking) :
        /\ rest = SubSeq(AddColumns(Lacking), k + 1, Len(Lacking))
        /\ ColumnsOf(tables[Target].cols) = ColumnsOf(before[Target].cols) \cup Added(k)
        /\ \A i \in 1..k : Lacking[i].pk > 0 => Composite(storage)
        /\ \A r \in before[Target].rows : Keeps(tables[Target].rows, r)

SameStage(rest) ==
    /\ Told.res = "already_in_sync"
    /\ rest = <<>>
    /\ tables = before

Stage(rest) ==
    \/ SameStage(rest) \/ CreateStage(rest) \/ LossStage(rest)
    \/ BackupStage(rest) \/ DropStage(rest) \/ AddStage(rest)
-----------------------------------------------------------------------------
(* The invariant *)

Mapped == "table" \in Range(Objects)
Begun == Mapped /\ "table" \notin Range(pending)

Typed ==
    /\ build \in Builds /\ storage \in Mappings
    /\ TablesOK(tables) /\ TablesOK(before)
    /\ index \in BOOLEAN /\ (index => Exists(Target))
    /\ children \in Children \cup {"none", "gone"}
    /\ phase \in {"idle", "syncing", "done", "failed"}
    /\ preserve \in BOOLEAN
    /\ calls \in 0..MaxCalls /\ faults \in 0..Interruptions

(* What sync_table returns for an object. *)
Returned(o) == IF o = "table" THEN Told.res ELSE "already_in_sync"

(* The objects come one after the other, and the map has what was told of    *)
(* those that have been begun with.                                          *)
Order ==
    /\ pending \in Seq(Kinds) /\ IsInjective(pending)
    /\ Range(pending) \subseteq Range(Objects)
    /\ phase # "syncing" => pending = <<>> /\ todo = <<>>
    /\ phase # "idle" /\ Mapped => predicted["table"] = Told.res
    /\ phase \in {"syncing", "done"} => result = [o \in Range(Objects) \ Range(pending) |-> Returned(o)]
    /\ phase \in {"idle", "failed"} => result = <<>>

(* When the index was given first, it is the last to be come to. *)
IndexLast ==
    phase \in {"syncing", "done"} /\ Objects # <<>> /\ Head(Objects) = "index" =>
        IF pending = <<>> THEN todo = <<CreateIndex>> \/ (todo = <<>> /\ index)
        ELSE pending[Len(pending)] = "index"

Free == \E n \in TableNames \ {Target} : before[n].cols = <<>>

Syncing ==
    /\ Free
    /\ ~Begun => tables = before /\ todo \in {<<>>, <<CreateIndex>>}
    /\ Begun => Stage(todo) \/ (todo = <<CreateIndex>> /\ Stage(<<>>))

Reached == \E rest : Stage(rest)

SyncInv ==
    /\ Typed /\ Order /\ IndexLast
    /\ phase = "idle" => tables = before
    /\ phase = "syncing" => Syncing
    /\ phase = "done" => IF Mapped THEN Stage(<<>>) ELSE tables = before
    /\ phase = "failed" => tables = before \/ Reached
-----------------------------------------------------------------------------
(* One step of a call *)

(* What the statements of a call follow from does not change during it. *)
Same == UNCHANGED <<build, storage, preserve, before>>

(* What a call may rely on. *)
Sound ==
    /\ build \in Builds /\ storage \in Mappings /\ preserve \in BOOLEAN
    /\ TablesOK(tables) /\ TablesOK(before)

(* One more statement is executed. *)
Step(s) == Same /\ ~Fails(s) /\ tables' = TablesAfter(s)

(* The tables stay sound, and the table is there unless it is dropped. *)
Goes(s) ==
    /\ TablesOK(tables')
    /\ Exists(Target) /\ s.op # "drop" => Exists(Target)'

(* What ALTER TABLE DROP COLUMN makes of a table ... *)
LacksColumn(u, t, c) ==
    /\ ColumnsOf(u.cols) = {d \in ColumnsOf(t.cols) : d.name # c.name}
    /\ u.rows = {Minus(r, {c.name}) : r \in t.rows}

(* ... and what ADD COLUMN does. *)
Plus(row, c) == [n \in DOMAIN row \cup {c.name} |-> IF n = c.name THEN Filler(c) ELSE row[n]]

HasColumn(u, t, c) ==
    /\ ColumnsOf(u.cols) = ColumnsOf(t.cols) \cup {[c EXCEPT !.pk = 0]}
    /\ u.rows = {Plus(r, c) : r \in t.rows}
    /\ u.cols # <<>>

(* What Specified says of a column. *)
Spelled(c) == [c EXCEPT !.gen = (c.gen # "no")]
=============================================================================
