----------------------------- MODULE ColumnDiff -----------------------------
(* The loop of calculate_remove_add_columns: it erases elements of the two   *)
(* vectors it searches, keeps pointers to elements of one of them, and steps *)
(* its index back after each erasure, below zero at times.  What it computes *)
(* is compared with CalculateRemoveAddColumns of SyncColumns.                *)
EXTENDS SyncColumns

CONSTANTS
    StorageInfos, DbInfos,  \* the column vectors to compare
    SizeMod                 \* the number of values of size_t

ASSUME SizeAssumption == SizeMod \in Nat \ {0} /\ \A s \in StorageInfos : Len(s) < SizeMod
ASSUME ColumnsAssumption ==
    \A cols \in StorageInfos \cup DbInfos :
        /\ cols \in Seq(ColumnsOf(cols))
        /\ \A i, j \in DOMAIN cols : cols[i].name = cols[j].name => i = j

VARIABLES
    given,              \* the arguments
    storageTableInfo, dbTableInfo, columnsToAdd, notEqual,
    pushed,             \* the columns columnsToAdd pointed to when they were pushed
    index,              \* storageColumnInfoIndex, counted from 0
    pc                  \* "test", "body", "step" or "return"

vars == <<given, storageTableInfo, dbTableInfo, columnsToAdd, notEqual, pushed, index, pc>>

(* Pointers are positions in the vector, from 1. *)
TypeOK ==
    /\ given \in [storage : StorageInfos, db : DbInfos]
    /\ ColumnsOf(storageTableInfo) \subseteq ColumnsOf(given.storage)
    /\ ColumnsOf(dbTableInfo) \subseteq ColumnsOf(given.db)
    /\ columnsToAdd \in Seq(Nat)
    /\ notEqual \in BOOLEAN
    /\ index \in 0..SizeMod - 1
    /\ pc \in {"test", "body", "step", "return"}
    /\ pc = "body" => index < Len(storageTableInfo)

Init ==
    /\ given \in [storage : StorageInfos, db : DbInfos]
    /\ storageTableInfo = given.storage /\ dbTableInfo = given.db
    /\ columnsToAdd = <<>> /\ pushed = <<>>
    /\ notEqual = FALSE
    /\ index = 0
    /\ pc = "test"

(* Variant: one more round than there are columns. *)
TestBeyondEnd ==
    /\ pc = "test"
    /\ pc' = IF index <= Len(storageTableInfo) THEN "body" ELSE "return"
    /\ UNCHANGED <<given, storageTableInfo, dbTableInfo, columnsToAdd, notEqual, pushed, index>>

Test ==
    /\ pc = "test"
    /\ pc' = IF index < Len(storageTableInfo) THEN "body" ELSE "return"
    /\ UNCHANGED <<given, storageTableInfo, dbTableInfo, columnsToAdd, notEqual, pushed, index>>

Column == storageTableInfo[index + 1]

(* std::find_if: the positions of the column in dbTableInfo. *)
Found == {j \in DOMAIN dbTableInfo : dbTableInfo[j].name = Column.name}

Differs ==
    /\ pc = "body" /\ Found # {}
    /\ ~ColumnsAreEqual(dbTableInfo[Min(Found)], Column)
    /\ notEqual' = TRUE
    /\ pc' = "return"
    /\ UNCHANGED <<given, storageTableInfo, dbTableInfo, columnsToAdd, pushed, index>>

(* Variant: the index is stepped back before the element is erased. *)
ErasedTooEarly == IF index > 0 THEN index ELSE 1

Erased == index + 1

Erase(infos, i) == SubSeq(infos, 1, i - 1) \o SubSeq(infos, i + 1, Len(infos))

(* Variant: the index is not stepped back. *)
StepsOn == index

StepBack == (index - 1) % SizeMod

Equal ==
    /\ pc = "body" /\ Found # {}
    /\ ColumnsAreEqual(dbTableInfo[Min(Found)], Column)
    /\ dbTableInfo' = Erase(dbTableInfo, Min(Found))
    /\ storageTableInfo' = Erase(storageTableInfo, Erased)
    /\ index' = StepBack
    /\ pc' = "step"
    /\ UNCHANGED <<given, columnsToAdd, notEqual, pushed>>

Missing ==
    /\ pc = "body" /\ Found = {}
    /\ columnsToAdd' = Append(columnsToAdd, index + 1)
    /\ pushed' = Append(pushed, Column)
    /\ pc' = "step"
    /\ UNCHANGED <<given, storageTableInfo, dbTableInfo, notEqual, index>>

Increment ==
    /\ pc = "step"
    /\ index' = (index + 1) % SizeMod
    /\ pc' = "test"
    /\ UNCHANGED <<given, storageTableInfo, dbTableInfo, columnsToAdd, notEqual, pushed>>

Next == Test \/ Differs \/ Equal \/ Missing \/ Increment

Spec == Init /\ [][Next]_vars
-----------------------------------------------------------------------------
(* The erasures never move the element a pointer of columnsToAdd points to:  *)
(* sync_table may read through the pointers afterwards.                      *)
PointersStayValid ==
    \A k \in DOMAIN columnsToAdd :
        /\ columnsToAdd[k] \in DOMAIN storageTableInfo
        /\ storageTableInfo[columnsToAdd[k]] = pushed[k]

(* What is left in the vectors and pointed to is what SyncColumns says. *)
ComputesDifference ==
    pc = "return" =>
        CalculateRemoveAddColumns(given.storage, given.db) =
            [notEqual |-> notEqual, columnsToAdd |-> pushed,
             storageTableInfo |-> storageTableInfo, dbTableInfo |-> dbTableInfo]
=============================================================================
