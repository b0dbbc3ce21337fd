---------------------------- MODULE SyncColumns ----------------------------
(* The comparison of a table's columns as mapped by the program (storage)    *)
(* with the columns the database has, and what sync_schema makes of it.      *)
(* A column is what table_xinfo says of it, but for its type:                *)
(*    name                                                                   *)
(*    notnull, dflt   NOT NULL; has a default value                          *)
(*    pk              position in the primary key, 0: none                   *)
(*    gen             "no", "virtual" or "stored" (GENERATED ALWAYS)         *)
(* and a table is a sequence of columns with distinct names.                 *)
EXTENDS Sequences, FiniteSetsExt

Columns == [name : STRING, notnull : BOOLEAN, dflt : BOOLEAN, pk : Nat,
            gen : {"no", "virtual", "stored"}]

ColumnsOf(cols) == {cols[i] : i \in DOMAIN cols}
NamesOf(cols) == {cols[i].name : i \in DOMAIN cols}

(* The columns that have none of the names, in their order. *)
Without(cols, names) ==
    LET left[i \in 0..Len(cols)] ==
            IF i = 0 THEN <<>>
            ELSE IF cols[i].name \in names THEN left[i - 1]
            ELSE Append(left[i - 1], cols[i])
    IN  left[Len(cols)]

Generated(cols) == {c \in ColumnsOf(cols) : c.gen # "no"}

(* Variant: the primary key is not compared. *)
ColumnsAreEqualButKey(dbColumn, storageColumn) ==
    /\ dbColumn.notnull = storageColumn.notnull
    /\ dbColumn.dflt = storageColumn.dflt
    /\ (dbColumn.gen = "no") = (storageColumn.gen = "no")

(* columnsAreEqual: neither the type, nor the default's value, nor whether a *)
(* generated column is virtual or stored is compared.                        *)
ColumnsAreEqual(dbColumn, storageColumn) ==
    /\ dbColumn.notnull = storageColumn.notnull
    /\ dbColumn.dflt = storageColumn.dflt
    /\ dbColumn.pk = storageColumn.pk
    /\ (dbColumn.gen = "no") = (storageColumn.gen = "no")

Differ(storage, db, i) ==
    \E c \in ColumnsOf(db) : c.name = storage[i].name /\ ~ColumnsAreEqual(c, storage[i])

(* calculate_remove_add_columns: storage columns are looked up in the        *)
(* database one by one up to the first that differs.  What is found is taken *)
(* out of both vectors, what is not found is to be added.                    *)
CalculateRemoveAddColumns(storage, db) ==
    LET differing == {i \in DOMAIN storage : Differ(storage, db, i)}
        stop == IF differing = {} THEN Len(storage) + 1 ELSE Min(differing)
        seen == SubSeq(storage, 1, stop - 1)
        toAdd == Without(seen, NamesOf(db))
    IN  [notEqual |-> differing # {},
         columnsToAdd |-> toAdd,
         storageTableInfo |-> toAdd \o SubSeq(storage, stop, Len(storage)),
         dbTableInfo |-> Without(db, NamesOf(seen))]

Stored(c) == c.gen = "stored"
LacksValue(c) == c.gen = "no" /\ c.notnull /\ ~c.dflt

(* What ALTER TABLE ADD COLUMN cannot add; only the first one counts. *)
Unaddable(cols) == {i \in DOMAIN cols : Stored(cols[i]) \/ LacksValue(cols[i])}

(* schema_status and its out parameter attempt_to_preserve, for a table that *)
(* the database has with the columns db, or does not have (db empty), in a   *)
(* build for a SQLite with or without ALTER TABLE DROP COLUMN (3.35.0).      *)
SchemaStatus(storage, db, preserve, hasDropColumn) ==
    LET diff == CalculateRemoveAddColumns(storage, db)
        excess == diff.dbTableInfo # <<>>
        added == diff.columnsToAdd
        blocked == Unaddable(added)
        mustCreate == diff.notEqual \/ (excess /\ ~preserve /\ ~hasDropColumn)
        Status(res, attempt) == [res |-> res, attempt |-> attempt]
    IN  CASE db = <<>> -> Status("new_table_created", TRUE)
          [] db # <<>> /\ mustCreate -> Status("dropped_and_recreated", TRUE)
          [] db # <<>> /\ ~mustCreate /\ blocked # {} ->
                Status("dropped_and_recreated", Stored(added[Min(blocked)]))
          [] OTHER ->
                Status(CASE excess /\ added # <<>> -> "new_columns_added_and_old_columns_removed"
                         [] excess /\ added = <<>> -> "old_columns_removed"
                         [] ~excess /\ added # <<>> -> "new_columns_added"
                         [] ~excess /\ added = <<>> -> "already_in_sync",
                       TRUE)
=============================================================================
