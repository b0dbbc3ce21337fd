-------------------------- MODULE ObjectStatements --------------------------
(* Statements made of whole objects: which columns of the mapped table the   *)
(* serializer writes a '?' for, and which members of the object execute()    *)
(* binds.  Both select them from the table's description at compile time, in *)
(* two places.                                                               *)
EXTENDS SequencesExt

CONSTANT Tables     \* name to description: columns, composite (the names in
                    \* PRIMARY KEY(...)), without_rowid, listed (the columns
                    \* that the program lists for insert_explicit)

(* A column: its name, whether it is a primary_key() itself, whether it is   *)
(* generated_always_as().                                                    *)
exists_in_composite_primary_key(t, c) == c.name \in Range(Tables[t].composite)

ColumnsNamed(t, names) ==
    [i \in DOMAIN names |-> CHOOSE c \in Range(Tables[t].columns) : c.name = names[i]]

(* for_each_primary_key_column: the order of the ids of get and remove. *)
KeyColumns(t) ==
    SelectSeq(Tables[t].columns, LAMBDA c : c.primary_key) \o ColumnsNamed(t, Tables[t].composite)
-----------------------------------------------------------------------------
(* statement_serializer *)

(* The database makes the key of a rowid table; a table without rowid gets   *)
(* all its columns, generated ones included.                                 *)
SerializeInsert(t) ==
    SelectSeq(Tables[t].columns,
              LAMBDA c : /\ Tables[t].without_rowid \/ ~(c.primary_key \/ c.generated)
                         /\ ~exists_in_composite_primary_key(t, c))

SerializeExplicit(t) == ColumnsNamed(t, Tables[t].listed)

SerializeReplace(t) == SelectSeq(Tables[t].columns, LAMBDA c : ~c.generated)

(* SET every other column WHERE the key is the object's. *)
SerializeSet(t) ==
    SelectSeq(Tables[t].columns,
              LAMBDA c : ~(c.primary_key \/ c.generated) /\ ~exists_in_composite_primary_key(t, c))

SerializeUpdate(t) ==
    SerializeSet(t)
    \o SelectSeq(Tables[t].columns,
                 LAMBDA c : c.primary_key \/ exists_in_composite_primary_key(t, c))

Serialize(kind, t) ==
    CASE kind \in {"insert_t", "insert_range_t"} -> SerializeInsert(t)
      [] kind = "insert_explicit" -> SerializeExplicit(t)
      [] kind \in {"replace_t", "replace_range_t"} -> SerializeReplace(t)
      [] kind = "update_t" -> SerializeUpdate(t)

(* A statement about one key is given so many ids; nothing compares their    *)
(* number with that of the key's columns.  Each column has a placeholder,    *)
(* for the id at its place, if there is one.                                 *)
NoId == <<>>
Id(i) == <<"id", i>>
SerializeIds(t, n) == [i \in 1..Len(KeyColumns(t)) |-> IF i \in 1..n THEN Id(i) ELSE NoId]

(* The range of a statement gives a list of VALUES, which SQL wants not to   *)
(* be empty; a table that has only keys can insert its DEFAULT VALUES, once. *)
(* An update must have something to SET and a key.  SQLite refuses a text    *)
(* that gives a generated column a value.                                    *)
Serializable(kind, t, objects) ==
    /\ objects # <<>>
    /\ kind = "insert_range_t" /\ SerializeInsert(t) = <<>> => Len(objects) = 1
    /\ kind = "update_t" => SerializeSet(t) # <<>> /\ KeyColumns(t) # <<>>
    /\ \A c \in Range(Serialize(kind, t)) : c.generated => kind = "update_t"

(* A statement about one key needs a key.  Removing with too few ids reads   *)
(* behind the end of idsStrings; the model does not go on from there.        *)
SerializableIds(kind, t, n) ==
    /\ KeyColumns(t) # <<>>
    /\ kind = "remove_t" => Len(KeyColumns(t)) <= n
-----------------------------------------------------------------------------
(* storage_t::execute *)

BindInsert(t) ==
    SelectSeq(Tables[t].columns,
              LAMBDA c : /\ Tables[t].without_rowid \/ ~(c.primary_key \/ c.generated)
                         /\ ~exists_in_composite_primary_key(t, c))

BindExplicit(t) == ColumnsNamed(t, Tables[t].listed)

BindReplace(t) == SelectSeq(Tables[t].columns, LAMBDA c : ~c.generated)

BindUpdate(t) ==
    SelectSeq(Tables[t].columns,
              LAMBDA c : ~(c.primary_key \/ c.generated) /\ ~exists_in_composite_primary_key(t, c))
    \o SelectSeq(Tables[t].columns,
                 LAMBDA c : c.primary_key \/ exists_in_composite_primary_key(t, c))

Bind(kind, t) ==
    CASE kind \in {"insert_t", "insert_range_t"} -> BindInsert(t)
      [] kind = "insert_explicit" -> BindExplicit(t)
      [] kind \in {"replace_t", "replace_range_t"} -> BindReplace(t)
      [] kind = "update_t" -> BindUpdate(t)

(* All the ids. *)
BindIds(n) == [i \in 1..n |-> Id(i)]

(* The members of several objects, one object after the other. *)
MembersOf(objects, columns) ==
    FlattenSeq([i \in DOMAIN objects |-> [j \in DOMAIN columns |-> <<objects[i], columns[j].name>>]])
=============================================================================
