---------------------------- MODULE MCSyncSchema ----------------------------
(* SyncSchema for mapped tables of three columns. *)
EXTENDS SyncSchema, SequencesExt

Plain(n) == [name |-> n, notnull |-> FALSE, dflt |-> FALSE, pk |-> 0, gen |-> "no"]
NotNull(n) == [Plain(n) EXCEPT !.notnull = TRUE]
Defaulted(n) == [NotNull(n) EXCEPT !.dflt = TRUE]
Key(n) == [NotNull(n) EXCEPT !.pk = 1]
Virtual(n) == [Plain(n) EXCEPT !.gen = "virtual"]
StoredCol(n) == [Plain(n) EXCEPT !.gen = "stored"]

(* A key and two columns in any order. *)
KeyedMappings ==
    UNION {SetToSeqs({Key("a"), b, c}) : b \in {Plain("b"), NotNull("b"), StoredCol("b")},
                                         c \in {Defaulted("c"), Virtual("c")}}

(* The shapes that lead to each result: columns that are missing, superfluous, *)
(* different, generated or not; the order matters only in the mapping.       *)
KeyedDatabases ==
    {<<>>,
     <<Key("a")>>,
     <<NotNull("a"), Plain("b")>>,
     <<Key("a"), Plain("b")>>,
     <<Key("a"), Plain("d")>>,
     <<Key("a"), Plain("b"), Virtual("c")>>,
     <<Key("a"), Virtual("b"), Defaulted("c")>>,
     <<Key("a"), Defaulted("c"), Plain("d")>>,
     <<Key("a"), NotNull("b"), Defaulted("c"), Plain("d"), Plain("e")>>}

Recent == [hasDropColumn |-> TRUE, quotedIsText |-> TRUE]
Old == [hasDropColumn |-> FALSE, quotedIsText |-> TRUE]
Strict == [hasDropColumn |-> TRUE, quotedIsText |-> FALSE]

AllBuilds == {Recent, Old, Strict}
RecentBuild == {Recent}
Unrelated == {{}, {1}}
IndexThenTable == <<"index", "table">>
IndexThenTables == <<"index", "table", "sqlite_master">>
=============================================================================
