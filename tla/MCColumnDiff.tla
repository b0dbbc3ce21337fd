---------------------------- MODULE MCColumnDiff ----------------------------
(* ColumnDiff for vectors of up to three columns. *)
EXTENDS ColumnDiff, SequencesExt

Plain(n) == [name |-> n, notnull |-> FALSE, dflt |-> FALSE, pk |-> 0, gen |-> "no"]
Key(n) == [Plain(n) EXCEPT !.pk = 1]
Kinds(n) == {Plain(n), [Plain(n) EXCEPT !.notnull = TRUE], [Plain(n) EXCEPT !.gen = "virtual"]}

(* Any order of at most one column of each of the sets. *)
AtMostOne(cols) == {{}} \cup {{c} : c \in cols}
Vectors(As, Bs, Cs) ==
    UNION {SetToSeqs(a \cup b \cup c) :
                a \in AtMostOne(As), b \in AtMostOne(Bs), c \in AtMostOne(Cs)}

MCStorageInfos == Vectors({Key("a")}, Kinds("b"), Kinds("c"))
MCDbInfos == Vectors({Key("a"), Plain("a")}, Kinds("b"), {Plain("d")})
=============================================================================
