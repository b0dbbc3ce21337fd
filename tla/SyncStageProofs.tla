--------------------------- MODULE SyncStageProofs ---------------------------
(* Every statement that sync_table executes leads from one stage of its plan *)
(* to the next, for tables of any columns and rows.                          *)
EXTENDS SyncStages, ListLemmas
------------------------------------------------------------------------------
(* What the operations on columns need to know of the difference *)
LEMMA PrefixColumns ==
    ASSUME NEW S, NEW cols \in Seq(S), NEW n \in 0..Len(cols)
    PROVE  /\ SubSeq(cols, 1, n) \in Seq(S)
           /\ ColumnsOf(SubSeq(cols, 1, n)) \subseteq ColumnsOf(cols)
<1>1. Len(cols) \in Nat /\ DOMAIN cols = 1..Len(cols) /\ \A i \in 1..Len(cols) : cols[i] \in S
  BY LenProperties, ElementOfSeq
<1>2. \A i \in 1..n : cols[i] \in S
  BY <1>1
<1>3. /\ SubSeq(cols, 1, n) \in Seq(S) /\ Len(SubSeq(cols, 1, n)) = n
      /\ \A i \in 1..n : SubSeq(cols, 1, n)[i] = cols[i]
  BY <1>1, <1>2, SubSeqProperties
<1>4. DOMAIN SubSeq(cols, 1, n) = 1..n
  BY <1>3, LenProperties
<1> QED
  BY <1>1, <1>3, <1>4 DEF ColumnsOf

LEMMA SuffixColumns ==
    ASSUME NEW S, NEW cols \in Seq(S), NEW n \in 1..Len(cols) + 1
    PROVE  /\ SubSeq(cols, n, Len(cols)) \in Seq(S)
           /\ ColumnsOf(SubSeq(cols, n, Len(cols))) \subseteq ColumnsOf(cols)
<1> DEFINE m == Len(cols)
           q == SubSeq(cols, n, m)
<1>1. m \in Nat /\ DOMAIN cols = 1..m /\ \A i \in 1..m : cols[i] \in S
  BY LenProperties, ElementOfSeq
<1>2. \A i \in n..m : cols[i] \in S
  BY <1>1
<1>3. /\ q \in Seq(S) /\ Len(q) = m - n + 1
      /\ \A i \in 1..m - n + 1 : q[i] = cols[n + i - 1]
  BY <1>1, <1>2, SubSeqProperties
<1>4. DOMAIN q = 1..m - n + 1
  BY <1>3, LenProperties
<1> HIDE DEF q
<1>5. \A i \in 1..m - n + 1 : n + i - 1 \in 1..m
  BY <1>1
<1>6. ColumnsOf(q) \subseteq ColumnsOf(cols)
  BY <1>1, <1>3, <1>4, <1>5, Zenon DEF ColumnsOf
<1> QED
  BY <1>3, <1>6 DEF q

LEMMA ConcatColumns ==
    ASSUME NEW S, NEW cols \in Seq(S), NEW more \in Seq(S)
    PROVE  cols \o more \in Seq(S) /\ ColumnsOf(cols \o more) \subseteq ColumnsOf(cols) \cup ColumnsOf(more)
<1> DEFINE q == cols \o more
           n == Len(cols)
           m == Len(more)
<1>1. n \in Nat /\ m \in Nat /\ DOMAIN cols = 1..n /\ DOMAIN more = 1..m
  BY LenProperties
<1>2. /\ q \in Seq(S) /\ Len(q) = n + m
      /\ \A i \in 1..n + m : q[i] = IF i <= n THEN cols[i] ELSE more[i - n]
  BY ConcatProperties
<1>3. DOMAIN q = 1..n + m
  BY <1>2, LenProperties
<1> HIDE DEF q
<1>4. \A i \in 1..n + m : IF i <= n THEN i \in 1..n ELSE i - n \in 1..m
  BY <1>1
<1>5. ASSUME NEW c \in ColumnsOf(q)
      PROVE  c \in ColumnsOf(cols) \cup ColumnsOf(more)
  <2>1. PICK i \in 1..n + m : c = q[i]
    BY <1>3, <1>5 DEF ColumnsOf
  <2>2. CASE i <= n
    BY <1>1, <1>2, <1>4, <2>1, <2>2 DEF ColumnsOf
  <2>3. CASE ~(i <= n)
    BY <1>1, <1>2, <1>4, <2>1, <2>3, Zenon DEF ColumnsOf
  <2> QED
    BY <2>2, <2>3
<1> QED
  BY <1>2, <1>5 DEF q

(* The difference of tables of which no column differs. *)
Plain(diff, cols, db) ==
    /\ ColumnsOf(diff.columnsToAdd) = {c \in ColumnsOf(cols) : c.name \notin NamesOf(db)}
    /\ ColumnsOf(diff.dbTableInfo) = {c \in ColumnsOf(db) : c.name \notin NamesOf(cols)}
    /\ \A c \in ColumnsOf(db), e \in ColumnsOf(cols) : c.name = e.name => ColumnsAreEqual(c, e)

LEMMA DifferenceColumns ==
    ASSUME NEW S, NEW cols \in Seq(S), NEW db \in Seq(S),
           NEW diff, diff = CalculateRemoveAddColumns(cols, db)
    PROVE  /\ diff.columnsToAdd \in Seq(S) /\ diff.dbTableInfo \in Seq(S)
           /\ ColumnsOf(diff.columnsToAdd) \subseteq ColumnsOf(cols)
           /\ \A c \in ColumnsOf(diff.columnsToAdd) : c.name \notin NamesOf(db)
           /\ ColumnsOf(diff.storageTableInfo) \subseteq ColumnsOf(cols)
           /\ ~diff.notEqual => Plain(diff, cols, db)
<1> DEFINE n == Len(cols)
           differing == {i \in DOMAIN cols : Differ(cols, db, i)}
           stop == IF differing = {} THEN n + 1 ELSE Min(differing)
           seen == SubSeq(cols, 1, stop - 1)
           unseen == SubSeq(cols, stop, n)
           toAdd == Without(seen, NamesOf(db))
           left == Without(db, NamesOf(seen))
<1>1. n \in Nat /\ DOMAIN cols = 1..n
  BY LenProperties
<1>2. differing \in SUBSET Nat /\ differing \subseteq 1..n
  BY <1>1
<1>3. stop \in 1..n + 1 /\ (differing = {} => stop = n + 1)
  <2>1. CASE differing = {}
    BY <1>1, <2>1
  <2>2. CASE differing # {}
    <3>1. Min(differing) \in differing
      BY <1>2, <2>2, MinIsSmallest, Zenon
    <3> QED
      BY <1>1, <1>2, <2>2, <3>1
  <2> QED
    BY <2>1, <2>2
<1>4. /\ diff.notEqual = (differing # {}) /\ diff.columnsToAdd = toAdd
      /\ diff.storageTableInfo = toAdd \o unseen /\ diff.dbTableInfo = left
  BY Zenon DEF CalculateRemoveAddColumns
<1> HIDE DEF stop
<1>5. stop - 1 \in 0..n
  BY <1>1, <1>3
<1>6. seen \in Seq(S) /\ ColumnsOf(seen) \subseteq ColumnsOf(cols)
  BY <1>5, PrefixColumns
<1>7. unseen \in Seq(S) /\ ColumnsOf(unseen) \subseteq ColumnsOf(cols)
  BY <1>3, SuffixColumns
<1> HIDE DEF seen, unseen
<1>8. toAdd \in Seq(S) /\ ColumnsOf(toAdd) = {c \in ColumnsOf(seen) : c.name \notin NamesOf(db)}
  BY <1>6, WithoutColumns
<1>9. left \in Seq(S) /\ ColumnsOf(left) = {c \in ColumnsOf(db) : c.name \notin NamesOf(seen)}
  BY WithoutColumns
<1> HIDE DEF toAdd, left
<1>10. ColumnsOf(toAdd \o unseen) \subseteq ColumnsOf(toAdd) \cup ColumnsOf(unseen)
  BY <1>7, <1>8, ConcatColumns
<1>11. ASSUME differing = {}
       PROVE  Plain(diff, cols, db)
  <2>1. seen = cols
    BY <1>1, <1>3, <1>11, SubSeqFull DEF seen
  <2>2. ASSUME NEW c \in ColumnsOf(db), NEW e \in ColumnsOf(cols), c.name = e.name
        PROVE  ColumnsAreEqual(c, e)
    BY <1>11, <2>2 DEF Differ, ColumnsOf
  <2> QED
    BY <1>4, <1>8, <1>9, <2>1, <2>2 DEF Plain
<1> QED
  BY <1>4, <1>6, <1>7, <1>8, <1>9, <1>10, <1>11, Zenon

(* What schema_status says of the difference. *)
LEMMA StatusTells ==
    ASSUME NEW cols, NEW db, NEW preserved \in BOOLEAN, NEW hasDrop \in BOOLEAN,
           NEW told, told = SchemaStatus(cols, db, preserved, hasDrop),
           NEW diff, diff = CalculateRemoveAddColumns(cols, db)
    PROVE  /\ told.res = "new_table_created" => db = <<>>
           /\ db = <<>> => told.res = "new_table_created"
           /\ told.res = "already_in_sync" =>
                ~diff.notEqual /\ diff.dbTableInfo = <<>> /\ diff.columnsToAdd = <<>>
           /\ told.res = "old_columns_removed" =>
                ~diff.notEqual /\ diff.dbTableInfo # <<>> /\ diff.columnsToAdd = <<>>
           /\ told.res = "new_columns_added" =>
                ~diff.notEqual /\ diff.dbTableInfo = <<>> /\ diff.columnsToAdd # <<>>
           /\ told.res = "new_columns_added_and_old_columns_removed" =>
                ~diff.notEqual /\ diff.dbTableInfo # <<>> /\ diff.columnsToAdd # <<>>
           /\ told.res \in {"new_table_created", "already_in_sync", "old_columns_removed",
                            "new_columns_added", "new_columns_added_and_old_columns_removed",
                            "dropped_and_recreated"}
<1> DEFINE excess == diff.dbTableInfo # <<>>
           added == diff.columnsToAdd
           blocked == Unaddable(added)
           mustCreate == diff.notEqual \/ (excess /\ ~preserved /\ ~hasDrop)
<1>1. CASE db = <<>>
  BY <1>1 DEF SchemaStatus
<1>2. CASE db # <<>> /\ mustCreate
  BY <1>2 DEF SchemaStatus
<1>3. CASE db # <<>> /\ ~mustCreate /\ blocked # {}
  BY <1>3 DEF SchemaStatus
<1>4. CASE db # <<>> /\ ~mustCreate /\ blocked = {}
  <2>1. ~diff.notEqual
    BY <1>4
  <2>2. told.res = CASE excess /\ added # <<>> -> "new_columns_added_and_old_columns_removed"
                     [] excess /\ added = <<>> -> "old_columns_removed"
                     [] ~excess /\ added # <<>> -> "new_columns_added"
                     [] ~excess /\ added = <<>> -> "already_in_sync"
    BY <1>4 DEF SchemaStatus
  <2> QED
    BY <1>4, <2>1, <2>2
<1> QED
  BY <1>1, <1>2, <1>3, <1>4
------------------------------------------------------------------------------
(* The statements *)
LEMMA PlanStays ==
    ASSUME Same
    PROVE  /\ Told' = Told /\ Diff' = Diff /\ Excess' = Excess /\ Lacking' = Lacking
           /\ Created' = Created /\ WithLoss' = WithLoss /\ ByBackup' = ByBackup
           /\ CopiedNames' = CopiedNames /\ Copy' = Copy
<1>1. build' = build /\ storage' = storage /\ preserve' = preserve /\ before' = before
  BY DEF Same
<1>2. Told' = Told
  BY <1>1 DEF Told, Status
<1>3. Diff' = Diff
  BY <1>1 DEF Diff
<1>4. Excess' = Excess /\ Lacking' = Lacking
  BY <1>3 DEF Excess, Lacking
<1>5. Created' = Created
  BY <1>1 DEF Created
<1>6. WithLoss' = WithLoss /\ ByBackup' = ByBackup
  BY <1>1, <1>2 DEF WithLoss, ByBackup
<1>7. Ignored' = Ignored
  BY <1>1, <1>2, <1>3, <1>4 DEF Ignored
<1>8. CopiedNames' = CopiedNames
  BY <1>1, <1>7 DEF CopiedNames
<1>9. Copy' = Copy
  BY <1>1, <1>8 DEF Copy
<1> QED
  BY <1>2, <1>3, <1>4, <1>5, <1>6, <1>8, <1>9

(* The statements that are left after the first of those that were left. *)
LEMMA RestStep ==
    ASSUME NEW S, NEW plan \in Seq(S), NEW k \in 0..Len(plan),
           NEW rest, rest = SubSeq(plan, k + 1, Len(plan))
    PROVE  /\ rest = <<>> => k = Len(plan)
           /\ k = Len(plan) => rest = <<>>
           /\ rest # <<>> => /\ k + 1 \in 1..Len(plan)
                             /\ Head(rest) = plan[k + 1]
                             /\ Tail(rest) = SubSeq(plan, k + 2, Len(plan))
<1> DEFINE n == Len(plan)
<1>1. n \in Nat /\ \A i \in 1..n : plan[i] \in S
  BY LenProperties, ElementOfSeq
<1>2. CASE k = n
  BY <1>1, <1>2, SubSeqEmpty
<1>3. CASE k # n
  <2>1. k + 1 \in 1..n /\ k + 1 <= n
    BY <1>1, <1>3
  <2>2. /\ Head(rest) = plan[k + 1] /\ Tail(rest) = SubSeq(plan, k + 1 + 1, n)
    BY <1>1, <2>1, HeadTailOfSubSeq
  <2>3. rest \in Seq(S) /\ Len(rest) # 0
    BY <1>1, <2>1, SubSeqProperties
  <2>4. rest # <<>>
    BY <2>3
  <2>5. k + 1 + 1 = k + 2
    BY <1>1
  <2> QED
    BY <1>3, <2>1, <2>2, <2>4, <2>5
<1> QED
  BY <1>2, <1>3

LEMMA StorageFacts ==
    ASSUME Sound
    PROVE  /\ storage \in Seq(Columns) /\ storage # <<>> /\ TableOK(Created)
           /\ build.hasDropColumn \in BOOLEAN
           /\ Target \in TableNames
           /\ before[Target].cols \in Seq(Columns) /\ tables[Target].cols \in Seq(Columns)
<1>1. storage \in Seq(Columns) /\ storage # <<>> /\ build.hasDropColumn \in BOOLEAN
  BY ColumnsOfTables, BuildsOfStorage DEF Sound
<1>2. TableOK(Created)
  BY <1>1 DEF TableOK, Created
<1>3. Target \in TableNames
  BY SyncBounds DEF Target, TableNames
<1>4. before[Target].cols \in Seq(Columns) /\ tables[Target].cols \in Seq(Columns)
  BY <1>3 DEF Sound, TablesOK, TableOK
<1> QED
  BY <1>1, <1>2, <1>3, <1>4

LEMMA NoTableOK == TableOK(NoTable)
BY DEF TableOK, NoTable

LEMMA SetTable ==
    ASSUME NEW ts, TablesOK(ts), NEW n \in TableNames, NEW t, TableOK(t),
           n # Target /\ t.cols = <<>> => t = NoTable
    PROVE  /\ TablesOK([ts EXCEPT ![n] = t])
           /\ [ts EXCEPT ![n] = t][n] = t
           /\ \A m \in TableNames \ {n} : [ts EXCEPT ![n] = t][m] = ts[m]
<1> DEFINE us == [ts EXCEPT ![n] = t]
<1>1. ts = [m \in TableNames |-> ts[m]]
  BY DEF TablesOK
<1>2. us = [m \in TableNames |-> us[m]] /\ us[n] = t /\ \A m \in TableNames \ {n} : us[m] = ts[m]
  BY <1>1
<1> HIDE DEF us
<1>3. TablesOK(us)
  BY <1>2 DEF TablesOK
<1> QED
  BY <1>2, <1>3 DEF us

LEMMA SetTwice ==
    ASSUME NEW ts, NEW n, NEW t, NEW u
    PROVE  [[ts EXCEPT ![n] = t] EXCEPT ![n] = u] = [ts EXCEPT ![n] = u]
BY Zenon

(* What the statements do. *)
LEMMA Renames ==
    ASSUME NEW n, NEW m
    PROVE  TablesAfter(RenameTable(n, m)) = [tables EXCEPT ![n] = NoTable, ![m] = tables[n]]
<1>1. RenameTable(n, m).op = "rename" /\ RenameTable(n, m).at = n /\ RenameTable(n, m).to = m
  BY DEF RenameTable
<1> QED
  BY <1>1 DEF TablesAfter

LEMMA Effects ==
    ASSUME NEW n, NEW m, NEW names, NEW c
    PROVE  /\ TablesAfter(CreateTable(n)) = [tables EXCEPT ![n] = Created]
           /\ TablesAfter(DropTable(n)) = [tables EXCEPT ![n] = NoTable]
           /\ TablesAfter(RenameTable(n, m)) = [tables EXCEPT ![n] = NoTable, ![m] = tables[n]]
           /\ TablesAfter(CopyTable(n, m, names))
                = [tables EXCEPT ![m].rows =
                    @ \cup {Copied(r, names, tables[m].cols) : r \in tables[n].rows}]
           /\ TablesAfter(AddColumn(c)) = [tables EXCEPT ![Target] = WithColumn(@, c)]
           /\ TablesAfter(DropColumn(c)) = [tables EXCEPT ![Target] = WithoutColumn(@, c)]
           /\ TablesAfter(CreateIndex) = tables
<1>1. TablesAfter(CreateTable(n)) = [tables EXCEPT ![n] = Created]
  <2>1. CreateTable(n).op = "create" /\ CreateTable(n).at = n
    BY DEF CreateTable
  <2> QED
    BY <2>1 DEF TablesAfter, Created
<1>2. TablesAfter(DropTable(n)) = [tables EXCEPT ![n] = NoTable]
  <2>1. DropTable(n).op = "drop" /\ DropTable(n).at = n
    BY DEF DropTable
  <2> QED
    BY <2>1 DEF TablesAfter
<1>3. TablesAfter(RenameTable(n, m)) = [tables EXCEPT ![n] = NoTable, ![m] = tables[n]]
  BY Renames
<1>4. TablesAfter(CopyTable(n, m, names))
        = [tables EXCEPT ![m].rows = @ \cup {Copied(r, names, tables[m].cols) : r \in tables[n].rows}]
  <2> DEFINE s == CopyTable(n, m, names)
  <2>1. s.op = "copy" /\ s.at = n /\ s.to = m /\ s.names = names
    BY DEF CopyTable
  <2> QED
    BY <2>1 DEF TablesAfter
<1>5. TablesAfter(AddColumn(c)) = [tables EXCEPT ![Target] = WithColumn(@, c)]
  <2>1. AddColumn(c).op = "add column" /\ AddColumn(c).column = c
    BY DEF AddColumn
  <2> QED
    BY <2>1, Zenon DEF TablesAfter
<1>6. TablesAfter(DropColumn(c)) = [tables EXCEPT ![Target] = WithoutColumn(@, c)]
  <2>1. DropColumn(c).op = "drop column" /\ DropColumn(c).column = c
    BY DEF DropColumn
  <2> QED
    BY <2>1, Zenon DEF TablesAfter
<1>7. TablesAfter(CreateIndex) = tables
  <2>1. CreateIndex.op = "index"
    BY DEF CreateIndex
  <2> QED
    BY <2>1 DEF TablesAfter
<1> QED
  BY <1>1, <1>2, <1>3, <1>4, <1>5, <1>6, <1>7

LEMMA CreateStep ==
    ASSUME Sound, CreateStage(todo), todo # <<>>, Step(Head(todo)), todo' = Tail(todo)
    PROVE  CreateStage(todo)' /\ Goes(Head(todo))
<1> DEFINE plan == <<CreateTable(Target)>>
<1>1. /\ storage # <<>> /\ TableOK(Created) /\ Target \in TableNames
  BY StorageFacts
<1>2. plan \in Seq({CreateTable(Target)}) /\ Len(plan) = 1 /\ plan[1] = CreateTable(Target)
  OBVIOUS
<1>3. PICK k \in 0..1 : /\ todo = SubSeq(plan, k + 1, 1)
                        /\ tables = IF k = 0 THEN before ELSE [before EXCEPT ![Target] = Created]
  BY DEF CreateStage
<1> HIDE DEF plan
<1>4. k + 1 \in 1..1 /\ Head(todo) = plan[k + 1] /\ Tail(todo) = SubSeq(plan, k + 2, 1)
  BY <1>2, <1>3, RestStep
<1>5. k = 0 /\ Head(todo) = CreateTable(Target) /\ todo' = SubSeq(plan, 2, 1) /\ tables = before
  BY <1>2, <1>3, <1>4
<1>6. tables' = [before EXCEPT ![Target] = Created]
  BY <1>5, Effects DEF Step
<1>7. TablesOK([before EXCEPT ![Target] = Created]) /\ [before EXCEPT ![Target] = Created][Target] = Created
  <2>1. TablesOK(before)
    BY DEF Sound
  <2> QED
    BY <1>1, <2>1, SetTable
<1>8. Told' = Told /\ Created' = Created /\ before' = before
  BY PlanStays DEF Step, Same
<1>9. CreateStage(todo)'
  <2>1. Told'.res = "new_table_created"
    BY <1>8 DEF CreateStage
  <2>2. /\ todo' = SubSeq(plan, 1 + 1, 1)
        /\ tables' = IF 1 = 0 THEN before' ELSE [before' EXCEPT ![Target] = Created']
    BY <1>5, <1>6, <1>8
  <2> QED
    BY <2>1, <2>2 DEF CreateStage, plan
<1>10. Goes(Head(todo))
  BY <1>1, <1>6, <1>7 DEF Goes, Exists, Created
<1> QED
  BY <1>9, <1>10

LEMMA LossStep ==
    ASSUME Sound, LossStage(todo), todo # <<>>, Step(Head(todo)), todo' = Tail(todo)
    PROVE  LossStage(todo)' /\ Goes(Head(todo))
<1> DEFINE plan == DropCreateWithLoss
           At(k) == IF k = 0 THEN before
                    ELSE [before EXCEPT ![Target] = IF k = 1 THEN NoTable ELSE Created]
<1>1. /\ storage # <<>> /\ TableOK(Created) /\ Target \in TableNames /\ TablesOK(before)
  BY StorageFacts DEF Sound
<1>2. /\ plan \in Seq({DropTable(Target), CreateTable(Target)}) /\ Len(plan) = 2
      /\ plan[1] = DropTable(Target) /\ plan[2] = CreateTable(Target)
  BY DEF DropCreateWithLoss
<1>3. PICK k \in 0..2 : todo = SubSeq(plan, k + 1, 2) /\ tables = At(k)
  BY Zenon DEF LossStage
<1> HIDE DEF plan
<1>4. k + 1 \in 1..2 /\ Head(todo) = plan[k + 1] /\ Tail(todo) = SubSeq(plan, k + 2, 2)
  BY <1>2, <1>3, RestStep
<1>5. before = [n \in TableNames |-> before[n]]
  BY <1>1 DEF TablesOK
<1>6. tables' = [before EXCEPT ![Target] = IF k = 0 THEN NoTable ELSE Created]
  <2>1. CASE k = 0
    <3>1. Head(todo) = DropTable(Target) /\ tables = before
      BY <1>2, <1>3, <1>4, <2>1
    <3> QED
      <4>1. TablesAfter(DropTable(Target)) = [tables EXCEPT ![Target] = NoTable]
        BY Effects
      <4> QED
        BY <2>1, <3>1, <4>1 DEF Step
  <2>2. CASE k = 1
    <3>1. Head(todo) = CreateTable(Target) /\ tables = [before EXCEPT ![Target] = NoTable]
      BY <1>2, <1>3, <1>4, <2>2
    <3>2. TablesAfter(CreateTable(Target)) = [tables EXCEPT ![Target] = Created]
      BY Effects, Zenon
    <3>3. tables' = [[before EXCEPT ![Target] = NoTable] EXCEPT ![Target] = Created]
      BY <3>1, <3>2, Zenon DEF Step
    <3>4. tables' = [before EXCEPT ![Target] = Created]
      BY <3>3, SetTwice, Zenon
    <3>5. (IF k = 0 THEN NoTable ELSE Created) = Created
      BY <2>2
    <3> QED
      BY <3>4, <3>5, Zenon
  <2> QED
    BY <1>3, <1>4, <2>1, <2>2
<1>7. /\ TablesOK([before EXCEPT ![Target] = NoTable])
      /\ TablesOK([before EXCEPT ![Target] = Created])
      /\ [before EXCEPT ![Target] = Created][Target] = Created
  <2>1. TablesOK([before EXCEPT ![Target] = NoTable])
    BY <1>1, NoTableOK, SetTable
  <2>2. /\ TablesOK([before EXCEPT ![Target] = Created])
        /\ [before EXCEPT ![Target] = Created][Target] = Created
    BY <1>1, SetTable
  <2> QED
    BY <2>1, <2>2
<1>8. WithLoss' = WithLoss /\ Created' = Created /\ before' = before
  BY PlanStays DEF Step, Same
<1>9. LossStage(todo)'
  <2>1. WithLoss'
    BY <1>8 DEF LossStage
  <2>2. k + 1 \in 0..2 /\ k + 2 = k + 1 + 1
    BY <1>4
  <2>3. /\ todo' = SubSeq(plan, k + 1 + 1, 2)
        /\ tables' = IF k + 1 = 0 THEN before'
                     ELSE [before' EXCEPT ![Target] = IF k + 1 = 1 THEN NoTable ELSE Created']
    <3>1. k + 1 # 0 /\ (k + 1 = 1 <=> k = 0)
      BY <1>4
    <3>2. todo' = SubSeq(plan, k + 1 + 1, 2)
      BY <1>4, <2>2
    <3> QED
      BY <1>6, <1>8, <3>1, <3>2, Zenon
  <2> QED
    BY <2>1, <2>2, <2>3, Zenon DEF LossStage, plan, DropCreateWithLoss
<1>10. Goes(Head(todo))
  <2>1. CASE k = 0
    <3>1. Head(todo).op = "drop"
      BY <1>2, <1>4, <2>1 DEF DropTable
    <3> QED
      BY <1>6, <1>7, <2>1, <3>1 DEF Goes
  <2>2. CASE k # 0
    BY <1>1, <1>6, <1>7, <2>2 DEF Goes, Exists, Created
  <2> QED
    BY <2>1, <2>2
<1> QED
  BY <1>9, <1>10

LEMMA FillerOrigin == ASSUME NEW c PROVE Filler(c) \in Origins
BY DEF Filler, Origins

LEMMA CopiedRow ==
    ASSUME NEW cols, NEW from, NEW row \in [NamesOf(from) -> Origins], NEW names
    PROVE  Copied(row, names, cols) \in [NamesOf(cols) -> Origins]
<1> SUFFICES ASSUME NEW n \in NamesOf(cols)
             PROVE  Copied(row, names, cols)[n] \in Origins
  BY Zenon DEF Copied
<1>1. Copied(row, names, cols)[n] =
        IF n \in names THEN IF n \in DOMAIN row THEN row[n] ELSE "text"
        ELSE Filler(CHOOSE c \in ColumnsOf(cols) : c.name = n)
  BY Zenon DEF Copied
<1>2. "text" \in Origins
  BY DEF Origins
<1>3. n \in DOMAIN row => row[n] \in Origins
  OBVIOUS
<1> QED
  BY <1>1, <1>2, <1>3, FillerOrigin, Zenon

LEMMA CopyOK ==
    ASSUME Sound
    PROVE  TableOK(Copy) /\ Copy.cols # <<>>
<1>1. storage \in Seq(Columns) /\ storage # <<>> /\ Target \in TableNames
  BY StorageFacts
<1>2. \A r \in before[Target].rows : r \in [NamesOf(before[Target].cols) -> Origins]
  BY <1>1 DEF Sound, TablesOK, TableOK
<1>3. \A r \in before[Target].rows : Copied(r, CopiedNames, storage) \in [NamesOf(storage) -> Origins]
  BY <1>2, CopiedRow
<1>4. Copy.cols = storage /\ Copy.rows = {Copied(r, CopiedNames, storage) : r \in before[Target].rows}
      /\ Copy = [cols |-> Copy.cols, rows |-> Copy.rows]
  BY DEF Copy
<1>5. \A q \in Copy.rows : q \in [NamesOf(Copy.cols) -> Origins]
  BY <1>3, <1>4
<1> QED
  BY <1>1, <1>4, <1>5 DEF TableOK

(* The tables as backup_table makes them. *)
LEMMA BackupMoves ==
    ASSUME Sound, NEW b \in TableNames \ {Target}, before[b] = NoTable, NEW k \in 0..3,
           tables = BackupTables(b, k), Step(BackupPlan(b)[k + 1])
    PROVE  tables' = BackupTables(b, k + 1)
<1>1. before = [n \in TableNames |-> before[n]] /\ Target \in TableNames /\ b \in TableNames /\ b # Target
  BY StorageFacts DEF Sound, TablesOK
<1>2. CASE k = 0
  <2>1. tables = before /\ BackupTables(b, k + 1) = [before EXCEPT ![b] = Created]
    BY <1>2 DEF BackupTables
  <2>2. BackupPlan(b)[k + 1] = CreateTable(b)
    BY <1>2 DEF BackupPlan
  <2>3. TablesAfter(CreateTable(b)) = [tables EXCEPT ![b] = Created]
    BY Effects, Zenon
  <2> QED
    BY <2>1, <2>2, <2>3, Zenon DEF Step
<1>3. CASE k = 1
  <2> DEFINE rows == {Copied(r, CopiedNames, tables[b].cols) : r \in tables[Target].rows}
  <2>1. tables = [before EXCEPT ![b] = Created] /\ BackupTables(b, k + 1) = [before EXCEPT ![b] = Copy]
    BY <1>3 DEF BackupTables
  <2>2. BackupPlan(b)[k + 1] = CopyTable(Target, b, CopiedNames)
    BY <1>3 DEF BackupPlan
  <2>3. TablesAfter(CopyTable(Target, b, CopiedNames)) = [tables EXCEPT ![b].rows = @ \cup rows]
    BY Effects
  <2>4. tables[b] = Created /\ tables[Target] = before[Target]
    BY <1>1, <2>1
  <2>5. rows = Copy.rows
    BY <2>4 DEF Created, Copy
  <2> HIDE DEF rows
  <2>6. [tables[b] EXCEPT !.rows = @ \cup rows] = Copy
    <3>1. tables[b] = [cols |-> storage, rows |-> {}] /\ Copy = [cols |-> storage, rows |-> rows]
      BY <2>4, <2>5 DEF Created, Copy
    <3> QED
      BY <3>1
  <2>7. [tables EXCEPT ![b].rows = @ \cup rows] = [tables EXCEPT ![b] = Copy]
    BY <2>6, Zenon
  <2>8. [tables EXCEPT ![b] = Copy] = [before EXCEPT ![b] = Copy]
    BY <2>1, SetTwice, Zenon
  <2>9. tables' = TablesAfter(CopyTable(Target, b, CopiedNames))
    BY <2>2 DEF Step
  <2> QED
    BY <2>1, <2>3, <2>7, <2>8, <2>9, Zenon
<1>4. CASE k = 2
  <2>1. /\ tables = [before EXCEPT ![b] = Copy]
        /\ BackupTables(b, k + 1) = [before EXCEPT ![b] = Copy, ![Target] = NoTable]
    BY <1>4 DEF BackupTables
  <2>2. BackupPlan(b)[k + 1] = DropTable(Target)
    BY <1>4 DEF BackupPlan
  <2>3. TablesAfter(DropTable(Target)) = [tables EXCEPT ![Target] = NoTable]
    BY Effects, Zenon
  <2>4. tables' = TablesAfter(DropTable(Target))
    BY <2>2 DEF Step
  <2> QED
    BY <2>1, <2>3, <2>4, Zenon
<1>5. CASE k = 3
  <2>1. /\ tables = [before EXCEPT ![b] = Copy, ![Target] = NoTable]
        /\ BackupTables(b, k + 1) = [before EXCEPT ![Target] = Copy]
    BY <1>5 DEF BackupTables
  <2>2. BackupPlan(b)[k + 1] = RenameTable(b, Target)
    BY <1>5 DEF BackupPlan
  <2>3. TablesAfter(RenameTable(b, Target)) = [tables EXCEPT ![b] = NoTable, ![Target] = tables[b]]
    BY Renames
  <2>4. tables' = TablesAfter(RenameTable(b, Target))
    BY <2>2 DEF Step
  <2>5. tables = [n \in TableNames |-> IF n = Target THEN NoTable ELSE IF n = b THEN Copy ELSE before[n]]
    BY <1>1, <2>1, Zenon
  <2>6. tables[b] = Copy
    BY <1>1, <2>5
  <2>7. [tables EXCEPT ![b] = NoTable, ![Target] = Copy]
         = [n \in TableNames |-> IF n = Target THEN Copy ELSE IF n = b THEN NoTable ELSE before[n]]
    BY <1>1, <2>5
  <2>8. [before EXCEPT ![Target] = Copy]
         = [n \in TableNames |-> IF n = Target THEN Copy ELSE IF n = b THEN NoTable ELSE before[n]]
    BY <1>1
  <2> QED
    BY <2>1, <2>3, <2>4, <2>6, <2>7, <2>8, Zenon
<1> QED
  BY <1>2, <1>3, <1>4, <1>5

(* The tables are sound at every stage of a backup. *)
LEMMA BackupTablesOK ==
    ASSUME Sound, NEW b \in TableNames \ {Target}, before[b] = NoTable, NEW k \in 0..4
    PROVE  /\ TablesOK(BackupTables(b, k))
           /\ k \in 0..2 => BackupTables(b, k)[Target] = before[Target]
           /\ k = 4 => BackupTables(b, k)[Target] = Copy
<1>1. /\ TablesOK(before) /\ Target \in TableNames /\ b \in TableNames /\ b # Target
      /\ TableOK(Created) /\ Created.cols # <<>> /\ TableOK(Copy) /\ Copy.cols # <<>>
  BY StorageFacts, CopyOK DEF Sound, Created
<1>2. TablesOK([before EXCEPT ![b] = Created]) /\ [before EXCEPT ![b] = Created][Target] = before[Target]
  BY <1>1, SetTable
<1>3. TablesOK([before EXCEPT ![b] = Copy]) /\ [before EXCEPT ![b] = Copy][Target] = before[Target]
  BY <1>1, SetTable
<1>4. TablesOK([[before EXCEPT ![b] = Copy] EXCEPT ![Target] = NoTable])
  BY <1>1, <1>3, NoTableOK, SetTable, Zenon
<1>5. TablesOK([before EXCEPT ![Target] = Copy]) /\ [before EXCEPT ![Target] = Copy][Target] = Copy
  BY <1>1, SetTable
<1>6. CASE k = 0
  <2>1. BackupTables(b, k) = before
    BY <1>6 DEF BackupTables
  <2> QED
    BY <1>1, <1>6, <2>1
<1>7. CASE k = 1
  <2>1. BackupTables(b, k) = [before EXCEPT ![b] = Created]
    BY <1>7 DEF BackupTables
  <2>2. TablesOK(BackupTables(b, k)) /\ BackupTables(b, k)[Target] = before[Target]
    BY <1>2, <2>1, Zenon
  <2> QED
    BY <1>7, <2>2
<1>8. CASE k = 2
  <2>1. BackupTables(b, k) = [before EXCEPT ![b] = Copy]
    BY <1>8 DEF BackupTables
  <2>2. TablesOK(BackupTables(b, k)) /\ BackupTables(b, k)[Target] = before[Target]
    BY <1>3, <2>1, Zenon
  <2> QED
    BY <1>8, <2>2
<1>9. CASE k = 3
  <2>1. BackupTables(b, k) = [before EXCEPT ![b] = Copy, ![Target] = NoTable]
    BY <1>9 DEF BackupTables
  <2>2. TablesOK(BackupTables(b, k))
    BY <1>4, <2>1, Zenon
  <2> QED
    BY <1>9, <2>2
<1>10. CASE k = 4
  <2>1. BackupTables(b, k) = [before EXCEPT ![Target] = Copy]
    BY <1>10 DEF BackupTables
  <2>2. TablesOK(BackupTables(b, k)) /\ BackupTables(b, k)[Target] = Copy
    BY <1>5, <2>1, Zenon
  <2> QED
    BY <1>10, <2>2
<1> QED
  BY <1>6, <1>7, <1>8, <1>9, <1>10

LEMMA BackupStep ==
    ASSUME Sound, BackupStage(todo), todo # <<>>, Step(Head(todo)), todo' = Tail(todo)
    PROVE  BackupStage(todo)' /\ Goes(Head(todo))
<1>1. PICK b \in TableNames \ {Target}, k \in 0..4 :
        /\ before[b] = NoTable
        /\ todo = SubSeq(BackupPlan(b), k + 1, 4)
        /\ tables = BackupTables(b, k)
  BY DEF BackupStage
<1> DEFINE plan == BackupPlan(b)
<1>2. /\ plan \in Seq({CreateTable(b), CopyTable(Target, b, CopiedNames), DropTable(Target), RenameTable(b, Target)})
      /\ Len(plan) = 4 /\ plan[3] = DropTable(Target)
  BY DEF BackupPlan
<1> HIDE DEF plan
<1>3. todo = SubSeq(plan, k + 1, 4)
  BY <1>1 DEF plan
<1>4. k + 1 \in 1..4 /\ Head(todo) = plan[k + 1] /\ Tail(todo) = SubSeq(plan, k + 2, 4)
  BY <1>2, <1>3, RestStep
<1>5. k \in 0..3 /\ k + 1 \in 0..4 /\ k + 2 = k + 1 + 1
  BY <1>1, <1>4
<1>6. tables' = BackupTables(b, k + 1)
  BY <1>1, <1>4, <1>5, BackupMoves DEF plan
<1>7. ByBackup' = ByBackup /\ Created' = Created /\ Copy' = Copy /\ CopiedNames' = CopiedNames /\ before' = before
  BY PlanStays DEF Step, Same
<1>8. BackupStage(todo)'
  <2>1. ByBackup'
    BY <1>7 DEF BackupStage
  <2>2. BackupPlan(b)' = BackupPlan(b)
    BY <1>7 DEF BackupPlan
  <2>3. BackupTables(b, k + 1)' = BackupTables(b, k + 1)
    BY <1>7 DEF BackupTables
  <2>4. /\ todo' = SubSeq(BackupPlan(b)', k + 1 + 1, 4)
        /\ tables' = BackupTables(b, k + 1)'
        /\ before'[b] = NoTable
    BY <1>1, <1>4, <1>5, <1>6, <1>7, <2>2, <2>3 DEF plan
  <2> QED
    BY <1>5, <2>1, <2>4, Zenon DEF BackupStage
<1>9. Goes(Head(todo))
  <2>1. TablesOK(BackupTables(b, k + 1))
    BY <1>1, <1>5, BackupTablesOK
  <2>2. CASE k \in 0..1
    <3>1. BackupTables(b, k)[Target] = before[Target] /\ BackupTables(b, k + 1)[Target] = before[Target]
      BY <1>1, <1>5, <2>2, BackupTablesOK
    <3> QED
      BY <1>1, <1>6, <2>1, <3>1 DEF Goes, Exists
  <2>3. CASE k = 2
    <3>1. Head(todo).op = "drop"
      BY <1>2, <1>4, <2>3 DEF DropTable
    <3> QED
      BY <1>6, <2>1, <3>1 DEF Goes
  <2>4. CASE k = 3
    <3>1. BackupTables(b, k + 1)[Target] = Copy
      BY <1>1, <1>5, <2>4, BackupTablesOK
    <3> QED
      BY <1>6, <2>1, <3>1, CopyOK DEF Goes, Exists
  <2> QED
    BY <1>5, <2>2, <2>3, <2>4
<1> QED
  BY <1>8, <1>9

(* What schema_status told a call, as far as the columns are concerned. *)
LEMMA PlanFacts ==
    ASSUME Sound
    PROVE  /\ Excess \in Seq(Columns) /\ Lacking \in Seq(Columns)
           /\ ColumnsOf(Lacking) \subseteq ColumnsOf(storage)
           /\ \A c \in ColumnsOf(Lacking) : c.name \notin NamesOf(before[Target].cols)
           /\ ColumnsOf(Diff.storageTableInfo) \subseteq ColumnsOf(storage)
           /\ Told.res \notin {"new_table_created", "dropped_and_recreated"} =>
                Plain(Diff, storage, before[Target].cols)
           /\ Told.res \in {"already_in_sync", "old_columns_removed"} => Lacking = <<>>
           /\ Told.res \in {"already_in_sync", "new_columns_added"} => Excess = <<>>
           /\ Told.res \in {"new_columns_added", "new_columns_added_and_old_columns_removed"} =>
                Lacking # <<>>
           /\ Told.res \in {"old_columns_removed", "new_columns_added_and_old_columns_removed"} =>
                Excess # <<>>
           /\ Told.res = "new_table_created" <=> before[Target].cols = <<>>
           /\ Told.res \in Results
<1> DEFINE cols == before[Target].cols
<1>1. /\ storage \in Seq(Columns) /\ cols \in Seq(Columns)
      /\ preserve \in BOOLEAN /\ build.hasDropColumn \in BOOLEAN
  BY StorageFacts DEF Sound
<1>2. Diff = CalculateRemoveAddColumns(storage, cols)
  BY DEF Diff
<1>3. Told = SchemaStatus(storage, cols, preserve, build.hasDropColumn)
  BY DEF Told, Status
<1> HIDE DEF cols
<1>4. /\ Diff.columnsToAdd \in Seq(Columns) /\ Diff.dbTableInfo \in Seq(Columns)
      /\ ColumnsOf(Diff.columnsToAdd) \subseteq ColumnsOf(storage)
      /\ \A c \in ColumnsOf(Diff.columnsToAdd) : c.name \notin NamesOf(cols)
      /\ ColumnsOf(Diff.storageTableInfo) \subseteq ColumnsOf(storage)
      /\ ~Diff.notEqual => Plain(Diff, storage, cols)
  BY <1>1, <1>2, DifferenceColumns
<1>5. /\ Told.res = "new_table_created" => cols = <<>>
      /\ cols = <<>> => Told.res = "new_table_created"
      /\ Told.res = "already_in_sync" =>
            ~Diff.notEqual /\ Diff.dbTableInfo = <<>> /\ Diff.columnsToAdd = <<>>
      /\ Told.res = "old_columns_removed" =>
            ~Diff.notEqual /\ Diff.dbTableInfo # <<>> /\ Diff.columnsToAdd = <<>>
      /\ Told.res = "new_columns_added" =>
            ~Diff.notEqual /\ Diff.dbTableInfo = <<>> /\ Diff.columnsToAdd # <<>>
      /\ Told.res = "new_columns_added_and_old_columns_removed" =>
            ~Diff.notEqual /\ Diff.dbTableInfo # <<>> /\ Diff.columnsToAdd # <<>>
      /\ Told.res \in {"new_table_created", "already_in_sync", "old_columns_removed", "new_columns_added",
                       "new_columns_added_and_old_columns_removed", "dropped_and_recreated"}
  BY <1>1, <1>2, <1>3, StatusTells
<1>6. Told.res \in Results
  BY <1>5 DEF Results
<1> QED
  BY <1>4, <1>5, <1>6 DEF Excess, Lacking, cols

LEMMA WithoutColumnOK ==
    ASSUME NEW t, TableOK(t), NEW c
    PROVE  TableOK(WithoutColumn(t, c)) /\ LacksColumn(WithoutColumn(t, c), t, c)
<1> DEFINE u == WithoutColumn(t, c)
<1>1. /\ u.cols = Without(t.cols, {c.name}) /\ u = [cols |-> u.cols, rows |-> u.rows]
      /\ u.rows = {Minus(r, {c.name}) : r \in t.rows}
  BY DEF WithoutColumn, Minus
<1>2. t.cols \in Seq(Columns) /\ \A r \in t.rows : r \in [NamesOf(t.cols) -> Origins]
  BY DEF TableOK
<1>3. u.cols \in Seq(Columns) /\ ColumnsOf(u.cols) = {d \in ColumnsOf(t.cols) : d.name \notin {c.name}}
  BY <1>1, <1>2, WithoutColumns
<1> HIDE DEF u
<1>4. NamesOf(u.cols) = NamesOf(t.cols) \ {c.name}
  <2>1. /\ NamesOf(u.cols) = {d.name : d \in ColumnsOf(u.cols)}
        /\ NamesOf(t.cols) = {d.name : d \in ColumnsOf(t.cols)}
    BY NamesOfColumns
  <2> QED
    BY <1>3, <2>1
<1>5. \A r \in t.rows : Minus(r, {c.name}) \in [NamesOf(t.cols) \ {c.name} -> Origins]
  BY <1>2 DEF Minus
<1>6. TableOK(u)
  BY <1>1, <1>3, <1>4, <1>5, Zenon DEF TableOK
<1>7. LacksColumn(u, t, c)
  BY <1>1, <1>3, Zenon DEF LacksColumn
<1> QED
  BY <1>6, <1>7 DEF u

LEMMA MinusTwice ==
    ASSUME NEW r, NEW N, NEW M
    PROVE  Minus(Minus(r, N), M) = Minus(r, N \cup M)
BY DEF Minus

(* The statements of drop and add column, in the order of the columns. *)
LEMMA ColumnPlans ==
    ASSUME NEW cols \in Seq(Columns)
    PROVE  /\ DropColumns(cols) \in Seq({DropColumn(c) : c \in Columns})
           /\ AddColumns(cols) \in Seq({AddColumn(c) : c \in Columns})
           /\ Len(DropColumns(cols)) = Len(cols) /\ Len(AddColumns(cols)) = Len(cols)
           /\ \A i \in 1..Len(cols) : /\ cols[i] \in Columns
                                      /\ DropColumns(cols)[i] = DropColumn(cols[i])
                                      /\ AddColumns(cols)[i] = AddColumn(cols[i])
<1>1. /\ Len(cols) \in Nat /\ DOMAIN cols = 1..Len(cols) /\ \A i \in 1..Len(cols) : cols[i] \in Columns
  BY LenProperties, ElementOfSeq
<1>2. /\ DropColumns(cols) = [i \in 1..Len(cols) |-> DropColumn(cols[i])]
      /\ AddColumns(cols) = [i \in 1..Len(cols) |-> AddColumn(cols[i])]
  BY <1>1 DEF DropColumns, AddColumns
<1> QED
  BY <1>1, <1>2

LEMMA DroppedNext ==
    ASSUME NEW k \in Nat
    PROVE  Dropped(k + 1) = Dropped(k) \cup {Excess[k + 1].name}
<1>1. 1..k + 1 = 1..k \cup {k + 1}
  OBVIOUS
<1> QED
  BY <1>1 DEF Dropped

(* Columns of the mapping are not among those to be removed. *)
LEMMA DroppedAreExcess ==
    ASSUME Sound, Plain(Diff, storage, before[Target].cols), NEW k \in 0..Len(Excess)
    PROVE  Dropped(k) \cap NamesOf(storage) = {}
<1>1. Excess \in Seq(Columns) /\ DOMAIN Excess = 1..Len(Excess) /\ Len(Excess) \in Nat
  BY PlanFacts, LenProperties
<1>2. ColumnsOf(Excess) = {c \in ColumnsOf(before[Target].cols) : c.name \notin NamesOf(storage)}
  BY DEF Plain, Excess
<1>3. \A i \in 1..k : Excess[i] \in ColumnsOf(Excess)
  BY <1>1 DEF ColumnsOf
<1> QED
  BY <1>2, <1>3 DEF Dropped

LEMMA DropStep ==
    ASSUME Sound, DropStage(todo), todo # <<>>, Step(Head(todo)), todo' = Tail(todo)
    PROVE  DropStage(todo)' /\ Goes(Head(todo))
<1> DEFINE m == Len(Excess)
           plan == DropColumns(Excess)
           t == tables[Target]
           old == before[Target]
<1>1. PICK k \in 0..m :
        /\ todo = SubSeq(plan, k + 1, m)
        /\ ColumnsOf(t.cols) = {c \in ColumnsOf(old.cols) : c.name \notin Dropped(k)}
        /\ t.rows = {Minus(r, Dropped(k)) : r \in old.rows}
  BY DEF DropStage
<1>2. Excess \in Seq(Columns) /\ m \in Nat
  BY PlanFacts, LenProperties
<1>3. /\ plan \in Seq({DropColumn(c) : c \in Columns}) /\ Len(plan) = m
      /\ \A i \in 1..m : Excess[i] \in Columns /\ plan[i] = DropColumn(Excess[i])
  BY <1>2, ColumnPlans, Zenon
<1> HIDE DEF plan
<1>4. k + 1 \in 1..m /\ Head(todo) = plan[k + 1] /\ Tail(todo) = SubSeq(plan, k + 2, m)
  <2> DEFINE Statements == {DropColumn(d) : d \in Columns}
  <2>1. plan \in Seq(Statements) /\ Len(plan) = m
    BY <1>3, Zenon
  <2>2. k \in 0..Len(plan) /\ todo = SubSeq(plan, k + 1, Len(plan))
    BY <1>1, <2>1, Zenon
  <2> HIDE DEF Statements
  <2>3. /\ k + 1 \in 1..Len(plan) /\ Head(todo) = plan[k + 1]
        /\ Tail(todo) = SubSeq(plan, k + 2, Len(plan))
    BY <2>1, <2>2, RestStep, Zenon
  <2> QED
    BY <2>1, <2>3, Zenon
<1> DEFINE c == Excess[k + 1]
           u == WithoutColumn(t, c)
<1>5. Head(todo) = DropColumn(c) /\ k \in Nat /\ k + 1 \in 0..m /\ k + 2 = k + 1 + 1
  <2>1. k \in Nat /\ k + 1 \in 0..m /\ k + 1 \in 1..m /\ k + 2 = k + 1 + 1
    <3>1. k \in 0..m /\ m \in Nat /\ k + 1 \in 1..m
      BY <1>2, <1>4, Zenon
    <3> HIDE DEF m
    <3> QED
      BY <3>1
  <2> QED
    BY <1>3, <1>4, <2>1
<1>6. tables' = [tables EXCEPT ![Target] = u]
  <2>1. TablesAfter(DropColumn(c)) = [tables EXCEPT ![Target] = WithoutColumn(@, c)]
    BY Effects, Zenon
  <2>2. tables' = TablesAfter(DropColumn(c))
    BY <1>5 DEF Step
  <2> QED
    BY <2>1, <2>2
<1>7. Target \in TableNames /\ TablesOK(tables) /\ TableOK(t)
  BY StorageFacts DEF Sound, TablesOK
<1>8. /\ TableOK(u)
      /\ ColumnsOf(u.cols) = {d \in ColumnsOf(t.cols) : d.name # c.name}
      /\ u.rows = {Minus(r, {c.name}) : r \in t.rows}
  <2>1. TableOK(u) /\ LacksColumn(u, t, c)
    BY <1>7, WithoutColumnOK
  <2> HIDE DEF u, c, t
  <2> QED
    BY <2>1 DEF LacksColumn
<1> HIDE DEF u, c
<1>9. /\ TablesOK(tables') /\ tables'[Target] = u
      /\ \A n \in TableNames \ {Target} : tables'[n] = tables[n]
  <2>1. /\ TablesOK([tables EXCEPT ![Target] = u]) /\ [tables EXCEPT ![Target] = u][Target] = u
        /\ \A n \in TableNames \ {Target} : [tables EXCEPT ![Target] = u][n] = tables[n]
    BY <1>7, <1>8, SetTable
  <2> QED
    BY <1>6, <2>1, Zenon
<1>10. Dropped(k + 1) = Dropped(k) \cup {c.name}
  BY <1>5, DroppedNext DEF c
<1>11. ColumnsOf(u.cols) = {d \in ColumnsOf(old.cols) : d.name \notin Dropped(k + 1)}
  BY <1>1, <1>8, <1>10
<1>12. u.rows = {Minus(r, Dropped(k + 1)) : r \in old.rows}
  <2>1. u.rows = {Minus(Minus(r, Dropped(k)), {c.name}) : r \in old.rows}
    BY <1>1, <1>8, Zenon
  <2>2. \A r : Minus(Minus(r, Dropped(k)), {c.name}) = Minus(r, Dropped(k + 1))
    BY <1>10, MinusTwice
  <2> QED
    BY <2>1, <2>2, Zenon
<1>13. Told' = Told /\ Excess' = Excess /\ build' = build /\ before' = before
  BY PlanStays DEF Step, Same
<1>14. DropStage(todo)'
  <2>1. Told'.res = "old_columns_removed" /\ build'.hasDropColumn
    BY <1>13 DEF DropStage
  <2>2. OthersStay'
    BY <1>9, <1>13 DEF OthersStay, DropStage
  <2>3. todo' = SubSeq(DropColumns(Excess'), k + 1 + 1, Len(Excess'))
    BY <1>4, <1>5, <1>13 DEF plan
  <2>4. Dropped(k + 1)' = Dropped(k + 1)
    BY <1>13 DEF Dropped
  <2>5. /\ ColumnsOf(tables'[Target].cols)
            = {d \in ColumnsOf(before'[Target].cols) : d.name \notin Dropped(k + 1)'}
        /\ tables'[Target].rows = {Minus(r, Dropped(k + 1)') : r \in before'[Target].rows}
    BY <1>9, <1>11, <1>12, <1>13, <2>4
  <2>6. k + 1 \in 0..Len(Excess')
    BY <1>5, <1>13
  <2> QED
    BY <2>1, <2>2, <2>3, <2>5, <2>6, Zenon DEF DropStage
<1>15. u.cols # <<>>
  <2>1. Plain(Diff, storage, old.cols) /\ Lacking = <<>>
    BY PlanFacts DEF DropStage
  <2>2. storage \in Seq(Columns) /\ storage # <<>>
    BY StorageFacts
  <2>3. storage[1] \in ColumnsOf(storage) /\ storage[1].name \in NamesOf(storage)
    BY <2>2 DEF ColumnsOf, NamesOf
  <2>4. ColumnsOf(Lacking) = {}
    BY <2>1 DEF ColumnsOf
  <2>5. storage[1].name \in NamesOf(old.cols)
    BY <2>1, <2>3, <2>4 DEF Plain, Lacking
  <2>6. PICK d \in ColumnsOf(old.cols) : d.name = storage[1].name
    BY <2>5, NamesOfColumns
  <2>7. d.name \notin Dropped(k + 1)
    BY <1>5, <2>1, <2>3, <2>6, DroppedAreExcess
  <2>8. ColumnsOf(u.cols) # {}
    BY <1>11, <2>6, <2>7
  <2> QED
    BY <2>8 DEF ColumnsOf
<1>16. Goes(Head(todo))
  BY <1>9, <1>15 DEF Goes, Exists
<1> QED
  BY <1>14, <1>16

LEMMA WithColumnOK ==
    ASSUME NEW t, TableOK(t), NEW c \in Columns
    PROVE  TableOK(WithColumn(t, c)) /\ HasColumn(WithColumn(t, c), t, c)
<1> DEFINE u == WithColumn(t, c)
           d == [c EXCEPT !.pk = 0]
<1>1. /\ u.cols = Append(t.cols, d) /\ u = [cols |-> u.cols, rows |-> u.rows]
      /\ u.rows = {Plus(r, c) : r \in t.rows}
  BY DEF WithColumn, Plus
<1>2. t.cols \in Seq(Columns) /\ \A r \in t.rows : r \in [NamesOf(t.cols) -> Origins]
  BY DEF TableOK
<1>3. d \in Columns /\ d.name = c.name
  BY DEF Columns
<1> HIDE DEF u, d
<1>4. u.cols \in Seq(Columns) /\ ColumnsOf(u.cols) = ColumnsOf(t.cols) \cup {d}
  BY <1>1, <1>2, <1>3, AppendColumns
<1>5. NamesOf(u.cols) = NamesOf(t.cols) \cup {c.name}
  <2>1. /\ NamesOf(u.cols) = {e.name : e \in ColumnsOf(u.cols)}
        /\ NamesOf(t.cols) = {e.name : e \in ColumnsOf(t.cols)}
    BY NamesOfColumns
  <2> QED
    BY <1>3, <1>4, <2>1
<1>6. \A r \in t.rows : Plus(r, c) \in [NamesOf(t.cols) \cup {c.name} -> Origins]
  BY <1>2, FillerOrigin DEF Plus
<1>7. TableOK(u)
  BY <1>1, <1>4, <1>5, <1>6, Zenon DEF TableOK
<1>8. u.cols # <<>>
  BY <1>4 DEF ColumnsOf
<1>9. HasColumn(u, t, c)
  BY <1>1, <1>4, <1>8 DEF HasColumn, d
<1> QED
  BY <1>7, <1>9 DEF u

LEMMA AddedNext ==
    ASSUME NEW k \in Nat
    PROVE  Added(k + 1) = Added(k) \cup {[Lacking[k + 1] EXCEPT !.pk = 0]}
<1>1. 1..k + 1 = 1..k \cup {k + 1}
  OBVIOUS
<1> QED
  BY <1>1 DEF Added

LEMMA AddStep ==
    ASSUME Sound, AddStage(todo), todo # <<>>, Step(Head(todo)), todo' = Tail(todo)
    PROVE  AddStage(todo)' /\ Goes(Head(todo))
<1> DEFINE m == Len(Lacking)
           plan == AddColumns(Lacking)
           t == tables[Target]
           old == before[Target]
<1>1. PICK k \in 0..m :
        /\ todo = SubSeq(plan, k + 1, m)
        /\ ColumnsOf(t.cols) = ColumnsOf(old.cols) \cup Added(k)
        /\ \A i \in 1..k : Lacking[i].pk > 0 => Composite(storage)
        /\ \A r \in old.rows : Keeps(t.rows, r)
  BY DEF AddStage
<1>2. Lacking \in Seq(Columns) /\ m \in Nat /\ DOMAIN Lacking = 1..m
  BY PlanFacts, LenProperties
<1>3. /\ plan \in Seq({AddColumn(c) : c \in Columns}) /\ Len(plan) = m
      /\ \A i \in 1..m : Lacking[i] \in Columns /\ plan[i] = AddColumn(Lacking[i])
  BY <1>2, ColumnPlans, Zenon
<1> HIDE DEF plan
<1>4. k + 1 \in 1..m /\ Head(todo) = plan[k + 1] /\ Tail(todo) = SubSeq(plan, k + 2, m)
  <2> DEFINE Statements == {AddColumn(d) : d \in Columns}
  <2>1. plan \in Seq(Statements) /\ Len(plan) = m
    BY <1>3, Zenon
  <2>2. k \in 0..Len(plan) /\ todo = SubSeq(plan, k + 1, Len(plan))
    BY <1>1, <2>1, Zenon
  <2> HIDE DEF Statements
  <2>3. /\ k + 1 \in 1..Len(plan) /\ Head(todo) = plan[k + 1]
        /\ Tail(todo) = SubSeq(plan, k + 2, Len(plan))
    BY <2>1, <2>2, RestStep, Zenon
  <2> QED
    BY <2>1, <2>3, Zenon
<1> DEFINE c == Lacking[k + 1]
           u == WithColumn(t, c)
<1>5. /\ Head(todo) = AddColumn(c) /\ k \in Nat /\ k + 1 \in 0..m /\ k + 2 = k + 1 + 1
      /\ c \in Columns /\ c \in ColumnsOf(Lacking)
  <2>1. k \in Nat /\ k + 1 \in 0..m /\ k + 1 \in 1..m /\ k + 2 = k + 1 + 1
    <3>1. k \in 0..m /\ m \in Nat /\ k + 1 \in 1..m
      BY <1>2, <1>4, Zenon
    <3> HIDE DEF m
    <3> QED
      BY <3>1
  <2>2. c \in Columns /\ Head(todo) = AddColumn(c)
    BY <1>3, <1>4, <2>1
  <2>3. c \in ColumnsOf(Lacking)
    BY <1>2, <2>1, Zenon DEF ColumnsOf
  <2> QED
    BY <2>1, <2>2, <2>3, Zenon
<1>6. tables' = [tables EXCEPT ![Target] = u]
  <2>1. TablesAfter(AddColumn(c)) = [tables EXCEPT ![Target] = WithColumn(@, c)]
    BY Effects
  <2>2. tables' = TablesAfter(AddColumn(c))
    BY <1>5 DEF Step
  <2> QED
    BY <2>1, <2>2
<1>7. Target \in TableNames /\ TablesOK(tables) /\ TableOK(t) /\ TableOK(old)
  BY StorageFacts DEF Sound, TablesOK
<1>8. TableOK(u) /\ HasColumn(u, t, c)
  BY <1>5, <1>7, WithColumnOK
<1> HIDE DEF u, c
<1>9. /\ TablesOK(tables') /\ tables'[Target] = u
      /\ \A n \in TableNames \ {Target} : tables'[n] = tables[n]
  <2>1. /\ TablesOK([tables EXCEPT ![Target] = u]) /\ [tables EXCEPT ![Target] = u][Target] = u
        /\ \A n \in TableNames \ {Target} : [tables EXCEPT ![Target] = u][n] = tables[n]
    BY <1>7, <1>8, SetTable
  <2> QED
    BY <1>6, <2>1, Zenon
<1>10. Added(k + 1) = Added(k) \cup {[c EXCEPT !.pk = 0]}
  BY <1>5, AddedNext DEF c
<1>11. ColumnsOf(u.cols) = ColumnsOf(old.cols) \cup Added(k + 1)
  BY <1>1, <1>8, <1>10 DEF HasColumn
<1>12. ASSUME NEW r \in old.rows
       PROVE  Keeps(u.rows, r)
  <2>1. PICK q \in t.rows : Has(q, r)
    BY <1>1 DEF Keeps
  <2>2. c.name \notin DOMAIN r
    BY <1>5, <1>7, <1>12, PlanFacts DEF TableOK
  <2>3. Plus(q, c) \in u.rows
    BY <1>8 DEF HasColumn
  <2>4. Has(Plus(q, c), r)
    BY <2>1, <2>2 DEF Has, Plus
  <2> QED
    BY <2>3, <2>4 DEF Keeps
<1>13. \A i \in 1..k + 1 : Lacking[i].pk > 0 => Composite(storage)
  <2>1. c.pk > 0 => Composite(storage)
    <3>1. ~Fails(AddColumn(c))
      BY <1>5 DEF Step
    <3>2. AddColumn(c).op = "add column" /\ AddColumn(c).column = c
      BY DEF AddColumn
    <3>3. Fails(AddColumn(c)) = \/ c.name \in NamesOf(tables[Target].cols)
                                \/ Stored(c)
                                \/ c.pk > 0 /\ ~Composite(storage)
                                \/ LacksValue(c) /\ tables[Target].rows # {}
      BY <3>2, Zenon DEF Fails
    <3> QED
      BY <3>1, <3>3
  <2>2. \A i \in 1..k + 1 : i \in 1..k \/ i = k + 1
    BY <1>5
  <2> QED
    BY <1>1, <2>1, <2>2 DEF c
<1>14. Told' = Told /\ Lacking' = Lacking /\ storage' = storage /\ before' = before
  BY PlanStays DEF Step, Same
<1>15. AddStage(todo)'
  <2>1. Told'.res = "new_columns_added"
    BY <1>14 DEF AddStage
  <2>2. OthersStay'
    BY <1>9, <1>14 DEF OthersStay, AddStage
  <2>3. todo' = SubSeq(AddColumns(Lacking'), k + 1 + 1, Len(Lacking'))
    BY <1>4, <1>5, <1>14 DEF plan
  <2>4. Added(k + 1)' = Added(k + 1) /\ Composite(storage)' = Composite(storage)
    BY <1>14 DEF Added, Composite
  <2>5. /\ ColumnsOf(tables'[Target].cols) = ColumnsOf(before'[Target].cols) \cup Added(k + 1)'
        /\ \A r \in before'[Target].rows : Keeps(tables'[Target].rows, r)
    BY <1>9, <1>11, <1>12, <1>14, <2>4
  <2>6. \A i \in 1..k + 1 : Lacking'[i].pk > 0 => Composite(storage)'
    BY <1>13, <1>14, <2>4
  <2>7. k + 1 \in 0..Len(Lacking')
    BY <1>5, <1>14
  <2> QED
    BY <2>1, <2>2, <2>3, <2>5, <2>6, <2>7, Zenon DEF AddStage
<1>16. Goes(Head(todo))
  BY <1>8, <1>9 DEF Goes, Exists, HasColumn
<1> QED
  BY <1>15, <1>16

LEMMA StageSteps ==
    ASSUME Sound, Stage(todo), todo # <<>>, Step(Head(todo)), todo' = Tail(todo)
    PROVE  Stage(todo)' /\ Goes(Head(todo))
<1>1. CASE SameStage(todo)
  BY <1>1 DEF SameStage
<1>2. CASE CreateStage(todo)
  BY <1>2, CreateStep DEF Stage
<1>3. CASE LossStage(todo)
  BY <1>3, LossStep DEF Stage
<1>4. CASE BackupStage(todo)
  BY <1>4, BackupStep DEF Stage
<1>5. CASE DropStage(todo)
  BY <1>5, DropStep DEF Stage
<1>6. CASE AddStage(todo)
  BY <1>6, AddStep DEF Stage
<1> QED
  BY <1>1, <1>2, <1>3, <1>4, <1>5, <1>6 DEF Stage

(* The only table that is dropped is the mapped one, and only when it is made *)
(* anew; the index is another object's.                                      *)
LEMMA StageHead ==
    ASSUME Sound, Stage(todo), todo # <<>>
    PROVE  /\ Head(todo).op # "index"
           /\ Head(todo).op = "drop" => Head(todo).at = Target /\ (WithLoss \/ ByBackup)
<1>1. CASE SameStage(todo)
  BY <1>1 DEF SameStage
<1>2. CASE CreateStage(todo)
  <2> DEFINE plan == <<CreateTable(Target)>>
  <2>1. PICK k \in 0..1 : todo = SubSeq(plan, k + 1, 1)
    BY <1>2 DEF CreateStage
  <2>2. plan \in Seq({CreateTable(Target)}) /\ Len(plan) = 1 /\ plan[1] = CreateTable(Target)
    OBVIOUS
  <2> HIDE DEF plan
  <2>3. k + 1 \in 1..1 /\ Head(todo) = plan[k + 1]
    BY <2>1, <2>2, RestStep
  <2>4. Head(todo) = CreateTable(Target)
    BY <2>2, <2>3
  <2> QED
    BY <2>4 DEF CreateTable
<1>3. CASE LossStage(todo)
  <2> DEFINE plan == DropCreateWithLoss
  <2>1. PICK k \in 0..2 : todo = SubSeq(plan, k + 1, 2)
    BY <1>3 DEF LossStage
  <2>2. /\ plan \in Seq({DropTable(Target), CreateTable(Target)}) /\ Len(plan) = 2
        /\ \A i \in 1..2 : plan[i].at = Target /\ plan[i].op # "index"
    BY DEF DropCreateWithLoss, DropTable, CreateTable
  <2> HIDE DEF plan
  <2>3. k + 1 \in 1..2 /\ Head(todo) = plan[k + 1]
    BY <2>1, <2>2, RestStep
  <2> QED
    BY <1>3, <2>2, <2>3 DEF LossStage
<1>4. CASE BackupStage(todo)
  <2>1. PICK b \in TableNames \ {Target}, k \in 0..4 : todo = SubSeq(BackupPlan(b), k + 1, 4)
    BY <1>4 DEF BackupStage
  <2> DEFINE plan == BackupPlan(b)
  <2>2. /\ plan \in Seq({CreateTable(b), CopyTable(Target, b, CopiedNames), DropTable(Target), RenameTable(b, Target)})
        /\ Len(plan) = 4 /\ plan[1] = CreateTable(b) /\ plan[2] = CopyTable(Target, b, CopiedNames)
        /\ plan[3] = DropTable(Target) /\ plan[4] = RenameTable(b, Target)
    BY DEF BackupPlan
  <2>3. /\ CreateTable(b).op = "create" /\ CopyTable(Target, b, CopiedNames).op = "copy"
        /\ DropTable(Target).at = Target /\ DropTable(Target).op = "drop"
        /\ RenameTable(b, Target).op = "rename"
    BY DEF CreateTable, CopyTable, DropTable, RenameTable
  <2>4. todo = SubSeq(plan, k + 1, 4)
    BY <2>1
  <2> HIDE DEF plan
  <2>5. k + 1 \in 1..4 /\ Head(todo) = plan[k + 1]
    BY <2>2, <2>4, RestStep
  <2>6. Head(todo).op # "index" /\ (Head(todo).op = "drop" => Head(todo).at = Target)
    BY <2>2, <2>3, <2>5
  <2> QED
    BY <1>4, <2>6 DEF BackupStage
<1>5. CASE DropStage(todo)
  <2> DEFINE plan == DropColumns(Excess)
  <2>1. PICK k \in 0..Len(Excess) : todo = SubSeq(plan, k + 1, Len(Excess))
    BY <1>5 DEF DropStage
  <2>2. /\ plan \in Seq({DropColumn(c) : c \in Columns}) /\ Len(plan) = Len(Excess)
        /\ \A i \in 1..Len(Excess) : plan[i] = DropColumn(Excess[i])
    BY PlanFacts, ColumnPlans, Zenon
  <2> HIDE DEF plan
  <2>3. k + 1 \in 1..Len(Excess) /\ Head(todo) = plan[k + 1]
    BY <2>1, <2>2, RestStep
  <2>4. Head(todo) = DropColumn(Excess[k + 1])
    BY <2>2, <2>3
  <2>5. \A c : DropColumn(c).op = "drop column"
    BY DEF DropColumn
  <2>6. Head(todo).op = "drop column"
    BY <2>4, <2>5, Zenon
  <2> QED
    BY <2>6, Zenon
<1>6. CASE AddStage(todo)
  <2> DEFINE plan == AddColumns(Lacking)
  <2>1. PICK k \in 0..Len(Lacking) : todo = SubSeq(plan, k + 1, Len(Lacking))
    BY <1>6 DEF AddStage
  <2>2. /\ plan \in Seq({AddColumn(c) : c \in Columns}) /\ Len(plan) = Len(Lacking)
        /\ \A i \in 1..Len(Lacking) : plan[i] = AddColumn(Lacking[i])
    BY PlanFacts, ColumnPlans, Zenon
  <2> HIDE DEF plan
  <2>3. k + 1 \in 1..Len(Lacking) /\ Head(todo) = plan[k + 1]
    BY <2>1, <2>2, RestStep
  <2>4. Head(todo) = AddColumn(Lacking[k + 1])
    BY <2>2, <2>3
  <2>5. \A c : AddColumn(c).op = "add column"
    BY DEF AddColumn
  <2>6. Head(todo).op = "add column"
    BY <2>4, <2>5, Zenon
  <2> QED
    BY <2>6, Zenon
<1> QED
  BY <1>1, <1>2, <1>3, <1>4, <1>5, <1>6 DEF Stage

(* A stage stays as it is while the tables do. *)
LEMMA StageStays ==
    ASSUME NEW rest, Same, tables' = tables, Stage(rest)
    PROVE  Stage(rest)' /\ (todo' = rest => Stage(todo)')
<1>1. /\ Told' = Told /\ Excess' = Excess /\ Lacking' = Lacking
      /\ Created' = Created /\ WithLoss' = WithLoss /\ ByBackup' = ByBackup
      /\ CopiedNames' = CopiedNames /\ Copy' = Copy
      /\ build' = build /\ storage' = storage /\ before' = before
  BY PlanStays DEF Same
<1>2. CASE SameStage(rest)
  BY <1>1, <1>2 DEF Stage, SameStage
<1>3. CASE CreateStage(rest)
  BY <1>1, <1>3 DEF Stage, CreateStage
<1>4. CASE LossStage(rest)
  BY <1>1, <1>4, Zenon DEF Stage, LossStage
<1>5. CASE BackupStage(rest)
  <2>1. PICK b \in TableNames \ {Target}, k \in 0..4 :
          before[b] = NoTable /\ rest = SubSeq(BackupPlan(b), k + 1, 4) /\ tables = BackupTables(b, k)
    BY <1>5 DEF BackupStage
  <2>2. BackupPlan(b)' = BackupPlan(b) /\ BackupTables(b, k)' = BackupTables(b, k)
    BY <1>1 DEF BackupPlan, BackupTables
  <2>3. /\ ByBackup' /\ before'[b] = NoTable
        /\ rest = SubSeq(BackupPlan(b)', k + 1, 4) /\ tables' = BackupTables(b, k)'
    BY <1>1, <1>5, <2>1, <2>2 DEF BackupStage
  <2> QED
    BY <2>3, Zenon DEF Stage, BackupStage
<1>6. OthersStay => OthersStay'
  BY <1>1 DEF OthersStay
<1>7. CASE DropStage(rest)
  <2>1. PICK k \in 0..Len(Excess) :
        /\ rest = SubSeq(DropColumns(Excess), k + 1, Len(Excess))
        /\ ColumnsOf(tables[Target].cols) = {c \in ColumnsOf(before[Target].cols) : c.name \notin Dropped(k)}
        /\ tables[Target].rows = {Minus(r, Dropped(k)) : r \in before[Target].rows}
    BY <1>7 DEF DropStage
  <2>2. Dropped(k)' = Dropped(k)
    BY <1>1 DEF Dropped
  <2>3. /\ k \in 0..Len(Excess') /\ rest = SubSeq(DropColumns(Excess'), k + 1, Len(Excess'))
        /\ ColumnsOf(tables'[Target].cols) = {c \in ColumnsOf(before'[Target].cols) : c.name \notin Dropped(k)'}
        /\ tables'[Target].rows = {Minus(r, Dropped(k)') : r \in before'[Target].rows}
    BY <1>1, <2>1, <2>2
  <2>4. Told'.res = "old_columns_removed" /\ build'.hasDropColumn /\ OthersStay'
    BY <1>1, <1>6, <1>7 DEF DropStage
  <2> QED
    BY <2>3, <2>4 DEF Stage, DropStage
<1>8. CASE AddStage(rest)
  <2>1. PICK k \in 0..Len(Lacking) :
        /\ rest = SubSeq(AddColumns(Lacking), k + 1, Len(Lacking))
        /\ ColumnsOf(tables[Target].cols) = ColumnsOf(before[Target].cols) \cup Added(k)
        /\ \A i \in 1..k : Lacking[i].pk > 0 => Composite(storage)
        /\ \A r \in before[Target].rows : Keeps(tables[Target].rows, r)
    BY <1>8, Zenon DEF AddStage
  <2>2. Added(k)' = Added(k) /\ Composite(storage)' = Composite(storage)
    BY <1>1 DEF Added, Composite
  <2>3. /\ k \in 0..Len(Lacking') /\ rest = SubSeq(AddColumns(Lacking'), k + 1, Len(Lacking'))
        /\ ColumnsOf(tables'[Target].cols) = ColumnsOf(before'[Target].cols) \cup Added(k)'
        /\ \A i \in 1..k : Lacking'[i].pk > 0 => Composite(storage)'
        /\ \A r \in before'[Target].rows : Keeps(tables'[Target].rows, r)
    BY <1>1, <2>1, <2>2
  <2>4. Told'.res = "new_columns_added" /\ OthersStay'
    BY <1>1, <1>6, <1>8 DEF AddStage
  <2> QED
    BY <2>3, <2>4 DEF Stage, AddStage
<1> QED
  BY <1>2, <1>3, <1>4, <1>5, <1>7, <1>8 DEF Stage

LEMMA RestOfAll ==
    ASSUME NEW S, NEW plan \in Seq(S)
    PROVE  plan = SubSeq(plan, 0 + 1, Len(plan)) /\ 0 \in 0..Len(plan)
<1>1. Len(plan) \in Nat
  BY LenProperties
<1>2. 0 + 1 = 1 /\ 0 \in 0..Len(plan)
  BY <1>1
<1> QED
  BY <1>2, SubSeqFull

LEMMA BackupBegins ==
    ASSUME Sound, tables = before, Free, ByBackup, NEW plan, plan = BackupTable(Ignored)
    PROVE  BackupStage(plan)
<1> DEFINE b == Min(FreeNames)
<1>1. FreeNames \in SUBSET Nat /\ FreeNames # {}
  <2>1. TableNames \subseteq Nat
    BY SyncBounds DEF TableNames
  <2>2. FreeNames \subseteq TableNames
    BY Zenon DEF FreeNames
  <2>3. FreeNames # {}
    BY Zenon DEF FreeNames, Free, Exists
  <2> QED
    BY <2>1, <2>2, <2>3, Zenon
<1>2. b \in FreeNames
  BY <1>1, MinIsSmallest
<1>3. b \in TableNames \ {Target} /\ before[b].cols = <<>>
  BY <1>2 DEF FreeNames, Exists
<1>4. plan = BackupPlan(b)
  BY DEF BackupTable, BackupPlan, CopiedNames
<1> HIDE DEF b
<1>5. before[b] = NoTable
  BY <1>3 DEF Sound, TablesOK
<1>6. /\ plan \in Seq({CreateTable(b), CopyTable(Target, b, CopiedNames), DropTable(Target), RenameTable(b, Target)})
      /\ Len(plan) = 4
  BY <1>4 DEF BackupPlan
<1>7. plan = SubSeq(BackupPlan(b), 0 + 1, 4)
  BY <1>4, <1>6, RestOfAll
<1>8. tables = BackupTables(b, 0) /\ 0 \in 0..4
  BY DEF BackupTables
<1> QED
  BY <1>3, <1>5, <1>7, <1>8 DEF BackupStage

(* What sync_table is going to do is a stage in which nothing is done yet. *)
LEMMA StageBegins ==
    ASSUME Sound, tables = before, Free, NEW plan, plan = SyncTable(Told).todo
    PROVE  Stage(plan)
<1>1. Diff = CalculateRemoveAddColumns(storage, tables[Target].cols)
  BY DEF Diff
<1>2. OthersStay
  BY DEF OthersStay
<1>3. Excess \in Seq(Columns) /\ Lacking \in Seq(Columns) /\ Told.res \in Results
  BY PlanFacts
<1>4. CASE Told.res = "already_in_sync"
  BY <1>4 DEF SyncTable, Doing, Stage, SameStage
<1>5. CASE Told.res = "new_table_created"
  <2>1. plan = <<CreateTable(Target)>>
    BY <1>5 DEF SyncTable, Doing
  <2>2. plan \in Seq({CreateTable(Target)}) /\ Len(plan) = 1
    BY <2>1
  <2>3. plan = SubSeq(plan, 0 + 1, 1)
    BY <2>2, RestOfAll
  <2>4. CreateStage(plan)
    BY <1>5, <2>1, <2>3 DEF CreateStage
  <2> QED
    BY <2>4 DEF Stage
<1>6. CASE Told.res = "old_columns_removed" /\ build.hasDropColumn
  <2>1. plan = DropColumns(Excess)
    BY <1>1, <1>6 DEF SyncTable, Doing, Excess
  <2>2. plan \in Seq({DropColumn(c) : c \in Columns}) /\ Len(plan) = Len(Excess)
    BY <1>3, <2>1, ColumnPlans, Zenon
  <2>3. plan = SubSeq(DropColumns(Excess), 0 + 1, Len(Excess)) /\ 0 \in 0..Len(Excess)
    BY <2>1, <2>2, RestOfAll
  <2>4. Dropped(0) = {}
    BY DEF Dropped
  <2>5. \A r \in before[Target].rows : Minus(r, {}) = r
    <3>1. \A r \in before[Target].rows : r \in [NamesOf(before[Target].cols) -> Origins]
      BY StorageFacts DEF Sound, TablesOK, TableOK
    <3> QED
      BY <3>1 DEF Minus
  <2>6. tables[Target].rows = {Minus(r, Dropped(0)) : r \in before[Target].rows}
    BY <2>4, <2>5
  <2>7. ColumnsOf(tables[Target].cols) = {c \in ColumnsOf(before[Target].cols) : c.name \notin Dropped(0)}
    BY <2>4
  <2>8. DropStage(plan)
    BY <1>2, <1>6, <2>3, <2>6, <2>7, Zenon DEF DropStage
  <2> QED
    BY <2>8 DEF Stage
<1>7. CASE Told.res = "new_columns_added"
  <2>1. plan = AddColumns(Lacking)
    BY <1>1, <1>7 DEF SyncTable, Doing, Lacking
  <2>2. plan \in Seq({AddColumn(c) : c \in Columns}) /\ Len(plan) = Len(Lacking)
    BY <1>3, <2>1, ColumnPlans, Zenon
  <2>3. plan = SubSeq(AddColumns(Lacking), 0 + 1, Len(Lacking)) /\ 0 \in 0..Len(Lacking)
    BY <2>1, <2>2, RestOfAll
  <2>4. Added(0) = {}
    BY DEF Added
  <2>5. \A r \in before[Target].rows : Keeps(tables[Target].rows, r)
    BY DEF Keeps, Has
  <2>6. /\ ColumnsOf(tables[Target].cols) = ColumnsOf(before[Target].cols) \cup Added(0)
        /\ \A i \in 1..0 : Lacking[i].pk > 0 => Composite(storage)
    BY <2>4
  <2>7. AddStage(plan)
    BY <1>2, <1>7, <2>3, <2>5, <2>6 DEF AddStage
  <2> QED
    BY <2>7 DEF Stage
<1>8. CASE ByBackup
  <2>1. plan = BackupTable(Ignored)
    BY <1>1, <1>8, Zenon DEF SyncTable, Doing, ByBackup, Ignored, Lacking
  <2> QED
    BY <1>8, <2>1, BackupBegins DEF Stage
<1>9. CASE WithLoss
  <2>1. plan = DropCreateWithLoss
    BY <1>9 DEF SyncTable, Doing, WithLoss
  <2>2. plan \in Seq({DropTable(Target), CreateTable(Target)}) /\ Len(plan) = 2
    BY <2>1 DEF DropCreateWithLoss
  <2>3. plan = SubSeq(DropCreateWithLoss, 0 + 1, 2)
    BY <2>1, <2>2, RestOfAll
  <2>4. LossStage(plan)
    BY <1>9, <2>3 DEF LossStage
  <2> QED
    BY <2>4 DEF Stage
<1> QED
  BY <1>3, <1>4, <1>5, <1>6, <1>7, <1>8, <1>9 DEF ByBackup, WithLoss, Results
==============================================================================
