-------------------------- MODULE SyncSchemaProofs --------------------------
(* SyncSchema for tables of any columns and rows, any number of calls and of *)
(* interruptions, and any number of tables that have backup names.           *)
EXTENDS SyncStageProofs
------------------------------------------------------------------------------
(* The objects of a storage *)
LEMMA NextObject ==
    ASSUME NEW s \in Seq(Kinds), s # <<>>, IsInjective(s)
    PROVE  /\ Head(s) \in Kinds /\ Head(s) \in Range(s)
           /\ Tail(s) \in Seq(Kinds) /\ IsInjective(Tail(s))
           /\ Range(Tail(s)) = Range(s) \ {Head(s)}
           /\ IF Tail(s) = <<>> THEN s[Len(s)] = Head(s) ELSE Tail(s)[Len(Tail(s))] = s[Len(s)]
<1> DEFINE n == Len(s)
           t == Tail(s)
<1>1. n \in Nat /\ n # 0 /\ DOMAIN s = 1..n /\ Head(s) = s[1]
  BY LenProperties
<1>2. Head(s) \in Kinds /\ t \in Seq(Kinds) /\ Len(t) = n - 1 /\ \A i \in 1..Len(t) : t[i] = s[i + 1]
  BY HeadTailProperties
<1>3. DOMAIN t = 1..n - 1
  BY <1>2, LenProperties
<1>4. \A i, j \in 1..n : s[i] = s[j] => i = j
  BY <1>1 DEF IsInjective
<1> HIDE DEF t, n
<1>5. \A i \in 1..n - 1 : i + 1 \in 1..n /\ i + 1 # 1 /\ t[i] = s[i + 1]
  BY <1>1, <1>2
<1>6. \A i \in 1..n : i = 1 \/ (i - 1 \in 1..n - 1 /\ t[i - 1] = s[i])
  BY <1>1, <1>2
<1>7. \A i, j \in 1..n - 1 : t[i] = t[j] => i = j
  <2> SUFFICES ASSUME NEW i \in 1..n - 1, NEW j \in 1..n - 1, t[i] = t[j]
               PROVE  i = j
    OBVIOUS
  <2>1. i + 1 = j + 1
    BY <1>4, <1>5
  <2> QED
    BY <1>1, <2>1
<1>8. IsInjective(t)
  BY <1>3, <1>7 DEF IsInjective
<1>9. Range(t) = {t[i] : i \in 1..n - 1} /\ Range(s) = {s[i] : i \in 1..n}
  BY <1>1, <1>3 DEF Range
<1>10. 1 \in 1..n
  BY <1>1
<1>11. Range(t) = Range(s) \ {s[1]}
  <2>1. ASSUME NEW x \in Range(t) PROVE x \in Range(s) \ {s[1]}
    BY <1>4, <1>5, <1>9, <1>10
  <2>2. ASSUME NEW x \in Range(s) \ {s[1]} PROVE x \in Range(t)
    BY <1>6, <1>9
  <2> QED
    BY <2>1, <2>2
<1>12. IF t = <<>> THEN s[n] = s[1] ELSE t[Len(t)] = s[n]
  <2>1. CASE n = 1
    BY <1>2, <2>1
  <2>2. CASE n # 1
    <3>1. n - 1 \in 1..n - 1 /\ n - 1 + 1 = n
      BY <1>1, <2>2
    <3>2. t # <<>>
      BY <1>3, <3>1
    <3> QED
      BY <1>2, <1>5, <3>1, <3>2
  <2> QED
    BY <2>1, <2>2
<1>13. s[1] \in Range(s)
  BY <1>9, <1>10
<1> QED
  BY <1>1, <1>2, <1>8, <1>11, <1>12, <1>13 DEF t, n

(* iterate_tuple<true> comes to all the objects, and to the first one last. *)
LEMMA ObjectsIterated ==
    /\ IterateTuple \in Seq(Kinds) /\ IsInjective(IterateTuple)
    /\ Range(IterateTuple) = Range(Objects)
    /\ Objects # <<>> => IterateTuple # <<>> /\ IterateTuple[Len(IterateTuple)] = Head(Objects)
<1> DEFINE n == Len(Objects)
           t == IterateTuple
<1>1. Objects \in Seq(Kinds) /\ n \in Nat /\ DOMAIN Objects = 1..n
  BY ObjectsOfStorage, LenProperties DEF Kinds
<1>2. \A i, j \in 1..n : Objects[i] = Objects[j] => i = j
  BY <1>1, ObjectsOfStorage DEF IsInjective
<1>3. t = [i \in 1..n |-> Objects[n - i + 1]]
  BY DEF IterateTuple
<1>4. \A i \in 1..n : n - i + 1 \in 1..n /\ n - (n - i + 1) + 1 = i /\ Objects[i] \in Kinds
  BY <1>1, ElementOfSeq
<1>5. t \in Seq(Kinds) /\ Len(t) = n /\ DOMAIN t = 1..n
  BY <1>1, <1>3, <1>4
<1> HIDE DEF t, n
<1>6. \A i \in 1..n : t[i] = Objects[n - i + 1]
  BY <1>3
<1>7. \A i, j \in 1..n : n - i + 1 = n - j + 1 => i = j
  BY <1>1
<1>8. IsInjective(t)
  <2>1. ASSUME NEW i \in 1..n, NEW j \in 1..n, t[i] = t[j]
        PROVE  i = j
    <3>1. n - i + 1 \in 1..n /\ n - j + 1 \in 1..n /\ Objects[n - i + 1] = Objects[n - j + 1]
      BY <1>4, <1>6, <2>1
    <3>2. n - i + 1 = n - j + 1
      BY <1>2, <3>1
    <3> QED
      BY <1>7, <3>2
  <2> QED
    BY <1>5, <2>1 DEF IsInjective
<1>9. Range(t) = {t[i] : i \in 1..n} /\ Range(Objects) = {Objects[i] : i \in 1..n}
  BY <1>1, <1>5 DEF Range
<1>10. Range(t) = Range(Objects)
  <2>1. ASSUME NEW x \in Range(t) PROVE x \in Range(Objects)
    BY <1>4, <1>6, <1>9
  <2>2. ASSUME NEW x \in Range(Objects) PROVE x \in Range(t)
    BY <1>4, <1>6, <1>9
  <2> QED
    BY <2>1, <2>2
<1>11. ASSUME Objects # <<>>
       PROVE  t # <<>> /\ t[Len(t)] = Head(Objects)
  <2>1. n # 0 /\ Head(Objects) = Objects[1]
    BY <1>1, <1>11 DEF n
  <2>2. n \in 1..n /\ n - n + 1 = 1
    BY <1>1, <2>1
  <2> QED
    BY <1>5, <1>6, <2>1, <2>2
<1> QED
  BY <1>5, <1>8, <1>10, <1>11 DEF t
------------------------------------------------------------------------------
(* The invariant *)
LEMMA FilledOK ==
    ASSUME NEW cols \in Seq(Columns), NEW origin \in Origins
    PROVE  TableOK(Filled(cols, origin)) /\ Filled(cols, origin).cols = cols
<1> DEFINE t == Filled(cols, origin)
<1>1. /\ t.cols = cols /\ t = [cols |-> t.cols, rows |-> t.rows]
      /\ t.rows = IF cols = <<>> THEN {} ELSE {[n \in NamesOf(cols) |-> origin]}
  BY DEF Filled
<1> HIDE DEF t
<1>2. \A r \in t.rows : r \in [NamesOf(cols) -> Origins]
  BY <1>1
<1>3. TableOK(t)
  BY <1>1, <1>2 DEF TableOK
<1> QED
  BY <1>1, <1>3 DEF t

LEMMA InitInv == Init => SyncInv
<1> SUFFICES ASSUME Init
             PROVE  SyncInv
  OBVIOUS
<1>1. storage \in Seq(Columns) /\ storage # <<>> /\ build \in Builds /\ storage \in Mappings
  BY ColumnsOfTables DEF Init
<1>2. PICK cols \in Databases, taken \in Taken :
        tables = [n \in TableNames |-> IF n = Target THEN Filled(cols, "own")
                                       ELSE IF n \in taken THEN Filled(storage, "other") ELSE NoTable]
  BY DEF Init
<1>3. "own" \in Origins /\ "other" \in Origins
  BY DEF Origins
<1>4. TableOK(Filled(cols, "own"))
  BY <1>2, <1>3, FilledOK, ColumnsOfTables
<1>5. TableOK(Filled(storage, "other")) /\ Filled(storage, "other").cols # <<>>
  BY <1>1, <1>3, FilledOK
<1>6. TablesOK(tables)
  <2>1. tables = [n \in TableNames |-> tables[n]]
    BY <1>2
  <2>2. ASSUME NEW n \in TableNames
        PROVE  TableOK(tables[n]) /\ (n # Target /\ tables[n].cols = <<>> => tables[n] = NoTable)
    BY <1>2, <1>4, <1>5, NoTableOK
  <2> QED
    BY <2>1, <2>2 DEF TablesOK
<1>7. Typed
  <2>1. index \in BOOLEAN /\ (index => Exists(Target)) /\ preserve \in BOOLEAN
    BY Zenon DEF Init
  <2>2. children \in Children \cup {"none", "gone"} /\ phase \in {"idle", "syncing", "done", "failed"}
    BY DEF Init
  <2>3. calls \in 0..MaxCalls /\ faults \in 0..Interruptions
    BY SyncBounds DEF Init
  <2>4. before = tables
    BY DEF Init
  <2> QED
    BY <1>1, <1>6, <2>1, <2>2, <2>3, <2>4 DEF Typed
<1>8. Order
  <2>1. phase = "idle" /\ pending = <<>> /\ todo = <<>> /\ result = <<>>
    BY DEF Init
  <2>2. <<>> \in Seq(Kinds) /\ IsInjective(<<>>) /\ Range(<<>>) = {}
    BY DEF IsInjective, Range
  <2> QED
    BY <2>1, <2>2 DEF Order
<1> QED
  BY <1>7, <1>8 DEF SyncInv, Init, IndexLast

LEMMA SyncSound == SyncInv => Sound
BY DEF SyncInv, Typed, Sound

LEMMA CallInv ==
    ASSUME SyncInv, NEW p \in BOOLEAN, SyncSchema(p)
    PROVE  SyncInv'
<1>1. /\ phase' = "syncing" /\ preserve' = p /\ pending' = IterateTuple /\ todo' = <<>>
      /\ result' = <<>> /\ predicted' = Simulate(p) /\ before' = tables /\ calls' = calls + 1
      /\ FreeNames # {} /\ calls < MaxCalls
      /\ build' = build /\ storage' = storage /\ tables' = tables /\ index' = index
      /\ children' = children /\ faults' = faults
  BY DEF SyncSchema, source, database
<1>2. Typed'
  <2>1. calls' \in 0..MaxCalls
    BY <1>1, SyncBounds DEF SyncInv, Typed
  <2>2. (index' => Exists(Target)') /\ preserve' \in BOOLEAN /\ index' \in BOOLEAN
    BY <1>1 DEF SyncInv, Typed, Exists
  <2> QED
    BY <1>1, <2>1, <2>2 DEF SyncInv, Typed
<1>3. Told' = Status(tables[Target].cols, p)
  BY <1>1 DEF Told, Status
<1>4. /\ pending' \in Seq(Kinds) /\ IsInjective(pending')
      /\ Range(pending') = Range(Objects)
  BY <1>1, ObjectsIterated
<1>5. Order'
  <2>1. Mapped => predicted'["table"] = Told'.res
    BY <1>1, <1>3 DEF Simulate, Mapped
  <2>2. result' = [o \in Range(Objects) \ Range(pending') |-> Returned(o)']
    BY <1>1, <1>4
  <2> QED
    BY <1>1, <1>4, <2>1, <2>2 DEF Order, Mapped
<1>6. IndexLast'
  BY <1>1, ObjectsIterated DEF IndexLast
<1>7. Syncing'
  <2>1. ~Begun'
    BY <1>4 DEF Begun, Mapped
  <2>2. Free'
    BY <1>1 DEF FreeNames, Free, Exists
  <2> QED
    BY <1>1, <2>1, <2>2 DEF Syncing
<1> QED
  BY <1>1, <1>2, <1>5, <1>6, <1>7 DEF SyncInv

LEMMA ObjectInv ==
    ASSUME SyncInv, SyncObject
    PROVE  SyncInv'
<1> DEFINE o == Head(pending)
           status == Status(tables[Target].cols, preserve)
           doing == CASE o = "table" -> SyncTable(status)
                      [] o = "index" -> SyncIndex
                      [] o = "sqlite_master" -> SyncMaster
           told == doing.res
<1>1. /\ phase = "syncing" /\ phase' = "syncing" /\ todo = <<>> /\ pending # <<>>
      /\ pending' = Tail(pending)
      /\ todo' = doing.todo
      /\ result' = [x \in DOMAIN result \cup {o} |-> IF x \in DOMAIN result THEN result[x] ELSE told]
      /\ build' = build /\ storage' = storage /\ tables' = tables /\ index' = index
      /\ children' = children /\ preserve' = preserve /\ predicted' = predicted
      /\ before' = before /\ calls' = calls /\ faults' = faults
  BY DEF SyncObject, source, database
<1>2. /\ pending \in Seq(Kinds) /\ IsInjective(pending) /\ Range(pending) \subseteq Range(Objects)
      /\ Mapped => predicted["table"] = Told.res
      /\ result = [x \in Range(Objects) \ Range(pending) |-> Returned(x)]
  BY <1>1 DEF SyncInv, Order
<1>3. /\ o \in Kinds /\ o \in Range(pending)
      /\ pending' \in Seq(Kinds) /\ IsInjective(pending')
      /\ Range(pending') = Range(pending) \ {o}
      /\ IF pending' = <<>> THEN pending[Len(pending)] = o ELSE pending'[Len(pending')] = pending[Len(pending)]
  BY <1>1, <1>2, NextObject
<1>4. Same /\ Sound /\ Syncing
  BY <1>1, SyncSound DEF Same, SyncInv
<1>5. Told' = Told
  BY <1>4, PlanStays
<1>6. Typed'
  BY <1>1 DEF SyncInv, Typed, Exists
<1>7. o = "table" => ~Begun /\ tables = before /\ status = Told
  BY <1>3, <1>4 DEF Begun, Syncing, Told
<1>8. o \in Range(Objects) /\ Returned(o) = told
  <2>1. CASE o = "table"
    <3>1. Told.res \in Results /\ told = SyncTable(Told).res
      BY <1>4, <1>7, <2>1, PlanFacts
    <3> QED
      BY <1>2, <1>3, <2>1, <3>1 DEF SyncTable, Doing, Returned, Results
  <2>2. CASE o # "table"
    BY <1>2, <1>3, <2>2 DEF SyncIndex, SyncMaster, Doing, Returned, Kinds
  <2> QED
    BY <2>1, <2>2
<1>15. /\ o = "table" => todo' = SyncTable(Told).todo
       /\ o = "index" => todo' = <<CreateIndex>>
       /\ o = "sqlite_master" => todo' = <<>>
  BY <1>1, <1>7 DEF SyncIndex, SyncMaster, Doing
<1> HIDE DEF o, doing, told, status
<1>9. result' = [x \in Range(Objects) \ Range(pending') |-> Returned(x)]
  <2>1. Range(Objects) \ Range(pending') = (Range(Objects) \ Range(pending)) \cup {o}
    BY <1>3, <1>8
  <2>2. result' = [x \in (Range(Objects) \ Range(pending)) \cup {o} |->
                    IF x \in Range(Objects) \ Range(pending) THEN Returned(x) ELSE told]
    BY <1>1, <1>2
  <2>3. \A x \in (Range(Objects) \ Range(pending)) \cup {o} :
            (IF x \in Range(Objects) \ Range(pending) THEN Returned(x) ELSE told) = Returned(x)
    BY <1>8
  <2>4. result' = [x \in (Range(Objects) \ Range(pending)) \cup {o} |-> Returned(x)]
    BY <2>2, <2>3
  <2> QED
    BY <1>1, <2>1, <2>4
<1>10. Order'
  <2>1. Range(pending') \subseteq Range(Objects)
    BY <1>2, <1>3
  <2>2. Mapped => predicted'["table"] = Told'.res
    BY <1>1, <1>2, <1>5
  <2>3. result' = [x \in Range(Objects) \ Range(pending') |-> Returned(x)']
    BY <1>5, <1>9 DEF Returned
  <2> QED
    BY <1>1, <1>3, <2>1, <2>2, <2>3 DEF Order, Mapped
<1>11. IndexLast'
  <2> SUFFICES ASSUME Objects # <<>>, Head(Objects) = "index"
               PROVE  IF pending' = <<>> THEN todo' = <<CreateIndex>> ELSE pending'[Len(pending')] = "index"
    BY DEF IndexLast, CreateIndex
  <2>1. pending[Len(pending)] = "index"
    BY <1>1 DEF SyncInv, IndexLast
  <2>2. CASE pending' = <<>>
    <3>1. o = "index"
      BY <1>3, <2>1, <2>2
    <3> QED
      BY <1>15, <2>2, <3>1
  <2>3. CASE pending' # <<>>
    BY <1>3, <2>1, <2>3
  <2> QED
    BY <2>2, <2>3
<1>12. Free'
  BY <1>1, <1>4 DEF Syncing, Free
<1>13. CASE o = "table"
  <2>1. PICK plan : plan = SyncTable(Told).todo
    OBVIOUS
  <2>2. Stage(plan)
    BY <1>4, <1>7, <1>13, <2>1, StageBegins DEF Syncing
  <2>3. todo' = plan
    BY <1>13, <1>15, <2>1
  <2>4. Stage(todo)'
    BY <1>1, <1>4, <2>2, <2>3, StageStays, Zenon
  <2>5. Begun'
    BY <1>3, <1>8, <1>13 DEF Begun, Mapped
  <2>6. Syncing'
    BY <1>12, <2>4, <2>5 DEF Syncing
  <2> QED
    BY <1>1, <1>6, <1>10, <1>11, <2>6 DEF SyncInv
<1>14. CASE o # "table"
  <2>1. todo' \in {<<>>, <<CreateIndex>>}
    BY <1>3, <1>14, <1>15 DEF Kinds
  <2>2. Begun' = Begun
    BY <1>3, <1>14 DEF Begun, Mapped
  <2>3. CASE ~Begun
    <3>1. tables' = before'
      BY <1>1, <1>4, <2>3 DEF Syncing
    <3>2. Syncing'
      BY <1>12, <2>1, <2>2, <2>3, <3>1 DEF Syncing
    <3> QED
      BY <1>1, <1>6, <1>10, <1>11, <3>2 DEF SyncInv
  <2>4. CASE Begun
    <3>1. todo # <<CreateIndex>>
      BY <1>1
    <3>2. Stage(<<>>)
      BY <1>1, <1>4, <2>4, <3>1 DEF Syncing
    <3>3. Stage(<<>>)'
      BY <1>1, <1>4, <3>2, StageStays
    <3>4. Stage(todo)' \/ todo' = <<CreateIndex>>
      <4>1. CASE todo' = <<>>
        <5>1. PICK rest : rest = <<>>
          OBVIOUS
        <5>2. Stage(rest)
          BY <3>2, <5>1
        <5>3. todo' = rest
          BY <4>1, <5>1
        <5> QED
          BY <1>1, <1>4, <5>2, <5>3, StageStays, Zenon
      <4> QED
        BY <2>1, <4>1
    <3>5. Syncing'
      BY <1>12, <2>2, <2>4, <3>3, <3>4 DEF Syncing
    <3> QED
      BY <1>1, <1>6, <1>10, <1>11, <3>5 DEF SyncInv
  <2> QED
    BY <2>3, <2>4
<1> QED
  BY <1>13, <1>14

LEMMA ExecuteInv ==
    ASSUME SyncInv, Execute
    PROVE  SyncInv'
<1> DEFINE s == Head(todo)
<1>1. /\ phase = "syncing" /\ phase' = "syncing" /\ todo # <<>> /\ todo' = Tail(todo)
      /\ build' = build /\ storage' = storage /\ preserve' = preserve /\ pending' = pending
      /\ result' = result /\ predicted' = predicted /\ before' = before
      /\ calls' = calls /\ faults' = faults
  BY DEF Execute, source
<1>2. /\ ~Fails(s) /\ tables' = TablesAfter(s)
      /\ index' = (s.op = "index" \/ (index /\ ~(s.at = Target /\ s.op \in {"drop", "rename"})))
      /\ children' \in {"gone", children}
  BY DEF Execute, Perform
<1>3. Same /\ Sound /\ Syncing /\ Typed /\ Order
  BY <1>1, SyncSound DEF Same, SyncInv
<1>4. Step(s)
  BY <1>2, <1>3 DEF Step
<1>5. Told' = Told
  BY <1>3, PlanStays
<1>6. Order'
  BY <1>1, <1>3, <1>5 DEF Order, Returned, Mapped
<1>7. Free' /\ Begun' = Begun
  BY <1>1, <1>3 DEF Syncing, Free, Begun
<1>8. ASSUME TablesOK(tables'), index' => Exists(Target)'
      PROVE  Typed'
  <2>1. index' \in BOOLEAN
    BY <1>2, Zenon
  <2>2. children' \in Children \cup {"none", "gone"}
    BY <1>2, <1>3 DEF Typed
  <2> QED
    BY <1>1, <1>3, <1>8, <2>1, <2>2 DEF Typed
<1>9. CASE todo = <<CreateIndex>>
  <2>1. s = CreateIndex /\ todo' = <<>> /\ s.op = "index"
    BY <1>1, <1>9 DEF CreateIndex
  <2>2. tables' = tables
    BY <1>2, <2>1, Effects
  <2>3. Exists(Target)
    BY <1>2, <2>1, Zenon DEF Fails
  <2>4. index'
    BY <1>2, <2>1, Zenon
  <2>5. Typed'
    BY <1>3, <1>8, <2>2, <2>3 DEF Typed, Exists
  <2>6. IndexLast'
    BY <1>1, <2>1, <2>4 DEF SyncInv, IndexLast
  <2>7. Begun => Stage(<<>>)
    <3>1. ~Stage(todo)
      BY <1>1, <1>3, <2>1, StageHead
    <3> QED
      BY <1>3, <3>1 DEF Syncing
  <2>8. Begun => Stage(todo)'
    BY <1>3, <2>1, <2>2, <2>7, StageStays
  <2>9. Syncing'
    BY <1>1, <1>3, <1>7, <2>1, <2>2, <2>8 DEF Syncing
  <2> QED
    BY <1>1, <1>6, <2>5, <2>6, <2>9 DEF SyncInv
<1>10. CASE todo # <<CreateIndex>>
  <2>1. Begun /\ Stage(todo)
    BY <1>1, <1>3, <1>10 DEF Syncing
  <2>2. Stage(todo)' /\ Goes(s)
    BY <1>1, <1>3, <1>4, <2>1, StageSteps
  <2>3. s.op = "drop" => s.at = Target
    BY <1>1, <1>3, <2>1, StageHead
  <2>4. index' => Exists(Target)'
    <3>1. s.op = "index" => Exists(Target)
      BY <1>2, Zenon DEF Fails
    <3>2. index' => Exists(Target) /\ s.op # "drop"
      BY <1>2, <1>3, <2>3, <3>1, Zenon DEF Typed
    <3> QED
      BY <2>2, <3>2 DEF Goes
  <2>5. Typed'
    BY <1>8, <2>2, <2>4 DEF Goes
  <2>6. IndexLast'
    BY <1>1, <1>10 DEF SyncInv, IndexLast
  <2>7. Syncing'
    BY <1>7, <2>1, <2>2 DEF Syncing
  <2> QED
    BY <1>1, <1>6, <2>5, <2>6, <2>7 DEF SyncInv
<1> QED
  BY <1>9, <1>10

LEMMA ThrowInv ==
    ASSUME SyncInv, phase = "syncing", Throw, faults' \in 0..Interruptions
    PROVE  SyncInv'
<1>1. /\ phase' = "failed" /\ pending' = <<>> /\ todo' = <<>> /\ result' = <<>>
      /\ build' = build /\ storage' = storage /\ tables' = tables /\ index' = index
      /\ children' = children /\ preserve' = preserve /\ predicted' = predicted
      /\ before' = before /\ calls' = calls
  BY DEF Throw, source, database
<1>2. Same /\ Syncing
  BY <1>1 DEF Same, SyncInv
<1>3. Told' = Told
  BY <1>2, PlanStays
<1>4. Typed'
  BY <1>1 DEF SyncInv, Typed, Exists
<1>5. Order'
  <2>1. <<>> \in Seq(Kinds) /\ IsInjective(<<>>) /\ Range(<<>>) = {}
    BY DEF IsInjective, Range
  <2> QED
    BY <1>1, <1>3, <2>1 DEF SyncInv, Order, Returned, Mapped
<1>6. tables' = before' \/ Reached'
  <2>1. CASE ~Begun
    BY <1>1, <1>2, <2>1 DEF Syncing
  <2>2. CASE Begun
    <3>1. PICK rest : Stage(rest)
      BY <1>2, <2>2 DEF Syncing
    <3>2. Stage(rest)'
      BY <1>1, <1>2, <3>1, StageStays
    <3> QED
      BY <3>2 DEF Reached
  <2> QED
    BY <2>1, <2>2
<1> QED
  BY <1>1, <1>4, <1>5, <1>6 DEF SyncInv, IndexLast

LEMMA ReturnInv ==
    ASSUME SyncInv, Return
    PROVE  SyncInv'
<1>1. /\ phase = "syncing" /\ todo = <<>> /\ pending = <<>> /\ phase' = "done"
      /\ build' = build /\ storage' = storage /\ tables' = tables /\ index' = index
      /\ children' = children /\ preserve' = preserve /\ pending' = pending /\ todo' = todo
      /\ result' = result /\ predicted' = predicted /\ before' = before
      /\ calls' = calls /\ faults' = faults
  BY DEF Return, source, database
<1>2. Same /\ Syncing
  BY <1>1 DEF Same, SyncInv
<1>3. Told' = Told
  BY <1>2, PlanStays
<1>4. Typed'
  BY <1>1 DEF SyncInv, Typed, Exists
<1>5. Order' /\ IndexLast'
  BY <1>1, <1>3 DEF SyncInv, Order, IndexLast, Returned, Mapped
<1>6. (Begun <=> Mapped) /\ todo # <<CreateIndex>>
  <2>1. Range(pending) = {}
    BY <1>1 DEF Range
  <2>2. Begun <=> Mapped
    BY <2>1 DEF Begun
  <2>3. todo # <<CreateIndex>>
    BY <1>1
  <2> QED
    BY <2>2, <2>3
<1>7. IF Mapped THEN Stage(<<>>)' ELSE tables' = before'
  <2>1. CASE Mapped
    <3>1. Stage(<<>>)
      BY <1>1, <1>2, <1>6, <2>1 DEF Syncing
    <3>2. Stage(<<>>)'
      BY <1>1, <1>2, <3>1, StageStays
    <3> QED
      BY <2>1, <3>2
  <2>2. CASE ~Mapped
    BY <1>1, <1>2, <1>6, <2>2 DEF Syncing
  <2> QED
    BY <2>1, <2>2
<1> QED
  BY <1>1, <1>4, <1>5, <1>7 DEF SyncInv

LEMMA StutterInv ==
    ASSUME SyncInv, UNCHANGED vars
    PROVE  SyncInv'
<1>1. /\ phase' = phase /\ pending' = pending /\ todo' = todo /\ result' = result
      /\ build' = build /\ storage' = storage /\ tables' = tables /\ index' = index
      /\ children' = children /\ preserve' = preserve /\ predicted' = predicted
      /\ before' = before /\ calls' = calls /\ faults' = faults
  BY DEF vars, source, database, program
<1>2. Same
  BY <1>1 DEF Same
<1>3. Told' = Told
  BY <1>2, PlanStays
<1>4. Typed' /\ Order' /\ IndexLast'
  BY <1>1, <1>3 DEF SyncInv, Typed, Order, IndexLast, Exists, Returned, Mapped
<1>5. Stage(<<>>) => Stage(<<>>)'
  BY <1>1, <1>2, StageStays
<1>6. Stage(todo) => Stage(todo)'
  <2>1. PICK rest : rest = todo
    OBVIOUS
  <2>2. todo' = rest
    BY <1>1, <2>1
  <2>3. Stage(rest) => Stage(todo)'
    BY <1>1, <1>2, <2>2, StageStays
  <2> QED
    BY <2>1, <2>3
<1>7. Reached => Reached'
  <2> SUFFICES ASSUME NEW rest, Stage(rest)
               PROVE  Reached'
    BY DEF Reached
  <2>1. Stage(rest)'
    BY <1>1, <1>2, StageStays
  <2> QED
    BY <2>1 DEF Reached
<1>8. Syncing => Syncing'
  BY <1>1, <1>5, <1>6 DEF Syncing, Free, Begun
<1> QED
  BY <1>1, <1>4, <1>5, <1>7, <1>8 DEF SyncInv

LEMMA NextInv == SyncInv /\ [Next]_vars => SyncInv'
<1> SUFFICES ASSUME SyncInv, [Next]_vars
             PROVE  SyncInv'
  OBVIOUS
<1>1. CASE \E p \in BOOLEAN : SyncSchema(p)
  BY <1>1, CallInv
<1>2. CASE SyncObject
  BY <1>2, ObjectInv
<1>3. CASE Execute
  BY <1>3, ExecuteInv
<1>4. CASE StatementFails
  <2>1. phase = "syncing" /\ Throw /\ faults' \in 0..Interruptions
    BY <1>4 DEF StatementFails, SyncInv, Typed
  <2> QED
    BY <2>1, ThrowInv
<1>5. CASE Interrupted
  <2>1. phase = "syncing" /\ Throw /\ faults' \in 0..Interruptions
    BY <1>5, SyncBounds DEF Interrupted, SyncInv, Typed
  <2> QED
    BY <2>1, ThrowInv
<1>6. CASE Return
  BY <1>6, ReturnInv
<1>7. CASE UNCHANGED vars
  BY <1>7, StutterInv
<1> QED
  BY <1>1, <1>2, <1>3, <1>4, <1>5, <1>6, <1>7 DEF Next

LEMMA SyncInvariant == Spec => []SyncInv
BY InitInv, NextInv, PTL DEF Spec
------------------------------------------------------------------------------
(* What follows from a stage *)
LEMMA StageOthers ==
    ASSUME Sound, NEW rest, Stage(rest)
    PROVE  OtherTablesUntouched /\ (rest = <<>> => OthersStay)
<1>1. before = [n \in TableNames |-> before[n]] /\ Target \in TableNames
  BY StorageFacts DEF Sound, TablesOK
<1>2. CASE SameStage(rest)
  BY <1>2 DEF SameStage, OtherTablesUntouched, OthersStay
<1>3. CASE CreateStage(rest)
  <2>1. PICK t : tables = before \/ tables = [before EXCEPT ![Target] = t]
    BY <1>3, Zenon DEF CreateStage
  <2>2. \A n \in TableNames \ {Target} : tables[n] = before[n]
    BY <1>1, <2>1
  <2> QED
    BY <2>2 DEF OtherTablesUntouched, OthersStay
<1>4. CASE LossStage(rest)
  <2>1. PICK t : tables = before \/ tables = [before EXCEPT ![Target] = t]
    BY <1>4, Zenon DEF LossStage
  <2>2. \A n \in TableNames \ {Target} : tables[n] = before[n]
    BY <1>1, <2>1
  <2> QED
    BY <2>2 DEF OtherTablesUntouched, OthersStay
<1>5. CASE BackupStage(rest)
  <2>1. PICK b \in TableNames \ {Target}, k \in 0..4 :
          before[b] = NoTable /\ rest = SubSeq(BackupPlan(b), k + 1, 4) /\ tables = BackupTables(b, k)
    BY <1>5 DEF BackupStage
  <2>2. ASSUME NEW n \in TableNames \ {Target, b}
        PROVE  tables[n] = before[n]
    <3>1. \/ tables = before
          \/ tables = [before EXCEPT ![b] = Created]
          \/ tables = [before EXCEPT ![b] = Copy]
          \/ tables = [before EXCEPT ![b] = Copy, ![Target] = NoTable]
          \/ tables = [before EXCEPT ![Target] = Copy]
      <4>1. k \in {0, 1, 2, 3, 4}
        BY <2>1
      <4> QED
        BY <2>1, <4>1 DEF BackupTables
    <3> QED
      BY <1>1, <3>1
  <2>3. OtherTablesUntouched
    BY <2>1, <2>2 DEF OtherTablesUntouched
  <2>4. ASSUME rest = <<>>
        PROVE  OthersStay
    <3> DEFINE plan == BackupPlan(b)
    <3>1. /\ plan \in Seq({CreateTable(b), CopyTable(Target, b, CopiedNames), DropTable(Target), RenameTable(b, Target)})
          /\ Len(plan) = 4 /\ rest = SubSeq(plan, k + 1, 4)
      BY <2>1 DEF BackupPlan
    <3> HIDE DEF plan
    <3>2. k = 4
      BY <2>4, <3>1, RestStep
    <3>3. tables = [before EXCEPT ![Target] = Copy]
      BY <2>1, <3>2 DEF BackupTables
    <3> QED
      BY <1>1, <3>3 DEF OthersStay
  <2> QED
    BY <2>3, <2>4
<1>6. CASE DropStage(rest) \/ AddStage(rest)
  BY <1>6 DEF DropStage, AddStage, OthersStay, OtherTablesUntouched
<1> QED
  BY <1>2, <1>3, <1>4, <1>5, <1>6 DEF Stage

(* The copy of a row has its values but those of generated columns. *)
LEMMA CopyKeeps ==
    ASSUME Sound, NEW r \in before[Target].rows, NEW n \in NamesOf(storage), n \in DOMAIN r,
           n \notin {c.name : c \in Generated(storage)}
    PROVE  /\ Copied(r, CopiedNames, storage) \in Copy.rows
           /\ n \in DOMAIN Copied(r, CopiedNames, storage) /\ Copied(r, CopiedNames, storage)[n] = r[n]
<1>1. n \in NamesOf(before[Target].cols)
  BY StorageFacts DEF Sound, TablesOK, TableOK
<1>2. \A c \in ColumnsOf(Lacking) : c.name # n
  BY <1>1, PlanFacts
<1>3. \A c \in Generated(storage) : c.name # n
  OBVIOUS
<1>4. Generated(Diff.storageTableInfo) \subseteq Generated(storage)
  BY PlanFacts DEF Generated
<1>5. n \in CopiedNames
  BY <1>2, <1>3, <1>4 DEF CopiedNames, Ignored
<1>6. DOMAIN Copied(r, CopiedNames, storage) = NamesOf(storage)
  BY DEF Copied
<1>7. Copied(r, CopiedNames, storage)[n] = r[n]
  BY <1>5, Zenon DEF Copied
<1>8. Copied(r, CopiedNames, storage) \in Copy.rows
  BY DEF Copy
<1> QED
  BY <1>6, <1>7, <1>8

LEMMA StageKeepsData ==
    ASSUME Sound, NEW rest, Stage(rest), ~MayLose
    PROVE  Alive(before) \ {c.name : c \in Generated(storage)} \subseteq Alive(tables)
<1> SUFFICES ASSUME NEW n \in Alive(before), n \notin {c.name : c \in Generated(storage)}
             PROVE  n \in Alive(tables)
  OBVIOUS
<1>1. /\ n \in NamesOf(storage)
      /\ \E t \in TableNames : \E r \in before[t].rows : n \in DOMAIN r /\ r[n] = "own"
  BY DEF Alive
<1>2. PICK t \in TableNames : \E r \in before[t].rows : n \in DOMAIN r /\ r[n] = "own"
  BY <1>1
<1>3. PICK r \in before[t].rows : n \in DOMAIN r /\ r[n] = "own"
  BY <1>2
<1>4. SUFFICES \E u \in TableNames : \E q \in tables[u].rows : n \in DOMAIN q /\ q[n] = "own"
  BY <1>1 DEF Alive
<1>5. /\ Target \in TableNames /\ TablesOK(before)
      /\ before = [m \in TableNames |-> before[m]]
  BY StorageFacts DEF Sound, TablesOK
<1>6. CASE t # Target
  <2>1. before[t] # NoTable
    BY <1>3 DEF NoTable
  <2>2. tables[t] = before[t]
    BY <1>6, <2>1, StageOthers DEF OtherTablesUntouched
  <2> QED
    BY <1>3, <2>2
<1>7. CASE t = Target
  <2>1. r \in before[Target].rows /\ DOMAIN r = NamesOf(before[Target].cols)
    BY <1>3, <1>5, <1>7 DEF TablesOK, TableOK
  <2>2. tables[Target] = before[Target] =>
            \E u \in TableNames : \E q \in tables[u].rows : n \in DOMAIN q /\ q[n] = "own"
    BY <1>3, <1>5, <2>1
  <2>3. CASE SameStage(rest)
    BY <2>2, <2>3 DEF SameStage
  <2>4. CASE CreateStage(rest)
    <3>1. before[Target].cols = <<>>
      BY <2>4, PlanFacts DEF CreateStage
    <3>2. NamesOf(before[Target].cols) = {}
      BY <3>1 DEF NamesOf
    <3> QED
      BY <1>3, <2>1, <3>2
  <2>5. CASE LossStage(rest)
    BY <2>5, Zenon DEF LossStage, WithLoss, MayLose, Told
  <2>6. CASE BackupStage(rest)
    <3>1. PICK b \in TableNames \ {Target}, k \in 0..4 : before[b] = NoTable /\ tables = BackupTables(b, k)
      BY <2>6 DEF BackupStage
    <3>2. k \in {0, 1, 2} => tables[Target] = before[Target]
      <4>1. k \in 0..2 => BackupTables(b, k)[Target] = before[Target]
        BY <3>1, BackupTablesOK
      <4> QED
        BY <3>1, <4>1
    <3>3. k = 3 => tables[b] = Copy
      <4> SUFFICES ASSUME k = 3
                   PROVE  tables[b] = Copy
        OBVIOUS
      <4>1. tables = [before EXCEPT ![b] = Copy, ![Target] = NoTable]
        BY <3>1 DEF BackupTables
      <4> QED
        BY <1>5, <3>1, <4>1
    <3>4. k = 4 => tables[Target] = Copy
      BY <3>1, BackupTablesOK
    <3>5. \E q \in Copy.rows : n \in DOMAIN q /\ q[n] = "own"
      <4> DEFINE q == Copied(r, CopiedNames, storage)
      <4>1. q \in Copy.rows /\ n \in DOMAIN q /\ q[n] = r[n]
        BY <1>1, <1>3, <2>1, CopyKeeps, Zenon
      <4> HIDE DEF q
      <4> QED
        BY <1>3, <4>1
    <3>6. k \in {0, 1, 2} \/ k = 3 \/ k = 4
      BY <3>1
    <3> QED
      BY <1>5, <2>2, <3>1, <3>2, <3>3, <3>4, <3>5, <3>6
  <2>7. CASE DropStage(rest)
    <3>1. PICK k \in 0..Len(Excess) : tables[Target].rows = {Minus(q, Dropped(k)) : q \in before[Target].rows}
      BY <2>7 DEF DropStage
    <3>2. Plain(Diff, storage, before[Target].cols)
      BY <2>7, PlanFacts DEF DropStage
    <3>3. n \notin Dropped(k)
      BY <1>1, <3>1, <3>2, DroppedAreExcess
    <3>4. n \in DOMAIN Minus(r, Dropped(k)) /\ Minus(r, Dropped(k))[n] = "own"
      BY <1>3, <3>3 DEF Minus
    <3>5. Minus(r, Dropped(k)) \in tables[Target].rows
      BY <2>1, <3>1
    <3> QED
      BY <1>5, <3>4, <3>5
  <2>8. CASE AddStage(rest)
    <3>1. Keeps(tables[Target].rows, r)
      BY <2>1, <2>8 DEF AddStage
    <3>2. PICK q \in tables[Target].rows : Has(q, r)
      BY <3>1 DEF Keeps
    <3> QED
      BY <1>3, <1>5, <3>2 DEF Has
  <2> QED
    BY <2>3, <2>4, <2>5, <2>6, <2>7, <2>8 DEF Stage
<1> QED
  BY <1>6, <1>7

LEMMA SpecifiedColumns ==
    ASSUME NEW cols PROVE Specified(cols) = {Spelled(c) : c \in ColumnsOf(cols)}
BY DEF Specified, Spelled

LEMMA EqualColumns ==
    ASSUME NEW c \in Columns, NEW e \in Columns, c.name = e.name, ColumnsAreEqual(c, e)
    PROVE  Spelled(c) = Spelled(e)
<1>1. /\ c = [name |-> c.name, notnull |-> c.notnull, dflt |-> c.dflt, pk |-> c.pk, gen |-> c.gen]
      /\ e = [name |-> e.name, notnull |-> e.notnull, dflt |-> e.dflt, pk |-> e.pk, gen |-> e.gen]
  BY DEF Columns
<1>2. /\ Spelled(c) = [name |-> c.name, notnull |-> c.notnull, dflt |-> c.dflt, pk |-> c.pk, gen |-> (c.gen # "no")]
      /\ Spelled(e) = [name |-> e.name, notnull |-> e.notnull, dflt |-> e.dflt, pk |-> e.pk, gen |-> (e.gen # "no")]
  BY <1>1 DEF Spelled
<1>3. /\ c.notnull = e.notnull /\ c.dflt = e.dflt /\ c.pk = e.pk
      /\ (c.gen # "no") = (e.gen # "no")
  BY DEF ColumnsAreEqual
<1> QED
  BY <1>2, <1>3, Zenon

(* The columns that the table had and the storage maps, with those that it   *)
(* lacked, are the columns that the storage maps.                            *)
LEMMA MatchesStorage ==
    ASSUME Sound, Plain(Diff, storage, before[Target].cols), NEW cols,
           ColumnsOf(cols) = {c \in ColumnsOf(before[Target].cols) : c.name \in NamesOf(storage)}
                                \cup ColumnsOf(Lacking)
    PROVE  Specified(cols) = Specified(storage)
<1> DEFINE old == before[Target].cols
<1>1. /\ storage \in Seq(Columns) /\ old \in Seq(Columns)
      /\ \A c \in ColumnsOf(storage) : c \in Columns
      /\ \A c \in ColumnsOf(old) : c \in Columns
  <2>1. storage \in Seq(Columns) /\ old \in Seq(Columns)
    BY StorageFacts
  <2>2. ASSUME NEW cs \in Seq(Columns), NEW c \in ColumnsOf(cs)
        PROVE  c \in Columns
    <3>1. DOMAIN cs = 1..Len(cs)
      BY LenProperties
    <3> QED
      BY <3>1, ElementOfSeq DEF ColumnsOf
  <2> QED
    BY <2>1, <2>2, Zenon
<1>2. ColumnsOf(Lacking) = {c \in ColumnsOf(storage) : c.name \notin NamesOf(old)}
  BY DEF Plain, Lacking
<1>3. \A c \in ColumnsOf(old), e \in ColumnsOf(storage) : c.name = e.name => Spelled(c) = Spelled(e)
  BY <1>1, EqualColumns DEF Plain
<1>4. /\ NamesOf(storage) = {c.name : c \in ColumnsOf(storage)}
      /\ NamesOf(old) = {c.name : c \in ColumnsOf(old)}
  BY NamesOfColumns
<1> HIDE DEF old
<1>5. ColumnsOf(cols) = {c \in ColumnsOf(old) : c.name \in NamesOf(storage)} \cup ColumnsOf(Lacking)
  BY DEF old
<1>6. ASSUME NEW c \in ColumnsOf(cols)
      PROVE  \E e \in ColumnsOf(storage) : Spelled(c) = Spelled(e)
  <2>1. CASE c \in ColumnsOf(Lacking)
    BY <1>2, <2>1
  <2>2. CASE c \in ColumnsOf(old) /\ c.name \in NamesOf(storage)
    BY <1>3, <1>4, <2>2
  <2> QED
    BY <1>5, <2>1, <2>2
<1>7. ASSUME NEW e \in ColumnsOf(storage)
      PROVE  \E c \in ColumnsOf(cols) : Spelled(e) = Spelled(c)
  <2>1. CASE e.name \in NamesOf(old)
    <3>1. PICK c \in ColumnsOf(old) : c.name = e.name
      BY <1>4, <2>1
    <3>2. c \in ColumnsOf(cols)
      BY <1>4, <1>5, <3>1
    <3> QED
      BY <1>3, <3>1, <3>2
  <2>2. CASE e.name \notin NamesOf(old)
    BY <1>2, <1>5, <2>2
  <2> QED
    BY <2>1, <2>2
<1>8. {Spelled(c) : c \in ColumnsOf(cols)} = {Spelled(e) : e \in ColumnsOf(storage)}
  BY <1>6, <1>7
<1> QED
  BY <1>8, SpecifiedColumns, Zenon

(* The table when all the statements for it have been executed. *)
LEMMA StageEnds ==
    ASSUME Sound, Stage(<<>>)
    PROVE  \/ Told.res = "already_in_sync" /\ tables = before
           \/ Told.res = "new_table_created" /\ tables[Target] = Created
           \/ WithLoss /\ tables[Target] = Created
           \/ ByBackup /\ tables[Target] = Copy
           \/ /\ Told.res = "old_columns_removed"
              /\ ColumnsOf(tables[Target].cols) =
                    {c \in ColumnsOf(before[Target].cols) : c.name \in NamesOf(storage)}
           \/ /\ Told.res = "new_columns_added"
              /\ ColumnsOf(tables[Target].cols) = ColumnsOf(before[Target].cols) \cup Added(Len(Lacking))
              /\ \A i \in 1..Len(Lacking) : Lacking[i].pk > 0 => Composite(storage)
<1> DEFINE old == before[Target].cols
           cols == tables[Target].cols
<1>1. Target \in TableNames /\ before = [n \in TableNames |-> before[n]]
  BY StorageFacts DEF Sound, TablesOK
<1>2. CASE SameStage(<<>>)
  BY <1>2 DEF SameStage
<1>4. CASE CreateStage(<<>>)
  <2> DEFINE plan == <<CreateTable(Target)>>
  <2>1. PICK k \in 0..1 : /\ <<>> = SubSeq(plan, k + 1, 1)
                          /\ tables = IF k = 0 THEN before ELSE [before EXCEPT ![Target] = Created]
    BY <1>4 DEF CreateStage
  <2>2. plan \in Seq({CreateTable(Target)}) /\ Len(plan) = 1
    OBVIOUS
  <2> HIDE DEF plan
  <2>3. k = 1
    BY <2>1, <2>2, RestStep
  <2>4. tables = [before EXCEPT ![Target] = Created]
    BY <2>1, <2>3
  <2> QED
    BY <1>1, <1>4, <2>4 DEF CreateStage
<1>5. CASE LossStage(<<>>)
  <2> DEFINE plan == DropCreateWithLoss
  <2>1. PICK k \in 0..2 : /\ <<>> = SubSeq(plan, k + 1, 2)
                          /\ tables = IF k = 0 THEN before
                                      ELSE [before EXCEPT ![Target] = IF k = 1 THEN NoTable ELSE Created]
    BY <1>5, Zenon DEF LossStage
  <2>2. plan \in Seq({DropTable(Target), CreateTable(Target)}) /\ Len(plan) = 2
    BY DEF DropCreateWithLoss
  <2> HIDE DEF plan
  <2>3. k = 2
    BY <2>1, <2>2, RestStep
  <2>4. tables = [before EXCEPT ![Target] = Created]
    BY <2>1, <2>3
  <2> QED
    BY <1>1, <1>5, <2>4 DEF LossStage
<1>6. CASE BackupStage(<<>>)
  <2>1. PICK b \in TableNames \ {Target}, k \in 0..4 :
          before[b] = NoTable /\ <<>> = SubSeq(BackupPlan(b), k + 1, 4) /\ tables = BackupTables(b, k)
    BY <1>6 DEF BackupStage
  <2> DEFINE plan == BackupPlan(b)
  <2>2. /\ plan \in Seq({CreateTable(b), CopyTable(Target, b, CopiedNames), DropTable(Target), RenameTable(b, Target)})
        /\ Len(plan) = 4 /\ <<>> = SubSeq(plan, k + 1, 4)
    BY <2>1 DEF BackupPlan
  <2> HIDE DEF plan
  <2>3. k = 4
    BY <2>2, RestStep
  <2>4. tables[Target] = Copy
    BY <2>1, <2>3, BackupTablesOK
  <2> QED
    BY <1>6, <2>4 DEF BackupStage
<1>7. CASE DropStage(<<>>)
  <2> DEFINE plan == DropColumns(Excess)
             m == Len(Excess)
  <2>1. PICK k \in 0..m :
          /\ <<>> = SubSeq(plan, k + 1, m)
          /\ ColumnsOf(cols) = {c \in ColumnsOf(old) : c.name \notin Dropped(k)}
    BY <1>7 DEF DropStage
  <2>2. /\ Plain(Diff, storage, old)
        /\ Excess \in Seq(Columns) /\ DOMAIN Excess = 1..m
    BY <1>7, PlanFacts, LenProperties DEF DropStage
  <2>3. plan \in Seq({DropColumn(c) : c \in Columns}) /\ Len(plan) = m
    BY <2>2, ColumnPlans, Zenon
  <2> HIDE DEF plan
  <2>4. k = m
    BY <2>1, <2>3, RestStep, Zenon
  <2>5. Dropped(k) = {c.name : c \in ColumnsOf(Excess)}
    BY <2>2, <2>4 DEF Dropped, ColumnsOf
  <2>6. ColumnsOf(Excess) = {c \in ColumnsOf(old) : c.name \notin NamesOf(storage)}
    BY <2>2 DEF Plain, Excess
  <2>7. ColumnsOf(cols) = {c \in ColumnsOf(old) : c.name \in NamesOf(storage)}
    BY <2>1, <2>5, <2>6
  <2> QED
    BY <1>7, <2>7 DEF DropStage
<1>8. CASE AddStage(<<>>)
  <2> DEFINE plan == AddColumns(Lacking)
             m == Len(Lacking)
  <2>1. PICK k \in 0..m :
          /\ <<>> = SubSeq(plan, k + 1, m)
          /\ ColumnsOf(cols) = ColumnsOf(old) \cup Added(k)
          /\ \A i \in 1..k : Lacking[i].pk > 0 => Composite(storage)
    BY <1>8 DEF AddStage
  <2>2. Lacking \in Seq(Columns)
    BY PlanFacts
  <2>3. plan \in Seq({AddColumn(c) : c \in Columns}) /\ Len(plan) = m
    BY <2>2, ColumnPlans, Zenon
  <2> HIDE DEF plan
  <2>4. k = m
    BY <2>1, <2>3, RestStep
  <2> QED
    BY <1>8, <2>1, <2>4 DEF AddStage
<1> QED
  BY <1>2, <1>4, <1>5, <1>6, <1>7, <1>8 DEF Stage

LEMMA StageSpecified ==
    ASSUME Sound, Stage(<<>>), ~Composite(storage)
    PROVE  Specified(tables[Target].cols) = Specified(storage)
<1> DEFINE old == before[Target].cols
           cols == tables[Target].cols
<1>1. ColumnsOf(<<>>) = {}
  BY DEF ColumnsOf
<1>2. CASE Told.res = "already_in_sync" /\ tables = before
  <2>1. Plain(Diff, storage, old) /\ Lacking = <<>> /\ Excess = <<>>
    BY <1>2, PlanFacts
  <2>2. ColumnsOf(cols) = {c \in ColumnsOf(old) : c.name \in NamesOf(storage)} \cup ColumnsOf(Lacking)
    BY <1>1, <1>2, <2>1 DEF Plain, Excess
  <2> QED
    BY <2>1, <2>2, MatchesStorage, Zenon
<1>3. CASE tables[Target] = Created \/ tables[Target] = Copy
  BY <1>3 DEF Created, Copy
<1>4. CASE /\ Told.res = "old_columns_removed"
           /\ ColumnsOf(cols) = {c \in ColumnsOf(old) : c.name \in NamesOf(storage)}
  <2>1. Plain(Diff, storage, old) /\ Lacking = <<>>
    BY <1>4, PlanFacts
  <2>2. ColumnsOf(cols) = {c \in ColumnsOf(old) : c.name \in NamesOf(storage)} \cup ColumnsOf(Lacking)
    BY <1>1, <1>4, <2>1
  <2> QED
    BY <2>1, <2>2, MatchesStorage
<1>5. CASE /\ Told.res = "new_columns_added"
           /\ ColumnsOf(cols) = ColumnsOf(old) \cup Added(Len(Lacking))
           /\ \A i \in 1..Len(Lacking) : Lacking[i].pk > 0 => Composite(storage)
  <2> DEFINE m == Len(Lacking)
  <2>1. /\ Plain(Diff, storage, old) /\ Excess = <<>>
        /\ Lacking \in Seq(Columns) /\ DOMAIN Lacking = 1..m
    BY <1>5, PlanFacts, LenProperties
  <2>2. \A i \in 1..m : Lacking[i] \in Columns
    BY <2>1, ColumnPlans, Zenon
  <2>3. \A i \in 1..m : [Lacking[i] EXCEPT !.pk = 0] = Lacking[i]
    <3> SUFFICES ASSUME NEW i \in 1..m
                 PROVE  [Lacking[i] EXCEPT !.pk = 0] = Lacking[i]
      OBVIOUS
    <3>1. Lacking[i] \in Columns /\ ~(Lacking[i].pk > 0)
      BY <1>5, <2>2
    <3>2. Lacking[i].pk = 0
      BY <3>1 DEF Columns
    <3> QED
      BY <3>1, <3>2 DEF Columns
  <2>4. Added(m) = ColumnsOf(Lacking)
    BY <2>1, <2>3 DEF Added, ColumnsOf
  <2>5. {c \in ColumnsOf(old) : c.name \notin NamesOf(storage)} = {}
    BY <1>1, <2>1 DEF Plain, Excess
  <2>6. ColumnsOf(cols) = {c \in ColumnsOf(old) : c.name \in NamesOf(storage)} \cup ColumnsOf(Lacking)
    BY <1>5, <2>4, <2>5
  <2> QED
    BY <2>1, <2>6, MatchesStorage
<1> QED
  BY <1>2, <1>3, <1>4, <1>5, StageEnds

LEMMA MadeColumns == Created.cols = storage /\ Copy.cols = storage
BY DEF Created, Copy

LEMMA SomeColumn ==
    ASSUME NEW S, NEW cols \in Seq(S), cols # <<>>
    PROVE  \E c : c \in ColumnsOf(cols)
<1>1. Len(cols) \in Nat /\ Len(cols) # 0 /\ DOMAIN cols = 1..Len(cols)
  BY LenProperties, EmptySeq
<1>2. 1 \in DOMAIN cols
  BY <1>1
<1> QED
  BY <1>2 DEF ColumnsOf

(* The difference that schema_status saw is what has become of the table. *)
LEMMA StageDescribes ==
    ASSUME Sound, Stage(<<>>)
    PROVE  Describes(Told.res)
<1> DEFINE old == before[Target].cols
           cols == tables[Target].cols
           was == NamesOf(old)
           is == NamesOf(cols)
<1>1. /\ old \in Seq(Columns) /\ Excess \in Seq(Columns) /\ Lacking \in Seq(Columns)
      /\ Told.res \in Results
  BY StorageFacts, PlanFacts
<1>2. /\ was = {c.name : c \in ColumnsOf(old)} /\ is = {c.name : c \in ColumnsOf(cols)}
      /\ NamesOf(storage) = {c.name : c \in ColumnsOf(storage)}
  BY NamesOfColumns
<1>3. CASE Told.res = "already_in_sync"
  <2>1. tables = before
    BY <1>3, StageEnds DEF WithLoss, ByBackup
  <2> QED
    BY <1>3, <2>1 DEF Describes
<1>4. CASE Told.res = "new_table_created"
  <2>1. old = <<>> /\ cols = storage
    <3>1. tables[Target] = Created
      BY <1>4, StageEnds DEF WithLoss, ByBackup
    <3>2. old = <<>>
      BY <1>4, PlanFacts
    <3> QED
      BY <3>1, <3>2, MadeColumns
  <2>2. was = {}
    BY <2>1 DEF NamesOf
  <2> QED
    BY <1>4, <2>1, <2>2 DEF Describes
<1>5. CASE Told.res = "dropped_and_recreated"
  <2>1. old # <<>> /\ cols = storage
    <3>1. tables[Target] = Created \/ tables[Target] = Copy
      BY <1>5, StageEnds
    <3>2. cols = storage
      BY <3>1, MadeColumns
    <3>3. old # <<>>
      BY <1>5, PlanFacts
    <3> QED
      BY <3>2, <3>3
  <2>2. PICK c : c \in ColumnsOf(old)
    BY <1>1, <2>1, SomeColumn
  <2>3. c.name \in was
    BY <1>2, <2>2
  <2> QED
    BY <1>5, <2>1, <2>3 DEF Describes
<1>6. CASE Told.res \in {"old_columns_removed", "new_columns_added",
                         "new_columns_added_and_old_columns_removed"}
  <2>1. Plain(Diff, storage, old)
    BY <1>6, PlanFacts
  <2>2. /\ ColumnsOf(Lacking) = {c \in ColumnsOf(storage) : c.name \notin was}
        /\ ColumnsOf(Excess) = {c \in ColumnsOf(old) : c.name \notin NamesOf(storage)}
    BY <2>1 DEF Plain, Lacking, Excess
  <2>3. Excess # <<>> => \E n \in was : n \notin NamesOf(storage)
    BY <1>1, <1>2, <2>2, SomeColumn
  <2>4. Lacking # <<>> => \E n \in NamesOf(storage) : n \notin was
    BY <1>1, <1>2, <2>2, SomeColumn
  <2>5. CASE Told.res = "old_columns_removed"
    <3>1. Lacking = <<>> /\ Excess # <<>>
      BY <2>5, PlanFacts
    <3>2. ColumnsOf(Lacking) = {}
      BY <3>1 DEF ColumnsOf
    <3>3. NamesOf(storage) \subseteq was
      BY <1>2, <2>2, <3>2
    <3>4. is \subseteq was /\ is \subseteq NamesOf(storage)
      <4>1. \/ cols = storage
            \/ ColumnsOf(cols) = {c \in ColumnsOf(old) : c.name \in NamesOf(storage)}
        <5>1. \/ tables[Target] = Copy
              \/ ColumnsOf(cols) = {c \in ColumnsOf(old) : c.name \in NamesOf(storage)}
          BY <2>5, StageEnds DEF WithLoss
        <5> QED
          BY <5>1, MadeColumns
      <4> QED
        BY <1>2, <3>3, <4>1
    <3>5. is # was
      BY <2>3, <3>1, <3>4
    <3> QED
      BY <2>5, <3>4, <3>5 DEF Describes
  <2>6. CASE Told.res = "new_columns_added"
    <3>1. Lacking # <<>>
      BY <2>6, PlanFacts
    <3>2. ColumnsOf(cols) = ColumnsOf(old) \cup Added(Len(Lacking))
      BY <2>6, StageEnds DEF WithLoss, ByBackup
    <3>3. \E n \in is : n \notin was
      <4>1. DOMAIN Lacking = 1..Len(Lacking) /\ Len(Lacking) \in Nat /\ Len(Lacking) # 0
        BY <1>1, <3>1, LenProperties, EmptySeq
      <4>2. 1 \in 1..Len(Lacking)
        BY <4>1
      <4> DEFINE c == Lacking[1]
      <4>3. c \in ColumnsOf(Lacking) /\ c \in Columns
        BY <1>1, <4>1, <4>2, ElementOfSeq DEF ColumnsOf
      <4>4. [c EXCEPT !.pk = 0] \in ColumnsOf(cols)
        BY <3>2, <4>2 DEF Added
      <4>5. [c EXCEPT !.pk = 0].name = c.name
        BY <4>3 DEF Columns
      <4>6. c.name \in is /\ c.name \notin was
        BY <1>2, <2>2, <4>3, <4>4, <4>5
      <4> QED
        BY <4>6
    <3>4. was \subseteq is
      BY <1>2, <3>2
    <3> QED
      BY <2>6, <3>3, <3>4 DEF Describes
  <2>7. CASE Told.res = "new_columns_added_and_old_columns_removed"
    <3>1. Lacking # <<>> /\ Excess # <<>>
      BY <2>7, PlanFacts
    <3>2. cols = storage
      <4>1. tables[Target] = Copy
        BY <2>7, StageEnds DEF WithLoss
      <4> QED
        BY <4>1, MadeColumns
    <3> QED
      BY <2>3, <2>4, <2>7, <3>1, <3>2 DEF Describes
  <2> QED
    BY <1>6, <2>5, <2>6, <2>7
<1> QED
  BY <1>1, <1>3, <1>4, <1>5, <1>6 DEF Results
------------------------------------------------------------------------------
(* Theorems *)
(* Tables keep rows that fit their columns, the index exists only with its   *)
(* table, and the map of sync_schema holds sync_schema_results.              *)
THEOREM SyncIsTyped == Spec => []TypeOK
<1>1. SyncInv => TypeOK
  <2> SUFFICES ASSUME SyncInv
               PROVE  TypeOK
    OBVIOUS
  <2>1. Typed /\ Order /\ Sound
    BY SyncSound DEF SyncInv
  <2>2. /\ DOMAIN tables = TableNames
        /\ \A n \in TableNames : \A r \in tables[n].rows : r \in [NamesOf(tables[n].cols) -> Origins]
    BY <2>1 DEF Typed, TablesOK, TableOK
  <2>3. \A o \in DOMAIN result : result[o] \in Results
    <3>1. Told.res \in Results /\ "already_in_sync" \in Results
      BY <2>1, PlanFacts DEF Results
    <3>2. CASE phase \in {"idle", "failed"}
      BY <2>1, <3>2 DEF Order
    <3>3. CASE phase \in {"syncing", "done"}
      BY <2>1, <3>1, <3>3 DEF Order, Returned
    <3> QED
      BY <2>1, <3>2, <3>3 DEF Typed
  <2> QED
    BY <2>1, <2>2, <2>3 DEF TypeOK, Typed, Order
<1> QED
  BY <1>1, SyncInvariant, PTL

(* The map that sync_schema returns, and the one that sync_schema_simulate   *)
(* had returned before, tell what has become of the table's columns, also    *)
(* when an earlier call was interrupted.                                     *)
THEOREM ResultsAreTrue == Spec => []ResultIsTrue
<1>1. SyncInv => ResultIsTrue
  <2> SUFFICES ASSUME SyncInv, phase = "done", Mapped
               PROVE  Describes(result["table"]) /\ Describes(predicted["table"])
    BY DEF ResultIsTrue, Mapped
  <2>1. Describes(Told.res)
    BY SyncSound, StageDescribes DEF SyncInv
  <2>2. /\ pending = <<>> /\ predicted["table"] = Told.res
        /\ result = [o \in Range(Objects) \ Range(pending) |-> Returned(o)]
    BY DEF SyncInv, Order
  <2>3. "table" \in Range(Objects) \ Range(pending)
    BY <2>2 DEF Range, Mapped
  <2>4. result["table"] = Told.res
    BY <2>2, <2>3 DEF Returned
  <2> QED
    BY <2>1, <2>2, <2>4
<1> QED
  BY <1>1, SyncInvariant, PTL

(* During a call, after it has failed and after it has returned, the tables  *)
(* are those there were before or at some stage.                             *)
LEMMA TablesReached ==
    ASSUME SyncInv
    PROVE  tables = before \/ \E rest : Stage(rest)
BY DEF SyncInv, Typed, Syncing, Reached

(* sync_schema touches no table that has the name of a backup, somebody      *)
(* else's or one that an interrupted call has left.                          *)
THEOREM OthersAreUntouched == Spec => []OtherTablesUntouched
<1>1. SyncInv => OtherTablesUntouched
  <2> SUFFICES ASSUME SyncInv
               PROVE  OtherTablesUntouched
    OBVIOUS
  <2>1. CASE tables = before
    BY <2>1 DEF OtherTablesUntouched
  <2>2. CASE \E rest : Stage(rest)
    BY <2>2, SyncSound, StageOthers
  <2> QED
    BY <2>1, <2>2, TablesReached
<1> QED
  BY <1>1, SyncInvariant, PTL

(* When sync_schema returns, the backup table of backup_table is gone. *)
THEOREM BackupsAreGone == Spec => []NoBackupLeft
<1>1. SyncInv => NoBackupLeft
  <2> SUFFICES ASSUME SyncInv, phase = "done"
               PROVE  OthersStay
    BY DEF NoBackupLeft, OthersStay
  <2>1. CASE Mapped
    BY <2>1, SyncSound, StageOthers DEF SyncInv
  <2>2. CASE ~Mapped
    BY <2>2 DEF SyncInv, OthersStay
  <2> QED
    BY <2>1, <2>2
<1> QED
  BY <1>1, SyncInvariant, PTL

(* Wherever sync_schema is interrupted, and when it returns, the data of the *)
(* mapped columns is in the table or in a backup, unless the table is to be  *)
(* dropped with loss.                                                        *)
THEOREM DataIsKept == Spec => []DataSurvives
<1>1. SyncInv => DataSurvives
  <2> SUFFICES ASSUME SyncInv, ~MayLose
               PROVE  Alive(before) \ {c.name : c \in Generated(storage)} \subseteq Alive(tables)
    BY DEF DataSurvives
  <2>1. CASE tables = before
    BY <2>1
  <2>2. CASE \E rest : Stage(rest)
    BY <2>2, SyncSound, StageKeepsData
  <2> QED
    BY <2>1, <2>2, TablesReached
<1> QED
  BY <1>1, SyncInvariant, PTL

(* When the index is given to make_storage before the table, it exists when  *)
(* sync_schema returns, also when the table was made anew: the objects are   *)
(* taken from the last to the first.                                         *)
THEOREM IndexIsThere ==
    ASSUME Objects # <<>>, Head(Objects) = "index"
    PROVE  Spec => []IndexExists
<1>1. SyncInv => IndexExists
  <2> SUFFICES ASSUME SyncInv, phase = "done"
               PROVE  index
    BY DEF IndexExists
  <2>1. pending = <<>> /\ todo = <<>>
    BY DEF SyncInv, Order
  <2>2. todo # <<CreateIndex>>
    BY <2>1
  <2> QED
    BY <2>1, <2>2 DEF SyncInv, IndexLast
<1> QED
  BY <1>1, SyncInvariant, PTL

(* sync_schema makes the schema the same as specified, also after calls that *)
(* were interrupted, for mappings without a composite primary key: the       *)
(* columns of such a key do not become part of it by ADD COLUMN.             *)
THEOREM SchemaBecomesSpecified ==
    ASSUME "table" \in Range(Objects), \A cols \in Mappings : ~Composite(cols)
    PROVE  Spec => []SchemaIsAsSpecified
<1>1. SyncInv => SchemaIsAsSpecified
  <2> SUFFICES ASSUME SyncInv, phase = "done"
               PROVE  Specified(tables[Target].cols) = Specified(storage)
    BY DEF SchemaIsAsSpecified
  <2>1. Stage(<<>>) /\ Sound
    BY SyncSound DEF SyncInv, Mapped
  <2>2. ~Composite(storage)
    BY <2>1 DEF Sound
  <2> QED
    BY <2>1, <2>2, StageSpecified
<1> QED
  BY <1>1, SyncInvariant, PTL
==============================================================================
