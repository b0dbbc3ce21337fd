--------------------------- MODULE SettingsProofs ---------------------------
(* Settings for any values, functions and collations, and any number of      *)
(* statement objects and registered functions.                               *)
EXTENDS Settings, ListLemmas, FiniteSetTheorems

(* All the functions in the order in which on_open_internal registers them. *)
Registered == scalarFunctions \o aggregateFunctions

Connection ==
    [synchronous : SyncLevels \cup {Unset}, journal_mode : JournalModes \cup {Unset},
     collations : SUBSET Collations, limit : 0..HardLimit,
     busy : {None, "callback", "timeout"}, functions : [Slots -> Proxies \cup {NoProxy}]]

(* Two functions that are registered have different addresses. *)
Distinct == \A i, j \in 1..FunctionsCount : Registered[i].id = Registered[j].id => i = j

(* What the storage remembers ... *)
Memory ==
    /\ synchronous_ \in SyncLevels \cup {Unset}
    /\ journal_mode_ \in JournalModes \cup {Unset}
    /\ limits \in LimitValues \cup {-1}
    /\ busy_handler \in {None, "handler"}
    /\ scalarFunctions \in Seq(Proxies) /\ aggregateFunctions \in Seq(Proxies)
    /\ collatingFunctions \in [Collations -> Comparators \cup {None}]
    /\ Distinct

(* ... holds what SQLite may call on a connection, and a function is called  *)
(* by its own name and number of arguments.                                  *)
Live(d) ==
    /\ \A s \in Slots : d.functions[s] # NoProxy =>
            d.functions[s] \in Remembered /\ Slot(d.functions[s]) = s
    /\ d.collations \subseteq Named
    /\ d.busy = "callback" => busy_handler # None

Core == Memory /\ db \in Connection /\ Live(db) /\ apart \subseteq Settings

(* The settings in force are the ones remembered, field by field. *)
Restored ==
    /\ "synchronous" \in apart \/ db.synchronous = synchronous_
    /\ "journal_mode" \in apart \/ db.journal_mode = journal_mode_
    /\ "collations" \in apart \/ db.collations = Named
    /\ "limit" \in apart \/ db.limit = sqlite3_limit(HardLimit, limits)
    /\ "busy" \in apart \/ db.busy = IF busy_handler # None THEN "callback" ELSE None
    /\ "functions" \in apart \/ db.functions = FunctionsOf(Registered, FunctionsCount)

References ==
    /\ statements \in 0..MaxStatements
    /\ inTransaction \in BOOLEAN /\ kept \in BOOLEAN /\ active \in BOOLEAN

SettingsInv ==
    /\ References
    /\ Core
    /\ Opened => Restored
    /\ ~Opened => db = NewConnection
-----------------------------------------------------------------------------
(* The functions in force *)

(* list::erase, as the model has it. *)
LEMMA Erasing ==
    ASSUME NEW s, NEW i
    PROVE  Erase(s, i) = WithoutAt(s, i)
BY DEF Erase, WithoutAt

(* The last function with a name and number of arguments is in force, if     *)
(* there is one.                                                             *)
LEMMA LastRegistered ==
    ASSUME NEW ps \in Seq(Proxies), NEW n \in 0..Len(ps), NEW s \in Slots
    PROVE  \/ /\ FunctionsOf(ps, n)[s] = NoProxy
              /\ \A i \in 1..n : Slot(ps[i]) # s
           \/ \E m \in 1..n : /\ FunctionsOf(ps, n)[s] = ps[m] /\ Slot(ps[m]) = s
                              /\ \A i \in m + 1..n : Slot(ps[i]) # s
<1> DEFINE at == {i \in 1..n : Slot(ps[i]) = s}
<1>1. n \in Nat
  BY LenProperties
<1>2. FunctionsOf(ps, n)[s] = IF at = {} THEN NoProxy ELSE ps[Max(at)]
  BY DEF FunctionsOf
<1>3. CASE at = {}
  BY <1>2, <1>3
<1>4. CASE at # {}
  <2>1. Max(at) \in at /\ \A i \in at : Max(at) >= i
    <3>1. at \in SUBSET (0..n)
      BY <1>1
    <3> QED
      BY <1>1, <1>4, <3>1, MaxIsLargest, Zenon
  <2>2. \A i \in Max(at) + 1..n : Slot(ps[i]) # s
    BY <1>1, <2>1
  <2> QED
    BY <1>2, <1>4, <2>1, <2>2, Zenon
<1> QED
  BY <1>3, <1>4

LEMMA LastOfAll ==
    ASSUME NEW ps \in Seq(Proxies), NEW s \in Slots
    PROVE  \/ /\ FunctionsOf(ps, Len(ps))[s] = NoProxy
              /\ \A i \in 1..Len(ps) : Slot(ps[i]) # s
           \/ \E m \in 1..Len(ps) : /\ FunctionsOf(ps, Len(ps))[s] = ps[m] /\ Slot(ps[m]) = s
                                    /\ \A i \in m + 1..Len(ps) : Slot(ps[i]) # s
<1>1. Len(ps) \in 0..Len(ps)
  BY LenProperties
<1> QED
  BY <1>1, LastRegistered

LEMMA InForce ==
    ASSUME NEW ps \in Seq(Proxies), NEW n \in 0..Len(ps), NEW s \in Slots,
           NEW m \in 1..n, Slot(ps[m]) = s, \A i \in m + 1..n : Slot(ps[i]) # s
    PROVE  FunctionsOf(ps, n)[s] = ps[m]
<1>1. n \in Nat
  BY LenProperties
<1>2. PICK k \in 1..n : /\ FunctionsOf(ps, n)[s] = ps[k] /\ Slot(ps[k]) = s
                        /\ \A i \in k + 1..n : Slot(ps[i]) # s
  BY LastRegistered
<1>3. k = m
  BY <1>1, <1>2
<1> QED
  BY <1>2, <1>3

LEMMA NotInForce ==
    ASSUME NEW ps \in Seq(Proxies), NEW n \in 0..Len(ps), NEW s \in Slots,
           \A i \in 1..n : Slot(ps[i]) # s
    PROVE  FunctionsOf(ps, n)[s] = NoProxy
BY LastRegistered

LEMMA FunctionsOfType ==
    ASSUME NEW ps \in Seq(Proxies), NEW n \in 0..Len(ps)
    PROVE  FunctionsOf(ps, n) \in [Slots -> Proxies \cup {NoProxy}]
<1>1. \A s \in Slots : FunctionsOf(ps, n)[s] \in Proxies \cup {NoProxy}
  <2> TAKE s \in Slots
  <2>1. Len(ps) \in Nat /\ \A m \in 1..Len(ps) : ps[m] \in Proxies
    BY LenProperties, ElementOfSeq
  <2>2. \A m \in 1..n : ps[m] \in Proxies
    BY <2>1
  <2> QED
    BY <2>2, LastRegistered
<1> QED
  BY <1>1 DEF FunctionsOf

(* A function that is registered at some place, with none of the same name   *)
(* and number of arguments behind it, is in force; the others stay.          *)
Inserted(ps, qs, i, p) ==
    /\ ps \in Seq(Proxies) /\ qs \in Seq(Proxies) /\ p \in Proxies /\ Slot(p) \in Slots
    /\ i \in 1..Len(ps) + 1 /\ Len(qs) = Len(ps) + 1
    /\ \A j \in 1..Len(qs) : qs[j] = IF j < i THEN ps[j] ELSE IF j = i THEN p ELSE ps[j - 1]
    /\ \A j \in i..Len(ps) : Slot(ps[j]) # Slot(p)

LEMMA InsertedIsInForce ==
    ASSUME NEW ps, NEW qs, NEW i, NEW p, Inserted(ps, qs, i, p)
    PROVE  FunctionsOf(qs, Len(qs)) = [FunctionsOf(ps, Len(ps)) EXCEPT ![Slot(p)] = p]
<1> USE DEF Inserted
<1>1. Len(ps) \in Nat /\ Len(qs) \in Nat /\ Len(ps) \in 0..Len(ps) /\ Len(qs) \in 0..Len(qs)
  BY LenProperties
<1>2. /\ i \in 1..Len(qs) /\ qs[i] = p
      /\ \A j \in 1..i - 1 : j \in 1..Len(qs) /\ j \in 1..Len(ps) /\ qs[j] = ps[j]
      /\ \A j \in i + 1..Len(qs) : j - 1 \in i..Len(ps) /\ j - 1 \in 1..Len(ps) /\ qs[j] = ps[j - 1]
  BY <1>1
<1>3. FunctionsOf(qs, Len(qs))[Slot(p)] = p
  <2>1. \A j \in i + 1..Len(qs) : Slot(qs[j]) # Slot(p)
    BY <1>2
  <2>2. /\ qs \in Seq(Proxies) /\ Len(qs) \in 0..Len(qs) /\ i \in 1..Len(qs)
        /\ Slot(p) \in Slots /\ Slot(qs[i]) = Slot(p)
    BY <1>1, <1>2
  <2> HIDE DEF Inserted
  <2>3. FunctionsOf(qs, Len(qs))[Slot(p)] = qs[i]
    BY <2>1, <2>2, InForce, Zenon
  <2> QED
    BY <1>2, <2>3
<1>4. ASSUME NEW s \in Slots, s # Slot(p)
      PROVE  FunctionsOf(qs, Len(qs))[s] = FunctionsOf(ps, Len(ps))[s]
  <2>1. CASE /\ FunctionsOf(ps, Len(ps))[s] = NoProxy
             /\ \A j \in 1..Len(ps) : Slot(ps[j]) # s
    <3>1. ASSUME NEW j \in 1..Len(qs)
          PROVE  Slot(qs[j]) # s
      <4>1. j \in 1..i - 1 \/ j = i \/ j \in i + 1..Len(qs)
        BY <1>1
      <4> QED
        BY <1>2, <1>4, <2>1, <4>1
    <3> QED
      BY <1>1, <2>1, <3>1, NotInForce
  <2>2. ASSUME NEW m \in 1..Len(ps), Slot(ps[m]) = s, FunctionsOf(ps, Len(ps))[s] = ps[m],
               \A j \in m + 1..Len(ps) : Slot(ps[j]) # s
        PROVE  FunctionsOf(qs, Len(qs))[s] = ps[m]
    <3>1. PICK k \in 1..Len(qs) : k = IF m < i THEN m ELSE m + 1
      BY <1>1
    <3>2. qs[k] = ps[m]
      BY <1>1, <1>2, <3>1
    <3>3. ASSUME NEW j \in k + 1..Len(qs)
          PROVE  Slot(qs[j]) # s
      <4>1. \/ j \in 1..i - 1 /\ j \in m + 1..Len(ps)
            \/ j = i
            \/ j \in i + 1..Len(qs) /\ j - 1 \in m + 1..Len(ps)
        BY <1>1, <3>1
      <4> QED
        BY <1>2, <1>4, <2>2, <4>1
    <3>4. qs \in Seq(Proxies) /\ Len(qs) \in 0..Len(qs) /\ Slot(qs[k]) = s
      BY <1>1, <2>2, <3>2
    <3> HIDE DEF Inserted
    <3> QED
      BY <3>2, <3>3, <3>4, InForce, Zenon
  <2>3. \/ /\ FunctionsOf(ps, Len(ps))[s] = NoProxy
           /\ \A j \in 1..Len(ps) : Slot(ps[j]) # s
        \/ \E m \in 1..Len(ps) : /\ FunctionsOf(ps, Len(ps))[s] = ps[m] /\ Slot(ps[m]) = s
                                 /\ \A j \in m + 1..Len(ps) : Slot(ps[j]) # s
    BY LastOfAll, Zenon
  <2> QED
    BY <2>1, <2>2, <2>3, Zenon
<1> QED
  BY <1>3, <1>4, Zenon DEF FunctionsOf

(* When the only function with a name and number of arguments is erased none *)
(* is in force; the others stay.                                             *)
Erased(ps, qs, i) ==
    /\ ps \in Seq(Proxies) /\ qs \in Seq(Proxies) /\ i \in 1..Len(ps) /\ Len(qs) = Len(ps) - 1
    /\ \A j \in 1..Len(qs) : qs[j] = IF j < i THEN ps[j] ELSE ps[j + 1]
    /\ \A j \in 1..Len(ps) : j # i => Slot(ps[j]) # Slot(ps[i])

LEMMA ErasedIsNotInForce ==
    ASSUME NEW ps, NEW qs, NEW i, Erased(ps, qs, i)
    PROVE  FunctionsOf(qs, Len(qs)) = [FunctionsOf(ps, Len(ps)) EXCEPT ![Slot(ps[i])] = NoProxy]
<1> USE DEF Erased
<1>1. Len(ps) \in Nat /\ Len(qs) \in Nat /\ Len(ps) \in 0..Len(ps) /\ Len(qs) \in 0..Len(qs)
  BY LenProperties
<1>2. /\ \A j \in 1..i - 1 : j \in 1..Len(qs) /\ j \in 1..Len(ps) /\ qs[j] = ps[j]
      /\ \A j \in i..Len(qs) : j + 1 \in 1..Len(ps) /\ qs[j] = ps[j + 1]
  BY <1>1
<1>3. ASSUME Slot(ps[i]) \in Slots
      PROVE  FunctionsOf(qs, Len(qs))[Slot(ps[i])] = NoProxy
  <2>1. ASSUME NEW j \in 1..Len(qs)
        PROVE  Slot(qs[j]) # Slot(ps[i])
    <3>1. \/ j \in 1..i - 1 /\ j # i
          \/ j \in i..Len(qs) /\ j + 1 # i
      BY <1>1
    <3> QED
      BY <1>2, <3>1
  <2> QED
    BY <1>1, <1>3, <2>1, NotInForce
<1>4. ASSUME NEW s \in Slots, s # Slot(ps[i])
      PROVE  FunctionsOf(qs, Len(qs))[s] = FunctionsOf(ps, Len(ps))[s]
  <2>1. CASE /\ FunctionsOf(ps, Len(ps))[s] = NoProxy
             /\ \A j \in 1..Len(ps) : Slot(ps[j]) # s
    <3>1. ASSUME NEW j \in 1..Len(qs)
          PROVE  Slot(qs[j]) # s
      <4>1. j \in 1..i - 1 \/ j \in i..Len(qs)
        BY <1>1
      <4> QED
        BY <1>2, <2>1, <4>1
    <3> QED
      BY <1>1, <2>1, <3>1, NotInForce
  <2>2. ASSUME NEW m \in 1..Len(ps), Slot(ps[m]) = s, FunctionsOf(ps, Len(ps))[s] = ps[m],
               \A j \in m + 1..Len(ps) : Slot(ps[j]) # s
        PROVE  FunctionsOf(qs, Len(qs))[s] = ps[m]
    <3>1. m # i
      BY <1>4, <2>2
    <3>2. PICK k \in 1..Len(qs) : k = IF m < i THEN m ELSE m - 1
      BY <1>1, <3>1
    <3>3. qs[k] = ps[m]
      BY <1>1, <1>2, <3>1, <3>2
    <3>4. ASSUME NEW j \in k + 1..Len(qs)
          PROVE  Slot(qs[j]) # s
      <4>1. \/ j \in 1..i - 1 /\ j \in m + 1..Len(ps)
            \/ j \in i..Len(qs) /\ j + 1 \in m + 1..Len(ps)
        BY <1>1, <3>1, <3>2
      <4> QED
        BY <1>2, <2>2, <4>1
    <3>5. qs \in Seq(Proxies) /\ Len(qs) \in 0..Len(qs) /\ Slot(qs[k]) = s
      BY <1>1, <2>2, <3>3
    <3> HIDE DEF Erased
    <3> QED
      BY <3>3, <3>4, <3>5, InForce, Zenon
  <2>3. \/ /\ FunctionsOf(ps, Len(ps))[s] = NoProxy
           /\ \A j \in 1..Len(ps) : Slot(ps[j]) # s
        \/ \E m \in 1..Len(ps) : /\ FunctionsOf(ps, Len(ps))[s] = ps[m] /\ Slot(ps[m]) = s
                                 /\ \A j \in m + 1..Len(ps) : Slot(ps[j]) # s
    BY LastOfAll, Zenon
  <2> QED
    BY <2>1, <2>2, <2>3, Zenon
<1> QED
  BY <1>3, <1>4, Zenon DEF FunctionsOf
-----------------------------------------------------------------------------
(* The memory *)

LEMMA RegisteredType ==
    ASSUME Memory
    PROVE  /\ Registered \in Seq(Proxies) /\ Len(Registered) = FunctionsCount
           /\ FunctionsCount \in Nat
           /\ Range(Registered) = Remembered
<1>1. Len(scalarFunctions) \in Nat /\ Len(aggregateFunctions) \in Nat
  BY LenProperties DEF Memory
<1>2. Registered \in Seq(Proxies) /\ Len(Registered) = Len(scalarFunctions) + Len(aggregateFunctions)
  BY ConcatProperties DEF Memory, Registered
<1>3. Range(Registered) = Remembered
  BY RangeConcatenation DEF Memory, Registered, Remembered
<1> QED
  BY <1>1, <1>2, <1>3 DEF FunctionsCount

LEMMA RangesOfFunctions ==
    ASSUME scalarFunctions' \in Seq(Proxies), aggregateFunctions' \in Seq(Proxies)
    PROVE  Range(Registered') = Remembered'
<1> DEFINE s == scalarFunctions'
           a == aggregateFunctions'
<1>1. /\ s \in Seq(Proxies) /\ a \in Seq(Proxies)
      /\ Registered' = s \o a /\ Remembered' = Range(s) \cup Range(a)
  BY DEF Registered, Remembered
<1> HIDE DEF s, a
<1> QED
  BY <1>1, RangeConcatenation

(* Whatever on_open_internal has applied when it stops may be called. *)
LEMMA OpenedIsLive ==
    ASSUME Memory, NEW blocks \in Int, NEW colls \in SUBSET Named, NEW n \in 0..FunctionsCount
    PROVE  OnOpen(blocks, colls, n) \in Connection /\ Live(OnOpen(blocks, colls, n))
<1> DEFINE d == OnOpen(blocks, colls, n)
           functions == FunctionsOf(Registered, n)
<1>1. /\ Registered \in Seq(Proxies) /\ n \in 0..Len(Registered)
      /\ Range(Registered) = Remembered /\ Len(Registered) \in Nat
  BY RegisteredType
<1>2. functions \in [Slots -> Proxies \cup {NoProxy}]
  BY <1>1, FunctionsOfType
<1>3. ASSUME NEW s \in Slots, functions[s] # NoProxy
      PROVE  functions[s] \in Remembered /\ Slot(functions[s]) = s
  <2>1. PICK m \in 1..n : functions[s] = Registered[m] /\ Slot(Registered[m]) = s
    BY <1>1, <1>3, LastRegistered
  <2>2. m \in 1..Len(Registered) /\ DOMAIN Registered = 1..Len(Registered)
    BY <1>1, LenProperties
  <2>3. Registered[m] \in Range(Registered)
    BY <2>2 DEF Range
  <2> QED
    BY <1>1, <2>1, <2>3
<1>4. sqlite3_limit(HardLimit, limits) \in 0..HardLimit /\ HardLimit \in 0..HardLimit
  BY SettingsConstants DEF Memory, sqlite3_limit
<1> HIDE DEF functions
<1>5. d = [synchronous |-> IF blocks >= 1 THEN synchronous_ ELSE Unset,
           journal_mode |-> IF blocks >= 2 THEN journal_mode_ ELSE Unset,
           collations |-> colls,
           limit |-> IF blocks >= 4 THEN sqlite3_limit(HardLimit, limits) ELSE HardLimit,
           busy |-> IF blocks >= 4 /\ busy_handler # None THEN "callback" ELSE None,
           functions |-> functions]
  BY DEF OnOpen, functions, Registered
<1>6. colls \in SUBSET Collations
  BY DEF Named
<1> HIDE DEF d
<1>7. d \in Connection
  BY <1>2, <1>4, <1>5, <1>6 DEF Memory, Connection
<1>8. Live(d)
  BY <1>3, <1>5 DEF Live, None
<1> QED
  BY <1>7, <1>8 DEF d

LEMMA NewIsLive == NewConnection \in Connection /\ Live(NewConnection)
<1>1. NewConnection \in Connection
  BY SettingsConstants DEF NewConnection, Connection, None
<1> QED
  BY <1>1 DEF NewConnection, Live, None

LEMMA ReopenedFields ==
    Reopened = [synchronous |-> synchronous_, journal_mode |-> journal_mode_,
                collations |-> Named, limit |-> sqlite3_limit(HardLimit, limits),
                busy |-> IF busy_handler # None THEN "callback" ELSE None,
                functions |-> FunctionsOf(Registered, FunctionsCount)]
BY DEF Reopened, OnOpen, Registered

LEMMA AllSettings ==
    Settings = {"synchronous", "journal_mode", "collations", "limit", "busy", "functions"}
BY DEF Settings, BlockOf

(* Restored says what ReopenRestoresSettings does. *)
LEMMA RestoredIsReopened == Restored => \A s \in Settings \ apart : db[s] = Reopened[s]
BY ReopenedFields, AllSettings DEF Restored
-----------------------------------------------------------------------------
(* Opening and closing *)

(* What depends on the memory stays when the memory does. *)
LEMMA MemoryStays ==
    ASSUME Memory, UNCHANGED memory
    PROVE  /\ Memory'
           /\ Remembered' = Remembered /\ Named' = Named
           /\ Registered' = Registered /\ FunctionsCount' = FunctionsCount
<1>1. UNCHANGED <<synchronous_, journal_mode_, limits, busy_handler,
                  scalarFunctions, aggregateFunctions, collatingFunctions>>
  BY DEF memory, levels, lists
<1>2. /\ Remembered' = Remembered /\ Named' = Named
      /\ Registered' = Registered /\ FunctionsCount' = FunctionsCount
  BY <1>1 DEF Remembered, Named, Registered, FunctionsCount
<1>3. Distinct'
  BY <1>2 DEF Memory, Distinct
<1> QED
  BY <1>1, <1>2, <1>3 DEF Memory

(* When neither the memory nor the connection changes. *)
LEMMA ConnectionStays ==
    ASSUME Core, UNCHANGED <<memory, db, apart>>
    PROVE  Core' /\ (Restored => Restored')
<1>1. Memory' /\ Remembered' = Remembered /\ Named' = Named
  BY MemoryStays DEF Core
<1>2. Registered' = Registered /\ FunctionsCount' = FunctionsCount
  BY MemoryStays DEF Core
<1>3. UNCHANGED <<synchronous_, journal_mode_, limits, busy_handler>>
  BY DEF memory, levels
<1>4. Core'
  BY <1>1, <1>3 DEF Core, Live
<1>5. Restored => Restored'
  BY <1>1, <1>2, <1>3 DEF Restored
<1> QED
  BY <1>4, <1>5

(* on_open_internal restores everything. *)
LEMMA OpenRestores ==
    ASSUME SettingsInv, OpenIfClosed
    PROVE  Core' /\ Restored'
<1>1. CASE Opened
  BY <1>1, ConnectionStays DEF OpenIfClosed, SettingsInv
<1>2. CASE ~Opened
  <2>1. db' = Reopened /\ UNCHANGED <<apart, memory>> /\ Core
    BY <1>2 DEF OpenIfClosed, SettingsInv
  <2>2. Memory' /\ Remembered' = Remembered /\ Named' = Named
    BY <2>1, MemoryStays DEF Core
  <2>3. Registered' = Registered /\ FunctionsCount' = FunctionsCount
    BY <2>1, MemoryStays DEF Core
  <2>4. UNCHANGED <<synchronous_, journal_mode_, limits, busy_handler>>
    BY <2>1 DEF memory, levels
  <2>5. Reopened \in Connection /\ Live(Reopened)
    <3>1. FunctionsCount \in 0..FunctionsCount
      BY <2>1, RegisteredType DEF Core
    <3> QED
      BY <2>1, <3>1, OpenedIsLive DEF Core, Reopened
  <2>6. Core'
    BY <2>1, <2>2, <2>4, <2>5 DEF Core, Live
  <2>7. Restored'
    BY <2>1, <2>2, <2>3, <2>4, ReopenedFields DEF Restored
  <2> QED
    BY <2>6, <2>7
<1> QED
  BY <1>1, <1>2

(* A connection that stays open although on_open_internal has thrown differs *)
(* in the settings that it had not come to.                                  *)
LEMMA HalfOpenRestores ==
    ASSUME SettingsInv, StaysHalfOpen
    PROVE  Core' /\ Restored'
<1>1. PICK blocks \in {0, 1, 2, 4, 5}, colls \in SUBSET Named, n \in 0..FunctionsCount :
        /\ blocks > 2 => colls = Named
        /\ blocks = 5 => n = FunctionsCount
        /\ db' = OnOpen(blocks, colls, n)
        /\ synchronous_' \in IF blocks = 0 THEN {Unset, synchronous_} ELSE {synchronous_}
        /\ apart' = {s \in Settings : BlockOf[s] > blocks}
  BY DEF StaysHalfOpen
<1>2. Core /\ UNCHANGED <<journal_mode_, limits, busy_handler, scalarFunctions,
                          aggregateFunctions, collatingFunctions>>
  BY DEF StaysHalfOpen, SettingsInv, lists
<1>3. /\ Remembered' = Remembered /\ Named' = Named
      /\ Registered' = Registered /\ FunctionsCount' = FunctionsCount
  BY <1>2 DEF Remembered, Named, Registered, FunctionsCount
<1>4. Memory'
  <2>1. Distinct'
    BY <1>2, <1>3 DEF Core, Memory, Distinct
  <2>2. synchronous_' \in SyncLevels \cup {Unset}
    BY <1>1, <1>2 DEF Core, Memory
  <2> QED
    BY <1>2, <2>1, <2>2 DEF Core, Memory
<1>5. db' \in Connection /\ Live(db')
  BY <1>1, <1>2, OpenedIsLive DEF Core
<1>6. Core'
  BY <1>1, <1>2, <1>3, <1>4, <1>5 DEF Core, Live
<1>7. /\ "synchronous" \in apart' \/ blocks >= 1
      /\ "journal_mode" \in apart' \/ blocks >= 2
      /\ "collations" \in apart' \/ blocks > 2
      /\ "limit" \in apart' \/ blocks >= 4
      /\ "busy" \in apart' \/ blocks >= 4
      /\ "functions" \in apart' \/ blocks = 5
  BY <1>1, AllSettings DEF BlockOf
<1>8. db' = [synchronous |-> IF blocks >= 1 THEN synchronous_ ELSE Unset,
             journal_mode |-> IF blocks >= 2 THEN journal_mode_ ELSE Unset,
             collations |-> colls,
             limit |-> IF blocks >= 4 THEN sqlite3_limit(HardLimit, limits) ELSE HardLimit,
             busy |-> IF blocks >= 4 /\ busy_handler # None THEN "callback" ELSE None,
             functions |-> FunctionsOf(Registered, n)]
  BY <1>1 DEF OnOpen, Registered
<1>9. Restored'
  BY <1>1, <1>2, <1>3, <1>7, <1>8, SMTT(20) DEF Restored
<1> QED
  BY <1>6, <1>9

(* Nothing is called on a connection that nobody has set up. *)
LEMMA ClosedIsSafe ==
    ASSUME Memory', db' = NewConnection, apart' \subseteq Settings
    PROVE  Core'
<1>1. NewConnection \in Connection
  BY NewIsLive
<1>2. Live(db)'
  BY DEF NewConnection, Live, None
<1> QED
  BY <1>1, <1>2 DEF Core

LEMMA CloseForgets ==
    ASSUME SettingsInv, Opened, CloseIfUnused
    PROVE  Core' /\ (Opened' => Restored') /\ (~Opened' => db' = NewConnection)
<1>1. Core /\ Restored /\ UNCHANGED memory
  BY DEF SettingsInv, CloseIfUnused
<1>2. CASE Opened'
  BY <1>1, <1>2, ConnectionStays DEF CloseIfUnused
<1>3. CASE ~Opened'
  <2>1. Memory' /\ db' = NewConnection /\ apart' = {}
    BY <1>1, <1>3, MemoryStays DEF CloseIfUnused, Core
  <2> QED
    BY <1>3, <2>1, ClosedIsSafe
<1> QED
  BY <1>2, <1>3

LEMMA prepareStep ==
    ASSUME SettingsInv, prepare
    PROVE  SettingsInv'
<1>1. UNCHANGED <<inTransaction, kept, active>> /\ References /\ MaxStatements \in Nat
  BY SettingsConstants DEF prepare, SettingsInv
<1>2. CASE OpenIfClosed /\ statements' = statements + 1
  <2>1. References' /\ Opened'
    BY <1>1, <1>2 DEF prepare, References, Opened
  <2> QED
    BY <1>2, <2>1, OpenRestores DEF SettingsInv
<1>3. CASE /\ OpeningThrows
           /\ UNCHANGED <<statements, journal_mode_, limits, busy_handler, lists, collatingFunctions>>
  <2>1. References' /\ ~Opened /\ Opened' = Opened
    BY <1>1, <1>3 DEF OpeningThrows, References, Opened
  <2>2. Memory'
    <3>1. Distinct'
      BY <1>3 DEF SettingsInv, Core, Memory, Distinct, Registered, FunctionsCount, lists
    <3> QED
      BY <1>3, <3>1 DEF OpeningThrows, SettingsInv, Core, Memory, lists
  <2>3. Core' /\ db' = NewConnection
    BY <1>3, <2>1, <2>2, ClosedIsSafe DEF OpeningThrows, SettingsInv, Core
  <2> QED
    BY <2>1, <2>3 DEF SettingsInv
<1> QED
  BY <1>2, <1>3 DEF prepare

LEMMA beginStep ==
    ASSUME SettingsInv, begin_transaction
    PROVE  SettingsInv'
<1>1. UNCHANGED <<statements, active>> /\ References
  BY DEF begin_transaction, SettingsInv
<1>2. Core' /\ Restored'
  BY OpenRestores, HalfOpenRestores DEF begin_transaction
<1>3. References' /\ Opened'
  BY <1>1, Zenon DEF begin_transaction, References, Opened
<1> QED
  BY <1>2, <1>3 DEF SettingsInv

LEMMA open_foreverStep ==
    ASSUME SettingsInv, open_forever
    PROVE  SettingsInv'
<1>1. UNCHANGED <<statements, inTransaction, active>> /\ References /\ kept' = TRUE
  BY DEF open_forever, SettingsInv
<1>2. Core' /\ Restored'
  BY OpenRestores, HalfOpenRestores DEF open_forever
<1>3. References' /\ Opened'
  BY <1>1 DEF References, Opened
<1> QED
  BY <1>2, <1>3 DEF SettingsInv

(* The calls that let a reference go. *)
LEMMA releaseStep ==
    ASSUME SettingsInv, EndTransaction \/ FinalizeStatement
    PROVE  SettingsInv'
<1>1. Opened /\ CloseIfUnused
  BY DEF EndTransaction, FinalizeStatement, Opened
<1>2. References'
  <2>1. statements \in Nat /\ MaxStatements \in Nat
    BY SettingsConstants DEF SettingsInv, References
  <2>2. statements' \in 0..MaxStatements
    BY <2>1 DEF EndTransaction, FinalizeStatement, SettingsInv, References
  <2>3. inTransaction' \in BOOLEAN /\ kept' \in BOOLEAN /\ active' \in BOOLEAN
    BY Zenon DEF EndTransaction, FinalizeStatement, SettingsInv, References
  <2> QED
    BY <2>2, <2>3 DEF References
<1> QED
  BY <1>1, <1>2, CloseForgets DEF SettingsInv

LEMMA StepStatementStep ==
    ASSUME SettingsInv, StepStatement
    PROVE  SettingsInv'
<1>1. References' /\ Opened' = Opened
  BY DEF StepStatement, SettingsInv, References, Opened
<1>2. Core' /\ (Restored => Restored') /\ db' = db
  BY ConnectionStays DEF StepStatement, SettingsInv
<1> QED
  BY <1>1, <1>2 DEF SettingsInv

(* What a storage that has just been made, and a copy, remember. *)
NothingSet ==
    /\ synchronous_ = Unset /\ journal_mode_ = Unset /\ limits = -1 /\ busy_handler = None
    /\ scalarFunctions = <<>> /\ aggregateFunctions = <<>>
    /\ collatingFunctions = [c \in Collations |-> None]

(* on_open_internal has nothing to apply. *)
LEMMA NothingIsRestored ==
    NothingSet => /\ Memory
                  /\ Reopened = NewConnection
                  /\ db = NewConnection => Restored
<1> SUFFICES ASSUME NothingSet
             PROVE  /\ Memory
                    /\ Reopened = NewConnection
                    /\ db = NewConnection => Restored
  OBVIOUS
<1>1. FunctionsCount = 0 /\ Named = {}
  BY DEF NothingSet, FunctionsCount, Named
<1>2. Distinct
  BY <1>1 DEF Distinct
<1>3. Memory
  BY <1>2 DEF NothingSet, Memory
<1>4. FunctionsOf(Registered, FunctionsCount) = [s \in Slots |-> NoProxy]
  <2>1. 1..FunctionsCount = {}
    BY <1>1
  <2> QED
    BY <2>1 DEF FunctionsOf
<1>5. sqlite3_limit(HardLimit, limits) = HardLimit
  BY DEF NothingSet, sqlite3_limit
<1>6. Reopened = NewConnection
  BY <1>1, <1>4, <1>5, ReopenedFields DEF NothingSet, NewConnection
<1>7. ASSUME db = NewConnection
      PROVE  Restored
  BY <1>1, <1>4, <1>5, <1>7 DEF Restored, NothingSet, NewConnection
<1> QED
  BY <1>3, <1>6, <1>7

LEMMA CopyStorageStep ==
    ASSUME SettingsInv, inMemory \in BOOLEAN, CopyStorage
    PROVE  SettingsInv'
<1>1. NothingSet'
  BY DEF CopyStorage, NothingSet
<1>2. (NothingSet => /\ Memory
                     /\ Reopened = NewConnection
                     /\ db = NewConnection => Restored)'
  BY NothingIsRestored, PTL
<1>3. db' = NewConnection /\ apart' \subseteq Settings
  BY <1>1, <1>2 DEF CopyStorage
<1>4. References'
  <2>1. 0 \in 0..MaxStatements
    BY SettingsConstants
  <2> QED
    BY <2>1, Zenon DEF CopyStorage, References
<1>5. Core'
  BY <1>1, <1>2, <1>3, ClosedIsSafe
<1> QED
  BY <1>1, <1>2, <1>3, <1>4, <1>5 DEF SettingsInv
-----------------------------------------------------------------------------
(* The setters *)

LEMMA ListsStay ==
    ASSUME Memory, UNCHANGED <<lists, collatingFunctions>>
    PROVE  /\ Remembered' = Remembered /\ Named' = Named
           /\ Registered' = Registered /\ FunctionsCount' = FunctionsCount
           /\ Distinct'
           /\ UNCHANGED <<scalarFunctions, aggregateFunctions, collatingFunctions>>
<1>1. UNCHANGED <<scalarFunctions, aggregateFunctions, collatingFunctions>>
  BY DEF lists
<1>2. /\ Remembered' = Remembered /\ Named' = Named
      /\ Registered' = Registered /\ FunctionsCount' = FunctionsCount
  BY <1>1 DEF Remembered, Named, Registered, FunctionsCount
<1>3. Distinct'
  BY <1>2 DEF Memory, Distinct
<1> QED
  BY <1>1, <1>2, <1>3

(* A setter opens and closes nothing for the others. *)
LEMMA SetterKeeps ==
    ASSUME SettingsInv, UNCHANGED connection, Core', Opened => Restored', ~Opened => db' = db
    PROVE  SettingsInv'
<1>1. References' /\ Opened' = Opened
  BY DEF SettingsInv, References, Opened, connection
<1> QED
  BY <1>1 DEF SettingsInv

(* A setter that finds no connection, or cannot open one, has only the       *)
(* memory to change.                                                         *)
LEMMA ClosedSetter ==
    ASSUME SettingsInv, UNCHANGED connection, ~Opened, UNCHANGED db, apart' \subseteq Settings, Memory'
    PROVE  SettingsInv'
<1>1. db' = NewConnection
  BY DEF SettingsInv
<1>2. Core'
  BY <1>1, ClosedIsSafe
<1> QED
  BY <1>2, SetterKeeps

LEMMA synchronousStep ==
    ASSUME SettingsInv, NEW value \in SyncLevels, synchronous(value)
    PROVE  SettingsInv'
<1>1. /\ UNCHANGED connection /\ Memory /\ Live(db) /\ db \in Connection /\ apart \subseteq Settings
      /\ UNCHANGED <<journal_mode_, limits, busy_handler, lists, collatingFunctions>>
  BY DEF synchronous, SettingsInv, Core
<1>2. /\ Remembered' = Remembered /\ Named' = Named
      /\ Registered' = Registered /\ FunctionsCount' = FunctionsCount
      /\ UNCHANGED <<scalarFunctions, aggregateFunctions, collatingFunctions>>
  BY <1>1, ListsStay
<1>3. Memory'
  <2>1. Distinct'
    BY <1>1, ListsStay
  <2>2. synchronous_' \in SyncLevels \cup {Unset}
    BY DEF synchronous, SynchronousThrows
  <2> QED
    BY <1>1, <1>2, <2>1, <2>2 DEF Memory
<1>4. CASE ~Opened
  <2>1. UNCHANGED db /\ apart' \subseteq Settings
    BY <1>1, <1>4 DEF synchronous, SynchronousThrows, OnConnection
  <2> QED
    BY <1>1, <1>3, <1>4, <2>1, ClosedSetter
<1>5. CASE Opened
  <2>1. Restored
    BY <1>5 DEF SettingsInv
  <2>2. CASE synchronous_' = value /\ OnConnection("synchronous", value) /\ apart' = apart \ {"synchronous"}
    <3>1. db' = [db EXCEPT !.synchronous = value]
      BY <1>5, <2>2, Zenon DEF OnConnection
    <3>2. db' \in Connection /\ Live(db)'
      BY <1>1, <1>2, <3>1 DEF Connection, Live
    <3>3. Restored'
      BY <1>1, <1>2, <2>1, <2>2, <3>1 DEF Restored, Connection
    <3> QED
      BY <1>1, <1>3, <1>5, <2>2, <3>2, <3>3, SetterKeeps DEF Core
  <2>3. CASE SynchronousThrows
    <3>1. UNCHANGED db /\ apart' = apart \cup {"synchronous"}
      BY <1>5, <2>3 DEF SynchronousThrows
    <3>2. Live(db)' /\ Restored'
      BY <1>1, <1>2, <2>1, <3>1 DEF Live, Restored
    <3> QED
      BY <1>1, <1>3, <1>5, <3>1, <3>2, AllSettings, SetterKeeps DEF Core
  <2> QED
    BY <2>2, <2>3 DEF synchronous
<1> QED
  BY <1>4, <1>5

LEMMA journal_modeStep ==
    ASSUME SettingsInv, NEW value \in JournalModes, journal_mode(value)
    PROVE  SettingsInv'
<1>1. /\ UNCHANGED connection /\ Memory /\ Live(db) /\ db \in Connection /\ apart \subseteq Settings
      /\ UNCHANGED <<limits, busy_handler, lists, collatingFunctions>>
  BY DEF journal_mode, SettingsInv, Core
<1>2. /\ Remembered' = Remembered /\ Named' = Named
      /\ Registered' = Registered /\ FunctionsCount' = FunctionsCount
      /\ UNCHANGED <<scalarFunctions, aggregateFunctions, collatingFunctions>>
  BY <1>1, ListsStay
<1>3. Memory'
  <2>1. Distinct'
    BY <1>1, ListsStay
  <2>2. synchronous_' \in SyncLevels \cup {Unset} /\ journal_mode_' \in JournalModes \cup {Unset}
    BY <1>1 DEF journal_mode, OpeningThrows, Memory
  <2> QED
    BY <1>1, <1>2, <2>1, <2>2 DEF Memory
<1>4. CASE ~Opened
  <2>1. UNCHANGED db /\ apart' \subseteq Settings
    BY <1>1, <1>4, AllSettings, Zenon DEF journal_mode, OpeningThrows, OnConnection
  <2> QED
    BY <1>1, <1>3, <1>4, <2>1, ClosedSetter
<1>5. CASE Opened
  <2>1. Restored
    BY <1>5 DEF SettingsInv
  <2>2. CASE /\ journal_mode_' = value /\ OnConnection("journal_mode", value)
             /\ apart' = apart \ {"journal_mode"} /\ UNCHANGED synchronous_
    <3>1. db' = [db EXCEPT !.journal_mode = value]
      BY <1>5, <2>2, Zenon DEF OnConnection
    <3>2. db' \in Connection /\ Live(db)'
      BY <1>1, <1>2, <3>1 DEF Connection, Live
    <3>3. Restored'
      BY <1>1, <1>2, <2>1, <2>2, <3>1 DEF Restored, Connection
    <3> QED
      BY <1>1, <1>3, <1>5, <2>2, <3>2, <3>3, SetterKeeps DEF Core
  <2>3. CASE apart' = apart \cup {"journal_mode"} /\ UNCHANGED <<synchronous_, db>>
    <3>1. Live(db)' /\ Restored'
      BY <1>1, <1>2, <2>1, <2>3 DEF Live, Restored
    <3> QED
      BY <1>1, <1>3, <1>5, <2>3, <3>1, AllSettings, SetterKeeps DEF Core
  <2> QED
    BY <1>5, <2>2, <2>3 DEF journal_mode, OpeningThrows
<1> QED
  BY <1>4, <1>5

LEMMA SetLimitStep ==
    ASSUME SettingsInv, NEW value \in LimitValues, SetLimit(value)
    PROVE  SettingsInv'
<1>1. /\ UNCHANGED connection /\ Memory /\ Live(db) /\ db \in Connection /\ apart \subseteq Settings
      /\ UNCHANGED <<journal_mode_, busy_handler, lists, collatingFunctions>> /\ limits' = value
  BY DEF SetLimit, SettingsInv, Core
<1>2. /\ Remembered' = Remembered /\ Named' = Named
      /\ Registered' = Registered /\ FunctionsCount' = FunctionsCount
      /\ UNCHANGED <<scalarFunctions, aggregateFunctions, collatingFunctions>>
  BY <1>1, ListsStay
<1>3. Memory'
  <2>1. Distinct'
    BY <1>1, ListsStay
  <2>2. synchronous_' \in SyncLevels \cup {Unset}
    BY <1>1 DEF SetLimit, OpeningThrows, Memory
  <2> QED
    BY <1>1, <1>2, <2>1, <2>2 DEF Memory
<1>4. CASE ~Opened
  <2>1. UNCHANGED db /\ apart' \subseteq Settings
    BY <1>1, <1>4 DEF SetLimit, OpeningThrows, OnConnection
  <2> QED
    BY <1>1, <1>3, <1>4, <2>1, ClosedSetter
<1>5. CASE Opened
  <2>1. Restored
    BY <1>5 DEF SettingsInv
  <2>2. /\ db' = [db EXCEPT !.limit = sqlite3_limit(db.limit, value)]
        /\ apart' = IF value < 0 THEN apart \cup {"limit"} ELSE apart \ {"limit"}
        /\ UNCHANGED synchronous_
    BY <1>5 DEF SetLimit, OpeningThrows, OnConnection
  <2>3. sqlite3_limit(db.limit, value) \in 0..HardLimit
    BY <1>1, SettingsConstants DEF Connection, sqlite3_limit
  <2>4. db' \in Connection /\ Live(db)'
    BY <1>1, <1>2, <2>2, <2>3 DEF Connection, Live
  <2>5. "limit" \in apart' \/ db'.limit = sqlite3_limit(HardLimit, value)
    BY <1>1, <2>2, SettingsConstants DEF Connection, sqlite3_limit
  <2>6. Restored'
    BY <1>1, <1>2, <2>1, <2>2, <2>5 DEF Restored, Connection
  <2> QED
    BY <1>1, <1>3, <1>5, <2>2, <2>4, <2>6, AllSettings, SetterKeeps DEF Core
<1> QED
  BY <1>4, <1>5

LEMMA SetBusyHandlerStep ==
    ASSUME SettingsInv, NEW handler \in {None, "handler"}, SetBusyHandler(handler)
    PROVE  SettingsInv'
<1>1. /\ UNCHANGED connection /\ Memory /\ Live(db) /\ db \in Connection /\ apart \subseteq Settings
      /\ UNCHANGED <<synchronous_, journal_mode_, limits, lists, collatingFunctions>>
      /\ busy_handler' = handler /\ apart' = apart \ {"busy"}
  BY DEF SetBusyHandler, SettingsInv, Core, levels
<1>2. /\ Remembered' = Remembered /\ Named' = Named
      /\ Registered' = Registered /\ FunctionsCount' = FunctionsCount
      /\ UNCHANGED <<scalarFunctions, aggregateFunctions, collatingFunctions>>
  BY <1>1, ListsStay
<1>3. Memory'
  <2>1. Distinct'
    BY <1>1, ListsStay
  <2> QED
    BY <1>1, <1>2, <2>1 DEF Memory
<1>4. CASE ~Opened
  <2>1. UNCHANGED db
    BY <1>4 DEF SetBusyHandler, OnConnection
  <2> QED
    BY <1>1, <1>3, <1>4, <2>1, ClosedSetter
<1>5. CASE Opened
  <2>1. Restored
    BY <1>5 DEF SettingsInv
  <2>2. db' = [db EXCEPT !.busy = IF handler = None THEN None ELSE "callback"]
    BY <1>5, Zenon DEF SetBusyHandler, OnConnection
  <2>3. db' \in Connection /\ Live(db)'
    BY <1>1, <1>2, <2>2 DEF Connection, Live, None
  <2>4. Restored'
    BY <1>1, <1>2, <2>1, <2>2 DEF Restored, Connection
  <2> QED
    BY <1>1, <1>3, <1>5, <2>3, <2>4, SetterKeeps DEF Core
<1> QED
  BY <1>4, <1>5

LEMMA busy_timeoutStep ==
    ASSUME SettingsInv, busy_timeout
    PROVE  SettingsInv'
<1>1. /\ UNCHANGED connection /\ Memory /\ Live(db) /\ db \in Connection /\ apart \subseteq Settings
      /\ UNCHANGED <<journal_mode_, limits, busy_handler, lists, collatingFunctions>>
  BY DEF busy_timeout, SettingsInv, Core
<1>2. /\ Remembered' = Remembered /\ Named' = Named
      /\ Registered' = Registered /\ FunctionsCount' = FunctionsCount
      /\ UNCHANGED <<scalarFunctions, aggregateFunctions, collatingFunctions>>
  BY <1>1, ListsStay
<1>3. Memory'
  <2>1. Distinct'
    BY <1>1, ListsStay
  <2>2. synchronous_' \in SyncLevels \cup {Unset}
    BY <1>1 DEF busy_timeout, OpeningThrows, Memory
  <2> QED
    BY <1>1, <1>2, <2>1, <2>2 DEF Memory
<1>4. CASE ~Opened
  <2>1. UNCHANGED db /\ apart' \subseteq Settings
    BY <1>1, <1>4 DEF busy_timeout, OpeningThrows, OnConnection
  <2> QED
    BY <1>1, <1>3, <1>4, <2>1, ClosedSetter
<1>5. CASE Opened
  <2>1. Restored
    BY <1>5 DEF SettingsInv
  <2>2. db' = [db EXCEPT !.busy = "timeout"] /\ apart' = apart \cup {"busy"} /\ UNCHANGED synchronous_
    BY <1>5 DEF busy_timeout, OpeningThrows, OnConnection
  <2>3. db' \in Connection /\ Live(db)'
    BY <1>1, <1>2, <2>2 DEF Connection, Live
  <2>4. Restored'
    BY <1>1, <1>2, <2>1, <2>2 DEF Restored, Connection
  <2> QED
    BY <1>1, <1>3, <1>5, <2>2, <2>3, <2>4, AllSettings, SetterKeeps DEF Core
<1> QED
  BY <1>4, <1>5

(* delete_collation and create_collation *)
LEMMA collationStep ==
    ASSUME SettingsInv, NEW name \in Collations,
           \/ delete_collation(name)
           \/ \E function \in Comparators : create_collation(name, function)
    PROVE  SettingsInv'
<1>1. /\ UNCHANGED connection /\ Memory /\ Live(db) /\ db \in Connection /\ apart \subseteq Settings
      /\ UNCHANGED <<synchronous_, journal_mode_, limits, busy_handler, scalarFunctions, aggregateFunctions>>
  BY DEF create_collation, delete_collation, SettingsInv, Core, levels, lists
<1>2. PICK function \in Comparators \cup {None} :
        /\ collatingFunctions' = [collatingFunctions EXCEPT ![name] = function]
        /\ IF function = None THEN delete_collation(name) ELSE create_collation(name, function)
  BY SettingsConstants DEF create_collation, delete_collation
<1>3. Named' = IF function = None THEN Named \ {name} ELSE Named \cup {name}
  BY <1>1, <1>2 DEF Named, Memory
<1>4. Remembered' = Remembered /\ Registered' = Registered /\ FunctionsCount' = FunctionsCount
  BY <1>1 DEF Remembered, Registered, FunctionsCount
<1>5. Memory'
  <2>1. Distinct'
    BY <1>1, <1>4 DEF Memory, Distinct
  <2> QED
    BY <1>1, <1>2, <2>1 DEF Memory
<1>6. CASE ~Opened
  <2>1. db = NewConnection /\ UNCHANGED apart
    BY <1>2, <1>6 DEF SettingsInv, create_collation, delete_collation
  <2>2. [db EXCEPT !.collations = @ \ {name}] = db
    BY <2>1 DEF NewConnection
  <2>3. UNCHANGED db
    BY <1>2, <1>6, <2>2 DEF create_collation, delete_collation
  <2> QED
    BY <1>1, <1>5, <1>6, <2>1, <2>3, ClosedSetter
<1>7. CASE Opened
  <2>1. Restored
    BY <1>7 DEF SettingsInv
  <2>2. CASE db' = db
    <3>1. \/ apart' = apart /\ name \in db.collations /\ function # None
          \/ apart' = apart \cup {"collations"} /\ function # None
          \/ apart' = apart /\ [db EXCEPT !.collations = @ \ {name}] = db /\ function = None
          \/ apart' = apart /\ [db EXCEPT !.collations = @ \cup {name}] = db /\ function # None
      BY <1>2, <1>7, <2>2 DEF create_collation, delete_collation
    <3>2. \/ apart' = apart /\ name \in db.collations /\ function # None
          \/ apart' = apart \cup {"collations"} /\ function # None
          \/ apart' = apart /\ name \notin db.collations /\ function = None
      BY <1>1, <3>1 DEF Connection
    <3>3. Live(db)' /\ Restored'
      BY <1>1, <1>3, <1>4, <2>1, <2>2, <3>2, Zenon DEF Live, Restored
    <3> QED
      BY <1>1, <1>5, <1>7, <2>2, <3>2, <3>3, AllSettings, SetterKeeps DEF Core
  <2>3. CASE db' = [db EXCEPT !.collations = IF function = None THEN @ \ {name} ELSE @ \cup {name}] /\ apart' = apart
    <3>1. db' \in Connection /\ Live(db)'
      BY <1>1, <1>3, <1>4, <2>3 DEF Connection, Live
    <3>2. Restored'
      BY <1>1, <1>3, <1>4, <2>1, <2>3 DEF Restored, Connection
    <3> QED
      BY <1>1, <1>5, <1>7, <2>3, <3>1, <3>2, SetterKeeps DEF Core
  <2> QED
    BY <1>2, <1>7, <2>2, <2>3 DEF create_collation, delete_collation
<1> QED
  BY <1>6, <1>7
-----------------------------------------------------------------------------
(* create_scalar_function, create_aggregate_function and delete_function *)

(* The elements of the two lists in the order of their registration. *)
LEMMA RegisteredElements ==
    ASSUME Memory
    PROVE  /\ Len(scalarFunctions) \in Nat /\ Len(aggregateFunctions) \in Nat
           /\ \A j \in 1..Len(scalarFunctions) :
                j \in 1..FunctionsCount /\ Registered[j] = scalarFunctions[j]
           /\ \A j \in 1..Len(aggregateFunctions) :
                /\ Len(scalarFunctions) + j \in 1..FunctionsCount
                /\ Registered[Len(scalarFunctions) + j] = aggregateFunctions[j]
<1>1. Len(scalarFunctions) \in Nat /\ Len(aggregateFunctions) \in Nat
  BY LenProperties DEF Memory
<1>2. \A j \in 1..Len(scalarFunctions) + Len(aggregateFunctions) :
        Registered[j] = IF j <= Len(scalarFunctions) THEN scalarFunctions[j]
                        ELSE aggregateFunctions[j - Len(scalarFunctions)]
  BY ConcatProperties DEF Memory, Registered
<1>3. ASSUME NEW j \in 1..Len(aggregateFunctions)
      PROVE  /\ Len(scalarFunctions) + j \in 1..FunctionsCount
             /\ Registered[Len(scalarFunctions) + j] = aggregateFunctions[j]
  <2>1. /\ Len(scalarFunctions) + j \in 1..Len(scalarFunctions) + Len(aggregateFunctions)
        /\ ~(Len(scalarFunctions) + j <= Len(scalarFunctions))
        /\ (Len(scalarFunctions) + j) - Len(scalarFunctions) = j
    BY <1>1
  <2> QED
    BY <1>2, <2>1 DEF FunctionsCount
<1> QED
  BY <1>1, <1>2, <1>3 DEF FunctionsCount

(* There is an address that no registered function has. *)
LEMMA FreshAddress ==
    ASSUME Memory, FunctionsCount < MaxProxies
    PROVE  LET id == Min(ProxyIds \ {q.id : q \in Remembered})
           IN  id \in ProxyIds /\ \A j \in 1..FunctionsCount : Registered[j].id # id
<1> DEFINE ids == {q.id : q \in Remembered}
           address == [j \in 1..FunctionsCount |-> Registered[j].id]
<1>1. /\ FunctionsCount \in Nat /\ MaxProxies \in Nat
      /\ Remembered = {Registered[j] : j \in 1..FunctionsCount}
  <2>1. Registered \in Seq(Proxies) /\ Len(Registered) = FunctionsCount /\ Range(Registered) = Remembered
    BY RegisteredType
  <2>2. Range(Registered) = {Registered[j] : j \in 1..Len(Registered)}
    BY <2>1, RangeEquality
  <2> QED
    BY <2>1, <2>2, RegisteredType, SettingsConstants
<1>2. ids = {address[j] : j \in 1..FunctionsCount}
  BY <1>1
<1>3. ProxyIds \ ids # {}
  <2> SUFFICES ASSUME ProxyIds \subseteq ids PROVE FALSE
    OBVIOUS
  <2>1. address \in Surjection(1..FunctionsCount, ids)
    BY <1>2, Zenon DEF Surjection
  <2>2. IsFiniteSet(1..FunctionsCount) /\ Cardinality(1..FunctionsCount) = FunctionsCount
    BY <1>1, FS_Interval
  <2>3. IsFiniteSet(ids) /\ Cardinality(ids) <= FunctionsCount
    BY <2>1, <2>2, FS_Surjection
  <2>4. IsFiniteSet(ProxyIds) /\ Cardinality(ProxyIds) = MaxProxies
    BY <1>1, FS_Interval DEF ProxyIds
  <2>5. Cardinality(ProxyIds) <= Cardinality(ids)
    BY <2>3, FS_Subset
  <2>6. Cardinality(ids) \in Nat
    BY <2>3, FS_CardinalityType
  <2> QED
    BY <1>1, <2>3, <2>4, <2>5, <2>6
<1>4. Min(ProxyIds \ ids) \in ProxyIds \ ids
  <2>1. ProxyIds \ ids \in SUBSET Nat
    BY DEF ProxyIds
  <2> QED
    BY <1>3, <2>1, MinIsSmallest
<1>5. \A j \in 1..FunctionsCount : Registered[j].id \in ids
  BY <1>1
<1> QED
  BY <1>4, <1>5, Zenon

(* A new function is registered behind those of its kind. *)
Place(kind) == IF kind = "scalar" THEN Len(scalarFunctions) + 1 ELSE FunctionsCount + 1

LEMMA AppendInserts ==
    ASSUME Memory, NEW kind \in {"scalar", "aggregate"}, NEW p \in Proxies, AppendTo(kind, p)
    PROVE  /\ scalarFunctions' \in Seq(Proxies) /\ aggregateFunctions' \in Seq(Proxies)
           /\ Registered' \in Seq(Proxies) /\ Len(Registered') = FunctionsCount + 1
           /\ FunctionsCount' = FunctionsCount + 1
           /\ Place(kind) \in 1..FunctionsCount + 1
           /\ \A j \in 1..FunctionsCount + 1 :
                Registered'[j] = IF j < Place(kind) THEN Registered[j]
                                 ELSE IF j = Place(kind) THEN p ELSE Registered[j - 1]
<1> DEFINE s == scalarFunctions
           a == aggregateFunctions
<1>1. /\ s \in Seq(Proxies) /\ a \in Seq(Proxies) /\ Len(s) \in Nat /\ Len(a) \in Nat
      /\ FunctionsCount = Len(s) + Len(a)
      /\ \A j \in 1..Len(s) : Registered[j] = s[j]
      /\ \A j \in 1..Len(a) : Registered[Len(s) + j] = a[j]
  BY RegisteredElements DEF Memory, FunctionsCount
<1>2. Len(s) \in Nat /\ Len(a) \in Nat /\ FunctionsCount = Len(s) + Len(a)
  BY <1>1, Zenon
<1>3. CASE kind = "scalar"
  <2> DEFINE t == Append(s, p)
  <2>1. /\ t \in Seq(Proxies) /\ Len(t) = Len(s) + 1
        /\ \A j \in 1..Len(s) : t[j] = s[j]
        /\ t[Len(s) + 1] = p
    <3>1. s \in Seq(Proxies)
      BY <1>1, Zenon
    <3> QED
      BY <3>1, AppendProperties
  <2>2. s' = t /\ a' = a
    BY <1>3 DEF AppendTo
  <2>3. /\ t \o a \in Seq(Proxies) /\ Len(t \o a) = Len(t) + Len(a)
        /\ \A j \in 1..Len(t) + Len(a) : (t \o a)[j] = IF j <= Len(t) THEN t[j] ELSE a[j - Len(t)]
    BY <1>1, <2>1, ConcatProperties
  <2>4. Registered' = t \o a /\ FunctionsCount' = Len(t) + Len(a)
    BY <2>2 DEF Registered, FunctionsCount
  <2> HIDE DEF t
  <2>5. Place(kind) = Len(s) + 1
    BY <1>3 DEF Place
  <2>6. ASSUME NEW j \in 1..FunctionsCount + 1
        PROVE  Registered'[j] = IF j < Place(kind) THEN Registered[j]
                                ELSE IF j = Place(kind) THEN p ELSE Registered[j - 1]
    <3>1. (t \o a)[j] = IF j <= Len(s) + 1 THEN t[j] ELSE a[j - (Len(s) + 1)]
      <4>1. Len(t) = Len(s) + 1
        BY <2>1, Zenon
      <4>2. j \in 1..Len(t) + Len(a)
        BY <1>2, <4>1
      <4> QED
        BY <2>3, <4>1, <4>2, Zenon
    <3>2. CASE j < Len(s) + 1
      <4>1. j \in 1..Len(s) /\ j <= Len(s) + 1
        BY <1>2, <3>2
      <4>2. Registered'[j] = t[j] /\ t[j] = s[j] /\ Registered[j] = s[j]
        BY <1>1, <2>1, <2>4, <3>1, <4>1, Zenon
      <4> QED
        BY <2>5, <3>2, <4>2
    <3>3. CASE j = Len(s) + 1
      <4>1. j <= Len(s) + 1 /\ ~(j < Place(kind)) /\ j = Place(kind)
        BY <1>2, <2>5, <3>3
      <4>2. Registered'[j] = t[j]
        BY <2>4, <3>1, <4>1, Zenon
      <4> QED
        BY <2>1, <3>3, <4>1, <4>2, Zenon
    <3>4. CASE j > Len(s) + 1
      <4>1. j - (Len(s) + 1) \in 1..Len(a) /\ Len(s) + (j - (Len(s) + 1)) = j - 1
        BY <1>2, <3>4
      <4> QED
        <5>1. ~(j <= Len(s) + 1) /\ ~(j < Place(kind)) /\ j # Place(kind)
          BY <1>2, <2>5, <3>4
        <5>2. Registered'[j] = a[j - (Len(s) + 1)]
          BY <2>4, <3>1, <5>1, Zenon
        <5>3. Registered[Len(s) + (j - (Len(s) + 1))] = a[j - (Len(s) + 1)]
          BY <1>1, <4>1, Zenon
        <5> QED
          BY <4>1, <5>1, <5>2, <5>3, Zenon
    <3>5. j < Len(s) + 1 \/ j = Len(s) + 1 \/ j > Len(s) + 1
      BY <1>2
    <3> QED
      BY <3>2, <3>3, <3>4, <3>5, Zenon
  <2>7. Len(t) + Len(a) = FunctionsCount + 1 /\ Place(kind) \in 1..FunctionsCount + 1
    <3>1. Len(t) = Len(s) + 1
      BY <2>1, Zenon
    <3> QED
      BY <1>2, <2>5, <3>1
  <2> QED
    BY <1>1, <2>1, <2>2, <2>3, <2>4, <2>6, <2>7, Zenon
<1>4. CASE kind = "aggregate"
  <2> DEFINE t == Append(a, p)
  <2>1. /\ t \in Seq(Proxies) /\ Len(t) = Len(a) + 1
        /\ \A j \in 1..Len(a) : t[j] = a[j]
        /\ t[Len(a) + 1] = p
    <3>1. a \in Seq(Proxies)
      BY <1>1, Zenon
    <3> QED
      BY <3>1, AppendProperties
  <2>2. s' = s /\ a' = t
    BY <1>4 DEF AppendTo
  <2>3. /\ s \o t \in Seq(Proxies) /\ Len(s \o t) = Len(s) + Len(t)
        /\ \A j \in 1..Len(s) + Len(t) : (s \o t)[j] = IF j <= Len(s) THEN s[j] ELSE t[j - Len(s)]
    BY <1>1, <2>1, ConcatProperties
  <2>4. Registered' = s \o t /\ FunctionsCount' = Len(s) + Len(t)
    BY <2>2 DEF Registered, FunctionsCount
  <2> HIDE DEF t
  <2>5. Place(kind) = FunctionsCount + 1
    BY <1>4 DEF Place
  <2>6. ASSUME NEW j \in 1..FunctionsCount + 1
        PROVE  Registered'[j] = IF j < Place(kind) THEN Registered[j]
                                ELSE IF j = Place(kind) THEN p ELSE Registered[j - 1]
    <3>1. (s \o t)[j] = IF j <= Len(s) THEN s[j] ELSE t[j - Len(s)]
      <4>1. Len(t) = Len(a) + 1
        BY <2>1, Zenon
      <4>2. j \in 1..Len(s) + Len(t)
        BY <1>2, <4>1
      <4> QED
        BY <2>3, <4>2, Zenon
    <3>2. CASE j <= Len(s)
      <4>1. j \in 1..Len(s) /\ j < Place(kind)
        BY <1>2, <2>5, <3>2
      <4>2. Registered'[j] = s[j] /\ Registered[j] = s[j]
        BY <1>1, <2>4, <3>1, <3>2, <4>1, Zenon
      <4> QED
        BY <4>1, <4>2, Zenon
    <3>3. CASE j > Len(s) /\ j <= FunctionsCount
      <4>1. j - Len(s) \in 1..Len(a) /\ Len(s) + (j - Len(s)) = j
        BY <1>2, <3>3
      <4>2. Registered'[j] = t[j - Len(s)]
        BY <1>1, <2>4, <3>1, <3>3
      <4>3. t[j - Len(s)] = a[j - Len(s)] /\ Registered[j] = a[j - Len(s)]
        BY <1>1, <2>1, <4>1, Zenon
      <4>4. j < Place(kind)
        BY <1>2, <2>5, <3>3
      <4> QED
        BY <4>2, <4>3, <4>4
    <3>4. CASE j = FunctionsCount + 1
      <4>1. j - Len(s) = Len(a) + 1 /\ ~(j <= Len(s))
        BY <1>2, <3>4
      <4> QED
        <5>1. Registered'[j] = t[Len(a) + 1]
          BY <2>4, <3>1, <4>1, Zenon
        <5>2. j = Place(kind) /\ ~(j < Place(kind))
          BY <1>2, <2>5, <3>4
        <5> QED
          BY <2>1, <5>1, <5>2, Zenon
    <3>5. j <= Len(s) \/ (j > Len(s) /\ j <= FunctionsCount) \/ j = FunctionsCount + 1
      BY <1>2
    <3> QED
      BY <3>2, <3>3, <3>4, <3>5, Zenon
  <2>7. Len(s) + Len(t) = FunctionsCount + 1 /\ Place(kind) \in 1..FunctionsCount + 1
    <3>1. Len(t) = Len(a) + 1
      BY <2>1, Zenon
    <3> QED
      BY <1>2, <2>5, <3>1
  <2> QED
    BY <1>1, <2>1, <2>2, <2>3, <2>4, <2>6, <2>7, Zenon
<1> QED
  BY <1>3, <1>4

LEMMA create_functionStep ==
    ASSUME SettingsInv, NEW f \in Udfs, create_function(f)
    PROVE  SettingsInv'
<1> DEFINE p == [id |-> Min(ProxyIds \ {q.id : q \in Remembered}), fn |-> f]
           i == Place(f.kind)
<1>1. /\ UNCHANGED connection /\ Memory /\ Live(db) /\ db \in Connection /\ apart \subseteq Settings
      /\ UNCHANGED <<synchronous_, journal_mode_, limits, busy_handler, collatingFunctions>>
  BY DEF create_function, SettingsInv, Core, levels
<1>2. FunctionsCount < MaxProxies /\ AppendTo(f.kind, p)
  BY DEF create_function
<1>3. /\ p.id \in ProxyIds /\ p \in Proxies /\ f.kind \in {"scalar", "aggregate"}
      /\ \A j \in 1..FunctionsCount : Registered[j].id # p.id
  <2>1. f.kind \in {"scalar", "aggregate"}
    BY SettingsConstants
  <2> QED
    BY <1>1, <1>2, <2>1, FreshAddress DEF Proxies
<1>4. Slot(p) \in Slots
  BY DEF Slot, Slots
<1> HIDE DEF p
<1>5. /\ scalarFunctions' \in Seq(Proxies) /\ aggregateFunctions' \in Seq(Proxies)
      /\ Registered' \in Seq(Proxies) /\ Len(Registered') = FunctionsCount + 1
      /\ FunctionsCount' = FunctionsCount + 1
      /\ i \in 1..FunctionsCount + 1
      /\ \A j \in 1..FunctionsCount + 1 :
            Registered'[j] = IF j < i THEN Registered[j] ELSE IF j = i THEN p ELSE Registered[j - 1]
  BY <1>1, <1>2, <1>3, AppendInserts, Zenon
<1>6. Registered \in Seq(Proxies) /\ Len(Registered) = FunctionsCount /\ FunctionsCount \in Nat
  BY <1>1, RegisteredType
<1>7. Remembered \subseteq Remembered' /\ p \in Remembered'
  <2>1. Remembered = {Registered[j] : j \in 1..FunctionsCount}
    BY <1>1, <1>6, RegisteredType, RangeEquality
  <2>2. Remembered' = {Registered'[j] : j \in 1..FunctionsCount + 1}
    <3>1. Range(Registered') = Remembered'
      BY <1>5, RangesOfFunctions, Zenon
    <3> QED
      BY <1>5, <3>1, RangeEquality
  <2>3. Registered'[i] = p
    <3>1. ~(i < i)
      BY <1>5
    <3> QED
      BY <1>5, <3>1, Zenon
  <2>4. ASSUME NEW j \in 1..FunctionsCount
        PROVE  \E k \in 1..FunctionsCount + 1 : Registered'[k] = Registered[j]
    <3>1. CASE j < i
      <4>1. j \in 1..FunctionsCount + 1
        BY <1>6
      <4> QED
        BY <1>5, <3>1, <4>1, Zenon
    <3>2. CASE ~(j < i)
      <4>1. /\ j + 1 \in 1..FunctionsCount + 1 /\ (j + 1) - 1 = j
            /\ ~(j + 1 < i) /\ j + 1 # i
        <5>1. i \in 1..FunctionsCount + 1 /\ FunctionsCount \in Nat
          BY <1>5, <1>6, Zenon
        <5> QED
          BY <3>2, <5>1
      <4> QED
        BY <1>5, <4>1, Zenon
    <3> QED
      BY <3>1, <3>2
  <2> QED
    BY <1>5, <2>1, <2>2, <2>3, <2>4
<1>8. Memory'
  <2>1. ASSUME NEW j \in 1..FunctionsCount + 1, NEW k \in 1..FunctionsCount + 1,
               Registered'[j].id = Registered'[k].id
        PROVE  j = k
    <3>1. ASSUME NEW m \in 1..FunctionsCount + 1
          PROVE  \/ m < i /\ m \in 1..FunctionsCount /\ Registered'[m] = Registered[m]
                 \/ m = i /\ Registered'[m] = p
                 \/ m > i /\ m - 1 \in 1..FunctionsCount /\ Registered'[m] = Registered[m - 1]
      <4>1. /\ Registered'[m] = IF m < i THEN Registered[m] ELSE IF m = i THEN p ELSE Registered[m - 1]
            /\ i \in 1..FunctionsCount + 1 /\ FunctionsCount \in Nat
        BY <1>5, <1>6, Zenon
      <4>2. CASE m < i
        <5>1. m \in 1..FunctionsCount
          BY <4>1, <4>2
        <5> QED
          BY <4>1, <4>2, <5>1, Zenon
      <4>3. CASE m = i
        <5>1. ~(i < i)
          BY <4>1
        <5> QED
          BY <4>1, <4>3, <5>1, Zenon
      <4>4. CASE m > i
        <5>1. m - 1 \in 1..FunctionsCount /\ ~(m < i) /\ m # i
          BY <4>1, <4>4
        <5> QED
          BY <4>1, <4>4, <5>1
      <4>5. m < i \/ m = i \/ m > i
        BY <4>1
      <4> QED
        BY <4>2, <4>3, <4>4, <4>5, Zenon
    <3>2. \A m, n \in 1..FunctionsCount : Registered[m].id = Registered[n].id => m = n
      BY <1>1 DEF Memory, Distinct
    <3>3. Registered'[i] = p /\ i \in 1..FunctionsCount + 1
      <4>1. i \in 1..FunctionsCount + 1 /\ ~(i < i) /\ ~(i > i)
        <5>1. i \in 1..FunctionsCount + 1
          BY <1>5, Zenon
        <5> HIDE DEF i
        <5> QED
          BY <5>1
      <4> QED
        BY <3>1, <4>1, Zenon
    <3>4. \A m \in 1..FunctionsCount + 1 : m # i => Registered'[m].id # p.id
      BY <1>3, <3>1, Zenon
    <3>5. CASE j = i \/ k = i
      BY <2>1, <3>3, <3>4, <3>5, Zenon
    <3>6. CASE j # i /\ k # i
      <4>1. PICK m \in 1..FunctionsCount : /\ Registered'[j] = Registered[m]
                                           /\ (j < i /\ m = j) \/ (j > i /\ m = j - 1)
        BY <3>1, <3>6, Zenon
      <4>2. PICK n \in 1..FunctionsCount : /\ Registered'[k] = Registered[n]
                                           /\ (k < i /\ n = k) \/ (k > i /\ n = k - 1)
        BY <3>1, <3>6, Zenon
      <4>3. m = n
        BY <2>1, <3>2, <4>1, <4>2, Zenon
      <4>4. /\ (j < i /\ m = j) \/ (j > i /\ m = j - 1)
            /\ (k < i /\ m = k) \/ (k > i /\ m = k - 1)
        BY <4>1, <4>2, <4>3, Zenon
      <4>5. FunctionsCount \in Nat /\ i \in 1..FunctionsCount + 1
        BY <1>6, <3>3, Zenon
      <4> HIDE DEF i
      <4> QED
        BY <2>1, <4>4, <4>5
    <3> QED
      BY <3>5, <3>6
  <2>2. Distinct'
    BY <1>5, <2>1 DEF Distinct
  <2> QED
    BY <1>1, <1>5, <2>2 DEF Memory
<1>9. CASE ~Opened
  BY <1>1, <1>8, <1>9, ClosedSetter DEF create_function
<1>10. CASE Opened
  <2>1. Restored
    BY <1>10 DEF SettingsInv
  <2>2. Named' = Named
    BY <1>1 DEF Named
  <2>3. CASE apart' = apart \cup {"functions"} /\ UNCHANGED db
    <3>1. Live(db)' /\ Restored'
      BY <1>1, <1>7, <2>1, <2>2, <2>3 DEF Live, Restored
    <3> QED
      BY <1>1, <1>8, <1>10, <2>3, <3>1, AllSettings, SetterKeeps DEF Core
  <2>4. CASE /\ db' = [db EXCEPT !.functions[Slot(p)] = p]
             /\ apart' = IF f.kind = "scalar" /\ \E q \in Range(aggregateFunctions) : Slot(q) = Slot(p)
                         THEN apart \cup {"functions"} ELSE apart
    <3>1. db' \in Connection
      BY <1>1, <1>3, <1>4, <2>4 DEF Connection
    <3>2. Live(db)'
      BY <1>1, <1>4, <1>7, <2>2, <2>4 DEF Live, Connection
    <3>3. ASSUME "functions" \notin apart'
          PROVE  db'.functions = FunctionsOf(Registered', FunctionsCount')
      <4>1. db.functions = FunctionsOf(Registered, FunctionsCount)
        BY <2>1, <2>4, <3>3 DEF Restored
      <4>2. ASSUME NEW j \in i..FunctionsCount
            PROVE  Slot(Registered[j]) # Slot(p)
        <5>1. f.kind = "scalar" /\ i = Len(scalarFunctions) + 1
          BY <1>6, <4>2 DEF Place
        <5>2. PICK k \in 1..Len(aggregateFunctions) : j = Len(scalarFunctions) + k
          <6>1. Len(scalarFunctions) \in Nat /\ Len(aggregateFunctions) \in Nat
            BY <1>1, RegisteredElements
          <6>2. j \in Len(scalarFunctions) + 1..Len(scalarFunctions) + Len(aggregateFunctions)
            BY <4>2, <5>1 DEF FunctionsCount
          <6>3. j - Len(scalarFunctions) \in 1..Len(aggregateFunctions)
            BY <6>1, <6>2
          <6> QED
            BY <6>1, <6>2, <6>3
        <5>3. Registered[j] = aggregateFunctions[k]
          BY <1>1, <5>2, RegisteredElements
        <5>4. aggregateFunctions[k] \in Range(aggregateFunctions)
          BY <1>1, LenProperties DEF Memory, Range
        <5> QED
          BY <2>4, <3>3, <5>1, <5>3, <5>4
      <4>3. FunctionsOf(Registered', FunctionsCount') = [FunctionsOf(Registered, FunctionsCount) EXCEPT ![Slot(p)] = p]
        <5> HIDE DEF i
        <5>1. Inserted(Registered, Registered', i, p)
          BY <1>3, <1>4, <1>5, <1>6, <4>2 DEF Inserted
        <5>2. FunctionsOf(Registered', Len(Registered'))
                = [FunctionsOf(Registered, Len(Registered)) EXCEPT ![Slot(p)] = p]
          BY <5>1, InsertedIsInForce, Zenon
        <5> QED
          BY <1>5, <1>6, <5>2, Zenon
      <4> QED
        BY <1>1, <2>4, <4>1, <4>3 DEF Connection
    <3>4. Restored'
      BY <1>1, <2>1, <2>2, <2>4, <3>3 DEF Restored, Connection
    <3> QED
      BY <1>1, <1>8, <1>10, <2>4, <3>1, <3>2, <3>4, AllSettings, SetterKeeps DEF Core
  <2> QED
    BY <1>10, <2>3, <2>4, Zenon DEF create_function, p
<1> QED
  BY <1>9, <1>10

(* The place of the i-th function of a kind among all the functions. *)
PlaceOf(kind, i) == IF kind = "scalar" THEN i ELSE Len(scalarFunctions) + i

LEMMA EraseRemoves ==
    ASSUME Memory, NEW kind \in {"scalar", "aggregate"}, NEW i \in 1..Len(FunctionsOfKind(kind)),
           EraseFrom(kind, i)
    PROVE  /\ scalarFunctions' \in Seq(Proxies) /\ aggregateFunctions' \in Seq(Proxies)
           /\ Registered' \in Seq(Proxies) /\ Len(Registered') = FunctionsCount - 1
           /\ FunctionsCount' = FunctionsCount - 1
           /\ PlaceOf(kind, i) \in 1..FunctionsCount
           /\ Registered[PlaceOf(kind, i)] = FunctionsOfKind(kind)[i]
           /\ \A j \in 1..FunctionsCount - 1 :
                Registered'[j] = IF j < PlaceOf(kind, i) THEN Registered[j] ELSE Registered[j + 1]
<1> DEFINE s == scalarFunctions
           a == aggregateFunctions
<1>1. /\ s \in Seq(Proxies) /\ a \in Seq(Proxies) /\ Len(s) \in Nat /\ Len(a) \in Nat
      /\ FunctionsCount = Len(s) + Len(a)
      /\ \A j \in 1..Len(s) : Registered[j] = s[j]
      /\ \A j \in 1..Len(a) : Registered[Len(s) + j] = a[j]
  BY RegisteredElements, Zenon DEF Memory, FunctionsCount
<1>2. Len(s) \in Nat /\ Len(a) \in Nat /\ FunctionsCount = Len(s) + Len(a)
  BY <1>1, Zenon
<1>3. CASE kind = "scalar"
  <2> DEFINE t == Erase(s, i)
  <2>1. i \in 1..Len(s) /\ FunctionsOfKind(kind) = s /\ PlaceOf(kind, i) = i
    BY <1>3 DEF FunctionsOfKind, PlaceOf
  <2>2. /\ t \in Seq(Proxies) /\ Len(t) = Len(s) - 1
        /\ \A j \in 1..Len(s) - 1 : t[j] = IF j < i THEN s[j] ELSE s[j + 1]
    BY <1>1, <2>1, Erasing, WithoutAtProperties, Zenon
  <2>3. s' = t /\ a' = a
    BY <1>3 DEF EraseFrom
  <2>4. Registered' = t \o a /\ FunctionsCount' = Len(t) + Len(a)
    BY <2>3 DEF Registered, FunctionsCount
  <2> HIDE DEF t
  <2>5. /\ t \o a \in Seq(Proxies) /\ Len(t \o a) = Len(t) + Len(a)
        /\ \A j \in 1..Len(t) + Len(a) : (t \o a)[j] = IF j <= Len(t) THEN t[j] ELSE a[j - Len(t)]
    BY <1>1, <2>2, ConcatProperties
  <2>6. ASSUME NEW j \in 1..FunctionsCount - 1
        PROVE  Registered'[j] = IF j < i THEN Registered[j] ELSE Registered[j + 1]
    <3>1. (t \o a)[j] = IF j <= Len(s) - 1 THEN t[j] ELSE a[j - (Len(s) - 1)]
      BY <1>1, <2>2, <2>5
    <3>2. CASE j <= Len(s) - 1
      <4>1. j \in 1..Len(s) - 1 /\ j \in 1..Len(s) /\ j + 1 \in 1..Len(s)
        BY <1>2, <3>2
      <4>2. /\ Registered'[j] = t[j] /\ Registered[j] = s[j] /\ Registered[j + 1] = s[j + 1]
            /\ t[j] = IF j < i THEN s[j] ELSE s[j + 1]
        BY <1>1, <2>2, <2>4, <3>1, <3>2, <4>1, Zenon
      <4> QED
        BY <4>2
    <3>3. CASE ~(j <= Len(s) - 1)
      <4>1. j - (Len(s) - 1) \in 1..Len(a) /\ Len(s) + (j - (Len(s) - 1)) = j + 1 /\ ~(j < i)
        BY <1>2, <2>1, <3>3
      <4>2. Registered'[j] = a[j - (Len(s) - 1)]
        BY <2>4, <3>1, <3>3, Zenon
      <4> QED
        BY <1>1, <4>1, <4>2
    <3> QED
      BY <3>2, <3>3
  <2>7. i \in 1..FunctionsCount /\ Len(t) + Len(a) = FunctionsCount - 1
    <3>1. Len(t) = Len(s) - 1
      BY <2>2, Zenon
    <3> QED
      BY <1>2, <2>1, <3>1
  <2>8. /\ Registered' \in Seq(Proxies) /\ Len(Registered') = FunctionsCount - 1
        /\ FunctionsCount' = FunctionsCount - 1
    BY <2>4, <2>5, <2>7, Zenon
  <2> QED
    BY <1>1, <2>1, <2>2, <2>3, <2>6, <2>7, <2>8, Zenon
<1>4. CASE kind = "aggregate"
  <2> DEFINE t == Erase(a, i)
  <2>1. i \in 1..Len(a) /\ FunctionsOfKind(kind) = a /\ PlaceOf(kind, i) = Len(s) + i
    BY <1>4 DEF FunctionsOfKind, PlaceOf
  <2>2. /\ t \in Seq(Proxies) /\ Len(t) = Len(a) - 1
        /\ \A j \in 1..Len(a) - 1 : t[j] = IF j < i THEN a[j] ELSE a[j + 1]
    BY <1>1, <2>1, Erasing, WithoutAtProperties, Zenon
  <2>3. s' = s /\ a' = t
    BY <1>4 DEF EraseFrom
  <2>4. Registered' = s \o t /\ FunctionsCount' = Len(s) + Len(t)
    BY <2>3 DEF Registered, FunctionsCount
  <2> HIDE DEF t
  <2>5. /\ s \o t \in Seq(Proxies) /\ Len(s \o t) = Len(s) + Len(t)
        /\ \A j \in 1..Len(s) + Len(t) : (s \o t)[j] = IF j <= Len(s) THEN s[j] ELSE t[j - Len(s)]
    BY <1>1, <2>2, ConcatProperties
  <2>6. ASSUME NEW j \in 1..FunctionsCount - 1
        PROVE  Registered'[j] = IF j < Len(s) + i THEN Registered[j] ELSE Registered[j + 1]
    <3>1. (s \o t)[j] = IF j <= Len(s) THEN s[j] ELSE t[j - Len(s)]
      BY <1>1, <2>2, <2>5
    <3>2. CASE j <= Len(s)
      <4>1. j \in 1..Len(s) /\ j < Len(s) + i
        BY <1>2, <2>1, <3>2
      <4>2. Registered'[j] = s[j] /\ Registered[j] = s[j]
        BY <1>1, <2>4, <3>1, <3>2, <4>1, Zenon
      <4> QED
        BY <4>1, <4>2
    <3>3. CASE ~(j <= Len(s))
      <4>1. /\ j - Len(s) \in 1..Len(a) - 1 /\ j - Len(s) \in 1..Len(a) /\ (j - Len(s)) + 1 \in 1..Len(a)
            /\ Len(s) + (j - Len(s)) = j /\ Len(s) + ((j - Len(s)) + 1) = j + 1
            /\ j < Len(s) + i <=> j - Len(s) < i
        BY <1>2, <2>1, <3>3
      <4>2. /\ Registered'[j] = t[j - Len(s)]
            /\ t[j - Len(s)] = IF j - Len(s) < i THEN a[j - Len(s)] ELSE a[(j - Len(s)) + 1]
            /\ Registered[j] = a[j - Len(s)] /\ Registered[j + 1] = a[(j - Len(s)) + 1]
        <5>1. Registered'[j] = t[j - Len(s)]
          BY <2>4, <3>1, <3>3, Zenon
        <5>2. t[j - Len(s)] = IF j - Len(s) < i THEN a[j - Len(s)] ELSE a[(j - Len(s)) + 1]
          BY <2>2, <4>1, Zenon
        <5>3. Registered[Len(s) + (j - Len(s))] = a[j - Len(s)]
          BY <1>1, <4>1, Zenon
        <5>4. Registered[Len(s) + ((j - Len(s)) + 1)] = a[(j - Len(s)) + 1]
          BY <1>1, <4>1, Zenon
        <5> QED
          BY <4>1, <5>1, <5>2, <5>3, <5>4
      <4> QED
        BY <4>1, <4>2
    <3> QED
      BY <3>2, <3>3
  <2>7. /\ Len(s) + i \in 1..FunctionsCount /\ Len(s) + Len(t) = FunctionsCount - 1
        /\ Registered[Len(s) + i] = a[i]
    BY <1>1, <2>1, <2>2
  <2>8. /\ Registered' \in Seq(Proxies) /\ Len(Registered') = FunctionsCount - 1
        /\ FunctionsCount' = FunctionsCount - 1
    BY <2>4, <2>5, <2>7, Zenon
  <2> QED
    BY <1>1, <2>1, <2>2, <2>3, <2>6, <2>7, <2>8, Zenon
<1> QED
  BY <1>3, <1>4

LEMMA delete_functionStep ==
    ASSUME SettingsInv, NEW f \in Udfs, delete_function(f)
    PROVE  SettingsInv'
<1> DEFINE functions == FunctionsOfKind(f.kind)
           i == FindByName(functions, f.name)
           k == PlaceOf(f.kind, i)
           slot == Slot(functions[i])
           again == \E p \in Remembered \ {functions[i]} : Slot(p) = slot
<1>1. /\ UNCHANGED connection /\ Memory /\ Live(db) /\ db \in Connection /\ apart \subseteq Settings
      /\ UNCHANGED <<synchronous_, journal_mode_, limits, busy_handler, collatingFunctions>>
  BY DEF delete_function, SettingsInv, Core, levels
<1>2. /\ i # 0 /\ EraseFrom(f.kind, i)
      /\ db' = IF Opened THEN [db EXCEPT !.functions[slot] = NoProxy] ELSE db
      /\ apart' = IF Opened /\ again THEN apart \cup {"functions"} ELSE apart
  BY DEF delete_function
<1>3. f.kind \in {"scalar", "aggregate"} /\ functions \in Seq(Proxies)
  BY <1>1, SettingsConstants DEF Memory, FunctionsOfKind
<1>4. i \in 1..Len(functions)
  <2> HIDE DEF functions
  <2> DEFINE found == {j \in 1..Len(functions) : functions[j].fn.name = f.name}
  <2>1. i = IF found # {} THEN Min(found) ELSE 0
    BY DEF FindByName
  <2>2. found \in SUBSET Nat
    BY <1>3, LenProperties
  <2>3. Min(found) \in found
    <3>1. found # {}
      BY <1>2, <2>1
    <3> HIDE DEF found
    <3> QED
      BY <2>2, <3>1, MinIsSmallest
  <2> QED
    BY <1>2, <2>1, <2>3
<1> HIDE DEF i
<1>5. /\ scalarFunctions' \in Seq(Proxies) /\ aggregateFunctions' \in Seq(Proxies)
      /\ Registered' \in Seq(Proxies) /\ Len(Registered') = FunctionsCount - 1
      /\ FunctionsCount' = FunctionsCount - 1
      /\ k \in 1..FunctionsCount /\ Registered[k] = functions[i]
      /\ \A j \in 1..FunctionsCount - 1 :
            Registered'[j] = IF j < k THEN Registered[j] ELSE Registered[j + 1]
  BY <1>1, <1>2, <1>3, <1>4, EraseRemoves
<1> HIDE DEF k, functions
<1>6. /\ Registered \in Seq(Proxies) /\ Len(Registered) = FunctionsCount /\ FunctionsCount \in Nat
      /\ \A j \in 1..FunctionsCount : Registered[j] \in Proxies
  BY <1>1, RegisteredType, ElementOfSeq
<1>7. Remembered = {Registered[j] : j \in 1..FunctionsCount}
  BY <1>1, <1>6, RegisteredType, RangeEquality
<1>8. Remembered' = {Registered'[j] : j \in 1..FunctionsCount - 1}
  <2>1. Range(Registered') = Remembered'
    BY <1>5, RangesOfFunctions, Zenon
  <2> QED
    BY <1>5, <2>1, RangeEquality
<1>9. ASSUME NEW j \in 1..FunctionsCount, j # k
      PROVE  Registered[j] \in Remembered'
  <2>1. k \in 1..FunctionsCount /\ FunctionsCount \in Nat
    BY <1>5, <1>6, Zenon
  <2>2. CASE j < k
    <3>1. j \in 1..FunctionsCount - 1
      BY <2>1, <2>2
    <3> QED
      BY <1>5, <1>8, <2>2, <3>1, Zenon
  <2>3. CASE ~(j < k)
    <3>1. j - 1 \in 1..FunctionsCount - 1 /\ ~(j - 1 < k) /\ (j - 1) + 1 = j
      BY <1>9, <2>1, <2>3
    <3> QED
      BY <1>5, <1>8, <3>1, Zenon
  <2> QED
    BY <2>2, <2>3
<1>10. Memory'
  <2>1. ASSUME NEW j \in 1..FunctionsCount - 1, NEW m \in 1..FunctionsCount - 1,
               Registered'[j].id = Registered'[m].id
        PROVE  j = m
    <3>1. ASSUME NEW n \in 1..FunctionsCount - 1
          PROVE  \/ n < k /\ n \in 1..FunctionsCount /\ Registered'[n] = Registered[n]
                 \/ n >= k /\ n + 1 \in 1..FunctionsCount /\ Registered'[n] = Registered[n + 1]
      <4>1. k \in 1..FunctionsCount /\ FunctionsCount \in Nat
        BY <1>5, <1>6, Zenon
      <4>2. \/ n < k /\ n \in 1..FunctionsCount
            \/ n >= k /\ ~(n < k) /\ n + 1 \in 1..FunctionsCount
        BY <4>1
      <4> QED
        BY <1>5, <4>2, Zenon
    <3>2. \A m1, m2 \in 1..FunctionsCount : Registered[m1].id = Registered[m2].id => m1 = m2
      BY <1>1 DEF Memory, Distinct
    <3> QED
      <4>1. PICK a \in 1..FunctionsCount : /\ Registered'[j] = Registered[a]
                                           /\ (j < k /\ a = j) \/ (j >= k /\ a = j + 1)
        BY <3>1, Zenon
      <4>2. PICK b \in 1..FunctionsCount : /\ Registered'[m] = Registered[b]
                                           /\ (m < k /\ b = m) \/ (m >= k /\ b = m + 1)
        BY <3>1, Zenon
      <4>3. a = b
        BY <2>1, <3>2, <4>1, <4>2, Zenon
      <4>4. k \in 1..FunctionsCount /\ FunctionsCount \in Nat
        BY <1>5, <1>6, Zenon
      <4> QED
        BY <4>1, <4>2, <4>3, <4>4
  <2>2. Distinct'
    BY <1>5, <2>1 DEF Distinct
  <2> QED
    BY <1>1, <1>5, <2>2 DEF Memory
<1>11. CASE ~Opened
  BY <1>1, <1>2, <1>10, <1>11, ClosedSetter
<1>12. CASE Opened
  <2>1. Restored /\ Named' = Named
    BY <1>1, <1>12 DEF SettingsInv, Named
  <2>2. db' = [db EXCEPT !.functions[slot] = NoProxy]
    BY <1>2, <1>12
  <2>3. slot \in Slots
    BY <1>5, <1>6 DEF Slot, Slots, Proxies
  <2> HIDE DEF slot
  <2>4. db' \in Connection
    BY <1>1, <2>2 DEF Connection
  <2>5. Live(db)'
    <3>1. ASSUME NEW s \in Slots, db'.functions[s] # NoProxy
          PROVE  db'.functions[s] \in Remembered' /\ Slot(db'.functions[s]) = s
      <4>1. s # slot /\ db'.functions[s] = db.functions[s]
        BY <1>1, <2>2, <2>3, <3>1 DEF Connection
      <4>2. db.functions[s] \in Remembered /\ Slot(db.functions[s]) = s
        BY <1>1, <3>1, <4>1 DEF Live
      <4>3. PICK j \in 1..FunctionsCount : db.functions[s] = Registered[j]
        BY <1>7, <4>2
      <4>4. j # k
        BY <1>5, <4>1, <4>2, <4>3 DEF slot
      <4> QED
        BY <1>9, <4>1, <4>2, <4>3, <4>4
    <3>2. db'.collations = db.collations /\ db'.busy = db.busy
      BY <1>1, <2>2 DEF Connection
    <3> QED
      BY <1>1, <2>1, <3>1, <3>2 DEF Live
  <2>6. ASSUME "functions" \notin apart'
        PROVE  db'.functions = FunctionsOf(Registered', FunctionsCount')
    <3>1. db.functions = FunctionsOf(Registered, FunctionsCount) /\ ~again
      BY <1>2, <1>12, <2>1, <2>6 DEF Restored
    <3>2. ASSUME NEW j \in 1..FunctionsCount, j # k
          PROVE  Slot(Registered[j]) # slot
      <4>1. Registered[j] # Registered[k]
        BY <1>1, <1>5, <3>2, Zenon DEF Memory, Distinct
      <4> QED
        BY <1>5, <1>7, <3>1, <4>1
    <3>3. Erased(Registered, Registered', k)
      BY <1>5, <1>6, <3>2 DEF Erased, slot
    <3>4. FunctionsOf(Registered', FunctionsCount') = [FunctionsOf(Registered, FunctionsCount) EXCEPT ![slot] = NoProxy]
      <4>1. FunctionsOf(Registered', Len(Registered'))
              = [FunctionsOf(Registered, Len(Registered)) EXCEPT ![Slot(Registered[k])] = NoProxy]
        BY <3>3, ErasedIsNotInForce
      <4>2. Len(Registered') = FunctionsCount' /\ Len(Registered) = FunctionsCount /\ slot = Slot(Registered[k])
        BY <1>5, <1>6 DEF slot
      <4> QED
        BY <4>1, <4>2, Zenon
    <3> QED
      BY <1>1, <2>2, <3>1, <3>4 DEF Connection
  <2>7. Restored'
    <3>1. /\ db'.synchronous = db.synchronous /\ db'.journal_mode = db.journal_mode
          /\ db'.collations = db.collations /\ db'.limit = db.limit /\ db'.busy = db.busy
      BY <1>1, <2>2 DEF Connection
    <3>2. \A s \in Settings \ {"functions"} : s \in apart' <=> s \in apart
      BY <1>2
    <3> QED
      BY <1>1, <2>1, <2>6, <3>1, <3>2, AllSettings DEF Restored, sqlite3_limit
  <2> QED
    BY <1>1, <1>2, <1>10, <1>12, <2>4, <2>5, <2>7, AllSettings, SetterKeeps DEF Core
<1> QED
  BY <1>11, <1>12
-----------------------------------------------------------------------------
(* The invariant, and what follows from it *)

(* What a program is given does not change. *)
Chosen == uses \in Programs /\ inMemory \in BOOLEAN

LEMMA SettingsStep == SettingsInv /\ Chosen /\ [Next]_vars => (SettingsInv /\ Chosen)'
<1> SUFFICES ASSUME SettingsInv, Chosen, [Next]_vars
             PROVE  (SettingsInv /\ Chosen)'
  OBVIOUS
<1>1. Chosen'
  BY DEF Next, vars, Chosen
<1>2. CASE Connections
  BY <1>2, prepareStep, beginStep, open_foreverStep, releaseStep, StepStatementStep, CopyStorageStep,
     <1>1 DEF Connections, Chosen
<1>3. CASE Setters
  <2>1. CASE \E value \in SyncLevels : synchronous(value)
    BY <1>1, <2>1, synchronousStep
  <2>2. CASE \E value \in JournalModes : journal_mode(value)
    BY <1>1, <2>2, journal_modeStep
  <2>3. CASE \E value \in LimitValues : SetLimit(value)
    BY <1>1, <2>3, SetLimitStep
  <2>4. CASE \E handler \in {None, "handler"} : SetBusyHandler(handler)
    BY <1>1, <2>4, SetBusyHandlerStep
  <2>5. CASE busy_timeout
    BY <1>1, <2>5, busy_timeoutStep
  <2>6. CASE \E f \in Udfs : create_function(f) \/ delete_function(f)
    BY <1>1, <2>6, create_functionStep, delete_functionStep
  <2>7. CASE \E name \in Collations : \/ delete_collation(name)
                                      \/ \E function \in Comparators : create_collation(name, function)
    BY <1>1, <2>7, collationStep
  <2> QED
    BY <1>3, <2>1, <2>2, <2>3, <2>4, <2>5, <2>6, <2>7 DEF Setters
<1>4. CASE UNCHANGED vars
  <2>1. UNCHANGED <<connection, db, apart>> /\ UNCHANGED memory
    BY <1>4 DEF vars, memory
  <2>2. Core' /\ (Restored => Restored')
    BY <2>1, ConnectionStays DEF SettingsInv
  <2> QED
    BY <1>1, <2>1, <2>2, SetterKeeps DEF SettingsInv
<1> QED
  BY <1>2, <1>3, <1>4 DEF Next

LEMMA SettingsInit == Init => SettingsInv /\ Chosen
<1> SUFFICES ASSUME Init
             PROVE  SettingsInv /\ Chosen
  OBVIOUS
<1>1. NothingSet /\ Chosen
  BY DEF Init, NothingSet, Chosen
<1>2. Memory /\ db = NewConnection /\ Restored
  BY <1>1, NothingIsRestored DEF Init
<1>3. References
  <2>1. 0 \in 0..MaxStatements
    BY SettingsConstants
  <2> QED
    BY <2>1, Zenon DEF Init, References
<1>4. Core
  BY <1>2, NewIsLive DEF Init, Core
<1> QED
  BY <1>1, <1>2, <1>3, <1>4 DEF SettingsInv

LEMMA SettingsAlways == Spec => [](SettingsInv /\ Chosen)
BY SettingsInit, SettingsStep, PTL DEF Spec

(* Every setting, in force or remembered, is one the code can make of the    *)
(* arguments it is given, whatever the calls and their failures.             *)
THEOREM SettingsAreTyped == Spec => []TypeOK
<1>1. SettingsInv /\ Chosen => TypeOK
  BY DEF SettingsInv, Chosen, References, Core, Memory, Connection, TypeOK
<1> QED
  BY <1>1, SettingsAlways, PTL

(* SQLite never calls what the storage no longer has: the functions, the     *)
(* collations and the busy handler that are registered with the open         *)
(* connection are in the storage's lists, in its map and in its member, also *)
(* after a create_*, delete_function_impl or create_collation that failed,   *)
(* and after an on_open_internal that got only so far.                       *)
THEOREM CallbacksStayLive == Spec => []CallbacksAreLive
<1>1. SettingsInv /\ Chosen => CallbacksAreLive
  BY DEF SettingsInv, Core, Live, Named, CallbacksAreLive
<1> QED
  BY <1>1, SettingsAlways, PTL

(* on_open_internal gives the next connection every setting that the present *)
(* one has, unless one of the calls that ReopenRestoresSettings names has    *)
(* come between; for any program and any number of functions.                *)
THEOREM SettingsAreRestored == Spec => []ReopenRestoresSettings
<1>1. SettingsInv /\ Chosen => ReopenRestoresSettings
  BY RestoredIsReopened DEF SettingsInv, ReopenRestoresSettings
<1> QED
  BY <1>1, SettingsAlways, PTL
=============================================================================
