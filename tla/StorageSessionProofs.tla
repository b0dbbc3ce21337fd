------------------------ MODULE StorageSessionProofs ------------------------
(* StorageSession for any number of statements, views, guards and iterators. *)
EXTENDS StorageSession, FiniteSetTheorems, TLAPS

TxnType == [active : BOOLEAN, saved : 0..MaxWrites, working : 0..MaxWrites]

(* The retain count is accounted for, the connection is open exactly while   *)
(* the count is positive, and a transaction has a retain of its own.         *)
Core ==
    /\ count = Cardinality(Live) + owed + Pin
    /\ count > 0 <=> db = "open"
    /\ txn.active => owed > 0

Inv == TypeOK /\ (died = "no" => Core)
-----------------------------------------------------------------------------
(* What SQLite answers. *)

(* What a transaction record may become. *)
LEMMA TxnRecords ==
    ASSUME TypeOK
    PROVE  /\ txn \in TxnType
           /\ Committed \in TxnType /\ ~Committed.active
           /\ RolledBack \in TxnType /\ ~RolledBack.active
           /\ [txn EXCEPT !.active = TRUE] \in TxnType
           /\ [txn EXCEPT !.active = TRUE].active
BY DEF TypeOK, TxnType, Committed, RolledBack

(* A command's answer carries its result code and the transaction's state. *)
LEMMA AnswerFields ==
    ASSUME NEW rc, NEW t
    PROVE  Answer(rc, t).rc = rc /\ Answer(rc, t).txn = t
BY DEF Answer

(* BEGIN opens a transaction or changes nothing. *)
LEMMA BeginAnswers ==
    ASSUME TypeOK, NEW a \in BeginSQL
    PROVE  /\ a.txn \in TxnType
           /\ a.rc = "ok" => ~txn.active /\ a.txn.active
           /\ a.rc # "ok" => a.txn = txn
<1> DEFINE begun == [txn EXCEPT !.active = TRUE]
<1>1. a = Answer("error", txn) \/ (~txn.active /\ a = Answer("ok", begun))
  BY DEF BeginSQL, Fails
<1>2. begun \in TxnType /\ begun.active
  BY TxnRecords
<1> HIDE DEF begun
<1> QED
  BY <1>1, <1>2, TxnRecords, AnswerFields

(* COMMIT and ROLLBACK succeed only in a transaction, which is then over. *)
LEMMA EndAnswers ==
    ASSUME TypeOK, NEW a \in CommitSQL \cup RollbackSQL
    PROVE  /\ a.txn \in TxnType
           /\ a.rc = "ok" => txn.active /\ ~a.txn.active
           /\ a.txn.active => txn.active
<1>1. \/ a = Answer("error", txn)
      \/ a = Answer("error", RolledBack)
      \/ txn.active /\ a = Answer("ok", Committed)
      \/ txn.active /\ a = Answer("ok", RolledBack)
  BY DEF CommitSQL, RollbackSQL, Fails
<1> QED
  BY <1>1, TxnRecords, AnswerFields

(* A write opens no transaction. *)
LEMMA WriteAnswers ==
    ASSUME TypeOK, txn.working < MaxWrites, NEW a \in WriteSQL
    PROVE  /\ a.txn \in TxnType
           /\ a.txn.active => txn.active
<1> DEFINE w == txn.working + 1
           written == [txn EXCEPT !.working = w,
                                  !.saved = IF txn.active THEN txn.saved ELSE w]
<1>1. w \in 0..MaxWrites
  BY BoundsAssumption DEF TypeOK
<1>2. written \in TxnType /\ written.active = txn.active
  BY <1>1 DEF TypeOK, TxnType
<1>3. a = Answer("ok", written) \/ a = Answer("error", txn) \/ a = Answer("error", RolledBack)
  BY DEF WriteSQL, Fails
<1> HIDE DEF written
<1> QED
  BY <1>2, <1>3, TxnRecords, AnswerFields
-----------------------------------------------------------------------------
(* Counting objects. *)

LEMMA LiveFinite == IsFiniteSet(Live) /\ Cardinality(Live) \in Nat
BY ObjectsAssumption, FS_Subset, FS_CardinalityType DEF Live

(* An object that is created counts once. *)
LEMMA LiveGrows ==
    ASSUME TypeOK, NEW o \in Objects, obj[o] = "none",
           NEW s \in {"live", "armed", "spent"}, obj' = [obj EXCEPT ![o] = s]
    PROVE  Cardinality(Live') = Cardinality(Live) + 1
<1>1. Live' = Live \cup {o} /\ o \notin Live
  BY DEF TypeOK, Live
<1> QED
  BY <1>1, LiveFinite, FS_AddElement

(* An object that is destroyed counted once. *)
LEMMA LiveShrinks ==
    ASSUME TypeOK, NEW o \in Objects, obj[o] # "none", obj' = [obj EXCEPT ![o] = "none"]
    PROVE  /\ Cardinality(Live') = Cardinality(Live) - 1
           /\ Cardinality(Live) > 0
           /\ Cardinality(Live') \in Nat
<1>1. Live' = Live \ {o} /\ o \in Live
  BY DEF TypeOK, Live
<1>2. Cardinality(Live') = Cardinality(Live) - 1
  BY <1>1, LiveFinite, FS_RemoveElement
<1>3. Cardinality(Live') \in Nat
  BY <1>1, LiveFinite, FS_RemoveElement, FS_CardinalityType
<1> QED
  BY <1>2, <1>3, LiveFinite

(* A guard that is disarmed still holds its connection_ref. *)
LEMMA LiveKept ==
    ASSUME TypeOK, NEW g \in Guards, obj[g] # "none", Disarm(g)
    PROVE  Live' = Live /\ obj' \in [Objects -> {"none", "live", "armed", "spent"}]
BY DEF TypeOK, Live, Disarm, Objects

(* The iterators of a lost handle are still well typed. *)
LEMMA DetachedType ==
    ASSUME TypeOK
    PROVE  Detached \in [Iters -> Views \cup {"none", "detached"}]
BY DEF TypeOK, Detached, Unfinalized
-----------------------------------------------------------------------------
(* Taking and giving back the connection. *)

HandleType == {"null", "open", "closed", "stuck"}

(* n retains leave the connection open. *)
LEMMA AcquireOpens ==
    ASSUME TypeOK, NEW n \in {1, 2}, NEW ok \in BOOLEAN, Acquire(n, ok)
    PROVE  /\ count' \in Nat /\ count' = count + n /\ count' > 0
           /\ db' = "open"
           /\ configured' \in BOOLEAN
           /\ iter' \in [Iters -> Views \cup {"none", "detached"}]
<1>1. iter' \in [Iters -> Views \cup {"none", "detached"}]
  BY DetachedType DEF Acquire
<1>2. configured' \in BOOLEAN
  BY DEF Acquire, TypeOK
<1> QED
  BY <1>1, <1>2 DEF Acquire, TypeOK

(* n releases leave it open exactly while somebody else holds it. *)
LEMMA ReleaseCloses ==
    ASSUME TypeOK, Core, NEW n \in {1, 2}, count >= n, NEW stays \in HandleType,
           Release(n, stays)
    PROVE  /\ count' \in Nat /\ count' = count - n
           /\ count' > 0 => db' = "open"
           /\ count' = 0 /\ Unfinalized = {} => db' = "closed"
           /\ count' = 0 /\ Unfinalized # {} => db' = stays
           /\ db' \in HandleType
           /\ configured' \in BOOLEAN
<1>1. configured' \in BOOLEAN
  BY DEF Release, TypeOK
<1>2. db = "open"
  BY DEF Core, TypeOK
<1> QED
  BY <1>1, <1>2 DEF Release, TypeOK, HandleType

(* The last release of a destructor closes the connection or ends it all. *)
LEMMA LeaveCloses ==
    ASSUME TypeOK, Core, NEW n \in {1, 2}, count >= n,
           NEW cause \in {"no", "guard"}, Leave(n, cause)
    PROVE  /\ count' \in Nat /\ count' = count - n
           /\ died' = "no" => (count' > 0 <=> db' = "open")
           /\ db' \in HandleType
           /\ configured' \in BOOLEAN
           /\ died' \in {"no", "close", "guard"}
<1>1. Release(n, db) /\ db \in HandleType /\ db = "open"
  BY DEF Leave, TypeOK, HandleType, Core
<1>2. /\ count' \in Nat /\ count' = count - n
      /\ count' > 0 => db' = "open"
      /\ count' = 0 /\ Unfinalized = {} => db' = "closed"
      /\ count' = 0 /\ Unfinalized # {} => db' = db
      /\ db' \in HandleType
      /\ configured' \in BOOLEAN
  BY <1>1, ReleaseCloses
<1>3. died' = IF count = n /\ Unfinalized # {} THEN "close" ELSE cause
  BY DEF Leave
<1> QED
  BY <1>2, <1>3 DEF TypeOK

(* A commit or rollback, whoever asks for it. *)
LEMMA EndInv ==
    ASSUME TypeOK, Core, EndTransaction(CommitSQL) \/ EndTransaction(RollbackSQL),
           Live' = Live
    PROVE  /\ Core'
           /\ count' \in Nat /\ db' \in HandleType /\ configured' \in BOOLEAN
           /\ txn' \in TxnType /\ owed' \in 0..MaxOwed
<1>1. PICK a \in CommitSQL \cup RollbackSQL :
        /\ txn' = a.txn
        /\ IF a.rc = "ok"
           THEN owed' = owed - 1 /\ Release(1, "stuck")
           ELSE UNCHANGED <<owed, count, db, configured>>
  BY DEF EndTransaction
<1>2. /\ a.txn \in TxnType
      /\ a.rc = "ok" => txn.active /\ ~a.txn.active
      /\ a.txn.active => txn.active
  BY EndAnswers
<1>3. CASE a.rc = "ok"
  <2>1. owed > 0 /\ count >= 1 /\ owed' = owed - 1 /\ Release(1, "stuck")
    BY <1>1, <1>2, <1>3, LiveFinite DEF Core, TypeOK, Pin
  <2>2. /\ count' \in Nat /\ count' = count - 1
        /\ count' > 0 => db' = "open"
        /\ count' = 0 /\ Unfinalized = {} => db' = "closed"
        /\ count' = 0 /\ Unfinalized # {} => db' = "stuck"
        /\ db' \in HandleType
        /\ configured' \in BOOLEAN
    BY <2>1, ReleaseCloses DEF HandleType
  <2>3. count' > 0 <=> db' = "open"
    <3>1. count' = 0 => db' # "open"
      BY <2>2, Zenon
    <3>2. count' \in Nat /\ (count' > 0 => db' = "open")
      BY <2>2, Zenon
    <3> QED
      BY <3>1, <3>2
  <2>4. count' = Cardinality(Live') + owed' + Pin
    BY <2>1, <2>2, LiveFinite DEF Core, TypeOK, Pin
  <2>5. ~txn'.active
    BY <1>1, <1>2, <1>3
  <2> QED
    BY <1>1, <1>2, <2>1, <2>2, <2>3, <2>4, <2>5, BoundsAssumption DEF Core, TypeOK
<1>4. CASE a.rc # "ok"
  BY <1>1, <1>2, <1>4 DEF Core, TypeOK, HandleType, Pin
<1> QED
  BY <1>3, <1>4
-----------------------------------------------------------------------------
(* Every call keeps the account of the connection. *)

(* What may go wrong is settled, and only guards are asked. *)
LEMMA RecordsStep ==
    ASSUME TypeOK, [Next]_vars
    PROVE  allowed' = allowed /\ asked' \subseteq Guards
<1>1. allowed' = allowed
  BY DEF Next, Call, vars, GetConnectionThrows, BeginTransaction, BeginThrows,
         EndUnopened, Commit, Rollback, Write, TransactionGuard, SetCommitOnDestroy,
         GuardCommit, GuardRollback, DestroyGuard, Create, Destroy, ViewBegin, IteratorDone
<1>2. asked' \in {asked} \cup {asked \cup {g} : g \in Guards} \cup {asked \ {g} : g \in Guards}
  BY DEF Next, Call, vars, GetConnectionThrows, BeginTransaction, BeginThrows,
         EndUnopened, Commit, Rollback, Write, TransactionGuard, SetCommitOnDestroy,
         GuardCommit, GuardRollback, DestroyGuard, Create, Destroy, ViewBegin, IteratorDone
<1> QED
  BY <1>1, <1>2 DEF TypeOK

(* A visit leaves the connection as it found it. *)
LEMMA VisitInv ==
    ASSUME TypeOK, Core, Visit
    PROVE  /\ count' \in Nat /\ count' = count
           /\ count' > 0 <=> db' = "open"
           /\ db' \in HandleType /\ configured' \in BOOLEAN
           /\ iter' \in [Iters -> Views \cup {"none", "detached"}]
<1>1. iter' \in [Iters -> Views \cup {"none", "detached"}]
  BY DetachedType DEF Visit
<1>2. configured' \in BOOLEAN
  BY DEF Visit, TypeOK
<1>3. count' \in Nat /\ count' = count /\ (count' > 0 <=> db' = "open") /\ db' \in HandleType
  BY DEF Visit, TypeOK, Core, HandleType
<1> QED
  BY <1>1, <1>2, <1>3

(* begin_transaction, whether BEGIN succeeds, fails or is not reached. *)
LEMMA BeginInv ==
    ASSUME TypeOK, Core, died = "no", BeginTransaction \/ BeginThrows,
           allowed' = allowed, asked' \subseteq Guards
    PROVE  Inv'
<1>1. PICK ok \in BOOLEAN : Acquire(1, ok)
  BY DEF BeginTransaction, BeginThrows
<1>2. /\ count' \in Nat /\ count' = count + 1 /\ count' > 0
      /\ db' = "open"
      /\ configured' \in BOOLEAN
      /\ iter' \in [Iters -> Views \cup {"none", "detached"}]
  BY <1>1, AcquireOpens
<1>3. owed' \in 0..MaxOwed /\ owed' = owed + 1 /\ owed' > 0
  <2>1. owed < MaxOwed /\ owed' = owed + 1
    BY DEF BeginTransaction, BeginThrows
  <2> QED
    BY <2>1, BoundsAssumption DEF TypeOK
<1>4. txn' \in TxnType
  BY BeginAnswers DEF BeginTransaction, BeginThrows, TypeOK, TxnType
<1>5. UNCHANGED <<obj, commitOnDestroy, died>>
  BY DEF BeginTransaction, BeginThrows
<1>6. Live' = Live
  BY <1>5 DEF Live
<1>7. TypeOK'
  BY <1>2, <1>3, <1>4, <1>5 DEF TypeOK, TxnType
<1>8. count' = Cardinality(Live') + owed' + Pin
  BY <1>2, <1>3, <1>6, LiveFinite DEF Core, TypeOK, Pin
<1>9. Core'
  <2>1. count' > 0 <=> db' = "open"
    BY <1>2, Zenon
  <2> QED
    BY <1>3, <1>8, <2>1 DEF Core
<1> QED
  BY <1>7, <1>9 DEF Inv

(* transaction_guard: one retain for the transaction, one for the guard. *)
LEMMA GuardInv ==
    ASSUME TypeOK, Core, died = "no", NEW g \in Guards, TransactionGuard(g),
           allowed' = allowed, asked' \subseteq Guards
    PROVE  Inv'
<1>1. PICK a \in BeginSQL :
        /\ txn' = a.txn
        /\ IF a.rc = "ok"
           THEN Acquire(2, TRUE) /\ obj' = [obj EXCEPT ![g] = "armed"]
           ELSE Acquire(1, TRUE) /\ UNCHANGED obj
  BY DEF TransactionGuard
<1>2. txn' \in TxnType
  BY <1>1, BeginAnswers
<1>3. owed' \in 0..MaxOwed /\ owed' = owed + 1 /\ owed' > 0
  BY BoundsAssumption DEF TransactionGuard, TypeOK
<1>4. UNCHANGED died /\ commitOnDestroy' \in [Guards -> BOOLEAN]
  BY DEF TransactionGuard, TypeOK
<1>5. g \in Objects /\ obj[g] = "none"
  BY DEF TransactionGuard, Objects
<1>6. /\ obj' \in [Objects -> {"none", "live", "armed", "spent"}]
      /\ count' \in Nat /\ count' > 0
      /\ count' = Cardinality(Live') + owed' + Pin
      /\ db' = "open" /\ configured' \in BOOLEAN
      /\ iter' \in [Iters -> Views \cup {"none", "detached"}]
  <2>1. CASE a.rc = "ok"
    <3>1. Acquire(2, TRUE) /\ obj' = [obj EXCEPT ![g] = "armed"]
      BY <1>1, <2>1
    <3>2. /\ count' \in Nat /\ count' = count + 2 /\ count' > 0
          /\ db' = "open"
          /\ configured' \in BOOLEAN
          /\ iter' \in [Iters -> Views \cup {"none", "detached"}]
      BY <3>1, AcquireOpens
    <3>3. Cardinality(Live') = Cardinality(Live) + 1
      BY <1>5, <3>1, LiveGrows
    <3>4. obj' \in [Objects -> {"none", "live", "armed", "spent"}]
      BY <3>1 DEF TypeOK
    <3>5. count' = Cardinality(Live') + owed' + Pin
      BY <1>3, <3>2, <3>3, LiveFinite DEF Core, TypeOK, Pin
    <3> QED
      BY <3>2, <3>4, <3>5
  <2>2. CASE a.rc # "ok"
    <3>1. Acquire(1, TRUE) /\ UNCHANGED obj
      BY <1>1, <2>2
    <3>2. /\ count' \in Nat /\ count' = count + 1 /\ count' > 0
          /\ db' = "open"
          /\ configured' \in BOOLEAN
          /\ iter' \in [Iters -> Views \cup {"none", "detached"}]
      BY <3>1, AcquireOpens
    <3>3. Live' = Live
      BY <3>1 DEF Live
    <3>4. count' = Cardinality(Live') + owed' + Pin
      BY <1>3, <3>2, <3>3, LiveFinite DEF Core, TypeOK, Pin
    <3> QED
      BY <3>1, <3>2, <3>4 DEF TypeOK
  <2> QED
    BY <2>1, <2>2
<1>7. TypeOK'
  BY <1>2, <1>3, <1>4, <1>6 DEF TypeOK, TxnType
<1>8. Core'
  <2>1. count' > 0 <=> db' = "open"
    BY <1>6, Zenon
  <2> QED
    BY <1>3, <1>6, <2>1 DEF Core
<1> QED
  BY <1>7, <1>8 DEF Inv

(* The destructor of a guard. *)
LEMMA DestroyGuardInv ==
    ASSUME TypeOK, Core, died = "no", NEW g \in Guards, NEW unwinding \in BOOLEAN,
           DestroyGuard(g, unwinding), allowed' = allowed, asked' \subseteq Guards
    PROVE  Inv'
<1>1. /\ g \in Objects /\ obj[g] # "none" /\ obj[g] \in {"armed", "spent"}
      /\ obj' = [obj EXCEPT ![g] = "none"]
      /\ UNCHANGED <<commitOnDestroy, iter>>
  BY DEF DestroyGuard, Objects
<1>2. /\ Cardinality(Live') = Cardinality(Live) - 1
      /\ Cardinality(Live) > 0
      /\ Cardinality(Live') \in Nat
  BY <1>1, LiveShrinks
<1>3. obj' \in [Objects -> {"none", "live", "armed", "spent"}]
  BY <1>1 DEF TypeOK
<1> DEFINE Balanced ==
      /\ count' \in Nat /\ db' \in HandleType /\ configured' \in BOOLEAN
      /\ died' \in {"no", "close", "guard"}
      /\ txn' \in TxnType /\ owed' \in 0..MaxOwed
      /\ count' = Cardinality(Live') + owed' + Pin
      /\ died' = "no" => (count' > 0 <=> db' = "open")
      /\ txn'.active => owed' > 0
<1>4. Balanced
  <2>1. ASSUME NEW cause \in {"no", "guard"}, Leave(1, cause), owed' = owed,
               txn' \in TxnType, txn'.active => txn.active
        PROVE  Balanced
    <3>1. count >= 1
      BY <1>2, LiveFinite DEF Core, TypeOK, Pin
    <3>2. /\ count' \in Nat /\ count' = count - 1
          /\ died' = "no" => (count' > 0 <=> db' = "open")
          /\ db' \in HandleType
          /\ configured' \in BOOLEAN
          /\ died' \in {"no", "close", "guard"}
      BY <2>1, <3>1, LeaveCloses
    <3>3. count' = Cardinality(Live') + owed' + Pin
      BY <1>2, <2>1, <3>2, LiveFinite DEF Core, TypeOK, Pin
    <3>4. txn'.active => owed' > 0
      BY <2>1 DEF Core
    <3> QED
      BY <2>1, <3>2, <3>3, <3>4 DEF TypeOK
  <2>2. CASE obj[g] = "spent"
    <3>1. Leave(1, "no") /\ UNCHANGED <<txn, owed>>
      BY <2>2 DEF DestroyGuard
    <3> QED
      BY <2>1, <3>1 DEF TypeOK, TxnType
  <2>3. CASE obj[g] = "armed"
    <3>1. PICK a \in FinalSQL(g) :
            /\ txn' = a.txn
            /\ IF a.rc = "ok"
               THEN owed' = owed - 1 /\ Leave(2, "no")
               ELSE owed' = owed /\ Leave(1, IF unwinding THEN "guard" ELSE "no")
      BY <2>3 DEF DestroyGuard
    <3>2. a \in CommitSQL \cup RollbackSQL
      BY DEF FinalSQL
    <3>3. /\ a.txn \in TxnType
          /\ a.rc = "ok" => txn.active /\ ~a.txn.active
          /\ a.txn.active => txn.active
      BY <3>2, EndAnswers
    <3>4. CASE a.rc # "ok"
      <4>1. owed' = owed /\ Leave(1, IF unwinding THEN "guard" ELSE "no")
        BY <3>1, <3>4
      <4>2. (IF unwinding THEN "guard" ELSE "no") \in {"no", "guard"}
        OBVIOUS
      <4> QED
        BY <2>1, <3>1, <3>3, <4>1, <4>2
    <3>5. CASE a.rc = "ok"
      <4>1. owed > 0 /\ owed' = owed - 1 /\ Leave(2, "no")
        BY <3>1, <3>3, <3>5 DEF Core
      <4>2. count >= 2
        BY <1>2, <4>1, LiveFinite DEF Core, TypeOK, Pin
      <4>3. /\ count' \in Nat /\ count' = count - 2
            /\ died' = "no" => (count' > 0 <=> db' = "open")
            /\ db' \in HandleType
            /\ configured' \in BOOLEAN
            /\ died' \in {"no", "close", "guard"}
        BY <4>1, <4>2, LeaveCloses
      <4>4. count' = Cardinality(Live') + owed' + Pin
        BY <1>2, <4>1, <4>3, LiveFinite DEF Core, TypeOK, Pin
      <4>5. owed' \in 0..MaxOwed
        BY <4>1, BoundsAssumption DEF TypeOK
      <4>6. ~txn'.active
        BY <3>1, <3>3, <3>5
      <4> QED
        BY <3>1, <3>3, <4>3, <4>4, <4>5, <4>6
    <3> QED
      BY <3>4, <3>5
  <2> QED
    BY <1>1, <2>2, <2>3
<1>5. TypeOK'
  BY <1>1, <1>3, <1>4 DEF TypeOK, TxnType, HandleType
<1>6. died' = "no" => Core'
  BY <1>4 DEF Core, Pin
<1> QED
  BY <1>5, <1>6 DEF Inv

(* Prepared statements and views come and go. *)
LEMMA ObjectInv ==
    ASSUME TypeOK, Core, died = "no", NEW o \in Stmts \cup Views, Create(o) \/ Destroy(o),
           allowed' = allowed, asked' \subseteq Guards
    PROVE  Inv'
<1>1. o \in Objects /\ UNCHANGED <<txn, owed, commitOnDestroy>>
  BY DEF Create, Destroy, Objects
<1>2. CASE Create(o)
  <2>1. obj[o] = "none" /\ Acquire(1, TRUE) /\ obj' = [obj EXCEPT ![o] = "live"] /\ UNCHANGED died
    BY <1>2 DEF Create
  <2>2. /\ count' \in Nat /\ count' = count + 1 /\ count' > 0
        /\ db' = "open"
        /\ configured' \in BOOLEAN
        /\ iter' \in [Iters -> Views \cup {"none", "detached"}]
    BY <2>1, AcquireOpens
  <2>3. Cardinality(Live') = Cardinality(Live) + 1
    BY <1>1, <2>1, LiveGrows
  <2>4. TypeOK'
    BY <1>1, <2>1, <2>2 DEF TypeOK
  <2>5. count' = Cardinality(Live') + owed' + Pin
    BY <1>1, <2>2, <2>3, LiveFinite DEF Core, TypeOK, Pin
  <2>6. count' > 0 <=> db' = "open"
    BY <2>2, Zenon
  <2> QED
    BY <1>1, <2>4, <2>5, <2>6 DEF Inv, Core
<1>3. CASE Destroy(o)
  <2>1. obj[o] # "none" /\ Leave(1, "no") /\ obj' = [obj EXCEPT ![o] = "none"] /\ UNCHANGED iter
    BY <1>3 DEF Destroy
  <2>2. /\ Cardinality(Live') = Cardinality(Live) - 1
        /\ Cardinality(Live) > 0
        /\ Cardinality(Live') \in Nat
    BY <1>1, <2>1, LiveShrinks
  <2>3. count >= 1
    BY <2>2, LiveFinite DEF Core, TypeOK, Pin
  <2>4. /\ count' \in Nat /\ count' = count - 1
        /\ died' = "no" => (count' > 0 <=> db' = "open")
        /\ db' \in HandleType
        /\ configured' \in BOOLEAN
        /\ died' \in {"no", "close", "guard"}
    BY <2>1, <2>3, LeaveCloses
  <2>5. TypeOK'
    BY <1>1, <2>1, <2>4 DEF TypeOK, HandleType
  <2>6. count' = Cardinality(Live') + owed' + Pin
    BY <1>1, <2>2, <2>4, LiveFinite DEF Core, TypeOK, Pin
  <2> QED
    BY <1>1, <2>4, <2>5, <2>6 DEF Inv, Core
<1> QED
  BY <1>2, <1>3

(* The invariant is inductive. *)
LEMMA InvStep == Inv /\ [Next]_vars => Inv'
<1> SUFFICES ASSUME Inv, [Next]_vars PROVE Inv'
  OBVIOUS
<1>0. TypeOK /\ allowed' = allowed /\ asked' \subseteq Guards
  BY RecordsStep DEF Inv
<1>1. CASE UNCHANGED vars
  BY <1>1 DEF Inv, TypeOK, Core, Live, vars
<1>2. CASE died = "no" /\ Call
  <2>1. /\ TypeOK /\ Core /\ died = "no"
        /\ allowed' = allowed /\ asked' \subseteq Guards
    BY <1>0, <1>2 DEF Inv
  <2>2. CASE GetConnectionThrows
    <3>1. Visit /\ UNCHANGED <<txn, owed, obj, commitOnDestroy, died>>
      BY <2>2 DEF GetConnectionThrows
    <3>2. Live' = Live
      BY <3>1 DEF Live
    <3> QED
      BY <2>1, <3>1, <3>2, VisitInv DEF Inv, TypeOK, Core, HandleType
  <2>3. CASE BeginTransaction \/ BeginThrows
    BY <2>1, <2>3, BeginInv
  <2>12. CASE EndUnopened
    <3>1. /\ UNCHANGED <<count, db, configured, txn, owed, obj, commitOnDestroy, iter>>
          /\ died' \in {"no", "dangling"}
      BY <2>12 DEF EndUnopened
    <3>2. Live' = Live
      BY <3>1 DEF Live
    <3> QED
      BY <2>1, <3>1, <3>2 DEF Inv, TypeOK, Core
  <2>4. CASE (Commit \/ Rollback) /\ ~EndUnopened
    <3>1. /\ EndTransaction(CommitSQL) \/ EndTransaction(RollbackSQL)
          /\ UNCHANGED <<obj, commitOnDestroy, iter, died>>
      BY <2>4 DEF Commit, Rollback
    <3>2. Live' = Live
      BY <3>1 DEF Live
    <3> QED
      BY <2>1, <3>1, <3>2, EndInv DEF Inv, TypeOK, HandleType, TxnType
  <2>5. CASE Write
    <3>1. PICK a \in WriteSQL : txn' = a.txn
      BY <2>5 DEF Write
    <3>2. txn' \in TxnType /\ (txn'.active => txn.active)
      BY <2>1, <2>5, <3>1, WriteAnswers DEF Write
    <3>3. Visit /\ UNCHANGED <<owed, obj, commitOnDestroy, died>>
      BY <2>5 DEF Write
    <3>4. Live' = Live
      BY <3>3 DEF Live
    <3>5. /\ count' \in Nat /\ count' = count
          /\ count' > 0 <=> db' = "open"
          /\ db' \in HandleType /\ configured' \in BOOLEAN
          /\ iter' \in [Iters -> Views \cup {"none", "detached"}]
      BY <2>1, <3>3, VisitInv
    <3>6. TypeOK'
      BY <2>1, <3>2, <3>3, <3>5 DEF TypeOK, HandleType, TxnType
    <3>7. Core'
      BY <2>1, <3>2, <3>3, <3>4, <3>5 DEF Core
    <3> QED
      BY <3>6, <3>7 DEF Inv
  <2>6. ASSUME NEW g \in Guards, TransactionGuard(g)
        PROVE  Inv'
    BY <2>1, <2>6, GuardInv
  <2>7. ASSUME NEW g \in Guards, SetCommitOnDestroy(g)
        PROVE  Inv'
    <3>1. /\ UNCHANGED <<count, db, configured, txn, owed, obj, iter, died>>
          /\ commitOnDestroy' = [commitOnDestroy EXCEPT ![g] = TRUE]
      BY <2>7 DEF SetCommitOnDestroy
    <3>2. Live' = Live
      BY <3>1 DEF Live
    <3> QED
      BY <2>1, <3>1, <3>2 DEF Inv, TypeOK, Core
  <2>8. ASSUME NEW g \in Guards, GuardCommit(g) \/ GuardRollback(g)
        PROVE  Inv'
    <3>1. /\ EndTransaction(CommitSQL) \/ EndTransaction(RollbackSQL)
          /\ UNCHANGED <<commitOnDestroy, iter, died>>
          /\ obj[g] # "none" /\ Disarm(g)
      BY <2>8 DEF GuardCommit, GuardRollback, MayEnd
    <3>2. Live' = Live /\ obj' \in [Objects -> {"none", "live", "armed", "spent"}]
      BY <2>1, <3>1, LiveKept
    <3> QED
      BY <2>1, <3>1, <3>2, EndInv DEF Inv, TypeOK, HandleType, TxnType
  <2>9. ASSUME NEW g \in Guards, NEW unwinding \in BOOLEAN, DestroyGuard(g, unwinding)
        PROVE  Inv'
    BY <2>1, <2>9, DestroyGuardInv
  <2>10. ASSUME NEW o \in Stmts \cup Views, Create(o) \/ Destroy(o)
         PROVE  Inv'
    BY <2>1, <2>10, ObjectInv
  <2>11. ASSUME NEW i \in Iters, IteratorDone(i) \/ \E v \in Views : ViewBegin(v, i)
         PROVE  Inv'
    <3>1. /\ UNCHANGED <<count, db, configured, txn, owed, obj, commitOnDestroy, died>>
          /\ iter' \in [Iters -> Views \cup {"none", "detached"}]
      BY <2>1, <2>11 DEF IteratorDone, ViewBegin, TypeOK
    <3>2. Live' = Live
      BY <3>1 DEF Live
    <3> QED
      BY <2>1, <3>1, <3>2 DEF Inv, TypeOK, Core
  <2> QED
    BY <1>2, <2>2, <2>3, <2>4, <2>5, <2>6, <2>7, <2>8, <2>9, <2>10, <2>11, <2>12
       DEF Call, Commit, Rollback
<1> QED
  BY <1>1, <1>2 DEF Next

(* A new storage satisfies it. *)
LEMMA InvInit == Init => Inv
<1> SUFFICES ASSUME Init PROVE Inv
  OBVIOUS
<1>1. Live = {}
  BY DEF Init, Live
<1>2. Cardinality(Live) = 0
  BY <1>1, FS_EmptySet
<1>3. txn \in TxnType /\ ~txn.active
  BY BoundsAssumption DEF Init, TxnType
<1>4. configured \in BOOLEAN
  BY PinnedAssumption DEF Init
<1>5. count \in Nat /\ db \in HandleType /\ owed \in 0..MaxOwed
  BY BoundsAssumption DEF Init, Pin, HandleType
<1>6. TypeOK
  BY <1>3, <1>4, <1>5, ChancesAssumption DEF Init, TypeOK, TxnType, HandleType
<1>7. count = Cardinality(Live) + owed + Pin /\ (count > 0 <=> db = "open")
  BY <1>2 DEF Init, Pin
<1> QED
  BY <1>3, <1>6, <1>7 DEF Inv, Core

(* ... and every state that follows does. *)
LEMMA InvAlways == Spec => []Inv
BY InvInit, InvStep, PTL DEF Spec
-----------------------------------------------------------------------------
(* What holds of every program, whatever fails. *)

(* The state stays well typed: no path of begin, commit, rollback and of the *)
(* destructors gives back more retains than were taken.                      *)
THEOREM SessionTypeCorrect == Spec => []TypeOK
<1>1. Inv => TypeOK
  BY DEF Inv
<1> QED
  BY <1>1, InvAlways, PTL

(* The retain count is what objects and unfinished begins account for. *)
THEOREM SessionCountIsBalanced == Spec => []CountBalanced
<1>1. Inv => CountBalanced
  BY DEF Inv, Core, CountBalanced
<1> QED
  BY <1>1, InvAlways, PTL

(* An active transaction never loses its connection, whichever of BEGIN,     *)
(* COMMIT, on_open_internal or a statement fails around it.                  *)
THEOREM TransactionHoldsConnection == Spec => []TransactionKeepsConnection
<1>1. Inv => TransactionKeepsConnection
  BY LiveFinite DEF Inv, Core, TransactionKeepsConnection, TypeOK, Pin
<1> QED
  BY <1>1, InvAlways, PTL

(* Prepared statements, views and guards always have an open connection. *)
THEOREM ObjectsHoldConnection == Spec => []ObjectsKeepConnection
<1>1. Inv => ObjectsKeepConnection
  <2> SUFFICES ASSUME Inv, died = "no", Live # {} PROVE db = "open"
    BY DEF ObjectsKeepConnection
  <2>1. Cardinality(Live) > 0
    BY LiveFinite, FS_EmptySet
  <2> QED
    BY <2>1, LiveFinite DEF Inv, Core, TypeOK, Pin
<1> QED
  BY <1>1, InvAlways, PTL

(* A guard that has been asked is disarmed for good. *)
AskedInv == \A g \in asked : obj[g] # "armed"

LEMMA AskedStep ==
    ASSUME Inv, AskedInv, [Next]_vars
    PROVE  AskedInv'
<1>0. /\ asked \subseteq Guards /\ Guards \subseteq Objects
      /\ obj \in [Objects -> {"none", "live", "armed", "spent"}]
  BY DEF Inv, TypeOK, Objects
<1>1. ASSUME NEW g \in Guards, TransactionGuard(g)
      PROVE  AskedInv'
  BY <1>0, <1>1 DEF TransactionGuard, AskedInv
<1>2. ASSUME NEW g \in Guards, GuardCommit(g) \/ GuardRollback(g)
      PROVE  AskedInv'
  BY <1>0, <1>2 DEF GuardCommit, GuardRollback, Disarm, AskedInv
<1>3. ASSUME NEW g \in Guards, NEW u \in BOOLEAN, DestroyGuard(g, u)
      PROVE  AskedInv'
  BY <1>0, <1>3 DEF DestroyGuard, AskedInv
<1>4. ASSUME NEW o \in Stmts \cup Views, Create(o) \/ Destroy(o)
      PROVE  AskedInv'
  BY <1>0, <1>4 DEF Create, Destroy, AskedInv
<1>5. ASSUME \/ GetConnectionThrows \/ BeginTransaction \/ BeginThrows
             \/ EndUnopened \/ Commit \/ Rollback \/ Write
             \/ \E h \in Guards : SetCommitOnDestroy(h)
             \/ \E v \in Views, i \in Iters : ViewBegin(v, i)
             \/ \E i \in Iters : IteratorDone(i)
             \/ UNCHANGED vars
      PROVE  AskedInv'
  BY <1>5 DEF GetConnectionThrows, BeginTransaction, BeginThrows, EndUnopened, Commit,
              Rollback, Write, SetCommitOnDestroy, ViewBegin, IteratorDone, vars, AskedInv
<1> QED
  BY <1>1, <1>2, <1>3, <1>4, <1>5 DEF Next, Call

(* A guard whose commit or rollback the program has called leaves the        *)
(* transaction alone when it is destroyed, whether or not that call          *)
(* succeeded.                                                                *)
THEOREM SpentGuardDoesNothing == Spec => SpentGuardIsInert
<1>1. Inv /\ AskedInv /\ [Next]_vars =>
        [\A g \in asked : obj[g] # "none" /\ obj'[g] = "none" => txn' = txn]_vars
  <2> SUFFICES ASSUME Inv, AskedInv, Next, NEW g \in asked, obj[g] # "none", obj'[g] = "none"
               PROVE  txn' = txn
    BY DEF vars
  <2>1. /\ g \in Objects /\ g \in Guards /\ obj[g] # "armed"
        /\ obj \in [Objects -> {"none", "live", "armed", "spent"}]
    BY DEF Inv, TypeOK, Objects, AskedInv
  <2>2. ~ UNCHANGED obj
    OBVIOUS
  <2>3. ASSUME NEW h \in Guards, TransactionGuard(h)
        PROVE  FALSE
    BY <2>1, <2>2, <2>3 DEF TransactionGuard
  <2>4. ASSUME NEW h \in Guards, GuardCommit(h) \/ GuardRollback(h)
        PROVE  FALSE
    BY <2>1, <2>4 DEF GuardCommit, GuardRollback, Disarm
  <2>5. ASSUME NEW h \in Guards, NEW u \in BOOLEAN, DestroyGuard(h, u)
        PROVE  txn' = txn
    <3>1. h = g
      BY <2>1, <2>5 DEF DestroyGuard
    <3>2. obj[h] = "spent"
      BY <2>1, <2>5, <3>1 DEF DestroyGuard
    <3> QED
      BY <2>5, <3>2 DEF DestroyGuard
  <2>6. ASSUME NEW o \in Stmts \cup Views, Create(o) \/ Destroy(o)
        PROVE  txn' = txn
    BY <2>6 DEF Create, Destroy
  <2>7. ASSUME \/ GetConnectionThrows \/ BeginTransaction \/ BeginThrows
               \/ EndUnopened \/ Commit \/ Rollback \/ Write
               \/ \E h \in Guards : SetCommitOnDestroy(h)
               \/ \E v \in Views, i \in Iters : ViewBegin(v, i)
               \/ \E i \in Iters : IteratorDone(i)
               \/ UNCHANGED vars
        PROVE  FALSE
    BY <2>2, <2>7 DEF GetConnectionThrows, BeginTransaction, BeginThrows, EndUnopened, Commit,
                      Rollback, Write, SetCommitOnDestroy, ViewBegin, IteratorDone, vars
  <2> QED
    BY <2>3, <2>4, <2>5, <2>6, <2>7 DEF Next, Call
<1>2. Init => AskedInv
  BY DEF Init, AskedInv
<1>3. Inv /\ AskedInv /\ [Next]_vars => AskedInv'
  BY AskedStep
<1> QED
  BY <1>1, <1>2, <1>3, InvAlways, PTL DEF Spec, SpentGuardIsInert
-----------------------------------------------------------------------------
(* What holds of programs that leave a guard's transaction to the guard and  *)
(* use no statement that rolls the transaction back.                         *)

Armed == {g \in Guards : obj[g] = "armed"}

(* There is at most one armed guard, and it has a transaction. *)
ArmedInv ==
    died = "no" => \A g \in Armed : txn.active /\ \A h \in Armed : h = g

LEMMA ArmedStep ==
    ASSUME Without({"undone", "others"}), Inv, ArmedInv, [Next]_vars
    PROVE  ArmedInv'
<1>0. "undone" \notin allowed /\ "others" \notin allowed
  BY DEF Without
<1>1. CASE UNCHANGED vars
  BY <1>1 DEF vars, ArmedInv, Armed
<1>2. CASE died = "no" /\ Call
  <2>1. /\ TypeOK /\ died = "no"
        /\ \A g \in Armed : txn.active /\ \A h \in Armed : h = g
        /\ obj \in [Objects -> {"none", "live", "armed", "spent"}]
        /\ Guards \subseteq Objects
    BY <1>2 DEF Inv, ArmedInv, TypeOK, Objects
  <2>2. ASSUME Armed' \subseteq Armed, txn.active => txn'.active
        PROVE  ArmedInv'
    BY <2>1, <2>2 DEF ArmedInv
  <2>3. ASSUME Armed' = {}
        PROVE  ArmedInv'
    BY <2>3 DEF ArmedInv
  <2>4. CASE \/ GetConnectionThrows \/ BeginThrows \/ EndUnopened
             \/ \E h \in Guards : SetCommitOnDestroy(h)
             \/ \E v \in Views, i \in Iters : ViewBegin(v, i)
             \/ \E i \in Iters : IteratorDone(i)
    <3>1. UNCHANGED <<obj, txn>>
      BY <2>4 DEF GetConnectionThrows, BeginThrows, EndUnopened, SetCommitOnDestroy, ViewBegin,
                  IteratorDone
    <3> QED
      BY <2>2, <3>1 DEF Armed
  <2>5. CASE BeginTransaction
    <3>1. PICK a \in BeginSQL : txn' = a.txn /\ UNCHANGED obj
      BY <2>5 DEF BeginTransaction
    <3>2. txn.active => txn'.active
      BY <2>1, <3>1, BeginAnswers
    <3> QED
      BY <2>2, <3>1, <3>2 DEF Armed
  <2>6. CASE (Commit \/ Rollback) /\ ~EndUnopened
    <3>1. Armed = {} /\ UNCHANGED obj
      BY <1>0, <2>6 DEF Commit, Rollback, Unguarded, Armed
    <3> QED
      BY <2>3, <3>1 DEF Armed
  <2>7. CASE Write
    <3>1. PICK a \in WriteSQL : txn' = a.txn /\ UNCHANGED obj
      BY <2>7 DEF Write
    <3>2. txn.active => a.txn.active
      <4> DEFINE w == txn.working + 1
                 written == [txn EXCEPT !.working = w,
                                        !.saved = IF txn.active THEN txn.saved ELSE w]
      <4>1. written.active = txn.active
        BY <2>1 DEF TypeOK
      <4>2. a = Answer("ok", written) \/ a = Answer("error", txn)
        BY <1>0 DEF WriteSQL, Fails
      <4> HIDE DEF written
      <4>3. a.txn = written \/ a.txn = txn
        BY <4>2, AnswerFields
      <4> QED
        BY <4>1, <4>3, Zenon
    <3> QED
      BY <2>2, <3>1, <3>2 DEF Armed
  <2>8. ASSUME NEW g \in Guards, TransactionGuard(g)
        PROVE  ArmedInv'
    <3>1. PICK a \in BeginSQL :
            /\ txn' = a.txn
            /\ IF a.rc = "ok" THEN obj' = [obj EXCEPT ![g] = "armed"] ELSE UNCHANGED obj
      BY <2>8 DEF TransactionGuard
    <3>2. CASE a.rc = "ok"
      <4>1. ~txn.active /\ txn'.active
        BY <2>1, <3>1, <3>2, BeginAnswers
      <4>2. Armed' = {g}
        <5>1. \A h \in Guards : obj[h] # "armed"
          BY <2>1, <4>1, Zenon DEF Armed
        <5>2. \A h \in Guards : obj'[h] = IF h = g THEN "armed" ELSE obj[h]
          BY <2>1, <3>1, <3>2
        <5> QED
          BY <5>1, <5>2, Zenon DEF Armed
      <4> QED
        BY <4>1, <4>2 DEF ArmedInv
    <3>3. CASE a.rc # "ok"
      <4>1. UNCHANGED <<txn, obj>>
        BY <2>1, <3>1, <3>3, BeginAnswers
      <4> QED
        BY <2>2, <4>1 DEF Armed
    <3> QED
      BY <3>2, <3>3
  <2>9. ASSUME NEW g \in Guards, GuardCommit(g) \/ GuardRollback(g)
        PROVE  ArmedInv'
    <3>1. obj[g] = "armed" /\ obj' = [obj EXCEPT ![g] = "spent"]
      BY <1>0, <2>9 DEF GuardCommit, GuardRollback, MayEnd, Disarm
    <3>2. Armed' = {}
      BY <2>1, <3>1 DEF Armed
    <3> QED
      BY <2>3, <3>2
  <2>10. ASSUME NEW g \in Guards, NEW u \in BOOLEAN, DestroyGuard(g, u)
         PROVE  ArmedInv'
    <3>1. obj[g] \in {"armed", "spent"} /\ obj' = [obj EXCEPT ![g] = "none"]
      BY <2>10 DEF DestroyGuard
    <3>2. CASE obj[g] = "armed"
      <4>1. Armed' = {}
        BY <2>1, <3>1, <3>2 DEF Armed
      <4> QED
        BY <2>3, <4>1
    <3>3. CASE obj[g] = "spent"
      <4>1. UNCHANGED txn
        BY <2>10, <3>3 DEF DestroyGuard
      <4>2. Armed' = Armed
        BY <2>1, <3>1, <3>3 DEF Armed
      <4> QED
        BY <2>2, <4>1, <4>2
    <3> QED
      BY <3>1, <3>2, <3>3
  <2>11. ASSUME NEW o \in Stmts \cup Views, Create(o) \/ Destroy(o)
         PROVE  ArmedInv'
    <3>1. o \notin Guards /\ UNCHANGED txn
      BY <2>11, ObjectsAssumption DEF Create, Destroy
    <3>2. Armed' = Armed
      BY <2>1, <2>11, <3>1 DEF Create, Destroy, Armed
    <3> QED
      BY <2>2, <3>1, <3>2
  <2> QED
    BY <1>2, <2>4, <2>5, <2>6, <2>7, <2>8, <2>9, <2>10, <2>11
       DEF Call, Commit, Rollback
<1> QED
  BY <1>1, <1>2 DEF Next

LEMMA ArmedAlways == Spec => [](Inv /\ (Without({"undone", "others"}) => ArmedInv))
<1> DEFINE Calm == Without({"undone", "others"})
<1>1. Init => (Calm => ArmedInv)
  BY DEF Init, ArmedInv, Armed, Objects
<1>2. Inv /\ (Calm => ArmedInv) /\ [Next]_vars => (Calm => ArmedInv)'
  <2> SUFFICES ASSUME Inv, Calm => ArmedInv, [Next]_vars, Calm' PROVE ArmedInv'
    OBVIOUS
  <2>1. Calm
    BY RecordsStep DEF Inv, Without
  <2> QED
    BY <2>1, ArmedStep
<1> QED
  BY <1>1, <1>2, InvAlways, PTL DEF Spec

(* A guard that is going to fire always has a transaction to end, as long as *)
(* only the guard ends its transaction.                                      *)
THEOREM GuardsHaveTransactions == Spec => []ArmedGuardHasTransaction
<1>1. (Without({"undone", "others"}) => ArmedInv) => ArmedGuardHasTransaction
  BY DEF ArmedInv, Armed, ArmedGuardHasTransaction
<1> QED
  BY <1>1, ArmedAlways, PTL

(* A guard destroyed without commit_on_destroy rolls back exactly what was   *)
(* written since it was created.                                             *)
THEOREM GuardRollbackIsExact == Spec => GuardRollsBack
<1> DEFINE Calm == Without({"undone", "others"})
           Exact == Calm => \A g \in Guards :
        obj[g] = "armed" /\ obj'[g] = "none" /\ ~commitOnDestroy[g] =>
            /\ ~txn'.active
            /\ txn'.saved = txn.saved
            /\ txn'.working = txn.saved
<1>1. Inv /\ (Calm => ArmedInv) /\ [Next]_vars => [Exact]_vars
  <2> SUFFICES ASSUME Inv, ArmedInv, Next, NEW g \in Guards,
                      obj[g] = "armed", obj'[g] = "none", ~commitOnDestroy[g]
               PROVE  ~txn'.active /\ txn'.saved = txn.saved /\ txn'.working = txn.saved
    BY DEF vars
  <2>1. g \in Objects /\ obj \in [Objects -> {"none", "live", "armed", "spent"}]
    BY DEF Inv, TypeOK, Objects
  <2>2. ~ UNCHANGED obj
    OBVIOUS
  <2>3. ASSUME NEW h \in Guards, TransactionGuard(h)
        PROVE  FALSE
    BY <2>1, <2>2, <2>3 DEF TransactionGuard
  <2>4. ASSUME NEW h \in Guards, GuardCommit(h) \/ GuardRollback(h)
        PROVE  FALSE
    BY <2>1, <2>4 DEF GuardCommit, GuardRollback, Disarm
  <2>5. ASSUME NEW h \in Guards, NEW u \in BOOLEAN, DestroyGuard(h, u), died = "no"
        PROVE  ~txn'.active /\ txn'.saved = txn.saved /\ txn'.working = txn.saved
    <3>1. h = g
      BY <2>1, <2>5 DEF DestroyGuard
    <3>2. txn.active
      BY <2>5 DEF ArmedInv, Armed
    <3>3. txn' = RolledBack
      BY <2>5, <3>1, <3>2, AnswerFields DEF DestroyGuard, FinalSQL, RollbackSQL
    <3> QED
      BY <3>3 DEF RolledBack, Inv, TypeOK
  <2>6. ASSUME NEW o \in Stmts \cup Views, Create(o) \/ Destroy(o)
        PROVE  FALSE
    BY <2>1, <2>6 DEF Create, Destroy
  <2>7. ASSUME \/ GetConnectionThrows \/ BeginTransaction \/ BeginThrows
               \/ EndUnopened \/ Commit \/ Rollback \/ Write
               \/ \E h \in Guards : SetCommitOnDestroy(h)
               \/ \E v \in Views, i \in Iters : ViewBegin(v, i)
               \/ \E i \in Iters : IteratorDone(i)
               \/ UNCHANGED vars
        PROVE  FALSE
    BY <2>2, <2>7 DEF GetConnectionThrows, BeginTransaction, BeginThrows, EndUnopened,
                      Commit, Rollback, Write, SetCommitOnDestroy, ViewBegin, IteratorDone, vars
  <2> QED
    BY <2>3, <2>4, <2>5, <2>6, <2>7 DEF Next, Call
<1> QED
  BY <1>1, ArmedAlways, PTL DEF Spec, GuardRollsBack
-----------------------------------------------------------------------------
(* What holds of programs whose iterators do not outlive their views. *)

(* An iterator whose statement is on the present handle has its view. *)
IterInv == \A i \in Iters : iter[i] \in Views => obj[iter[i]] = "live"

(* sqlite3_open can only lose iterators, and leaves the others theirs. *)
LEMMA DetachedKeeps ==
    ASSUME TypeOK, IterInv, iter' = Detached, NEW i \in Iters, iter'[i] \in Views
    PROVE  iter'[i] = iter[i] /\ obj[iter[i]] = "live"
BY ObjectsAssumption DEF TypeOK, IterInv, Detached, Unfinalized

(* The view of an unfinalized statement counts besides the object that goes. *)
LEMMA NotTheLast ==
    ASSUME TypeOK, IterInv, NEW o \in Live, Unfinalized # {},
           \A i \in Unfinalized : iter[i] # o
    PROVE  Cardinality(Live) >= 2
<1>1. PICK i \in Iters : iter[i] \in Views
  BY DEF Unfinalized
<1>2. iter[i] \in Live \ {o}
  BY <1>1 DEF IterInv, Live, Objects, Unfinalized
<1>3. /\ IsFiniteSet(Live \ {o}) /\ Cardinality(Live \ {o}) \in Nat
      /\ Cardinality(Live \ {o}) = Cardinality(Live) - 1
  BY LiveFinite, FS_RemoveElement, FS_CardinalityType
<1>4. Cardinality(Live \ {o}) # 0
  BY <1>2, <1>3, FS_EmptySet
<1> QED
  BY <1>3, <1>4, LiveFinite

(* ~connection_ref of an object with no iterator never fails to close. *)
LEMMA LeaveQuietly ==
    ASSUME TypeOK, Core, IterInv, NEW o \in Live, \A i \in Unfinalized : iter[i] # o,
           NEW n \in {1, 2}, NEW cause, Leave(n, cause), n = 2 => owed > 0
    PROVE  died' = cause
<1>1. Unfinalized # {} => count # n
  <2> SUFFICES ASSUME Unfinalized # {} PROVE count # n
    OBVIOUS
  <2>1. Cardinality(Live) >= 2
    BY NotTheLast
  <2> QED
    BY <2>1, LiveFinite DEF Core, TypeOK, Pin
<1> QED
  BY <1>1 DEF Leave

LEMMA IterStep ==
    ASSUME "outlived" \notin allowed, Inv, IterInv, died # "close", [Next]_vars
    PROVE  IterInv' /\ died' # "close"
<1>1. CASE UNCHANGED vars
  BY <1>1 DEF vars, IterInv
<1>2. CASE died = "no" /\ Call
  <2>1. /\ TypeOK /\ Core /\ died = "no"
        /\ obj \in [Objects -> {"none", "live", "armed", "spent"}]
        /\ Guards \subseteq Objects /\ Views \subseteq Objects /\ Guards \cap Views = {}
    BY <1>2, ObjectsAssumption DEF Inv, TypeOK, Objects
  <2>2. ASSUME iter' \in {iter, Detached}, \A v \in Views : obj[v] = "live" => obj'[v] = "live"
        PROVE  IterInv'
    BY <2>1, <2>2, DetachedKeeps DEF IterInv
  <2>11. CASE EndUnopened
    BY <2>1, <2>2, <2>11 DEF EndUnopened
  <2>3. CASE \/ GetConnectionThrows \/ BeginTransaction \/ BeginThrows
             \/ (Commit \/ Rollback) /\ ~EndUnopened
             \/ Write
    <3>1. UNCHANGED <<obj, died>> /\ iter' \in {iter, Detached}
      BY <2>3 DEF GetConnectionThrows, BeginTransaction, BeginThrows, Commit, Rollback, Write,
                  Visit, Acquire
    <3> QED
      BY <2>1, <2>2, <3>1
  <2>4. ASSUME NEW g \in Guards, TransactionGuard(g)
        PROVE  IterInv' /\ died' # "close"
    <3>1. UNCHANGED died /\ iter' = Detached
      BY <2>4 DEF TransactionGuard, Acquire
    <3>2. \A v \in Views : obj'[v] = obj[v]
      BY <2>1, <2>4 DEF TransactionGuard
    <3> QED
      BY <2>1, <2>2, <3>1, <3>2
  <2>5. ASSUME NEW g \in Guards, SetCommitOnDestroy(g)
        PROVE  IterInv' /\ died' # "close"
    BY <2>1, <2>2, <2>5 DEF SetCommitOnDestroy
  <2>6. ASSUME NEW g \in Guards, GuardCommit(g) \/ GuardRollback(g)
        PROVE  IterInv' /\ died' # "close"
    <3>1. UNCHANGED <<iter, died>> /\ \A v \in Views : obj'[v] = obj[v]
      BY <2>1, <2>6 DEF GuardCommit, GuardRollback, Disarm
    <3> QED
      BY <2>1, <2>2, <3>1
  <2>7. ASSUME NEW g \in Guards, NEW u \in BOOLEAN, DestroyGuard(g, u)
        PROVE  IterInv' /\ died' # "close"
    <3>1. UNCHANGED iter /\ \A v \in Views : obj'[v] = obj[v]
      BY <2>1, <2>7 DEF DestroyGuard
    <3>2. g \in Live /\ \A i \in Unfinalized : iter[i] # g
      BY <2>1, <2>7 DEF DestroyGuard, Live, Unfinalized
    <3>3. PICK n \in {1, 2}, cause \in {"no", "guard"} : Leave(n, cause) /\ (n = 2 => owed > 0)
      <4>1. CASE obj[g] = "spent"
        BY <2>7, <4>1 DEF DestroyGuard
      <4>2. CASE obj[g] = "armed"
        <5>1. PICK a \in FinalSQL(g) :
                IF a.rc = "ok" THEN Leave(2, "no") ELSE Leave(1, IF u THEN "guard" ELSE "no")
          BY <2>7, <4>2 DEF DestroyGuard
        <5>2. a.rc = "ok" => owed > 0
          BY <2>1, EndAnswers DEF FinalSQL, Core
        <5> QED
          BY <5>1, <5>2
      <4> QED
        BY <2>7, <4>1, <4>2 DEF DestroyGuard
    <3>4. died' = cause
      BY <2>1, <3>2, <3>3, LeaveQuietly
    <3> QED
      BY <2>2, <3>1, <3>4
  <2>8. ASSUME NEW o \in Stmts \cup Views, Create(o)
        PROVE  IterInv' /\ died' # "close"
    <3>1. UNCHANGED died /\ iter' = Detached /\ obj' = [obj EXCEPT ![o] = "live"]
      BY <2>8 DEF Create, Acquire
    <3> QED
      BY <2>1, <2>2, <3>1
  <2>9. ASSUME NEW o \in Stmts \cup Views, Destroy(o)
        PROVE  IterInv' /\ died' # "close"
    <3>1. o \in Live /\ \A i \in Iters : iter[i] \in Views => iter[i] # o
      BY <2>1, <2>9, ObjectsAssumption DEF Destroy, Live, Objects
    <3>2. Leave(1, "no") /\ UNCHANGED iter /\ obj' = [obj EXCEPT ![o] = "none"]
      BY <2>9 DEF Destroy
    <3>3. died' = "no"
      BY <2>1, <3>1, <3>2, LeaveQuietly DEF Unfinalized
    <3>4. IterInv'
      BY <2>1, <3>1, <3>2 DEF IterInv
    <3> QED
      BY <3>3, <3>4
  <2>10. ASSUME NEW i \in Iters, IteratorDone(i) \/ \E v \in Views : ViewBegin(v, i)
         PROVE  IterInv' /\ died' # "close"
    BY <2>1, <2>10, ObjectsAssumption DEF IteratorDone, ViewBegin, IterInv, TypeOK
  <2> QED
    BY <1>2, <2>1, <2>3, <2>4, <2>5, <2>6, <2>7, <2>8, <2>9, <2>10, <2>11
       DEF Call, Commit, Rollback
<1> QED
  BY <1>1, <1>2 DEF Next

LEMMA IterAlways ==
    Spec => [](Inv /\ ("outlived" \notin allowed => IterInv /\ IteratorsAreBorrowed))
<1> DEFINE Calm == "outlived" \notin allowed
           Quiet == IterInv /\ IteratorsAreBorrowed
<1>1. Init => (Calm => Quiet)
  BY ObjectsAssumption DEF Init, IterInv, IteratorsAreBorrowed
<1>2. Inv /\ (Calm => Quiet) /\ [Next]_vars => (Calm => Quiet)'
  <2> SUFFICES ASSUME Inv, Calm => Quiet, [Next]_vars, Calm' PROVE Quiet'
    OBVIOUS
  <2>1. Calm
    BY RecordsStep DEF Inv
  <2> QED
    BY <2>1, IterStep DEF IteratorsAreBorrowed
<1> QED
  BY <1>1, <1>2, InvAlways, PTL DEF Spec

(* The destructor of a connection_ref never ends the process when a view is  *)
(* destroyed only after the iterators obtained from it: sqlite3_close then   *)
(* finds no unfinalized statement, whatever else fails.                      *)
THEOREM ConnectionRefsDoNotTerminate ==
    Spec => []("outlived" \notin allowed => IteratorsAreBorrowed)
<1>1. ("outlived" \notin allowed => IterInv /\ IteratorsAreBorrowed)
        => ("outlived" \notin allowed => IteratorsAreBorrowed)
  OBVIOUS
<1> QED
  BY <1>1, IterAlways, PTL

(* A COMMIT that is not refused lets an armed guard end its transaction. *)
LEMMA GuardSucceeds ==
    ASSUME "commit" \notin allowed, txn.active, NEW g \in Guards, NEW a \in FinalSQL(g)
    PROVE  a.rc = "ok"
BY AnswerFields DEF FinalSQL, CommitSQL, RollbackSQL, Fails

(* What no destructor survives. *)
Fatal == {"commit", "undone", "others", "outlived", "unopened"}

(* No destructor ends the process by an exception, also while another one is *)
(* on its way: neither ~transaction_guard_t, which has a transaction to end, *)
(* nor ~connection_ref.                                                      *)
THEOREM DestructorsDoNotTerminate == Spec => []NeverTerminates
<1> DEFINE Safe == /\ Without({"undone", "others"}) => ArmedInv
                   /\ "outlived" \notin allowed => IterInv /\ IteratorsAreBorrowed
<1>1. Inv /\ Safe /\ Safe' /\ NeverTerminates /\ [Next]_vars => NeverTerminates'
  <2> SUFFICES ASSUME Inv, Safe, Safe', NeverTerminates, [Next]_vars, Without(Fatal)'
               PROVE  died' = "no"
    BY DEF NeverTerminates, Fatal
  <2>0. Without(Fatal) /\ "unopened" \notin allowed /\ "commit" \notin allowed
    BY RecordsStep DEF Inv, Without, Fatal
  <2>4. ArmedInv /\ died' # "close" /\ died = "no"
    <3>1. Without({"undone", "others"}) /\ "outlived" \notin allowed /\ "outlived" \notin allowed'
      BY <2>0, RecordsStep DEF Inv, Without, Fatal
    <3> QED
      BY <2>0, <3>1 DEF NeverTerminates, IteratorsAreBorrowed, Fatal
  <2>1. ASSUME NEW g \in Guards, NEW u \in BOOLEAN, DestroyGuard(g, u)
        PROVE  died' = "no"
    <3>1. CASE obj[g] = "spent"
      BY <2>1, <2>4, <3>1 DEF DestroyGuard, Leave
    <3>2. CASE obj[g] = "armed"
      <4>1. txn.active
        BY <2>4, <3>2 DEF ArmedInv, Armed
      <4>2. Leave(2, "no")
        BY <2>0, <2>1, <3>2, <4>1, GuardSucceeds DEF DestroyGuard
      <4> QED
        BY <2>4, <4>2 DEF Leave
    <3> QED
      BY <2>1, <3>1, <3>2 DEF DestroyGuard
  <2>2. ASSUME NEW o \in Stmts \cup Views, Destroy(o)
        PROVE  died' = "no"
    BY <2>2, <2>4 DEF Destroy, Leave
  <2>3. ASSUME \/ GetConnectionThrows \/ BeginTransaction \/ BeginThrows
               \/ EndUnopened \/ Commit \/ Rollback \/ Write
               \/ \E g \in Guards : \/ TransactionGuard(g) \/ SetCommitOnDestroy(g)
                                     \/ GuardCommit(g) \/ GuardRollback(g)
               \/ \E o \in Stmts \cup Views : Create(o)
               \/ \E v \in Views, i \in Iters : ViewBegin(v, i)
               \/ \E i \in Iters : IteratorDone(i)
               \/ UNCHANGED vars
        PROVE  died' = "no"
    BY <2>0, <2>3, <2>4 DEF GetConnectionThrows, BeginTransaction, BeginThrows, EndUnopened,
                Commit, Rollback, Write,
                TransactionGuard, SetCommitOnDestroy, GuardCommit, GuardRollback, Create,
                ViewBegin, IteratorDone, vars
  <2> QED
    BY <2>1, <2>2, <2>3 DEF Next, Call
<1>2. Init => NeverTerminates
  BY DEF Init, NeverTerminates
<1> QED
  BY <1>1, <1>2, ArmedAlways, IterAlways, PTL DEF Spec
-----------------------------------------------------------------------------
(* What holds also when on_open_internal throws. *)

(* A retain of begin_transaction that belongs to no transaction. *)
Kept == owed > (IF txn.active THEN 1 ELSE 0)

(* A connection that somebody holds has been configured, or is kept open by  *)
(* a begin_transaction that threw.                                           *)
ConfiguredInv == died = "no" /\ count > 0 /\ ~configured => Kept

(* Such a retain is never given back. *)
LEMMA KeptStep ==
    ASSUME Inv, died = "no", Call, Kept
    PROVE  Kept'
<1>1. TypeOK /\ owed \in Nat
  BY DEF Inv, TypeOK
<1>2. ASSUME NEW a \in BeginSQL, txn' = a.txn, owed' = owed + 1
      PROVE  Kept'
  BY <1>1, <1>2, BeginAnswers DEF Kept
<1>3. ASSUME NEW a \in CommitSQL \cup RollbackSQL, txn' = a.txn,
             owed' = IF a.rc = "ok" THEN owed - 1 ELSE owed
      PROVE  Kept'
  BY <1>1, <1>3, EndAnswers DEF Kept
<1>4. ASSUME UNCHANGED <<owed, txn>>
      PROVE  Kept'
  BY <1>4 DEF Kept
<1>5. CASE BeginTransaction \/ \E g \in Guards : TransactionGuard(g)
  BY <1>2, <1>5 DEF BeginTransaction, TransactionGuard
<1>6. CASE BeginThrows
  BY <1>1, <1>6 DEF BeginThrows, Kept
<1>7. CASE \/ (Commit \/ Rollback) /\ ~EndUnopened
           \/ \E g \in Guards : GuardCommit(g) \/ GuardRollback(g)
  <2>1. EndTransaction(CommitSQL) \/ EndTransaction(RollbackSQL)
    BY <1>7 DEF Commit, Rollback, GuardCommit, GuardRollback
  <2> QED
    BY <1>3, <2>1 DEF EndTransaction
<1>8. CASE Write
  <2>1. PICK a \in WriteSQL : txn.working < MaxWrites /\ txn' = a.txn /\ UNCHANGED owed
    BY <1>8 DEF Write
  <2> QED
    BY <1>1, <2>1, WriteAnswers DEF Kept
<1>9. ASSUME NEW g \in Guards, NEW u \in BOOLEAN, DestroyGuard(g, u)
      PROVE  Kept'
  <2>1. CASE obj[g] = "spent"
    BY <1>4, <1>9, <2>1 DEF DestroyGuard
  <2>2. CASE obj[g] = "armed"
    BY <1>3, <1>9, <2>2 DEF DestroyGuard, FinalSQL
  <2> QED
    BY <1>9, <2>1, <2>2 DEF DestroyGuard
<1>10. CASE \/ GetConnectionThrows \/ EndUnopened
            \/ \E g \in Guards : SetCommitOnDestroy(g)
            \/ \E o \in Stmts \cup Views : Create(o) \/ Destroy(o)
            \/ \E v \in Views, i \in Iters : ViewBegin(v, i)
            \/ \E i \in Iters : IteratorDone(i)
  BY <1>4, <1>10 DEF GetConnectionThrows, EndUnopened, SetCommitOnDestroy, Create, Destroy,
                     ViewBegin, IteratorDone
<1> QED
  BY <1>5, <1>6, <1>7, <1>8, <1>9, <1>10 DEF Call, Commit, Rollback

LEMMA ConfiguredStep ==
    ASSUME Inv, ConfiguredInv, [Next]_vars
    PROVE  ConfiguredInv'
<1>1. CASE UNCHANGED vars
  BY <1>1 DEF vars, ConfiguredInv, Kept
<1>2. CASE died = "no" /\ Call
  <2>1. /\ died = "no" /\ count \in Nat
        /\ count > 0 /\ ~configured => Kept'
    BY <1>2, KeptStep DEF Inv, TypeOK, ConfiguredInv
  <2>2. ASSUME NEW n \in {1, 2}, Acquire(n, TRUE)
        PROVE  ConfiguredInv'
    <3>1. configured' = IF count = 0 THEN TRUE ELSE configured
      BY <2>2 DEF Acquire
    <3>2. ~configured' => count > 0 /\ ~configured
      BY <2>1, <3>1
    <3> QED
      BY <2>1, <3>2, Zenon DEF ConfiguredInv
  <2>3. ASSUME NEW n \in {1, 2}, NEW stays, Release(n, stays)
        PROVE  ConfiguredInv'
    <3>1. count' > 0 => count > n /\ count > 0
      BY <2>1, <2>3 DEF Release
    <3>2. configured' = (count > n /\ configured)
      BY <2>3 DEF Release
    <3> QED
      BY <2>1, <3>1, <3>2, Zenon DEF ConfiguredInv
  <2>4. ASSUME UNCHANGED <<count, configured>>
        PROVE  ConfiguredInv'
    BY <2>1, <2>4, Zenon DEF ConfiguredInv
  <2>5. ASSUME NEW answers, EndTransaction(answers)
        PROVE  ConfiguredInv'
    BY <2>3, <2>4, <2>5 DEF EndTransaction
  <2>6. ASSUME NEW n \in {1, 2}, NEW cause, Leave(n, cause)
        PROVE  ConfiguredInv'
    BY <2>3, <2>6 DEF Leave
  <2>7. CASE \/ GetConnectionThrows \/ EndUnopened \/ Write
             \/ \E g \in Guards : SetCommitOnDestroy(g)
             \/ \E v \in Views, i \in Iters : ViewBegin(v, i)
             \/ \E i \in Iters : IteratorDone(i)
    BY <2>4, <2>7 DEF GetConnectionThrows, EndUnopened, Write, Visit, SetCommitOnDestroy,
                      ViewBegin, IteratorDone
  <2>8. CASE \/ BeginTransaction
             \/ \E g \in Guards : TransactionGuard(g)
             \/ \E o \in Stmts \cup Views : Create(o)
    BY <2>2, <2>8 DEF BeginTransaction, TransactionGuard, Create
  <2>9. CASE BeginThrows
    <3>1. ~txn.active /\ owed \in Nat
      BY <2>1, <2>9, LiveFinite DEF BeginThrows, Inv, Core, TypeOK, Pin
    <3> QED
      BY <2>9, <3>1 DEF BeginThrows, ConfiguredInv, Kept
  <2>10. CASE \/ (Commit \/ Rollback) /\ ~EndUnopened
              \/ \E g \in Guards : GuardCommit(g) \/ GuardRollback(g)
    BY <2>5, <2>10 DEF Commit, Rollback, GuardCommit, GuardRollback
  <2>11. CASE \/ \E g \in Guards, u \in BOOLEAN : DestroyGuard(g, u)
              \/ \E o \in Stmts \cup Views : Destroy(o)
    BY <2>6, <2>11 DEF DestroyGuard, Destroy
  <2> QED
    BY <1>2, <2>7, <2>8, <2>9, <2>10, <2>11 DEF Call, Commit, Rollback
<1> QED
  BY <1>1, <1>2 DEF Next

(* Every statement, view and guard works on a connection that carries the    *)
(* storage's settings, however often the connection was closed and reopened  *)
(* and on_open_internal threw, unless a begin_transaction threw and its      *)
(* retain still keeps the connection open.                                   *)
THEOREM ObjectsHaveSettings == Spec => []ObjectsSeeSettings
<1>1. Init => ConfiguredInv
  BY PinnedAssumption DEF Init, ConfiguredInv, Pin
<1>2. Inv /\ ConfiguredInv /\ [Next]_vars => ConfiguredInv'
  BY ConfiguredStep
<1>3. Inv /\ ConfiguredInv => ObjectsSeeSettings
  <2> SUFFICES ASSUME Inv, ConfiguredInv, died = "no", Live # {}, ~configured PROVE Kept
    BY DEF ObjectsSeeSettings, Kept
  <2>1. Cardinality(Live) > 0
    BY LiveFinite, FS_EmptySet
  <2>2. count > 0
    BY <2>1, LiveFinite DEF Inv, Core, TypeOK, Pin
  <2> QED
    BY <2>2 DEF ConfiguredInv
<1> QED
  BY <1>1, <1>2, <1>3, InvAlways, PTL DEF Spec
-----------------------------------------------------------------------------
(* What holds when every begin_transaction succeeds, no COMMIT is refused    *)
(* and no failing statement ends a transaction.                              *)

(* The retain of begin_transaction is there exactly as long as its           *)
(* transaction.                                                              *)
OwedInv == died = "no" => owed = IF txn.active THEN 1 ELSE 0

LEMMA OwedStep ==
    ASSUME Without({"begin", "commit", "undone"}), Inv, OwedInv, [Next]_vars
    PROVE  OwedInv'
<1>0. "begin" \notin allowed /\ "commit" \notin allowed /\ "undone" \notin allowed
  BY DEF Without
<1>1. CASE UNCHANGED vars
  BY <1>1 DEF vars, OwedInv
<1>2. CASE died = "no" /\ Call
  <2>1. TypeOK /\ died = "no" /\ owed = IF txn.active THEN 1 ELSE 0
    BY <1>2 DEF Inv, OwedInv
  <2>2. ASSUME UNCHANGED owed, txn'.active = txn.active
        PROVE  OwedInv'
    BY <2>1, <2>2 DEF OwedInv
  <2>3. ASSUME NEW a \in BeginSQL, txn' = a.txn, owed' = owed + 1
        PROVE  OwedInv'
    <3>1. a.rc = "ok"
      BY <1>0, AnswerFields DEF BeginSQL, Fails
    <3>2. ~txn.active /\ txn'.active
      BY <2>1, <2>3, <3>1, BeginAnswers
    <3> QED
      BY <2>1, <2>3, <3>2 DEF OwedInv
  <2>4. ASSUME NEW a \in CommitSQL \cup RollbackSQL, txn' = a.txn,
               owed' = IF a.rc = "ok" THEN owed - 1 ELSE owed
        PROVE  OwedInv'
    <3>1. \/ ~txn.active /\ a = Answer("error", txn)
          \/ txn.active /\ (a = Answer("ok", Committed) \/ a = Answer("ok", RolledBack))
      BY <1>0 DEF CommitSQL, RollbackSQL, Fails
    <3>2. CASE ~txn.active
      <4>1. owed' = owed /\ txn' = txn
        BY <2>4, <3>1, <3>2, AnswerFields
      <4> QED
        BY <2>2, <4>1
    <3>3. CASE txn.active
      <4>1. owed' = 0 /\ ~txn'.active
        BY <2>1, <2>4, <3>1, <3>3, TxnRecords, AnswerFields
      <4> QED
        BY <4>1 DEF OwedInv
    <3> QED
      BY <3>2, <3>3
  <2>5. CASE GetConnectionThrows \/ BeginThrows \/ EndUnopened
    BY <1>0, <2>2, <2>5 DEF GetConnectionThrows, BeginThrows, EndUnopened
  <2>6. CASE BeginTransaction \/ \E g \in Guards : TransactionGuard(g)
    BY <2>3, <2>6 DEF BeginTransaction, TransactionGuard
  <2>7. CASE \/ (Commit \/ Rollback) /\ ~EndUnopened
             \/ \E g \in Guards : GuardCommit(g) \/ GuardRollback(g)
    <3>1. EndTransaction(CommitSQL) \/ EndTransaction(RollbackSQL)
      BY <2>7 DEF Commit, Rollback, GuardCommit, GuardRollback
    <3> QED
      BY <2>4, <3>1 DEF EndTransaction
  <2>8. CASE Write
    <3>1. PICK a \in WriteSQL : txn' = a.txn /\ UNCHANGED owed
      BY <2>8 DEF Write
    <3>2. a.txn.active = txn.active
      <4> DEFINE w == txn.working + 1
                 written == [txn EXCEPT !.working = w,
                                        !.saved = IF txn.active THEN txn.saved ELSE w]
      <4>1. written.active = txn.active
        BY <2>1 DEF TypeOK
      <4>2. a = Answer("ok", written) \/ a = Answer("error", txn)
        BY <1>0 DEF WriteSQL, Fails
      <4> HIDE DEF written
      <4>3. a.txn = written \/ a.txn = txn
        BY <4>2, AnswerFields
      <4> QED
        BY <4>1, <4>3, Zenon
    <3> QED
      BY <2>2, <3>1, <3>2
  <2>9. ASSUME NEW g \in Guards, NEW u \in BOOLEAN, DestroyGuard(g, u)
        PROVE  OwedInv'
    <3>1. CASE obj[g] = "spent"
      BY <2>2, <2>9, <3>1 DEF DestroyGuard
    <3>2. CASE obj[g] = "armed"
      BY <2>4, <2>9, <3>2 DEF DestroyGuard, FinalSQL
    <3> QED
      BY <2>9, <3>1, <3>2 DEF DestroyGuard
  <2>10. CASE \/ \E g \in Guards : SetCommitOnDestroy(g)
              \/ \E o \in Stmts \cup Views : Create(o) \/ Destroy(o)
              \/ \E v \in Views, i \in Iters : ViewBegin(v, i)
              \/ \E i \in Iters : IteratorDone(i)
    BY <2>2, <2>10 DEF SetCommitOnDestroy, Create, Destroy, ViewBegin, IteratorDone
  <2> QED
    BY <1>2, <2>5, <2>6, <2>7, <2>8, <2>9, <2>10 DEF Call, Commit, Rollback
<1> QED
  BY <1>1, <1>2 DEF Next

(* No reference is leaked: when nobody uses the storage and no transaction   *)
(* is open, the connection has been closed.                                  *)
THEOREM ConnectionIsNotKept == Spec => []ClosedWhenNotNeeded
<1> DEFINE Calm == Without({"begin", "commit", "undone"})
<1>1. Init => (Calm => OwedInv)
  BY DEF Init, OwedInv
<1>2. Inv /\ (Calm => OwedInv) /\ [Next]_vars => (Calm => OwedInv)'
  <2> SUFFICES ASSUME Inv, Calm => OwedInv, [Next]_vars, Calm' PROVE OwedInv'
    OBVIOUS
  <2>1. Calm
    BY RecordsStep DEF Inv, Without
  <2> QED
    BY <2>1, OwedStep
<1>3. Inv /\ (Calm => OwedInv) => ClosedWhenNotNeeded
  <2> SUFFICES ASSUME Inv, OwedInv, died = "no", ~Pinned, Live = {}, ~txn.active
               PROVE  db # "open"
    BY DEF ClosedWhenNotNeeded
  <2>1. count = 0
    BY FS_EmptySet DEF Inv, Core, OwedInv, Pin
  <2> QED
    BY <2>1 DEF Inv, Core
<1> QED
  BY <1>1, <1>2, <1>3, InvAlways, PTL DEF Spec
=============================================================================
