----------------------- MODULE ConnectionHolderProofs -----------------------
(* ConnectionHolder for any number of connection_ref objects and threads.    *)
EXTENDS ConnectionHolder, FiniteSetTheorems, TLAPS

(* Every owner but o is out of the game. *)
Alone(o) == \A q \in Owners \ {o} : pc[q] = "none"

InTransit == {"opening", "checking", "closing"}

(* What holds whatever the program and the other threads do. *)
CountInv ==
    /\ TypeOK
    /\ CountBalanced
    /\ ~isOpenedForever => pc["open_forever"] = "none"

(* What the phases say about the handle.  An owner that is about to open or  *)
(* to close is the only one: this is what a race would break.                *)
HandleInv ==
    /\ \A o \in Owners : pc[o] = "opening" => Alone(o) /\ db # "open"
    /\ \A o \in Owners : pc[o] = "closing" => Alone(o) /\ db = "open"
    /\ \A o \in Owners : pc[o] \in {"checking", "configuring", "held"} => db = "open"
    /\ (\A o \in Owners : pc[o] = "none") => db # "open"

(* How the program uses the storage. *)
UsageInv ==
    /\ pc["in_memory"] \in {"none", "held", "closing"}
    /\ inMemory /\ alive => pc["in_memory"] = "held"
    /\ heeded /\ alive =>
         \A o \in Owners \ {"in_memory"} :
            pc[o] # "none" => thr[o] = Main \/ pc["open_forever"] = "held"
    /\ alive => \A p \in Pins : pc[p] # "closing"
    /\ ~alive => \A r \in Refs : pc[r] = "none"
    /\ ~alive => \A p \in Pins : pc[p] \in {"none", "held", "closing"}
    /\ \A o, q \in Owners :
         thr[o] = thr[q] /\ pc[o] \in InTransit /\ pc[q] \in InTransit => o = q

(* When on_open_internal has run. *)
ConfigInv ==
    /\ \A o \in Owners : pc[o] = "configuring" =>
         /\ ~configured
         /\ \A q \in Owners \ {o} :
              pc[q] # "none" => q \in Refs /\ thr[q] = thr[o] /\ pc[q] # "configuring"
    /\ \A o \in Owners : pc[o] = "checking" /\ Alone(o) => ~configured
    /\ \A o \in Owners : pc[o] = "held" =>
         \/ configured
         \/ \E q \in Owners : pc[q] = "configuring" /\ thr[q] = thr[o]
         \/ foreverThrew

IInv ==
    /\ CountInv
    /\ leaks = 0
    /\ ~orphaned
    /\ HandleInv
    /\ UsageInv
    /\ ConfigInv
-----------------------------------------------------------------------------
(* Counting owners. *)

(* There are finitely many owners, so those that retained can be counted. *)
LEMMA CountedFinite ==
    /\ IsFiniteSet(Counted)
    /\ Cardinality(Counted) \in Nat
<1>1. IsFiniteSet(Pins)
  <2>1. IsFiniteSet({"open_forever"})
    BY FS_Singleton
  <2> QED
    BY <2>1, FS_AddElement, Pins = {"open_forever"} \cup {"in_memory"} DEF Pins
<1>2. IsFiniteSet(Owners)
  BY <1>1, RefsAssumption, FS_Union DEF Owners
<1> QED
  BY <1>2, FS_Subset, FS_CardinalityType DEF Counted

(* A retain counts one more owner. *)
LEMMA RetainCounts ==
    ASSUME TypeOK, CountBalanced, NEW o \in Owners, NEW t \in Threads,
           pc[o] = "none", Retain(o, t), UNCHANGED leaks
    PROVE  /\ CountBalanced'
           /\ count' \in Nat
           /\ pc' \in [Owners -> Phases]
           /\ thr' \in [Owners -> Threads]
           /\ count = 0 <=> (Counted = {} /\ leaks = 0)
<1>1. Counted' = Counted \cup {o} /\ o \notin Counted
  BY DEF TypeOK, Retain, Goto, Counted, Phases
<1>2. Cardinality(Counted') = Cardinality(Counted) + 1
  BY <1>1, CountedFinite, FS_AddElement
<1>3. count = 0 <=> (Counted = {} /\ leaks = 0)
  BY CountedFinite, FS_EmptySet DEF CountBalanced, TypeOK
<1> QED
  BY <1>2, <1>3, CountedFinite DEF CountBalanced, TypeOK, Retain, Goto, Phases

(* A release counts one owner less; it brings the count to 0 exactly when    *)
(* the owner that releases was the only one and no retain was leaked.        *)
LEMMA ReleaseCounts ==
    ASSUME TypeOK, CountBalanced, NEW o \in Owners, o \in Counted,
           Release(o), UNCHANGED leaks
    PROVE  /\ CountBalanced'
           /\ count' \in Nat
           /\ pc' \in [Owners -> Phases]
           /\ count' = 0 <=> (Counted = {o} /\ leaks = 0)
<1>1. Counted' = Counted \ {o}
  BY DEF TypeOK, Release, Goto, Counted, Phases
<1>2. Cardinality(Counted') = Cardinality(Counted) - 1
  BY <1>1, CountedFinite, FS_RemoveElement
<1>3. IsFiniteSet(Counted') /\ Cardinality(Counted') \in Nat
  BY <1>1, CountedFinite, FS_RemoveElement, FS_CardinalityType
<1>4. Counted' = {} <=> Counted = {o}
  BY <1>1
<1>5. count' = Cardinality(Counted') + leaks
  BY <1>2, CountedFinite DEF CountBalanced, TypeOK, Release
<1>6. count' = 0 <=> (Counted' = {} /\ leaks = 0)
  BY <1>3, <1>5, FS_EmptySet DEF TypeOK
<1> QED
  BY <1>3, <1>4, <1>5, <1>6 DEF CountBalanced, TypeOK, Release, Goto, Phases

(* The retain_count() == 1 test finds out whether the caller is alone. *)
LEMMA CountOne ==
    ASSUME TypeOK, CountBalanced, NEW o \in Counted
    PROVE  count = 1 <=> (Counted = {o} /\ leaks = 0)
<1>1. Cardinality(Counted) # 0
  BY CountedFinite, FS_EmptySet
<1>2. Cardinality(Counted) = 1 <=> Counted = {o}
  BY CountedFinite, FS_Singleton
<1> QED
  BY <1>1, <1>2, CountedFinite DEF CountBalanced, TypeOK

-----------------------------------------------------------------------------
(* The counting survives every interleaving and every failure. *)
LEMMA CountStep == CountInv /\ [Next]_vars => CountInv'
<1> SUFFICES ASSUME CountInv, [Next]_vars
             PROVE  CountInv'
  OBVIOUS
<1> USE MaxLeaksAssumption DEF CountInv, Owners, Pins, usage
<1>1. ASSUME NEW r \in Refs, NEW t \in Threads, GetConnection(r, t)
      PROVE  CountInv'
  <2>1. r # "open_forever"
    BY RefsAssumption
  <2> QED
    BY <1>1, <2>1, RetainCounts DEF GetConnection, TypeOK, Retain, Goto
<1>2. ASSUME NEW t \in Threads, OpenForever(t)
      PROVE  CountInv'
  BY <1>2, RetainCounts DEF OpenForever, TypeOK
<1>3. ASSUME NEW o \in Owners, OpenOk(o)
      PROVE  CountInv'
  <2>1. Counted' = Counted
    BY <1>3 DEF OpenOk, Counted, Goto, TypeOK
  <2> QED
    BY <1>3, <2>1 DEF OpenOk, Goto, TypeOK, CountBalanced, Phases
<1>4. ASSUME NEW o \in Owners, OpenFail(o)
      PROVE  CountInv'
  <2>1. CASE o \in Pins
    <3>1. Counted' = Counted
      BY <1>4, <2>1 DEF OpenFail, Counted, Goto, TypeOK
    <3> QED
      BY <1>4, <2>1, <3>1 DEF OpenFail, Goto, TypeOK, CountBalanced, Phases
  <2>2. CASE o \notin Pins
    <3>1. o \in Counted /\ Counted' = Counted \ {o}
      BY <1>4, <2>2 DEF OpenFail, Counted, Goto, TypeOK
    <3>2. Cardinality(Counted') = Cardinality(Counted) - 1
      BY <3>1, CountedFinite, FS_RemoveElement
    <3>3. CountBalanced'
      BY <1>4, <2>2, <3>2, CountedFinite DEF OpenFail, CountBalanced, TypeOK
    <3> QED
      <4>1. leaks' \in 0..MaxLeaks
        BY <1>4, <2>2 DEF OpenFail, TypeOK
      <4>2. orphaned' \in BOOLEAN
        BY <1>4, Zenon DEF OpenFail
      <4> QED
        BY <1>4, <2>2, <3>3, <4>1, <4>2 DEF OpenFail, Goto, TypeOK, Phases
  <2> QED
    BY <2>1, <2>2
<1>5. ASSUME NEW o \in Owners, CheckCount(o)
      PROVE  CountInv'
  <2>1. Counted' = Counted
    BY <1>5 DEF CheckCount, Counted, Goto, TypeOK
  <2> QED
    BY <1>5, <2>1 DEF CheckCount, Goto, TypeOK, CountBalanced, Phases
<1>6. ASSUME NEW o \in Owners, OnOpenOk(o)
      PROVE  CountInv'
  <2>1. Counted' = Counted
    BY <1>6 DEF OnOpenOk, Counted, Goto, TypeOK
  <2> QED
    BY <1>6, <2>1 DEF OnOpenOk, Goto, TypeOK, CountBalanced, Phases
<1>7. ASSUME NEW o \in Owners, OnOpenFail(o)
      PROVE  CountInv'
  <2>1. CASE o \in Pins
    <3>1. Counted' = Counted
      BY <1>7, <2>1 DEF OnOpenFail, Counted, Goto, TypeOK
    <3> QED
      BY <1>7, <2>1, <3>1 DEF OnOpenFail, Goto, TypeOK, CountBalanced, Phases
  <2>2. CASE o \notin Pins
    <3>1. o \in Counted /\ Release(o) /\ UNCHANGED leaks
      BY <1>7, <2>2 DEF OnOpenFail, Counted
    <3>2. CountBalanced' /\ count' \in Nat /\ pc' \in [Owners -> Phases]
      BY <3>1, ReleaseCounts, Zenon
    <3>3. pc["open_forever"] = "none" => pc'["open_forever"] = "none"
      BY <1>7, <3>1 DEF OnOpenFail, Release, Goto, TypeOK
    <3> QED
      BY <1>7, <2>2, <3>2, <3>3 DEF OnOpenFail, TypeOK
  <2> QED
    BY <2>1, <2>2
<1>8. ASSUME NEW o \in Owners, Close(o)
      PROVE  CountInv'
  <2>1. Counted' = Counted
    BY <1>8 DEF Close, Counted, Goto, TypeOK
  <2> QED
    BY <1>8, <2>1 DEF Close, Goto, TypeOK, CountBalanced, Phases
<1>9. ASSUME NEW r \in Refs, DropRef(r)
      PROVE  CountInv'
  <2>1. r \in Counted /\ Release(r) /\ UNCHANGED leaks
    BY <1>9 DEF DropRef, Counted
  <2>2. CountBalanced' /\ count' \in Nat /\ pc' \in [Owners -> Phases]
    BY <2>1, ReleaseCounts, Zenon
  <2>3. pc["open_forever"] = "none" => pc'["open_forever"] = "none"
    BY <1>9, <2>1 DEF DropRef, Release, Goto, TypeOK
  <2> QED
    BY <1>9, <2>2, <2>3 DEF DropRef, TypeOK
<1>10. ASSUME Destroy
       PROVE  CountInv'
  BY <1>10 DEF Destroy, TypeOK, CountBalanced, Counted
<1>11. ASSUME NEW p \in Pins, ReleasePin(p)
       PROVE  CountInv'
  <2>1. p \in Counted /\ Release(p) /\ UNCHANGED leaks
    BY <1>11 DEF ReleasePin, Counted
  <2>2. CountBalanced' /\ count' \in Nat /\ pc' \in [Owners -> Phases]
    BY <2>1, ReleaseCounts, Zenon
  <2>3. pc["open_forever"] = "none" => pc'["open_forever"] = "none"
    BY <1>11, <2>1 DEF ReleasePin, Release, Goto, TypeOK
  <2> QED
    BY <1>11, <2>2, <2>3 DEF ReleasePin, TypeOK
<1>12. CASE UNCHANGED vars
  BY <1>12 DEF vars, TypeOK, CountBalanced, Counted
<1> QED
  BY <1>1, <1>2, <1>3, <1>4, <1>5, <1>6, <1>7, <1>8, <1>9, <1>10, <1>11, <1>12
     DEF Next, CallStep, Terminated

LEMMA CountInit == Init => CountInv
<1> SUFFICES ASSUME Init PROVE CountInv
  OBVIOUS
<1> USE MaxLeaksAssumption DEF Owners, Pins
<1>1. TypeOK
  <2>1. configured \in BOOLEAN
    BY DEF Init
  <2>2. thr \in [Owners -> Threads]
    BY ThreadsAssumption DEF Init
  <2>3. pc \in [Owners -> Phases]
    BY DEF Init, Phases
  <2>4. count \in Nat /\ leaks \in 0..MaxLeaks
    BY DEF Init
  <2>5. db \in {"null", "open", "closed", "failed"}
    BY DEF Init
  <2>6. /\ isOpenedForever \in BOOLEAN /\ alive \in BOOLEAN
        /\ orphaned \in BOOLEAN /\ foreverThrew \in BOOLEAN
        /\ inMemory \in BOOLEAN /\ heeded \in BOOLEAN /\ openable \in BOOLEAN
    BY DEF Init
  <2> QED
    BY <2>1, <2>2, <2>3, <2>4, <2>5, <2>6 DEF TypeOK
<1>2. CASE inMemory
  <2>1. Counted = {"in_memory"}
    BY <1>2 DEF Init, Counted
  <2> QED
    <3>1. Cardinality(Counted) = 1
      BY <2>1, FS_Singleton
    <3>2. CountBalanced
      BY <1>2, <3>1 DEF Init, CountBalanced
    <3>3. pc["open_forever"] = "none"
      BY DEF Init
    <3> QED
      BY <1>1, <3>2, <3>3 DEF CountInv
<1>3. CASE ~inMemory
  <2>1. Counted = {}
    BY <1>3 DEF Init, Counted
  <2> QED
    BY <1>1, <1>3, <2>1, FS_EmptySet DEF Init, CountInv, CountBalanced
<1> QED
  BY <1>2, <1>3

(* Type correctness of the holder's state, whatever the program does: in     *)
(* particular _retain_count never becomes negative, so that the guard        *)
(* "retain_count() < 0" of commit and rollback is never what stops them.     *)
THEOREM TypeCorrect == Spec => []TypeOK
<1>1. Init => CountInv
  BY CountInit
<1>2. CountInv /\ [Next]_vars => CountInv'
  BY CountStep
<1>3. CountInv => TypeOK
  BY DEF CountInv
<1> QED
  BY <1>1, <1>2, <1>3, PTL DEF Spec

(* _retain_count is the number of owners plus the number of failed opens, in *)
(* every interleaving of any number of threads.                              *)
THEOREM CountIsBalanced == Spec => []CountBalanced
<1>1. CountInv => CountBalanced
  BY DEF CountInv
<1> QED
  BY <1>1, CountInit, CountStep, PTL DEF Spec
-----------------------------------------------------------------------------
(* With an in-memory storage, or with one thread until open_forever has      *)
(* returned, the three facts below make every step safe.                     *)

(* When a call starts, no owner is about to open or to close. *)
LEMMA NobodyInBetween ==
    ASSUME IInv, Disciplined, NEW t \in Threads, alive, ThreadFree(t),
           MayAccess(t)
    PROVE  \A q \in Owners : pc[q] \notin {"opening", "closing"}
<1> SUFFICES ASSUME NEW q \in Owners, pc[q] \in {"opening", "closing"}
             PROVE  FALSE
  OBVIOUS
<1>0. Alone(q)
  BY DEF IInv, HandleInv
<1> USE DEF IInv, UsageInv, CountInv, TypeOK, Alone, Owners, Pins
<1>1. CASE inMemory
  BY <1>0, <1>1
<1>2. CASE heeded /\ ~inMemory
  BY <1>0, <1>2 DEF MayAccess, ThreadFree
<1> QED
  BY <1>1, <1>2 DEF Disciplined

(* A retain by a call that starts preserves the invariant. *)
LEMMA RetainStep ==
    ASSUME IInv, Disciplined, alive,
           NEW o \in Owners, NEW t \in Threads, pc[o] = "none", o # "in_memory",
           ThreadFree(t), MayAccess(t), Retain(o, t),
           \/ o \in Refs
           \/ /\ ~isOpenedForever
              /\ o = "open_forever"
              /\ \A q \in Owners : thr[q] = t => pc[q] # "configuring",
           UNCHANGED <<usage, db, configured, alive, orphaned, leaks, foreverThrew>>,
           CountInv'
    PROVE  IInv'
<1>0. count = 0 <=> Counted = {}
  <2>1. TypeOK /\ CountBalanced /\ UNCHANGED leaks /\ leaks = 0
    BY DEF IInv, CountInv
  <2> QED
    BY <2>1, RetainCounts
<1> USE RefsAssumption DEF IInv, CountInv, TypeOK, Owners, Pins, usage
<1>1. \A q \in Owners : pc[q] \notin {"opening", "closing"}
  BY NobodyInBetween
<1>2. /\ \A q \in Owners \ {o} : pc'[q] = pc[q] /\ thr'[q] = thr[q]
      /\ pc'[o] \in {"opening", "checking"}
      /\ thr'[o] = t
  BY DEF Retain, Goto
<1>3. CASE count' = 1
  <2>1. Counted = {}
    BY <1>0, <1>3 DEF Retain
  <2>2. \A q \in Owners : pc[q] = "none"
    BY <1>1, <2>1 DEF Counted, Phases
  <2>3. pc'[o] = "opening"
    BY <1>3 DEF Retain, Goto
  <2>4. HandleInv'
    BY <1>2, <2>2, <2>3 DEF HandleInv, Alone
  <2>5. UsageInv'
    BY <1>2, <2>2, <2>3 DEF UsageInv, MayAccess, InTransit
  <2>6. ConfigInv'
    BY <1>2, <2>2, <2>3 DEF ConfigInv, Alone
  <2> QED
    BY <2>4, <2>5, <2>6
<1>4. CASE count' # 1
  <2>1. Counted # {}
    BY <1>0, <1>4 DEF Retain
  <2>2. PICK w \in Owners : pc[w] \in {"checking", "configuring", "held"}
    BY <1>1, <2>1 DEF Counted
  <2>3. pc'[o] = "checking" /\ w # o
    BY <1>4, <2>2 DEF Retain, Goto
  <2>4. HandleInv'
    BY <1>1, <1>2, <2>2, <2>3 DEF HandleInv, Alone
  <2>5. UsageInv'
    BY <1>2, <2>3 DEF UsageInv, MayAccess, ThreadFree, InTransit
  <2>6. ConfigInv'
    BY <1>2, <2>2, <2>3 DEF ConfigInv, UsageInv, MayAccess, Disciplined, Alone
  <2> QED
    BY <2>4, <2>5, <2>6
<1> QED
  BY <1>3, <1>4

(* A release by an owner that holds the connection, or whose on_open_internal *)
(* threw, preserves the invariant.                                           *)
LEMMA ReleaseStep ==
    ASSUME IInv, Disciplined, NEW o \in Owners, Release(o),
           \/ pc[o] = "held"
           \/ pc[o] = "configuring" /\ NestedDone(o) /\ o \in Refs,
           \/ o \in Refs /\ (pc[o] = "held" => ThreadFree(thr[o]))
           \/ o \in Pins /\ ~alive,
           UNCHANGED <<usage, db, configured, isOpenedForever, alive, thr, orphaned, leaks, foreverThrew>>,
           CountInv'
    PROVE  IInv'
<1>0. count' = 0 <=> Counted = {o}
  <2>1. TypeOK /\ CountBalanced /\ UNCHANGED leaks /\ leaks = 0 /\ o \in Counted
    BY DEF IInv, CountInv, Counted
  <2> QED
    BY <2>1, ReleaseCounts
<1> USE RefsAssumption DEF IInv, CountInv, TypeOK, Owners, Pins, usage
<1>1. \A q \in Owners : pc[q] \notin {"opening", "closing"}
  BY DEF HandleInv, Alone
<1>2. \A q \in Owners \ {o} : pc'[q] = pc[q]
  BY DEF Release, Goto
<1>3. Counted = {o} <=> Alone(o)
  BY <1>1 DEF Counted, Alone, Phases
<1>4. db = "open"
  BY DEF HandleInv
<1>5. pc[o] = "configuring" => Alone(o)
  BY DEF ConfigInv, NestedDone, Alone
<1>6. CASE Alone(o)
  <2>1. pc'[o] = "closing"
    BY <1>0, <1>3, <1>6 DEF Release, Goto
  <2>2. HandleInv'
    BY <1>2, <1>4, <1>6, <2>1 DEF HandleInv, Alone
  <2>3. UsageInv'
    BY <1>2, <1>6, <2>1 DEF UsageInv, Alone, InTransit
  <2>4. ConfigInv'
    BY <1>2, <1>6, <2>1 DEF ConfigInv, Alone
  <2> QED
    BY <2>2, <2>3, <2>4
<1>7. CASE ~Alone(o)
  <2>1. pc'[o] = "none" /\ pc[o] = "held"
    BY <1>0, <1>3, <1>5, <1>7 DEF Release, Goto
  <2>2. PICK w \in Owners : w # o /\ pc[w] \in {"checking", "configuring", "held"}
    BY <1>1, <1>7 DEF Alone, Phases
  <2>3. HandleInv'
    BY <1>1, <1>2, <1>4, <2>1, <2>2 DEF HandleInv, Alone
  <2>4. UsageInv'
    BY <1>2, <2>1 DEF UsageInv, InTransit
  <2>5. ConfigInv'
    <3>1. \A q \in Owners : pc'[q] = "configuring" =>
            /\ ~configured'
            /\ \A r \in Owners \ {q} :
                 pc'[r] # "none" => r \in Refs /\ thr'[r] = thr'[q] /\ pc'[r] # "configuring"
      BY <1>2, <2>1 DEF ConfigInv
    <3>2. \A q \in Owners : pc'[q] = "checking" /\ Alone(q)' => ~configured'
      BY <1>2, <2>1, <2>2, SMTT(20) DEF ConfigInv, UsageInv, Alone, Disciplined, ThreadFree
    <3>3. \A q \in Owners : pc'[q] = "held" =>
            \/ configured' \/ foreverThrew'
            \/ \E r \in Owners : pc'[r] = "configuring" /\ thr'[r] = thr'[q]
      BY <1>2, <2>1 DEF ConfigInv
    <3> QED
      BY <3>1, <3>2, <3>3 DEF ConfigInv
  <2> QED
    BY <2>3, <2>4, <2>5
<1> QED
  BY <1>6, <1>7

(* The invariant is inductive. *)
LEMMA InvStep ==
    ASSUME Disciplined, IInv, [Next]_vars
    PROVE  IInv'
<1>0. CountInv'
  BY CountStep DEF IInv
<1> USE RefsAssumption DEF CountInv, TypeOK, Owners, Pins, usage
<1>1. ASSUME NEW r \in Refs, NEW t \in Threads, GetConnection(r, t)
      PROVE  IInv'
  BY <1>0, <1>1, RetainStep DEF GetConnection
<1>2. ASSUME NEW t \in Threads, OpenForever(t)
      PROVE  IInv'
  <2>1. pc["open_forever"] = "none"
    BY <1>2 DEF OpenForever, IInv
  <2> QED
    BY <1>0, <1>2, <2>1, RetainStep DEF OpenForever
<1>3. ASSUME NEW o \in Owners, OpenOk(o)
      PROVE  IInv'
  <2>1. Alone(o) /\ db # "open"
    BY <1>3 DEF OpenOk, IInv, HandleInv
  <2>2. pc'[o] = "checking" /\ \A q \in Owners \ {o} : pc'[q] = "none"
    BY <1>3, <2>1 DEF OpenOk, Goto, Alone, IInv
  <2>3. HandleInv'
    BY <1>3, <2>2 DEF OpenOk, HandleInv
  <2>4. UsageInv'
    BY <1>3, <2>1, <2>2 DEF OpenOk, UsageInv, IInv, InTransit, Alone
  <2>5. ConfigInv'
    BY <1>3, <2>2 DEF OpenOk, ConfigInv
  <2> QED
    BY <1>0, <1>3, <2>1, <2>3, <2>4, <2>5 DEF OpenOk, IInv
<1>4. ASSUME NEW o \in Owners, OpenFail(o)
      PROVE  IInv'
  <2>1. inMemory /\ pc[o] = "opening"
    BY <1>4 DEF OpenFail, Disciplined
  <2>2. Alone(o) /\ o # "in_memory" /\ alive
    BY <2>1 DEF IInv, HandleInv, UsageInv
  <2> QED
    BY <2>1, <2>2 DEF Alone, IInv, UsageInv
<1>5. ASSUME NEW o \in Owners, CheckCount(o)
      PROVE  IInv'
  <2>1. count = 1 <=> Counted = {o}
    <3>1. TypeOK /\ CountBalanced /\ leaks = 0
      BY DEF IInv
    <3>2. o \in Counted
      BY <1>5 DEF CheckCount, Counted
    <3> QED
      BY <3>1, <3>2, CountOne
  <2>2. \A q \in Owners \ {o} : pc[q] \notin {"opening", "closing"} /\ pc'[q] = pc[q]
    BY <1>5 DEF CheckCount, Goto, IInv, HandleInv, Alone
  <2>3. Counted = {o} <=> Alone(o)
    BY <1>5, <2>2 DEF CheckCount, Counted, Alone, Phases, IInv
  <2>4. pc'[o] = IF Alone(o) THEN "configuring" ELSE "held"
    BY <1>5, <2>1, <2>3 DEF CheckCount, Goto, IInv
  <2>5. HandleInv'
    BY <1>5, <2>2, <2>4 DEF CheckCount, IInv, HandleInv, Alone
  <2>6. UsageInv'
    BY <1>5, <2>2, <2>4 DEF CheckCount, IInv, UsageInv, InTransit, Alone
  <2>7. ConfigInv'
    <3>1. CASE Alone(o)
      BY <1>5, <2>2, <2>4, <3>1 DEF CheckCount, IInv, ConfigInv, Alone
    <3>2. CASE ~Alone(o)
      <4>1. /\ pc'[o] = "held" /\ pc[o] = "checking"
            /\ UNCHANGED <<configured, thr, foreverThrew>>
            /\ \A q \in Owners \ {o} : pc'[q] = pc[q]
        BY <1>5, <2>2, <2>4, <3>2 DEF CheckCount
      <4>2. \A q \in Owners : pc'[q] = "configuring" =>
                /\ ~configured'
                /\ \A r \in Owners \ {q} :
                     pc'[r] # "none" => r \in Refs /\ thr'[r] = thr'[q] /\ pc'[r] # "configuring"
        BY <4>1 DEF IInv, ConfigInv
      <4>3. \A q \in Owners : pc'[q] = "checking" => ~Alone(q)'
        BY <4>1 DEF Alone
      <4>4. \A q \in Owners \ {o} : pc'[q] = "held" =>
                \/ configured' \/ foreverThrew'
                \/ \E r \in Owners : pc'[r] = "configuring" /\ thr'[r] = thr'[q]
        BY <4>1 DEF IInv, ConfigInv
      <4>5. \/ configured' \/ foreverThrew'
            \/ \E r \in Owners : pc'[r] = "configuring" /\ thr'[r] = thr'[o]
        BY <1>5, <2>2, <3>2, <4>1 DEF IInv, ConfigInv, UsageInv, InTransit, Alone, Disciplined, Phases
      <4> QED
        BY <4>1, <4>2, <4>3, <4>4, <4>5 DEF ConfigInv
    <3> QED
      BY <3>1, <3>2
  <2> QED
    BY <1>0, <1>5, <2>5, <2>6, <2>7 DEF CheckCount, IInv
<1>6. ASSUME NEW o \in Owners, OnOpenOk(o)
      PROVE  IInv'
  <2>1. Alone(o) /\ db = "open"
    BY <1>6 DEF OnOpenOk, NestedDone, IInv, HandleInv, ConfigInv, Alone
  <2>2. pc'[o] = "held" /\ \A q \in Owners \ {o} : pc'[q] = pc[q] /\ pc[q] = "none"
    BY <1>6, <2>1 DEF OnOpenOk, Goto, IInv, Alone
  <2>3. HandleInv'
    BY <1>6, <2>1, <2>2 DEF OnOpenOk, HandleInv
  <2>4. UsageInv'
    BY <1>6, <2>2 DEF OnOpenOk, UsageInv, IInv, InTransit
  <2>5. ConfigInv'
    BY <1>6, <2>1, <2>2 DEF OnOpenOk, ConfigInv
  <2> QED
    BY <1>0, <1>6, <2>3, <2>4, <2>5 DEF OnOpenOk, IInv
<1>7. ASSUME NEW o \in Owners, OnOpenFail(o)
      PROVE  IInv'
  <2>1. CASE o \in Pins
    <3>1. Alone(o) /\ db = "open"
      BY <1>7 DEF OnOpenFail, NestedDone, IInv, HandleInv, ConfigInv, Alone
    <3>2. pc'[o] = "held" /\ \A q \in Owners \ {o} : pc'[q] = pc[q] /\ pc[q] = "none"
      BY <1>7, <2>1, <3>1 DEF OnOpenFail, Goto, IInv, Alone
    <3>3. HandleInv'
      BY <1>7, <3>1, <3>2 DEF OnOpenFail, HandleInv
    <3>4. UsageInv'
      BY <1>7, <3>2 DEF OnOpenFail, UsageInv, IInv, InTransit
    <3>5. ConfigInv'
      BY <1>7, <2>1, <3>2 DEF OnOpenFail, ConfigInv
    <3> QED
      BY <1>0, <1>7, <3>3, <3>4, <3>5 DEF OnOpenFail, IInv
  <2>2. CASE o \in Refs
    BY <1>0, <1>7, <2>2, ReleaseStep DEF OnOpenFail
  <2> QED
    BY <2>1, <2>2
<1>8. ASSUME NEW o \in Owners, Close(o)
      PROVE  IInv'
  <2>1. Alone(o)
    BY <1>8 DEF Close, IInv, HandleInv
  <2>2. \A q \in Owners : pc'[q] = "none"
    BY <1>8, <2>1 DEF Close, Goto, IInv, Alone
  <2>3. HandleInv'
    BY <1>8, <2>2 DEF Close, HandleInv
  <2>4. UsageInv'
    BY <1>8, <2>1, <2>2 DEF Close, UsageInv, IInv, InTransit, Alone
  <2>5. ConfigInv'
    BY <2>2 DEF ConfigInv
  <2> QED
    BY <1>0, <1>8, <2>3, <2>4, <2>5 DEF Close, IInv
<1>9. ASSUME NEW r \in Refs, DropRef(r)
      PROVE  IInv'
  BY <1>0, <1>9, ReleaseStep DEF DropRef
<1>10. ASSUME Destroy
       PROVE  IInv'
  BY <1>0, <1>10 DEF Destroy, IInv, HandleInv, UsageInv, ConfigInv, Alone
<1>11. ASSUME NEW p \in Pins, ReleasePin(p)
       PROVE  IInv'
  BY <1>0, <1>11, ReleaseStep DEF ReleasePin
<1>12. CASE UNCHANGED vars
  <2>1. HandleInv'
    BY <1>12 DEF vars, IInv, HandleInv, Alone
  <2>2. UsageInv'
    BY <1>12 DEF vars, IInv, UsageInv, Alone, InTransit
  <2>3. ConfigInv'
    BY <1>12 DEF vars, IInv, ConfigInv, Alone
  <2> QED
    BY <1>0, <1>12, <2>1, <2>2, <2>3 DEF vars, IInv
<1> QED
  BY <1>1, <1>2, <1>3, <1>4, <1>5, <1>6, <1>7, <1>8, <1>9, <1>10, <1>11, <1>12
     DEF Next, CallStep, Terminated

LEMMA InvInit == Init => IInv
<1> SUFFICES ASSUME Init PROVE IInv
  OBVIOUS
<1> USE RefsAssumption DEF Init, Owners, Pins
<1>1. CountInv
  BY CountInit
<1>2. HandleInv
  BY DEF HandleInv, Alone
<1>3. UsageInv
  BY DEF UsageInv, InTransit
<1>4. ConfigInv
  BY DEF ConfigInv
<1> QED
  BY <1>1, <1>2, <1>3, <1>4 DEF IInv

(* How the program goes about the storage is settled once. *)
LEMMA UsageStays == [Next]_vars => UNCHANGED usage
  BY DEF Next, CallStep, Terminated, vars, GetConnection, OpenForever, OpenOk,
         OpenFail, CheckCount, OnOpenOk, OnOpenFail, Close, DropRef, Destroy,
         ReleasePin

LEMMA InvAlways == Spec => [](Disciplined => IInv)
<1>1. (Disciplined => IInv) /\ [Next]_vars => (Disciplined => IInv)'
  <2> SUFFICES ASSUME Disciplined => IInv, [Next]_vars, Disciplined'
               PROVE  IInv'
    OBVIOUS
  <2>1. Disciplined
    BY UsageStays DEF Disciplined, usage
  <2> QED
    BY <2>1, InvStep
<1>2. Init => (Disciplined => IInv)
  BY InvInit
<1> QED
  BY <1>1, <1>2, PTL DEF Spec

(* If sqlite3_open does not fail, and the storage is in-memory or used by    *)
(* one thread until open_forever has returned, nobody ever holds a           *)
(* connection that is not open, however many threads and references.         *)
THEOREM HeldConnectionIsOpen == Spec => []HeldIsOpen
<1>1. (Disciplined => IInv) => HeldIsOpen
  BY DEF IInv, HandleInv, HeldIsOpen, Owners
<1> QED
  BY <1>1, InvAlways, PTL

(* Under the same conditions a held connection carries the settings that     *)
(* on_open_internal applies.                                                 *)
THEOREM HeldConnectionIsConfigured == Spec => []HeldIsConfigured
<1>1. (Disciplined => IInv) => HeldIsConfigured
  BY DEF IInv, ConfigInv, HeldIsConfigured, Owners
<1> QED
  BY <1>1, InvAlways, PTL

(* Under the same conditions on_open_internal runs once per opened handle.   *)
THEOREM OnOpenRunsOnce == Spec => []ConfiguredOnce
<1>1. (Disciplined => IInv) => ConfiguredOnce
  BY DEF IInv, ConfigInv, ConfiguredOnce
<1> QED
  BY <1>1, InvAlways, PTL

(* Under the same conditions every handle is opened into an empty pointer    *)
(* and closed once, when nobody uses it.                                     *)
THEOREM HandleOpenedAndClosedOnce == Spec => []OpenCloseOnce
<1>1. (Disciplined => IInv) => OpenCloseOnce
  BY DEF IInv, HandleInv, OpenCloseOnce, Alone, Counted
<1> QED
  BY <1>1, InvAlways, PTL

-----------------------------------------------------------------------------
(* The holder implements LazyConnection. *)

(* The handle is open exactly while somebody needs the connection. *)
LEMMA OpenIffNeeded == IInv => (db = "open" <=> Needing # {})
  BY DEF IInv, CountInv, TypeOK, HandleInv, Needing, Phases, Alone

(* A step changes one owner's need at most. *)
LEMMA NeedStep ==
    ASSUME IInv, [Next]_vars
    PROVE  \/ Needing' = Needing
           \/ \E o \in Owners : o \notin Needing /\ Needing' = Needing \cup {o}
           \/ \E o \in Owners : o \in Needing /\ Needing' = Needing \ {o}
<1> DEFINE Goal == \/ Needing' = Needing
                   \/ \E o \in Owners : o \notin Needing /\ Needing' = Needing \cup {o}
                   \/ \E o \in Owners : o \in Needing /\ Needing' = Needing \ {o}
<1>1. ASSUME NEW o \in Owners, NEW phase \in Phases, Goto(o, phase)
      PROVE  Goal
  BY <1>1 DEF Goto, Needing, IInv, CountInv, TypeOK
<1>2. CASE UNCHANGED pc
  BY <1>2 DEF Needing
<1>3. (\E o \in Owners, phase \in Phases : Goto(o, phase)) \/ UNCHANGED pc
  BY DEF Next, CallStep, Terminated, vars, GetConnection, OpenForever, OpenOk,
         OpenFail, CheckCount, OnOpenOk, OnOpenFail, Close, DropRef, Destroy,
         ReleasePin, Retain, Release, Owners, Pins, Phases
<1> QED
  BY <1>1, <1>2, <1>3

(* Every step of the holder is a step of the lazy connection or leaves it    *)
(* unchanged.                                                                *)
LEMMA RefinementStep ==
    ASSUME Disciplined => IInv, (Disciplined => IInv)', [Next]_vars
    PROVE  [LC!Next]_LC!lcVars
<1> DEFINE users == IF Disciplined THEN Needing ELSE {}
           open == Disciplined /\ db = "open"
<1>0. Disciplined' <=> Disciplined
  BY UsageStays DEF Disciplined, usage
<1>1. CASE ~Disciplined
  <2>1. ~Disciplined'
    BY <1>0, <1>1
  <2>2. users' = users
    BY <1>1, <2>1
  <2>3. open' = open
    BY <1>1, <2>1
  <2> QED
    BY <2>2, <2>3 DEF LC!lcVars
<1>2. CASE Disciplined
  <2>0. IInv /\ IInv' /\ Disciplined'
    BY <1>0, <1>2
  <2>1. users = Needing /\ users' = Needing'
    BY <1>2, <2>0
  <2>2. open <=> Needing # {}
    BY <1>2, <2>0, OpenIffNeeded
  <2>3. open' <=> Needing' # {}
    <3>1. (IInv => (db = "open" <=> Needing # {}))'
      BY OpenIffNeeded, PTL
    <3> QED
      BY <2>0, <3>1
  <2>4. CASE Needing' = Needing
    <3>1. users' = users /\ open' = open
      BY <2>1, <2>2, <2>3, <2>4
    <3> QED
      BY <3>1 DEF LC!lcVars
  <2>5. ASSUME NEW o \in Owners, o \notin Needing, Needing' = Needing \cup {o}
        PROVE  LC!Next
    <3>1. open' = TRUE
      BY <2>3, <2>5
    <3>2. o \notin users /\ users' = users \cup {o}
      BY <2>1, <2>5
    <3> QED
      BY <3>1, <3>2 DEF LC!Next, LC!Acquire
  <2>6. ASSUME NEW o \in Owners, o \in Needing, Needing' = Needing \ {o}
        PROVE  LC!Next
    <3>1. open' = (users' # {})
      BY <2>1, <2>3
    <3>2. o \in users /\ users' = users \ {o}
      BY <2>1, <2>6
    <3> QED
      BY <3>1, <3>2 DEF LC!Next, LC!Leave
  <2> QED
    BY <2>0, <2>4, <2>5, <2>6, NeedStep
<1> QED
  BY <1>1, <1>2

(* The holder's initial states are initial states of the lazy connection. *)
LEMMA RefinementInit == Init => LC!Init
<1> SUFFICES ASSUME Init PROVE LC!Init
  OBVIOUS
<1> DEFINE users == IF Disciplined THEN Needing ELSE {}
           open == Disciplined /\ db = "open"
<1> USE RefsAssumption DEF Init, Owners, Pins, Needing
<1>1. CASE inMemory
  <2>1. users = {"in_memory"} /\ open = TRUE
    BY <1>1 DEF Disciplined
  <2> QED
    BY <2>1 DEF LC!Init
<1>2. CASE ~inMemory
  <2>1. users = {} /\ open = FALSE
    BY <1>2
  <2> QED
    BY <2>1 DEF LC!Init
<1> QED
  BY <1>1, <1>2

(* Under the same conditions the whole mechanism implements the promise of   *)
(* the comment on open_forever: the connection is opened when it is needed   *)
(* and closed when it is not needed any more.                                *)
THEOREM ImplementsLazyConnection == Spec => OpenOnlyWhenNeeded
<1>1. (Disciplined => IInv) /\ (Disciplined => IInv)' /\ [Next]_vars
        => [LC!Next]_LC!lcVars
  BY RefinementStep
<1> QED
  BY <1>1, InvAlways, RefinementInit, PTL DEF Spec, OpenOnlyWhenNeeded, LC!Spec
=============================================================================
