--------------------------- MODULE StorageSession ---------------------------
(* What one thread does with the connection of one storage, call by call:    *)
(* manual transactions, transaction guards, prepared statements, the views   *)
(* of iterate() and the iterators obtained from them.  Every call is one     *)
(* step whose SQL may succeed or fail; what the retain and the release of    *)
(* the connection do inside a call is the subject of ConnectionHolder.       *)
EXTENDS Integers, FiniteSets

CONSTANTS
    Stmts,              \* the prepared_statement_t objects of the program
    Views,              \* its mapped_view and result_set_view objects
    Guards,             \* its transaction_guard_t objects
    Iters,              \* its mapped_iterator and result_set_iterator objects
    Pinned,             \* in-memory storage, or open_forever was called
    Chances,            \* the sets of mishaps that a program may meet together
    MaxOwed,            \* bound on begin_transaction calls without a commit or rollback
    MaxWrites           \* bound on the number of writes

Objects == Stmts \cup Views \cup Guards     \* what holds a connection_ref

ASSUME ObjectsAssumption == /\ IsFiniteSet(Objects)
                            /\ Stmts \cap Views = {} /\ Stmts \cap Guards = {}
                            /\ Views \cap Guards = {}
                            /\ "none" \notin Views /\ "detached" \notin Views
ASSUME PinnedAssumption == Pinned \in BOOLEAN

(* What can go wrong around the storage. *)
Mishaps == {"begin",        \* BEGIN fails (SQLITE_BUSY, inside a transaction, ...),
                            \* or on_open_internal throws before it is executed
            "commit",       \* COMMIT fails (SQLITE_BUSY, SQLITE_FULL, ...)
            "undone",       \* a failing statement rolls the transaction back (OR ROLLBACK)
            "others",       \* a guard's transaction is ended by other calls than the guard's
            "outlived",     \* an iterator outlives the view it came from
            "unopened"}     \* commit() or rollback() while the connection is not open

ASSUME ChancesAssumption == Chances \subseteq SUBSET Mishaps
ASSUME BoundsAssumption == MaxOwed \in Nat /\ MaxWrites \in Nat

VARIABLES
    allowed,            \* the mishaps that this program may meet
    count,              \* connection_holder::_retain_count
    db,                 \* what connection_holder::db points to
    configured,         \* on_open_internal has completed on this handle
    txn,                \* SQLite's view: is a transaction active, what is saved, what is visible
    owed,               \* retains of begin_transaction_internal not yet given back
    obj,                \* life cycle of each object
    commitOnDestroy,    \* transaction_guard_t::commit_on_destroy
    asked,              \* history: the guards whose commit() or rollback() was called
    iter,               \* the view each iterator with a live statement came from
    died                \* how the process ended, if it did

vars == <<allowed, count, db, configured, txn, owed, obj, commitOnDestroy, asked,
          iter, died>>

Live == {o \in Objects : obj[o] # "none"}
Pin == IF Pinned THEN 1 ELSE 0

TypeOK ==
    /\ allowed \subseteq Mishaps
    /\ count \in Nat
    /\ db \in {"null", "open", "closed", "stuck"}
    /\ configured \in BOOLEAN
    /\ txn \in [active : BOOLEAN, saved : 0..MaxWrites, working : 0..MaxWrites]
    /\ owed \in 0..MaxOwed
    /\ obj \in [Objects -> {"none", "live", "armed", "spent"}]
    /\ commitOnDestroy \in [Guards -> BOOLEAN]
    /\ asked \subseteq Guards
    /\ iter \in [Iters -> Views \cup {"none", "detached"}]
    /\ died \in {"no", "close", "guard", "dangling"}

Init ==
    /\ allowed \in Chances
    /\ count = Pin
    /\ db = IF Pinned THEN "open" ELSE "null"
    /\ configured = Pinned
    /\ txn = [active |-> FALSE, saved |-> 0, working |-> 0]
    /\ owed = 0
    /\ obj = [o \in Objects |-> "none"]
    /\ commitOnDestroy = [g \in Guards |-> FALSE]
    /\ asked = {}
    /\ iter = [i \in Iters |-> "none"]
    /\ died = "no"
-----------------------------------------------------------------------------
(* SQLite: the possible outcomes of one SQL command on the open connection.  *)

Answer(rc, t) == [rc |-> rc, txn |-> t]
Fails(flag, t) == IF flag THEN {Answer("error", t)} ELSE {}
Committed == [txn EXCEPT !.active = FALSE, !.saved = txn.working]
RolledBack == [txn EXCEPT !.active = FALSE, !.working = txn.saved]

(* There is no BEGIN inside a transaction. *)
BeginSQL ==
    Fails("begin" \in allowed, txn)
        \cup (IF txn.active THEN {} ELSE {Answer("ok", [txn EXCEPT !.active = TRUE])})

(* A COMMIT may fail and leave the transaction open, or fail and undo it. *)
CommitSQL ==
    IF txn.active
    THEN {Answer("ok", Committed)} \cup Fails("commit" \in allowed, txn)
                                   \cup Fails("commit" \in allowed, RolledBack)
    ELSE {Answer("error", txn)}

RollbackSQL ==
    IF txn.active THEN {Answer("ok", RolledBack)} ELSE {Answer("error", txn)}

(* INSERT, REPLACE, UPDATE, DELETE: saved at once outside a transaction. *)
WriteSQL ==
    LET w == txn.working + 1
    IN  {Answer("ok", [txn EXCEPT !.working = w,
                                  !.saved = IF txn.active THEN txn.saved ELSE w])}
        \cup Fails(TRUE, txn)
        \cup Fails("undone" \in allowed /\ txn.active, RolledBack)
-----------------------------------------------------------------------------
(* The statements sqlite3_close would find unfinalized once every prepared   *)
(* statement is gone: those of iterators, which hold no connection_ref.      *)
Unfinalized == {i \in Iters : iter[i] \in Views}

(* sqlite3_open overwrites the pointer to a handle that could not be closed, *)
(* which is lost together with the statements made on it.                    *)
Detached == IF db = "stuck"
            THEN [i \in Iters |-> IF i \in Unfinalized THEN "detached" ELSE iter[i]]
            ELSE iter

(* n retains; the one that opens the connection runs on_open_internal. *)
Acquire(n, onOpenOk) ==
    /\ count' = count + n
    /\ db' = "open"
    /\ configured' = IF count = 0 THEN onOpenOk ELSE configured
    /\ iter' = Detached

(* n releases; the one that drops the count to zero closes the connection,   *)
(* or leaves it as "stays" when sqlite3_close refuses.                       *)
Release(n, stays) ==
    /\ count' = count - n
    /\ db' = IF count > n THEN db ELSE IF Unfinalized = {} THEN "closed" ELSE stays
    /\ configured' = (count > n /\ configured)

(* n releases, the last one by ~connection_ref, which must not throw. *)
Leave(n, cause) ==
    /\ Release(n, db)
    /\ died' = IF count = n /\ Unfinalized # {} THEN "close" ELSE cause

(* A connection_ref that lives no longer than the call. *)
Visit ==
    /\ db' = IF count = 0 THEN "closed" ELSE db
    /\ iter' = Detached
    /\ UNCHANGED <<count, configured>>
-----------------------------------------------------------------------------
(* Variant: a bare retain instead of the connection_ref, so that nothing      *)
(* gives it back when on_open_internal throws.                               *)
GetConnectionThrowsRetained ==
    /\ count = 0
    /\ Acquire(1, FALSE)
    /\ UNCHANGED <<allowed, asked, txn, owed, obj, commitOnDestroy, died>>

(* get_connection when on_open_internal throws: open, throw, close. *)
GetConnectionThrows ==
    /\ count = 0
    /\ Visit
    /\ UNCHANGED <<allowed, asked, txn, owed, obj, commitOnDestroy, died>>

(* Variant: the connection is held by a local connection_ref. *)
BeginTransactionLocalRef ==
    /\ owed < MaxOwed
    /\ Visit
    /\ \E a \in BeginSQL : txn' = a.txn
    /\ UNCHANGED <<allowed, asked, owed, obj, commitOnDestroy, died>>

(* begin_transaction: the retain is kept whether or not BEGIN succeeds ... *)
BeginTransaction ==
    /\ owed < MaxOwed
    /\ Acquire(1, TRUE)
    /\ owed' = owed + 1
    /\ \E a \in BeginSQL : txn' = a.txn
    /\ UNCHANGED <<allowed, asked, obj, commitOnDestroy, died>>

(* ... and also when on_open_internal throws before BEGIN is executed. *)
BeginThrows ==
    /\ "begin" \in allowed
    /\ count = 0
    /\ owed < MaxOwed
    /\ Acquire(1, FALSE)
    /\ owed' = owed + 1
    /\ UNCHANGED <<allowed, asked, txn, obj, commitOnDestroy, died>>

(* Variant: the connection is released also when the SQL failed. *)
EndTransactionReleasesAlways(answers) ==
    \E a \in answers :
        /\ txn' = a.txn
        /\ owed' = IF a.rc = "ok" THEN owed - 1 ELSE owed
        /\ Release(1, "stuck")

(* Variant: the retain is given back twice. *)
EndTransactionTwice(answers) ==
    \E a \in answers :
        /\ txn' = a.txn
        /\ IF a.rc = "ok"
           THEN owed' = owed - 2 /\ Release(2, "stuck")
           ELSE UNCHANGED <<owed, count, db, configured>>

(* Variant: nothing gives the retain back. *)
EndTransactionKeeps(answers) ==
    \E a \in answers : txn' = a.txn /\ UNCHANGED <<owed, count, db, configured>>

(* storage_base::commit and rollback: the retain is given back only when the *)
(* SQL succeeded.  A failing sqlite3_close is reported to the caller.        *)
EndTransaction(answers) ==
    \E a \in answers :
        /\ txn' = a.txn
        /\ IF a.rc = "ok"
           THEN owed' = owed - 1 /\ Release(1, "stuck")
           ELSE UNCHANGED <<owed, count, db, configured>>

(* A guard's transaction is left to the guard. *)
Unguarded == "others" \in allowed \/ \A g \in Guards : obj[g] # "armed"

(* commit() and rollback() do not open the connection: without one the SQL   *)
(* fails on a null pointer or on the handle that could not be closed, and    *)
(* anything may happen on the dangling pointer that sqlite3_close leaves.    *)
EndUnopened ==
    /\ "unopened" \in allowed
    /\ db # "open"
    /\ died' \in IF db = "closed" THEN {"no", "dangling"} ELSE {"no"}
    /\ UNCHANGED <<allowed, asked, count, db, configured, txn, owed, obj, commitOnDestroy, iter>>

(* The storage's own commit() and rollback(). *)
Commit ==
    \/ EndUnopened
    \/ /\ db = "open" /\ Unguarded
       /\ EndTransaction(CommitSQL)
       /\ UNCHANGED <<allowed, asked, obj, commitOnDestroy, iter, died>>

Rollback ==
    \/ EndUnopened
    \/ /\ db = "open" /\ Unguarded
       /\ EndTransaction(RollbackSQL)
       /\ UNCHANGED <<allowed, asked, obj, commitOnDestroy, iter, died>>

(* transaction_guard: begin_transaction, then a connection_ref of its own. *)
TransactionGuard(g) ==
    /\ obj[g] = "none"
    /\ owed < MaxOwed
    /\ owed' = owed + 1
    /\ \E a \in BeginSQL :
        /\ txn' = a.txn
        /\ IF a.rc = "ok"
           THEN Acquire(2, TRUE) /\ obj' = [obj EXCEPT ![g] = "armed"]
           ELSE Acquire(1, TRUE) /\ UNCHANGED obj
    /\ commitOnDestroy' = [commitOnDestroy EXCEPT ![g] = FALSE]
    /\ asked' = asked \ {g}
    /\ UNCHANGED <<allowed, died>>

(* guard.commit_on_destroy = true; transaction(f) does it when f returns true. *)
SetCommitOnDestroy(g) ==
    /\ obj[g] = "armed"
    /\ commitOnDestroy' = [commitOnDestroy EXCEPT ![g] = TRUE]
    /\ UNCHANGED <<allowed, asked, count, db, configured, txn, owed, obj, iter, died>>

(* Variant: the guard's commit and rollback leave gotta_fire set. *)
DisarmNever(g) == UNCHANGED obj

(* gotta_fire = false, before the commit or the rollback is tried. *)
Disarm(g) == obj' = [obj EXCEPT ![g] = "spent"]

MayEnd(g) == obj[g] = "armed" \/ (obj[g] = "spent" /\ "others" \in allowed)

(* Variant: gotta_fire is cleared once the commit has succeeded. *)
GuardCommitDisarmsLast(g) ==
    /\ MayEnd(g)
    /\ asked' = asked \cup {g}
    /\ \/ EndTransaction({a \in CommitSQL : a.rc = "ok"}) /\ Disarm(g)
       \/ EndTransaction({a \in CommitSQL : a.rc # "ok"}) /\ UNCHANGED obj
    /\ UNCHANGED <<allowed, commitOnDestroy, iter, died>>

GuardCommit(g) ==
    /\ MayEnd(g)
    /\ asked' = asked \cup {g}
    /\ Disarm(g)
    /\ EndTransaction(CommitSQL)
    /\ UNCHANGED <<allowed, commitOnDestroy, iter, died>>

GuardRollback(g) ==
    /\ MayEnd(g)
    /\ asked' = asked \cup {g}
    /\ Disarm(g)
    /\ EndTransaction(RollbackSQL)
    /\ UNCHANGED <<allowed, commitOnDestroy, iter, died>>

(* Variant: the destructor always commits. *)
FinalSQLCommits(g) == CommitSQL

(* Variant: a destructor that does not commit does nothing. *)
FinalSQLOnlyCommits(g) == IF commitOnDestroy[g] THEN CommitSQL ELSE {Answer("error", txn)}

(* What the armed guard's destructor executes. *)
FinalSQL(g) == IF commitOnDestroy[g] THEN CommitSQL ELSE RollbackSQL

(* ~transaction_guard_t, also while another exception is on its way: then an *)
(* exception of the commit or the rollback ends the process.                 *)
DestroyGuard(g, unwinding) ==
    /\ obj[g] \in {"armed", "spent"}
    /\ obj' = [obj EXCEPT ![g] = "none"]
    /\ IF obj[g] = "spent"
       THEN Leave(1, "no") /\ UNCHANGED <<txn, owed>>
       ELSE \E a \in FinalSQL(g) :
            /\ txn' = a.txn
            /\ IF a.rc = "ok"
               THEN owed' = owed - 1 /\ Leave(2, "no")
               ELSE owed' = owed /\ Leave(1, IF unwinding THEN "guard" ELSE "no")
    /\ UNCHANGED <<allowed, asked, commitOnDestroy, iter>>

(* prepare() and iterate(): the object keeps the connection_ref. *)
Create(o) ==
    /\ obj[o] = "none"
    /\ Acquire(1, TRUE)
    /\ obj' = [obj EXCEPT ![o] = "live"]
    /\ UNCHANGED <<allowed, asked, txn, owed, commitOnDestroy, died>>

(* The statement is finalized first, then the connection_ref is released. *)
Destroy(o) ==
    /\ obj[o] = "live"
    /\ o \in Views => "outlived" \in allowed \/ \A i \in Iters : iter[i] # o
    /\ Leave(1, "no")
    /\ obj' = [obj EXCEPT ![o] = "none"]
    /\ UNCHANGED <<allowed, asked, txn, owed, commitOnDestroy, iter>>

(* view.begin(): the iterator owns its statement and no connection_ref. *)
ViewBegin(v, i) ==
    /\ obj[v] = "live"
    /\ iter[i] = "none"
    /\ iter' = [iter EXCEPT ![i] = v]
    /\ UNCHANGED <<allowed, asked, count, db, configured, txn, owed, obj, commitOnDestroy, died>>

(* The iterator finalizes its statement at the last row or when destroyed. *)
IteratorDone(i) ==
    /\ iter[i] # "none"
    /\ iter' = [iter EXCEPT ![i] = "none"]
    /\ UNCHANGED <<allowed, asked, count, db, configured, txn, owed, obj, commitOnDestroy, died>>

(* insert, replace, update, remove, execute of a prepared statement, ... *)
Write ==
    /\ txn.working < MaxWrites
    /\ \E a \in WriteSQL : txn' = a.txn
    /\ Visit
    /\ UNCHANGED <<allowed, asked, owed, obj, commitOnDestroy, died>>

Call ==
    \/ GetConnectionThrows \/ BeginTransaction \/ BeginThrows \/ Commit \/ Rollback \/ Write
    \/ \E g \in Guards :
        \/ TransactionGuard(g) \/ SetCommitOnDestroy(g)
        \/ GuardCommit(g) \/ GuardRollback(g)
        \/ \E unwinding \in BOOLEAN : DestroyGuard(g, unwinding)
    \/ \E o \in Stmts \cup Views : Create(o) \/ Destroy(o)
    \/ \E v \in Views, i \in Iters : ViewBegin(v, i)
    \/ \E i \in Iters : IteratorDone(i)

Next == \/ died = "no" /\ Call
        \/ died # "no" /\ UNCHANGED vars

Spec == Init /\ [][Next]_vars

(* Every guard goes out of scope at some time. *)
FairSpec == Spec /\ \A g \in Guards : WF_vars(died = "no" /\ DestroyGuard(g, FALSE))
-----------------------------------------------------------------------------
(* _retain_count is what the objects of the program and the begin_transaction *)
(* calls without a successful commit or rollback account for: no path         *)
(* releases twice, and none forgets more than "owed" records.                 *)
CountBalanced == died = "no" => count = Cardinality(Live) + owed + Pin

(* A transaction never loses its connection, and with it the uncommitted     *)
(* data: while one is active some begin_transaction still holds a retain     *)
(* that only a successful COMMIT or ROLLBACK gives back.                     *)
TransactionKeepsConnection ==
    died = "no" /\ txn.active => db = "open" /\ owed > 0

(* Prepared statements, views and guards always have an open connection,     *)
(* whatever commits, rollbacks and failures happen around them.              *)
ObjectsKeepConnection == died = "no" /\ Live # {} => db = "open"

(* ... and one that carries the storage's settings, also after failures of   *)
(* on_open_internal.  Only a begin_transaction that threw leaves an open     *)
(* connection without them: by a retain that no transaction accounts for,    *)
(* so that no commit and no rollback ever gives it back.                     *)
ObjectsSeeSettings ==
    died = "no" /\ Live # {} /\ ~configured => owed > (IF txn.active THEN 1 ELSE 0)

(* What a program may not meet for the property to be promised. *)
Without(mishaps) == allowed \cap mishaps = {}

(* A guard that is still going to fire has a transaction to end, so its      *)
(* destructor does not throw because of a transaction that is not there.     *)
ArmedGuardHasTransaction ==
    Without({"undone", "others"}) =>
        \A g \in Guards : died = "no" /\ obj[g] = "armed" => txn.active

(* The connection is closed when no object and no transaction needs it:      *)
(* sqlite3_close is called "when it is not needed".                          *)
ClosedWhenNotNeeded ==
    Without({"begin", "commit", "undone"}) =>
        (died = "no" /\ ~Pinned /\ Live = {} /\ ~txn.active => db # "open")

(* std::terminate is never reached from a destructor, and commit() and       *)
(* rollback() never use a dangling pointer: a failing BEGIN or a throwing    *)
(* on_open_internal, at any time, cannot bring it about.                     *)
NeverTerminates ==
    Without({"commit", "undone", "others", "outlived", "unopened"}) => died = "no"

(* Iterators of a view can be used, and destroyed, after the view. *)
IteratorsAreBorrowed == died # "close"

(* "After explicit function is fired guard won't do anything in d-tor": a    *)
(* guard whose commit() or rollback() the program has called leaves the      *)
(* transaction alone when it is destroyed, also when that call failed and    *)
(* whoever the transaction belongs to by then.                               *)
SpentGuardIsInert ==
    [][\A g \in asked : obj[g] # "none" /\ obj'[g] = "none" => txn' = txn]_vars

(* An armed guard that is destroyed without commit_on_destroy undoes every   *)
(* write made since it was created, and nothing that was saved before.       *)
GuardRollsBack ==
    [][Without({"undone", "others"}) =>
        \A g \in Guards :
            obj[g] = "armed" /\ obj'[g] = "none" /\ ~commitOnDestroy[g] =>
                /\ ~txn'.active
                /\ txn'.saved = txn.saved
                /\ txn'.working = txn.saved]_vars

(* The transaction of a guard comes to an end. *)
GuardEndsTransaction ==
    \A g \in Guards : (Without({"commit"}) /\ obj[g] = "armed") ~> ~txn.active
=============================================================================
