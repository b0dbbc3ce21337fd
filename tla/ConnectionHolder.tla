-------------------------- MODULE ConnectionHolder --------------------------
(* The shared, reference-counted connection of one storage, step by step:    *)
(* connection_holder::retain/release, the connection_ref objects that call   *)
(* them, storage_base::get_connection/open_forever and the destructor.       *)
(* _retain_count is atomic, but "++count, then sqlite3_open", "retain, then  *)
(* read retain_count()" and "--count, then sqlite3_close" are not, so each   *)
(* half is a step of its own and the steps of several threads interleave.    *)
EXTENDS Integers, FiniteSets

CONSTANTS
    Refs,               \* the connection_ref objects a program may create
    Threads,            \* the threads that use the storage
    Main,               \* the thread that made the storage
    MaxLeaks            \* bound on the number of failed sqlite3_open calls

(* What keeps the connection open besides a connection_ref. *)
Pins == {"open_forever", "in_memory"}
Owners == Refs \cup Pins

ASSUME RefsAssumption == IsFiniteSet(Refs) /\ Refs \cap Pins = {}
ASSUME ThreadsAssumption == Main \in Threads
ASSUME MaxLeaksAssumption == MaxLeaks \in Nat

VARIABLES
    inMemory,           \* storage_base::inMemory
    heeded,             \* only Main uses the storage before open_forever returns
    openable,           \* sqlite3_open succeeds whenever it is called
    count,              \* connection_holder::_retain_count
    db,                 \* what connection_holder::db points to
    configured,         \* on_open_internal has completed on this handle
    isOpenedForever,    \* storage_base::isOpenedForever
    alive,              \* the storage has not been destroyed
    pc,                 \* where each owner is in its retain/use/release cycle
    thr,                \* the thread that runs the owner's call
    orphaned,           \* an open handle's only pointer was overwritten
    leaks,              \* retains nobody will ever release
    foreverThrew        \* open_forever ended with an exception

(* What is settled when the storage is made: its kind, its file, and how the *)
(* program goes about it.                                                    *)
usage == <<inMemory, heeded, openable>>

vars == <<usage, count, db, configured, isOpenedForever, alive, pc, thr,
          orphaned, leaks, foreverThrew>>

Phases == {"none",          \* no object, or already released
           "opening",       \* ++count returned 1, sqlite3_open comes next
           "checking",      \* retained, the test of retain_count() comes next
           "configuring",   \* inside on_open_internal
           "held",          \* the connection is in the caller's hands
           "closing"}       \* --count returned 0, sqlite3_close comes next

(* The owners that have retained and not yet released. *)
Counted == {o \in Owners : pc[o] \in {"opening", "checking", "configuring", "held"}}

TypeOK ==
    /\ inMemory \in BOOLEAN /\ heeded \in BOOLEAN /\ openable \in BOOLEAN
    /\ count \in Nat
    /\ db \in {"null", "open", "closed", "failed"}
    /\ pc \in [Owners -> Phases]
    /\ thr \in [Owners -> Threads]
    /\ configured \in BOOLEAN /\ isOpenedForever \in BOOLEAN /\ alive \in BOOLEAN
    /\ orphaned \in BOOLEAN /\ foreverThrew \in BOOLEAN
    /\ leaks \in 0..MaxLeaks

(* The constructor: an in-memory storage retains and configures at once. *)
Init ==
    /\ inMemory \in BOOLEAN /\ heeded \in BOOLEAN /\ openable \in BOOLEAN
    /\ count = IF inMemory THEN 1 ELSE 0
    /\ db = IF inMemory THEN "open" ELSE "null"
    /\ configured = inMemory
    /\ pc = [o \in Owners |-> IF inMemory /\ o = "in_memory" THEN "held" ELSE "none"]
    /\ thr = [o \in Owners |-> Main]
    /\ alive = TRUE
    /\ isOpenedForever = FALSE
    /\ orphaned = FALSE
    /\ leaks = 0
    /\ foreverThrew = FALSE

(* A thread starts a call only when it is not in the middle of another one;  *)
(* inside on_open_internal it may (set_pragma calls get_connection).         *)
ThreadFree(t) ==
    \A o \in Owners : thr[o] = t => pc[o] \notin {"opening", "checking", "closing"}

Goto(o, phase) == pc' = [pc EXCEPT ![o] = phase]

(* Variant: a connection that is open is handed out without being counted. *)
RetainUncountedWhenOpen(o, t) ==
    /\ count' = IF db = "open" THEN count ELSE count + 1
    /\ Goto(o, IF count' = 1 /\ db # "open" THEN "opening" ELSE "checking")
    /\ thr' = [thr EXCEPT ![o] = t]

(* connection_holder::retain, up to the test of the incremented count. *)
Retain(o, t) ==
    /\ count' = count + 1
    /\ Goto(o, IF count' = 1 THEN "opening" ELSE "checking")
    /\ thr' = [thr EXCEPT ![o] = t]

(* Variant: the last release forgets sqlite3_close. *)
ReleaseNeverCloses(o) == count' = count - 1 /\ Goto(o, "none")

(* Variant: every release closes the connection. *)
ReleaseAlwaysCloses(o) == count' = count - 1 /\ Goto(o, "closing")

(* Variant: a release for the reference and one more for the connection. *)
ReleaseTwice(o) ==
    /\ count' = count - 2
    /\ Goto(o, IF count' = 0 THEN "closing" ELSE "none")

(* connection_holder::release, up to the test of the decremented count. *)
Release(o) ==
    /\ count' = count - 1
    /\ Goto(o, IF count' = 0 THEN "closing" ELSE "none")

(* A program that heeds open_forever's comment lets other threads in after    *)
(* open_forever has returned.                                                *)
MayAccess(t) == heeded => t = Main \/ pc["open_forever"] = "held"

(* get_connection: construct the connection_ref. *)
GetConnection(r, t) ==
    /\ alive
    /\ pc[r] = "none"
    /\ ThreadFree(t)
    /\ MayAccess(t)
    /\ Retain(r, t)
    /\ UNCHANGED <<usage, db, configured, isOpenedForever, alive, orphaned, leaks, foreverThrew>>

(* open_forever, called at most once as its comment demands. *)
OpenForever(t) ==
    /\ alive
    /\ ~isOpenedForever
    /\ ThreadFree(t)
    /\ MayAccess(t)
    /\ \A o \in Owners : thr[o] = t => pc[o] # "configuring"
    /\ isOpenedForever' = TRUE
    /\ Retain("open_forever", t)
    /\ UNCHANGED <<usage, db, configured, alive, orphaned, leaks, foreverThrew>>

(* sqlite3_open succeeds; a handle that was open until now is lost. *)
OpenOk(o) ==
    /\ pc[o] = "opening"
    /\ db' = "open"
    /\ configured' = FALSE
    /\ orphaned' = (orphaned \/ db = "open")
    /\ Goto(o, "checking")
    /\ UNCHANGED <<usage, count, isOpenedForever, alive, thr, leaks, foreverThrew>>

(* sqlite3_open fails: retain throws with the count incremented.  The        *)
(* connection_ref is never constructed, so nobody releases; what open_forever *)
(* retained is released by the destructor.                                   *)
OpenFail(o) ==
    /\ ~openable
    /\ pc[o] = "opening"
    /\ leaks < MaxLeaks
    /\ db' = "failed"
    /\ configured' = FALSE
    /\ orphaned' = (orphaned \/ db = "open")
    /\ IF o \in Pins
       THEN Goto(o, "held") /\ foreverThrew' = TRUE /\ UNCHANGED leaks
       ELSE Goto(o, "none") /\ leaks' = leaks + 1 /\ UNCHANGED foreverThrew
    /\ UNCHANGED <<usage, count, isOpenedForever, alive, thr>>

(* Variant: the test is made on the count before the retain. *)
CheckCountOffByOne(o) ==
    /\ pc[o] = "checking"
    /\ Goto(o, IF count = 0 THEN "configuring" ELSE "held")
    /\ UNCHANGED <<usage, count, db, configured, isOpenedForever, alive, thr, orphaned, leaks, foreverThrew>>

(* Variant: every get_connection runs on_open_internal. *)
CheckCountMissing(o) ==
    /\ pc[o] = "checking"
    /\ Goto(o, "configuring")
    /\ UNCHANGED <<usage, count, db, configured, isOpenedForever, alive, thr, orphaned, leaks, foreverThrew>>

(* if (1 == connection->retain_count()), read again after the retain. *)
CheckCount(o) ==
    /\ pc[o] = "checking"
    /\ Goto(o, IF count = 1 THEN "configuring" ELSE "held")
    /\ UNCHANGED <<usage, count, db, configured, isOpenedForever, alive, thr, orphaned, leaks, foreverThrew>>

(* The connections on_open_internal obtained for itself are gone. *)
NestedDone(o) == \A r \in Refs \ {o} : thr[r] = thr[o] => pc[r] = "none"

OnOpenOk(o) ==
    /\ pc[o] = "configuring"
    /\ NestedDone(o)
    /\ configured' = (db = "open")
    /\ Goto(o, "held")
    /\ UNCHANGED <<usage, count, db, isOpenedForever, alive, thr, orphaned, leaks, foreverThrew>>

(* on_open_internal throws: get_connection's local connection_ref releases,  *)
(* open_forever keeps what it retained.                                      *)
OnOpenFail(o) ==
    /\ pc[o] = "configuring"
    /\ NestedDone(o)
    /\ IF o \in Pins
       THEN Goto(o, "held") /\ foreverThrew' = TRUE /\ UNCHANGED count
       ELSE Release(o) /\ UNCHANGED foreverThrew
    /\ UNCHANGED <<usage, db, configured, isOpenedForever, alive, thr, orphaned, leaks>>

(* ~connection_ref *)
DropRef(r) ==
    /\ pc[r] = "held"
    /\ ThreadFree(thr[r])
    /\ Release(r)
    /\ UNCHANGED <<usage, db, configured, isOpenedForever, alive, thr, orphaned, leaks, foreverThrew>>

(* sqlite3_close; the pointer keeps its value. *)
Close(o) ==
    /\ pc[o] = "closing"
    /\ db' = "closed"
    /\ configured' = FALSE
    /\ Goto(o, "none")
    /\ UNCHANGED <<usage, count, isOpenedForever, alive, thr, orphaned, leaks, foreverThrew>>

(* ~storage_base, when nothing uses the storage any more ... *)
Destroy ==
    /\ alive
    /\ \A r \in Refs : pc[r] = "none"
    /\ \A p \in Pins : pc[p] \in {"none", "held"}
    /\ alive' = FALSE
    /\ UNCHANGED <<usage, count, db, configured, isOpenedForever, pc, thr, orphaned, leaks, foreverThrew>>

(* ... releases for open_forever first, then for the in-memory database. *)
ReleasePin(p) ==
    /\ ~alive
    /\ pc[p] = "held"
    /\ p = "in_memory" => pc["open_forever"] = "none"
    /\ Release(p)
    /\ UNCHANGED <<usage, db, configured, isOpenedForever, alive, thr, orphaned, leaks, foreverThrew>>

(* The storage is gone. *)
Terminated ==
    /\ ~alive
    /\ \A o \in Owners : pc[o] = "none"
    /\ UNCHANGED vars

(* The steps of a call that is under way. *)
CallStep(o) == \/ OpenOk(o) \/ OpenFail(o) \/ CheckCount(o)
               \/ OnOpenOk(o) \/ OnOpenFail(o) \/ Close(o)

Next ==
    \/ \E r \in Refs, t \in Threads : GetConnection(r, t)
    \/ \E t \in Threads : OpenForever(t)
    \/ \E o \in Owners : CallStep(o)
    \/ \E r \in Refs : DropRef(r)
    \/ Destroy
    \/ \E p \in Pins : ReleasePin(p)
    \/ Terminated

Spec == Init /\ [][Next]_vars

(* A thread that is inside a call goes on with it, every connection_ref goes *)
(* out of scope at some time, and a destructor that started runs to its end. *)
Fairness ==
    /\ \A o \in Owners : WF_vars(CallStep(o))
    /\ \A r \in Refs : WF_vars(DropRef(r))
    /\ \A p \in Pins : WF_vars(ReleasePin(p))

FairSpec == Spec /\ Fairness
-----------------------------------------------------------------------------
(* The usage the comment of open_forever asks for, on a file that can be     *)
(* opened: an in-memory storage, or one thread until open_forever has        *)
(* returned (for ever, if it is not called).                                 *)
Disciplined == inMemory \/ (heeded /\ openable)

(* _retain_count equals the number of owners between their retain and their  *)
(* release, plus one for every connection_ref whose sqlite3_open failed: the *)
(* counting itself survives every interleaving of threads.                   *)
CountBalanced == count = Cardinality(Counted) + leaks

(* Whoever holds what get_connection returned holds an open handle: no other *)
(* owner's release closes it and no retain returns before the open.          *)
HeldIsOpen == Disciplined => \A r \in Refs : pc[r] = "held" => db = "open"

(* ... and the handle carries the storage's settings (on_open_internal has   *)
(* run), unless the holder is called by on_open_internal itself or           *)
(* open_forever reported the failure of on_open_internal with an exception.  *)
HeldIsConfigured ==
    Disciplined =>
        \A r \in Refs :
            pc[r] = "held" =>
                \/ configured
                \/ \E o \in Owners : pc[o] = "configuring" /\ thr[o] = thr[r]
                \/ foreverThrew

(* on_open_internal is run once for each sqlite3_open: never twice on one    *)
(* handle, never re-entered through the get_connection calls it makes.       *)
ConfiguredOnce ==
    Disciplined =>
        \A o \in Owners :
            pc[o] = "configuring" =>
                /\ ~configured
                /\ \A p \in Owners : pc[p] = "configuring" => p = o

(* sqlite3_open never overwrites the pointer to an open handle, and          *)
(* sqlite3_close always gets a handle that is open and that nobody uses.     *)
OpenCloseOnce ==
    Disciplined =>
        /\ ~orphaned
        /\ \A o \in Owners :
            pc[o] = "closing" => db = "open" /\ Counted = {}

(* The connection of a destroyed storage ends up closed. *)
DestroyedIsClosed == (Disciplined /\ ~alive) ~> (db # "open")

(* "it calls sqlite3_open only when the connection is really needed": a      *)
(* program that heeds open_forever's comment is never handed a connection    *)
(* that is not open, also when an earlier sqlite3_open failed.               *)
OpensWhenNeeded == heeded => \A r \in Refs : pc[r] = "held" => db = "open"

(* The owners that need the connection: from their sqlite3_open (or their    *)
(* increment) to their sqlite3_close (or their decrement).                   *)
Needing == {o \in Owners : pc[o] \in {"checking", "configuring", "held", "closing"}}

(* An undisciplined use of the storage maps to a connection nobody needs. *)
LC == INSTANCE LazyConnection WITH
          Users <- Owners,
          users <- IF Disciplined THEN Needing ELSE {},
          open <- Disciplined /\ db = "open"

(* The holder implements the lazy connection: sqlite3_open is called for the *)
(* first owner that needs the connection and sqlite3_close for the last.     *)
OpenOnlyWhenNeeded == LC!Spec
=============================================================================
