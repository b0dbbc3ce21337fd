------------------------------ MODULE Settings ------------------------------
(* What a storage remembers about its connection, and what is in force on    *)
(* the connection it has open.  SQLite forgets most settings, all            *)
(* application-defined functions and all collations when a connection is     *)
(* closed; the storage closes its connection whenever nobody uses it, and    *)
(* on_open_internal applies what it remembers to the next one.               *)
(*                                                                           *)
(* SQLite keeps raw pointers: to the elements of the storage's lists of      *)
(* functions, to the nodes of its map of collations, and to the storage      *)
(* itself for the busy handler.                                              *)
EXTENDS Sequences, FiniteSetsExt

CONSTANTS
    SyncLevels,     \* the values given to pragma.synchronous
    JournalModes,   \* the values given to pragma.journal_mode
    LimitValues,    \* the values given to a limit; SQLite takes a negative one for a question
    HardLimit,      \* SQLite's upper bound for it, in force on a new connection
    Udfs,           \* the function types: name, number of arguments, "scalar" or "aggregate"
    Collations,     \* the names of collations
    Comparators,    \* the functions given to create_collation
    Programs,       \* the sets of settings that a program may make
    MaxStatements,  \* bound on the statement objects alive at a time
    MaxProxies      \* bound on the functions remembered at a time

Unset == -1                     \* of synchronous_ and journal_mode_
None == "none"

(* The settings in the order in which on_open_internal applies them. *)
BlockOf == [synchronous |-> 1, journal_mode |-> 2, collations |-> 3,
            limit |-> 4, busy |-> 4, functions |-> 5]
Settings == DOMAIN BlockOf

ASSUME SettingsConstants ==
    /\ Unset \notin SyncLevels /\ Unset \notin JournalModes /\ None \notin Comparators
    /\ LimitValues \subseteq Int /\ HardLimit \in Nat
    /\ Udfs \subseteq [name : STRING, argc : Int, kind : {"scalar", "aggregate"}]
    /\ Programs \subseteq SUBSET Settings
    /\ MaxStatements \in Nat /\ MaxProxies \in Nat

VARIABLES
    uses,                   \* the settings this program makes
    inMemory,               \* the storage is an in-memory database, opened when it is constructed
    statements,             \* the statement objects that hold a reference to the connection
    inTransaction,          \* begin_transaction holds another
    kept,                   \* retained for good: in memory, by open_forever, or by a begin_transaction that threw
    active,                 \* a statement stands on a row
    db,                     \* what is in force on the open connection
    synchronous_, journal_mode_,            \* pragma_t's members
    limits,                                 \* limit_accessor's, of one limit; -1: not set, or asked for
    busy_handler,                           \* the handler, or None
    scalarFunctions, aggregateFunctions,    \* lists of udf_proxy
    collatingFunctions,                     \* name to function, or None
    apart                   \* the settings a call has left different on the connection and in the memory

connection == <<statements, inTransaction, kept, active>>
levels == <<synchronous_, journal_mode_>>
lists == <<scalarFunctions, aggregateFunctions>>
vars == <<uses, inMemory, connection, db, levels, limits, busy_handler, lists, collatingFunctions, apart>>

Opened == statements > 0 \/ inTransaction \/ kept

(* SQLite finds a function by its name and number of arguments. *)
Slot(p) == <<p.fn.name, p.fn.argc>>
Slots == {<<f.name, f.argc>> : f \in Udfs}
ProxyIds == 1..MaxProxies
Proxies == [id : ProxyIds, fn : Udfs]
NoProxy == [id |-> 0]

Remembered == Range(scalarFunctions) \cup Range(aggregateFunctions)

(* A connection as sqlite3_open returns it. *)
NewConnection ==
    [synchronous |-> Unset, journal_mode |-> Unset, collations |-> {},
     limit |-> HardLimit, busy |-> None, functions |-> [s \in Slots |-> NoProxy]]

(* Each setting is one the code can make of the arguments it is given. *)
TypeOK ==
    /\ uses \in Programs /\ inMemory \in BOOLEAN
    /\ statements \in 0..MaxStatements
    /\ inTransaction \in BOOLEAN /\ kept \in BOOLEAN /\ active \in BOOLEAN
    /\ db.synchronous \in SyncLevels \cup {Unset}
    /\ db.journal_mode \in JournalModes \cup {Unset}
    /\ db.collations \subseteq Collations
    /\ db.limit \in 0..HardLimit
    /\ db.busy \in {None, "callback", "timeout"}
    /\ db.functions \in [Slots -> Proxies \cup {NoProxy}]
    /\ synchronous_ \in SyncLevels \cup {Unset}
    /\ journal_mode_ \in JournalModes \cup {Unset}
    /\ limits \in LimitValues \cup {-1}
    /\ busy_handler \in {None, "handler"}
    /\ scalarFunctions \in Seq(Proxies) /\ aggregateFunctions \in Seq(Proxies)
    /\ collatingFunctions \in [Collations -> Comparators \cup {None}]
    /\ apart \subseteq Settings
-----------------------------------------------------------------------------
(* sqlite3_limit: a negative value changes nothing, one beyond the hard      *)
(* limit is cut to it.                                                       *)
sqlite3_limit(old, value) ==
    IF value < 0 THEN old ELSE IF value > HardLimit THEN HardLimit ELSE value

(* The functions in force after the first n have been registered in order. *)
FunctionsOf(proxies, n) ==
    [s \in Slots |->
        LET at == {i \in 1..n : Slot(proxies[i]) = s}
        IN  IF at = {} THEN NoProxy ELSE proxies[Max(at)]]

(* on_open_internal's effect on a new connection, when it gets past so many  *)
(* of its blocks, has registered these collations and so many functions.     *)
(* -1 of a level is SQLite's own.                                            *)
OnOpen(blocks, colls, n) ==
    [synchronous |-> IF blocks >= 1 THEN synchronous_ ELSE Unset,
     journal_mode |-> IF blocks >= 2 THEN journal_mode_ ELSE Unset,
     collations |-> colls,
     limit |-> IF blocks >= 4 THEN sqlite3_limit(HardLimit, limits) ELSE HardLimit,
     busy |-> IF blocks >= 4 /\ busy_handler # None THEN "callback" ELSE None,
     functions |-> FunctionsOf(scalarFunctions \o aggregateFunctions, n)]

Named == {c \in Collations : collatingFunctions[c] # None}
FunctionsCount == Len(scalarFunctions) + Len(aggregateFunctions)

(* The connection that closing and opening again would give. *)
Reopened == OnOpen(5, Named, FunctionsCount)

(* get_connection on a storage that is not open, when on_open_internal throws *)
(* and the connection is closed again.  The level of synchronous is applied  *)
(* by pragma.synchronous, which forgets it first.                            *)
OpeningThrows ==
    /\ ~Opened
    /\ \/ synchronous_ # Unset /\ synchronous_' = Unset
       \/ UNCHANGED synchronous_
    /\ UNCHANGED <<db, apart>>
-----------------------------------------------------------------------------
(* The calls that keep the connection open, and those that let it go. *)

(* storage_base's constructor, which retains an in-memory database. *)
Init ==
    /\ uses \in Programs /\ inMemory \in BOOLEAN
    /\ statements = 0 /\ inTransaction = FALSE /\ kept = inMemory /\ active = FALSE
    /\ synchronous_ = Unset /\ journal_mode_ = Unset /\ limits = -1 /\ busy_handler = None
    /\ scalarFunctions = <<>> /\ aggregateFunctions = <<>>
    /\ collatingFunctions = [c \in Collations |-> None]
    /\ db = IF inMemory THEN Reopened ELSE NewConnection
    /\ apart = {}

memory == <<levels, limits, busy_handler, lists, collatingFunctions>>

OpenIfClosed ==
    /\ db' = IF Opened THEN db ELSE Reopened
    /\ UNCHANGED <<apart, memory>>

(* on_open_internal throws, and the connection stays open as it is.  Limits  *)
(* and the busy handler do not throw; the user's own on_open comes last.  A  *)
(* level of synchronous that cannot be set is forgotten.                     *)
StaysHalfOpen ==
    /\ ~Opened
    /\ \E blocks \in {0, 1, 2, 4, 5}, colls \in SUBSET Named, n \in 0..FunctionsCount :
        /\ blocks < 2 => colls = {}
        /\ blocks = 2 => colls # Named
        /\ blocks > 2 => colls = Named
        /\ blocks < 4 => n = 0
        /\ blocks = 4 => n < FunctionsCount
        /\ blocks = 5 => n = FunctionsCount
        /\ db' = OnOpen(blocks, colls, n)
        /\ synchronous_' \in IF blocks = 0 THEN {Unset, synchronous_} ELSE {synchronous_}
        /\ apart' = {s \in Settings : BlockOf[s] > blocks}
    /\ UNCHANGED <<journal_mode_, limits, busy_handler, lists, collatingFunctions>>

prepare ==
    /\ statements < MaxStatements
    /\ \/ OpenIfClosed /\ statements' = statements + 1
       \/ OpeningThrows /\ UNCHANGED <<statements, journal_mode_, limits, busy_handler, lists, collatingFunctions>>
    /\ UNCHANGED <<inTransaction, kept, active>>

begin_transaction ==
    /\ ~inTransaction
    /\ \/ OpenIfClosed /\ inTransaction' = TRUE /\ UNCHANGED kept
       \/ StaysHalfOpen /\ kept' = TRUE /\ UNCHANGED inTransaction
    /\ UNCHANGED <<statements, active>>

open_forever ==
    /\ ~kept /\ kept' = TRUE
    /\ OpenIfClosed \/ StaysHalfOpen
    /\ UNCHANGED <<statements, inTransaction, active>>

(* The last reference closes the connection. *)
CloseIfUnused ==
    /\ db' = IF Opened' THEN db ELSE NewConnection
    /\ apart' = IF Opened' THEN apart ELSE {}
    /\ UNCHANGED memory

EndTransaction ==
    /\ inTransaction /\ inTransaction' = FALSE
    /\ UNCHANGED <<statements, kept, active>>
    /\ CloseIfUnused

FinalizeStatement ==
    /\ statements > 0 /\ statements' = statements - 1
    /\ active' \in {a \in BOOLEAN : a => active /\ statements > 1}
    /\ UNCHANGED <<inTransaction, kept>>
    /\ CloseIfUnused

(* A statement is stepped to a row, or stepped to its end or reset. *)
StepStatement ==
    /\ statements > 0 /\ active' = ~active
    /\ UNCHANGED <<statements, inTransaction, kept, db, memory, apart>>
-----------------------------------------------------------------------------
(* The setters.  Each gets a connection, which opens one if the storage is   *)
(* not open and closes it afterwards: what is set on that one is lost, and   *)
(* only the memory counts.                                                   *)

OnConnection(setting, value) == db' = IF Opened THEN [db EXCEPT ![setting] = value] ELSE db

(* The PRAGMA, or opening, throws: the level has been forgotten before. *)
SynchronousThrows ==
    /\ synchronous_' = Unset
    /\ apart' = IF Opened THEN apart \cup {"synchronous"} ELSE apart
    /\ UNCHANGED db

(* SQLite refuses to change the level inside a transaction. *)
synchronous(value) ==
    /\ \/ /\ ~inTransaction
          /\ synchronous_' = value /\ OnConnection("synchronous", value)
          /\ apart' = apart \ {"synchronous"}
       \/ SynchronousThrows
    /\ UNCHANGED <<connection, journal_mode_, limits, busy_handler, lists, collatingFunctions>>

(* While the database is in use SQLite may keep its mode and report success. *)
journal_mode(value) ==
    /\ \/ /\ journal_mode_' = value /\ OnConnection("journal_mode", value)
          /\ apart' = apart \ {"journal_mode"} /\ UNCHANGED synchronous_
       \/ /\ inTransaction \/ active
          /\ journal_mode_' = value /\ apart' = apart \cup {"journal_mode"}
          /\ UNCHANGED <<synchronous_, db>>
       \/ /\ Opened
          /\ journal_mode_' = Unset /\ apart' = apart \cup {"journal_mode"}
          /\ UNCHANGED <<synchronous_, db>>
       \/ OpeningThrows /\ journal_mode_' = Unset
    /\ UNCHANGED <<connection, limits, busy_handler, lists, collatingFunctions>>

(* Variant: the value is kept for the connection only. *)
SetLimitForgets(value) ==
    /\ \/ /\ OnConnection("limit", sqlite3_limit(db.limit, value))
          /\ apart' = IF Opened /\ value < 0 THEN apart \cup {"limit"} ELSE apart \ {"limit"}
          /\ UNCHANGED synchronous_
       \/ OpeningThrows
    /\ UNCHANGED <<connection, limits, journal_mode_, busy_handler, lists, collatingFunctions>>

(* limit_accessor::set remembers the value before it has a connection, and   *)
(* remembers -1 although it sets nothing.                                    *)
SetLimit(value) ==
    /\ limits' = value
    /\ \/ /\ OnConnection("limit", sqlite3_limit(db.limit, value))
          /\ apart' = IF Opened /\ value < 0 THEN apart \cup {"limit"} ELSE apart \ {"limit"}
          /\ UNCHANGED synchronous_
       \/ OpeningThrows
    /\ UNCHANGED <<connection, journal_mode_, busy_handler, lists, collatingFunctions>>

SetBusyHandler(handler) ==
    /\ busy_handler' = handler
    /\ OnConnection("busy", IF handler = None THEN None ELSE "callback")
    /\ apart' = apart \ {"busy"}
    /\ UNCHANGED <<connection, levels, limits, lists, collatingFunctions>>

(* pragma.busy_timeout replaces the handler on the connection; nothing is    *)
(* remembered.                                                               *)
busy_timeout ==
    /\ \/ /\ OnConnection("busy", "timeout")
          /\ apart' = IF Opened THEN apart \cup {"busy"} ELSE apart
          /\ UNCHANGED synchronous_
       \/ OpeningThrows
    /\ UNCHANGED <<connection, journal_mode_, limits, busy_handler, lists, collatingFunctions>>
-----------------------------------------------------------------------------
(* Application-defined functions and collations.  SQLite refuses to replace  *)
(* or to remove one while a statement is active.                             *)

AppendTo(kind, p) ==
    /\ scalarFunctions' = IF kind = "scalar" THEN Append(scalarFunctions, p) ELSE scalarFunctions
    /\ aggregateFunctions' = IF kind = "aggregate" THEN Append(aggregateFunctions, p) ELSE aggregateFunctions

(* create_*_function_impl: the list first, the connection if there is one.   *)
(* A new element may get the address of one that has been erased.            *)
create_function(f) ==
    LET p == [id |-> Min(ProxyIds \ {q.id : q \in Remembered}), fn |-> f]
    IN  /\ FunctionsCount < MaxProxies
        /\ AppendTo(f.kind, p)
        /\ \/ /\ ~Opened
              /\ UNCHANGED <<db, apart>>
           \/ /\ Opened /\ (active => db.functions[Slot(p)] = NoProxy)
              /\ db' = [db EXCEPT !.functions[Slot(p)] = p]
              /\ apart' = IF f.kind = "scalar" /\ \E q \in Range(aggregateFunctions) : Slot(q) = Slot(p)
                          THEN apart \cup {"functions"} ELSE apart
           \/ /\ Opened
              /\ apart' = apart \cup {"functions"}
              /\ UNCHANGED db
        /\ UNCHANGED <<connection, levels, limits, busy_handler, collatingFunctions>>

FunctionsOfKind(kind) == IF kind = "scalar" THEN scalarFunctions ELSE aggregateFunctions

(* std::find_if: the first function that has the name, 0 if there is none. *)
FindByName(functions, name) ==
    LET found == {i \in 1..Len(functions) : functions[i].fn.name = name}
    IN  IF found # {} THEN Min(found) ELSE 0

Erase(functions, i) == SubSeq(functions, 1, i - 1) \o SubSeq(functions, i + 1, Len(functions))

EraseFrom(kind, i) ==
    /\ scalarFunctions' = IF kind = "scalar" THEN Erase(scalarFunctions, i) ELSE scalarFunctions
    /\ aggregateFunctions' = IF kind = "aggregate" THEN Erase(aggregateFunctions, i) ELSE aggregateFunctions

(* Variant: the connection is told of the number of arguments asked for. *)
DeleteFunctionOfOverload(f) ==
    LET functions == FunctionsOfKind(f.kind)
        i == FindByName(functions, f.name)
        slot == <<f.name, f.argc>>
    IN  /\ i # 0
        /\ EraseFrom(f.kind, i)
        /\ \/ ~Opened /\ UNCHANGED <<db, apart>>
           \/ /\ Opened /\ (active => db.functions[slot] = NoProxy)
              /\ db' = [db EXCEPT !.functions[slot] = NoProxy]
              /\ apart' = apart \cup {"functions"}
        /\ UNCHANGED <<connection, levels, limits, busy_handler, collatingFunctions>>

(* delete_function_impl takes the first function that has the name, whatever *)
(* its number of arguments; it throws, with nothing changed, if there is     *)
(* none or if SQLite refuses.                                                *)
delete_function(f) ==
    LET functions == FunctionsOfKind(f.kind)
        i == FindByName(functions, f.name)
        slot == Slot(functions[i])
    IN  /\ i # 0
        /\ Opened /\ active => db.functions[slot] = NoProxy
        /\ EraseFrom(f.kind, i)
        /\ db' = IF Opened THEN [db EXCEPT !.functions[slot] = NoProxy] ELSE db
        /\ apart' = IF Opened /\ \E p \in Remembered \ {functions[i]} : Slot(p) = slot
                    THEN apart \cup {"functions"} ELSE apart
        /\ UNCHANGED <<connection, levels, limits, busy_handler, collatingFunctions>>

(* create_collation assigns to the node of the map, which SQLite may already *)
(* point to, before it is told.                                              *)
create_collation(name, function) ==
    /\ collatingFunctions' = [collatingFunctions EXCEPT ![name] = function]
    /\ \/ /\ ~Opened
          /\ UNCHANGED <<db, apart>>
       \/ /\ Opened /\ (active => name \notin db.collations)
          /\ db' = [db EXCEPT !.collations = @ \cup {name}]
          /\ UNCHANGED apart
       \/ /\ Opened
          /\ apart' = IF name \in db.collations THEN apart ELSE apart \cup {"collations"}
          /\ UNCHANGED db
    /\ UNCHANGED <<connection, levels, limits, busy_handler, lists>>

(* create_collation without a function: nothing changes if SQLite refuses. *)
delete_collation(name) ==
    /\ active => name \notin db.collations
    /\ collatingFunctions' = [collatingFunctions EXCEPT ![name] = None]
    /\ db' = [db EXCEPT !.collations = @ \ {name}]
    /\ UNCHANGED <<connection, levels, limits, busy_handler, lists, apart>>

(* storage_base's copy constructor: the copy has a connection holder and a   *)
(* memory of its own, and inherits neither functions, collations nor levels. *)
(* A copy of an in-memory storage is another database, which is retained and *)
(* gets on_open_internal of the copy.  The model goes on with the copy.      *)
CopyStorage ==
    /\ statements' = 0 /\ inTransaction' = FALSE /\ kept' = inMemory /\ active' = FALSE
    /\ synchronous_' = Unset /\ journal_mode_' = Unset /\ limits' = -1 /\ busy_handler' = None
    /\ scalarFunctions' = <<>> /\ aggregateFunctions' = <<>>
    /\ collatingFunctions' = [c \in Collations |-> None]
    /\ db' = IF inMemory THEN Reopened' ELSE NewConnection
    /\ apart' = {}

Connections ==
    \/ prepare \/ begin_transaction \/ open_forever
    \/ EndTransaction \/ FinalizeStatement \/ StepStatement \/ CopyStorage

Setters ==
    \/ \E value \in SyncLevels : "synchronous" \in uses /\ synchronous(value)
    \/ \E value \in JournalModes : "journal_mode" \in uses /\ journal_mode(value)
    \/ \E value \in LimitValues : "limit" \in uses /\ SetLimit(value)
    \/ \E handler \in {None, "handler"} : "busy" \in uses /\ SetBusyHandler(handler)
    \/ "busy" \in uses /\ busy_timeout
    \/ \E f \in Udfs : "functions" \in uses /\ (create_function(f) \/ delete_function(f))
    \/ \E name \in Collations, function \in Comparators :
        "collations" \in uses /\ create_collation(name, function)
    \/ \E name \in Collations : "collations" \in uses /\ delete_collation(name)

Next == (Connections \/ Setters) /\ UNCHANGED <<uses, inMemory>>

Spec == Init /\ [][Next]_vars
-----------------------------------------------------------------------------
(* What SQLite may call on the open connection is there: the functions it    *)
(* has registered are elements of the lists, the collations are nodes of the *)
(* map, and the busy handler's callback finds a handler.  This is about the  *)
(* order in which create_*, delete_function_impl and create_collation change *)
(* the memory and the connection, also when SQLite refuses.                  *)
CallbacksAreLive ==
    /\ \A s \in Slots : db.functions[s] # NoProxy => db.functions[s] \in Remembered
    /\ \A name \in db.collations : collatingFunctions[name] # None
    /\ db.busy = "callback" => busy_handler # None

(* Closing the connection and opening it again changes no setting, except    *)
(* those for which one of these happened since it was opened: a call threw,  *)
(* SQLite kept its journal mode, a limit was set to -1, busy_timeout was     *)
(* called, or one of two functions with the same name and number of          *)
(* arguments was created or deleted.  This is about on_open_internal and the *)
(* memory the setters keep for it.                                           *)
ReopenRestoresSettings ==
    Opened => \A s \in Settings \ apart : db[s] = Reopened[s]
=============================================================================
