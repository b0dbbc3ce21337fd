--------------------------- MODULE LazyConnection ---------------------------
(* What connection_holder, connection_ref and storage_base promise together: *)
(* "it calls sqlite3_open only when the connection is really needed and      *)
(* closes when it is not needed" (dev/storage_base.h, open_forever).  The    *)
(* connection is opened in the very step in which its first user appears and *)
(* closed in the step in which the last one leaves.                          *)
CONSTANT Users              \* whoever may need the connection

VARIABLES
    users,                  \* those that need it now
    open                    \* TRUE iff the sqlite3 handle is open

lcVars == <<users, open>>

Init == \/ users = {} /\ open = FALSE
        \/ \E u \in Users : users = {u} /\ open = TRUE     \* in-memory storage

(* A user joins; the first one opens the connection. *)
Acquire(u) ==
    /\ u \notin users
    /\ users' = users \cup {u}
    /\ open' = TRUE

(* A user leaves; the last one closes the connection. *)
Leave(u) ==
    /\ u \in users
    /\ users' = users \ {u}
    /\ open' = (users' # {})

Next == \E u \in Users : Acquire(u) \/ Leave(u)

Spec == Init /\ [][Next]_lcVars
=============================================================================
