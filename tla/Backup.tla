------------------------------- MODULE Backup -------------------------------
(* The online backup: a backup_t holds SQLite's handle, references to both   *)
(* connections and, when one end is given as a file name, the                *)
(* connection_holder of that end.  What is destroyed together, the members   *)
(* of an object or the variables of a call, goes one after the other.        *)
EXTENDS Integers, FiniteSets

CONSTANT Backups    \* the backup_t objects of the program

(* The ends of a backup: the storage whose make_backup_to or make_backup_from *)
(* is called, and the other one.                                              *)
Ends == {"storage", "other"}

VARIABLES
    reading,        \* a statement on the storage's connection stands on a row
    backup,         \* the life of each object: "none", "live", "moved"
    handle,         \* the objects with a sqlite3_backup that is not finished
    owner,          \* the object that owns the holder of the other end, or "nobody"
    toStorage,      \* the storage is the destination
    count,          \* _retain_count of each end, as far as backups have raised it
    freed,          \* the holder of the last backup has been destroyed
    dying,          \* the members and variables that are still to be destroyed
    misused,        \* a connection_ref of the last backup has used a destroyed holder
    mishaps         \* of the last backup.  "threw": the constructor, with a file;
                    \* "outlived": a moved-from object was there after the holder

InitBackup ==
    /\ backup = [b \in Backups |-> "none"]
    /\ handle = {} /\ owner = "nobody"
    /\ toStorage = FALSE
    /\ count = [e \in Ends |-> 0]
    /\ freed = FALSE
    /\ dying = {}
    /\ misused = FALSE /\ mishaps = {}
-----------------------------------------------------------------------------
(* Variant: the holder is declared last. *)
RankHolderLast ==
    [handle |-> 1, holder |-> 2, from |-> 3, to |-> 4, to_ |-> 5, from_ |-> 5, conRef |-> 6]

(* The order of destruction: ~backup_t finishes the handle; the members go   *)
(* in the reverse order of their declaration; the constructor's parameters,  *)
(* in any order, and then the local variable of make_backup_* come after an  *)
(* object that could not be constructed.                                     *)
Rank ==
    [handle |-> 1, from |-> 2, to |-> 3, holder |-> 4, to_ |-> 5, from_ |-> 5, conRef |-> 6]

(* The end that a connection_ref refers to. *)
EndOf(m) ==
    CASE m \in {"to", "to_"} -> IF toStorage THEN "storage" ELSE "other"
      [] m \in {"from", "from_"} -> IF toStorage THEN "other" ELSE "storage"
      [] m = "conRef" -> "other"
      [] OTHER -> "none"

(* sqlite3_backup_init refuses a destination that is being read or written.  *)
Refused(into, otherBusy) == IF into THEN reading ELSE otherBusy

(* make_backup_to and make_backup_from: the parameters and the members of    *)
(* the object retain both connections, and so does conRef that of a file,    *)
(* which is opened for the backup and is not in use.                         *)
MakeBackup(file, into, otherBusy) ==
    /\ dying = {} /\ \A c \in Backups : backup[c] = "none"
    /\ file => ~otherBusy
    /\ toStorage' = into
    /\ count' = [e \in Ends |-> count[e] + IF file /\ e = "other" THEN 3 ELSE 2]
    /\ freed' = FALSE /\ misused' = FALSE

make_backup(b, file, into, otherBusy) ==
    /\ MakeBackup(file, into, otherBusy)
    /\ ~Refused(into, otherBusy)
    /\ backup' = [backup EXCEPT ![b] = "live"]
    /\ handle' = {b}
    /\ owner' = IF file THEN b ELSE "nobody"
    /\ dying' = {"to_", "from_"} \cup IF file THEN {"conRef"} ELSE {}
    /\ mishaps' = {}

(* The constructor throws: the members are destroyed before the parameters   *)
(* and the local variable.                                                   *)
MakeBackupThrows(file, into, otherBusy) ==
    /\ MakeBackup(file, into, otherBusy)
    /\ Refused(into, otherBusy)
    /\ dying' = {"to", "from", "to_", "from_"} \cup IF file THEN {"holder", "conRef"} ELSE {}
    /\ mishaps' = IF file THEN {"threw"} ELSE {}
    /\ UNCHANGED <<backup, handle, owner>>

(* Variant: the references are taken over as they are. *)
MoveWithoutRetain(b, c) ==
    /\ dying = {} /\ backup[b] # "none" /\ backup[c] = "none"
    /\ backup' = [backup EXCEPT ![b] = "moved", ![c] = backup[b]]
    /\ handle' = IF b \in handle THEN {c} ELSE handle
    /\ owner' = IF owner = b THEN c ELSE owner
    /\ UNCHANGED <<toStorage, count, freed, dying, misused, mishaps>>

(* The move constructor takes the handle and the holder, if the object still *)
(* has them, and copies the references: the object that was moved from keeps *)
(* its own.                                                                  *)
move(b, c) ==
    /\ dying = {} /\ backup[b] # "none" /\ backup[c] = "none"
    /\ backup' = [backup EXCEPT ![b] = "moved", ![c] = backup[b]]
    /\ handle' = IF b \in handle THEN {c} ELSE handle
    /\ owner' = IF owner = b THEN c ELSE owner
    /\ count' = [e \in Ends |-> count[e] + 1]
    /\ misused' = (misused \/ freed)
    /\ UNCHANGED <<toStorage, freed, dying, mishaps>>

(* ~backup_t is entered. *)
destroy(b) ==
    /\ dying = {} /\ backup[b] # "none"
    /\ backup' = [backup EXCEPT ![b] = "none"]
    /\ dying' = {"to", "from"} \cup (IF b \in handle THEN {"handle"} ELSE {})
                               \cup (IF owner = b THEN {"holder"} ELSE {})
    /\ mishaps' = mishaps \cup IF owner = b /\ \E c \in Backups \ {b} : backup[c] # "none"
                               THEN {"outlived"} ELSE {}
    /\ UNCHANGED <<handle, owner, toStorage, count, freed, misused>>

(* The next of what is to be destroyed: the handle is finished, a reference  *)
(* releases its connection, or the holder is destroyed.                      *)
DestroyMember(m) ==
    /\ m \in dying /\ \A n \in dying : Rank[m] <= Rank[n]
    /\ dying' = dying \ {m}
    /\ handle' = IF m = "handle" THEN {} ELSE handle
    /\ count' = [e \in Ends |-> IF e = EndOf(m) THEN count[e] - 1 ELSE count[e]]
    /\ misused' = (misused \/ (EndOf(m) = "other" /\ freed))
    /\ owner' = IF m = "holder" THEN "nobody" ELSE owner
    /\ freed' = (freed \/ m = "holder")
    /\ UNCHANGED <<backup, toStorage, mishaps>>

NextBackup ==
    \/ \E b \in Backups :
        \/ \E file, into, otherBusy \in BOOLEAN : make_backup(b, file, into, otherBusy)
        \/ \E c \in Backups : move(b, c)
        \/ destroy(b)
    \/ \E file, into, otherBusy \in BOOLEAN : MakeBackupThrows(file, into, otherBusy)
    \/ \E m \in dying : DestroyMember(m)
-----------------------------------------------------------------------------
(* A connection_ref uses the destroyed holder of a file's connection in two  *)
(* cases and in no others: the constructor of backup_t has thrown, or the    *)
(* object with the holder was destroyed before one that it was moved from.   *)
(* In every other program the order of the members lets the holder outlive   *)
(* the references to it.                                                     *)
HolderOutlivesReferences ==
    /\ misused => mishaps # {}
    /\ mishaps # {} /\ dying = {} /\ (\A b \in Backups : backup[b] = "none") => misused

(* SQLite's handle is finished before one of its connections is closed,      *)
(* wherever the destruction of an object stands and however the object has   *)
(* been moved about.                                                         *)
HandleHasConnections ==
    handle # {} => ~freed /\ \A e \in Ends : count[e] > 0
=============================================================================
