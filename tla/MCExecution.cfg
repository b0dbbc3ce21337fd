SPECIFICATION Spec
CONSTANTS
    Tables <- ObjectTables
    Ranges <- Spans
    MaxChanges = 1
    Statements <- EveryStatement
    Companions <- Together
    Iterators = {"i", "j"}
    Rows = 2
    MaxStale = 1
    Backups = {"b", "c"}
INVARIANTS
    BoundAsWritten
    
    DerefIsSafe
    HolderOutlivesReferences
    HandleHasConnections
PROPERTY
    RowsInOrder
