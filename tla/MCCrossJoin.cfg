SPECIFICATION Spec
CONSTANTS
    Tables <- ObjectTables
    Ranges <- Spans
    MaxChanges = 1
    Statements <- Cards
    Companions <- Cards
    Iterators = {"i", "j"}
    Rows = 2
    MaxStale = 1
    Backups = {"b", "c"}
INVARIANT CrossJoinIsRemoved
