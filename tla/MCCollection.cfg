SPECIFICATION Spec
CONSTANTS
    Sessions <- MCSessions
    DeckNames <- MCDeckNames
    FilteredDecks <- MCFilteredDecks
    TagNames <- MCTagNames
    Written <- MCWritten
    Picks <- MCPicks
    Edits <- MCEdits
    UndoLimit = 2
    MaxMinutes = 1
INVARIANTS TypeOK TablesAgree
PROPERTIES UndoRestores DueKeptWhileAway SyncIsTold
CHECK_DEADLOCK FALSE
