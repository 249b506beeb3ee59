CONSTANTS
    Cards = {1, 2, 3}
    NoteOf <- MCNoteOf
    FirstQueue <- MCFirstQueue
    Browsed = {1, 2}
    BuryModes <- Uniform
    DayLength = 4
    LearnStep = 1
    LearnAhead = 3
    NewPerDay = 1
    NewFirst = TRUE
    UndoLimit = 2
    Start = 2
    MaxTime = 5
    MaxOps = 3
SPECIFICATION Spec
VIEW StudyView
CHECK_DEADLOCK FALSE
INVARIANT TypeOK
INVARIANT EntriesCurrent
INVARIANT QueueHonest
INVARIANT NewLimitKept
PROPERTY UndoRestores
