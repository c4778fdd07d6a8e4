SPECIFICATION JournalSpec
CONSTANT
    MaxEntries = 4
INVARIANT
    OnlyTheFinalAppend
CHECK_DEADLOCK FALSE
