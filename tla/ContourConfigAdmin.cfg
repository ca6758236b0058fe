SPECIFICATION ConfigSpec
CONSTANTS
    Entries <- MCEntries
    MaxGiven = 1
INVARIANT AdminPortZeroDisables
