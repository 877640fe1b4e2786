CONSTANTS
    None = None
    Projects <- Two
    UserId = 70000
    Cookies <- MCCookies
    Sessions <- MCSessions
    Rows <- MCRows
    Users <- MCUsers
    Entries <- MCEntries
    Filters <- MCFilters
    LastState = 3
    PerPage = 1
    MaxChanges = 3
SPECIFICATION FairSpec
INVARIANTS
    GivenToReaders
    OneBranch
    WalkFaithful
PROPERTIES
    ListedByTheRule
    Answered
