SPECIFICATION FairSpec
CONSTANTS
    MaxRetries = 4
    MaxEntries = 5
    Odd = {3}
    PageSize = 1
    MaxChanges = 3
CHECK_DEADLOCK FALSE
INVARIANTS TypeOK ListingComplete ListingUnique
PROPERTY ListingReturns
