SPECIFICATION Spec
CONSTANTS
    MaxRetries = 4
    MaxBody = 2
    MaxChanges = 1
    Urls <- MCUrls
    Spot <- MCSpot
    Quotas <- MCQuotas
INVARIANTS TypeOK AnswerWasTrue Stream SpaceWasTrue
