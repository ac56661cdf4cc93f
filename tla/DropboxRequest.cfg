CONSTANTS
    MaxRetries = 4
    MaxBody = 3
    Statuses <- MCStatuses
    Summaries <- MCSummaries
SPECIFICATION FairSpec
INVARIANTS
    TypeOK
    NeverReplayed
    SizeAnnouncedOnce
    ResultMatchesError
    TransientErrorsExhaustRetries
    RejectionIsConfirmed
PROPERTIES CallReturns ImplementsApiCall
