\* One property the documentation of DropboxApi states; the code does otherwise.
CONSTANTS
    MaxRetries = 4
    MaxBody = 2
    Statuses <- MCStatuses
    Summaries <- MCSummaries
SPECIFICATION Spec
INVARIANT SuccessIsWhole
