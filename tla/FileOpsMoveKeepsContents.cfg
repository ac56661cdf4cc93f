SPECIFICATION Spec
CONSTANTS
    MaxRetries = 2
    MaxMeddling = 1
    Folder = Folder
    Theirs = Theirs
    f1 = f1
    f2 = f2
    Names <- MCNames
    Trees <- MCTrees
    Jobs <- MCJobs
    Spots <- MCSpots
CHECK_DEADLOCK FALSE
INVARIANT MoveKeepsContents
