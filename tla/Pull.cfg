SPECIFICATION FairSpec
CONSTANTS
    main = main
    v1 = v1
    Revs <- TwoRevs
    NumFiles = 2
    Config = 1
    NumCommits = 3
    SizeOf <- TwoOneTwo
    Worlds <- AllWorlds
    MaxPart = 2
    None = None
INVARIANTS LabelHonest FilesWhole PinnedHasAllFiles
PROPERTIES PullReturns
CHECK_DEADLOCK TRUE
