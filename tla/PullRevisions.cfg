SPECIFICATION Spec
CONSTANTS
    main = main
    v1 = v1
    Revs <- TwoRevs
    NumFiles = 2
    Config = 1
    NumCommits = 3
    SizeOf <- TwoOneTwo
    Worlds <- JustTwo
    MaxPart = 2
    None = None
INVARIANTS SnapshotOfAnyRevision
CHECK_DEADLOCK TRUE
