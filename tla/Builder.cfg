CONSTANTS
    Vendor = {"sha256"}
    Own = {"blkdat"}
    CommandLines <- MCCommandLines
    Plain <- MCPlain
    Shell <- MCShell
    MaxRuns = 2
    MaxChanges = 1
    MaxTime = 3
    MaxEdits = 1
    MaxSkew = 1
SPECIFICATION BSpec
INVARIANTS ArchiveIsCurrent LinkedIsCurrent EveryWordOnce
PROPERTIES CurrentOrMasked DryRunMakesNothing Finishes
CHECK_DEADLOCK FALSE
