SPECIFICATION Spec
CONSTANTS
    Files <- MCFiles
    Unwritable <- MCUnwritable
    Ignore = ".switchlintignore"
    Registry <- MCRegistry
    Garbled <- MCGarbled
    CommandLines <- MCCommandLines
    Disks <- MCDisks
    Edits <- Tidied
INVARIANTS
    TypeOK
    ZeroMeansExcused
    FailureLeavesNothing
    ReportAgrees
    ReportTellsAll
    BatchAccountsForAll
    DiffZeroMeansNoNewPlace
PROPERTIES
    RunsEnd
