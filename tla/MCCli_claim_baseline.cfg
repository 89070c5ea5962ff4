SPECIFICATION Spec
CONSTANTS
    Files <- MCFiles
    Unwritable <- MCUnwritable
    Ignore = ".switchlintignore"
    Registry <- MCRegistry
    Garbled <- MCGarbled
    CommandLines <- ClaimCommandLines
    Disks <- ClaimDisks
    Edits <- Worsened
INVARIANTS
    BaselineBlocks
