CONSTANTS
    Peers = {1}
    Domains = {1, 2}
    Folders = {1}
    FolderOf <- OneFolder
    Chunks = 2
    MaxGeneration = 2
    MaxPublishes = 2
    MaxSchema = 2
    MaxFaults = 2
SPECIFICATION FairSpec
INVARIANTS
    RecordedIsMerged
    BackupBeforeMerge
    ContactIsMerged
PROPERTIES
    JoinIsComplete
    CatchesUp
CHECK_DEADLOCK FALSE
