SPECIFICATION Spec
CONSTANTS
    Records = {"mail", "fact", "ann1", "ann2"}
    Kind <- Kinds
    Name <- OneName
    External <- ExternalIds
    Manifests <- TwoSteps
    Source <- TwoSources
    Raw = {"mail"}
    Memories = {"diet", "trip"}
    MemoryUntil <- OneDeadline
    Goals = {"dream", "goal"}
    Parent <- TwoParents
    Observations = {"o1", "o2", "o3", "o4", "s1", "s2", "s3"}
    Observed <- Abandoned
    ObservedOrder <- ObservationOrder
    Groups <- GroupOrder
    Skills = {"skill"}
    Corrections = {"rest"}
    Devices = {"phone"}
    MaxBackups = 3
    MinimumObservations = 3
    FullConfidence = 5
    RecordRetention = 2
    BackupRetention = 1
    AuditRetention = 2
    Scenarios <- Everyday
INVARIANTS ChainVerifies ErasedIsUnrecoverable AuditTellsState MigrationIsWhole
CHECK_DEADLOCK FALSE
