SPECIFICATION FairSpec
CONSTANTS
    p1 = p1  p2 = p2  d1 = d1  d2 = d2
    NoJob = NoJob
    Proposals <- TwoProposals
    EventCount <- RecoveryEvents
    Proofs <- RecoveryProofs
    Devices = {d1}
    Workers = {w1}
    MaxAttempts = 2
    MaxTime = 1
INVARIANTS RoundUsedOnce EffectsAuthorized OneExecutionPerProof
PROPERTIES AppliedMeansWritten UserChangesKept FollowsLifecycle RequestsEnd
