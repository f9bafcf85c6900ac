SPECIFICATION ClientSpec
CONSTANTS
    p1 = p1  p2 = p2
    Phone = phone
    NoJob = NoJob
    Proposals = {p1, p2}
    EventCount <- OneEventEach
    Proofs <- NextPlanProofs
    Devices = {phone}
    Workers = {w1, w2}
    MaxAttempts = 1
    MaxTime = 0
CONSTRAINT HastyBound
SYMMETRY AlikeWorkers
INVARIANTS InterruptedIsHeld ExecutionHoldsApproval
