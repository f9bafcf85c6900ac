SPECIFICATION Spec
CONSTANTS
    p1 = p1  p2 = p2  d1 = d1  d2 = d2  d3 = d3  alice = alice  bob = bob  c1 = c1  c2 = c2
    Proposals = {p1, p2}
    Devices = {d1, d2, d3}
    Fingerprint <- Keys
    Proofs <- CompetingApprovals
    Workers = {w1, w2}
    ClaimDuration = 1
    MaxTime = 3
    Identities <- People
    Conversations = {c1, c2}
    Titles = {"x"}
    Batches <- Conversing
    NoTurnYet = NoTurnYet
    BatchLimit = 3
    MaxEvents = 5
    ConversationRetention = 2
CHECK_DEADLOCK FALSE
INVARIANTS HandedOutOnce AcceptedAreAccountedFor
PROPERTIES HandOutAuthorized KeepsConversationHistory
