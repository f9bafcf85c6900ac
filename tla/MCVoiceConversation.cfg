SPECIFICATION ConversationSpec
CONSTANTS
    d1 = d1
    d2 = d2
    p1 = p1
    user = user
    t1 = t1
    t2 = t2
    a = a
    b = b
    Scenarios <- Everyday
    Home = home
    Members = {user}
    Owner <- OneOwner
    NoTurn = NoTurn
    Devices = {d1, d2}
    Turns = {t1, t2}
    Texts = {a, b}
    NoText = NoText
    Ttl = 2
    Window = 1
    Retention = 3
    VerifiedUntil = 2
    Proposals = {p1}
    Proofs <- TwoApprovals
    NoProposal = NoProposal
INVARIANTS CancelledIsSilent ReplanAppliedOnce
CHECK_DEADLOCK FALSE
