CONSTANTS
    Home = "here"
    Members = {"p"}
    Participant = "p"
    Owner <- MCOwner
    NoTurn = NoTurn
    a = a  b = b
    Devices = {a, b}
    MaxEvents = 4
    BatchLimit = 2
    MaxLives = 2
    MaxLate = 1
    Scenarios <- Everyday
SPECIFICATION FairSpec
INVARIANTS NothingLost ConflictExplained
PROPERTY QueueDrains
CHECK_DEADLOCK FALSE
