CONSTANTS
  Home = "here"
  Members = {"p"}
  Owner <- MCOwner
  NoTurn = NoTurn
  Turns = {t1, t2, t3}
  MaxSequence = 5
  Worlds <- AllWorlds
SPECIFICATION Spec
INVARIANTS AcknowledgedIsStored OpenTurnExplained
CHECK_DEADLOCK FALSE
