SPECIFICATION SpokenSpec
SYMMETRY Alike
CONSTANTS
    a = a  b = b
    Devices = {a, b}
    Worlds <- AllWorlds
    Extracted <- MCExtracted
    Fields = {"days", "time"}
    MaxAnswers = 2
INVARIANTS RoutineWasConfirmed WithheldStaysOut PausedIsQuiet
PROPERTIES ReplacesOnlyShown AnswersItsQuestion
CHECK_DEADLOCK FALSE
