CONSTANTS
  None = None
  NoPrompt = NoPrompt
  DayLength = 4
  FirstWeekday = 5
  CheckIns = {1}
  Preferences <- MCPreferences
  Worlds <- AllWorlds
SPECIFICATION Spec
INVARIANTS PlacementsAreSound ShownInOrder GivenUpForAReason ProjectionExplained ReportsHadConsent SilentReplanChangesNothing
CHECK_DEADLOCK FALSE
