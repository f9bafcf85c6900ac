SPECIFICATION IdentitySpec
CONSTANTS
    Creators = {relay, script}
    Finders = {preview}
    MaxCalendars = 4
INVARIANTS OrphansAreGuarded OneCalendar
