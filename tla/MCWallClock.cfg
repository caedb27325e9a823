SPECIFICATION RecurrenceSpec
CONSTANTS
    Raises = Raises
    Zones <- MCZones
    RuleNames = {"daily", "weekly", "weekdays"}
    Walls = {0, 1, 2, 3, 12, 23}
    Starts <- MCStarts
    Delays = {0, 1, 25}
    Horizon <- MCHorizon
    GapWindow = 3
INVARIANTS
    KeepsWallClock
CHECK_DEADLOCK FALSE
