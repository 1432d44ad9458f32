SPECIFICATION RecoverySpec
CONSTANTS
    Recoverers = {r1}
    Recent = 1
    MaxKept = 3
    MaxRevisions = 4
    Damages = {"torn"}
    MaxRecoveries = 2
    MaxFaults = 1
CHECK_DEADLOCK FALSE
INVARIANTS TheDaysStateIsInReach
