SPECIFICATION WalletsSpec
CONSTANTS
    MaxButtons = 2
    MaxSheets = 0
CHECK_DEADLOCK FALSE
INVARIANTS
    OneButton
