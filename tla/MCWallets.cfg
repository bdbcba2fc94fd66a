SPECIFICATION FairWalletsSpec
CONSTANTS
    MaxButtons = 2
    MaxSheets = 2
CHECK_DEADLOCK FALSE
INVARIANTS
    ScriptShared
    SheetTracked
PROPERTIES
    ButtonsImplementChargeFlow
    WalletEnds
