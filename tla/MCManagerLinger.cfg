CONSTANTS
    Balances <- MCBalances
    Forced = {}
SPECIFICATION FairSpec
PROPERTY SecondaryTakesOver
ACTION_CONSTRAINT Prompt
