CONSTANTS
    Balances <- MCBalances
    Forced <- MCForced
SPECIFICATION FairSpec
INVARIANTS ValidHasExtranonce TurnComes
PROPERTIES IgnoredOnlyThen FailsOver FailsBack DualServesEach BlockedIsDropped
