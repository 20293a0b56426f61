CONSTANTS
    h1 = h1
    h2 = h2
    NoHandle = NoHandle
    Handles <- MCHandles
    MaxRetries = 1
    QueueSize = 2
    DelayCoversSubmit = TRUE
SPECIFICATION FairSpec
INVARIANTS NoUseAfterFree NoLeak QueueOfThisSession CredentialsMatch
PROPERTIES SwitchWhenExhausted ServedWhileReachable ReceiveLoopReturns
