CONSTANTS
    RatioInputs <- MCRatioInputs
    IntervalInputs <- MCIntervalInputs
    ClockSteps <- MCClockSteps
    MaxClock = 900000
SPECIFICATION SchedulerSpec
INVARIANT ShareWithinOneSlice
INVARIANT OwnerIsFunctionOfTime
