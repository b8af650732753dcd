SPECIFICATION FairSpec
CONSTANTS
    Jobs <- MCJobs
    Interval <- MCInterval
    Delay <- MCDelay
    MaxDuration = 4
PROPERTY RestsBetweenRuns
PROPERTY EveryJobRuns
PROPERTY StopEnds
CHECK_DEADLOCK FALSE
