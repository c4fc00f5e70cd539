SPECIFICATION MCSpec
CONSTANTS
    Rows = {1, 2}
    MaxWrites = 4
    MaxFetches = 2
    MaxBreaks = 1
    api = api
    worker = worker
    hourly = hourly
    Services <- TwoServices
    Cleanup = hourly
    Columns <- TwoColumns
    Requests = {"first", "second"}
    MaxCrashes = 1
\* The system rests when the page has been served and nothing is written any more.
CHECK_DEADLOCK FALSE
INVARIANT TypeOK
PROPERTIES
    PageNeverGoesBack
    PageCatchesUp
    EveryServiceStarts
