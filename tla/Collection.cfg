SPECIFICATION Spec
CONSTANTS
    Titles = {1, 2}
    Passes = 2
    Workers = 2
    Executions = {1, 2}
    MaxRuns = 8
    Starts = {"running", "fatal"}
    Ends = {"succeeded", "fatal"}
    Budgets <- Troubles
INVARIANTS
    OneRunPerPass
    NothingPaidIsForgotten
    QuotaEndsCollection
