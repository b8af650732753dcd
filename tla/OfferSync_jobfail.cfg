SPECIFICATION Spec
CONSTANTS
    None = None
    NoOffer = NoOffer
    NoProduct = NoProduct
    p1 = p1
    Products = {p1}
    Prices = {10, 20}
    Stocks = {0, 2}
    InventoryCap = 1
    Limit = 1
    Window = 1
    MaxRun = 0
    FailLimit = 2
    Faults = {"job_failure"}
    MaxFaults = 1
    MaxChanges = 3
INVARIANT FailedPushIsForgotten
