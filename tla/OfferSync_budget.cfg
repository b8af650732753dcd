SPECIFICATION Spec
CONSTANTS
    None = None
    NoOffer = NoOffer
    NoProduct = NoProduct
    p1 = p1
    Products = {p1}
    Prices = {10, 20}
    Stocks = {1}
    InventoryCap = 1
    Limit = 1
    Window = 2
    MaxRun = 1
    FailLimit = 2
    Faults <- Uncertainty
    MaxFaults = 1
    MaxChanges = 3
INVARIANT BudgetRespected
