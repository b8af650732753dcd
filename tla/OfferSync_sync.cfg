SPECIFICATION FairSpec
CONSTANTS
    None = None
    NoOffer = NoOffer
    NoProduct = NoProduct
    p1 = p1
    Products = {p1}
    Prices = {10, 20}
    Stocks = {0, 2}
    InventoryCap = 1
    Limit = 1
    Window = 0
    MaxRun = 0
    FailLimit = 2
    Faults <- DefiniteErrors
    MaxFaults = 2
    MaxChanges = 1
INVARIANT PushedIsPromised
INVARIANT OneCreateInFlight
PROPERTY Converges
