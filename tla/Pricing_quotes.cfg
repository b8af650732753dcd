SPECIFICATION Spec
CONSTANTS
    None = None
    Items <- MCItems
    Rates = {90, 93}
    Pins = {None, 90}
    Roundings = {500, 9900}
    Floor = 3000
    MaxAge = 3
    MaxRun = 2
INVARIANT TypeOK
INVARIANT FreshRate
INVARIANT PriceCoversCost
INVARIANT FloorHolds
INVARIANT LimitsWin
