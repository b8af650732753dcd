SPECIFICATION FairSpec
CONSTANTS
    Skus = {s1, s2}
    Goods = {g1, g2}
    Worker = worker
    Manual = manual
    Stocks = {0, 3, 5}
    Markups = {20}
    Fixed = {9}
    MaxEvents = 3
    None = None
INVARIANTS
    TypeOK
    RightOffer
PROPERTIES
    OneWriter
    ShownInTheEnd
    RunsComplete
