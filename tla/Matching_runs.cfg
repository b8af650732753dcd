SPECIFICATION Spec
CONSTANTS
    None = None
    s1 = s1
    s2 = s2
    g1 = g1
    g2 = g2
    Skus = {s1, s2}
    Goods = {g1, g2}
    Scores = {0, 60, 92}
    ReviewScore = 70
    AutoScore = 92
    TieMargin = 2
    MaxReviews = 2
    MaxRescores = 1
    MaxAborts = 1
INVARIANT OneOwner
INVARIANT UnracedDecisionStands
INVARIANT SuggestedOnce
INVARIANT AutoIsClear
