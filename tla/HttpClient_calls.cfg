SPECIFICATION FairSpec
CONSTANTS
    client = client
    Threads = {client}
    Client = client
    Unit = 1
    Burst = 2
    MaxAttempts = 3
    Kinds = {"get", "post", "keyed_post", "patch"}
    MaxTokens = 3
    MaxCalls = 2
INVARIANT PostsOnce
INVARIANT AttemptsBounded
INVARIANT RefreshReplacesToken
INVARIANT CeilingHolds
INVARIANT WireCeiling
PROPERTY CallsEnd
