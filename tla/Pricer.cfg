SPECIFICATION PricerFairSpec
CONSTANTS
    provider = "aws"
    Hour = 3
    Timeout = 2
    StoreDelay = 1
    Refreshers = {1, 2, 3, 4, 5}
    MaxAge = 9
INVARIANTS
    PricerTypeOK
    RefreshesBounded
    ServedAgeBounded
PROPERTIES
    FetchedAtBarelyRegresses
    FreshAgain
