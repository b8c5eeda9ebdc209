SPECIFICATION FairSpec
CONSTANTS
    p1 = p1
    p2 = p2
    p3 = p3
    t1 = t1
    t2 = t2
    main = main
    Pods = {p1, p2, p3}
    Teams = {t1, t2}
    TeamOf <- MCTeamOf
    PodProfile <- MCPodProfile
    Waves <- MCWaves
    Price <- MCPrice
    HistoryCap = 2
    AlertCap = 2
    Clients = {a, b}
    NoUI = FALSE
    MaxTicks = 4
CHECK_DEADLOCK FALSE
INVARIANTS
    TypeOK
    ReadersSeeWhole
    AnswersAgree
    BaselinesWithinCosts
    SpikesAlerted
PROPERTIES
    KeepsPromise
    RequestsAnswered
