SPECIFICATION Spec
CONSTANTS
    t1 = t1
    t2 = t2
    Teams = {t1, t2}
    Costs = {200, 600}
    Period = 2
    CheckPeriod = 11
    MaxLag = 1
    MaxPost = 7
    HistoryCap = 3
    MaxChanges = 3
    MaxChecks = 9
SYMMETRY MCSymmetry
CHECK_DEADLOCK FALSE
INVARIANTS
    HistoryComplete
    AlertsMatchSpikes
    AlertsSubside
PROPERTY
    CheckedTwiceOnlyAfterManyAlerts
