---------------------------- MODULE CostWindows ----------------------------
(***************************************************************************)
(* The windows of the aggregator in time (aggregator.go: Run, the history, *)
(* History), what the history endpoint gives of them (api.go), and the     *)
(* check for cost spikes, which looks at one window every five minutes     *)
(* (slack.go).                                                             *)
(*                                                                         *)
(* Times are ages, in steps of a clock.  A ticker fires every period,      *)
(* whatever its reader does; its channel holds one tick, and a tick that   *)
(* finds it full is dropped.  The spike check posts its alerts one after   *)
(* the other in the loop that reads its ticker.  Costs are whole numbers   *)
(* of a unit so small that what the division below drops makes no          *)
(* difference.                                                             *)
(***************************************************************************)
EXTENDS Integers, Sequences, FiniteSets, PartialMaps

CONSTANTS
    Teams,
    Costs,         \* what a team may cost in a window
    Period,        \* steps between two ticks of Run: 15 s in the code
    CheckPeriod,   \* steps between two ticks of StartAnomalyAlerts: 5 minutes
    MaxLag,        \* bound: the steps a collect() takes
    MaxPost,       \* steps an alert's post takes at most: 10 s, the client's timeout
    HistoryCap,    \* snapshots kept: 5760 in the code
    MaxChanges,    \* bound: how often the costs change
    MaxChecks      \* bound: how many checks are made

ASSUME CostsAssumption == Costs \subseteq Nat /\ \A c \in Costs : c = 0 \/ c >= 200
ASSUME TeamsAssumption == IsFiniteSet(Teams)
(* A collect() waits for nobody: it takes far less than a day.             *)
ASSUME TimesAssumption ==
    /\ Period \in Nat \ {0} /\ CheckPeriod \in Nat \ {0}
    /\ MaxLag \in Nat /\ MaxPost \in Nat
    /\ HistoryCap \in Nat \ {0} /\ HistoryCap * Period > MaxLag
ASSUME BoundsAssumption == MaxChanges \in Nat /\ MaxChecks \in Nat

(* "Keep last 24 hours of snapshots", and the default of the endpoint.     *)
Day == HistoryCap * Period

VARIABLES
    wait,         \* steps until the ticker of Run fires
    ticked,       \* its channel holds a tick
    taking,       \* the age of the collect() under way, if there is one
    history,      \* a.history: the snapshots' ages and costs by team
    checkWait,    \* steps until the ticker of StartAnomalyAlerts fires
    checkDue,     \* its channel holds a tick
    posting,      \* teams whose alerts the check under way has not posted yet
    postAge,      \* steps the current post has taken
    baselines,    \* s.teamBaselines
    changes,      \* how often the costs have changed from one window to the next
    taken,        \* history variable: ages of all snapshots younger than Day
    checks,       \* history variable: how many checks were made
    lastCheck,    \* history variable: what the last check saw and did
    repeats       \* history variable: alerts in a row at an unchanged cost

windowVars == <<wait, ticked, taking, history, taken>>
slackVars == <<baselines, checks, lastCheck, repeats>>
postVars == <<posting, postAge>>
vars == <<windowVars, checkWait, checkDue, postVars, slackVars, changes>>

Levels == UNION {[T -> Costs] : T \in SUBSET Teams}

TypeOK ==
    /\ wait \in 1..Period /\ ticked \in BOOLEAN
    /\ taking = {} \/ \E age \in 0..MaxLag : taking = {age}
    /\ Len(history) <= HistoryCap
    /\ \A i \in DOMAIN history : history[i].age \in Nat /\ history[i].TeamCosts \in Levels
    /\ taken \subseteq 0..Day - 1
    /\ checkWait \in 1..CheckPeriod /\ checkDue \in BOOLEAN
    /\ posting \subseteq lastCheck.alerts /\ postAge \in 0..MaxPost
    /\ IsMap(baselines, Teams, Nat)
    /\ changes \in 0..MaxChanges
    /\ checks \in 0..MaxChecks
    /\ repeats \in [Teams -> Nat]

Nothing == [age |-> 0, TeamCosts |-> NoKeys, earlier |-> [t \in Teams |-> {}], alerts |-> {},
            before |-> 0]

Init ==
    /\ wait = Period /\ ticked = FALSE /\ taking = {}
    /\ history = <<>> /\ taken = {}
    /\ checkWait = CheckPeriod /\ checkDue = FALSE
    /\ posting = {} /\ postAge = 0
    /\ baselines = NoKeys
    /\ changes = 0
    /\ checks = 0 /\ lastCheck = Nothing /\ repeats = [t \in Teams |-> 0]

-----------------------------------------------------------------------------
(* A step of the clock.  An idle loop takes its tick at once.              *)
Clock ==
    /\ ticked => taking # {}
    /\ checkDue => posting # {}
    /\ \A age \in taking : age < MaxLag
    /\ posting # {} => postAge < MaxPost
    /\ wait' = IF wait = 1 THEN Period ELSE wait - 1
    /\ ticked' = (ticked \/ wait = 1)
    /\ taking' = {age + 1 : age \in taking}
    /\ history' = [i \in DOMAIN history |-> [history[i] EXCEPT !.age = @ + 1]]
    /\ taken' = {age + 1 : age \in taken} \ {Day}
    /\ checkWait' = IF checkWait = 1 THEN CheckPeriod ELSE checkWait - 1
    /\ checkDue' = (checkDue \/ checkWait = 1)
    /\ postAge' = IF posting = {} THEN 0 ELSE postAge + 1
    /\ lastCheck' = [lastCheck EXCEPT !.age = @ + 1]
    /\ UNCHANGED <<posting, baselines, checks, repeats, changes>>

(* Run receives a tick: collect() notes the time.                          *)
CollectBegins ==
    /\ ticked /\ taking = {}
    /\ ticked' = FALSE
    /\ taking' = {0}
    /\ UNCHANGED <<wait, history, taken, checkWait, checkDue, postVars, slackVars, changes>>

(* Mutant: the history is cut back to less than its cap.                   *)
SlideTwice(snaps, snap) ==
    IF Len(snaps) < HistoryCap THEN Append(snaps, snap) ELSE Append(Tail(Tail(snaps)), snap)

Slide(snaps, snap) ==
    LET longer == Append(snaps, snap)
    IN  IF Len(longer) > HistoryCap THEN Tail(longer) ELSE longer

-----------------------------------------------------------------------------
(* Mutant: the oldest snapshot is returned.                                *)
LatestSnapshotOldest ==
    IF history = <<>> THEN [age |-> 0, TeamCosts |-> NoKeys] ELSE Head(history)

LatestSnapshot ==
    IF history = <<>> THEN [age |-> 0, TeamCosts |-> NoKeys] ELSE history[Len(history)]

(* collect() publishes its snapshot, under the time it began: what the     *)
(* teams' pods cost in this window, the same as before or not.             *)
CollectEnds ==
    \E age \in taking, costs \in Levels :
        /\ \/ costs = LatestSnapshot.TeamCosts /\ UNCHANGED changes
           \/ costs # LatestSnapshot.TeamCosts /\ changes < MaxChanges /\ changes' = changes + 1
        /\ taking' = {}
        /\ history' = Slide(history, [age |-> age, TeamCosts |-> costs])
        /\ taken' = taken \cup {age}
        /\ UNCHANGED <<wait, ticked, checkWait, checkDue, postVars, slackVars>>

(* Timestamp.After(cutoff); their order is that of their ages.             *)
History(since) == {history[i] : i \in {j \in DOMAIN history : history[j].age < since}}

AgesOf(snaps) == {snap.age : snap \in snaps}

(* The points of the endpoint; hours is {} when the parameter is absent.   *)
handleHistory(hours) ==
    IF hours = {} THEN AgesOf(History(Day))
    ELSE UNION {AgesOf(History(duration)) : duration \in hours}

-----------------------------------------------------------------------------
Spike(team, cost) == baselines[team] > 0 /\ cost > 2 * baselines[team]

(* Mutant: after an alert the baseline is left as it is.                   *)
AverageUnlessSpike(baseline, cost) ==
    IF baseline > 0 /\ cost > 2 * baseline THEN baseline ELSE (9 * baseline + cost) \div 10

(* Mutant: the cost is added to the baseline.                              *)
AverageAdds(baseline, cost) == baseline + cost \div 10

(* The exponential moving average.                                         *)
Average(baseline, cost) == (9 * baseline + cost) \div 10

(* checkAnomalies, for every team of the latest snapshot.  The baselines   *)
(* are the goroutine's own, so what it makes of all teams is decided when  *)
(* it has read the snapshot; the posts follow.                             *)
CheckAnomalies ==
    LET snap == LatestSnapshot
        costs == snap.TeamCosts
        known == DOMAIN costs \cap DOMAIN baselines
        alerts == {t \in known : Spike(t, costs[t])}
        Same(t) == t \in DOMAIN lastCheck.TeamCosts /\ lastCheck.TeamCosts[t] = costs[t]
        Seen(t) == IF t \in DOMAIN lastCheck.TeamCosts
                     THEN lastCheck.earlier[t] \cup {lastCheck.TeamCosts[t]}
                     ELSE lastCheck.earlier[t]
    IN  /\ checkDue /\ posting = {} /\ checks < MaxChecks
        /\ checkDue' = FALSE
        /\ posting' = alerts /\ postAge' = 0
        /\ baselines' = [t \in DOMAIN baselines \cup DOMAIN costs |->
                CASE t \in known -> Average(baselines[t], costs[t])
                  [] t \notin DOMAIN costs -> baselines[t]
                  [] OTHER -> costs[t]]
        /\ checks' = checks + 1
        /\ lastCheck' = [age |-> snap.age, TeamCosts |-> costs, alerts |-> alerts,
                         earlier |-> [t \in Teams |-> Seen(t)],
                         before |-> Cardinality(lastCheck.alerts)]
        /\ repeats' = [t \in Teams |->
                IF t \notin alerts THEN 0 ELSE IF Same(t) THEN repeats[t] + 1 ELSE 1]
        /\ UNCHANGED <<windowVars, checkWait, changes>>

(* Mutant: an alert that was not answered in time is posted once more.     *)
PostAlertRetries ==
    \E team \in posting :
        /\ posting' \in {posting, posting \ {team}}
        /\ postAge' = 0
        /\ UNCHANGED <<windowVars, checkWait, checkDue, slackVars, changes>>

(* sendAlert: answered, refused, or given up at the client's timeout.  The *)
(* next post begins, or the loop is back at its ticker.                    *)
PostAlert ==
    \E team \in posting :
        /\ posting' = posting \ {team}
        /\ postAge' = 0
        /\ UNCHANGED <<windowVars, checkWait, checkDue, slackVars, changes>>

Next == Clock \/ CollectBegins \/ CollectEnds \/ CheckAnomalies \/ PostAlert

Spec == Init /\ [][Next]_vars

-----------------------------------------------------------------------------
(* The history is cut by number and asked by time.  However late the loop  *)
(* is and however many ticks it misses, a request for at most a day less   *)
(* the time one collect() takes gets every snapshot of that time, and a    *)
(* request for the day lacks at most one.                                  *)
HistoryComplete ==
    /\ \A since \in 0..Day - MaxLag :
            handleHistory({since}) = {age \in taken : age < since}
    /\ Cardinality(taken \ handleHistory({})) <= 1

(* A team whose cost is above twice all it was ever seen to cost is        *)
(* alerted, and a team that is alerted costs more than twice what it was   *)
(* once seen to cost, whatever the moving average has made of it.  A cost  *)
(* of zero among those seen may hide a spike.                              *)
AlertsMatchSpikes ==
    \A t \in DOMAIN lastCheck.TeamCosts :
        LET earlier == lastCheck.earlier[t]
            Over(c) == lastCheck.TeamCosts[t] > 2 * c
        IN  /\ earlier # {} /\ (\A c \in earlier : c > 0 /\ Over(c)) => t \in lastCheck.alerts
            /\ t \in lastCheck.alerts => \E c \in earlier : Over(c)

(* A cost that stays where it is becomes the baseline: it is alerted at    *)
(* most seven times in a row, as 1 - 0.9^7 is more than a half.            *)
AlertsSubside == \A t \in Teams : repeats[t] <= 7

(* A check that is late, since the check before it was posting, can be     *)
(* followed at once by the next, and both may see one window.  This takes  *)
(* more posts than a check has in all but a very large cluster: those of   *)
(* the check before the two fill the time between ticks, but for a period  *)
(* of the aggregator and its lag.                                          *)
WindowCheckedTwice == history # <<>> /\ LatestSnapshot.age = lastCheck.age

CheckedTwiceOnlyAfterManyAlerts ==
    [][checks' > checks /\ WindowCheckedTwice
        => lastCheck.before * MaxPost >= CheckPeriod - Period - MaxLag]_vars
=============================================================================
