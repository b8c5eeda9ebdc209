------------------------- MODULE CostWindowsProofs -------------------------
(***************************************************************************)
(* Proofs about CostWindows, for any teams, costs, periods and bounds.     *)
(***************************************************************************)
EXTENDS CostWindows, PartialMapsProofs, TLAPS

Snapshots == [age : Nat, TeamCosts : Levels]
Checks == [age : Nat, TeamCosts : Levels, earlier : [Teams -> SUBSET Nat], alerts : SUBSET Teams,
           before : Nat]

(* All that the checks have seen a team cost.                              *)
Looked(t) ==
    lastCheck.earlier[t] \cup {lastCheck.TeamCosts[x] : x \in {t} \cap DOMAIN lastCheck.TeamCosts}

(***************************************************************************)
(* AlertsMatchSpikes is not inductive: the baselines decide the alerts, so *)
(* that a baseline is never outside what was seen must be part of it.      *)
(***************************************************************************)
BaselineWithin(t) ==
    IF t \in DOMAIN baselines
      THEN \E low, high \in Looked(t) : low <= baselines[t] /\ baselines[t] <= high
      ELSE Looked(t) = {}

Typed ==
    /\ TypeOK
    /\ history \in Seq(Snapshots)
    /\ lastCheck \in Checks

SeenInvariant ==
    /\ Typed
    /\ \A t \in Teams : BaselineWithin(t)
    /\ AlertsMatchSpikes

(* The costs of a window are of teams, in whole units.                     *)
LEMMA LevelsAreMaps ==
    ASSUME NEW costs \in Levels
    PROVE  /\ DOMAIN costs \subseteq Teams
           /\ \A t \in DOMAIN costs : costs[t] \in Nat
BY CostsAssumption DEF Levels

(* A window may cost nobody anything.                                      *)
LEMMA NoKeysInLevels == NoKeys \in Levels
<1>1. NoKeys \in [{} -> Costs]
  BY DEF NoKeys
<1> QED BY <1>1 DEF Levels

(* The day the history spans is longer than a collect() takes.             *)
LEMMA DayIsLong == Day \in Nat /\ Day > MaxLag
BY TimesAssumption DEF Day

(* The constants are natural numbers.                                      *)
LEMMA ConstantsTyped ==
    /\ Period \in Nat \ {0} /\ CheckPeriod \in Nat \ {0} /\ MaxLag \in Nat /\ MaxPost \in Nat
    /\ HistoryCap \in Nat \ {0} /\ MaxChanges \in Nat /\ MaxChecks \in Nat
BY TimesAssumption, BoundsAssumption

(* Some of the teams can be counted.                                       *)
LEMMA TeamsCounted ==
    ASSUME NEW S \in SUBSET Teams
    PROVE  IsFiniteSet(S) /\ Cardinality(S) \in Nat
BY TeamsAssumption, FS_Subset, FS_CardinalityType

(* The moving average stays between what it is the average of.             *)
LEMMA AverageBetween ==
    ASSUME NEW b \in Nat, NEW c \in Nat
    PROVE  /\ Average(b, c) \in Nat
           /\ b <= c => b <= Average(b, c) /\ Average(b, c) <= c
           /\ c <= b => c <= Average(b, c) /\ Average(b, c) <= b
BY DEF Average

(* What the exporters read is a snapshot, or none.                         *)
LEMMA LatestTyped == Typed => LatestSnapshot \in Snapshots
<1> SUFFICES ASSUME Typed PROVE LatestSnapshot \in Snapshots
  OBVIOUS
<1>1. CASE history = <<>>
  BY <1>1, NoKeysInLevels DEF LatestSnapshot, Snapshots
<1>2. CASE history # <<>>
  <2>1. history[Len(history)] \in Snapshots
    BY <1>2 DEF Typed
  <2> QED BY <1>2, <2>1 DEF LatestSnapshot
<1> QED BY <1>1, <1>2

(* A history that slides stays a history.                                  *)
LEMMA SlideTyped ==
    ASSUME NEW s \in Seq(Snapshots), NEW x \in Snapshots, Len(s) <= HistoryCap
    PROVE  Slide(s, x) \in Seq(Snapshots) /\ Len(Slide(s, x)) <= HistoryCap
<1> DEFINE longer == Append(s, x)
<1>1. longer \in Seq(Snapshots) /\ Len(longer) = Len(s) + 1
  OBVIOUS
<1>2. Tail(longer) \in Seq(Snapshots) /\ Len(Tail(longer)) = Len(s)
  BY <1>1
<1> QED BY <1>1, <1>2, ConstantsTyped DEF Slide

(* The types hold at the start.                                            *)
LEMMA TypedInit == Init => Typed
<1> SUFFICES ASSUME Init PROVE Typed
  OBVIOUS
<1>1. IsMap(baselines, Teams, Nat)
  BY NoKeysIsMap DEF Init
<1>2. lastCheck \in Checks
  BY NoKeysInLevels DEF Init, Nothing, Checks
<1>3. history \in Seq(Snapshots)
  BY DEF Init
<1>4. TypeOK
  <2>1. wait \in 1..Period /\ checkWait \in 1..CheckPeriod /\ changes \in 0..MaxChanges /\ checks \in 0..MaxChecks
    BY ConstantsTyped DEF Init
  <2>2. Len(history) <= HistoryCap /\ \A i \in DOMAIN history : FALSE
    BY ConstantsTyped DEF Init
  <2>3. /\ taking = {} /\ taken = {} /\ repeats \in [Teams -> Nat]
        /\ posting = {} /\ postAge \in 0..MaxPost
    BY ConstantsTyped DEF Init
  <2>4. ticked \in BOOLEAN /\ checkDue \in BOOLEAN
    BY DEF Init
  <2> QED BY <1>1, <2>1, <2>2, <2>3, <2>4 DEF TypeOK
<1> QED BY <1>2, <1>3, <1>4 DEF Typed

(* Every step preserves the types.                                         *)
LEMMA TypedNext == Typed /\ [Next]_vars => Typed'
<1> SUFFICES ASSUME Typed, [Next]_vars PROVE Typed'
  OBVIOUS
<1> USE ConstantsTyped, DayIsLong
<1>1. CASE Clock
  <2>1. history' \in Seq(Snapshots) /\ Len(history') = Len(history)
    <3>1. ASSUME NEW i \in DOMAIN history
          PROVE  [history[i] EXCEPT !.age = @ + 1] \in Snapshots
      <4>1. history[i] \in Snapshots
        BY DEF Typed
      <4> QED BY <4>1 DEF Snapshots
    <3>2. history' = [i \in 1 .. Len(history) |-> [history[i] EXCEPT !.age = @ + 1]]
      BY <1>1 DEF Clock, Typed
    <3>3. Len(history) \in Nat /\ DOMAIN history = 1 .. Len(history)
      BY DEF Typed
    <3> QED BY <3>1, <3>2, <3>3
  <2>2. lastCheck' \in Checks
    <3>1. lastCheck \in Checks /\ lastCheck' = [lastCheck EXCEPT !.age = @ + 1]
      BY <1>1 DEF Clock, Typed
    <3>2. lastCheck.age + 1 \in Nat
      BY <3>1 DEF Checks
    <3> QED BY <3>1, <3>2 DEF Checks
  <2>3. wait' \in 1..Period /\ ticked' \in BOOLEAN /\ checkWait' \in 1..CheckPeriod /\ checkDue' \in BOOLEAN
    <3>1. wait \in 1..Period /\ ticked \in BOOLEAN /\ checkWait \in 1..CheckPeriod
      BY DEF Typed, TypeOK
    <3>2. wait' \in 1..Period /\ checkWait' \in 1..CheckPeriod
      <4>1. /\ wait' = IF wait = 1 THEN Period ELSE wait - 1
            /\ checkWait' = IF checkWait = 1 THEN CheckPeriod ELSE checkWait - 1
        BY <1>1 DEF Clock
      <4> QED BY <3>1, <4>1
    <3>3. ticked' \in BOOLEAN /\ checkDue' \in BOOLEAN
      BY <1>1, <3>1, Zenon DEF Clock
    <3> QED BY <3>2, <3>3
  <2>4. taking' = {} \/ \E age \in 0..MaxLag : taking' = {age}
    <3>1. CASE taking = {}
      BY <1>1, <3>1 DEF Clock
    <3>2. CASE taking # {}
      <4>1. PICK age \in 0..MaxLag : taking = {age}
        BY <3>2 DEF Typed, TypeOK
      <4>2. age < MaxLag /\ taking' = {age + 1}
        BY <1>1, <4>1 DEF Clock
      <4> QED BY <4>2
    <3> QED BY <3>1, <3>2
  <2>5. taken' \subseteq 0..Day - 1
    <3>1. \A age \in taken : age \in 0..Day - 1
      BY DEF Typed, TypeOK
    <3>2. \A age \in taken : age + 1 # Day => age + 1 \in 0..Day - 1
      BY <3>1
    <3>3. taken' = {age + 1 : age \in taken} \ {Day}
      BY <1>1 DEF Clock
    <3> QED BY <3>2, <3>3
  <2>6. \A i \in DOMAIN history' : history'[i].age \in Nat /\ history'[i].TeamCosts \in Levels
    <3>1. \A i \in DOMAIN history' : history'[i] \in Snapshots
      BY <2>1
    <3> QED BY <3>1 DEF Snapshots
  <2>7. UNCHANGED <<posting, baselines, checks, repeats, changes>> /\ lastCheck'.alerts = lastCheck.alerts
    BY <1>1 DEF Clock, Typed, Checks
  <2>8. postAge' \in 0..MaxPost
    <3>1. postAge \in 0..MaxPost
      BY DEF Typed, TypeOK
    <3>2. /\ posting # {} => postAge < MaxPost
          /\ postAge' = IF posting = {} THEN 0 ELSE postAge + 1
      BY <1>1 DEF Clock
    <3> QED BY <3>1, <3>2
  <2> QED BY <2>1, <2>2, <2>3, <2>4, <2>5, <2>6, <2>7, <2>8 DEF Typed, TypeOK
<1>2. CASE CollectBegins
  <2>1. /\ ticked' = FALSE /\ taking' = {0}
        /\ UNCHANGED <<wait, history, taken, checkWait, checkDue, postVars, slackVars, changes>>
    BY <1>2 DEF CollectBegins
  <2>2. 0 \in 0..MaxLag
    OBVIOUS
  <2>3. taking' = {} \/ \E age \in 0..MaxLag : taking' = {age}
    BY <2>1, <2>2
  <2> QED BY <2>1, <2>2, <2>3 DEF postVars, slackVars, Typed, TypeOK
<1>3. CASE CollectEnds
  <2>1. PICK age \in taking, costs \in Levels :
            /\ changes' = changes \/ (changes < MaxChanges /\ changes' = changes + 1)
            /\ taking' = {}
            /\ history' = Slide(history, [age |-> age, TeamCosts |-> costs])
            /\ taken' = taken \cup {age}
            /\ UNCHANGED <<wait, ticked, checkWait, checkDue, postVars, slackVars>>
    BY <1>3 DEF CollectEnds
  <2>2. age \in 0..MaxLag
    BY <2>1 DEF Typed, TypeOK
  <2>3. [age |-> age, TeamCosts |-> costs] \in Snapshots
    BY <2>1, <2>2 DEF Snapshots
  <2>4. history' \in Seq(Snapshots) /\ Len(history') <= HistoryCap
    BY <2>1, <2>3, SlideTyped DEF Typed, TypeOK
  <2>5. \A i \in DOMAIN history' : history'[i].age \in Nat /\ history'[i].TeamCosts \in Levels
    <3>1. \A i \in DOMAIN history' : history'[i] \in Snapshots
      BY <2>4
    <3> QED BY <3>1 DEF Snapshots
  <2>6. changes' \in 0..MaxChanges
    BY <2>1 DEF Typed, TypeOK
  <2>7. taken' \subseteq 0..Day - 1
    <3>1. taken \subseteq 0..Day - 1
      BY DEF Typed, TypeOK
    <3>2. age \in 0..Day - 1
      BY <2>2
    <3>3. taken' = taken \cup {age}
      BY <2>1
    <3> QED BY <3>1, <3>2, <3>3
  <2>8. /\ taking' = {}
        /\ UNCHANGED <<wait, ticked, checkWait, checkDue, posting, postAge, baselines, checks, lastCheck, repeats>>
    BY <2>1 DEF postVars, slackVars
  <2> QED BY <2>4, <2>5, <2>6, <2>7, <2>8 DEF Typed, TypeOK
<1>4. CASE CheckAnomalies
  <2>1. LatestSnapshot.age \in Nat /\ LatestSnapshot.TeamCosts \in Levels
    BY LatestTyped DEF Snapshots
  <2> DEFINE costs == LatestSnapshot.TeamCosts
  <2>2. DOMAIN costs \subseteq Teams /\ \A t \in DOMAIN costs : costs[t] \in Nat
    BY <2>1, LevelsAreMaps
  <2>3. IsMap(baselines', Teams, Nat)
    <3>1. \A t \in DOMAIN costs \cap DOMAIN baselines : Average(baselines[t], costs[t]) \in Nat
      BY <2>2, AverageBetween DEF Typed, TypeOK, IsMap
    <3> QED BY <1>4, <2>2, <3>1 DEF CheckAnomalies, Typed, TypeOK, IsMap
  <2>4. lastCheck' \in Checks
    <3>1. \A t \in Teams : lastCheck.earlier[t] \subseteq Nat
      BY DEF Typed, Checks
    <3>2. \A t \in DOMAIN lastCheck.TeamCosts : lastCheck.TeamCosts[t] \in Nat
      BY LevelsAreMaps DEF Typed, Checks
    <3>3. Cardinality(lastCheck.alerts) \in Nat
      BY TeamsCounted DEF Typed, Checks
    <3> QED BY <1>4, <2>1, <2>2, <3>1, <3>2, <3>3 DEF CheckAnomalies, Checks
  <2>5. repeats' \in [Teams -> Nat]
    <3>1. \A t \in Teams : repeats[t] \in Nat /\ repeats[t] + 1 \in Nat
      BY DEF Typed, TypeOK
    <3>2. /\ repeats' = [t \in Teams |-> repeats'[t]]
          /\ \A t \in Teams : repeats'[t] \in {0, 1, repeats[t] + 1}
      BY <1>4 DEF CheckAnomalies
    <3> QED BY <3>1, <3>2
  <2>6. checks' \in 0..MaxChecks
    BY <1>4 DEF CheckAnomalies, Typed, TypeOK
  <2>7. checkDue' = FALSE /\ UNCHANGED <<windowVars, checkWait, changes>>
    BY <1>4 DEF CheckAnomalies
  <2>8. posting' = lastCheck'.alerts /\ postAge' \in 0..MaxPost
    BY <1>4 DEF CheckAnomalies
  <2> QED BY <2>3, <2>4, <2>5, <2>6, <2>7, <2>8 DEF windowVars, Typed, TypeOK
<1>5. CASE PostAlert
  <2>1. /\ posting' \subseteq posting /\ postAge' = 0
        /\ UNCHANGED <<windowVars, checkWait, checkDue, slackVars, changes>>
    BY <1>5 DEF PostAlert
  <2> QED BY <2>1 DEF windowVars, slackVars, Typed, TypeOK
<1>6. CASE UNCHANGED vars
  BY <1>6 DEF vars, windowVars, postVars, slackVars, Typed, TypeOK
<1> QED BY <1>1, <1>2, <1>3, <1>4, <1>5, <1>6 DEF Next

(* Only a check moves a baseline or judges a cost.                         *)
LEMMA NoCheckKeepsAlerts ==
    ASSUME SeenInvariant,
           UNCHANGED baselines,
           lastCheck' = lastCheck \/ lastCheck' = [lastCheck EXCEPT !.age = @ + 1]
    PROVE  AlertsMatchSpikes' /\ \A t \in Teams : BaselineWithin(t)'
<1>1. /\ lastCheck'.TeamCosts = lastCheck.TeamCosts
      /\ lastCheck'.earlier = lastCheck.earlier
      /\ lastCheck'.alerts = lastCheck.alerts
  BY DEF SeenInvariant, Typed, Checks
<1> QED BY <1>1 DEF SeenInvariant, AlertsMatchSpikes, BaselineWithin, Looked

(* A check preserves the agreement of alerts and costs seen.               *)
LEMMA CheckKeepsAlerts ==
    ASSUME SeenInvariant, CheckAnomalies
    PROVE  AlertsMatchSpikes' /\ \A t \in Teams : BaselineWithin(t)'
<1> DEFINE costs == LatestSnapshot.TeamCosts
           known == DOMAIN costs \cap DOMAIN baselines
           alerts == {t \in known : Spike(t, costs[t])}
<1>1. costs \in Levels /\ DOMAIN costs \subseteq Teams /\ \A t \in DOMAIN costs : costs[t] \in Nat
  BY LatestTyped, LevelsAreMaps DEF SeenInvariant, Snapshots
<1>2. \A t \in DOMAIN baselines : t \in Teams /\ baselines[t] \in Nat
  BY DEF SeenInvariant, Typed, TypeOK, IsMap
<1>3. /\ lastCheck'.TeamCosts = costs
      /\ lastCheck'.alerts = alerts
      /\ \A t \in Teams : lastCheck'.earlier[t] = Looked(t)
  BY DEF CheckAnomalies, Looked
<1>4. \A t \in Teams : Looked(t) \subseteq Nat
  BY LevelsAreMaps DEF SeenInvariant, Typed, Checks, Looked
<1>5. ASSUME NEW t \in Teams
      PROVE  Looked(t)' = Looked(t) \cup {costs[x] : x \in {t} \cap DOMAIN costs}
  BY <1>3 DEF Looked
<1>6. /\ DOMAIN baselines' = DOMAIN baselines \cup DOMAIN costs
      /\ \A t \in DOMAIN baselines' :
            baselines'[t] = IF t \in known THEN Average(baselines[t], costs[t])
                            ELSE IF t \in DOMAIN costs THEN costs[t] ELSE baselines[t]
  BY DEF CheckAnomalies
<1>7. ASSUME NEW t \in Teams
      PROVE  BaselineWithin(t)'
  <2>1. CASE t \in known
    <3>1. PICK low \in Looked(t), high \in Looked(t) : low <= baselines[t] /\ baselines[t] <= high
      BY <2>1 DEF SeenInvariant, BaselineWithin
    <3>2. baselines'[t] = Average(baselines[t], costs[t]) /\ t \in DOMAIN baselines'
      BY <1>6, <2>1
    <3>3. low \in Looked(t)' /\ high \in Looked(t)' /\ costs[t] \in Looked(t)'
      BY <1>5, <2>1, <3>1
    <3>4. low \in Nat /\ high \in Nat /\ costs[t] \in Nat /\ baselines[t] \in Nat
      BY <1>1, <1>2, <1>4, <2>1, <3>1
    <3> DEFINE b == Average(baselines[t], costs[t])
    <3>5. CASE baselines[t] <= costs[t]
      <4>1. b \in Nat /\ baselines[t] <= b /\ b <= costs[t]
        BY <3>4, <3>5, AverageBetween
      <4>2. low <= b
        BY <3>1, <3>4, <4>1
      <4> QED BY <3>2, <3>3, <4>1, <4>2 DEF BaselineWithin
    <3>6. CASE costs[t] <= baselines[t]
      <4>1. b \in Nat /\ costs[t] <= b /\ b <= baselines[t]
        BY <3>4, <3>6, AverageBetween
      <4>2. b <= high
        BY <3>1, <3>4, <4>1
      <4> QED BY <3>2, <3>3, <4>1, <4>2 DEF BaselineWithin
    <3> QED BY <3>4, <3>5, <3>6
  <2>2. CASE t \in DOMAIN costs \ DOMAIN baselines
    BY <1>1, <1>5, <1>6, <2>2 DEF BaselineWithin
  <2>3. CASE t \in DOMAIN baselines \ DOMAIN costs
    BY <1>5, <1>6, <2>3 DEF SeenInvariant, BaselineWithin
  <2>4. CASE t \notin DOMAIN baselines /\ t \notin DOMAIN costs
    BY <1>5, <1>6, <2>4 DEF SeenInvariant, BaselineWithin
  <2> QED BY <2>1, <2>2, <2>3, <2>4
<1>8. ASSUME NEW t \in DOMAIN costs
      PROVE  /\ Looked(t) # {} /\ (\A c \in Looked(t) : c > 0 /\ costs[t] > 2 * c) => t \in alerts
             /\ t \in alerts => \E c \in Looked(t) : costs[t] > 2 * c
  <2>1. t \in Teams
    BY <1>1
  <2>2. CASE t \notin DOMAIN baselines
    BY <2>1, <2>2 DEF SeenInvariant, BaselineWithin
  <2>3. CASE t \in DOMAIN baselines
    <3>1. PICK low \in Looked(t), high \in Looked(t) : low <= baselines[t] /\ baselines[t] <= high
      BY <2>1, <2>3 DEF SeenInvariant, BaselineWithin
    <3>2. low \in Nat /\ high \in Nat /\ costs[t] \in Nat /\ baselines[t] \in Nat
      BY <1>1, <1>2, <1>4, <2>1, <2>3, <3>1
    <3>3. t \in alerts <=> baselines[t] > 0 /\ costs[t] > 2 * baselines[t]
      BY <2>3 DEF Spike
    <3>4. (low > 0 /\ costs[t] > 2 * high) => t \in alerts
      BY <3>1, <3>2, <3>3
    <3>5. t \in alerts => costs[t] > 2 * low
      BY <3>1, <3>2, <3>3
    <3> QED BY <3>1, <3>4, <3>5
  <2> QED BY <2>2, <2>3
<1>9. AlertsMatchSpikes'
  BY <1>1, <1>3, <1>8 DEF AlertsMatchSpikes
<1> QED BY <1>7, <1>9

(* Nothing was seen at the start.                                          *)
LEMMA SeenInit == Init => SeenInvariant
<1> SUFFICES ASSUME Init PROVE SeenInvariant
  OBVIOUS
<1>1. lastCheck = Nothing /\ baselines = NoKeys /\ DOMAIN NoKeys = {}
  BY DEF Init, NoKeys
<1>2. \A t \in Teams : Looked(t) = {}
  BY <1>1 DEF Nothing, Looked
<1>3. AlertsMatchSpikes
  BY <1>1 DEF Nothing, AlertsMatchSpikes
<1> QED BY <1>1, <1>2, <1>3, TypedInit DEF SeenInvariant, BaselineWithin

(* Every step preserves the invariant.                                     *)
LEMMA SeenNext == SeenInvariant /\ [Next]_vars => SeenInvariant'
<1> SUFFICES ASSUME SeenInvariant, [Next]_vars PROVE SeenInvariant'
  OBVIOUS
<1>1. Typed'
  BY TypedNext DEF SeenInvariant
<1>2. CASE CheckAnomalies
  BY <1>1, <1>2, CheckKeepsAlerts DEF SeenInvariant
<1>3. CASE Clock \/ CollectBegins \/ CollectEnds \/ PostAlert \/ UNCHANGED vars
  <2>1. /\ UNCHANGED baselines
        /\ lastCheck' = lastCheck \/ lastCheck' = [lastCheck EXCEPT !.age = @ + 1]
    BY <1>3 DEF Clock, CollectBegins, CollectEnds, PostAlert, vars, slackVars
  <2> QED BY <1>1, <2>1, NoCheckKeepsAlerts DEF SeenInvariant
<1> QED BY <1>2, <1>3 DEF Next

(* The variables keep their types, with any number of teams and changes.   *)
THEOREM WindowsTypeCorrect == Spec => []TypeOK
<1>1. Init => Typed
  BY TypedInit
<1>2. Typed /\ [Next]_vars => Typed'
  BY TypedNext
<1>3. Typed => TypeOK
  BY DEF Typed
<1> QED BY <1>1, <1>2, <1>3, PTL DEF Spec

(* For any costs in any order, a team above twice all it was seen to cost  *)
(* is alerted, and a team that is alerted is above twice a cost it had.    *)
THEOREM AlertsMatchSpikesCorrect == Spec => []AlertsMatchSpikes
<1>1. Init => SeenInvariant
  BY SeenInit
<1>2. SeenInvariant /\ [Next]_vars => SeenInvariant'
  BY SeenNext
<1>3. SeenInvariant => AlertsMatchSpikes
  BY DEF SeenInvariant
<1> QED BY <1>1, <1>2, <1>3, PTL DEF Spec

-----------------------------------------------------------------------------
(***************************************************************************)
(* The ticks of Run between the snapshots.  Each collect() takes a tick of *)
(* its own, so that no two have the same number of ticks after them,       *)
(* however late they begin and whichever ticks are dropped.                *)
(***************************************************************************)
(* Ages of the snapshots in the history.                                   *)
AgeOf(i) == history[i].age
Kept == {AgeOf(i) : i \in DOMAIN history}

(* How many ticks of Run have fired since a snapshot of this age began.    *)
Slot(g) == (g + wait - 1) \div Period

(* By how much it began after the last tick before it.                     *)
Late(g) == Period * Slot(g) + Period - wait - g

(* A snapshot's age lies in its slot.                                      *)
LEMMA SlotTyped ==
    ASSUME Typed, NEW g \in Nat
    PROVE  /\ Slot(g) \in Nat /\ Late(g) \in Nat
           /\ Period * Slot(g) <= g + wait - 1 /\ g + wait - 1 < Period * Slot(g) + Period
<1>1. wait \in Nat /\ wait >= 1 /\ Period \in Nat \ {0} /\ g + wait - 1 \in Nat
  BY ConstantsTyped DEF Typed, TypeOK
<1> DEFINE q == Slot(g)
<1>2. q \in Int /\ Period * q <= g + wait - 1 /\ g + wait - 1 < Period * q + Period
  BY <1>1, DivBounds DEF Slot
<1> HIDE DEF q
<1>3. q \in Nat
  <2>1. \A n \in Int : n < 0 => Period * n + Period <= 0
    <3>1. \A n \in Int : n < 0 => Period * n + Period = Period * (n + 1) /\ n + 1 <= 0
      BY <1>1
    <3>2. \A m \in Int : m <= 0 => Period * m <= 0
      BY <1>1
    <3> QED BY <3>1, <3>2
  <2> QED BY <1>1, <1>2, <2>1
<1>4. Period * q \in Nat /\ Late(g) = Period * q + Period - wait - g
  BY <1>1, <1>3 DEF Late, q
<1> QED BY <1>1, <1>2, <1>3, <1>4 DEF q

(* A collect() that begins has had no tick since.                          *)
LEMMA SlotOfNew ==
    ASSUME Typed
    PROVE  Slot(0) = 0 /\ Late(0) = Period - wait
<1>1. wait \in 1..Period /\ Period \in Nat \ {0}
  BY ConstantsTyped DEF Typed, TypeOK
<1>2. Slot(0) = 0
  BY <1>1, DivIs DEF Slot
<1> QED BY <1>1, <1>2 DEF Late

(* A step of the clock adds a tick to each slot, or to none.               *)
LEMMA SlotClock ==
    ASSUME Typed, Typed', Clock, NEW g \in Nat
    PROVE  /\ Slot(g + 1)' = Slot(g) + (IF wait = 1 THEN 1 ELSE 0)
           /\ Late(g + 1)' = Late(g)
<1>1. wait \in 1..Period /\ Period \in Nat \ {0} /\ wait' = IF wait = 1 THEN Period ELSE wait - 1
  BY ConstantsTyped DEF Typed, TypeOK, Clock
<1>2. Slot(g) \in Nat /\ Period * Slot(g) <= g + wait - 1 /\ g + wait - 1 < Period * Slot(g) + Period
  BY SlotTyped
<1>3. Slot(g + 1)' = (g + 1 + wait' - 1) \div Period /\ Late(g + 1)' = Period * Slot(g + 1)' + Period - wait' - (g + 1)
  BY DEF Slot, Late
<1>4. Slot(g) = (g + wait - 1) \div Period /\ Late(g) = Period * Slot(g) + Period - wait - g
  BY DEF Slot, Late
<1>5. CASE wait = 1
  <2>1. g + 1 + wait' - 1 = g + Period
    BY <1>1, <1>5
  <2> DEFINE q == Slot(g) + 1
  <2>2. q \in Int /\ Period * q = Period * Slot(g) + Period
    BY <1>1, <1>2
  <2>3. Period * q <= g + Period /\ g + Period < Period * q + Period
    BY <1>1, <1>2, <1>5, <2>2
  <2>4. g + Period \in Int
    BY <1>1
  <2> HIDE DEF q
  <2>5. (g + Period) \div Period = q
    BY <1>1, <2>2, <2>3, <2>4, DivIs
  <2>6. Slot(g + 1)' = q
    BY <1>3, <2>1, <2>5
  <2>7. Late(g + 1)' = Late(g)
    BY <1>1, <1>2, <1>3, <1>4, <1>5, <2>2, <2>6
  <2> QED BY <1>5, <2>6, <2>7 DEF q
<1>6. CASE wait # 1
  <2>1. g + 1 + wait' - 1 = g + wait - 1
    BY <1>1, <1>6
  <2>2. Slot(g + 1)' = Slot(g)
    BY <1>3, <1>4, <2>1
  <2>3. Late(g + 1)' = Late(g)
    BY <1>1, <1>2, <1>3, <1>4, <1>6, <2>2
  <2> QED BY <1>2, <1>6, <2>2, <2>3
<1> QED BY <1>5, <1>6

(* A step of the clock makes every snapshot older by one.                  *)
LEMMA ClockAges ==
    ASSUME Typed, Clock
    PROVE  /\ Len(history) \in Nat /\ Len(history') = Len(history)
           /\ DOMAIN history = 1..Len(history) /\ DOMAIN history' = DOMAIN history
           /\ \A i \in DOMAIN history : AgeOf(i) \in Nat /\ AgeOf(i)' = AgeOf(i) + 1
<1>1. history \in Seq(Snapshots) /\ history' = [i \in 1..Len(history) |-> [history[i] EXCEPT !.age = @ + 1]]
  BY DEF Typed, Clock
<1>2. Len(history) \in Nat /\ DOMAIN history = 1..Len(history)
  BY <1>1
<1>3. ASSUME NEW i \in DOMAIN history
      PROVE  AgeOf(i) \in Nat /\ AgeOf(i)' = AgeOf(i) + 1
  <2>1. history[i] \in Snapshots
    BY <1>1, <1>3
  <2>2. history'[i] = [history[i] EXCEPT !.age = @ + 1]
    BY <1>1, <1>2
  <2> QED BY <2>1, <2>2 DEF AgeOf, Snapshots
<1>4. Len(history') = Len(history) /\ DOMAIN history' = DOMAIN history
  BY <1>1, <1>2
<1> QED BY <1>2, <1>3, <1>4

(* The new snapshot is the last, and the first goes when there is no room. *)
LEMMA SlideAges ==
    ASSUME Typed, NEW a \in Nat, NEW costs \in Levels,
           history' = Slide(history, [age |-> a, TeamCosts |-> costs])
    PROVE  /\ Len(history) \in Nat /\ DOMAIN history = 1..Len(history) /\ Len(history) <= HistoryCap
           /\ \A i \in DOMAIN history : AgeOf(i) \in Nat
           /\ Len(history') \in Nat /\ DOMAIN history' = 1..Len(history') /\ Len(history') >= 1
           /\ history'[Len(history')] = [age |-> a, TeamCosts |-> costs]
           /\ \/ /\ Len(history) < HistoryCap /\ Len(history') = Len(history) + 1
                 /\ \A i \in 1..Len(history) : AgeOf(i)' = AgeOf(i)
              \/ /\ Len(history) = HistoryCap /\ Len(history') = HistoryCap
                 /\ \A i \in 1..HistoryCap - 1 : AgeOf(i)' = AgeOf(i + 1)
<1> DEFINE x == [age |-> a, TeamCosts |-> costs]
           longer == Append(history, x)
<1>1. history \in Seq(Snapshots) /\ Len(history) <= HistoryCap /\ x \in Snapshots /\ HistoryCap \in Nat \ {0}
  BY ConstantsTyped DEF Typed, TypeOK, Snapshots
<1>0. PICK n \in Nat : n = Len(history)
  BY <1>1
<1>2. DOMAIN history = 1..n
  BY <1>0, <1>1
<1>3. \A i \in DOMAIN history : AgeOf(i) \in Nat
  <2>1. \A i \in DOMAIN history : history[i] \in Snapshots
    BY <1>1
  <2> QED BY <2>1 DEF AgeOf, Snapshots
<1> HIDE DEF x
<1>4. /\ longer \in Seq(Snapshots) /\ Len(longer) = n + 1
      /\ longer[n + 1] = x /\ \A i \in 1..n : longer[i] = history[i]
  BY <1>0, <1>1
<1>5. history' = IF n + 1 > HistoryCap THEN Tail(longer) ELSE longer
  BY <1>4 DEF Slide, x
<1> HIDE DEF longer
<1>6. CASE n < HistoryCap
  <2>1. history' = longer
    BY <1>1, <1>2, <1>5, <1>6
  <2>2. Len(history') = n + 1 /\ DOMAIN history' = 1..(n + 1)
    BY <1>4, <2>1
  <2>3. history'[n + 1] = x /\ \A i \in 1..n : history'[i] = history[i]
    BY <1>4, <2>1
  <2>4. \A i \in 1..n : AgeOf(i)' = AgeOf(i)
    BY <2>3 DEF AgeOf
  <2> QED BY <1>0, <1>1, <1>2, <1>3, <1>6, <2>2, <2>3, <2>4 DEF x
<1>7. CASE n = HistoryCap
  <2>1. history' = Tail(longer)
    BY <1>1, <1>2, <1>5, <1>7
  <2>2. Len(history') = n /\ DOMAIN history' = 1..n
    BY <1>2, <1>4, <2>1
  <2>3. \A i \in 1..n : history'[i] = longer[i + 1]
    BY <1>2, <1>4, <2>1
  <2>4. history'[n] = x /\ \A i \in 1..n - 1 : history'[i] = history[i + 1]
    BY <1>1, <1>2, <1>4, <1>7, <2>3
  <2>5. \A i \in 1..n - 1 : AgeOf(i)' = AgeOf(i + 1)
    BY <2>4 DEF AgeOf
  <2> QED BY <1>0, <1>1, <1>2, <1>3, <1>7, <2>2, <2>4, <2>5 DEF x
<1> QED BY <1>0, <1>1, <1>6, <1>7

(* The slot of the i-th snapshot of the history.                           *)
SlotAt(i) == Slot(AgeOf(i))

(* Slots fall along the history, and to the collect() under way; a tick    *)
(* that waits is younger than all of them, and nothing began later than    *)
(* MaxLag after a tick.                                                    *)
SlotsInvariant ==
    /\ \A i, j \in DOMAIN history : i <= j => SlotAt(i) >= SlotAt(j) + (j - i)
    /\ \A a \in taking, i \in DOMAIN history : SlotAt(i) >= Slot(a) + (Len(history) + 1 - i)
    /\ ticked => \A i \in DOMAIN history : SlotAt(i) >= Len(history) + 1 - i
    /\ ticked => \A a \in taking : Slot(a) >= 1
    /\ ticked /\ taking = {} => Period - wait <= MaxLag
    /\ \A i \in DOMAIN history : Late(AgeOf(i)) <= MaxLag
    /\ \A a \in taking : Late(a) <= MaxLag

(* The same for the snapshots of the history.                              *)
LEMMA ClockSlots ==
    ASSUME Typed, Typed', Clock
    PROVE  \A i \in DOMAIN history :
             /\ SlotAt(i) \in Nat
             /\ SlotAt(i)' = SlotAt(i) + (IF wait = 1 THEN 1 ELSE 0)
             /\ Late(AgeOf(i))' = Late(AgeOf(i))
<1> SUFFICES ASSUME NEW i \in DOMAIN history
             PROVE  /\ SlotAt(i) \in Nat
                    /\ SlotAt(i)' = SlotAt(i) + (IF wait = 1 THEN 1 ELSE 0)
                    /\ Late(AgeOf(i))' = Late(AgeOf(i))
  OBVIOUS
<1>1. PICK g \in Nat : g = AgeOf(i) /\ AgeOf(i)' = g + 1
  BY ClockAges
<1>2. /\ Slot(g + 1)' = Slot(g) + (IF wait = 1 THEN 1 ELSE 0)
      /\ Late(g + 1)' = Late(g) /\ Slot(g) \in Nat
  BY SlotClock, SlotTyped
<1>3. SlotAt(i) = Slot(g) /\ Late(AgeOf(i)) = Late(g)
  BY <1>1 DEF SlotAt
<1>4. SlotAt(i)' = Slot(g + 1)' /\ Late(AgeOf(i))' = Late(g + 1)'
  BY <1>1 DEF SlotAt, Slot, Late
<1> QED BY <1>2, <1>3, <1>4

(* Types of what is computed from the ages.                                *)
LEMMA SlotsTyped ==
    ASSUME Typed
    PROVE  /\ Len(history) \in Nat /\ DOMAIN history = 1..Len(history)
           /\ \A i \in DOMAIN history : AgeOf(i) \in Nat /\ SlotAt(i) \in Nat /\ Late(AgeOf(i)) \in Nat
           /\ \A a \in taking : a \in 0..MaxLag /\ Slot(a) \in Nat /\ Late(a) \in Nat
           /\ wait \in 1..Period
<1>1. \A i \in DOMAIN history : history[i] \in Snapshots
  BY DEF Typed
<1>2. \A i \in DOMAIN history : AgeOf(i) \in Nat
  BY <1>1 DEF AgeOf, Snapshots
<1>3. \A a \in taking : a \in 0..MaxLag /\ a \in Nat
  BY ConstantsTyped DEF Typed, TypeOK
<1>4. \A g \in Nat : Slot(g) \in Nat /\ Late(g) \in Nat
  BY SlotTyped
<1>5. Len(history) \in Nat /\ DOMAIN history = 1..Len(history) /\ wait \in 1..Period
  BY DEF Typed, TypeOK
<1> QED BY <1>2, <1>3, <1>4, <1>5 DEF SlotAt

(* At the beginning there are no snapshots.                                *)
LEMMA SlotsInit == Init => SlotsInvariant
BY DEF Init, SlotsInvariant

(* The clock adds a tick to all of them, or to none.                       *)
LEMMA SlotsClock ==
    ASSUME Typed, Typed', SlotsInvariant, Clock
    PROVE  SlotsInvariant'
<1> DEFINE up == IF wait = 1 THEN 1 ELSE 0
<1>1. /\ Len(history) \in Nat /\ Len(history') = Len(history) /\ DOMAIN history' = DOMAIN history
      /\ DOMAIN history = 1..Len(history)
  BY ClockAges
<1>2. \A i \in DOMAIN history :
        SlotAt(i) \in Nat /\ SlotAt(i)' = SlotAt(i) + up /\ Late(AgeOf(i))' = Late(AgeOf(i))
  BY ClockSlots
<1>3. up \in {0, 1} /\ wait \in 1..Period /\ Period \in Nat /\ MaxLag \in Nat
  BY SlotsTyped, ConstantsTyped
<1>4. ASSUME NEW b \in taking'
      PROVE  \E a \in taking : b = a + 1 /\ Slot(a) \in Nat /\ Slot(b)' = Slot(a) + up /\ Late(b)' = Late(a)
  <2>1. PICK a \in taking : b = a + 1 /\ a \in Nat
    BY SlotsTyped, ConstantsTyped DEF Clock
  <2>2. Slot(a) \in Nat /\ Slot(a + 1)' = Slot(a) + up /\ Late(a + 1)' = Late(a)
    BY <2>1, SlotClock, SlotTyped
  <2>3. Slot(b)' = Slot(a + 1)' /\ Late(b)' = Late(a + 1)'
    BY <2>1
  <2> QED BY <2>1, <2>2, <2>3
<1>5. ticked' => wait = 1 \/ (ticked /\ taking # {} /\ taking' # {})
  BY DEF Clock
<1>6. taking' = {} => taking = {}
  BY DEF Clock
<1> HIDE DEF up
<1>7. ASSUME NEW i \in DOMAIN history', NEW j \in DOMAIN history', i <= j
      PROVE  SlotAt(i)' >= SlotAt(j)' + (j - i)
  BY <1>1, <1>2, <1>3, <1>7 DEF SlotsInvariant
<1>8. ASSUME NEW b \in taking', NEW i \in DOMAIN history'
      PROVE  SlotAt(i)' >= Slot(b)' + (Len(history') + 1 - i)
  BY <1>1, <1>2, <1>3, <1>4, <1>8 DEF SlotsInvariant
<1>9. ASSUME ticked', NEW i \in DOMAIN history'
      PROVE  SlotAt(i)' >= Len(history') + 1 - i
  <2>1. CASE wait = 1
    <3>1. up = 1
      BY <2>1 DEF up
    <3>2. SlotAt(i) >= SlotAt(Len(history)) + (Len(history) - i) /\ SlotAt(Len(history)) \in Nat
      BY <1>1, <1>2, <1>9 DEF SlotsInvariant
    <3> QED BY <1>1, <1>2, <1>9, <3>1, <3>2
  <2>2. CASE ticked
    BY <1>1, <1>2, <1>3, <1>9, <2>2 DEF SlotsInvariant
  <2> QED BY <1>5, <1>9, <2>1, <2>2
<1>10. ASSUME ticked', NEW b \in taking'
       PROVE  Slot(b)' >= 1
  <2>1. PICK a \in taking : Slot(a) \in Nat /\ Slot(b)' = Slot(a) + up
    BY <1>4
  <2>2. CASE wait = 1
    BY <2>1, <2>2 DEF up
  <2>3. CASE ticked
    BY <1>3, <2>1, <2>3 DEF SlotsInvariant
  <2> QED BY <1>5, <1>10, <2>2, <2>3
<1>11. ticked' /\ taking' = {} => Period - wait' <= MaxLag
  <2>1. ticked' /\ taking' = {} => wait' = Period
    BY <1>5, <1>6 DEF Clock
  <2> QED BY <1>3, <2>1
<1>12. \A i \in DOMAIN history' : Late(AgeOf(i))' <= MaxLag
  BY <1>1, <1>2 DEF SlotsInvariant
<1>13. \A b \in taking' : Late(b)' <= MaxLag
  BY <1>4 DEF SlotsInvariant
<1> QED BY <1>7, <1>8, <1>9, <1>10, <1>11, <1>12, <1>13 DEF SlotsInvariant

(* A collect() that begins has a tick to itself.                           *)
LEMMA SlotsBegins ==
    ASSUME Typed, SlotsInvariant, CollectBegins
    PROVE  SlotsInvariant'
<1>1. /\ ticked /\ taking = {} /\ ticked' = FALSE /\ taking' = {0}
      /\ history' = history /\ wait' = wait
  BY DEF CollectBegins
<1>2. /\ \A i : SlotAt(i)' = SlotAt(i) /\ AgeOf(i)' = AgeOf(i) /\ Late(AgeOf(i))' = Late(AgeOf(i))
      /\ \A a : Slot(a)' = Slot(a) /\ Late(a)' = Late(a)
  BY <1>1 DEF SlotAt, Slot, AgeOf, Late
<1>3. Slot(0) = 0 /\ Late(0) <= MaxLag
  BY <1>1, SlotOfNew DEF SlotsInvariant
<1>4. Len(history) \in Nat /\ DOMAIN history = 1..Len(history)
  BY SlotsTyped
<1>5. \A a \in taking', i \in DOMAIN history' : SlotAt(i)' >= Slot(a)' + (Len(history') + 1 - i)
  <2>1. \A i \in DOMAIN history : SlotAt(i) >= 0 + (Len(history) + 1 - i)
    BY <1>1, <1>4 DEF SlotsInvariant
  <2> QED BY <1>1, <1>2, <1>3, <2>1
<1> QED BY <1>1, <1>2, <1>3, <1>5 DEF SlotsInvariant

(* What is published is behind all the others.                             *)
LEMMA SlotsEnds ==
    ASSUME Typed, Typed', SlotsInvariant, NEW a \in taking, NEW costs \in Levels,
           history' = Slide(history, [age |-> a, TeamCosts |-> costs]),
           taking' = {}, wait' = wait, ticked' = ticked
    PROVE  SlotsInvariant'
<1>1. a \in Nat /\ a <= MaxLag /\ Slot(a) \in Nat /\ Late(a) <= MaxLag
  BY SlotsTyped, ConstantsTyped DEF SlotsInvariant
<1>2. PICK n \in Nat, m \in Nat :
        /\ n = Len(history) /\ m = Len(history') /\ m >= 1
        /\ DOMAIN history = 1..n /\ DOMAIN history' = 1..m
        /\ AgeOf(m)' = a
        /\ \/ m = n + 1 /\ \A i \in 1..n : AgeOf(i)' = AgeOf(i)
           \/ m = n /\ \A i \in 1..n - 1 : AgeOf(i)' = AgeOf(i + 1)
  <2>1. /\ Len(history) \in Nat /\ DOMAIN history = 1..Len(history)
        /\ Len(history') \in Nat /\ DOMAIN history' = 1..Len(history') /\ Len(history') >= 1
        /\ history'[Len(history')] = [age |-> a, TeamCosts |-> costs]
    BY <1>1, SlideAges
  <2>2. \/ /\ Len(history) < HistoryCap /\ Len(history') = Len(history) + 1
           /\ \A i \in 1..Len(history) : AgeOf(i)' = AgeOf(i)
        \/ /\ Len(history) = HistoryCap /\ Len(history') = HistoryCap
           /\ \A i \in 1..HistoryCap - 1 : AgeOf(i)' = AgeOf(i + 1)
    BY <1>1, SlideAges
  <2>3. PICK n \in Nat, m \in Nat : n = Len(history) /\ m = Len(history')
    BY <2>1
  <2>4. AgeOf(m)' = a
    BY <2>1, <2>3 DEF AgeOf
  <2> QED BY <2>1, <2>2, <2>3, <2>4
<1> DEFINE d == m - n
           old(i) == i + 1 - d
<1>3. n \in Nat /\ m \in Nat /\ d \in {0, 1} /\ \A i \in 1..m - 1 : old(i) \in 1..n /\ AgeOf(i)' = AgeOf(old(i))
  BY <1>2
<1>4. \A i \in 1..m - 1 : SlotAt(i)' = SlotAt(old(i)) /\ Late(AgeOf(i))' = Late(AgeOf(old(i)))
  BY <1>3 DEF SlotAt, Slot, Late
<1>5. SlotAt(m)' = Slot(a) /\ Late(AgeOf(m))' = Late(a)
  BY <1>2 DEF SlotAt, Slot, Late
<1>6. \A i \in 1..m - 1 : SlotAt(old(i)) \in Nat /\ SlotAt(old(i)) >= Slot(a) + (n + 1 - old(i))
  BY <1>2, <1>3, SlotsTyped DEF SlotsInvariant
<1>7. \A i \in 1..m - 1 : n + 1 - old(i) = m - i
  BY <1>3
<1>8. ASSUME NEW i \in 1..m, NEW j \in 1..m, i <= j
      PROVE  SlotAt(i)' >= SlotAt(j)' + (j - i)
  <2>1. CASE j = m /\ i = m
    BY <1>1, <1>5, <2>1
  <2>2. CASE j = m /\ i < m
    <3>1. i \in 1..m - 1
      BY <2>2
    <3>2. SlotAt(i)' >= Slot(a) + (m - i)
      BY <1>4, <1>6, <1>7, <3>1
    <3> QED BY <1>5, <2>2, <3>2
  <2>3. CASE j < m
    <3>1. i \in 1..m - 1 /\ j \in 1..m - 1
      BY <1>8, <2>3
    <3>2. old(i) \in DOMAIN history /\ old(j) \in DOMAIN history /\ old(i) <= old(j) /\ old(j) - old(i) = j - i
      BY <1>2, <1>3, <1>8, <3>1
    <3>3. SlotAt(old(i)) >= SlotAt(old(j)) + (old(j) - old(i))
      BY <3>2 DEF SlotsInvariant
    <3> QED BY <1>4, <3>1, <3>2, <3>3
  <2> QED BY <2>1, <2>2, <2>3
<1>9. ticked => Slot(a) >= 1
  BY DEF SlotsInvariant
<1>10. ASSUME ticked', NEW i \in 1..m
       PROVE  SlotAt(i)' >= m + 1 - i
  <2>1. CASE i = m
    BY <1>1, <1>5, <1>9, <1>10, <2>1
  <2>2. CASE i < m
    <3>1. i \in 1..m - 1
      BY <2>2
    <3> QED BY <1>1, <1>4, <1>6, <1>7, <1>9, <1>10, <3>1
  <2> QED BY <2>1, <2>2
<1>11. ticked' /\ taking' = {} => Period - wait' <= MaxLag
  <2>1. ASSUME ticked'
        PROVE  Period - wait <= MaxLag
    <3>1. Period * Slot(a) <= a + wait - 1 /\ wait \in 1..Period /\ Period \in Nat
      BY <1>1, SlotTyped, SlotsTyped, ConstantsTyped
    <3>2. \A s \in Nat : s >= 1 => Period * s >= Period
      BY <3>1
    <3>3. Period <= a + wait - 1
      BY <1>1, <1>9, <2>1, <3>1, <3>2
    <3> QED BY <1>1, <3>1, <3>3, ConstantsTyped
  <2> QED BY <2>1
<1>12. \A i \in 1..m : Late(AgeOf(i))' <= MaxLag
  <2>1. ASSUME NEW i \in 1..m - 1
        PROVE  Late(AgeOf(i))' <= MaxLag
    <3>1. old(i) \in DOMAIN history /\ Late(AgeOf(i))' = Late(AgeOf(old(i)))
      BY <1>2, <1>3, <1>4
    <3> QED BY <3>1 DEF SlotsInvariant
  <2> QED BY <1>1, <1>2, <1>5, <2>1
<1> QED BY <1>2, <1>8, <1>10, <1>11, <1>12 DEF SlotsInvariant

(* Every step keeps the order of the slots.                                *)
LEMMA SlotsNext ==
    ASSUME Typed, Typed', SlotsInvariant, [Next]_vars
    PROVE  SlotsInvariant'
<1>1. CASE CollectEnds
  <2>1. PICK a \in taking, costs \in Levels :
           /\ history' = Slide(history, [age |-> a, TeamCosts |-> costs])
           /\ taking' = {} /\ wait' = wait /\ ticked' = ticked
    BY <1>1 DEF CollectEnds
  <2> QED BY <2>1, SlotsEnds
<1>2. CASE CheckAnomalies \/ PostAlert \/ UNCHANGED vars
  <2>1. UNCHANGED <<history, wait, ticked, taking>>
    BY <1>2 DEF CheckAnomalies, PostAlert, vars, windowVars
  <2> QED BY <2>1 DEF SlotsInvariant, SlotAt, Slot, Late, AgeOf
<1> QED BY <1>1, <1>2, SlotsClock, SlotsBegins DEF Next

-----------------------------------------------------------------------------
(***************************************************************************)
(* The history.  What is younger than a day and no longer kept has as many *)
(* ticks after it as the history has places: there is room for one such.   *)
(***************************************************************************)
(* What is younger than a day and not kept is one snapshot, which has all  *)
(* the history after it.                                                   *)
KeptInvariant ==
    /\ \A x \in Kept : x < Day => x \in taken
    /\ \A x \in taken \ Kept :
          /\ Len(history) = HistoryCap /\ x >= Day - MaxLag
          /\ \A i \in DOMAIN history : Slot(x) >= SlotAt(i) + i
    /\ \A x, y \in taken \ Kept : x = y

(* At the beginning nothing has left the history.                          *)
LEMMA KeptInit == Init => KeptInvariant
<1> SUFFICES ASSUME Init PROVE KeptInvariant
  OBVIOUS
<1>1. history = <<>> /\ taken = {}
  BY DEF Init
<1>2. Kept = {}
  BY <1>1 DEF Kept
<1> QED BY <1>1, <1>2 DEF KeptInvariant

(* What is remembered is younger than a day.                               *)
LEMMA TakenTyped == Typed => taken \subseteq Nat /\ (\A x \in taken : x < Day) /\ Day \in Nat
BY DayIsLong DEF Typed, TypeOK

(* The clock moves what is kept and what has left alike.                   *)
LEMMA KeptClock ==
    ASSUME Typed, Typed', KeptInvariant, Clock
    PROVE  KeptInvariant'
<1>1. /\ Len(history') = Len(history) /\ DOMAIN history' = DOMAIN history
      /\ \A i \in DOMAIN history : AgeOf(i) \in Nat /\ AgeOf(i)' = AgeOf(i) + 1
  BY ClockAges
<1>2. taken' = {x + 1 : x \in taken} \ {Day} /\ Day \in Nat /\ \A x \in taken : x \in Nat /\ x < Day
  BY TakenTyped DEF Clock
<1>3. \A g \in Nat : g \in Kept <=> g + 1 \in Kept'
  BY <1>1 DEF Kept
<1>4. ASSUME NEW y \in Kept', y < Day
      PROVE  y \in taken'
  <2>1. PICK i \in DOMAIN history : y = AgeOf(i) + 1 /\ AgeOf(i) \in Nat
    BY <1>1 DEF Kept
  <2>2. AgeOf(i) \in taken
    BY <1>2, <1>4, <2>1 DEF KeptInvariant, Kept
  <2> QED BY <1>2, <1>4, <2>1, <2>2
<1>5. ASSUME NEW y \in taken' \ Kept'
      PROVE  \E x \in taken \ Kept : y = x + 1 /\ x \in Nat
  <2>1. PICK x \in taken : y = x + 1 /\ x \in Nat
    BY <1>2
  <2> QED BY <1>3, <2>1
<1>6. ASSUME NEW y \in taken' \ Kept'
      PROVE  /\ Len(history') = HistoryCap /\ y >= Day - MaxLag
             /\ \A i \in DOMAIN history' : Slot(y)' >= SlotAt(i)' + i
  <2>1. PICK x \in taken \ Kept : y = x + 1 /\ x \in Nat
    BY <1>5
  <2>2. Len(history) = HistoryCap /\ x >= Day - MaxLag /\ \A i \in DOMAIN history : Slot(x) >= SlotAt(i) + i
    BY <2>1 DEF KeptInvariant
  <2>3. y >= Day - MaxLag
    BY <1>2, <2>1, <2>2, ConstantsTyped
  <2>4. Slot(x + 1)' = Slot(x) + (IF wait = 1 THEN 1 ELSE 0) /\ Slot(x) \in Nat
    BY <2>1, SlotClock, SlotTyped
  <2>5. Slot(y)' = Slot(x + 1)'
    BY <2>1
  <2>6. ASSUME NEW i \in DOMAIN history
        PROVE  Slot(y)' >= SlotAt(i)' + i
    <3>1. SlotAt(i) \in Nat /\ SlotAt(i)' = SlotAt(i) + (IF wait = 1 THEN 1 ELSE 0) /\ i \in Nat
      BY ClockSlots, SlotsTyped
    <3> QED BY <2>2, <2>4, <2>5, <3>1
  <2> QED BY <1>1, <2>2, <2>3, <2>6
<1>7. \A x, y \in taken' \ Kept' : x = y
  BY <1>5 DEF KeptInvariant
<1> QED BY <1>4, <1>6, <1>7 DEF KeptInvariant

(* What leaves the history has more ticks after it than the history holds. *)
LEMMA FarSlots ==
    ASSUME Typed, NEW x \in Nat
    PROVE  /\ Slot(x) >= HistoryCap /\ Late(x) <= MaxLag => x >= Day - MaxLag
           /\ Slot(x) >= HistoryCap + 1 => x > Day
<1>1. /\ Slot(x) \in Nat /\ Late(x) \in Nat /\ Late(x) = Period * Slot(x) + Period - wait - x
      /\ Period * Slot(x) <= x + wait - 1
      /\ wait \in 1..Period /\ Period \in Nat /\ HistoryCap \in Nat /\ MaxLag \in Nat
  BY SlotTyped, SlotsTyped, ConstantsTyped DEF Late
<1>2. \A s, t \in Nat : s >= t => Period * s >= Period * t
  <2>1. ASSUME NEW s \in Nat, NEW t \in Nat, s >= t
        PROVE  Period * s >= Period * t
    <3>1. s - t \in Nat /\ Period * s = Period * t + Period * (s - t)
      BY <1>1, <2>1
    <3>2. \A u \in Nat : Period * u \in Nat
      BY <1>1
    <3>3. Period * (s - t) >= 0 /\ Period * t \in Nat /\ Period * (s - t) \in Nat
      BY <3>1, <3>2
    <3> QED BY <3>1, <3>3
  <2> QED BY <2>1
<1>3. Period * HistoryCap = Day /\ Period * (HistoryCap + 1) = Day + Period /\ Day \in Nat
  BY <1>1 DEF Day
<1>4. Slot(x) >= HistoryCap => Period * Slot(x) >= Day
  BY <1>1, <1>2, <1>3
<1>5. Slot(x) >= HistoryCap + 1 => Period * Slot(x) >= Day + Period
  <2>1. HistoryCap + 1 \in Nat
    BY <1>1
  <2> QED BY <1>1, <1>2, <1>3, <2>1
<1> QED BY <1>1, <1>3, <1>4, <1>5

(* A new snapshot drives out at most one that is younger than a day.       *)
LEMMA KeptEnds ==
    ASSUME Typed, Typed', SlotsInvariant, KeptInvariant, NEW a \in taking, NEW costs \in Levels,
           history' = Slide(history, [age |-> a, TeamCosts |-> costs]),
           taken' = taken \cup {a}, wait' = wait
    PROVE  KeptInvariant'
<1>1. a \in Nat /\ a <= MaxLag /\ Slot(a) \in Nat
  BY SlotsTyped, ConstantsTyped DEF SlotsInvariant
<1>2. /\ Len(history) \in Nat /\ DOMAIN history = 1..Len(history)
      /\ Len(history') \in Nat /\ DOMAIN history' = 1..Len(history') /\ Len(history') >= 1
      /\ history'[Len(history')] = [age |-> a, TeamCosts |-> costs]
      /\ \A i \in DOMAIN history : AgeOf(i) \in Nat
  BY <1>1, SlideAges
<1>3. \/ /\ Len(history) < HistoryCap /\ Len(history') = Len(history) + 1
         /\ \A i \in 1..Len(history) : AgeOf(i)' = AgeOf(i)
      \/ /\ Len(history) = HistoryCap /\ Len(history') = HistoryCap
         /\ \A i \in 1..HistoryCap - 1 : AgeOf(i)' = AgeOf(i + 1)
  BY <1>1, SlideAges
<1>4. PICK n \in Nat, m \in Nat : n = Len(history) /\ m = Len(history') /\ m >= 1
  BY <1>2
<1>5. AgeOf(m)' = a /\ a \in Kept'
  BY <1>2, <1>4 DEF AgeOf, Kept
<1>12. /\ DOMAIN history = 1..n /\ DOMAIN history' = 1..m
       /\ \/ n < HistoryCap /\ m = n + 1 /\ \A i \in 1..n : AgeOf(i)' = AgeOf(i)
          \/ n = HistoryCap /\ m = n /\ \A i \in 1..n - 1 : AgeOf(i)' = AgeOf(i + 1)
  BY <1>2, <1>3, <1>4
<1>6. /\ \A g : Slot(g)' = Slot(g)
      /\ \A i \in DOMAIN history, j \in DOMAIN history' : AgeOf(j)' = AgeOf(i) => SlotAt(j)' = SlotAt(i)
      /\ SlotAt(m)' = Slot(a)
  BY <1>5 DEF SlotAt, Slot
<1>7. HistoryCap \in Nat /\ HistoryCap >= 1 /\ Day \in Nat /\ \A x \in taken : x \in Nat /\ x < Day
  BY ConstantsTyped, TakenTyped
<1>8. Kept' \subseteq Kept \cup {a}
  <2>1. ASSUME NEW j \in DOMAIN history'
        PROVE  AgeOf(j)' \in Kept \cup {a}
    <3>1. CASE j = m
      BY <1>5, <3>1
    <3>2. CASE j # m
      <4>1. \E i \in DOMAIN history : AgeOf(j)' = AgeOf(i)
        <5>1. CASE n < HistoryCap
          <6>1. j \in 1..n
            BY <1>7, <1>12, <3>2, <5>1
          <6> QED BY <1>7, <1>12, <5>1, <6>1
        <5>2. CASE n = HistoryCap
          <6>1. j \in 1..n - 1 /\ j + 1 \in 1..n
            BY <1>7, <1>12, <3>2, <5>2
          <6> QED BY <1>7, <1>12, <5>2, <6>1
        <5> QED BY <1>12, <5>1, <5>2
      <4> QED BY <4>1 DEF Kept
    <3> QED BY <3>1, <3>2
  <2> QED BY <2>1 DEF Kept
<1>9. \A x \in Kept' : x < Day => x \in taken'
  BY <1>8 DEF KeptInvariant
<1>10. CASE n < HistoryCap
  <2>1. Kept \subseteq Kept'
    <3>1. ASSUME NEW i \in DOMAIN history
          PROVE  AgeOf(i) \in Kept'
      <4>1. i \in 1..n /\ i \in DOMAIN history'
        BY <1>7, <1>10, <1>12
      <4>2. AgeOf(i)' = AgeOf(i)
        BY <1>7, <1>10, <1>12, <4>1
      <4> QED BY <4>1, <4>2 DEF Kept
    <3> QED BY <3>1 DEF Kept
  <2>2. taken \ Kept = {}
    BY <1>4, <1>7, <1>10 DEF KeptInvariant
  <2>3. taken' \ Kept' = {}
    BY <1>5, <2>1, <2>2
  <2> QED BY <1>9, <2>3 DEF KeptInvariant
<1>11. CASE n = HistoryCap
  <2>1. /\ m = HistoryCap /\ 1 \in DOMAIN history
        /\ \A i \in 1..HistoryCap - 1 : i + 1 \in DOMAIN history /\ AgeOf(i)' = AgeOf(i + 1)
    BY <1>2, <1>3, <1>4, <1>7, <1>11
  <2>2. Kept \subseteq Kept' \cup {AgeOf(1)}
    <3>1. ASSUME NEW j \in DOMAIN history, j # 1
          PROVE  AgeOf(j) \in Kept'
      <4>1. j - 1 \in 1..HistoryCap - 1 /\ (j - 1) + 1 = j /\ j - 1 \in DOMAIN history'
        BY <1>2, <1>4, <1>11, <2>1, <3>1
      <4>2. AgeOf(j - 1)' = AgeOf(j)
        BY <2>1, <4>1
      <4> QED BY <4>1, <4>2 DEF Kept
    <3> QED BY <3>1 DEF Kept
  <2>3. SlotAt(1) >= Slot(a) + HistoryCap /\ SlotAt(1) \in Nat /\ AgeOf(1) \in Nat /\ SlotAt(1) = Slot(AgeOf(1))
    <3>1. SlotAt(1) >= Slot(a) + (Len(history) + 1 - 1)
      BY <2>1 DEF SlotsInvariant
    <3>2. SlotAt(1) \in Nat /\ AgeOf(1) \in Nat
      BY <2>1, SlotsTyped
    <3> QED BY <1>1, <1>4, <1>7, <1>11, <3>1, <3>2 DEF SlotAt
  <2>4. taken \ Kept = {}
    <3>1. ASSUME NEW x \in taken \ Kept
          PROVE  FALSE
      <4>1. Slot(x) >= SlotAt(1) + 1 /\ x \in Nat /\ x < Day
        BY <1>7, <2>1 DEF KeptInvariant
      <4>2. Slot(x) >= HistoryCap + 1
        BY <1>1, <1>7, <2>3, <4>1, SlotTyped
      <4> QED BY <1>7, <4>1, <4>2, FarSlots
    <3> QED BY <3>1
  <2>5. \A x \in taken' \ Kept' : x = AgeOf(1)
    BY <1>5, <2>2, <2>4
  <2>6. AgeOf(1) >= Day - MaxLag
    <3>1. Late(AgeOf(1)) <= MaxLag /\ SlotAt(1) >= HistoryCap
      BY <1>1, <1>7, <2>1, <2>3 DEF SlotsInvariant
    <3> QED BY <2>3, <3>1, FarSlots
  <2>7. ASSUME NEW i \in DOMAIN history'
        PROVE  SlotAt(1) >= SlotAt(i)' + i
    <3>1. CASE i = m
      BY <1>6, <2>1, <2>3, <3>1
    <3>2. CASE i # m
      <4>1. i \in 1..HistoryCap - 1 /\ 1 <= i + 1
        BY <1>2, <1>4, <2>1, <3>2
      <4>2. SlotAt(i)' = SlotAt(i + 1) /\ SlotAt(i + 1) \in Nat
        BY <1>2, <1>6, <2>1, <4>1, SlotsTyped
      <4>3. SlotAt(1) >= SlotAt(i + 1) + (i + 1 - 1)
        BY <2>1, <4>1 DEF SlotsInvariant
      <4> QED BY <2>3, <4>1, <4>2, <4>3
    <3> QED BY <3>1, <3>2
  <2>8. \A x \in taken' \ Kept' : Slot(x)' = SlotAt(1)
    BY <1>6, <2>3, <2>5
  <2> QED BY <1>4, <1>9, <2>1, <2>5, <2>6, <2>7, <2>8 DEF KeptInvariant
<1> QED BY <1>2, <1>3, <1>4, <1>10, <1>11

(* Every step keeps what is known of those that left.                      *)
LEMMA KeptNext ==
    ASSUME Typed, Typed', SlotsInvariant, KeptInvariant, [Next]_vars
    PROVE  KeptInvariant'
<1>1. CASE CollectEnds
  <2>1. PICK a \in taking, costs \in Levels :
           /\ history' = Slide(history, [age |-> a, TeamCosts |-> costs])
           /\ taken' = taken \cup {a} /\ wait' = wait
    BY <1>1 DEF CollectEnds
  <2> QED BY <2>1, KeptEnds
<1>2. CASE CollectBegins \/ CheckAnomalies \/ PostAlert \/ UNCHANGED vars
  <2>1. UNCHANGED <<history, wait, taken>>
    BY <1>2 DEF CollectBegins, CheckAnomalies, PostAlert, vars, windowVars
  <2> QED BY <2>1 DEF KeptInvariant, Kept, SlotAt, Slot, AgeOf
<1> QED BY <1>1, <1>2, KeptClock DEF Next

(* The history's answers, from what is kept.                               *)
LEMMA KeptAnswers ==
    ASSUME Typed, KeptInvariant
    PROVE  HistoryComplete
<1>1. \A since : AgesOf(History(since)) = {g \in Kept : g < since}
  BY DEF AgesOf, History, Kept, AgeOf
<1>2. /\ handleHistory({}) = {g \in Kept : g < Day}
      /\ \A since : handleHistory({since}) = {g \in Kept : g < since}
  BY <1>1 DEF handleHistory
<1>3. Day \in Nat /\ MaxLag \in Nat /\ \A x \in taken : x \in Nat /\ x < Day
  BY TakenTyped, ConstantsTyped
<1>4. \A g \in Kept : g \in Nat
  BY SlotsTyped DEF Kept
<1>5. ASSUME NEW since \in 0..Day - MaxLag
      PROVE  handleHistory({since}) = {age \in taken : age < since}
  <2>1. \A g \in Kept : g < since => g \in taken
    BY <1>3, <1>4 DEF KeptInvariant
  <2>2. \A x \in taken : x < since => x \in Kept
    BY <1>3 DEF KeptInvariant
  <2> QED BY <1>2, <2>1, <2>2
<1>6. Cardinality(taken \ handleHistory({})) <= 1
  <2>1. taken \ handleHistory({}) = taken \ Kept
    BY <1>2, <1>3
  <2>2. CASE taken \ Kept = {}
    BY <2>1, <2>2, FS_EmptySet
  <2>3. CASE taken \ Kept # {}
    <3>1. PICK x : taken \ Kept = {x}
      BY <2>3 DEF KeptInvariant
    <3> QED BY <2>1, <3>1, FS_Singleton
  <2> QED BY <2>2, <2>3
<1> QED BY <1>5, <1>6 DEF HistoryComplete

(* The history, cut by number, has what is asked of it by time, however    *)
(* late the loop is and however many ticks it misses (Run, collect,        *)
(* History).                                                               *)
THEOREM HistoryCompleteCorrect == Spec => []HistoryComplete
<1> DEFINE Inv == Typed /\ SlotsInvariant /\ KeptInvariant
<1>1. Init => Inv
  BY TypedInit, SlotsInit, KeptInit
<1>2. Inv /\ [Next]_vars => Inv'
  BY TypedNext, SlotsNext, KeptNext
<1>3. Inv => HistoryComplete
  BY KeptAnswers
<1> QED BY <1>1, <1>2, <1>3, PTL DEF Spec

-----------------------------------------------------------------------------
(***************************************************************************)
(* The checks.  Until a window is published after a check, the ticker or   *)
(* the collect() under way tells how long ago that check can be; and how   *)
(* late that check was, the posts of the check before it tell.             *)
(***************************************************************************)
(* Steps of the clock from the tick before the last check to now, or to    *)
(* the second tick after it.                                               *)
Elapsed == (IF checkDue THEN CheckPeriod ELSE 0) + (CheckPeriod - checkWait)

(* The longest the posts of the check before the last one can have taken.  *)
Slack == lastCheck.before * MaxPost

Newest == IF history = <<>> THEN lastCheck.age ELSE LatestSnapshot.age

(* A window was published since the last check.                            *)
Fresh == history # <<>> /\ LatestSnapshot.age < lastCheck.age

(* The alerts of the last check that are posted.                           *)
Posted == Cardinality(lastCheck.alerts) - Cardinality(posting)

(* A tick waits in the channel no longer than the posts have taken.        *)
PostInvariant ==
    /\ posting = {} => postAge = 0
    /\ checkDue => CheckPeriod - checkWait <= Posted * MaxPost + postAge

(* How long ago the last check can be while nothing was published since.   *)
FreshInvariant ==
    /\ history = <<>> => lastCheck.before = 0
    /\ Newest <= lastCheck.age
    /\ ticked => Newest >= 1 /\ \A a \in taking : a >= 1
    /\ \A a \in taking : a < Newest
    /\ ~Fresh /\ ticked /\ taking = {} => Elapsed <= Slack + Period
    /\ ~Fresh /\ ~ticked /\ taking = {} => Elapsed + wait <= Slack + Period
    /\ ~Fresh => \A a \in taking : Elapsed <= Slack + Period + a

(* A number of posts, each as long as can be, takes a whole number of      *)
(* steps, and one post more takes longer.                                  *)
LEMMA PostsTake ==
    ASSUME NEW n \in Nat
    PROVE  n * MaxPost \in Nat /\ (n + 1) * MaxPost = n * MaxPost + MaxPost
BY ConstantsTyped

(* Types of what the checks compare.                                       *)
LEMMA AgesTyped ==
    ASSUME Typed
    PROVE  /\ LatestSnapshot.age \in Nat /\ lastCheck.age \in Nat /\ Newest \in Nat
           /\ Elapsed \in Nat /\ Slack \in Nat /\ Posted \in Nat /\ postAge \in 0..MaxPost
           /\ wait \in 1..Period /\ checkWait \in 1..CheckPeriod
           /\ \A a \in taking : a \in Nat /\ a <= MaxLag
<1>1. LatestSnapshot.age \in Nat
  BY LatestTyped DEF Snapshots
<1>2. lastCheck.age \in Nat
  BY DEF Typed, Checks
<1>3. wait \in 1..Period /\ checkWait \in 1..CheckPeriod
  BY DEF Typed, TypeOK
<1>4. Elapsed \in Nat
  BY <1>3, ConstantsTyped DEF Elapsed
<1>5. \A a \in taking : a \in Nat /\ a <= MaxLag
  BY ConstantsTyped DEF Typed, TypeOK
<1>6. Slack \in Nat
  <2>1. lastCheck.before \in Nat
    BY DEF Typed, Checks
  <2> QED BY <2>1, PostsTake DEF Slack
<1>7. Posted \in Nat
  <2>1. lastCheck.alerts \in SUBSET Teams /\ posting \in SUBSET lastCheck.alerts
    BY DEF Typed, TypeOK, Checks
  <2>2. Cardinality(posting) <= Cardinality(lastCheck.alerts)
    BY <2>1, TeamsCounted, FS_Subset
  <2> QED BY <2>1, <2>2, TeamsCounted DEF Posted
<1>8. postAge \in 0..MaxPost
  BY DEF Typed, TypeOK
<1> QED BY <1>1, <1>2, <1>3, <1>4, <1>5, <1>6, <1>7, <1>8 DEF Newest

(* At the beginning no check was made.                                     *)
LEMMA FreshInit == Init => PostInvariant /\ FreshInvariant
<1> SUFFICES ASSUME Init PROVE PostInvariant /\ FreshInvariant
  OBVIOUS
<1>1. Elapsed = 0 /\ Slack \in Nat /\ lastCheck.before = 0
  BY ConstantsTyped, PostsTake DEF Init, Nothing, Elapsed, Slack
<1>2. Newest = lastCheck.age /\ lastCheck.age = 0
  BY DEF Init, Newest, Nothing
<1>3. wait = Period /\ ~ticked /\ taking = {} /\ ~checkDue /\ postAge = 0
  BY DEF Init
<1> QED BY <1>1, <1>2, <1>3, ConstantsTyped DEF PostInvariant, FreshInvariant

(* The clock: a tick finds the loop at its posts.                          *)
LEMMA PostClock ==
    ASSUME Typed, PostInvariant, Clock
    PROVE  PostInvariant'
<1>1. /\ Posted \in Nat /\ postAge \in 0..MaxPost /\ checkWait \in 1..CheckPeriod
      /\ CheckPeriod \in Nat /\ MaxPost \in Nat
  BY AgesTyped, ConstantsTyped
<1>2. PICK n \in Nat : n = Posted * MaxPost
  BY <1>1, PostsTake
<1>3. /\ checkDue => posting # {}
      /\ checkWait' = IF checkWait = 1 THEN CheckPeriod ELSE checkWait - 1
      /\ checkDue' => checkDue \/ checkWait = 1
      /\ postAge' = IF posting = {} THEN 0 ELSE postAge + 1
      /\ posting' = posting /\ lastCheck'.alerts = lastCheck.alerts
  BY DEF Clock, Typed, Checks
<1>4. Posted' * MaxPost = n
  BY <1>2, <1>3 DEF Posted
<1>5. checkDue' => CheckPeriod - checkWait' <= n + postAge'
  BY <1>1, <1>2, <1>3 DEF PostInvariant
<1> QED BY <1>3, <1>4, <1>5 DEF PostInvariant

(* One post more is done, which took what it may take at most.             *)
LEMMA PostPosted ==
    ASSUME Typed, PostInvariant, PostAlert
    PROVE  PostInvariant'
<1>1. PICK t \in posting : posting' = posting \ {t}
  BY DEF PostAlert
<1>2. postAge' = 0 /\ UNCHANGED <<checkWait, checkDue, lastCheck>>
  BY DEF PostAlert, slackVars
<1>3. /\ Posted \in Nat /\ postAge \in 0..MaxPost /\ checkWait \in 1..CheckPeriod
      /\ CheckPeriod \in Nat /\ MaxPost \in Nat
  BY AgesTyped, ConstantsTyped
<1>4. Posted' = Posted + 1
  <2>1. posting \in SUBSET Teams /\ lastCheck.alerts \in SUBSET Teams
    BY DEF Typed, TypeOK, Checks
  <2>2. Cardinality(posting') = Cardinality(posting) - 1
    BY <1>1, <2>1, TeamsCounted, FS_RemoveElement
  <2> QED BY <1>2, <2>1, <2>2, TeamsCounted DEF Posted
<1>5. PICK n \in Nat : n = Posted * MaxPost /\ Posted' * MaxPost = n + MaxPost
  BY <1>3, <1>4, PostsTake
<1>6. checkDue => CheckPeriod - checkWait <= n + postAge
  BY <1>5 DEF PostInvariant
<1>7. checkDue' => CheckPeriod - checkWait' <= n + MaxPost + 0
  BY <1>2, <1>3, <1>6
<1> QED BY <1>2, <1>5, <1>7 DEF PostInvariant

(* Every step keeps how long a tick has waited.                            *)
LEMMA PostNext ==
    ASSUME Typed, PostInvariant, [Next]_vars
    PROVE  PostInvariant'
<1>1. CASE CheckAnomalies
  BY <1>1 DEF CheckAnomalies, PostInvariant
<1>2. CASE CollectBegins \/ CollectEnds \/ UNCHANGED vars
  <2>1. UNCHANGED <<posting, postAge, checkWait, checkDue, lastCheck>>
    BY <1>2 DEF CollectBegins, CollectEnds, vars, postVars, slackVars
  <2> QED BY <2>1 DEF PostInvariant, Posted
<1> QED BY <1>1, <1>2, PostClock, PostPosted DEF Next

(* The clock moves the latest snapshot and the last check alike.           *)
LEMMA LatestClock ==
    ASSUME Typed, Clock
    PROVE  /\ history' = <<>> <=> history = <<>>
           /\ history # <<>> => LatestSnapshot.age' = LatestSnapshot.age + 1
           /\ lastCheck.age' = lastCheck.age + 1
<1>1. /\ Len(history) \in Nat /\ Len(history') = Len(history)
      /\ DOMAIN history = 1..Len(history) /\ DOMAIN history' = DOMAIN history
      /\ \A i \in DOMAIN history : AgeOf(i)' = AgeOf(i) + 1
  BY ClockAges
<1>2. history \in Seq(Snapshots)
  BY DEF Typed
<1>3. history' \in Seq(Snapshots)
  BY TypedNext DEF Next, Typed
<1>4. history' = <<>> <=> history = <<>>
  BY <1>1, <1>2, <1>3
<1>5. ASSUME history # <<>>
      PROVE  LatestSnapshot.age' = LatestSnapshot.age + 1
  <2>1. PICK n \in Nat : n = Len(history)
    BY <1>1
  <2>2. n \in DOMAIN history
    BY <1>1, <1>2, <1>5, <2>1
  <2>3. history'[n].age = history[n].age + 1
    BY <1>1, <2>2 DEF AgeOf
  <2> QED BY <1>1, <1>4, <1>5, <2>1, <2>3 DEF LatestSnapshot
<1>6. lastCheck.age' = lastCheck.age + 1
  BY DEF Clock, Typed, Checks
<1> QED BY <1>4, <1>5, <1>6

(* The clock: an idle Run takes the tick it brings before the next step.   *)
LEMMA FreshClock ==
    ASSUME Typed, Typed', FreshInvariant, Clock
    PROVE  FreshInvariant'
<1>1. /\ LatestSnapshot.age \in Nat /\ lastCheck.age \in Nat /\ Newest \in Nat
      /\ Elapsed \in Nat /\ Slack \in Nat
      /\ wait \in 1..Period /\ checkWait \in 1..CheckPeriod /\ \A a \in taking : a \in Nat
      /\ Period \in Nat /\ CheckPeriod \in Nat /\ CheckPeriod >= 1
  BY AgesTyped, ConstantsTyped
<1>2. Newest' = Newest + 1 /\ (Fresh' <=> Fresh) /\ lastCheck.age' = lastCheck.age + 1
  BY <1>1, LatestClock DEF Newest, Fresh
<1>3. Elapsed' \in Nat /\ Elapsed' <= Elapsed + 1
  <2>1. /\ checkWait' = IF checkWait = 1 THEN CheckPeriod ELSE checkWait - 1
        /\ checkDue' <=> checkDue \/ checkWait = 1
    BY DEF Clock
  <2>2. CASE checkWait = 1
    BY <1>1, <2>1, <2>2 DEF Elapsed
  <2>3. CASE checkWait # 1
    BY <1>1, <2>1, <2>3 DEF Elapsed
  <2> QED BY <2>2, <2>3
<1>4. /\ wait' = IF wait = 1 THEN Period ELSE wait - 1
      /\ ticked' <=> ticked \/ wait = 1
      /\ taking' = {a + 1 : a \in taking}
      /\ ticked => taking # {}
  BY DEF Clock, Typed, TypeOK
<1>5. \A b \in taking' : \E a \in taking : b = a + 1 /\ a \in Nat /\ a < Newest
  BY <1>1, <1>4 DEF FreshInvariant
<1>6. taking' = {} <=> taking = {}
  BY <1>4
<1>7. Newest' <= lastCheck.age'
  BY <1>1, <1>2 DEF FreshInvariant
<1>8. \A b \in taking' : b < Newest' /\ b >= 1
  BY <1>1, <1>2, <1>5
<1>9. lastCheck'.before = lastCheck.before /\ Slack' = Slack
  BY DEF Clock, Typed, Checks, Slack
<1>10. ASSUME ~Fresh', taking' = {}
      PROVE  /\ ticked' => Elapsed' <= Slack' + Period
             /\ ~ticked' => Elapsed' + wait' <= Slack' + Period
  <2>1. ~ticked /\ Elapsed + wait <= Slack + Period
    BY <1>2, <1>4, <1>6, <1>10 DEF FreshInvariant
  <2>2. ticked' <=> wait = 1
    BY <1>4, <2>1
  <2>3. CASE wait = 1
    BY <1>1, <1>3, <1>9, <2>1, <2>2, <2>3
  <2>4. CASE wait # 1
    <3>1. wait' \in Nat /\ wait' <= wait - 1 /\ ~ticked'
      BY <1>1, <1>4, <2>2, <2>4
    <3>2. Slack' \in Nat /\ Slack' >= Slack
      BY <1>1, <1>9
    <3>3. PICK e \in Nat, k \in Nat, w \in Nat :
              e = Elapsed' /\ k = Slack' /\ w = wait' /\ e <= Elapsed + 1 /\ k >= Slack /\ w <= wait - 1
      BY <1>3, <3>1, <3>2
    <3>4. PICK f \in Nat, l \in Nat, v \in Nat : f = Elapsed /\ l = Slack /\ v = wait /\ f + v <= l + Period
      BY <1>1, <2>1
    <3>5. e <= f + 1 /\ k >= l /\ w <= v - 1 /\ f + v <= l + Period /\ Period \in Nat
      BY <1>1, <3>3, <3>4
    <3>6. e + w <= k + Period
      BY <3>5
    <3> QED BY <3>1, <3>3, <3>6, Zenon
  <2> QED BY <2>3, <2>4
<1>11. ~Fresh' => \A b \in taking' : Elapsed' <= Slack' + Period + b
  <2>1. ASSUME ~Fresh', NEW b \in taking'
        PROVE  Elapsed' <= Slack' + Period + b
    <3>1. PICK a \in taking : b = a + 1 /\ a \in Nat
      BY <1>5
    <3>2. Elapsed <= Slack + Period + a
      BY <1>2, <2>1 DEF FreshInvariant
    <3> QED BY <1>1, <1>3, <1>9, <3>1, <3>2
  <2> QED BY <2>1
<1>12. Newest' >= 1
  BY <1>1, <1>2
<1>13. history' = <<>> => lastCheck'.before = 0
  BY <1>9, LatestClock DEF FreshInvariant
<1> QED BY <1>7, <1>8, <1>10, <1>11, <1>12, <1>13 DEF FreshInvariant

(* A collect() that begins is younger than what is published.              *)
LEMMA FreshBegins ==
    ASSUME Typed, FreshInvariant, CollectBegins
    PROVE  FreshInvariant'
<1>1. /\ ticked /\ taking = {} /\ ticked' = FALSE /\ taking' = {0}
      /\ UNCHANGED <<history, wait, checkWait, checkDue, lastCheck>>
  BY DEF CollectBegins, slackVars
<1>2. UNCHANGED <<Newest, Elapsed, Slack, Fresh>> /\ lastCheck.age' = lastCheck.age
  BY <1>1 DEF Newest, Elapsed, Slack, Fresh, LatestSnapshot
<1>3. Newest \in Nat /\ Elapsed \in Nat /\ Slack \in Nat /\ Period \in Nat
  BY AgesTyped, ConstantsTyped
<1> QED BY <1>1, <1>2, <1>3 DEF FreshInvariant

(* A published window is newer than the last check's.                      *)
LEMMA FreshEnds ==
    ASSUME Typed, FreshInvariant, CollectEnds
    PROVE  FreshInvariant'
<1>1. PICK a \in taking, costs \in Levels :
        /\ history' = Slide(history, [age |-> a, TeamCosts |-> costs])
        /\ taking' = {} /\ UNCHANGED <<wait, ticked, checkWait, checkDue, lastCheck>>
  BY DEF CollectEnds, slackVars
<1>2. a \in Nat /\ Newest \in Nat /\ lastCheck.age \in Nat
  BY AgesTyped
<1>3. LatestSnapshot.age' = a /\ history' # <<>>
  <2>1. /\ Len(history') \in Nat /\ Len(history') >= 1
        /\ history'[Len(history')] = [age |-> a, TeamCosts |-> costs]
    BY <1>1, <1>2, SlideAges
  <2>2. history' # <<>>
    BY <2>1
  <2>3. LatestSnapshot' = [age |-> a, TeamCosts |-> costs]
    BY <2>1, <2>2 DEF LatestSnapshot
  <2> QED BY <2>2, <2>3
<1>4. Newest' = a /\ a < Newest /\ Newest <= lastCheck.age /\ lastCheck.age' = lastCheck.age
  BY <1>1, <1>3 DEF Newest, FreshInvariant
<1>5. Fresh'
  BY <1>2, <1>3, <1>4 DEF Fresh
<1>6. ticked' => Newest' >= 1
  BY <1>1, <1>4 DEF FreshInvariant
<1> QED BY <1>1, <1>2, <1>3, <1>4, <1>5, <1>6 DEF FreshInvariant

(* When a check is due and no window has come since the one before, the    *)
(* posts before that one made it late.                                     *)
LEMMA CheckNotFresh ==
    ASSUME Typed, FreshInvariant, checkDue, ~Fresh
    PROVE  Slack >= CheckPeriod - Period - MaxLag
<1>1. /\ wait \in 1..Period /\ checkWait \in 1..CheckPeriod /\ Elapsed \in Nat /\ Slack \in Nat
      /\ Period \in Nat /\ CheckPeriod \in Nat /\ MaxLag \in Nat
  BY AgesTyped, ConstantsTyped
<1>2. Elapsed >= CheckPeriod
  BY <1>1 DEF Elapsed
<1>3. CASE taking = {}
  <2>1. Elapsed <= Slack + Period \/ Elapsed + wait <= Slack + Period
    BY <1>3 DEF FreshInvariant
  <2> QED BY <1>1, <1>2, <2>1
<1>4. CASE taking # {}
  <2>1. PICK a \in taking : a \in Nat /\ a <= MaxLag
    BY <1>4, AgesTyped
  <2>2. Elapsed <= Slack + Period + a
    BY <2>1 DEF FreshInvariant
  <2> QED BY <1>1, <1>2, <2>1, <2>2
<1> QED BY <1>3, <1>4

(* After a check the count begins again.  The first check finds a window,  *)
(* if five minutes are more than a period and a collect().                 *)
LEMMA FreshCheck ==
    ASSUME Typed, PostInvariant, FreshInvariant, CheckAnomalies,
           CheckPeriod > Period + MaxLag
    PROVE  FreshInvariant'
<1>1. /\ checkDue /\ checkDue' = FALSE /\ posting = {}
      /\ lastCheck'.age = LatestSnapshot.age
      /\ lastCheck'.before = Cardinality(lastCheck.alerts)
      /\ UNCHANGED <<history, wait, ticked, taking, checkWait>>
  BY DEF CheckAnomalies, windowVars
<1>2. /\ Newest \in Nat /\ wait \in 1..Period /\ checkWait \in 1..CheckPeriod
      /\ Period \in Nat /\ CheckPeriod \in Nat /\ MaxLag \in Nat
      /\ \A a \in taking : a \in Nat
  BY AgesTyped, ConstantsTyped
<1>3. history # <<>>
  <2>1. SUFFICES ASSUME history = <<>> PROVE FALSE
    OBVIOUS
  <2>2. Slack = 0 /\ ~Fresh
    BY <2>1, ConstantsTyped DEF FreshInvariant, Slack, Fresh
  <2>3. Slack >= CheckPeriod - Period - MaxLag
    BY <1>1, <2>2, CheckNotFresh
  <2> QED BY <1>2, <2>2, <2>3
<1>4. Newest = LatestSnapshot.age /\ Newest' = Newest /\ lastCheck.age' = Newest
  BY <1>1, <1>3 DEF Newest, LatestSnapshot
<1>5. Elapsed' = CheckPeriod - checkWait
  BY <1>1, <1>2 DEF Elapsed
<1>6. Slack' \in Nat /\ Elapsed' <= Slack'
  <2>1. lastCheck.alerts \in SUBSET Teams
    BY DEF Typed, Checks
  <2>2. Cardinality(lastCheck.alerts) \in Nat /\ Cardinality(posting) = 0
    BY <1>1, <2>1, TeamsCounted, FS_EmptySet
  <2>3. Posted = Cardinality(lastCheck.alerts) /\ postAge = 0
    BY <1>1, <2>2 DEF Posted, PostInvariant
  <2>4. PICK n \in Nat : n = Posted * MaxPost
    BY <2>2, <2>3, PostsTake
  <2>5. CheckPeriod - checkWait <= n
    BY <1>1, <2>3, <2>4 DEF PostInvariant
  <2>6. Slack' = n
    BY <1>1, <2>3, <2>4 DEF Slack
  <2> QED BY <1>5, <2>4, <2>5, <2>6
<1>7. Elapsed' \in Nat
  BY <1>2, <1>5
<1>8. \A a \in taking' : Elapsed' <= Slack' + Period + a
  BY <1>1, <1>2, <1>6, <1>7
<1>9. Elapsed' <= Slack' + Period /\ Elapsed' + wait' <= Slack' + Period
  <2>1. wait' \in Nat /\ wait' <= Period /\ Period \in Nat
    BY <1>1, <1>2
  <2>2. PICK e \in Nat, k \in Nat, w \in Nat :
            e = Elapsed' /\ k = Slack' /\ w = wait' /\ e <= k /\ w <= Period
    BY <1>6, <1>7, <2>1
  <2>3. e <= k /\ w <= Period /\ Period \in Nat
    BY <2>1, <2>2
  <2>4. e <= k + Period /\ e + w <= k + Period
    BY <2>3
  <2> QED BY <2>2, <2>4, Zenon
<1> QED BY <1>1, <1>2, <1>3, <1>4, <1>8, <1>9 DEF FreshInvariant

(* Every step keeps what is known since the last check.                    *)
LEMMA FreshNext ==
    ASSUME Typed, Typed', PostInvariant, FreshInvariant, [Next]_vars,
           CheckPeriod > Period + MaxLag
    PROVE  FreshInvariant'
<1>1. CASE PostAlert \/ UNCHANGED vars
  <2>1. UNCHANGED <<history, wait, ticked, taking, checkWait, checkDue, lastCheck>>
    BY <1>1 DEF PostAlert, vars, windowVars, slackVars
  <2> QED BY <2>1 DEF FreshInvariant, Newest, Elapsed, Slack, Fresh, LatestSnapshot
<1> QED BY <1>1, FreshClock, FreshBegins, FreshEnds, FreshCheck DEF Next

(* No window is looked at twice unless the posts of a check filled the     *)
(* time between two ticks, but for a period of the aggregator and its lag  *)
(* (StartAnomalyAlerts, sendAlert), for any periods, timeouts and teams.   *)
THEOREM CheckedTwiceOnlyAfterManyAlertsCorrect == Spec => CheckedTwiceOnlyAfterManyAlerts
<1> DEFINE Inv ==
        /\ Typed /\ PostInvariant
        /\ CheckPeriod > Period + MaxLag => FreshInvariant
<1>1. Init => Inv
  BY TypedInit, FreshInit
<1>2. Inv /\ [Next]_vars => Inv'
  BY TypedNext, PostNext, FreshNext
<1>3. ASSUME Inv, [Next]_vars
      PROVE  [checks' > checks /\ WindowCheckedTwice
                => lastCheck.before * MaxPost >= CheckPeriod - Period - MaxLag]_vars
  <2>1. /\ LatestSnapshot.age \in Nat /\ lastCheck.age \in Nat /\ Slack \in Nat
        /\ CheckPeriod \in Nat /\ Period \in Nat /\ MaxLag \in Nat
    BY <1>3, AgesTyped, ConstantsTyped
  <2>2. CASE CheckAnomalies
    <3>1. WindowCheckedTwice => ~Fresh
      BY <2>1 DEF WindowCheckedTwice, Fresh
    <3>2. WindowCheckedTwice => Slack >= CheckPeriod - Period - MaxLag
      <4>1. CASE CheckPeriod > Period + MaxLag
        BY <1>3, <2>2, <3>1, <4>1, CheckNotFresh DEF CheckAnomalies
      <4>2. CASE ~(CheckPeriod > Period + MaxLag)
        BY <2>1, <4>2
      <4> QED BY <4>1, <4>2
    <3> QED BY <3>2 DEF Slack
  <2>3. CASE Clock \/ CollectBegins \/ CollectEnds \/ PostAlert \/ UNCHANGED vars
    <3>1. checks' = checks
      BY <2>3 DEF Clock, CollectBegins, CollectEnds, PostAlert, vars, slackVars
    <3>2. ~(checks' > checks)
      BY <1>3, <3>1, ConstantsTyped DEF Typed, TypeOK
    <3> QED BY <3>2
  <2> QED BY <1>3, <2>2, <2>3 DEF Next
<1> QED BY <1>1, <1>2, <1>3, PTL DEF Spec, CheckedTwiceOnlyAfterManyAlerts

-----------------------------------------------------------------------------
(***************************************************************************)
(* Alerts in a row at one cost.  The baseline comes nearer by a tenth of   *)
(* the gap at each; the bound counts what the divisions drop.              *)
(***************************************************************************)
(* At most so many thousandths of the gap between a cost and its baseline  *)
(* are left after k checks.                                                *)
Left == <<1000, 900, 810, 729, 657, 592, 533, 480>>

(* The baseline has come so near the cost, but for what the divisions drop.*)
Raised(k, baseline, cost) == 1000 * (cost - baseline - 9) <= Left[k + 1] * (cost - 10)

(* So many alerts in a row, so near the baseline.                          *)
SubsideInvariant ==
    \A t \in Teams : repeats[t] > 0 =>
        /\ repeats[t] \in 1..7
        /\ t \in DOMAIN lastCheck.TeamCosts /\ t \in DOMAIN baselines
        /\ lastCheck.TeamCosts[t] >= 200 /\ baselines[t] > 0
        /\ Raised(repeats[t], baselines[t], lastCheck.TeamCosts[t])

(* Any baseline above zero will do for the first alert.                    *)
LEMMA RaisedFirst ==
    ASSUME NEW b \in Nat, b > 0, NEW c \in Nat, c >= 200
    PROVE  Raised(0, b, c)
BY DEF Raised, Left

(* An average leaves nine tenths of the gap, and what the division drops.  *)
LEMMA AverageRaises ==
    ASSUME NEW b \in Nat, b > 0, NEW c \in Nat, c >= 200, NEW k \in 0..6, Raised(k, b, c)
    PROVE  Average(b, c) > 0 /\ Raised(k + 1, Average(b, c), c)
<1> DEFINE a == Average(b, c)
<1>1. a \in Nat /\ 10 * a >= 9 * b + c - 9
  BY DEF Average
<1>2. a > 0
  BY <1>1
<1> HIDE DEF a
<1>3. 10 * (c - a - 9) <= 9 * (c - b - 9)
  BY <1>1
<1>4. \A x, y, u, v \in Int : 10 * u <= 9 * v /\ 1000 * v <= x * (c - 10) /\ 9 * x <= 10 * y
                            => 1000 * u <= y * (c - 10)
  <2>1. ASSUME NEW x \in Int, NEW y \in Int, NEW u \in Int, NEW v \in Int,
               10 * u <= 9 * v, 1000 * v <= x * (c - 10), 9 * x <= 10 * y
        PROVE  1000 * u <= y * (c - 10)
    <3>1. PICK d \in Nat : d = c - 10
      OBVIOUS
    <3>2. 9 * (x * d) <= 10 * (y * d)
      <4>1. (10 * y - 9 * x) * d >= 0
        BY <2>1
      <4> QED BY <2>1, <4>1
    <3> QED BY <2>1, <3>1, <3>2
  <2> QED BY <2>1
<1>5. Left[k + 1] \in Int /\ Left[k + 2] \in Int /\ 9 * Left[k + 1] <= 10 * Left[k + 2]
  <2>1. k \in {0, 1, 2, 3, 4, 5, 6}
    OBVIOUS
  <2> QED BY <2>1 DEF Left
<1>6. 1000 * (c - b - 9) <= Left[k + 1] * (c - 10)
  BY DEF Raised
<1>7. c - a - 9 \in Int /\ c - b - 9 \in Int
  BY <1>1
<1>8. 1000 * (c - a - 9) <= Left[k + 2] * (c - 10)
  BY <1>3, <1>4, <1>5, <1>6, <1>7
<1>9. Raised(k + 1, a, c)
  <2>1. k + 1 + 1 = k + 2
    OBVIOUS
  <2> QED BY <1>8, <2>1 DEF Raised
<1> QED BY <1>2, <1>9 DEF a

(* After seven checks the cost is no longer above twice its baseline.      *)
LEMMA SevenSuffice ==
    ASSUME NEW b \in Nat, NEW c \in Nat, c >= 200, Raised(7, b, c)
    PROVE  ~(c > 2 * b)
BY DEF Raised, Left

(* A check raises the baseline of a team it alerts.                        *)
LEMMA SubsideCheck ==
    ASSUME Typed, SubsideInvariant, CheckAnomalies
    PROVE  SubsideInvariant'
<1> DEFINE costs == LatestSnapshot.TeamCosts
           known == DOMAIN costs \cap DOMAIN baselines
           alerts == {t \in known : Spike(t, costs[t])}
           Same(t) == t \in DOMAIN lastCheck.TeamCosts /\ lastCheck.TeamCosts[t] = costs[t]
<1>1. costs \in Levels /\ DOMAIN costs \subseteq Teams
  BY LatestTyped, LevelsAreMaps DEF Snapshots
<1>2. \A t \in DOMAIN costs : costs[t] \in Nat /\ (costs[t] = 0 \/ costs[t] >= 200)
  BY <1>1, CostsAssumption DEF Levels
<1>3. \A t \in DOMAIN baselines : baselines[t] \in Nat
  BY DEF Typed, TypeOK, IsMap
<1>4. /\ DOMAIN baselines' = DOMAIN baselines \cup DOMAIN costs
      /\ \A t \in known : baselines'[t] = Average(baselines[t], costs[t])
      /\ lastCheck'.TeamCosts = costs
      /\ \A t \in Teams : repeats'[t] =
            IF t \notin alerts THEN 0 ELSE IF Same(t) THEN repeats[t] + 1 ELSE 1
  BY DEF CheckAnomalies
<1>5. \A t \in Teams : repeats[t] \in Nat
  BY DEF Typed, TypeOK
<1> SUFFICES ASSUME NEW t \in Teams, repeats'[t] > 0
             PROVE  /\ repeats'[t] \in 1..7
                    /\ t \in DOMAIN lastCheck'.TeamCosts /\ t \in DOMAIN baselines'
                    /\ lastCheck'.TeamCosts[t] >= 200 /\ baselines'[t] > 0
                    /\ Raised(repeats'[t], baselines'[t], lastCheck'.TeamCosts[t])
  BY DEF SubsideInvariant, Raised
<1>6. t \in alerts
  BY <1>4
<1>7. PICK b \in Nat, c \in Nat :
        /\ t \in known /\ b = baselines[t] /\ c = costs[t] /\ b > 0 /\ c > 2 * b /\ c >= 200
        /\ baselines'[t] = Average(b, c) /\ t \in DOMAIN baselines'
  BY <1>2, <1>3, <1>4, <1>6 DEF Spike
<1>8. PICK k \in 0..6 : repeats'[t] = k + 1 /\ Raised(k, b, c)
  <2>1. CASE Same(t) /\ repeats[t] > 0
    <3>1. repeats[t] \in 1..7 /\ Raised(repeats[t], b, c)
      BY <1>7, <2>1 DEF SubsideInvariant
    <3>2. repeats[t] # 7
      BY <1>7, <3>1, SevenSuffice
    <3>3. repeats[t] \in 0..6
      BY <3>1, <3>2
    <3>4. repeats'[t] = repeats[t] + 1
      BY <1>4, <1>6, <2>1
    <3> QED BY <3>1, <3>3, <3>4
  <2>2. CASE ~(Same(t) /\ repeats[t] > 0)
    <3>1. repeats'[t] = 0 + 1
      BY <1>4, <1>5, <1>6, <2>2
    <3>2. Raised(0, b, c) /\ 0 \in 0..6
      BY <1>7, RaisedFirst
    <3> QED BY <3>1, <3>2
  <2> QED BY <2>1, <2>2
<1>9. Average(b, c) > 0 /\ Raised(k + 1, Average(b, c), c)
  BY <1>7, <1>8, AverageRaises
<1>10. k + 1 \in 1..7
  OBVIOUS
<1>11. lastCheck'.TeamCosts[t] = c /\ t \in DOMAIN lastCheck'.TeamCosts
  BY <1>4, <1>7
<1> QED BY <1>7, <1>8, <1>9, <1>10, <1>11

(* Every step keeps how near the baselines have come.                      *)
LEMMA SubsideNext ==
    ASSUME Typed, SubsideInvariant, [Next]_vars
    PROVE  SubsideInvariant'
<1>1. CASE Clock \/ CollectBegins \/ CollectEnds \/ PostAlert \/ UNCHANGED vars
  <2>1. UNCHANGED <<baselines, repeats>> /\ lastCheck'.TeamCosts = lastCheck.TeamCosts
    BY <1>1 DEF Clock, CollectBegins, CollectEnds, PostAlert, vars, slackVars, Typed, Checks
  <2> QED BY <2>1 DEF SubsideInvariant, Raised
<1> QED BY <1>1, SubsideCheck DEF Next

(* A cost that stays is alerted at most seven times in a row, from any     *)
(* baseline and at any costs that are not lost in the division.            *)
THEOREM AlertsSubsideCorrect == Spec => []AlertsSubside
<1> DEFINE Inv == Typed /\ SubsideInvariant
<1>1. Init => Inv
  <2>1. ASSUME Init
        PROVE  SubsideInvariant
    BY <2>1 DEF Init, SubsideInvariant
  <2> QED BY <2>1, TypedInit
<1>2. Inv /\ [Next]_vars => Inv'
  BY TypedNext, SubsideNext
<1>3. ASSUME Inv
      PROVE  AlertsSubside
  <2>1. ASSUME NEW t \in Teams
        PROVE  repeats[t] <= 7
    <3>1. repeats[t] \in Nat
      BY <1>3 DEF Typed, TypeOK
    <3>2. repeats[t] > 0 => repeats[t] \in 1..7
      BY <1>3 DEF SubsideInvariant
    <3> QED BY <3>1, <3>2
  <2> QED BY <2>1 DEF AlertsSubside
<1> QED BY <1>1, <1>2, <1>3, PTL DEF Spec
=============================================================================
