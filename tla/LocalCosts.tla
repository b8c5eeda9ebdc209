----------------------------- MODULE LocalCosts -----------------------------
(***************************************************************************)
(* The data of the local agent (cmd/local/main.go): windows of simulated   *)
(* metrics, team totals, baselines, alerts, and what the handlers compute. *)
(*                                                                         *)
(* A pod's metrics are its cost, its utilisation and its waste; labels are *)
(* left out.  Intensities are in hundredths, multipliers in tenths, waste  *)
(* in hundredths of a unit of cost.  Costs are whole units, and so are     *)
(* baselines, rounded down.  The noise on each value is left out; what is  *)
(* added to an intensity is the wave, the same for all pods of a tick.     *)
(***************************************************************************)
EXTENDS Integers, Sequences, FiniteSets, Functions, SequencesExt, PartialMaps

CONSTANTS
    Pods, Teams,
    TeamOf,        \* the team of each pod
    PodProfile,    \* the intensities and the spikes of each pod
    Waves,         \* bound: the values of the wave, in hundredths
    Price,         \* what a hundredth of each resource costs in a window
    HistoryCap,    \* points kept: 480 in the code
    AlertCap       \* alerts kept: 50 in the code

ASSUME TeamsAssumption == IsFiniteSet(Pods) /\ TeamOf \in [Pods -> Teams] /\ Range(TeamOf) = Teams
ASSUME ProfileAssumption ==
    PodProfile \in [Pods -> [CPUIntensity : Nat \ {0}, NetworkIntensity : Nat,
                            DiskIntensity : Nat, MemIntensity : Nat,
                            SpikeEvery : Nat, SpikeMultiplier : Nat]]
ASSUME PriceAssumption == Waves \subseteq Int /\ Price \in [cpu : Nat, mem : Nat, net : Nat, disk : Nat]
ASSUME CapsAssumption == HistoryCap \in Nat \ {0} /\ AlertCap \in Nat \ {0}
(* The teams are those of the list of pods in the code, fewer than the     *)
(* alerts kept.                                                            *)
ASSUME FewTeamsAssumption == Cardinality(Teams) <= AlertCap

clamp(v) == IF v < 5 THEN 5 ELSE IF v > 100 THEN 100 ELSE v

(* The metrics of a pod in one window.  A spike multiplies all but memory. *)
generate(p, wave, spike) ==
    LET profile == PodProfile[p]
        Times(v) == IF spike THEN (v * profile.SpikeMultiplier) \div 10 ELSE v
        cpu == Times(clamp(profile.CPUIntensity + wave))
        net == Times(clamp(profile.NetworkIntensity))
        disk == Times(clamp(profile.DiskIntensity))
        mem == clamp(profile.MemIntensity)
        util == (cpu * 200) \div (profile.CPUIntensity * 3)
    IN  [TotalCost |-> cpu * Price.cpu + net * Price.net + disk * Price.disk + mem * Price.mem,
         CPUUtilPct |-> util,
         WastedDollars |-> IF util < 20 THEN cpu * Price.cpu * (100 - util) ELSE 0]

Window(wave, spikes) == [p \in Pods |-> generate(p, wave, p \in spikes)]

Windows == {Window(wave, spikes) : wave \in Waves, spikes \in SUBSET Pods}

PodsOfTeam(team) == {p \in Pods : TeamOf[p] = team}

SumOf(window, field, pods) == SumFunctionOnSet([p \in pods |-> window[p][field]], pods)

teamTotals(window) == [t \in Teams |-> SumOf(window, "TotalCost", PodsOfTeam(t))]

HistoryPoint(window) ==
    [Total |-> SumOf(window, "TotalCost", DOMAIN window), Teams |-> teamTotals(window)]

-----------------------------------------------------------------------------
(* The level of the alert that a cost raises over a baseline, if any.      *)
Levels(base, cost) ==
    IF base > 0 /\ 2 * cost > 5 * base THEN {"critical"}
    ELSE IF base > 0 /\ 2 * cost > 3 * base THEN {"warning"}
    ELSE {}

(* The alerts of a team, none when it has no baseline yet.                 *)
Raised(baselines, window, team) ==
    LET cost == teamTotals(window)[team]
    IN  {[Team |-> team, Level |-> level, Cost |-> cost] :
            level \in Levels(Lookup(baselines, team, 0), cost)}

(* Mutant: the weights of the average add up to more than one.             *)
BaselineGrows(baselines, window, team) ==
    LET cost == teamTotals(window)[team]
    IN  IF team \in DOMAIN baselines
          THEN (92 * baselines[team] + 18 * cost) \div 100
          ELSE cost

(* The first cost is the first baseline; then a moving average.            *)
Baseline(baselines, window, team) ==
    LET cost == teamTotals(window)[team]
    IN  IF team \in DOMAIN baselines
          THEN (92 * baselines[team] + 8 * cost) \div 100
          ELSE cost

NewStore == [latest |-> NoKeys, history |-> <<>>, baselines |-> NoKeys, alerts |-> <<>>]

(* Mutant: the oldest alerts are kept.                                     *)
TrimKeepsOldest(alerts) ==
    IF Len(alerts) > AlertCap THEN SubSeq(alerts, 1, AlertCap) ELSE alerts

(* The last AlertCap alerts.                                               *)
Trim(alerts) ==
    IF Len(alerts) > AlertCap
      THEN SubSeq(alerts, Len(alerts) - AlertCap + 1, Len(alerts))
      ELSE alerts

(* Mutant: the cap is tested before the point is appended.                 *)
AddPointLate(history, point) ==
    IF Len(history) > HistoryCap THEN Append(Tail(history), point) ELSE Append(history, point)

(* The points with one more, the oldest dropped beyond the cap.            *)
AddPoint(history, point) ==
    LET longer == Append(history, point)
    IN  IF Len(longer) > HistoryCap THEN Tail(longer) ELSE longer

-----------------------------------------------------------------------------
(* What the handlers compute from the store under the read lock.           *)
summary(store) ==
    [total_cost |-> SumOf(store.latest, "TotalCost", DOMAIN store.latest),
     wasted_cost |-> SumOf(store.latest, "WastedDollars", DOMAIN store.latest),
     pod_count |-> Cardinality(DOMAIN store.latest),
     team_count |-> Cardinality({TeamOf[p] : p \in DOMAIN store.latest})]

(* Mutant: a team's row starts with its first pod and counts it again.     *)
byTeamCountsTwice(store) ==
    [t \in {TeamOf[p] : p \in DOMAIN store.latest} |->
        LET pods == PodsOfTeam(t) \cap DOMAIN store.latest
        IN  [TotalCost |-> SumOf(store.latest, "TotalCost", pods)
                           + store.latest[CHOOSE p \in pods : TRUE].TotalCost,
             WastedCost |-> SumOf(store.latest, "WastedDollars", pods),
             PodCount |-> Cardinality(pods)]]

byTeam(store) ==
    [t \in {TeamOf[p] : p \in DOMAIN store.latest} |->
        LET pods == PodsOfTeam(t) \cap DOMAIN store.latest
        IN  [TotalCost |-> SumOf(store.latest, "TotalCost", pods),
             WastedCost |-> SumOf(store.latest, "WastedDollars", pods),
             PodCount |-> Cardinality(pods)]]

(* The team parameter is a set: {} when absent.                            *)
byPod(store, team) == {p \in DOMAIN store.latest : team = {} \/ TeamOf[p] \in team}

waste(store) ==
    LET pods == {p \in DOMAIN store.latest : store.latest[p].CPUUtilPct < 20}
    IN  [wasted_pods |-> pods, total_wasted |-> SumOf(store.latest, "WastedDollars", pods)]

alertsHandler(store) == Reverse(store.alerts)

prometheus(store) ==
    [pod_cost_total |-> [p \in DOMAIN store.latest |-> store.latest[p].TotalCost],
     cluster_cost_total |-> SumOf(store.latest, "TotalCost", DOMAIN store.latest)]
=============================================================================
