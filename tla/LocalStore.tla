----------------------------- MODULE LocalStore -----------------------------
(***************************************************************************)
(* The local agent (cmd/local/main.go): the simulator and the store on the *)
(* main goroutine, and one goroutine per HTTP request, around one RWMutex. *)
(*                                                                         *)
(* Go's RWMutex (external): a writer that waits keeps new readers out, and *)
(* its Unlock lets in every reader that queued meanwhile.  Only main       *)
(* writes, so mainPc says whether the writer waits or holds the lock.      *)
(***************************************************************************)
EXTENDS LocalCosts

CONSTANTS
    Clients,       \* HTTP requests that may be under way at once
    main,          \* the main goroutine, as a reader
    NoUI,          \* the flag no-ui
    MaxTicks       \* bound: windows stored

ASSUME ClientsAssumption == main \notin Clients /\ NoUI \in BOOLEAN
ASSUME MaxTicksAssumption == MaxTicks \in Nat

VARIABLES
    mainPc,        \* where main is; "lock": it waits for the lock
    ticks,         \* windows generated
    lastSpike,     \* ticks since the last spike of each pod
    window,        \* main's local metrics
    todo,          \* the teams its loop in Update has not reached
    store,
    readers,       \* who holds the read lock
    blocked,       \* who waits for it
    visible,       \* history variable: the store when it was last unlocked
    seen           \* history variable: the totals of each team before the latest

lockVars == <<readers, blocked>>
mainVars == <<mainPc, ticks, lastSpike, window, todo>>
historyVars == <<visible, seen>>
vars == <<mainVars, store, lockVars, historyVars>>

Writing == mainPc \in {"latest", "history", "teams"}

Alert == [Team : Teams, Level : {"critical", "warning"}, Cost : Nat]

IsStore(st) ==
    /\ st.latest = NoKeys \/ st.latest \in Windows
    /\ Len(st.history) <= HistoryCap
    /\ IsMap(st.baselines, Teams, Nat)
    /\ \A i \in DOMAIN st.alerts : st.alerts[i] \in Alert

TypeOK ==
    /\ mainPc \in {"idle", "lock", "latest", "history", "teams", "show", "showing"}
    /\ ticks \in 0..MaxTicks
    /\ lastSpike \in [Pods -> Nat]
    /\ window = NoKeys \/ window \in Windows
    /\ todo \subseteq Teams
    /\ IsStore(store) /\ IsStore(visible)
    /\ ~Writing => Len(store.alerts) <= AlertCap
    /\ readers \subseteq Clients \cup {main}
    /\ blocked \subseteq Clients \ readers
    /\ seen \in [Teams -> SUBSET Nat]

Init ==
    /\ mainPc = "idle"
    /\ ticks = 0
    /\ lastSpike = [p \in Pods |-> PodProfile[p].SpikeEvery + 1]
    /\ window = NoKeys
    /\ todo = {}
    /\ store = NewStore
    /\ readers = {}
    /\ blocked = {}
    /\ visible = NewStore
    /\ seen = [t \in Teams |-> {}]

-----------------------------------------------------------------------------
RLock(p) ==
    IF mainPc = "lock" \/ Writing
      THEN blocked' = blocked \cup {p} /\ UNCHANGED readers
      ELSE readers' = readers \cup {p} /\ UNCHANGED blocked

(* Mutant: the handler does not take the lock.                             *)
RequestUnlocked(c) ==
    /\ c \in Clients \ (readers \cup blocked)
    /\ readers' = readers \cup {c}
    /\ UNCHANGED <<mainVars, store, blocked, historyVars>>

(* A request comes in, and its handler asks for the read lock.             *)
Request(c) ==
    /\ c \in Clients \ (readers \cup blocked)
    /\ RLock(c)
    /\ UNCHANGED <<mainVars, store, historyVars>>

(* The client has read the answer, or is gone; the handler returns.        *)
Answered(c) ==
    /\ c \in Clients \cap readers
    /\ readers' = readers \ {c}
    /\ UNCHANGED <<mainVars, store, blocked, historyVars>>

-----------------------------------------------------------------------------
SpikeAllowed(p) ==
    PodProfile[p].SpikeEvery > 0 /\ lastSpike[p] > PodProfile[p].SpikeEvery

(* sim.Tick(), then Update asks for the lock.  Whether a pod that may      *)
(* spike does is drawn; spikes are apart.                                  *)
Tick ==
    /\ mainPc = "idle"
    /\ ticks < MaxTicks
    /\ ticks' = ticks + 1
    /\ \E wave \in Waves, spikes \in SUBSET {p \in Pods : SpikeAllowed(p)} :
          /\ window' = Window(wave, spikes)
          /\ lastSpike' = [p \in Pods |->
                IF p \in spikes THEN 1
                ELSE IF lastSpike[p] > PodProfile[p].SpikeEvery THEN lastSpike[p]
                ELSE lastSpike[p] + 1]
    /\ mainPc' = "lock"
    /\ UNCHANGED <<todo, store, lockVars, historyVars>>

Acquire ==
    /\ mainPc = "lock"
    /\ readers = {}
    /\ mainPc' = "latest"
    /\ UNCHANGED <<ticks, lastSpike, window, todo, store, lockVars, historyVars>>

UpdateLatest ==
    /\ mainPc = "latest"
    /\ store' = [store EXCEPT !.latest = window]
    /\ seen' = IF store.latest = NoKeys THEN seen
               ELSE [t \in Teams |-> seen[t] \cup {teamTotals(store.latest)[t]}]
    /\ mainPc' = "history"
    /\ UNCHANGED <<ticks, lastSpike, window, todo, lockVars, visible>>

UpdateHistory ==
    /\ mainPc = "history"
    /\ store' = [store EXCEPT !.history = AddPoint(@, HistoryPoint(window))]
    /\ todo' = Teams
    /\ mainPc' = "teams"
    /\ UNCHANGED <<ticks, lastSpike, window, lockVars, historyVars>>

(* Mutant: return instead of continue at the first cost of a team.         *)
UpdateTeamReturns(t) ==
    /\ mainPc = "teams"
    /\ t \in todo
    /\ todo' = IF t \in DOMAIN store.baselines THEN todo \ {t} ELSE {}
    /\ \E new \in SetToSeqs(Raised(store.baselines, window, t)) :
          store' = [store EXCEPT
                      !.baselines = Put(@, t, Baseline(store.baselines, window, t)),
                      !.alerts = @ \o new]
    /\ UNCHANGED <<mainPc, ticks, lastSpike, window, lockVars, historyVars>>

(* One turn of the loop over teamTotals, in Go's arbitrary map order.      *)
UpdateTeam(t) ==
    /\ mainPc = "teams"
    /\ t \in todo
    /\ todo' = todo \ {t}
    /\ \E new \in SetToSeqs(Raised(store.baselines, window, t)) :
          store' = [store EXCEPT
                      !.baselines = Put(@, t, Baseline(store.baselines, window, t)),
                      !.alerts = @ \o new]
    /\ UNCHANGED <<mainPc, ticks, lastSpike, window, lockVars, historyVars>>

(* The alerts are trimmed and the lock is released.  The dashboard is not  *)
(* printed after the initial Update.                                       *)
UpdateEnd ==
    /\ mainPc = "teams"
    /\ todo = {}
    /\ store' = [store EXCEPT !.alerts = Trim(@)]
    /\ visible' = store'
    /\ readers' = blocked
    /\ blocked' = {}
    /\ mainPc' = IF NoUI \/ ticks = 1 THEN "idle" ELSE "show"
    /\ UNCHANGED <<ticks, lastSpike, window, todo, seen>>

ShowDashboard ==
    /\ mainPc = "show"
    /\ mainPc' = "showing"
    /\ RLock(main)
    /\ UNCHANGED <<ticks, lastSpike, window, todo, store, historyVars>>

(* Mutant: the dashboard returns without giving the lock back.             *)
EndDashboardLocked ==
    /\ mainPc = "showing"
    /\ mainPc' = "idle"
    /\ UNCHANGED <<ticks, lastSpike, window, todo, store, lockVars, historyVars>>

EndDashboard ==
    /\ mainPc = "showing"
    /\ mainPc' = "idle"
    /\ readers' = readers \ {main}
    /\ UNCHANGED <<ticks, lastSpike, window, todo, store, blocked, historyVars>>

Update == Acquire \/ UpdateLatest \/ UpdateHistory \/ (\E t \in Teams : UpdateTeam(t)) \/ UpdateEnd

Dashboard == ShowDashboard \/ EndDashboard

Next == Tick \/ Update \/ Dashboard \/ \E c \in Clients : Request(c) \/ Answered(c)

(* main goes on when it can; clients owe nothing.                          *)
Spec == Init /\ [][Next]_vars

FairSpec == Spec /\ WF_vars(Update) /\ WF_vars(Dashboard)

-----------------------------------------------------------------------------
(* A handler, or the dashboard, never sees an Update half done: while      *)
(* anyone reads, the store is the one that was last unlocked.              *)
ReadersSeeWhole == readers # {} => store = visible

(* The store, as readers see it, changes by whole windows only, however    *)
(* Update is cut into steps and in whatever order it takes the teams.      *)
Promise == INSTANCE StorePromise WITH store <- visible
KeepsPromise == Promise!Spec

(* Whatever endpoint is asked, and on the dashboard, the cost of the       *)
(* window is the same, and it is the newest point of the history.          *)
AnswersAgree ==
    readers # {} /\ store.history # <<>> =>
        LET total == summary(store).total_cost
            teams == byTeam(store)
            point == Last(store.history)
        IN  /\ total = prometheus(store).cluster_cost_total
            /\ total = point.Total
            /\ [t \in DOMAIN teams |-> teams[t].TotalCost] = point.Teams
            /\ total = SumFunction(point.Teams)
            /\ waste(store).total_wasted <= summary(store).wasted_cost

(* A baseline stays between the lowest and the highest total the team has  *)
(* had: no sequence of windows moves the average out of what was seen, by  *)
(* which spikes are judged.                                                *)
BaselinesWithinCosts ==
    \A t \in DOMAIN visible.baselines :
        \E low, high \in seen[t] \cup {teamTotals(visible.latest)[t]} :
            low <= visible.baselines[t] /\ visible.baselines[t] <= high

(* A total more than two and a half times whatever the team had before is  *)
(* a critical alert that readers find, although alerts are trimmed.        *)
SpikesAlerted ==
    ~Writing =>
        \A t \in DOMAIN store.baselines :
            LET cost == teamTotals(store.latest)[t]
            IN  seen[t] # {} /\ (\A s \in seen[t] : s > 0 /\ 2 * cost > 5 * s) =>
                    \E i \in DOMAIN store.alerts :
                        store.alerts[i] = [Team |-> t, Level |-> "critical", Cost |-> cost]

(* As long as every client reads its answer to the end at some point, a    *)
(* request that waits gets the lock, and so does Update: readers and the   *)
(* writer do not starve each other.  (Without the premise they do: the     *)
(* server has no timeout, and one client that stops reading stops Update,  *)
(* which stops every later request.)                                       *)
RequestsAnswered ==
    (\A c \in Clients : []<>(c \notin readers)) =>
        /\ \A c \in Clients : c \in blocked ~> c \in readers
        /\ mainPc = "lock" ~> mainPc = "idle"
=============================================================================
