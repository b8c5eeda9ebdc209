-------------------------- MODULE LocalStoreProofs --------------------------
(***************************************************************************)
(* Proofs about LocalStore, for any pods, teams, profiles, waves, prices,  *)
(* caps and clients: its readers see whole windows, it implements          *)
(* StorePromise, its endpoints agree, its baselines stay within the costs  *)
(* that teams have had, and great spikes raise alerts that stay.           *)
(***************************************************************************)
EXTENDS LocalStore, PartialMapsProofs, FiniteSetTheorems, SequenceTheorems, TLAPS

(* The alerts there can be.                                                *)
Alarms == {[Team |-> t, Level |-> level, Cost |-> teamTotals(w)[t]] :
              t \in Teams, level \in {"critical", "warning"}, w \in Windows}

(* The alerts that a window raises for some of the teams.                  *)
RaisedFor(teams) == UNION {Raised(visible.baselines, window, t) : t \in teams}

WholeStore(st) ==
    /\ st = [latest |-> st.latest, history |-> st.history,
             baselines |-> st.baselines, alerts |-> st.alerts]
    /\ DOMAIN st.baselines \subseteq Teams
    /\ st.baselines = [t \in DOMAIN st.baselines |-> st.baselines[t]]
    /\ st.alerts \in Seq(Alarms)

(* While the lock is not held for writing, the store is what readers were  *)
(* given last; while it is, nobody reads.                                  *)
LockInvariant ==
    /\ Writing => readers = {}
    /\ ~Writing => store = visible

(* How far Update has come from the visible store towards the next one.    *)
Stored ==
    /\ store.latest = window
    /\ store.history = AddPoint(visible.history, HistoryPoint(window))

TeamsTaken ==
    /\ DOMAIN store.baselines = DOMAIN visible.baselines \cup (Teams \ todo)
    /\ \A t \in Teams \ todo : store.baselines[t] = Baseline(visible.baselines, window, t)
    /\ \A t \in todo \cap DOMAIN visible.baselines : store.baselines[t] = visible.baselines[t]
    /\ IsFiniteSet(RaisedFor(Teams \ todo))
    /\ \E new \in SetToSeqs(RaisedFor(Teams \ todo)) : store.alerts = visible.alerts \o new

UpdateInvariant ==
    /\ LockInvariant
    /\ WholeStore(store) /\ WholeStore(visible)
    /\ mainPc \in {"lock", "latest", "history", "teams"} => window \in Windows
    /\ todo \subseteq Teams
    /\ mainPc = "latest" => store = visible
    /\ mainPc = "history" => store = [visible EXCEPT !.latest = window]
    /\ mainPc = "teams" => Stored /\ TeamsTaken

-----------------------------------------------------------------------------
(* Nobody writes at the start.                                             *)
LEMMA LockInit == Init => LockInvariant
BY DEF Init, LockInvariant, Writing

(* Every step preserves the invariant.                                     *)
LEMMA LockNext == LockInvariant /\ [Next]_vars => LockInvariant'
<1> SUFFICES ASSUME LockInvariant, [Next]_vars PROVE LockInvariant'
  OBVIOUS
<1> USE DEF LockInvariant, Writing
<1>1. CASE Tick
  BY <1>1 DEF Tick, lockVars, historyVars
<1>2. CASE Acquire
  BY <1>2 DEF Acquire, lockVars, historyVars
<1>3. CASE UpdateLatest
  BY <1>3 DEF UpdateLatest, lockVars
<1>4. CASE UpdateHistory
  BY <1>4 DEF UpdateHistory, lockVars, historyVars
<1>5. ASSUME NEW t \in Teams, UpdateTeam(t)
      PROVE  LockInvariant'
  BY <1>5 DEF UpdateTeam, lockVars, historyVars
<1>6. CASE UpdateEnd
  BY <1>6 DEF UpdateEnd
<1>7. CASE ShowDashboard
  BY <1>7 DEF ShowDashboard, historyVars
<1>8. CASE EndDashboard
  BY <1>8 DEF EndDashboard, historyVars
<1>9. ASSUME NEW c \in Clients, Request(c)
      PROVE  LockInvariant'
  BY <1>9 DEF Request, RLock, mainVars, historyVars
<1>10. ASSUME NEW c \in Clients, Answered(c)
       PROVE  LockInvariant'
  BY <1>10 DEF Answered, mainVars, historyVars
<1>11. CASE UNCHANGED vars
  BY <1>11 DEF vars, mainVars, lockVars, historyVars
<1> QED BY <1>1, <1>2, <1>3, <1>4, <1>5, <1>6, <1>7, <1>8, <1>9, <1>10, <1>11
        DEF Next, Update, Dashboard

(* Whatever clients do and however long they take, nobody reads a store    *)
(* that Update has begun to change and not finished.                       *)
THEOREM ReadersSeeWholeCorrect == Spec => []ReadersSeeWhole
<1>1. LockInvariant => ReadersSeeWhole
  BY DEF LockInvariant, ReadersSeeWhole, Writing
<1> QED BY <1>1, LockInit, LockNext, PTL DEF Spec

-----------------------------------------------------------------------------
(* A team's cost raises one alert or none, and it names the team.          *)
LEMMA RaisedFacts ==
    ASSUME NEW baselines, NEW w \in Windows, NEW t \in Teams
    PROVE  /\ Raised(baselines, w, t) \subseteq Alarms
           /\ IsFiniteSet(Raised(baselines, w, t))
           /\ \A a \in Raised(baselines, w, t) : a.Team = t
<1> DEFINE cost == teamTotals(w)[t]
           levels == Levels(Lookup(baselines, t, 0), cost)
           alarm(level) == [Team |-> t, Level |-> level, Cost |-> cost]
<1>1. Raised(baselines, w, t) = {alarm(level) : level \in levels}
  BY DEF Raised
<1>2. levels = {} \/ levels = {"critical"} \/ levels = {"warning"}
  BY DEF Levels
<1>3. Raised(baselines, w, t) \subseteq {alarm("critical"), alarm("warning")}
  <2> HIDE DEF cost, levels, alarm
  <2> QED BY <1>1, <1>2
<1>4. IsFiniteSet({alarm("critical"), alarm("warning")})
  <2> HIDE DEF alarm
  <2>1. IsFiniteSet({alarm("critical")})
    BY FS_Singleton
  <2>2. IsFiniteSet({alarm("critical")} \cup {alarm("warning")})
    BY <2>1, FS_AddElement
  <2> QED BY <2>2
<1>5. IsFiniteSet(Raised(baselines, w, t))
  BY <1>3, <1>4, FS_Subset
<1>6. \A a \in {alarm("critical"), alarm("warning")} : a \in Alarms /\ a.Team = t
  BY DEF Alarms
<1> QED BY <1>3, <1>5, <1>6

(* Enumerations of two sets apart, one after the other, enumerate both.    *)
LEMMA EnumerationsJoin ==
    ASSUME NEW A, NEW B, IsFiniteSet(A), IsFiniteSet(B), A \cap B = {},
           NEW a \in SetToSeqs(A), NEW b \in SetToSeqs(B)
    PROVE  /\ a \o b \in SetToSeqs(A \cup B)
           /\ IsFiniteSet(A \cup B)
<1> DEFINE n == Cardinality(A)
           m == Cardinality(B)
           both == a \o b
<1>1. n \in Nat /\ m \in Nat
  BY FS_CardinalityType
<1>2. IsFiniteSet(A \cup B) /\ Cardinality(A \cup B) = n + m
  <2>1. Cardinality(A \cap B) = 0
    BY FS_EmptySet
  <2>2. /\ IsFiniteSet(A \cup B)
        /\ Cardinality(A \cup B) = Cardinality(A) + Cardinality(B) - Cardinality(A \cap B)
    BY FS_Union
  <2> QED BY <1>1, <2>1, <2>2
<1>3. a \in [1..n -> A] /\ \A i, j \in 1..n : i # j => a[i] # a[j]
  BY DEF SetToSeqs
<1>4. b \in [1..m -> B] /\ \A i, j \in 1..m : i # j => b[i] # b[j]
  BY DEF SetToSeqs
<1> HIDE DEF n, m
<1>5. a \in Seq(A \cup B) /\ Len(a) = n /\ b \in Seq(A \cup B) /\ Len(b) = m
  BY <1>1, <1>3, <1>4
<1>6. both \in Seq(A \cup B) /\ Len(both) = n + m
  BY <1>1, <1>5
<1>7. \A i \in 1..n + m : both[i] = IF i <= n THEN a[i] ELSE b[i - n]
  BY <1>1, <1>5
<1>8. both \in [1..n + m -> A \cup B]
  <2>1. \A s \in Seq(A \cup B) : s \in [1..Len(s) -> A \cup B]
    OBVIOUS
  <2> HIDE DEF both
  <2> QED BY <1>6, <2>1
<1>9. ASSUME NEW i \in 1..n + m, NEW j \in 1..n + m, i # j
      PROVE  both[i] # both[j]
  <2> HIDE DEF both
  <2>1. CASE i <= n /\ j <= n
    BY <1>1, <1>3, <1>7, <1>9, <2>1
  <2>2. CASE i > n /\ j > n
    BY <1>1, <1>4, <1>7, <1>9, <2>2
  <2>3. CASE i <= n /\ j > n
    <3>1. both[i] \in A /\ both[j] \in B
      BY <1>1, <1>3, <1>4, <1>7, <2>3
    <3> QED BY <3>1
  <2>4. CASE i > n /\ j <= n
    <3>1. both[i] \in B /\ both[j] \in A
      BY <1>1, <1>3, <1>4, <1>7, <2>4
    <3> QED BY <3>1
  <2> QED BY <1>1, <2>1, <2>2, <2>3, <2>4
<1>10. both \in SetToSeqs(A \cup B)
  <2> HIDE DEF both
  <2> QED BY <1>2, <1>8, <1>9 DEF SetToSeqs
<1> QED BY <1>2, <1>10

(* An enumeration is a sequence of what it enumerates.                     *)
LEMMA EnumerationIsSequence ==
    ASSUME NEW S, IsFiniteSet(S), NEW T, S \subseteq T, NEW s \in SetToSeqs(S)
    PROVE  s \in Seq(T)
<1>1. Cardinality(S) \in Nat
  BY FS_CardinalityType
<1>2. s \in [1..Cardinality(S) -> S]
  BY DEF SetToSeqs
<1> QED BY <1>1, <1>2

(* Nothing is enumerated by the empty sequence.                            *)
LEMMA EmptyEnumeration == <<>> \in SetToSeqs({})
<1>1. Cardinality({}) = 0
  BY FS_EmptySet
<1>2. <<>> \in [1..0 -> {}]
  OBVIOUS
<1> QED BY <1>1, <1>2 DEF SetToSeqs

(* Trimmed alerts are alerts.                                              *)
LEMMA TrimTyped == ASSUME NEW s \in Seq(Alarms) PROVE Trim(s) \in Seq(Alarms)
<1>1. AlertCap \in Nat
  BY CapsAssumption
<1> QED BY <1>1 DEF Trim

-----------------------------------------------------------------------------
(* StorePromise's operators are the ones of LocalCosts.                    *)
LEMMA SamePromise ==
    ASSUME NEW w, NEW b, NEW t, NEW s
    PROVE  /\ Promise!NewStore = NewStore
           /\ Promise!Windows = Windows
           /\ Promise!HistoryPoint(w) = HistoryPoint(w)
           /\ Promise!AddPoint(s, w) = AddPoint(s, w)
           /\ Promise!Trim(s) = Trim(s)
           /\ Promise!Baseline(b, w, t) = Baseline(b, w, t)
           /\ Promise!Raised(b, w, t) = Raised(b, w, t)
           /\ Promise!SetToSeqs(s) = SetToSeqs(s)
<1> USE DEF Promise!SumOf, SumOf, Promise!PodsOfTeam, PodsOfTeam,
            Promise!SumFunctionOnSet, SumFunctionOnSet,
            Promise!FoldFunctionOnSet, FoldFunctionOnSet,
            Promise!MapThenFoldSet, MapThenFoldSet, Promise!teamTotals, teamTotals
<1>1. Promise!NewStore = NewStore
  BY DEF Promise!NewStore, NewStore, Promise!NoKeys, NoKeys
<1>2. Promise!Windows = Windows
  BY DEF Promise!Windows, Windows, Promise!Window, Window, Promise!generate, generate,
         Promise!clamp, clamp
<1>3. Promise!HistoryPoint(w) = HistoryPoint(w)
  BY DEF Promise!HistoryPoint, HistoryPoint
<1>4. Promise!AddPoint(s, w) = AddPoint(s, w)
  BY DEF Promise!AddPoint, AddPoint
<1>5. Promise!Trim(s) = Trim(s)
  BY DEF Promise!Trim, Trim
<1>6. Promise!Baseline(b, w, t) = Baseline(b, w, t)
  BY DEF Promise!Baseline, Baseline
<1>7. Promise!Raised(b, w, t) = Raised(b, w, t)
  BY DEF Promise!Raised, Raised, Promise!Levels, Levels, Promise!Lookup, Lookup
<1>8. Promise!SetToSeqs(s) = SetToSeqs(s)
  BY DEF Promise!SetToSeqs, SetToSeqs, Promise!Cardinality, Cardinality
<1> QED BY <1>1, <1>2, <1>3, <1>4, <1>5, <1>6, <1>7, <1>8

-----------------------------------------------------------------------------
(* The invariant holds of the empty store.                                 *)
LEMMA UpdateInit == Init => UpdateInvariant
<1> SUFFICES ASSUME Init PROVE UpdateInvariant
  OBVIOUS
<1>1. WholeStore(NewStore)
  BY NoKeysIsMap DEF WholeStore, NewStore, NoKeys
<1>2. store = NewStore /\ visible = NewStore /\ mainPc = "idle" /\ todo = {}
  BY DEF Init
<1> QED BY <1>1, <1>2, LockInit DEF UpdateInvariant

(* Steps that leave the stores, the window and the teams alone.            *)
LEMMA OthersKeepUpdate ==
    ASSUME UpdateInvariant, LockInvariant',
           UNCHANGED <<store, visible, window, todo>>,
           mainPc' = mainPc \/ mainPc' \in {"idle", "show", "showing"}
    PROVE  UpdateInvariant'
<1>1. mainPc' = "teams" => Stored' /\ TeamsTaken'
  BY DEF UpdateInvariant, Stored, TeamsTaken, RaisedFor
<1> QED BY <1>1 DEF UpdateInvariant, WholeStore

(* Storing the point of the window preserves the invariant.                *)
LEMMA HistoryKeepsUpdate ==
    ASSUME UpdateInvariant, LockInvariant', UpdateHistory
    PROVE  UpdateInvariant'
<1>1. /\ store = [visible EXCEPT !.latest = window]
      /\ store' = [store EXCEPT !.history = AddPoint(store.history, HistoryPoint(window))]
      /\ todo' = Teams /\ mainPc' = "teams"
      /\ UNCHANGED <<window, visible>>
      /\ WholeStore(visible) /\ window \in Windows
  BY DEF UpdateHistory, UpdateInvariant, historyVars
<1>2. store' = [latest |-> window, baselines |-> visible.baselines, alerts |-> visible.alerts,
                history |-> AddPoint(visible.history, HistoryPoint(window))]
  BY <1>1 DEF WholeStore
<1>3. WholeStore(store')
  BY <1>1, <1>2 DEF WholeStore
<1>4. RaisedFor(Teams \ todo)' = {}
  BY <1>1 DEF RaisedFor
<1>5. visible.alerts = visible.alerts \o <<>>
  BY <1>1 DEF WholeStore
<1>6. TeamsTaken'
  <2>1. DOMAIN store'.baselines = DOMAIN visible'.baselines \cup (Teams \ todo')
    BY <1>1, <1>2
  <2>2. \A t \in todo' \cap DOMAIN visible'.baselines :
            store'.baselines[t] = visible'.baselines[t]
    BY <1>1, <1>2
  <2>3. IsFiniteSet(RaisedFor(Teams \ todo)')
    BY <1>4, FS_EmptySet
  <2>4. \E new \in SetToSeqs(RaisedFor(Teams \ todo)') : store'.alerts = visible'.alerts \o new
    BY <1>1, <1>2, <1>4, <1>5, EmptyEnumeration
  <2> QED BY <1>1, <2>1, <2>2, <2>3, <2>4 DEF TeamsTaken
<1>7. Stored'
  BY <1>1, <1>2 DEF Stored
<1>8. WholeStore(store)' /\ WholeStore(visible)'
  BY <1>1, <1>3 DEF WholeStore
<1> QED BY <1>1, <1>6, <1>7, <1>8 DEF UpdateInvariant

(* A turn of the loop adds one team to those that are taken.               *)
LEMMA TeamKeepsUpdate ==
    ASSUME UpdateInvariant, LockInvariant', NEW t \in Teams, UpdateTeam(t)
    PROVE  UpdateInvariant'
<1> DEFINE raised == Raised(visible.baselines, window, t)
           before == RaisedFor(Teams \ todo)
<1>1. /\ t \in todo /\ todo' = todo \ {t} /\ mainPc = "teams" /\ mainPc' = "teams"
      /\ UNCHANGED <<window, visible>>
      /\ WholeStore(store) /\ WholeStore(visible) /\ window \in Windows /\ todo \subseteq Teams
      /\ Stored /\ TeamsTaken
  BY DEF UpdateTeam, UpdateInvariant, historyVars
<1>2. /\ t \in DOMAIN store.baselines <=> t \in DOMAIN visible.baselines
      /\ t \in DOMAIN visible.baselines => store.baselines[t] = visible.baselines[t]
  BY <1>1 DEF TeamsTaken
<1>3. Raised(store.baselines, window, t) = raised
  <2>1. Lookup(store.baselines, t, 0) = Lookup(visible.baselines, t, 0)
    BY <1>2 DEF Lookup
  <2> QED BY <2>1 DEF Raised
<1>4. Baseline(store.baselines, window, t) = Baseline(visible.baselines, window, t)
  BY <1>2 DEF Baseline
<1>5. PICK new \in SetToSeqs(raised) :
          store' = [store EXCEPT
                      !.baselines = Put(store.baselines, t, Baseline(store.baselines, window, t)),
                      !.alerts = store.alerts \o new]
  BY <1>3 DEF UpdateTeam
<1>6. store' = [latest |-> store.latest, history |-> store.history,
                baselines |-> Put(store.baselines, t, Baseline(visible.baselines, window, t)),
                alerts |-> store.alerts \o new]
  BY <1>1, <1>4, <1>5 DEF WholeStore
<1>7. PICK old \in SetToSeqs(before) : store.alerts = visible.alerts \o old
  BY <1>1 DEF TeamsTaken
<1>8. /\ IsFiniteSet(raised) /\ raised \subseteq Alarms
      /\ IsFiniteSet(before) /\ before \subseteq Alarms
      /\ before \cap raised = {}
  <2>1. IsFiniteSet(raised) /\ raised \subseteq Alarms /\ \A a \in raised : a.Team = t
    BY <1>1, RaisedFacts
  <2>2. before \subseteq Alarms /\ \A a \in before : a.Team # t
    BY <1>1, RaisedFacts DEF RaisedFor
  <2>3. IsFiniteSet(before)
    BY <1>1 DEF TeamsTaken
  <2> HIDE DEF raised, before
  <2> QED BY <2>1, <2>2, <2>3
<1>9. RaisedFor(Teams \ todo)' = before \cup raised
  BY <1>1 DEF RaisedFor
<1> HIDE DEF raised, before
<1>10. old \o new \in SetToSeqs(before \cup raised) /\ IsFiniteSet(before \cup raised)
  BY <1>8, EnumerationsJoin
<1>11. old \in Seq(Alarms) /\ new \in Seq(Alarms)
  BY <1>8, EnumerationIsSequence
<1>12. store'.alerts = visible.alerts \o (old \o new)
  <2>1. visible.alerts \in Seq(Alarms)
    BY <1>1 DEF WholeStore
  <2>2. store'.alerts = (visible.alerts \o old) \o new
    BY <1>6, <1>7
  <2>3. (visible.alerts \o old) \o new = visible.alerts \o (old \o new)
    <3>1. \A x, y, z \in Seq(Alarms) : (x \o y) \o z = x \o (y \o z)
      BY ConcatAssociative
    <3> QED BY <1>11, <2>1, <3>1, Zenon
  <2> QED BY <2>2, <2>3
<1>13. /\ DOMAIN store'.baselines = DOMAIN store.baselines \cup {t}
       /\ store'.baselines[t] = Baseline(visible.baselines, window, t)
       /\ \A x \in DOMAIN store.baselines \ {t} : store'.baselines[x] = store.baselines[x]
  <2> DEFINE b == Baseline(visible.baselines, window, t)
  <2>1. store'.baselines = Put(store.baselines, t, b)
    BY <1>6
  <2> HIDE DEF b
  <2>2. /\ DOMAIN Put(store.baselines, t, b) = DOMAIN store.baselines \cup {t}
        /\ Put(store.baselines, t, b)[t] = b
        /\ \A x \in DOMAIN store.baselines \ {t} :
               Put(store.baselines, t, b)[x] = store.baselines[x]
    <3>1. \A m, v : /\ DOMAIN Put(m, t, v) = DOMAIN m \cup {t}
                    /\ Put(m, t, v)[t] = v
                    /\ \A x \in DOMAIN m \ {t} : Put(m, t, v)[x] = m[x]
      BY PutFacts
    <3> QED BY <3>1
  <2> QED BY <2>1, <2>2 DEF b
<1>14. WholeStore(store')
  <2>1. store'.alerts \in Seq(Alarms)
    BY <1>1, <1>6, <1>11 DEF WholeStore
  <2>2. store'.baselines = [x \in DOMAIN store'.baselines |-> store'.baselines[x]]
    BY <1>6 DEF Put
  <2>3. DOMAIN store'.baselines \subseteq Teams
    BY <1>1, <1>13 DEF WholeStore
  <2> QED BY <1>6, <2>1, <2>2, <2>3 DEF WholeStore
<1>15. TeamsTaken'
  <2>1. DOMAIN store'.baselines = DOMAIN visible'.baselines \cup (Teams \ todo')
    BY <1>1, <1>13 DEF TeamsTaken
  <2>2. \A x \in Teams \ todo' :
            store'.baselines[x] = Baseline(visible'.baselines, window', x)
    BY <1>1, <1>13 DEF TeamsTaken
  <2>3. \A x \in todo' \cap DOMAIN visible'.baselines :
            store'.baselines[x] = visible'.baselines[x]
    BY <1>1, <1>13 DEF TeamsTaken
  <2>4. \E all \in SetToSeqs(RaisedFor(Teams \ todo)') : store'.alerts = visible'.alerts \o all
    BY <1>1, <1>9, <1>10, <1>12
  <2>5. IsFiniteSet(RaisedFor(Teams \ todo)')
    BY <1>9, <1>10
  <2> QED BY <2>1, <2>2, <2>3, <2>4, <2>5 DEF TeamsTaken
<1>16. Stored'
  BY <1>1, <1>6 DEF Stored
<1>17. WholeStore(store)' /\ WholeStore(visible)'
  BY <1>1, <1>14 DEF WholeStore
<1> QED BY <1>1, <1>15, <1>16, <1>17 DEF UpdateInvariant

(* The end of Update preserves the invariant.                              *)
LEMMA EndKeepsUpdate ==
    ASSUME UpdateInvariant, LockInvariant', UpdateEnd
    PROVE  UpdateInvariant'
<1>1. /\ store' = [store EXCEPT !.alerts = Trim(store.alerts)]
      /\ visible' = store'
      /\ mainPc' = "idle" \/ mainPc' = "show"
      /\ UNCHANGED <<window, todo>>
      /\ WholeStore(store) /\ todo \subseteq Teams
  BY DEF UpdateEnd, UpdateInvariant
<1>2. store' = [latest |-> store.latest, history |-> store.history,
                baselines |-> store.baselines, alerts |-> Trim(store.alerts)]
  BY <1>1 DEF WholeStore
<1>3. Trim(store.alerts) \in Seq(Alarms)
  BY <1>1, TrimTyped DEF WholeStore
<1>4. WholeStore(store)' /\ WholeStore(visible)'
  BY <1>1, <1>2, <1>3 DEF WholeStore
<1> QED BY <1>1, <1>4 DEF UpdateInvariant

(* Every step preserves the invariant.                                     *)
LEMMA UpdateNext == UpdateInvariant /\ [Next]_vars => UpdateInvariant'
<1> SUFFICES ASSUME UpdateInvariant, [Next]_vars PROVE UpdateInvariant'
  OBVIOUS
<1>1. LockInvariant'
  BY LockNext DEF UpdateInvariant
<1>2. CASE Tick
  <2>1. window' \in Windows
    BY <1>2 DEF Tick, Windows
  <2>2. mainPc' = "lock" /\ UNCHANGED <<store, visible, todo>>
    BY <1>2 DEF Tick, historyVars
  <2> QED BY <1>1, <2>1, <2>2 DEF UpdateInvariant, WholeStore
<1>3. CASE Acquire
  <2>1. mainPc = "lock" /\ mainPc' = "latest" /\ UNCHANGED <<store, visible, window, todo>>
    BY <1>3 DEF Acquire, historyVars
  <2>2. store = visible
    BY <2>1 DEF UpdateInvariant, LockInvariant, Writing
  <2> QED BY <1>1, <2>1, <2>2 DEF UpdateInvariant, WholeStore
<1>4. CASE UpdateLatest
  <2>1. /\ mainPc = "latest" /\ mainPc' = "history" /\ UNCHANGED <<visible, window, todo>>
        /\ store' = [store EXCEPT !.latest = window]
        /\ store = visible /\ WholeStore(store)
    BY <1>4 DEF UpdateLatest, UpdateInvariant
  <2>2. store' = [latest |-> window, history |-> store.history,
                  baselines |-> store.baselines, alerts |-> store.alerts]
    BY <2>1 DEF WholeStore
  <2>3. WholeStore(store)' /\ WholeStore(visible)'
    BY <2>1, <2>2 DEF WholeStore
  <2> QED BY <1>1, <2>1, <2>3 DEF UpdateInvariant
<1>5. CASE UpdateHistory
  BY <1>1, <1>5, HistoryKeepsUpdate
<1>6. ASSUME NEW t \in Teams, UpdateTeam(t)
      PROVE  UpdateInvariant'
  BY <1>1, <1>6, TeamKeepsUpdate
<1>7. CASE UpdateEnd
  BY <1>1, <1>7, EndKeepsUpdate
<1>8. CASE Dashboard \/ (\E c \in Clients : Request(c) \/ Answered(c)) \/ UNCHANGED vars
  <2>1. /\ UNCHANGED <<store, visible, window, todo>>
        /\ mainPc' = mainPc \/ mainPc' \in {"idle", "show", "showing"}
    BY <1>8 DEF Dashboard, ShowDashboard, EndDashboard, Request, Answered, vars, mainVars,
                historyVars
  <2> QED BY <1>1, <2>1, OthersKeepUpdate
<1> QED BY <1>2, <1>3, <1>4, <1>5, <1>6, <1>7, <1>8 DEF Next, Update

-----------------------------------------------------------------------------
(* Only the end of Update moves what readers see, and then by the whole    *)
(* window of StorePromise.                                                 *)
LEMMA EndStoresWindow ==
    ASSUME UpdateInvariant, UpdateEnd
    PROVE  Promise!Next
<1>1. /\ mainPc = "teams" /\ todo = {}
      /\ store' = [store EXCEPT !.alerts = Trim(store.alerts)]
      /\ visible' = store'
      /\ window \in Windows /\ WholeStore(store) /\ WholeStore(visible)
      /\ Stored /\ TeamsTaken
  BY DEF UpdateEnd, UpdateInvariant
<1>2. PICK new \in SetToSeqs(RaisedFor(Teams \ todo)) : store.alerts = visible.alerts \o new
  BY <1>1 DEF TeamsTaken
<1>3. RaisedFor(Teams \ todo) = Promise!NewAlerts(visible.baselines, window)
  <2>1. \A t : Promise!Raised(visible.baselines, window, t) = Raised(visible.baselines, window, t)
    BY SamePromise
  <2>2. Teams \ todo = Teams
    BY <1>1
  <2> QED BY <2>1, <2>2 DEF RaisedFor, Promise!NewAlerts
<1>4. new \in Promise!SetToSeqs(Promise!NewAlerts(visible.baselines, window))
  BY <1>2, <1>3, SamePromise
<1>5. store.baselines = [t \in Teams |-> Baseline(visible.baselines, window, t)]
  <2>1. DOMAIN store.baselines = Teams
    BY <1>1 DEF TeamsTaken, WholeStore
  <2>2. \A t \in Teams : store.baselines[t] = Baseline(visible.baselines, window, t)
    BY <1>1 DEF TeamsTaken
  <2> QED BY <1>1, <2>1, <2>2 DEF WholeStore
<1>6. visible' = [latest |-> window,
                  history |-> AddPoint(visible.history, HistoryPoint(window)),
                  baselines |-> [t \in Teams |-> Baseline(visible.baselines, window, t)],
                  alerts |-> Trim(visible.alerts \o new)]
  BY <1>1, <1>2, <1>5 DEF WholeStore, Stored
<1>7. visible' = [latest |-> window,
                  history |-> Promise!AddPoint(visible.history, Promise!HistoryPoint(window)),
                  baselines |-> [t \in Teams |-> Promise!Baseline(visible.baselines, window, t)],
                  alerts |-> Promise!Trim(visible.alerts \o new)]
  BY <1>6, SamePromise
<1>8. Promise!Store(window)
  BY <1>4, <1>7 DEF Promise!Store
<1>9. window \in Promise!Windows
  BY <1>1, SamePromise
<1> QED BY <1>8, <1>9 DEF Promise!Next

(* Only the end of Update changes what readers see.                        *)
LEMMA OthersStutter == [Next]_vars => UpdateEnd \/ UNCHANGED visible
BY DEF Next, Tick, Update, Acquire, UpdateLatest, UpdateHistory, UpdateTeam, Dashboard,
       ShowDashboard, EndDashboard, Request, Answered, vars, historyVars

(* The store that readers see behaves as StorePromise says: whatever order *)
(* Update takes the teams in and whoever reads meanwhile, every change of  *)
(* it is a whole window with its point, baselines and alerts.              *)
THEOREM KeepsPromiseCorrect == Spec => KeepsPromise
<1>1. Init => Promise!Init
  BY SamePromise DEF Init, Promise!Init
<1>2. UpdateInvariant /\ [Next]_vars => [Promise!Next]_visible
  BY EndStoresWindow, OthersStutter
<1> QED BY <1>1, <1>2, UpdateInit, UpdateNext, PTL DEF Spec, KeepsPromise, Promise!Spec

-----------------------------------------------------------------------------
(* Costs and totals *)

(* Products and quotients of naturals are naturals.                        *)
LEMMA TimesNat == ASSUME NEW a \in Nat, NEW b \in Nat PROVE a * b \in Nat
OBVIOUS

(* A quotient of natural numbers is one.                                   *)
LEMMA DivNat == ASSUME NEW a \in Nat, NEW b \in Nat, b > 0 PROVE a \div b \in Nat
OBVIOUS

(* The metrics of a window are natural numbers.                            *)
LEMMA GenerateType ==
    ASSUME NEW p \in Pods, NEW wave \in Waves, NEW spike \in BOOLEAN
    PROVE  /\ generate(p, wave, spike).TotalCost \in Nat
           /\ generate(p, wave, spike).WastedDollars \in Nat
<1> DEFINE profile == PodProfile[p]
           Times(v) == IF spike THEN (v * profile.SpikeMultiplier) \div 10 ELSE v
           cpu == Times(clamp(profile.CPUIntensity + wave))
           net == Times(clamp(profile.NetworkIntensity))
           disk == Times(clamp(profile.DiskIntensity))
           mem == clamp(profile.MemIntensity)
           util == (cpu * 200) \div (profile.CPUIntensity * 3)
           total == cpu * Price.cpu + net * Price.net + disk * Price.disk + mem * Price.mem
           wasted == IF util < 20 THEN cpu * Price.cpu * (100 - util) ELSE 0
<1>1. /\ profile.CPUIntensity \in Nat \ {0} /\ profile.NetworkIntensity \in Nat
      /\ profile.DiskIntensity \in Nat /\ profile.MemIntensity \in Nat
      /\ profile.SpikeMultiplier \in Nat
  BY ProfileAssumption
<1>2. /\ Price.cpu \in Nat /\ Price.mem \in Nat /\ Price.net \in Nat /\ Price.disk \in Nat
      /\ wave \in Int
  BY PriceAssumption
<1> HIDE DEF profile
<1>3. \A v \in Int : clamp(v) \in Nat
  BY DEF clamp
<1>4. \A v \in Nat : Times(v) \in Nat
  <2>1. \A v \in Nat : v * profile.SpikeMultiplier \in Nat
    BY <1>1, TimesNat
  <2> QED BY <2>1, DivNat
<1> HIDE DEF Times
<1>5. cpu \in Nat /\ net \in Nat /\ disk \in Nat /\ mem \in Nat
  BY <1>1, <1>2, <1>3, <1>4
<1> HIDE DEF cpu, net, disk, mem
<1>6. util \in Nat
  <2>1. cpu * 200 \in Nat /\ profile.CPUIntensity * 3 \in Nat /\ profile.CPUIntensity * 3 > 0
    BY <1>1, <1>5
  <2> QED BY <2>1, DivNat
<1>7. cpu * Price.cpu \in Nat /\ net * Price.net \in Nat /\ disk * Price.disk \in Nat
      /\ mem * Price.mem \in Nat
  BY <1>2, <1>5, TimesNat
<1>8. total \in Nat
  BY <1>7
<1>9. wasted \in Nat
  <2> HIDE DEF util
  <2>1. CASE util < 20
    <3>1. 100 - util \in Nat
      BY <1>6, <2>1
    <3> QED BY <1>7, <2>1, <3>1, TimesNat
  <2> QED BY <2>1
<1>10. generate(p, wave, spike) = [TotalCost |-> total, CPUUtilPct |-> util, WastedDollars |-> wasted]
  BY DEF generate, cpu, net, disk, mem, Times, profile
<1> HIDE DEF total, util, wasted
<1> QED BY <1>8, <1>9, <1>10

(* And so are those of every pod of a window.                              *)
LEMMA WindowType ==
    ASSUME NEW w \in Windows
    PROVE  /\ DOMAIN w = Pods
           /\ \A p \in Pods : w[p].TotalCost \in Nat /\ w[p].WastedDollars \in Nat
<1>1. PICK wave \in Waves, spikes \in SUBSET Pods :
          w = [p \in Pods |-> generate(p, wave, p \in spikes)]
  BY DEF Windows, Window
<1>2. \A p \in Pods : w[p] = generate(p, wave, p \in spikes)
  BY <1>1
<1>3. DOMAIN w = Pods
  BY <1>1
<1>4. ASSUME NEW p \in Pods
      PROVE  w[p].TotalCost \in Nat /\ w[p].WastedDollars \in Nat
  <2>1. \A spike \in BOOLEAN : /\ generate(p, wave, spike).TotalCost \in Nat
                                /\ generate(p, wave, spike).WastedDollars \in Nat
    BY GenerateType
  <2>2. (p \in spikes) \in BOOLEAN
    OBVIOUS
  <2> QED BY <1>2, <2>1, <2>2
<1> QED BY <1>3, <1>4

(* Sums over the pods of a window are sums of one of its columns.          *)
Column(w, field) == [p \in Pods |-> w[p][field]]

(* The endpoints sum columns of the window.                                *)
LEMMA ColumnSums ==
    ASSUME NEW w \in Windows
    PROVE  /\ \A p \in Pods : /\ Column(w, "TotalCost")[p] \in Nat
                              /\ Column(w, "WastedDollars")[p] \in Nat
           /\ \A field, pods : pods \subseteq Pods =>
                 SumOf(w, field, pods) = SumFunctionOnSet(Column(w, field), pods)
<1>1. \A p \in Pods : w[p].TotalCost \in Nat /\ w[p].WastedDollars \in Nat
  BY WindowType
<1>2. ASSUME NEW field, NEW pods, pods \subseteq Pods
      PROVE  SumOf(w, field, pods) = SumFunctionOnSet(Column(w, field), pods)
  <2> DEFINE f == [p \in pods |-> w[p][field]]
             g == Column(w, field)
  <2>1. IsFiniteSet(pods)
    BY <1>2, TeamsAssumption, FS_Subset
  <2>2. \A p \in pods : f[p] = g[p]
    BY <1>2 DEF Column
  <2>3. SumFunctionOnSet(f, pods) = SumFunctionOnSet(g, pods)
    <3> HIDE DEF f, g
    <3> QED BY <2>1, <2>2, SumEqual
  <2> QED BY <2>3 DEF SumOf
<1> QED BY <1>1, <1>2 DEF Column

(* Hence their sums are natural numbers.                                   *)
LEMMA SumsType ==
    ASSUME NEW w \in Windows, NEW pods \in SUBSET Pods
    PROVE  /\ SumOf(w, "TotalCost", pods) \in Nat
           /\ SumOf(w, "WastedDollars", pods) \in Nat
<1>1. IsFiniteSet(pods)
  BY TeamsAssumption, FS_Subset
<1>2. /\ SumOf(w, "TotalCost", pods) = SumFunctionOnSet(Column(w, "TotalCost"), pods)
      /\ SumOf(w, "WastedDollars", pods) = SumFunctionOnSet(Column(w, "WastedDollars"), pods)
      /\ \A p \in pods : /\ Column(w, "TotalCost")[p] \in Nat
                         /\ Column(w, "WastedDollars")[p] \in Nat
  BY ColumnSums
<1>3. \A f : (\A p \in pods : f[p] \in Nat) => SumFunctionOnSet(f, pods) \in Nat
  BY <1>1, SumType
<1> QED BY <1>2, <1>3

(* A team's total is a natural number.                                     *)
LEMMA TotalsType ==
    ASSUME NEW w \in Windows, NEW t \in Teams
    PROVE  teamTotals(w)[t] \in Nat
<1>1. PodsOfTeam(t) \in SUBSET Pods
  BY DEF PodsOfTeam
<1> QED BY <1>1, SumsType DEF teamTotals

(* The team rows of a window add up to the window.                         *)
LEMMA TotalsAddUp ==
    ASSUME NEW w \in Windows
    PROVE  SumFunction(teamTotals(w)) = SumOf(w, "TotalCost", Pods)
<1> DEFINE rows == teamTotals(w)
           f == Column(w, "TotalCost")
<1>1. DOMAIN rows = {TeamOf[p] : p \in Pods}
  BY TeamsAssumption DEF teamTotals, Range
<1>2. \A t \in DOMAIN rows : rows[t] = SumFunctionOnSet(f, {p \in Pods : TeamOf[p] = t})
  BY ColumnSums DEF teamTotals, PodsOfTeam
<1>3. IsFiniteSet(Pods) /\ \A p \in Pods : f[p] \in Int
  BY ColumnSums, TeamsAssumption
<1>4. SumOf(w, "TotalCost", Pods) = SumFunctionOnSet(f, Pods)
  BY ColumnSums
<1> HIDE DEF rows, f
<1>5. SumFunction(rows) = SumFunctionOnSet(f, Pods)
  BY <1>1, <1>2, <1>3, SumByKey
<1> QED BY <1>4, <1>5 DEF rows

(***************************************************************************)
(* What the store and its readers' copy hold besides: points and           *)
(* baselines, the newest point that of the latest window, and the totals   *)
(* that each team has had.                                                 *)
(***************************************************************************)
Points == {HistoryPoint(w) : w \in Windows}

HistoryHolds(st) ==
    /\ st.history \in Seq(Points)
    /\ Len(st.history) <= HistoryCap

BaselinesHold(st) == \A t \in DOMAIN st.baselines : st.baselines[t] \in Nat

StoreInvariant ==
    /\ UpdateInvariant
    /\ HistoryHolds(store) /\ HistoryHolds(visible)
    /\ BaselinesHold(store) /\ BaselinesHold(visible)
    /\ store.latest = NoKeys \/ store.latest \in Windows
    /\ visible.latest = NoKeys \/ visible.latest \in Windows
    /\ DOMAIN visible.baselines # {} => visible.latest \in Windows
    /\ visible.latest # NoKeys => DOMAIN visible.baselines = Teams
    /\ visible.history # <<>> =>
          /\ visible.latest \in Windows
          /\ Last(visible.history) = HistoryPoint(visible.latest)
    /\ Len(visible.alerts) <= AlertCap

SeenInvariant ==
    /\ seen \in [Teams -> SUBSET Nat]
    /\ mainPc \in {"history", "teams"} =>
          \A t \in DOMAIN visible.baselines : teamTotals(visible.latest)[t] \in seen[t]
    /\ \A t \in Teams : seen[t] # {} => t \in DOMAIN visible.baselines

(* The new point is the newest, and the cap is kept.                       *)
LEMMA AddPointFacts ==
    ASSUME NEW h \in Seq(Points), Len(h) <= HistoryCap, NEW point \in Points
    PROVE  /\ AddPoint(h, point) \in Seq(Points)
           /\ Len(AddPoint(h, point)) <= HistoryCap
           /\ Last(AddPoint(h, point)) = point
<1> DEFINE longer == Append(h, point)
<1>1. /\ longer \in Seq(Points) /\ Len(longer) = Len(h) + 1 /\ longer # <<>>
      /\ longer[Len(h) + 1] = point
  OBVIOUS
<1> HIDE DEF longer
<1>2. CASE Len(longer) > HistoryCap
  <2>1. AddPoint(h, point) = Tail(longer) /\ Len(longer) = HistoryCap + 1
    BY <1>1, <1>2, CapsAssumption DEF AddPoint, longer
  <2>2. /\ Tail(longer) \in Seq(Points) /\ Len(Tail(longer)) = HistoryCap
        /\ Tail(longer)[HistoryCap] = longer[HistoryCap + 1]
    BY <1>1, <2>1, CapsAssumption
  <2> QED BY <1>1, <2>1, <2>2, CapsAssumption DEF Last
<1>3. CASE ~(Len(longer) > HistoryCap)
  <2>1. AddPoint(h, point) = longer
    BY <1>3 DEF AddPoint, longer
  <2> QED BY <1>1, <1>3, <2>1, CapsAssumption DEF Last
<1> QED BY <1>2, <1>3

(* A baseline is a natural number.                                         *)
LEMMA BaselineType ==
    ASSUME NEW b, \A t \in DOMAIN b : b[t] \in Nat, NEW w \in Windows, NEW t \in Teams
    PROVE  Baseline(b, w, t) \in Nat
<1>1. teamTotals(w)[t] \in Nat
  BY TotalsType
<1>2. t \in DOMAIN b => 92 * b[t] + 8 * teamTotals(w)[t] \in Nat
  BY <1>1
<1> QED BY <1>1, <1>2, DivNat DEF Baseline

(* Trimming keeps the new alerts when they are no more than the cap.       *)
LEMMA TrimFacts ==
    ASSUME NEW old \in Seq(Alarms), NEW new \in Seq(Alarms), Len(new) <= AlertCap
    PROVE  /\ Len(Trim(old \o new)) <= AlertCap
           /\ \A k \in DOMAIN new : \E i \in DOMAIN Trim(old \o new) : Trim(old \o new)[i] = new[k]
<1> DEFINE all == old \o new
           n == Len(all)
<1>1. /\ all \in Seq(Alarms) /\ n = Len(old) + Len(new)
      /\ \A k \in DOMAIN new : all[Len(old) + k] = new[k]
  OBVIOUS
<1>2. AlertCap \in Nat \ {0} /\ Len(old) \in Nat /\ Len(new) \in Nat
  BY CapsAssumption
<1>3. CASE n > AlertCap
  <2> DEFINE tail == SubSeq(all, n - AlertCap + 1, n)
  <2>1. Trim(all) = tail
    BY <1>3 DEF Trim
  <2>2. /\ Len(tail) = AlertCap
        /\ \A i \in 1 .. AlertCap : tail[i] = all[n - AlertCap + i]
    BY <1>1, <1>2, <1>3
  <2> HIDE DEF tail, all, n
  <2>3. ASSUME NEW k \in DOMAIN new
        PROVE  \E i \in DOMAIN tail : tail[i] = new[k]
    <3> DEFINE i == AlertCap - Len(new) + k
    <3>1. k \in 1 .. Len(new)
      BY <2>3
    <3>2. i \in 1 .. AlertCap /\ n - AlertCap + i = Len(old) + k
      BY <1>1, <1>2, <3>1
    <3>3. tail[i] = new[k]
      BY <1>1, <2>2, <3>2
    <3> QED BY <2>1, <2>2, <3>2, <3>3
  <2> QED BY <1>2, <2>1, <2>2, <2>3 DEF all
<1>4. CASE n <= AlertCap
  <2>1. Trim(all) = all
    BY <1>1, <1>2, <1>4 DEF Trim
  <2>2. \A k \in DOMAIN new : Len(old) + k \in DOMAIN all
    BY <1>1, <1>2
  <2> QED BY <1>1, <1>4, <2>1, <2>2
<1> QED BY <1>1, <1>2, <1>3, <1>4

(* A window raises no more alerts than there are teams, and an enumeration *)
(* has them all.                                                           *)
LEMMA AlertsFit ==
    ASSUME NEW baselines, NEW w \in Windows,
           NEW new \in SetToSeqs(UNION {Raised(baselines, w, t) : t \in Teams})
    PROVE  /\ new \in Seq(Alarms) /\ Len(new) <= AlertCap
           /\ \A t \in Teams : \A a \in Raised(baselines, w, t) :
                 \E k \in DOMAIN new : new[k] = a
<1> DEFINE all == UNION {Raised(baselines, w, t) : t \in Teams}
           team == [a \in all |-> a.Team]
           n == Cardinality(all)
<1>1. \A t \in Teams : \A a \in Raised(baselines, w, t) : a \in Alarms /\ a.Team = t
  BY RaisedFacts
<1>2. \A t \in Teams : \A a, b \in Raised(baselines, w, t) : a = b
  BY DEF Raised, Levels
<1>3. IsFiniteSet(Teams) /\ Cardinality(Teams) \in Nat
  <2>1. TeamOf \in Surjection(Pods, Teams)
    BY TeamsAssumption DEF Surjection, Range
  <2>2. IsFiniteSet(Teams)
    BY <2>1, TeamsAssumption, FS_Surjection
  <2> QED BY <2>2, FS_CardinalityType
<1>4. team \in Injection(all, Teams)
  <2>1. \A a \in all : a.Team \in Teams /\ a \in Raised(baselines, w, a.Team)
    BY <1>1
  <2>2. \A a, b \in all : a.Team = b.Team => a = b
    BY <1>2, <2>1
  <2> HIDE DEF all
  <2> QED BY <2>1, <2>2 DEF Injection, IsInjective
<1>5. IsFiniteSet(all) /\ n <= Cardinality(Teams) /\ n \in Nat
  <2>1. IsFiniteSet(all) /\ n <= Cardinality(Teams)
    <3> HIDE DEF all, team
    <3> QED BY <1>3, <1>4, FS_Injection
  <2> QED BY <2>1, FS_CardinalityType
<1>6. new \in [1 .. n -> all] /\ \A i, j \in 1 .. n : i # j => new[i] # new[j]
  BY DEF SetToSeqs
<1>7. all \subseteq Alarms
  BY <1>1
<1> HIDE DEF all, n
<1>8. new \in Seq(Alarms) /\ Len(new) = n /\ DOMAIN new = 1 .. n
  BY <1>5, <1>6, <1>7
<1>9. new \in Surjection(1 .. n, all)
  <2>1. new \in Injection(1 .. n, all)
    BY <1>6 DEF Injection, IsInjective
  <2>2. IsFiniteSet(1 .. n) /\ Cardinality(1 .. n) = n
    BY <1>5, FS_Interval
  <2> QED BY <1>5, <2>1, <2>2, FS_Injection DEF n
<1>10. \A a \in all : \E k \in DOMAIN new : new[k] = a
  BY <1>8, <1>9 DEF Surjection
<1>11. Len(new) <= AlertCap
  BY <1>3, <1>5, <1>8, CapsAssumption, FewTeamsAssumption
<1>12. \A t \in Teams : Raised(baselines, w, t) \subseteq all
  BY DEF all
<1> QED BY <1>8, <1>10, <1>11, <1>12

(* The empty store holds nothing.                                          *)
LEMMA StoreInit == Init => StoreInvariant
<1> SUFFICES ASSUME Init PROVE StoreInvariant
  OBVIOUS
<1>1. store = NewStore /\ visible = NewStore
  BY DEF Init
<1>2. /\ NewStore.latest = NoKeys /\ NewStore.history = <<>> /\ NewStore.alerts = <<>>
      /\ DOMAIN NewStore.baselines = {}
  BY DEF NewStore, NoKeys
<1>3. HistoryHolds(NewStore) /\ BaselinesHold(NewStore)
  BY <1>2, CapsAssumption DEF HistoryHolds, BaselinesHold
<1>4. Len(NewStore.alerts) <= AlertCap
  BY <1>2, CapsAssumption
<1> QED BY <1>1, <1>2, <1>3, <1>4, UpdateInit DEF StoreInvariant

(* The end of Update makes visible what it has put together.               *)
LEMMA EndKeepsStore ==
    ASSUME StoreInvariant, UpdateInvariant', UpdateEnd
    PROVE  StoreInvariant'
<1>1. /\ mainPc = "teams" /\ todo = {}
      /\ store' = [store EXCEPT !.alerts = Trim(store.alerts)]
      /\ visible' = store'
      /\ window \in Windows /\ WholeStore(store) /\ WholeStore(visible)
      /\ Stored /\ TeamsTaken
  BY DEF UpdateEnd, UpdateInvariant, StoreInvariant
<1>2. store' = [latest |-> store.latest, history |-> store.history,
                baselines |-> store.baselines, alerts |-> Trim(store.alerts)]
  BY <1>1 DEF WholeStore
<1>3. store.latest = window /\ store.history = AddPoint(visible.history, HistoryPoint(window))
  BY <1>1 DEF Stored
<1>4. Last(store.history) = HistoryPoint(window)
  <2>1. HistoryPoint(window) \in Points
    BY <1>1 DEF Points
  <2> QED BY <1>3, <2>1, AddPointFacts DEF StoreInvariant, HistoryHolds
<1>5. PICK new \in SetToSeqs(RaisedFor(Teams \ todo)) : store.alerts = visible.alerts \o new
  BY <1>1 DEF TeamsTaken
<1>6. Len(Trim(store.alerts)) <= AlertCap
  <2>1. new \in SetToSeqs(UNION {Raised(visible.baselines, window, t) : t \in Teams})
    <3>1. Teams \ todo = Teams
      BY <1>1
    <3> QED BY <3>1 DEF RaisedFor
  <2>2. new \in Seq(Alarms) /\ Len(new) <= AlertCap
    <3>1. \A b : new \in SetToSeqs(UNION {Raised(b, window, t) : t \in Teams})
                   => new \in Seq(Alarms) /\ Len(new) <= AlertCap
      BY <1>1, AlertsFit
    <3> QED BY <2>1, <3>1
  <2>3. visible.alerts \in Seq(Alarms)
    BY <1>1 DEF WholeStore
  <2> QED BY <1>5, <2>2, <2>3, TrimFacts
<1>7. HistoryHolds(store)' /\ BaselinesHold(store)'
  BY <1>2 DEF StoreInvariant, HistoryHolds, BaselinesHold
<1>8. HistoryHolds(visible)' /\ BaselinesHold(visible)'
  BY <1>1, <1>7 DEF HistoryHolds, BaselinesHold
<1>9. DOMAIN visible'.baselines = Teams
  BY <1>1, <1>2 DEF TeamsTaken, WholeStore
<1> QED BY <1>1, <1>2, <1>3, <1>4, <1>6, <1>7, <1>8, <1>9 DEF StoreInvariant

(* Every step keeps what the stores hold.                                  *)
LEMMA StoreNext == StoreInvariant /\ [Next]_vars => StoreInvariant'
<1> SUFFICES ASSUME StoreInvariant, [Next]_vars PROVE StoreInvariant'
  OBVIOUS
<1>1. UpdateInvariant'
  BY UpdateNext DEF StoreInvariant
<1>2. CASE UpdateLatest
  <2>1. /\ UNCHANGED visible
        /\ store' = [store EXCEPT !.latest = window]
        /\ WholeStore(store) /\ window \in Windows
    BY <1>2 DEF UpdateLatest, UpdateInvariant, StoreInvariant
  <2>2. store' = [latest |-> window, history |-> store.history,
                  baselines |-> store.baselines, alerts |-> store.alerts]
    BY <2>1 DEF WholeStore
  <2>3. HistoryHolds(store)' /\ BaselinesHold(store)' /\ store'.latest \in Windows
    BY <2>1, <2>2 DEF StoreInvariant, HistoryHolds, BaselinesHold
  <2> QED BY <1>1, <2>1, <2>3 DEF StoreInvariant, HistoryHolds, BaselinesHold
<1>3. CASE UpdateHistory
  <2>1. /\ UNCHANGED visible
        /\ store' = [store EXCEPT !.history = AddPoint(store.history, HistoryPoint(window))]
        /\ WholeStore(store) /\ window \in Windows
    BY <1>3 DEF UpdateHistory, UpdateInvariant, StoreInvariant, historyVars
  <2>2. store' = [latest |-> store.latest, history |-> AddPoint(store.history, HistoryPoint(window)),
                  baselines |-> store.baselines, alerts |-> store.alerts]
    BY <2>1 DEF WholeStore
  <2>3. HistoryPoint(window) \in Points
    BY <2>1 DEF Points
  <2>4. HistoryHolds(store)'
    BY <2>2, <2>3, AddPointFacts DEF StoreInvariant, HistoryHolds
  <2>5. BaselinesHold(store)' /\ store'.latest = store.latest
    BY <2>2 DEF StoreInvariant, BaselinesHold
  <2> QED BY <1>1, <2>1, <2>4, <2>5 DEF StoreInvariant, HistoryHolds, BaselinesHold
<1>4. ASSUME NEW t \in Teams, UpdateTeam(t)
      PROVE  StoreInvariant'
  <2> DEFINE b == Baseline(store.baselines, window, t)
  <2>1. /\ UNCHANGED visible /\ WholeStore(store) /\ window \in Windows
        /\ \E new : store' = [store EXCEPT !.baselines = Put(store.baselines, t, b),
                                         !.alerts = store.alerts \o new]
    BY <1>4 DEF UpdateTeam, UpdateInvariant, StoreInvariant, historyVars
  <2>2. b \in Nat
    BY <2>1, BaselineType DEF StoreInvariant, BaselinesHold
  <2> HIDE DEF b
  <2>3. \E new : store' = [latest |-> store.latest, history |-> store.history,
                           baselines |-> Put(store.baselines, t, b), alerts |-> store.alerts \o new]
    BY <2>1 DEF WholeStore
  <2>4. /\ store'.latest = store.latest /\ store'.history = store.history
        /\ store'.baselines = Put(store.baselines, t, b)
    BY <2>3
  <2>5. BaselinesHold(store)'
    BY <2>2, <2>4 DEF Put, StoreInvariant, BaselinesHold
  <2> QED BY <1>1, <2>1, <2>4, <2>5 DEF StoreInvariant, HistoryHolds, BaselinesHold
<1>5. CASE UpdateEnd
  BY <1>1, <1>5, EndKeepsStore
<1>6. CASE Tick \/ Acquire \/ Dashboard \/ (\E c \in Clients : Request(c) \/ Answered(c))
           \/ UNCHANGED vars
  <2>1. UNCHANGED <<store, visible>>
    BY <1>6 DEF Tick, Acquire, Dashboard, ShowDashboard, EndDashboard, Request, Answered, vars,
                historyVars
  <2> QED BY <1>1, <2>1 DEF StoreInvariant, HistoryHolds, BaselinesHold
<1> QED BY <1>2, <1>3, <1>4, <1>5, <1>6 DEF Next, Update

(* What a team has had is known from the window that readers had.          *)
LEMMA SeenNext ==
    StoreInvariant /\ SeenInvariant /\ [Next]_vars => SeenInvariant'
<1> SUFFICES ASSUME StoreInvariant, SeenInvariant, [Next]_vars PROVE SeenInvariant'
  OBVIOUS
<1>1. CASE UpdateLatest
  <2>1. /\ store = visible /\ UNCHANGED visible
        /\ seen' = IF store.latest = NoKeys THEN seen
                   ELSE [t \in Teams |-> seen[t] \cup {teamTotals(store.latest)[t]}]
        /\ DOMAIN visible.baselines \subseteq Teams
    BY <1>1 DEF UpdateLatest, StoreInvariant, UpdateInvariant, WholeStore
  <2>2. CASE store.latest = NoKeys
    <3>1. DOMAIN visible.baselines = {}
      <4>1. ASSUME NEW t \in DOMAIN visible.baselines PROVE FALSE
        <5>1. visible.latest \in Windows
          BY <4>1 DEF StoreInvariant
        <5>2. Pods = {}
          BY <2>1, <2>2, <5>1, WindowType DEF NoKeys
        <5>3. Teams = {}
          BY <5>2, TeamsAssumption DEF Range
        <5> QED BY <2>1, <4>1, <5>3
      <4> QED BY <4>1
    <3> QED BY <2>1, <2>2, <3>1 DEF SeenInvariant
  <2>3. CASE store.latest # NoKeys
    <3>1. store.latest \in Windows
      BY <2>3 DEF StoreInvariant
    <3>2. \A t \in Teams : teamTotals(store.latest)[t] \in Nat
      BY <3>1, TotalsType
    <3>3. DOMAIN visible.baselines = Teams
      BY <2>1, <2>3 DEF StoreInvariant
    <3> QED BY <2>1, <2>3, <3>2, <3>3 DEF SeenInvariant
  <2> QED BY <2>2, <2>3
<1>2. CASE UpdateHistory \/ \E t \in Teams : UpdateTeam(t)
  <2>1. /\ UNCHANGED <<seen, visible>> /\ mainPc \in {"history", "teams"}
    BY <1>2 DEF UpdateHistory, UpdateTeam, historyVars
  <2>2. \A t \in DOMAIN visible.baselines : teamTotals(visible.latest)[t] \in seen[t]
    BY <2>1 DEF SeenInvariant
  <2>3. \A t \in DOMAIN visible'.baselines : teamTotals(visible'.latest)[t] \in seen'[t]
    BY <2>1, <2>2
  <2>4. \A t \in Teams : seen'[t] # {} => t \in DOMAIN visible'.baselines
    BY <2>1 DEF SeenInvariant
  <2> QED BY <2>1, <2>3, <2>4 DEF SeenInvariant
<1>3. CASE UpdateEnd
  <2>1. DOMAIN visible'.baselines = DOMAIN store.baselines /\ DOMAIN store.baselines = Teams
    <3>1. /\ TeamsTaken /\ WholeStore(store) /\ WholeStore(visible) /\ todo = {}
          /\ visible' = [store EXCEPT !.alerts = Trim(store.alerts)]
      BY <1>3 DEF UpdateEnd, StoreInvariant, UpdateInvariant
    <3>2. visible' = [latest |-> store.latest, history |-> store.history,
                      baselines |-> store.baselines, alerts |-> Trim(store.alerts)]
      BY <3>1 DEF WholeStore
    <3> QED BY <3>1, <3>2 DEF TeamsTaken, WholeStore
  <2>2. UNCHANGED seen /\ mainPc' \notin {"history", "teams"}
    BY <1>3 DEF UpdateEnd
  <2> QED BY <2>1, <2>2 DEF SeenInvariant
<1>4. CASE Tick \/ Acquire \/ Dashboard
  <2>1. UNCHANGED <<seen, visible>> /\ mainPc' \notin {"history", "teams"}
    BY <1>4 DEF Tick, Acquire, Dashboard, ShowDashboard, EndDashboard, historyVars
  <2> QED BY <2>1 DEF SeenInvariant
<1>5. CASE (\E c \in Clients : Request(c) \/ Answered(c)) \/ UNCHANGED vars
  <2>1. UNCHANGED <<seen, visible, mainPc>>
    BY <1>5 DEF Request, Answered, vars, mainVars, historyVars
  <2> QED BY <2>1 DEF SeenInvariant
<1> QED BY <1>1, <1>2, <1>3, <1>4, <1>5 DEF Next, Update

-----------------------------------------------------------------------------
(* Types *)

(* The types that no other invariant states.                               *)
TypesLeft ==
    /\ mainPc \in {"idle", "lock", "latest", "history", "teams", "show", "showing"}
    /\ ticks \in 0..MaxTicks
    /\ lastSpike \in [Pods -> Nat]
    /\ window = NoKeys \/ window \in Windows
    /\ readers \subseteq Clients \cup {main}
    /\ blocked \subseteq Clients \ readers

(* The lock and the simulator keep their types.                            *)
LEMMA TypesLeftNext == TypesLeft /\ [Next]_vars => TypesLeft'
<1> SUFFICES ASSUME TypesLeft, [Next]_vars PROVE TypesLeft'
  OBVIOUS
<1> USE DEF TypesLeft
<1>1. CASE Tick
  <2>1. window' \in Windows
    BY <1>1 DEF Tick, Windows
  <2>2. lastSpike' \in [Pods -> Nat]
    BY <1>1 DEF Tick
  <2>3. ticks' \in 0..MaxTicks
    BY <1>1, MaxTicksAssumption DEF Tick
  <2> QED BY <1>1, <2>1, <2>2, <2>3 DEF Tick, lockVars
<1>2. CASE Acquire \/ UpdateLatest \/ UpdateHistory \/ \E t \in Teams : UpdateTeam(t)
  BY <1>2 DEF Acquire, UpdateLatest, UpdateHistory, UpdateTeam, lockVars
<1>3. CASE UpdateEnd
  BY <1>3 DEF UpdateEnd
<1>4. CASE ShowDashboard
  BY <1>4, ClientsAssumption DEF ShowDashboard, RLock, Writing
<1>5. CASE EndDashboard
  BY <1>5, ClientsAssumption DEF EndDashboard
<1>6. ASSUME NEW c \in Clients, Request(c) \/ Answered(c)
      PROVE  TypesLeft'
  BY <1>6 DEF Request, RLock, Answered, mainVars
<1>7. CASE UNCHANGED vars
  BY <1>7 DEF vars, mainVars, lockVars
<1> QED BY <1>1, <1>2, <1>3, <1>4, <1>5, <1>6, <1>7 DEF Next, Update, Dashboard

(* Together these are the types of the store.                              *)
LEMMA WholeStoresTyped ==
    ASSUME StoreInvariant, SeenInvariant, TypesLeft
    PROVE  TypeOK
<1>1. ASSUME NEW a \in Alarms PROVE a \in Alert
  <2>1. PICK t \in Teams, level \in {"critical", "warning"}, w \in Windows :
            a = [Team |-> t, Level |-> level, Cost |-> teamTotals(w)[t]]
    BY DEF Alarms
  <2> DEFINE cost == teamTotals(w)[t]
  <2>2. cost \in Nat
    BY TotalsType
  <2> HIDE DEF cost
  <2> QED BY <2>1, <2>2 DEF Alert, cost
<1>2. ASSUME NEW st, WholeStore(st), HistoryHolds(st), BaselinesHold(st),
             st.latest = NoKeys \/ st.latest \in Windows
      PROVE  IsStore(st)
  <2>1. IsMap(st.baselines, Teams, Nat)
    BY <1>2 DEF WholeStore, BaselinesHold, IsMap
  <2>2. \A i \in DOMAIN st.alerts : st.alerts[i] \in Alert
    BY <1>1, <1>2 DEF WholeStore
  <2> QED BY <1>2, <2>1, <2>2 DEF IsStore, HistoryHolds
<1>3. IsStore(store) /\ IsStore(visible)
  BY <1>2 DEF StoreInvariant, UpdateInvariant
<1>4. ~Writing => Len(store.alerts) <= AlertCap
  BY DEF StoreInvariant, UpdateInvariant, LockInvariant
<1> QED BY <1>3, <1>4 DEF TypesLeft, SeenInvariant, StoreInvariant, UpdateInvariant, TypeOK

StoreAndSeen == StoreInvariant /\ SeenInvariant

(* The invariant on which the results below rest.                          *)
LEMMA StoreAndSeenCorrect == Spec => []StoreAndSeen
<1>1. Init => StoreAndSeen
  BY StoreInit DEF Init, SeenInvariant, StoreAndSeen
<1>2. StoreAndSeen /\ [Next]_vars => StoreAndSeen'
  BY StoreNext, SeenNext DEF StoreAndSeen
<1> QED BY <1>1, <1>2, PTL DEF Spec

(* The store keeps its types and its caps, and the lock its holders.       *)
THEOREM TypeCorrect == Spec => []TypeOK
<1>1. Init => TypesLeft
  <2>1. \A p \in Pods : PodProfile[p].SpikeEvery + 1 \in Nat
    BY ProfileAssumption
  <2> QED BY <2>1, MaxTicksAssumption DEF Init, TypesLeft
<1>2. StoreAndSeen /\ TypesLeft => TypeOK
  BY WholeStoresTyped DEF StoreAndSeen
<1> QED BY <1>1, <1>2, TypesLeftNext, StoreAndSeenCorrect, PTL DEF Spec

-----------------------------------------------------------------------------
(* What readers are told *)

(* Whatever is asked, the cost of the window is the same, and it is the    *)
(* newest point of the history.                                            *)
THEOREM AnswersCorrect == Spec => []AnswersAgree
<1>1. StoreInvariant => AnswersAgree
  <2> SUFFICES ASSUME StoreInvariant, readers # {}, store.history # <<>>
               PROVE  AnswersAgree
    BY DEF AnswersAgree
  <2> DEFINE w == store.latest
             total == SumOf(w, "TotalCost", Pods)
             rows == byTeam(store)
  <2>1. store = visible
    BY DEF StoreInvariant, UpdateInvariant, LockInvariant
  <2>2. w \in Windows /\ Last(store.history) = HistoryPoint(w)
    BY <2>1 DEF StoreInvariant
  <2>3. DOMAIN w = Pods
    BY <2>2, WindowType
  <2>4. summary(store).total_cost = total /\ prometheus(store).cluster_cost_total = total
    BY <2>3 DEF summary, prometheus
  <2>5. HistoryPoint(w).Total = total /\ HistoryPoint(w).Teams = teamTotals(w)
    BY <2>3 DEF HistoryPoint
  <2>6. [t \in DOMAIN rows |-> rows[t].TotalCost] = teamTotals(w)
    <3>1. DOMAIN rows = Teams
      BY <2>3, TeamsAssumption DEF byTeam, Range
    <3>2. \A t \in Teams : PodsOfTeam(t) \cap DOMAIN w = PodsOfTeam(t)
      BY <2>3 DEF PodsOfTeam
    <3>3. \A t \in DOMAIN rows : rows[t].TotalCost = SumOf(w, "TotalCost", PodsOfTeam(t) \cap DOMAIN w)
      BY DEF byTeam
    <3>4. \A t \in Teams : rows[t].TotalCost = SumOf(w, "TotalCost", PodsOfTeam(t))
      BY <3>1, <3>2, <3>3
    <3> QED BY <3>1, <3>4 DEF teamTotals
  <2>7. total = SumFunction(teamTotals(w))
    BY <2>2, TotalsAddUp
  <2>8. waste(store).total_wasted <= summary(store).wasted_cost
    <3> DEFINE pods == {p \in DOMAIN w : w[p].CPUUtilPct < 20}
               f == Column(w, "WastedDollars")
    <3>1. /\ waste(store).total_wasted = SumOf(w, "WastedDollars", pods)
          /\ summary(store).wasted_cost = SumOf(w, "WastedDollars", Pods)
      BY <2>3 DEF waste, summary
    <3>2. pods \in SUBSET Pods
      BY <2>3
    <3> HIDE DEF w, pods
    <3>3. /\ SumOf(w, "WastedDollars", pods) = SumFunctionOnSet(f, pods)
          /\ SumOf(w, "WastedDollars", Pods) = SumFunctionOnSet(f, Pods)
          /\ \A p \in Pods : f[p] \in Nat
      BY <2>2, <3>2, ColumnSums
    <3> HIDE DEF f
    <3>4. SumFunctionOnSet(f, pods) <= SumFunctionOnSet(f, Pods)
      BY <3>2, <3>3, TeamsAssumption, SumPart
    <3> QED BY <3>1, <3>3, <3>4
  <2> HIDE DEF w, total, rows
  <2> QED BY <2>2, <2>4, <2>5, <2>6, <2>7, <2>8 DEF AnswersAgree, w, rows
<1> QED BY <1>1, StoreAndSeenCorrect, PTL DEF StoreAndSeen

(* A baseline between two bounds, moved towards a cost, stays between the  *)
(* lower of the low bound and the cost and the higher of the high one.     *)
LEMMA AverageBetween ==
    ASSUME NEW b \in Nat, NEW cost \in Nat, NEW low \in Nat, NEW high \in Nat,
           low <= b, b <= high
    PROVE  LET moved == (92 * b + 8 * cost) \div 100
           IN  /\ low <= moved \/ cost <= moved
               /\ moved <= high \/ moved <= cost
OBVIOUS

(* When Update comes to its end, what a team has had so far lies around    *)
(* its old baseline.                                                       *)
LEMMA OldBaselines ==
    ASSUME StoreInvariant, SeenInvariant, BaselinesWithinCosts, mainPc = "teams",
           NEW t \in DOMAIN visible.baselines
    PROVE  /\ visible.baselines[t] \in Nat /\ seen[t] \subseteq Nat /\ t \in Teams
           /\ \E low, high \in seen[t] : low <= visible.baselines[t] /\ visible.baselines[t] <= high
<1>1. t \in Teams
  BY DEF StoreInvariant, UpdateInvariant, WholeStore
<1>2. teamTotals(visible.latest)[t] \in seen[t]
  BY DEF SeenInvariant
<1>3. seen[t] \cup {teamTotals(visible.latest)[t]} = seen[t]
  BY <1>2
<1> QED BY <1>1, <1>3 DEF BaselinesWithinCosts, SeenInvariant, StoreInvariant, BaselinesHold

(* What the end of Update makes visible.                                   *)
LEMMA EndMakesVisible ==
    ASSUME StoreInvariant, UpdateEnd
    PROVE  /\ mainPc = "teams" /\ window \in Windows /\ UNCHANGED seen
           /\ store' = visible' /\ visible'.latest = window
           /\ DOMAIN visible'.baselines = Teams
           /\ \A t \in Teams : visible'.baselines[t] = Baseline(visible.baselines, window, t)
           /\ \A t \in Teams : \A a \in Raised(visible.baselines, window, t) :
                 \E i \in DOMAIN visible'.alerts : visible'.alerts[i] = a
<1>1. /\ mainPc = "teams" /\ todo = {} /\ UNCHANGED seen
      /\ store' = [store EXCEPT !.alerts = Trim(store.alerts)]
      /\ visible' = store'
      /\ window \in Windows /\ WholeStore(store) /\ WholeStore(visible)
      /\ Stored /\ TeamsTaken
  BY DEF UpdateEnd, UpdateInvariant, StoreInvariant
<1>2. store' = [latest |-> store.latest, history |-> store.history,
                baselines |-> store.baselines, alerts |-> Trim(store.alerts)]
  BY <1>1 DEF WholeStore
<1>3. DOMAIN store.baselines = Teams
  BY <1>1 DEF TeamsTaken, WholeStore
<1>4. \A t \in Teams : store.baselines[t] = Baseline(visible.baselines, window, t)
  BY <1>1 DEF TeamsTaken
<1>5. PICK new \in SetToSeqs(UNION {Raised(visible.baselines, window, t) : t \in Teams}) :
          store.alerts = visible.alerts \o new
  <2>1. Teams \ todo = Teams
    BY <1>1
  <2> QED BY <1>1, <2>1 DEF TeamsTaken, RaisedFor
<1>6. /\ new \in Seq(Alarms) /\ Len(new) <= AlertCap
      /\ \A t \in Teams : \A a \in Raised(visible.baselines, window, t) :
            \E k \in DOMAIN new : new[k] = a
  <2>1. \A b : new \in SetToSeqs(UNION {Raised(b, window, t) : t \in Teams})
              => /\ new \in Seq(Alarms) /\ Len(new) <= AlertCap
                 /\ \A t \in Teams : \A a \in Raised(b, window, t) :
                       \E k \in DOMAIN new : new[k] = a
    BY <1>1, AlertsFit
  <2> QED BY <1>5, <2>1
<1>7. \A k \in DOMAIN new : \E i \in DOMAIN Trim(store.alerts) : Trim(store.alerts)[i] = new[k]
  <2>1. visible.alerts \in Seq(Alarms)
    BY <1>1 DEF WholeStore
  <2>2. \A old \in Seq(Alarms) : \A k \in DOMAIN new :
            \E i \in DOMAIN Trim(old \o new) : Trim(old \o new)[i] = new[k]
    BY <1>6, TrimFacts
  <2> QED BY <1>5, <2>1, <2>2
<1>8. \A t \in Teams : \A a \in Raised(visible.baselines, window, t) :
          \E i \in DOMAIN visible'.alerts : visible'.alerts[i] = a
  <2>1. visible'.alerts = Trim(store.alerts)
    BY <1>1, <1>2
  <2> QED BY <1>6, <1>7, <2>1
<1> QED BY <1>1, <1>2, <1>3, <1>4, <1>8 DEF Stored

(* The end of Update moves a baseline towards the window's cost.           *)
LEMMA EndKeepsBaselines ==
    ASSUME StoreInvariant, SeenInvariant, BaselinesWithinCosts, UpdateEnd
    PROVE  BaselinesWithinCosts'
<1>1. /\ mainPc = "teams" /\ window \in Windows /\ UNCHANGED seen
      /\ visible'.latest = window /\ DOMAIN visible'.baselines = Teams
      /\ \A t \in Teams : visible'.baselines[t] = Baseline(visible.baselines, window, t)
  BY EndMakesVisible
<1>2. ASSUME NEW t \in Teams
      PROVE  \E low, high \in seen[t] \cup {teamTotals(window)[t]} :
                 low <= visible'.baselines[t] /\ visible'.baselines[t] <= high
  <2> DEFINE cost == teamTotals(window)[t]
             b == visible.baselines[t]
  <2>1. cost \in Nat
    BY <1>1, TotalsType
  <2>2. CASE t \notin DOMAIN visible.baselines
    <3>1. visible'.baselines[t] = cost
      BY <1>1, <2>2 DEF Baseline
    <3> QED BY <2>1, <3>1
  <2>3. CASE t \in DOMAIN visible.baselines
    <3>1. b \in Nat /\ seen[t] \subseteq Nat
      BY <1>1, <2>3, OldBaselines
    <3>2. PICK low, high \in seen[t] : low <= b /\ b <= high
      BY <1>1, <2>3, OldBaselines
    <3>3. visible'.baselines[t] = (92 * b + 8 * cost) \div 100
      BY <1>1, <2>3 DEF Baseline
    <3> DEFINE moved == visible'.baselines[t]
    <3> HIDE DEF b, cost
    <3>4. /\ low <= moved \/ cost <= moved
          /\ moved <= high \/ moved <= cost
      BY <2>1, <3>1, <3>2, <3>3, AverageBetween
    <3> HIDE DEF moved
    <3>5. \E l, h \in seen[t] \cup {cost} : l <= moved /\ moved <= h
      BY <3>4
    <3> QED BY <3>5 DEF moved, cost
  <2> QED BY <2>2, <2>3
<1> QED BY <1>1, <1>2 DEF BaselinesWithinCosts

(* seen only grows.                                                        *)
LEMMA SeenGrows ==
    ASSUME SeenInvariant, [Next]_vars, NEW t \in Teams
    PROVE  seen[t] \subseteq seen'[t]
<1>1. \/ UNCHANGED seen
      \/ seen' = [x \in Teams |-> seen[x] \cup {teamTotals(store.latest)[x]}]
  BY DEF Next, Tick, Update, Acquire, UpdateLatest, UpdateHistory, UpdateTeam, UpdateEnd, Dashboard,
         ShowDashboard, EndDashboard, Request, Answered, vars, historyVars
<1> QED BY <1>1

(* No other step moves a baseline.                                         *)
LEMMA BaselinesNext ==
    StoreAndSeen /\ BaselinesWithinCosts /\ [Next]_vars => BaselinesWithinCosts'
<1> SUFFICES ASSUME StoreAndSeen, BaselinesWithinCosts, [Next]_vars
             PROVE  BaselinesWithinCosts'
  OBVIOUS
<1>1. CASE UpdateEnd
  BY <1>1, EndKeepsBaselines DEF StoreAndSeen
<1>2. CASE UNCHANGED visible
  <2>1. \A t \in DOMAIN visible.baselines : t \in Teams
    BY DEF StoreAndSeen, StoreInvariant, UpdateInvariant, WholeStore
  <2>2. \A t \in DOMAIN visible.baselines : seen[t] \subseteq seen'[t]
    BY <2>1, SeenGrows DEF StoreAndSeen
  <2>3. \A t \in Teams : teamTotals(visible.latest)[t] = teamTotals(visible'.latest)[t]
    BY <1>2
  <2> QED BY <1>2, <2>1, <2>2, <2>3 DEF BaselinesWithinCosts
<1> QED BY <1>1, <1>2, OthersStutter

BaselinesAndSeen == StoreAndSeen /\ BaselinesWithinCosts

(* The invariant with the bounds of the baselines.                         *)
LEMMA BaselinesAndSeenCorrect == Spec => []BaselinesAndSeen
<1>1. Init => BaselinesWithinCosts
  BY DEF Init, NewStore, NoKeys, BaselinesWithinCosts
<1>2. StoreAndSeen /\ BaselinesWithinCosts /\ [Next]_vars => BaselinesWithinCosts'
  BY BaselinesNext
<1> QED BY <1>1, <1>2, StoreAndSeenCorrect, PTL DEF Spec, BaselinesAndSeen

(* No sequence of windows moves a team's average out of what it has had.   *)
THEOREM BaselinesCorrect == Spec => []BaselinesWithinCosts
BY BaselinesAndSeenCorrect, PTL DEF BaselinesAndSeen

-----------------------------------------------------------------------------
(* Alerts *)

(* Judged by a baseline within what the team has had, such a cost is       *)
(* critical, and the alert is not trimmed away.                            *)
LEMMA EndAlerts ==
    ASSUME StoreInvariant, SeenInvariant, BaselinesWithinCosts, UpdateEnd
    PROVE  SpikesAlerted'
<1>1. /\ mainPc = "teams" /\ window \in Windows /\ UNCHANGED seen
      /\ store' = visible' /\ visible'.latest = window
      /\ DOMAIN visible'.baselines = Teams
      /\ \A t \in Teams : \A a \in Raised(visible.baselines, window, t) :
            \E i \in DOMAIN visible'.alerts : visible'.alerts[i] = a
  BY EndMakesVisible
<1>2. ASSUME NEW t \in Teams, seen[t] # {},
             \A s \in seen[t] : s > 0 /\ 2 * teamTotals(window)[t] > 5 * s
      PROVE  \E i \in DOMAIN visible'.alerts :
                 visible'.alerts[i] = [Team |-> t, Level |-> "critical", Cost |-> teamTotals(window)[t]]
  <2> DEFINE cost == teamTotals(window)[t]
             b == visible.baselines[t]
  <2>1. cost \in Nat
    BY <1>1, TotalsType
  <2>2. t \in DOMAIN visible.baselines
    BY <1>2 DEF SeenInvariant
  <2>3. b \in Nat /\ seen[t] \subseteq Nat
    BY <1>1, <2>2, OldBaselines
  <2>4. PICK low, high \in seen[t] : low <= b /\ b <= high
    BY <1>1, <2>2, OldBaselines
  <2>5. b > 0 /\ 2 * cost > 5 * b
    <3>1. low > 0 /\ 2 * cost > 5 * high /\ low \in Nat /\ high \in Nat
      BY <1>2, <2>3
    <3> HIDE DEF b, cost
    <3> QED BY <2>1, <2>3, <2>4, <3>1
  <2>6. Lookup(visible.baselines, t, 0) = b
    BY <2>2 DEF Lookup
  <2>7. [Team |-> t, Level |-> "critical", Cost |-> cost] \in Raised(visible.baselines, window, t)
    BY <2>5, <2>6 DEF Raised, Levels
  <2> QED BY <1>1, <2>7
<1> QED BY <1>1, <1>2 DEF SpikesAlerted

(* Only the end of Update shows other alerts or another window.            *)
LEMMA AlertsNext ==
    BaselinesAndSeen /\ SpikesAlerted /\ [Next]_vars => SpikesAlerted'
<1> SUFFICES ASSUME BaselinesAndSeen, SpikesAlerted, [Next]_vars
             PROVE  SpikesAlerted'
  OBVIOUS
<1>1. CASE UpdateEnd
  BY <1>1, EndAlerts DEF BaselinesAndSeen, StoreAndSeen
<1>2. CASE Acquire \/ UpdateLatest \/ UpdateHistory \/ \E t \in Teams : UpdateTeam(t)
  BY <1>2 DEF Acquire, UpdateLatest, UpdateHistory, UpdateTeam, Writing, SpikesAlerted
<1>3. CASE Tick \/ Dashboard \/ (\E c \in Clients : Request(c) \/ Answered(c)) \/ UNCHANGED vars
  <2>1. UNCHANGED <<store, seen>> /\ (~Writing' => ~Writing)
    BY <1>3 DEF Tick, Dashboard, ShowDashboard, EndDashboard, Request, Answered, vars, mainVars,
                historyVars, Writing
  <2>2. teamTotals(store.latest)' = teamTotals(store.latest)
    BY <2>1 DEF teamTotals, SumOf, PodsOfTeam
  <2> QED BY <2>1, <2>2 DEF SpikesAlerted
<1> QED BY <1>1, <1>2, <1>3 DEF Next, Update

(* A total far above whatever the team had before is a critical alert that *)
(* readers find.                                                           *)
THEOREM SpikesCorrect == Spec => []SpikesAlerted
<1>1. Init => SpikesAlerted
  BY DEF Init, NewStore, NoKeys, SpikesAlerted
<1>2. BaselinesAndSeen /\ SpikesAlerted /\ [Next]_vars => SpikesAlerted'
  BY AlertsNext
<1> QED BY <1>1, <1>2, BaselinesAndSeenCorrect, PTL DEF Spec
=============================================================================
