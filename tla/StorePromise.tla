---------------------------- MODULE StorePromise ----------------------------
(***************************************************************************)
(* What the store of the local agent promises its readers: a window is     *)
(* stored in one step, with its history point, the new baseline of every   *)
(* team, and the alerts it raises, at most one a team, in some order.      *)
(***************************************************************************)
EXTENDS LocalCosts

VARIABLE store

Init == store = NewStore

(* All the alerts a window raises over the baselines so far.               *)
NewAlerts(baselines, window) == UNION {Raised(baselines, window, t) : t \in Teams}

Store(window) ==
    \E new \in SetToSeqs(NewAlerts(store.baselines, window)) :
        store' = [latest |-> window,
                  history |-> AddPoint(store.history, HistoryPoint(window)),
                  baselines |-> [t \in Teams |-> Baseline(store.baselines, window, t)],
                  alerts |-> Trim(store.alerts \o new)]

Next == \E window \in Windows : Store(window)

Spec == Init /\ [][Next]_store
=============================================================================
