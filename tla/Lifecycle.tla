----------------------------- MODULE Lifecycle -----------------------------
(***************************************************************************)
(* The life of the agent's process (cmd/koprobe/main.go): the steps of     *)
(* main, what each starts, a signal, and the kubelet that restarts the     *)
(* container (external).                                                   *)
(*                                                                         *)
(* main goes through Steps in order.  log.Fatal ends the process without   *)
(* running anything deferred.  ListenAndServe returns an error that is     *)
(* dropped when its port is taken.  The Start methods of the collectors    *)
(* only make the Manager's pointers, and their Stop methods do nothing.    *)
(***************************************************************************)
EXTENDS Integers, Sequences, FiniteSets

CONSTANTS
    Configs,      \* bound: the configurations, of which one is used
    MaxStarts     \* bound: how often the process is started

Kinds == {"cpu", "network", "disk", "memory"}
Servers == {"prometheus", "api"}
Goroutines == Servers \cup {"aggregator", "digest", "anomalies"}

Config == [Root : BOOLEAN, DryRun : BOOLEAN, Collect : SUBSET Kinds, SlackWebhook : BOOLEAN]

ASSUME ConfigsAssumption == Configs \subseteq Config
ASSUME MaxStartsAssumption == MaxStarts \in Nat \ {0}

Steps == <<"root", "enricher", "pricing", "cpu", "network", "disk", "memory",
           "aggregator", "prometheus", "api", "slack">>

VARIABLES
    cfg,          \* the flags, and whether the user is root
    step,         \* the step of Steps main is at; beyond it waits for the signal
    status,       \* of the process: "up", or how it ended
    starts,       \* how often it was started
    signalled,    \* a signal has come since NotifyContext
    cancelled,    \* ctx is done
    started,      \* the collectors of the Manager that are not nil
    running,      \* goroutines
    listening,    \* servers that accept connections
    closed        \* servers whose Close was called

lifeVars == <<cfg, step, status, starts, signalled, cancelled, started,
              running, listening, closed>>

LifeTypeOK ==
    /\ cfg \in Configs
    /\ step \in 1..Len(Steps) + 1
    /\ status \in {"up", "fatal", "stopped", "killed"}
    /\ starts \in 1..MaxStarts
    /\ signalled \in BOOLEAN /\ cancelled \in BOOLEAN
    /\ started \subseteq cfg.Collect
    /\ running \subseteq Goroutines
    /\ listening \subseteq Servers \cap running
    /\ closed \subseteq Servers

NewProcess ==
    /\ step' = 1 /\ status' = "up" /\ signalled' = FALSE /\ cancelled' = FALSE
    /\ started' = {} /\ running' = {} /\ listening' = {} /\ closed' = {}

LifeInit ==
    /\ cfg \in Configs
    /\ step = 1 /\ status = "up" /\ starts = 1 /\ signalled = FALSE /\ cancelled = FALSE
    /\ started = {} /\ running = {} /\ listening = {} /\ closed = {}

At(name) == status = "up" /\ step <= Len(Steps) /\ Steps[step] = name

(* The process ends: its goroutines and sockets go with it.                *)
Ends(how) == status' = how /\ running' = {} /\ listening' = {} /\ closed' = {}

Fatal == Ends("fatal") /\ UNCHANGED <<cfg, step, starts, signalled, cancelled, started>>

-----------------------------------------------------------------------------
(* The check of the user, the connection to Kubernetes with its first      *)
(* sync, the prices: each may end the process.  pricing.New has no error.  *)
Prepare ==
    /\ \/ At("root") /\ cfg.Root
       \/ At("enricher")
       \/ At("pricing")
    /\ step' = step + 1
    /\ UNCHANGED <<cfg, status, starts, signalled, cancelled, started, running, listening, closed>>

PrepareFails ==
    /\ \/ At("root") /\ ~cfg.Root
       \/ At("enricher")
    /\ Fatal

(* collectors.StartCPU and the others, each unless its flag is off; DryRun *)
(* is not read.                                                            *)
StartCollector(kind) ==
    /\ At(kind)
    /\ step' = step + 1
    /\ started' = started \cup ({kind} \cap cfg.Collect)
    /\ UNCHANGED <<cfg, status, starts, signalled, cancelled, running, listening, closed>>

(* A collector's Start returns an error (external: the code that is there  *)
(* returns none; main ends the process at one).                            *)
CollectorFails(kind) ==
    /\ At(kind)
    /\ kind \in cfg.Collect
    /\ started' = started \cup {kind}
    /\ Ends("fatal")
    /\ UNCHANGED <<cfg, step, starts, signalled, cancelled>>

Go(goroutines) ==
    /\ step' = step + 1
    /\ running' = running \cup goroutines
    /\ UNCHANGED <<cfg, status, starts, signalled, cancelled, started, listening, closed>>

(* go agg.Run, go promExporter.Start, go apiServer.Start, and the two      *)
(* goroutines for Slack if there is a webhook.                             *)
StartGoroutines ==
    \/ \E name \in {"aggregator", "prometheus", "api"} : At(name) /\ Go({name})
    \/ At("slack") /\ Go(IF cfg.SlackWebhook THEN {"digest", "anomalies"} ELSE {})

-----------------------------------------------------------------------------
(* A server's ListenAndServe: it serves, or returns since the port is      *)
(* taken or since Close came first; then its goroutine is over.            *)
Listen(server) ==
    /\ server \in running \ listening
    /\ server \notin closed
    /\ listening' = listening \cup {server}
    /\ UNCHANGED <<cfg, step, status, starts, signalled, cancelled, started, running, closed>>

Return(server) ==
    /\ server \in running \ listening
    /\ running' = running \ {server}
    /\ UNCHANGED <<cfg, step, status, starts, signalled, cancelled, started, listening, closed>>

(* The goroutine that waits for ctx in a server's Start closes it.         *)
Close(server) ==
    /\ cancelled /\ status = "up"
    /\ \E i \in DOMAIN Steps : Steps[i] = server /\ step > i
    /\ server \notin closed
    /\ closed' = closed \cup {server}
    /\ listening' = listening \ {server}
    /\ UNCHANGED <<cfg, step, status, starts, signalled, cancelled, started, running>>

(* The loops that select on ctx.Done().                                    *)
LoopEnds(name) ==
    /\ cancelled
    /\ name \in running \ Servers
    /\ running' = running \ {name}
    /\ UNCHANGED <<cfg, step, status, starts, signalled, cancelled, started, listening, closed>>

(* Mutant: a signal that comes before main waits for it is lost.           *)
SignalAtTheEnd ==
    /\ status = "up" /\ step > 1 /\ ~signalled
    /\ signalled' = TRUE
    /\ cancelled' = (step > Len(Steps))
    /\ UNCHANGED <<cfg, step, status, starts, started, running, listening, closed>>

(* SIGINT or SIGTERM after NotifyContext: noted, whatever main is doing.   *)
Signal ==
    /\ status = "up" /\ step > 1 /\ ~signalled
    /\ signalled' = TRUE
    /\ cancelled' = TRUE
    /\ UNCHANGED <<cfg, step, status, starts, started, running, listening, closed>>

(* <-ctx.Done(), then the Stop of every collector that is not nil, which   *)
(* does nothing, then main returns, waiting for nobody.                    *)
Shutdown ==
    /\ status = "up" /\ step > Len(Steps) /\ cancelled
    /\ Ends("stopped")
    /\ UNCHANGED <<cfg, step, starts, signalled, cancelled, started>>

-----------------------------------------------------------------------------
(* External: the process is killed, for its memory, at the end of the      *)
(* grace period, or since /healthz of the metrics server does not answer.  *)
Kill ==
    /\ status = "up"
    /\ Ends("killed")
    /\ UNCHANGED <<cfg, step, starts, signalled, cancelled, started>>

(* The kubelet starts the container of a DaemonSet again.                  *)
Restart ==
    /\ status # "up"
    /\ starts < MaxStarts
    /\ starts' = starts + 1
    /\ NewProcess
    /\ UNCHANGED cfg
=============================================================================
