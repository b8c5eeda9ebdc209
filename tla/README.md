# Koprobe, specified

TLA+ modules, TLC configurations and TLAPS proofs for Koprobe: an agent that
measures what the containers of a Kubernetes node use, prices it and attributes
the cost to pods and teams. Everything here is about the code under `src/`;
paths and line numbers refer to it.

## 1. Inventory

| Component | Source | State | Operations |
|---|---|---|---|
| CPU probe | `bpf/cpu_cycles.c` | a hash map cgroup -> cycles, a ring buffer | one program per perf sample, on any CPU |
| Network probe | `bpf/network_bytes.c` | a hash map cgroup -> traffic, the subnet table | egress and ingress programs, on any CPU |
| Disk probe | `bpf/disk_io.c` | a hash map of requests in flight, one of totals | issue and completion tracepoints, on any CPU |
| Collector manager | `internal/collector/manager.go` | cgroup -> raw metrics | UpdateCPU, UpdateNetwork, UpdateDisk, Snapshot, Start*, Stop (stubs) |
| Enricher | `internal/enricher/k8s.go` | cgroup -> pod, container -> pod | New, StartSync, syncPods, Resolve |
| Pricer | `internal/pricing/engine.go` | the cached price table | New, Get, refresh |
| Aggregator | `internal/aggregator/aggregator.go` | podCosts, history | Run, collect, LatestSnapshot, History, WasteReport |
| REST API, Prometheus | `internal/exporter/api.go`, `prometheus.go` | none | one handler per endpoint |
| Slack exporter | `internal/exporter/slack.go` | a cost baseline per team, two tickers | weekly digest, anomaly check with its posts |
| Agent | `cmd/koprobe/main.go` (`cmd/main.go` is a copy) | what was started, the signal's context | start-up, wiring, shutdown |
| Local agent | `cmd/local/main.go` | the simulator's pods; a store of metrics, history, baselines, alerts | Tick, Update, HTTP handlers, dashboard |
| Deployment | `Makefile`, `deploy/` | none | none (section 7) |

How they interact. The probes write kernel maps; read loops, which are not in
the repository, are to call the manager's `Update*`. Every 15 seconds the
aggregator's goroutine runs `collect()`: it takes a price table from the pricer
(which may start a refresh in another goroutine), a copy of all counters from
the manager, asks the enricher for the pod of one cgroup after the other, and
publishes a snapshot and the map of records under its lock. The enricher's maps
are replaced by `syncPods`, meant to run every 30 seconds in a goroutine. HTTP
handlers and the Slack goroutines read what was published. All sharing is by
maps under one `RWMutex` per component; no lock is held while another
component is called, so nothing waits for anything but the network.

The Slack exporter reads the aggregator from two goroutines with tickers of
their own, an hour and five minutes. `main` starts everything in order and
waits for a signal; then it calls the stubs that are to stop the collectors and
returns, waiting for no goroutine, and the kubelet may start the container
again. The local agent is a program of its own: one goroutine simulates and
stores a window every 15 seconds, under a lock, and each HTTP request reads the
store under that lock.

What is hard. `collect()` is not atomic: the sync, the collectors and the
refreshes run between its steps. Refreshes overlap and store in any order.
A sync looks at a cluster that changes while it looks. The history works at its
cap for ever. In the kernel, several CPUs update one map entry, and creation is
lookup, insert, lookup. Windows, the history's cap, the endpoint's hours and
the two checks of the Slack exporter each go by a clock of their own, and a
ticker drops what its reader is late for; the spike check is late by the alerts
it posts. The digest must come once a week from
processes that are killed and started again. A signal can come at any step of
`main`. A local handler writes to its client with the lock in its hands.

What makes each component correct:

- Collector manager: `Snapshot` is one instant of all counters.
- Enricher: a cgroup is only ever tied to its own container's pod; running
  containers become known if their ids are found, stopped ones are forgotten.
- Pricer: few refreshes at once, a bounded age of what is served, no return to
  older tables, recovery after failures.
- Aggregator: every record prices one instant under one table; no container
  known throughout is missed; the copies that are published agree; the history
  only slides.
- Exporters: one total, whichever endpoint is asked.
- Probes: every event is charged once, to the cgroup that caused it.
- Slack: one digest a week; an alert for every spike, none for ever; a baseline
  that follows what was seen and takes no window in twice.
- Agent: a signal ends it whatever it is doing.
- Local agent: readers see whole windows, all endpoints agree, no reader and no
  writer waits for ever.

`PROJECT.json` lists every hazard found while reading, at its line, and the
properties that are about it. One has no property: a server whose port is taken
is modelled, but nothing in the code reacts to it.

## 2. Modules

| Module | Models |
|---|---|
| `PartialMaps` | Go maps: functions on the keys present |
| `Collector` | `Manager` and its metrics map |
| `Enricher` | the containers of the cluster (external), `syncPods` step by step, `Resolve` |
| `Costs` | the data of a bill: the record of a pod, the totals of a snapshot, the history |
| `Aggregator` | `collect()` step by step, the published state and its readers |
| `Exporter` | what the REST handlers and the Prometheus page compute |
| `Pipeline` | all of them as concurrent processes, and their properties |
| `CostLedger` | abstract: a ledger that takes a cut of the usage and bills it in one step |
| `PipelineClaims` | what documents and comments say of a bill, as properties |
| `MCPipeline`, `MCPipelineClaims` | instances for TLC |
| `Pricer` | the price cache and its refreshes, in time |
| `BpfHash` | the kernel's hash map (external): elements, replacement, reuse |
| `NetworkBytes`, `DiskIO`, `CpuCycles` | the probes, one access of a map per action, on every CPU |
| `MCNetworkBytes`, `MCDiskIO`, `MCCpuCycles` | instances for TLC |
| `CostWindows` | the windows in time: `Run`'s ticker, the history, `History`, the spike check and its posts |
| `Lifecycle` | the agent's process: `main` step by step, its goroutines, signals, restarts |
| `Digest` | that process around a Monday 9:00, with the goroutine of the weekly digest |
| `LocalCosts` | the data of the local agent: simulated windows, totals, baselines, alerts, endpoints |
| `StorePromise` | abstract: a store that takes a whole window in one step |
| `LocalStore` | the local agent: the simulator, `Update` step by step, the lock, requests, the dashboard |
| `MCCostWindows`, `MCDigest`, `MCLocalStore` | instances for TLC |
| `PartialMapsProofs` | lemmas on partial maps, on the probes' maps and on sums, which the other proofs share |
| `PipelineProofs`, `CostWindowsProofs`, `LocalStoreProofs`, `NetworkBytesProofs`, `DiskIOProofs`, `CpuCyclesProofs` | theorems and proofs about the module each is named after |
| `TimerProofs` | theorems and proofs about `Pricer` and `Digest`, the two components that timers drive |

`Collector`, `Enricher` and `Aggregator` extend one another, and each declares
its own variables; an action of a component says what becomes of that
component's variables only. `Pipeline` makes them steps of the whole by adding
the UNCHANGED of the others.

### Collector

`metrics` is `m.metrics`. Each `Update*` holds the lock from start to end and is
one action: it creates the entry at zero if it is new, then adds. Each method's
counters are one field (`CPUCycles`, `NetworkBytes`, `DiskIOPS`), because they
are added to together. `MemoryBytesAvg` and `CPURequestedMillis` are kept: the
aggregator reads them, and that nobody writes them is a fact of the code.

### Enricher

A container is named by its cgroup id (`bpf/cpu_cycles.c:5`: "maps 1:1"); a pod
stands for its `PodInfo`. `phase` says whether a container waits to start, runs
or is dead; it starts and stops once, a restart being another container of the
pod. `syncPods` is `SyncTick`, `SyncList` or `SyncListFails`, one `SyncResolve`
per listed container, `SyncSwap`. A container without an id is not listed
(k8s.go:114-117). `resolveCgroupID` says what the walk of the cgroup tree may
come to: nothing for a container that is gone; an id for one that runs, unless
it is in `MayMiss`, where the root of the tree or the container's cgroup.id may
be missing, unreadable or hold no number above 0 (k8s.go:155-177), now or always.
A container without an id is skipped (k8s.go:132). `containerToPod` is written
and never read, and left out. `New` completes a sync before anything else
starts, so `EnricherInit` knows the running containers whose ids were found.
`SyncLoop` says whether `StartSync` runs; `main` does not start it.

### Aggregator and Exporter

`collect()` is `CollectStart` (prices), `CollectRead` (the copy), one
`CollectPod` per cgroup in any order (Go's map order), `CollectPublish` (the two
assignments and the trim, under the lock). `raw`, `pending`, `newCosts` and
`collectPrices` are its locals. `CostOf` (in `Costs`) keeps the formula with integer money:
the fixed 15 s window is in the units, and waste is in hundredths. Readers are
operators on the published state, since each is one critical section; `Costs`
holds the formulas, which `CostLedger` shares; the handlers of `Exporter` are operators on what a reader returned.

### Pipeline

Composes the processes: reports (external: the read loops), the cluster
(external), the sync goroutine, the refreshes (external here: any table may be
stored at any time), the aggregator's goroutine. `steady` is a history variable:
the containers that every cgroup map has held since the copy was taken.

`KeepsLedger` says that `Pipeline` implements `CostLedger`, with `usage` the
counters, `known` the keys of the enricher's map, `table` the pricer's, `cut` the
copy, `bill` the published records and `stage` the loop's position. Hidden are
the loop's turns and its map, the sync's progress and the cluster. A ledger has
no loop: `Bill` picks the pods that pay, each for one of its own containers, all
those with a container known since the cut among them. It thus joins what
`LatestBillsOneCut` and `SteadyPodsBilled` say of states to what may happen when,
and says that both published copies change together.

### Pricer

Time in ticks of the 15 s ticker, whose handler is the only caller of `Get`.
Only ages are kept, with `MaxAge` standing for that age or more. The history
variable `failed` says whether a fetch has failed since the last store. A refresh is a
goroutine that fetches, stamps its table (`Answer`) or fails (`Fail`), and
stores it (`Store`). A fetch is over by the client's timeout of 30 s (two
ticks, engine.go:53); the time from the stamp to the store, a few instructions
and a lock, is bounded by the constant `StoreDelay`. `Tick` waits for the `Get`
of the tick before: `collect()` takes less than 15 s.

### BpfHash and the probes

A probe's program runs to completion on its CPU; `cpu[c]` is its program counter
and its locals. Each access of a map (lookup, update, delete, one atomic
addition) is one action, since other CPUs run between any two; the two additions
of bytes and packets, always equal here, are one. `BpfHash` keeps keys and
elements apart, because a lookup returns a pointer to an element, which stays
usable when the key is replaced or deleted: replacing a key takes the CPU's
extra element and leaves the old one there, to be used by that CPU's next
replacement; a deleted element can be taken by any insertion. This is how the
preallocated hash map of the kernel works, and what the programs can rely on.

- `NetworkBytes`: `Packet` (lookup), `Update` and `Lookup2` (creation), `Count`,
  `Categorize` (egress only). A packet has length 1. `Private` and `OtherZone`
  stand for the address ranges; nothing in `src/` fills `az_subnets`, so the
  agent as it is has `OtherZone = {}`, and the runs take a table that is filled.
  History variables: `seen` (packets per cgroup), `sure` (those counted through
  an entry that nobody was about to insert over), `replaced`.
- `DiskIO`: `Issue`; `Complete` (lookup), `ReadRequest`, `DeleteRequest`, then
  the creation and addition as above. The value of an in-flight entry is the
  request that made it. `CgroupOf` is the cgroup current at the issue, which for
  delayed writes is a kernel thread's. Requests of one sector can be out
  together, as those of two disks can; the history variable `shared` says
  whether they were. `lost` are the requests a full map had no room for.
- `CpuCycles`: `Sample` (lookup), `AddCycles`, `AddClock` or `Insert`, `Event`.
  Whether an event is sent depends on the clock and the ring: either.

The programs of the probes do not interrupt one another on a CPU: the kernel skips a nested
tracing program, and such skipped events are not modelled.

### CostWindows

Time is in steps of a clock, of which `Period` are 15 seconds, and every time
kept is an age. `Clock` moves it; it fires the two tickers, whose channels hold
one tick (`ticked`, `checkDue`), so that a tick is dropped if the one before is
still there. `CollectBegins` takes a tick and notes the time; `CollectEnds`
publishes, up to `MaxLag` steps later, a snapshot with the costs of that window:
any teams at any costs. What a window costs is decided here and not computed,
as `Pipeline` does that. The history is trimmed by count (`Slide`), and
`handleHistory` selects by time (`After(cutoff)`, strictly). `CheckAnomalies` is
what `checkAnomalies` makes of a snapshot: alerts for the teams above twice a
positive baseline, the moving average for all, in whole units as large as the
costs allow. Its posts follow, one `PostAlert` per alert, each up to `MaxPost`
steps later (slack.go:29, the client's 10 s); baselines are the goroutine's own,
so whether one is averaged before or after a post cannot be seen. While the loop
posts, its ticker goes on: one tick waits in `checkDue`, others are dropped, and
the one that waits starts the next check as soon as the last post is over.
History variables: `taken` (the ages of all snapshots younger than a day,
whatever became of them), `lastCheck` with what each team was seen to cost
before and how many alerts the check before it had (`before`), `repeats`.

### Lifecycle and Digest

`step` is where `main` is in `Steps`; each step either goes on or ends the
process with `log.Fatal`, which runs no `defer` and no `Stop`. The Start methods
of the collectors attach nothing and their Stop methods are empty
(manager.go:149-190), so `StartCollector` only notes that the Manager has made
the collector. (None returns an error as yet; that one may is external.)
The servers listen (`Listen`) or return with an error nobody reads (`Return`);
`Close` is the goroutine of each `Start` that waits for the context. A signal is
noted from `NotifyContext` on, which is after the check of the user; before it,
a signal just kills. `Shutdown` is what follows `<-ctx.Done()`: the empty
`Stop`s, and the return that ends the goroutines wherever they are. `Kill` and
`Restart` are the kubelet's.

`Digest` adds a clock with `PerHour` steps an hour, and the goroutine of
`StartWeeklyDigest`: its ticker is made when the goroutine starts, so each
process has its own phase. `DigestTick` takes a tick and, in the digest's hour,
makes the message; `DigestPost` posts it (a post that fails is not repeated, so
it counts as an attempt). What the message says of costs is left out (see the
divergences). `Clock` does not run ahead of what takes seconds: main's steps,
except the first sync with the cluster, a listen, a tick, a post.

### LocalCosts, StorePromise, LocalStore

`generate` keeps the arithmetic of a pod's intensities, in hundredths, with the
spike's multiplier and the clamp; the wave is a number added for all pods, and
the random noise is left out. `Update` is `Acquire`, `UpdateLatest`,
`UpdateHistory`, one `UpdateTeam` per team in any order (Go's map order), and
`UpdateEnd`, which trims the alerts and unlocks. The lock is Go's `RWMutex`
(external): a waiting writer keeps new readers out, and `Unlock` lets in those
that waited. A handler computes and writes under the read lock, so a request is
`Request` (the lock is asked for) and `Answered` (the client has read all, or is
gone); what it answers is an operator on the store, since nothing can change it
meanwhile, which is what `ReadersSeeWhole` checks. The dashboard is a reader on
the writer's own goroutine. `visible` is a history variable: the store at the
last unlock. Under `store <- visible`, `LocalStore` implements `StorePromise`,
in which a window comes with its point, baselines and alerts in one step.

## 3. Runs

| Run | Instance | Shows |
|---|---|---|
| `pipeline_safety` | 2 containers of one pod, counters to 2, 2 price tables, history of 2, sync on | types; pods known throughout are billed; each record prices one instant of one container under one table; the history only slides; `CostLedger` is implemented |
| `pipeline_liveness` | 2 pods that use CPU and network, a system cgroup that uses disk, sync on, fair | endpoints agree; usage of a container whose id is found from some time on is billed at some point; stopped pods are forgotten for good |
| `pricer` | hour of 3 ticks, timeout 2, delay 1, failing API, fair | refreshes bounded; FetchedAt barely regresses; no table much older than an hour is served unless a fetch failed; a stale table is replaced |
| `network` | 3 CPUs, 3 cgroups and cgroup 0, room for 2, 2 destinations, 4 packets | types; packets on settled entries stay counted; replacements are fewer than CPUs; categories stay within egress |
| `disk` | 3 CPUs, 4 requests of 3 cgroups, 2 sectors, room for 1 request and 2 cgroups | types; every operation is charged once, to its issuer; in-flight entries all go |
| `cpu` | 3 CPUs, 3 cgroups, room for 2, 3 samples each | counters exact, in step, and not behind the events |
| `windows` | a window every 2 steps, taking up to 1, history of 3, a check every 11, posts of up to 7; two teams at 200 or 600, 3 changes, 9 checks | the history has every window asked for; alerts match what was seen, and subside; a window is checked twice only after posts that filled the time between ticks |
| `agent` | Monday 8:00 to Tuesday 10:30 in half hours, 2 processes, 2 collectors of 4 and Slack, or a dry run without root; fair | the digest is posted once, by who was up; a signal ends the process |
| `local` | 3 pods of 2 teams, 4 windows with spikes and a trough, caps of 2, 2 clients and the dashboard, fair | types and caps; readers see whole windows; endpoints agree; baselines stay within what was seen; spikes are alerted; `StorePromise` is implemented; requests and `Update` get the lock |

Violations, each of one property stating what the repository says (section 4):
`pipeline_nosync`, `claim_complete`, `claim_window`.

Bounds, and why they are enough. Two containers in a pod are the least at which
one record can replace another, and at which a loop that stops early misses one;
a counter that can change once after the copy tells the copy from the live
value, so counters to 2 do (1 before the copy, 1 after). The two containers are alike (one
pod, both report CPU only), so they may be exchanged: `Alike` is the symmetry
of `pipeline_safety`, whose properties are safety properties. In the passing runs
of `Pipeline`, some containers may be missed by a sync while they run (`MayMiss`),
one of each kind in `pipeline_liveness`. One
price table cannot tell a mixture; two can. A history of two is
the least at which the wrong end can be trimmed. The system cgroup exercises the
cgroup that is no pod's. An hour of three ticks is longer than timeout and delay
together need to be short of it, so that a refresh can end well before the next
table is stale, and five refresher identities are one more than the bound that
is checked. The theorems of section 5 hold for all values. For the
probes, two CPUs are the least that race to create an entry, and three the least
at which a replaced element is in use again while somebody holds a pointer to
it (one holds it, one makes the replacements, one creates the second entry);
room for fewer keys than cgroups makes a full map. With three CPUs, dropping the
premise "at most one cgroup replaced" makes `CategoriesWithinEgress` and
`CountersAgree` fail on these instances, and `IssuersCharged` on one with two
requests for each of two cgroups, so the premise is not idle. The
probes' runs end when their packets, requests or samples are used up, so these
do not check deadlock.

For `windows`: a collect() may end after the next began to be due, so ticks wait.
With `HistoryComplete` asked for the whole day instead of a day less `MaxLag`, or
with none missing, it fails. Three changes are a first cost, a rise and a fall, or
two rises; nine checks are more than the alerts a new level can raise in a row,
and enough for three checks in a row to post two alerts each, which makes the loop
late by three steps each time (two posts of 7 against ticks 11 apart) until two
checks see one window. Two such teams are the least here: one post of 7 is below
the bound of 8 that `CheckedTwiceOnlyAfterManyAlerts` has on this instance, two
are above, and with its conclusion FALSE the run fails. The teams are alike, so
they may be exchanged. For `agent`: the clock starts an hour
before the hour of the digest and runs past the same hour of the next day, in
steps that let the two processes have tickers of two phases; two processes are the least
between which a digest can be doubled or lost. For `local`: four windows fill
both caps and are one more than a baseline, a spike and a second spike; two
clients and the dashboard are the least with one holding the lock, one waiting,
and the writer between them. `windows`, `agent` and `local` end when checks,
the clock or windows are used up, so they do not check deadlock.

Fairness. Both loops take their next step when they can: their steps wait only
for short critical sections. The pod list fails from time to time but not for
ever (strong fairness on `List`), the pricing API likewise (strong fairness on
`Answer`). Nothing is assumed of the cluster, of reports, of price changes.
`main` of the agent takes its next step when it can (weak fairness on `Boot` and
`Shutdown`): it waits for nothing but the API server of the cluster, whose
calls end. The main goroutine of the local agent goes on when it can (weak
fairness on `Update` and `Dashboard`); of clients nothing is assumed, and
`RequestsAnswered` has the premise that each reads its answer to the end or goes
away at some point.

## 4. Divergences

- `pipeline_nosync`. k8s.go:44 says "New creates an Enricher and starts a
  background sync loop"; it starts none, and neither does `main`, so a container
  that starts later is never billed. `pipeline_liveness` shows the same property
  holds with the loop. So does `StoppedPodsForgotten`, and only with the loop:
  the agent as `main` wires it also goes on billing pods that have stopped, for
  what they had used.
- `claim_complete`. aggregator.go:17 says "complete cost attribution for a
  single pod"; `newCosts[key] = cost` (168) runs per container, and the last
  one's record stays.
- `claim_window`. README.md:119 says "Per-pod costs (15s window)"; the counters
  are never reset, so each window bills all usage since the start.

Not runs of their own:

- The digest announces "Total Cluster Cost (last 24h)" (slack.go:108) and prints
  the total of the latest window, `snap.Total`; the windows of the last 24 hours
  are in the history, which it does not read. As each window bills all usage
  since the start (`claim_window`), it is neither a window's nor a day's cost.
- aggregator.go:226 says "WasteReport returns pods with < 20% utilization"; no
  code stores a request (`CPURequestedMillis` is only read), the utilisation
  stays 0, and 0 is left out of the report, which is always empty.
  `WasteReport` and `handleWaste` are modelled, and no property is about them.
- A running container whose cgroup id cannot be found is skipped silently
  (k8s.go:132), also by `New`: `/sys/fs/cgroup/kubepods` may not exist under a
  systemd cgroup driver, cgroup.id may not open or parse. It is billed only if a
  later sync finds it; one that no sync finds never is. This is the premise
  `<>[]Found(c)` of `NewPodsAttributed`.
- manager.go:128 says "Stop detaches all eBPF programs"; the `Stop` methods it
  calls are empty (160, 170, 180, 190), and nothing was attached (149-189). No
  property is about attached programs.
- slack.go:50 says "checks for cost spikes every 5 minutes"; a check with many
  alerts and a slow Slack ends late, and the next follows at once. With 10 s a
  post, it takes some 28 alerts for two checks to see one window
  (`CheckedTwiceOnlyAfterManyAlerts`).
- slack.go:34 says "sends a cost summary every Monday at 9am"; every agent sends
  its own, and the chart gives the webhook to the agent of each node
  (deploy/helm/templates/daemonset.yaml:48-50). `DigestOnce` is about one agent.
  A failed post is not tried again: `DigestSent` counts attempts.
- disk_io.c:45 says "use sector as unique key"; sectors are unique per device
  only, and a completion can then read another disk's request. `InflightDrained`
  and `IssuersCharged` say what holds all the same.
- `--dry-run` is parsed and printed and never read again (main.go:154):
  a dry run starts the collectors, and needs root, as any other
  (`Lifecycle.StartCollector`, with `DryRun` in the configuration).
- The digest (README.md:172 says "every Monday 9am") is sent at the minute of the
  hour at which the process was started, and not at all when the process is
  started again in that hour before it is sent: the premise `early` of `DigestSent`.
- `hours=48` at the history endpoint selects from the 24 hours that are kept;
  and after a late window the 24 hours can lack one: `HistoryComplete`.
- A baseline of 0 raises no alert (slack.go:74), whatever follows, and then
  averages up from 0, so that the same cost may be alerted when it no longer is
  new: the premise `c > 0` of `AlertsMatchSpikes`. The local agent does the same.
- A local client that stops reading holds the read lock; `Update` waits for it,
  and every later request for `Update`: the premise of `RequestsAnswered`.
- Errors of `ListenAndServe` are dropped (prometheus.go:37, api.go:48).
- In the probes, two CPUs that find no entry both insert one with `BPF_ANY`
  (network_bytes.c:83, disk_io.c:77, cpu_cycles.c:52), and what was counted in
  the first is lost (`BPF_NOEXIST` would keep it); with a third CPU an addition
  through a pointer to a replaced element can reach another cgroup's entry. The
  premises of the probes' properties show both.
- `cycles` counts samples (cpu_cycles.c:47) while the period, in cycles, is added
  to `task_clock_ns` (48).

## 5. Proofs

Every safety and action property that a passing run checks is a theorem, for all
values of the constants that meet the named assumptions of the modules.

`PartialMapsProofs` holds what the others share: how a partial map changes, what
the insertions, deletions and writes of `BpfHash` do to elements in use and to
others (`InsertFacts`, `ReplaceFacts`, `FullFacts`, `DeletedFacts`,
`WriteFacts`), and sums over finite sets. The recursion that defines a sum
cannot be reasoned about by an induction theorem here, so each lemma on sums is
proved by a minimal counterexample, the order of strict subsets of a finite set
being well-founded (`MinimalSubset`): a sum takes one more element, agrees with
another sum of equal terms, and is the sum of the sums of a partition.

### `PipelineProofs`

For any containers, pods, tables and history length, with or without the sync
loop:

- `TypeCorrect`: `Spec => []TypeOK`. `TypeInvariant` strengthens it by
  `history \in Seq(Snapshots)`, without which nothing is known of `Tail`.
- `BillsOneCutCorrect`: `Spec => []LatestBillsOneCut`. Not inductive by itself:
  `CutInvariant` adds that both cgroup maps tie a cgroup to its own container's
  pod (else the record computed next could be another pod's), and that there
  are no records between two loops (else a new copy would disturb them).
- `SteadyPodsCorrect`: `Spec => []SteadyPodsBilled`, with `steady` inside the map
  the loop resolves in.
- `LatestCorrect`: `Spec => []LatestMatchesPodCosts` (the last snapshot holds the
  records of podCosts); `HistoryCorrect`:
  `Spec => HistoryOnlySlides`. Both rest on lemmas on sequences.
- `KeepsLedgerCorrect`: `Spec => KeepsLedger`, the refinement of `CostLedger`. Most
  steps change nothing the ledger has, or are one of its actions as they stand.
  `CollectPublish` is `Bill` by the two invariants above: `LatestBillsOneCut` gives
  each record the container it pays for, `SteadyPodsBilled` the pods that must pay.
- `EndpointsCorrect`: `Spec => []EndpointsAgree`. Every snapshot kept adds up
  when it is published; its rows by team, namespace and pod are sums of
  partitions of the pods billed.

### `TimerProofs`

`Pricer` and `Digest` share no state; `Pricer`'s specification bears its name
(`PricerSpec`, `PricerTypeOK`), so that one module can extend both.

`Pricer`, for any timeout and delay, the delay being at most an hour (the store follows
the answer at once):

- `RefreshesBoundedCorrect`: `PricerSpec => []RefreshesBounded`. The invariant is that
  no two refreshes have one age (one `Get` per tick) and none outlives timeout
  and delay, so that ages are an injection into an interval.
- `ServedAgeCorrect`: `PricerSpec => []ServedAgeBounded`. `AgeInvariant`: while no fetch
  has failed and a `Get` has seen the table stale, a refresh is under way that was
  started then, and it grows old with the table; what is left of its life bounds
  the table's age.
- `FetchedAtCorrect`: `PricerSpec => FetchedAtBarelyRegresses`, from the lives alone.
- `PricerTypeCorrect`: `PricerSpec => []PricerTypeOK`.

`Digest`, for any clock within a week that reaches the digest's hour and starts outside
it, any configurations and number of starts:

- `DigestTypeCorrect`: `Spec => []TypeOK`, inductive as it stands.
- `DigestOnceCorrect`: `Spec => []DigestOnce`; `DigestSentCorrect`:
  `Spec => []DigestSent`. `HourInvariant`: the ticks of one process are an hour
  apart and the first comes an hour after its start, so that once a digest is
  posted or being written the next tick of whoever runs, a later process
  included, is past the hour; and a process that ran before nine has a tick in
  the hour to come until it takes it.

### `CostWindowsProofs`

For any teams, costs, periods, lags and caps, with any number of changes and
checks:

- `AlertsMatchSpikesCorrect`: `Spec => []AlertsMatchSpikes`. Not inductive by
  itself, since the baseline decides the alert: `SeenInvariant` adds that every
  baseline lies between two costs its team was seen to have, and that a team
  without a baseline was never seen. Its only arithmetic is the lemma that the
  moving average lies between what it averages.
- `HistoryCompleteCorrect`: `Spec => []HistoryComplete`. The history is cut by
  number and asked by time. `SlotsInvariant` puts each snapshot into the slot of
  a tick of its own, at most `MaxLag` after the tick; `KeptInvariant` says that
  what was dropped and is younger than a day is one snapshot at most, since as
  many slots follow it as the history has places.
- `CheckedTwiceOnlyAfterManyAlertsCorrect`:
  `Spec => CheckedTwiceOnlyAfterManyAlerts`. `PostInvariant`: a tick waits in the
  channel no longer than the posts of the check under way have taken, so a check
  is late by no more than the posts of the one before. `FreshInvariant` bounds
  the time since the tick of the last check while nothing was published after
  that check, by where `Run` is and by that lateness (`Slack`); a check that
  finds nothing new comes when this time is `CheckPeriod` at least. Nothing is
  assumed of how periods, lag and timeout compare.
- `AlertsSubsideCorrect`: `Spec => []AlertsSubside`. `SubsideInvariant`: after k
  alerts in a row at one cost, at most `Left[k + 1]` thousandths of the gap
  between cost and baseline are left, but for what the divisions of the average
  drop. A cost is alerted when more than half of it is gap, and after seven
  alerts less is left. Costs are 0 or at least 200 units, the unit being fine
  enough: the code's are floating-point, without such a loss.
- `WindowsTypeCorrect`: `Spec => []TypeOK`, with the ranges of the history's
  entries and of `lastCheck` added.

### `LocalStoreProofs`

For any pods, profiles, waves, prices, caps and clients, and teams that are
fewer than the alerts kept (the code's list of pods has a handful, and 50 alerts
are kept):

- `ReadersSeeWholeCorrect`: `Spec => []ReadersSeeWhole`. `LockInvariant`: nobody
  reads while `Update` writes, and otherwise the store is the visible one.
- `KeepsPromiseCorrect`: `Spec => KeepsPromise`, the refinement of
  `StorePromise`. `UpdateInvariant` says how far `Update` has come: the baselines
  of the teams taken are those of the abstract step, the others are the visible
  ones, and the alerts added enumerate what the teams taken raise, in some order.
  At the end of the loop that is the abstract step; every other step leaves
  `visible` alone. It rests on lemmas that enumerations of sets apart join to
  one of their union, and that a team raises alerts of its own only.
- `TypeCorrect`, `AnswersCorrect`, `BaselinesCorrect`, `SpikesCorrect`:
  `[]TypeOK`, `[]AnswersAgree`, `[]BaselinesWithinCosts`, `[]SpikesAlerted`. The
  refinement does most of the work: `StoreInvariant` and `SeenInvariant` speak of
  what is visible, which changes in the one abstract step only. A window raises
  at most one alert per team, so trimming never takes one of its own.

### `NetworkBytesProofs`

For any finite sets of CPUs and cgroups, and any packets and elements:

- `TypeCorrect`: `Spec => []TypeOK`, from `Shape`, which adds that no element is
  in two uses (of a cgroup, free, or some CPU's extra one).
- `SettledPacketsCorrect`: `Spec => []SettledPacketsCounted`. A settled entry
  stays, since replacing it needs a CPU that found none.
- `ReplacementsCorrect`: `Spec => []ReplacementsBounded`. A replacement uses up a
  CPU that found no entry; while the entry is there no CPU joins these, and the
  one that inserted it has left them.
- `CategoriesCorrect`: `Spec => []CategoriesWithinEgress`. A pointer can outlive
  its element's use. While one cgroup was replaced at most, a CPU's extra element
  is used once (`UsedInvariant`), so nobody holds a pointer to an element no
  cgroup has had (`HeldInvariant`), and none is zeroed between the two additions
  to it (`SumsInvariant`).

### `DiskIOProofs`

For any finite set of requests, and any CPUs, sectors, cgroups and elements of
the two maps:

- `TypeCorrect`: `Spec => []TypeOK`; in particular only a request that was
  recorded is charged.
- `InflightDrainedCorrect`: `Spec => []InflightDrained`, inductive with `Shape`.
- `IssuersChargedCorrect`: `Spec => []IssuersCharged`, and
  `ExactWithoutRacesCorrect`: `Spec => []ExactWithoutRaces`. Three parts:
  `Recorded` says that while no two requests of a sector were out together,
  whatever a pointer into inflight_map reads is the record of the request that
  came back; `UsedInvariant` and `HeldInvariant` are those of the network probe,
  for disk_map; and no entry counts more than the requests of its cgroup that
  came back, found their record and are no longer in the hands of a CPU
  (`ChargedInvariant`), and just these while no entry was replaced
  (`ExactInvariant`).

### `CpuCyclesProofs`

For any finite set of CPUs, and any cgroups, elements, period and bound on the
samples:

- `TypeCorrect`: `Spec => []TypeOK`. `TypeInvariant` says more of the samples:
  those lost and those that wait to be counted are no more than were taken, and
  an element that belongs to a cgroup (through the key or through a CPU's
  pointer) counts one at least, so that no event reports none.
- `CountersCorrect`: `Spec => []CountersAgree`. The addition goes to an element
  and not to a cgroup, so the two counters are compared element by element:
  `SumsInvariant` says that cycles, each worth a period, and clock differ by the
  samples between the two additions. That an insertion zeroes no element somebody
  is adding to takes `OwnersInvariant`: while one cgroup was replaced at most, an
  element is put to use once, and so has one owner. A CPU that has used its
  extra element would need a second replacement of the cgroup, and it no longer
  is among those that found no entry (`UsedInvariant`).
- `EventsCorrect`: `Spec => []EventsNotAhead`. `EventsInvariant`: what an element
  counts and what its owner's CPUs have still to count are within the owner's
  samples; the event reads such an element.
- `CountsCorrect`: `Spec => []CountsTrackSamples`. `CountsInvariant`: without
  replacements every pointer is the entry's, and what the entry counts, what is
  lost and what waits are all the samples.

### Only model-checked

- Liveness under fairness (`NewPodsAttributed`, `StoppedPodsForgotten`,
  `FreshAgain`, `ShutdownEnds`, `RequestsAnswered`), which the prover cannot
  reason about.
- The claims of section 4, which are refuted.

## 6. Plan

Every component with logic has its module, every safety and action property a
passing run checks is proved, and so are the two refinements. What would be
worth adding when the code grows: the read loops of the probes and their attach
(stubs now), and the requests of a pod, once something stores them.

## 7. Not modelled

Floating-point rounding, formatting, logging, label values (constants of a
run), CORS and HTTP itself, the tables of prices, the random noise of the
simulated load, the text of messages and of the dashboard. Fields of a record
that are only carried along are left out. The Makefile, the image and the chart
hold no program logic; what they give the agent (restarts, the probe of the
metrics port) is `Kill` and `Restart` in `Lifecycle`.
