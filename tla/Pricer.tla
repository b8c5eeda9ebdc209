-------------------------------- MODULE Pricer --------------------------------
(***************************************************************************)
(* The price cache (internal/pricing/engine.go) in time.  Get returns the  *)
(* cached table and, when that is older than an hour, starts a refresh in  *)
(* a goroutine of its own; nothing keeps two refreshes from running at     *)
(* once, and each stores what it fetched when it gets there.               *)
(*                                                                         *)
(* Time is counted in ticks of the aggregator's ticker (15 s), the only    *)
(* caller of Get.  Only ages are kept.  A table is its source and the age  *)
(* of its FetchedAt: the tables of one provider and region differ in       *)
(* nothing else that matters here.                                         *)
(***************************************************************************)
EXTENDS Naturals, FiniteSets, PartialMaps

CONSTANTS
    provider,      \* p.provider
    Hour,          \* ticks in an hour
    Timeout,       \* ticks in the HTTP client's timeout of 30 s
    StoreDelay,    \* bound: ticks a goroutine may take from time.Now() to the store
    Refreshers,    \* identities for the refresh goroutines
    MaxAge         \* bound: an age of MaxAge stands for that age or more

ASSUME ProviderAssumption == provider \in {"aws", "gcp", "azure", "other"}
ASSUME HourAssumption == Hour \in Nat \ {0}
ASSUME TimeoutAssumption == Timeout \in Nat \ {0}
ASSUME StoreDelayAssumption == StoreDelay \in Nat /\ StoreDelay <= Hour
ASSUME MaxAgeAssumption == MaxAge \in Nat /\ MaxAge > Hour + Timeout + StoreDelay + 2
ASSUME RefreshersAssumption ==
    IsFiniteSet(Refreshers) /\ Cardinality(Refreshers) > Timeout + StoreDelay + 1

VARIABLES
    prices,      \* p.prices: its source and the age of its FetchedAt
    refreshes,   \* the refresh goroutines that are running
    due,         \* has the aggregator's ticker fired since its last Get?
    failed,      \* history variable: has a fetch failed since the last store?
    served       \* history variable: the age of the table the last Get returned,
                 \* and failed at that time

pricerVars == <<prices, refreshes, due, failed, served>>

Ages == 0 .. MaxAge

(* A goroutine is fetching, or has stamped its table and is to store it.   *)
(* Its life counts the ticks since it was started, its stamp those since   *)
(* the table's FetchedAt.                                                  *)
Refresh == [pc : {"fetch", "store"}, life : 0 .. Timeout + StoreDelay, stamp : 0 .. StoreDelay]

PricerTypeOK ==
    /\ prices \in [source : {"default", "fetched"}, age : Ages]
    /\ IsMap(refreshes, Refreshers, Refresh)
    /\ due \in BOOLEAN
    /\ failed \in BOOLEAN
    /\ served \in [age : Ages, failed : BOOLEAN]

(* Which outcomes a fetch can have.  GCP's makes no call at all, an        *)
(* unsupported provider has no table.                                      *)
CanAnswer == provider # "other"
CanFail == provider # "gcp"

(* New: the first refresh is awaited; when it fails the defaults take its  *)
(* place, stamped as fetched now.                                          *)
PricerInit ==
    /\ prices \in [source : {"default", "fetched"}, age : {0}]
    /\ prices.source = "default" => CanFail
    /\ prices.source = "fetched" => CanAnswer
    /\ refreshes = NoKeys
    /\ due = FALSE
    /\ failed = (prices.source = "default")
    /\ served = [age |-> 0, failed |-> failed]

-----------------------------------------------------------------------------
Stale == prices.age > Hour

Started(r) == Put(refreshes, r, [pc |-> "fetch", life |-> 0, stamp |-> 0])
Ended(r) == [x \in DOMAIN refreshes \ {r} |-> refreshes[x]]

FreeRefresher == CHOOSE r \in Refreshers : r \notin DOMAIN refreshes

(* Mutant: the refresh is started at the first stale Get only.             *)
GetTriesOnce ==
    /\ due
    /\ due' = FALSE
    /\ served' = [age |-> prices.age, failed |-> failed]
    /\ refreshes' = IF prices.age = Hour + 1 THEN Started(FreeRefresher) ELSE refreshes
    /\ UNCHANGED <<prices, failed>>

(* Mutant: one more tick of grace before the refresh is started.            *)
GetLate ==
    /\ due
    /\ due' = FALSE
    /\ served' = [age |-> prices.age, failed |-> failed]
    /\ refreshes' = IF prices.age > Hour + 1 THEN Started(FreeRefresher) ELSE refreshes
    /\ UNCHANGED <<prices, failed>>

(* Get returns the table it read, stale or not.                            *)
Get ==
    /\ due
    /\ due' = FALSE
    /\ served' = [age |-> prices.age, failed |-> failed]
    /\ refreshes' = IF Stale THEN Started(FreeRefresher) ELSE refreshes
    /\ UNCHANGED <<prices, failed>>

(* Mutant: FetchedAt is the time the request was sent.                     *)
AnswerStampsStart(r) ==
    /\ CanAnswer
    /\ r \in DOMAIN refreshes
    /\ refreshes[r].pc = "fetch"
    /\ refreshes' = [refreshes EXCEPT ![r].pc = "store", ![r].stamp = refreshes[r].life]
    /\ UNCHANGED <<prices, due, failed, served>>

(* The provider's answer is read: the table is built and stamped.          *)
Answer(r) ==
    /\ CanAnswer
    /\ r \in DOMAIN refreshes
    /\ refreshes[r].pc = "fetch"
    /\ refreshes' = [refreshes EXCEPT ![r].pc = "store"]
    /\ UNCHANGED <<prices, due, failed, served>>

(* The fetch or the parse fails, or the client's timeout ends it: the      *)
(* error is dropped and the table stays.                                   *)
Fail(r) ==
    /\ CanFail
    /\ r \in DOMAIN refreshes
    /\ refreshes[r].pc = "fetch"
    /\ refreshes' = Ended(r)
    /\ failed' = TRUE
    /\ UNCHANGED <<prices, due, served>>

(* p.prices = prices, under the lock.                                      *)
Store(r) ==
    /\ r \in DOMAIN refreshes
    /\ refreshes[r].pc = "store"
    /\ prices' = [source |-> "fetched", age |-> refreshes[r].stamp]
    /\ refreshes' = Ended(r)
    /\ failed' = FALSE
    /\ UNCHANGED <<due, served>>

-----------------------------------------------------------------------------
(* Time.  A fetch is over by the client's timeout, and a goroutine that    *)
(* has stamped its table stores it within StoreDelay.                      *)

(* Mutant: a client without a timeout.                                     *)
MayWaitForever(r) == refreshes[r].pc = "store" => refreshes[r].stamp < StoreDelay

MayWait(r) ==
    IF refreshes[r].pc = "fetch" THEN refreshes[r].life < Timeout
                                 ELSE refreshes[r].stamp < StoreDelay

OneTickOlder(r) ==
    [refreshes[r] EXCEPT !.life = @ + 1,
                         !.stamp = IF refreshes[r].pc = "store" THEN @ + 1 ELSE @]

(* collect() takes less than a tick, so Get has been called by the next.   *)
Tick ==
    /\ ~due
    /\ \A r \in DOMAIN refreshes : MayWait(r)
    /\ due' = TRUE
    /\ prices' = [prices EXCEPT !.age = IF @ < MaxAge THEN @ + 1 ELSE @]
    /\ refreshes' = [r \in DOMAIN refreshes |-> OneTickOlder(r)]
    /\ UNCHANGED <<failed, served>>

PricerNext ==
    \/ Get
    \/ \E r \in Refreshers : Answer(r) \/ Fail(r) \/ Store(r)
    \/ Tick

PricerSpec == PricerInit /\ [][PricerNext]_pricerVars

(* Time passes, the aggregator calls Get, goroutines run, and the API,     *)
(* tried again and again, does answer at some point.                       *)
Fairness ==
    /\ WF_pricerVars(Tick)
    /\ WF_pricerVars(Get)
    /\ WF_pricerVars(\E r \in Refreshers : Fail(r) \/ Store(r))
    /\ SF_pricerVars(\E r \in Refreshers : Answer(r))

PricerFairSpec == PricerSpec /\ Fairness

-----------------------------------------------------------------------------
(* Get starts a refresh at every call while the table is stale, without    *)
(* asking whether one is running; the client's timeout alone keeps their   *)
(* number down, to one per tick that a refresh can last.                   *)
RefreshesBounded == Cardinality(DOMAIN refreshes) <= Timeout + StoreDelay + 1

(* The aggregator bills with a table much older than an hour only if a     *)
(* fetch has failed since that table was stored: else the refresh Get      *)
(* starts behind the caller's back lands in time for the Gets after it,    *)
(* however the goroutines overlap.                                         *)
ServedAgeBounded == served.failed \/ served.age <= Hour + 1 + Timeout + StoreDelay

(* Overlapping refreshes may store in another order than they fetched.     *)
(* The later store wins, but takes FetchedAt back by no more than the time *)
(* from a stamp to its store.                                              *)
FetchedAtBarelyRegresses ==
    [][\A r \in Refreshers : Store(r) => prices'.age <= prices.age + StoreDelay]_pricerVars

(* A stale table is replaced at some point, however many refreshes fail    *)
(* before.                                                                 *)
FreshAgain == Stale ~> ~Stale
=============================================================================
